---------------------------- MODULE Files_proofs ----------------------------
(***************************************************************************)
(* Proofs about the file commands at their two levels.                     *)
(*                                                                         *)
(* BinaryIO, for every length of file, data and chunk: what a successful   *)
(* read returns and a successful update leaves behind, and what an update  *)
(* that fails between two chunks has done.                                 *)
(*                                                                         *)
(* ShellFiles, for every tree and every card: that export and fsdump leave *)
(* nothing out and end where they began (what is not told yet lies ahead   *)
(* of the walk), and that what was written or exported can be read back    *)
(* (the script tells every file that was exported, and what it has been    *)
(* run of was given back).                                                 *)
(***************************************************************************)
EXTENDS BinaryIO, ShellFiles, SequenceTheorems, FiniteSetTheorems, WellFoundedInduction, TLAPS
-----------------------------------------------------------------------------
InRead == pc \in {"read", "reading"}

\* Where the parts of a call are, and what they have in common.
Control ==
  /\ pc # "idle" => result = "none" /\ op # "none"
  /\ InRead => (why = "read" <=> op = "read")
  /\ pc \in {"size", "select", "writing"} => op = "update"
  /\ op = "update" => len <= MaxLen /\ (InRead /\ why = "verify" => len \in Nat)
  /\ op = "none" => ~strayed
  /\ op = "read" => result # "kept"

\* The chunks so far end within the request and, if none went astray, within
\* the file.
Progress ==
  /\ pc \in {"reading", "writing"} => pos <= len
  /\ pc \in {"reading", "writing"} /\ pos > 0 /\ ~strayed => off + pos <= FileLen
  /\ pc = "reading" => got \in [0..(pos - 1) -> Bytes]

\* What the file holds and what has been read, relative to the beginning of
\* the call.
Untouched == op \in {"none", "read"} \/ pc \in {"size", "select"} \/ (InRead /\ why = "conserve")
FileHolds ==
  ~strayed =>
    /\ Untouched => file = before
    /\ pc = "writing" => file = Written(before, off, buf, pos)
    /\ InRead /\ why = "verify" => file = Written(before, off, buf, len)
    /\ op = "update" /\ pc = "idle" => UpdateIsAPrefix
    /\ pc = "reading" => \A i \in 0..(pos - 1) : got[i] = file[off + i]

\* An update whose size was checked begins in the file, so that its chunks are
\* refused before they reach SfiFlag.
Staying ==
  /\ op = "update" /\ sizeKnown /\ pc # "idle" => off <= FileLen
  /\ UpdateStaysInFile

IInv == TypeOK /\ Control /\ Progress /\ FileHolds /\ Staying
          /\ ReadReturnsTheRange /\ SuccessMeansWritten
-----------------------------------------------------------------------------
(* Written.                                                                *)

\* Nothing written leaves the file as it is.
LEMMA WrittenNothing ==
  ASSUME NEW f \in [0..(FileLen - 1) -> Bytes], NEW o \in Nat, NEW b
  PROVE  Written(f, o, b, 0) = f
BY Sizes DEF Written

\* Writing data that is there already changes nothing.
LEMMA WrittenSame ==
  ASSUME NEW f \in [0..(FileLen - 1) -> Bytes], NEW o \in Nat, NEW b, NEW n \in Nat,
         \A i \in 0..(n - 1) : b[i] = f[o + i]
  PROVE  Written(f, o, b, n) = f
<1> SUFFICES ASSUME NEW j \in 0..(FileLen - 1), o <= j, j < o + n
             PROVE  b[j - o] = f[j]
  BY Sizes DEF Written
<1> j - o \in 0..(n - 1) /\ o + (j - o) = j
  BY Sizes
<1> QED  OBVIOUS

\* The next chunk is not empty and ends within the request.
LEMMA ChunkSize ==
  TypeOK /\ pc \in {"reading", "writing"} /\ pos < len =>
    /\ len \in Nat /\ pos \in Nat /\ off \in Nat
    /\ Chunk \in Nat \ {0} /\ pos + Chunk \in Nat /\ pos + Chunk <= len
BY Sizes DEF TypeOK, Chunk, ToEnd
-----------------------------------------------------------------------------
\* The initial states satisfy the invariant.
LEMMA InitIInv == Init => IInv
<1> SUFFICES ASSUME Init PROVE IInv
  OBVIOUS
<1>1. TypeOK
  <2>1. file \in [0..(FileLen - 1) -> Bytes] /\ buf \in [0..(MaxLen - 1) -> Bytes]
    BY Sizes DEF Init
  <2> QED  BY <2>1 DEF Init, TypeOK
<1>2. Control /\ Progress /\ Staying /\ ReadReturnsTheRange /\ SuccessMeansWritten
  BY DEF Init, Control, Progress, Staying, UpdateStaysInFile, ReadReturnsTheRange,
         SuccessMeansWritten, InRead
<1>3. FileHolds
  BY DEF Init, FileHolds, Untouched, InRead
<1> QED  BY <1>1, <1>2, <1>3 DEF IInv

\* Every step keeps the types.
LEMMA TypeOKKept == IInv /\ Next => TypeOK'
<1> SUFFICES ASSUME IInv, Next PROVE TypeOK'
  OBVIOUS
<1> USE DEF IInv, TypeOK, card, request
<1>1. CASE Read
  <2>1. off' \in Nat /\ (len' \in Nat \/ len' = ToEnd)
    BY <1>1, Sizes DEF Read
  <2> QED  BY <1>1, <2>1 DEF Read
<1>2. CASE Update
  <2>1. off' \in Nat /\ len' \in Nat /\ buf' \in [0..(MaxLen - 1) -> Bytes]
    BY <1>2, Sizes DEF Update
  <2>2. pc' \in {"idle", "size"} /\ result' \in {"error", "none"}
    BY <1>2 DEF Update, Finish
  <2> QED  BY <1>2, <2>1, <2>2 DEF Update
<1>3. CASE Answered \/ Lost \/ Reset
  <2>1. CASE Answered
    BY <2>1 DEF Answered
  <2>2. CASE Lost \/ Reset
    <3>1. UNCHANGED <<file, readable, writable, request, len, pc, why, pos, got, result, strayed>>
          /\ alive' \in BOOLEAN
      BY <2>2 DEF Lost, Reset
    <3> QED  BY <3>1
  <2> QED  BY <1>3, <2>1, <2>2
<1>4. CASE Size
  <2>1. len \in Nat /\ len' \in Nat
    BY <1>4, Sizes DEF Size
  <2>2. pc' \in {"idle", "read", "select"} /\ why' \in {"read", "conserve", "verify"}
        /\ result' \in {"none", "ok", "kept", "nothing", "error"}
    BY <1>4 DEF Size, Finish
  <2> QED  BY <1>4, <2>1, <2>2 DEF Size
<1>5. CASE SelectToRead
  <2> DEFINE n == IF len = ToEnd THEN FileLen - off ELSE len
  <2>0. n \in Int
    BY Sizes DEF ToEnd
  <2>1. (len' \in Nat /\ pos' \in Nat) \/ (len' = len /\ pos' = pos)
    <3>1. n >= 0 => n \in Nat
      BY <2>0
    <3> HIDE DEF n
    <3> QED  BY <1>5, <2>0, <3>1 DEF SelectToRead, n
  <2>2. pc' \in {"idle", "select", "reading"} /\ result' \in {"none", "ok", "kept", "nothing", "error"}
    BY <1>5 DEF SelectToRead, ReadReturns, Finish
  <2>3. len' = ToEnd => op' = "read" /\ pc' = "idle"
    BY <1>5, <2>1 DEF SelectToRead, ReadReturns, Finish, Control, InRead, ToEnd
  <2> QED  BY <1>5, <2>1, <2>2, <2>3 DEF SelectToRead
<1>6. CASE ReadChunk \/ ReadElsewhere \/ WriteElsewhere
  <2>1. pos' \in Nat
    BY <1>6, ChunkSize DEF ReadChunk, ReadElsewhere, WriteElsewhere
  <2>2. CASE ReadChunk
    BY <2>1, <2>2 DEF ReadChunk
  <2>3. CASE ReadElsewhere
    BY <2>1, <2>3 DEF ReadElsewhere
  <2>4. CASE WriteElsewhere
    BY <2>1, <2>4 DEF WriteElsewhere
  <2> QED  BY <1>6, <2>2, <2>3, <2>4
<1>7. CASE ReadRaises \/ WriteRaises
  BY <1>7 DEF ReadRaises, WriteRaises, ReadReturns, Finish
<1>8. CASE ReadDone
  <2>1. len \in Nat
    BY <1>8 DEF ReadDone
  <2>2. pc' \in {"idle", "select"} /\ result' \in {"none", "ok", "kept", "nothing", "error"}
    BY <1>8 DEF ReadDone, Finish
  <2> QED  BY <1>8, <2>1, <2>2 DEF ReadDone
<1>9. CASE SelectToWrite \/ WriteDone
  BY <1>9 DEF SelectToWrite, WriteDone, Finish
<1>10. CASE WriteChunk
  <2>1. file' \in [0..(FileLen - 1) -> Bytes]
    <3> SUFFICES ASSUME NEW j \in 0..(FileLen - 1), off + pos <= j, j < off + pos + Chunk
                 PROVE  buf[j - off] \in Bytes
      BY <1>10 DEF WriteChunk
    <3> j - off \in 0..(MaxLen - 1)
      BY <1>10, ChunkSize, Sizes DEF WriteChunk, Control
    <3> QED  OBVIOUS
  <2> QED  BY <1>10, <2>1, ChunkSize DEF WriteChunk
<1> QED  BY <1>1, <1>2, <1>3, <1>4, <1>5, <1>6, <1>7, <1>8, <1>9, <1>10 DEF Next

\* Every step keeps the control state in order.
LEMMA ControlKept == IInv /\ Next => Control'
<1> SUFFICES ASSUME IInv, Next PROVE Control'
  OBVIOUS
<1> USE DEF IInv, TypeOK, Control, InRead, card, request
<1>1. CASE Read \/ Answered \/ Lost \/ Reset
  BY <1>1 DEF Read, Answered, Lost, Reset
<1>2. CASE Update
  <2>1. len' \in Nat /\ len' <= MaxLen
    BY <1>2, Sizes DEF Update
  <2> QED  BY <1>2, <2>1 DEF Update, Finish
<1>3. CASE Size
  <2>1. (len' \in Nat /\ len' <= MaxLen) \/ len' = len
    BY <1>3, Sizes DEF Size
  <2> QED  BY <1>3, <2>1 DEF Size, Finish
<1>4. CASE SelectToRead
  BY <1>4, Sizes DEF SelectToRead, ReadReturns, Finish, ToEnd
<1>5. CASE ReadChunk \/ ReadElsewhere \/ WriteChunk \/ WriteElsewhere
  BY <1>5 DEF ReadChunk, ReadElsewhere, WriteChunk, WriteElsewhere
<1>6. CASE ReadRaises \/ WriteRaises \/ SelectToWrite \/ WriteDone
  BY <1>6 DEF ReadRaises, WriteRaises, SelectToWrite, WriteDone, ReadReturns, Finish
<1>7. CASE ReadDone
  BY <1>7 DEF ReadDone, Finish
<1> QED  BY <1>1, <1>2, <1>3, <1>4, <1>5, <1>6, <1>7 DEF Next

\* Every chunk keeps within the request.
LEMMA ProgressKept == IInv /\ Next => Progress'
<1> SUFFICES ASSUME IInv, Next PROVE Progress'
  OBVIOUS
<1> USE DEF IInv, TypeOK, Progress, card, request
<1>1. CASE Read \/ Answered \/ Size
  BY <1>1 DEF Read, Answered, Size, Finish
<1>2. CASE Update \/ Lost \/ Reset \/ ReadRaises \/ WriteRaises
  BY <1>2 DEF Update, Lost, Reset, ReadRaises, WriteRaises, ReadReturns, Finish
<1>3. CASE SelectToRead
  <2>1. CASE pc' = "reading"
    <3>1. pos' = 0 /\ len' \in Nat /\ got' = Empty
      BY <1>3, <2>1, Sizes DEF SelectToRead, ReadReturns, Finish, ToEnd
    <3>2. got' \in [0..(pos' - 1) -> Bytes]
      BY <3>1 DEF Empty
    <3> QED  BY <2>1, <3>1, <3>2
  <2>2. CASE pc' # "reading"
    BY <1>3, <2>2 DEF SelectToRead, ReadReturns, Finish
  <2> QED  BY <2>1, <2>2
<1>4. CASE ReadChunk
  <2>1. ASSUME NEW i \in 0..(pos + Chunk - 1)
        PROVE  (IF i < pos THEN got[i] ELSE file[off + i]) \in Bytes
    <3>1. i < pos => i \in 0..(pos - 1)
      BY <1>4, ChunkSize DEF ReadChunk
    <3>2. off + i \in 0..(FileLen - 1)
      BY <1>4, ChunkSize, Sizes DEF ReadChunk, InFile
    <3>3. CASE i < pos
      BY <1>4, <3>1, <3>3 DEF ReadChunk
    <3>4. CASE ~(i < pos)
      BY <3>2, <3>4
    <3> QED  BY <3>3, <3>4
  <2>2. got' = [i \in 0..(pos + Chunk - 1) |-> IF i < pos THEN got[i] ELSE file[off + i]]
    BY <1>4 DEF ReadChunk
  <2>0. pos \in Nat /\ Chunk \in Nat /\ pos' = pos + Chunk
    BY <1>4, ChunkSize DEF ReadChunk
  <2>3. got' \in [0..(pos' - 1) -> Bytes]
    <3> HIDE DEF IInv, TypeOK, Progress, Chunk
    <3>1. [i \in 0..(pos + Chunk - 1) |-> IF i < pos THEN got[i] ELSE file[off + i]]
            \in [0..(pos + Chunk - 1) -> Bytes]
      BY <2>1
    <3> QED  BY <2>0, <2>2, <3>1
  <2>4. pc' = "reading" /\ len' = len /\ off' = off /\ len \in Int /\ off \in Nat
    BY <1>4 DEF ReadChunk
  <2>5. off + pos + Chunk <= FileLen
    BY <1>4 DEF ReadChunk, InFile
  <2>6. pos' <= len'
    BY <2>0, <2>4, <1>4, ChunkSize DEF ReadChunk
  <2>7. off' + pos' <= FileLen
    BY <2>0, <2>4, <2>5, Sizes
  <2> HIDE DEF IInv, TypeOK, Chunk
  <2> QED  BY <2>3, <2>4, <2>6, <2>7
<1>5. CASE ReadElsewhere
  <2>1. got' \in [0..(pos' - 1) -> Bytes]
    BY <1>5, ChunkSize DEF ReadElsewhere
  <2> QED  BY <1>5, <2>1, ChunkSize DEF ReadElsewhere
<1>6. CASE ReadDone
  BY <1>6 DEF ReadDone, Finish
<1>7. CASE SelectToWrite \/ WriteDone
  BY <1>7 DEF SelectToWrite, WriteDone, Finish, Control
<1>8. CASE WriteChunk \/ WriteElsewhere
  BY <1>8, ChunkSize, Sizes DEF WriteChunk, WriteElsewhere, InFile
<1> QED  BY <1>1, <1>2, <1>3, <1>4, <1>5, <1>6, <1>7, <1>8 DEF Next

\* What the invariant says of the file, in every state of a call.
LEMMA PrefixHolds == IInv => UpdateIsAPrefix
<1> SUFFICES ASSUME IInv, ~strayed
             PROVE  \E n \in 0..MaxLen : file = Written(before, off, buf, n)
  BY DEF UpdateIsAPrefix
<1> USE DEF IInv, FileHolds, Untouched
<1>1. CASE file = before
  <2>1. before \in [0..(FileLen - 1) -> Bytes] /\ off \in Nat
    BY DEF TypeOK
  <2>2. file = Written(before, off, buf, 0)
    BY <1>1, <2>1, WrittenNothing
  <2> QED  BY <2>2, Sizes
<1>2. CASE pc = "writing"
  <2>1. pos \in 0..MaxLen
    BY <1>2, Sizes DEF TypeOK, Control, Progress
  <2> QED  BY <1>2, <2>1
<1>3. CASE InRead /\ why = "verify"
  <2>1. len \in 0..MaxLen
    BY <1>3, Sizes DEF TypeOK, Control, InRead
  <2> QED  BY <1>3, <2>1
<1>4. CASE op = "update" /\ pc = "idle"
  BY <1>4 DEF UpdateIsAPrefix
<1>5. Untouched \/ pc = "writing" \/ (InRead /\ why = "verify") \/ (op = "update" /\ pc = "idle")
  BY DEF TypeOK, Control, InRead
<1> QED  BY <1>1, <1>2, <1>3, <1>4, <1>5

\* Every step keeps the relation of the file to the request.
LEMMA FileHoldsKept == IInv /\ Next => FileHolds'
<1> SUFFICES ASSUME IInv, Next, ~strayed' PROVE FileHolds'
  BY DEF FileHolds
<1> USE DEF IInv, FileHolds, Untouched, InRead, card, request
<1>1. CASE Read \/ Answered
  BY <1>1 DEF Read, Answered
<1>2. CASE Update
  <2>1. file' = before' /\ pc' \in {"idle", "size"}
    BY <1>2 DEF Update, Finish
  <2>2. before' \in [0..(FileLen - 1) -> Bytes] /\ off' \in Nat
    BY <1>2, TypeOKKept DEF TypeOK
  <2>3. file' = Written(before', off', buf', 0)
    BY <2>1, <2>2, WrittenNothing
  <2>4. UpdateIsAPrefix'
    BY <2>3, Sizes DEF UpdateIsAPrefix
  <2> QED  BY <2>1, <2>4
<1>3. ASSUME UNCHANGED <<file, before, off, buf, strayed>> PROVE UpdateIsAPrefix'
  BY <1>3, PrefixHolds DEF UpdateIsAPrefix
<1>4. CASE Lost \/ Reset
  <2>1. UNCHANGED <<file, request, len, pc, why, pos, got, strayed>>
    BY <1>4 DEF Lost, Reset
  <2> QED  BY <2>1, <1>3
<1>5. CASE Size
  <2>1. UNCHANGED <<file, request, strayed>> /\ op = "update" /\ file = before
        /\ (pc' = "idle" \/ pc' = "select" \/ (pc' = "read" /\ why' = "conserve"))
    BY <1>5 DEF Size, Finish, Control
  <2> QED  BY <2>1, <1>3
<1>6. CASE SelectToRead
  <2>1. UNCHANGED <<file, request, why, strayed>> /\ pc = "read"
    BY <1>6 DEF SelectToRead
  <2>2. CASE pc' = "reading"
    <3>1. pos' = 0 /\ (len = ToEnd \/ len' = len)
      BY <1>6, <2>2 DEF SelectToRead, ReadReturns, Finish
    <3>2. why = "verify" => len \in Nat
      BY <2>1 DEF Control, TypeOK
    <3>3. why = "verify" => len' = len
      BY <3>1, <3>2 DEF ToEnd
    <3> QED  BY <2>1, <2>2, <3>1, <3>3 DEF TypeOK, Control
  <2>3. CASE pc' # "reading"
    <3>1. pc' = "idle" \/ (pc' = "select" /\ why = "conserve")
      BY <1>6, <2>3 DEF SelectToRead, ReadReturns, Finish
    <3> QED  BY <2>1, <3>1, <1>3 DEF Control
  <2> QED  BY <2>2, <2>3
<1>7. CASE ReadChunk
  <2>1. UNCHANGED <<file, request, len, pc, why, strayed>> /\ pc = "reading" /\ pos' = pos + Chunk
        /\ got' = [i \in 0..(pos + Chunk - 1) |-> IF i < pos THEN got[i] ELSE file[off + i]]
    BY <1>7 DEF ReadChunk
  <2>2. pos \in Nat /\ Chunk \in Nat
    BY <1>7, ChunkSize DEF ReadChunk
  <2>3. ASSUME NEW i \in 0..(pos' - 1) PROVE got'[i] = file'[off' + i]
    BY <2>1, <2>2, <2>3
  <2> QED  BY <2>1, <2>3
<1>8. CASE ReadElsewhere \/ WriteElsewhere
  BY <1>8 DEF ReadElsewhere, WriteElsewhere
<1>9. CASE ReadRaises
  <2>1. UNCHANGED <<file, request, strayed>> /\ pc = "reading"
        /\ (pc' = "idle" \/ (pc' = "select" /\ why = "conserve"))
    BY <1>9 DEF ReadRaises, ReadReturns, Finish
  <2> QED  BY <2>1, <1>3 DEF Control
<1>10. CASE ReadDone
  <2>1. UNCHANGED <<file, request, strayed>> /\ pc = "reading" /\ why \in {"read", "conserve", "verify"}
    BY <1>10 DEF ReadDone, TypeOK
  <2>2. pc' = "idle" \/ (pc' = "select" /\ why = "conserve")
    BY <1>10, <2>1 DEF ReadDone, Finish
  <2> QED  BY <2>1, <2>2, <1>3 DEF Control
<1>11. CASE SelectToWrite
  <2>1. UNCHANGED <<file, request, strayed>> /\ pc = "select" /\ op = "update" /\ file = before
        /\ (pc' = "idle" \/ (pc' = "writing" /\ pos' = 0))
    BY <1>11 DEF SelectToWrite, Finish, Control
  <2>2. file = Written(before, off, buf, 0)
    BY <2>1, WrittenNothing DEF TypeOK
  <2> QED  BY <2>1, <2>2, <1>3
<1>12. CASE WriteChunk
  <2>1. file' = [j \in 0..(FileLen - 1) |->
                   IF off + pos <= j /\ j < off + pos + Chunk THEN buf[j - off] ELSE file[j]]
        /\ pos' = pos + Chunk
    BY <1>12 DEF WriteChunk
  <2>2. UNCHANGED <<request, len, pc, why, strayed>> /\ pc = "writing" /\ op = "update"
    BY <1>12 DEF WriteChunk, Control
  <2>3. off \in Nat /\ pos \in Nat /\ Chunk \in Nat
    BY <1>12, ChunkSize DEF WriteChunk
  <2>4. file' = Written(before, off, buf, pos + Chunk)
    <3>1. file = Written(before, off, buf, pos)
      BY <2>2
    <3>2. file' = [j \in 0..(FileLen - 1) |->
                     IF off + pos <= j /\ j < off + pos + Chunk
                     THEN buf[j - off] ELSE Written(before, off, buf, pos)[j]]
      BY <2>1, <3>1, Zenon
    <3> HIDE DEF IInv, FileHolds, Untouched, InRead, card, request
    <3>3. [j \in 0..(FileLen - 1) |->
             IF off + pos <= j /\ j < off + pos + Chunk
             THEN buf[j - off] ELSE Written(before, off, buf, pos)[j]]
            = Written(before, off, buf, pos + Chunk)
      BY <2>3, Sizes DEF Written
    <3> QED  BY <3>2, <3>3
  <2> QED  BY <2>1, <2>2, <2>4
<1>13. CASE WriteRaises
  <2>1. UNCHANGED <<file, request, strayed>> /\ pc = "writing" /\ pc' = "idle"
    BY <1>13 DEF WriteRaises, Finish
  <2> QED  BY <2>1, <1>3 DEF Control
<1>14. CASE WriteDone
  <2>1. UNCHANGED <<file, request, len, strayed>> /\ pc = "writing" /\ pos = len /\ op = "update"
        /\ (pc' = "idle" \/ (pc' = "read" /\ why' = "verify"))
    BY <1>14 DEF WriteDone, Finish, Control
  <2> QED  BY <2>1, <1>3
<1> QED  BY <1>1, <1>2, <1>4, <1>5, <1>6, <1>7, <1>8, <1>9, <1>10, <1>11, <1>12, <1>13, <1>14 DEF Next

\* Every step of an update whose size was checked stays in the file.
LEMMA StayingKept == IInv /\ Next => Staying'
<1> SUFFICES ASSUME IInv, Next PROVE Staying'
  OBVIOUS
<1> USE DEF IInv, TypeOK, Staying, UpdateStaysInFile, card, request
<1>1. CASE Read \/ Answered \/ Lost \/ Reset
  BY <1>1 DEF Read, Answered, Lost, Reset
<1>2. CASE Update
  <2>1. off' \in Nat /\ len' \in Nat
    BY <1>2, Sizes DEF Update
  <2>2. ~strayed' /\ UNCHANGED sizeKnown /\ (pc' # "idle" => ~TooLong)
    BY <1>2 DEF Update, Finish
  <2>3. ASSUME sizeKnown, ~TooLong PROVE off' <= FileLen
    <3>1. ~(len' + off' > FileLen)
      BY <2>3, Zenon DEF TooLong
    <3>2. FileLen \in Nat
      BY Sizes
    <3>3. \A m, n, k \in Nat : ~(m + n > k) => n <= k
      OBVIOUS
    <3> QED  BY <2>1, <3>1, <3>2, <3>3
  <2> QED  BY <2>2, <2>3
<1>3. CASE Size \/ SelectToRead \/ SelectToWrite
  BY <1>3 DEF Size, SelectToRead, SelectToWrite, Finish
<1>4. CASE ReadChunk \/ WriteChunk \/ ReadRaises \/ WriteRaises
  BY <1>4 DEF ReadChunk, WriteChunk, ReadRaises, WriteRaises
<1>5. CASE ReadElsewhere \/ WriteElsewhere
  <2>1. /\ off + pos >= SfiFlag /\ pc # "idle" /\ pc \in {"reading", "writing"}
        /\ UNCHANGED <<request, pc>>
    BY <1>5 DEF ReadElsewhere, WriteElsewhere
  <2>2. op = "update" /\ sizeKnown /\ FileLen < SfiFlag /\ ~strayed => off + pos <= FileLen
    BY <2>1, Sizes DEF Progress
  <2> QED  BY <2>1, <2>2, Sizes
<1>6. CASE ReadDone \/ WriteDone
  <2>1. pc # "idle" /\ UNCHANGED <<op, off, sizeKnown, strayed>>
    BY <1>6 DEF ReadDone, WriteDone
  <2> QED  BY <2>1
<1> QED  BY <1>1, <1>2, <1>3, <1>4, <1>5, <1>6 DEF Next

\* A read that ends well has read its range.
LEMMA ReadReturnsTheRangeKept == IInv /\ Next => ReadReturnsTheRange'
<1> SUFFICES ASSUME IInv, Next, op' = "read", result' = "ok", ~strayed'
             PROVE  off' + len' <= FileLen /\ got' = [i \in 0..(len' - 1) |-> before'[off' + i]]
  BY DEF ReadReturnsTheRange
<1> USE DEF IInv, card, request
<1>1. CASE Lost \/ Reset
  BY <1>1 DEF Lost, Reset, ReadReturnsTheRange
<1>2. CASE Read \/ Update \/ Answered \/ Size \/ SelectToRead \/ ReadRaises \/ SelectToWrite \/ WriteRaises
  BY <1>2 DEF Read, Update, Answered, Size, SelectToRead, ReadRaises, SelectToWrite, WriteRaises,
              ReadReturns, Finish, Control, InRead
<1>3. CASE ReadChunk \/ ReadElsewhere \/ WriteChunk \/ WriteElsewhere \/ WriteDone
  BY <1>3 DEF ReadChunk, ReadElsewhere, WriteChunk, WriteElsewhere, WriteDone, Control
<1>4. CASE ReadDone
  <2>1. /\ pos = len /\ len > 0 /\ len \in Nat /\ off \in Nat /\ pc = "reading" /\ op = "read"
        /\ UNCHANGED <<off, len, got, before, strayed>>
    BY <1>4 DEF ReadDone, TypeOK
  <2>2. off + len <= FileLen
    BY <2>1 DEF Progress
  <2>3. \A i \in 0..(len - 1) : got[i] = before[off + i]
    BY <2>1 DEF FileHolds, Untouched
  <2>4. got = [i \in 0..(len - 1) |-> before[off + i]]
    BY <2>1, <2>3 DEF Progress
  <2> QED  BY <2>1, <2>2, <2>4
<1> QED  BY <1>1, <1>2, <1>3, <1>4 DEF Next

\* An update that ends well has written its data.
LEMMA SuccessMeansWrittenKept == IInv /\ Next => SuccessMeansWritten'
<1> SUFFICES ASSUME IInv, Next, op' = "update", result' \in {"ok", "kept"}, ~strayed'
             PROVE  file' = Written(before', off', buf', len')
  BY DEF SuccessMeansWritten
<1> USE DEF IInv, card, request
<1>1. CASE Lost \/ Reset
  BY <1>1 DEF Lost, Reset, SuccessMeansWritten
<1>2. CASE Read \/ Update \/ Answered \/ Size \/ SelectToRead \/ ReadRaises \/ SelectToWrite \/ WriteRaises
  BY <1>2 DEF Read, Update, Answered, Size, SelectToRead, ReadRaises, SelectToWrite, WriteRaises,
              ReadReturns, Finish, Control, InRead
<1>3. CASE ReadChunk \/ ReadElsewhere \/ WriteChunk \/ WriteElsewhere
  BY <1>3 DEF ReadChunk, ReadElsewhere, WriteChunk, WriteElsewhere, Control
<1>4. CASE ReadDone
  <2>1. /\ pos = len /\ len \in Nat /\ off \in Nat /\ pc = "reading" /\ op = "update"
        /\ UNCHANGED <<file, off, len, buf, before, strayed>> /\ why \in {"conserve", "verify"}
    BY <1>4 DEF ReadDone, TypeOK, Control, InRead
  <2>2. CASE why = "verify"
    BY <2>1, <2>2 DEF FileHolds, InRead
  <2>3. CASE why = "conserve"
    <3>1. \A i \in 0..(len - 1) : buf[i] = before[off + i]
      BY <1>4, <2>1, <2>3 DEF ReadDone, Finish, Same, FileHolds, Untouched, InRead, Control
    <3>2. Written(before, off, buf, len) = before
      BY <2>1, <3>1, WrittenSame DEF TypeOK
    <3> QED  BY <2>1, <2>3, <3>2 DEF FileHolds, Untouched, InRead
  <2> QED  BY <2>1, <2>2, <2>3
<1>5. CASE WriteDone
  <2>1. pc = "writing" /\ pos = len /\ UNCHANGED <<file, off, len, buf, before, strayed>>
    BY <1>5 DEF WriteDone
  <2> QED  BY <2>1 DEF FileHolds
<1> QED  BY <1>1, <1>2, <1>3, <1>4, <1>5 DEF Next
-----------------------------------------------------------------------------
\* The invariant, for every file, request and behaviour of the link.
THEOREM InvariantHolds == Spec => []IInv
<1>1. IInv /\ [Next]_vars => IInv'
  <2>1. CASE Next
    BY <2>1, TypeOKKept, ControlKept, ProgressKept, FileHoldsKept, StayingKept,
       ReadReturnsTheRangeKept, SuccessMeansWrittenKept DEF IInv
  <2>2. CASE UNCHANGED vars
    BY <2>2 DEF vars, card, request, IInv, TypeOK, Control, Progress, FileHolds, Untouched, Staying,
                UpdateStaysInFile, UpdateIsAPrefix, InRead, ReadReturnsTheRange, SuccessMeansWritten
  <2> QED  BY <2>1, <2>2
<1> QED  BY InitIInv, <1>1, PTL DEF Spec

\* Every reachable state has the types of TypeOK (commands.py:308-407).
THEOREM Typing == Spec => []TypeOK
<1>1. IInv => TypeOK
  BY DEF IInv
<1> QED  BY InvariantHolds, <1>1, PTL

\* However a read is cut into chunks, success means the bytes asked for
\* (commands.py:319-341).
THEOREM ReadsAreRight == Spec => []ReadReturnsTheRange
<1>1. IInv => ReadReturnsTheRange
  BY DEF IInv
<1> QED  BY InvariantHolds, <1>1, PTL

\* However an update is cut into chunks, and with or without conserve_write and
\* verify, success means the data is in the file (commands.py:372-407).
THEOREM UpdatesAreRight == Spec => []SuccessMeansWritten
<1>1. IInv => SuccessMeansWritten
  BY DEF IInv
<1> QED  BY InvariantHolds, <1>1, PTL

\* An update that stops between two chunks has written a prefix of its data and
\* nothing else (commands.py:386-399).
THEOREM PartialUpdates == Spec => []UpdateIsAPrefix
<1> QED  BY InvariantHolds, PrefixHolds, PTL

\* The size check keeps every chunk below the offset that would make it address
\* another file, when the file is that short (runtime.py:542-561).
THEOREM UpdatesStay == Spec => []UpdateStaysInFile
<1>1. IInv => UpdateStaysInFile
  BY DEF IInv, Staying
<1> QED  BY InvariantHolds, <1>1, PTL
-----------------------------------------------------------------------------
(* The tree.                                                               *)

LEMMA BelowItself ==
  ASSUME NEW x \in Names
  PROVE  x \in Below[x]
BY DEF Below

\* What is below a file of what is below x is below x.
LEMMA BelowIsClosed ==
  ASSUME NEW x \in Names, NEW d \in Below[x], d \in Dirs, NEW g \in Inside(d)
  PROVE  g \in Below[x]
<1>1. g \in Names
  BY TreeAssumption DEF Inside
<1>2. ASSUME NEW S \in ClosedBelow, x \in S
      PROVE  g \in S
  <2>1. d \in S
    BY <1>2 DEF Below
  <2> QED BY <2>1, <1>2 DEF ClosedBelow
<1> QED BY <1>1, <1>2 DEF Below

\* A file below a directory is the directory or below a name in it.
LEMMA BelowADirectory ==
  ASSUME NEW d \in Dirs, NEW f \in Below[d], f # d
  PROVE  \E k \in 1..Len(Tree[d]) : f \in Below[Tree[d][k]]
<1> DEFINE S == {y \in Names : y = d \/ \E k \in 1..Len(Tree[d]) : y \in Below[Tree[d][k]]}
<1>1. Tree[d] \in Seq(Names) /\ d \in Names
  BY TreeAssumption DEF Names
<1>2. ASSUME NEW e \in S \cap Dirs, NEW g \in Inside(e)
      PROVE  g \in S
  <2>0. g \in Names
    BY TreeAssumption DEF Inside
  <2>1. CASE e = d
    <3>1. PICK k \in 1..Len(Tree[d]) : g = Tree[d][k]
      BY <2>1, <1>1 DEF Inside
    <3>2. g \in Below[Tree[d][k]]
      BY <2>0, <3>1, BelowItself
    <3> QED BY <2>0, <3>2
  <2>2. CASE e # d
    <3>1. PICK k \in 1..Len(Tree[d]) : e \in Below[Tree[d][k]]
      BY <2>2
    <3>2. Tree[d][k] \in Names
      BY <1>1
    <3>3. g \in Below[Tree[d][k]]
      BY <3>1, <3>2, BelowIsClosed
    <3> QED BY <2>0, <3>3
  <2> QED BY <2>1, <2>2
<1>3. S \in ClosedBelow
  BY <1>2 DEF ClosedBelow
<1>4. d \in S
  BY <1>1
<1>5. f \in S
  BY <1>1, <1>3, <1>4 DEF Below
<1> QED BY <1>5

\* Nothing is below an EF.
LEMMA BelowAnEF ==
  ASSUME NEW x \in EFs, NEW f \in Below[x]
  PROVE  f = x
<1>1. {x} \in ClosedBelow
  BY TreeAssumption DEF ClosedBelow, Names
<1> QED BY <1>1 DEF Below, Names
-----------------------------------------------------------------------------
(* The frames of a walk, and the files they still lead to.                 *)

Frame == [dir : Dirs, todo : Seq(Names)]
LeadTo(frs, f) == \E i \in 1..Len(frs) : \E k \in 1..Len(frs[i].todo) : f \in Below[frs[i].todo[k]]

Shorter(frs) == [frs EXCEPT ![1].todo = Tail(@)]
Deeper(frs, d) == <<[dir |-> d, todo |-> Tree[d]], [frs[1] EXCEPT !.todo = Tail(@)]>> \o Tail(frs)

LEMMA FrameParts ==
  ASSUME NEW frs \in Seq(Frame), NEW i \in 1..Len(frs)
  PROVE  frs[i] \in Frame /\ frs[i].dir \in Dirs /\ frs[i].todo \in Seq(Names)
<1>1. PICK g \in Frame : g = frs[i]
  OBVIOUS
<1>2. g.dir \in Dirs /\ g.todo \in Seq(Names)
  BY DEF Frame
<1> QED BY <1>1, <1>2

LEMMA RestOfTodo ==
  ASSUME NEW frs \in Seq(Frame), frs # <<>>, frs[1].todo # <<>>
  PROVE  Tail(frs[1].todo) \in Seq(Names) /\ Head(frs[1].todo) \in Names
<1>1. PICK t \in Seq(Names) : t = frs[1].todo
  <2>1. 1 \in 1..Len(frs)
    OBVIOUS
  <2> QED BY <2>1, FrameParts
<1>2. t # <<>>
  BY <1>1
<1>3. Tail(t) \in Seq(Names) /\ Head(t) \in Names
  BY <1>2
<1> QED BY <1>1, <1>3

LEMMA ShorterFrames ==
  ASSUME NEW frs \in Seq(Frame), frs # <<>>, frs[1].todo # <<>>
  PROVE  /\ Shorter(frs) \in Seq(Frame) /\ Len(Shorter(frs)) = Len(frs)
         /\ \A i \in 1..Len(frs) : Shorter(frs)[i].dir = frs[i].dir
         /\ Shorter(frs)[1].todo = Tail(frs[1].todo)
         /\ \A i \in 2..Len(frs) : Shorter(frs)[i] = frs[i]
         /\ Head(frs[1].todo) \in Names
<1>1. frs[1] \in Frame /\ Len(frs) \in Nat \ {0}
  OBVIOUS
<1>2. PICK t \in Seq(Names) : t = Tail(frs[1].todo)
  BY RestOfTodo
<1>3. PICK g : g = [frs[1] EXCEPT !.todo = t]
  OBVIOUS
<1>4. g \in Frame /\ g.dir = frs[1].dir /\ g.todo = t
  BY <1>1, <1>2, <1>3 DEF Frame
<1>5. Shorter(frs) = [frs EXCEPT ![1] = g]
  BY <1>2, <1>3 DEF Shorter
<1>6. Head(frs[1].todo) \in Names
  BY RestOfTodo
<1> QED BY <1>1, <1>2, <1>4, <1>5, <1>6

LEMMA ShorterLeads ==
  ASSUME NEW frs \in Seq(Frame), frs # <<>>, frs[1].todo # <<>>, NEW f, LeadTo(frs, f)
  PROVE  f \in Below[Head(frs[1].todo)] \/ LeadTo(Shorter(frs), f)
<1>1. PICK i \in 1..Len(frs) : \E k \in 1..Len(frs[i].todo) : f \in Below[frs[i].todo[k]]
  BY DEF LeadTo
<1>2. PICK k \in 1..Len(frs[i].todo) : f \in Below[frs[i].todo[k]]
  BY <1>1
<1>3. PICK t : t = frs[1].todo
  OBVIOUS
<1>4. t \in Seq(Names)
  BY <1>3, FrameParts
<1>5. CASE i = 1 /\ k = 1
  BY <1>5, <1>2, <1>3, <1>4
<1>6. CASE i = 1 /\ k # 1
  <2>1. k - 1 \in 1..Len(Tail(t)) /\ Tail(t)[k - 1] = t[k]
    BY <1>6, <1>2, <1>3, <1>4
  <2>2. Shorter(frs)[1].todo = Tail(t) /\ 1 \in 1..Len(Shorter(frs))
    BY <1>3, ShorterFrames
  <2> QED BY <2>1, <2>2, <1>2, <1>3, <1>6 DEF LeadTo
<1>7. CASE i # 1
  <2>1. Shorter(frs)[i] = frs[i] /\ i \in 1..Len(Shorter(frs))
    BY <1>7, ShorterFrames
  <2> QED BY <2>1, <1>2 DEF LeadTo
<1> QED BY <1>5, <1>6, <1>7

LEMMA DeeperFrames ==
  ASSUME NEW frs \in Seq(Frame), frs # <<>>, frs[1].todo # <<>>, NEW d \in Dirs
  PROVE  /\ Deeper(frs, d) \in Seq(Frame) /\ Len(Deeper(frs, d)) = Len(frs) + 1
         /\ Deeper(frs, d)[1] = [dir |-> d, todo |-> Tree[d]]
         /\ \A i \in 1..Len(frs) : Deeper(frs, d)[i + 1] = Shorter(frs)[i]
<1>1. frs[1] \in Frame /\ Len(frs) \in Nat \ {0} /\ Tail(frs) \in Seq(Frame) /\ Len(Tail(frs)) = Len(frs) - 1
  OBVIOUS
<1>2. PICK t \in Seq(Names) : t = Tail(frs[1].todo)
  BY RestOfTodo
<1>3. PICK g : g = [frs[1] EXCEPT !.todo = t]
  OBVIOUS
<1>4. g \in Frame
  BY <1>1, <1>2, <1>3 DEF Frame
<1>5. PICK h : h = [dir |-> d, todo |-> Tree[d]]
  OBVIOUS
<1>6. h \in Frame
  BY <1>5, TreeAssumption DEF Frame
<1>7. Shorter(frs) = [frs EXCEPT ![1] = g]
  BY <1>2, <1>3 DEF Shorter
<1>8. Deeper(frs, d) = <<h, g>> \o Tail(frs)
  BY <1>2, <1>3, <1>5 DEF Deeper
<1>9. ASSUME NEW i \in 1..Len(frs)
      PROVE  (<<h, g>> \o Tail(frs))[i + 1] = [frs EXCEPT ![1] = g][i]
  <2>1. CASE i = 1
    BY <2>1, <1>1
  <2>2. CASE i # 1
    BY <2>2, <1>1
  <2> QED BY <2>1, <2>2
<1>10. (<<h, g>> \o Tail(frs)) \in Seq(Frame) /\ Len(<<h, g>> \o Tail(frs)) = Len(frs) + 1 /\ (<<h, g>> \o Tail(frs))[1] = h
  BY <1>1, <1>4, <1>6
<1> QED BY <1>5, <1>7, <1>8, <1>9, <1>10

LEMMA DeeperLeads ==
  ASSUME NEW frs \in Seq(Frame), frs # <<>>, frs[1].todo # <<>>, NEW f \in EFs, LeadTo(frs, f),
         Head(frs[1].todo) \in Dirs
  PROVE  LeadTo(Deeper(frs, Head(frs[1].todo)), f)
<1>1. PICK d \in Dirs : d = Head(frs[1].todo)
  OBVIOUS
<1>2. CASE f \in Below[d]
  <2>1. f # d
    BY TreeAssumption
  <2>2. PICK k \in 1..Len(Tree[d]) : f \in Below[Tree[d][k]]
    BY <1>2, <2>1, BelowADirectory
  <2>3. Deeper(frs, d)[1].todo = Tree[d] /\ 1 \in 1..Len(Deeper(frs, d))
    <3>1. Len(Deeper(frs, d)) = Len(frs) + 1 /\ Deeper(frs, d)[1] = [dir |-> d, todo |-> Tree[d]]
      BY DeeperFrames
    <3> QED BY <3>1
  <2> QED BY <1>1, <2>2, <2>3 DEF LeadTo
<1>3. CASE LeadTo(Shorter(frs), f)
  <2>1. PICK i \in 1..Len(frs) : \E k \in 1..Len(Shorter(frs)[i].todo) : f \in Below[Shorter(frs)[i].todo[k]]
    BY <1>3, ShorterFrames DEF LeadTo
  <2>2. Deeper(frs, d)[i + 1] = Shorter(frs)[i] /\ i + 1 \in 1..Len(Deeper(frs, d))
    <3>1. Len(Deeper(frs, d)) = Len(frs) + 1 /\ Deeper(frs, d)[i + 1] = Shorter(frs)[i]
      BY DeeperFrames
    <3> QED BY <3>1
  <2> QED BY <1>1, <2>1, <2>2 DEF LeadTo
<1> QED BY <1>1, <1>2, <1>3, ShorterLeads

LEMMA PoppedFrames ==
  ASSUME NEW frs \in Seq(Frame), Len(frs) > 1
  PROVE  /\ Tail(frs) \in Seq(Frame) /\ Tail(frs) # <<>> /\ Len(Tail(frs)) = Len(frs) - 1
         /\ \A i \in 1..(Len(frs) - 1) : Tail(frs)[i] = frs[i + 1]
<1>1. frs # <<>>
  OBVIOUS
<1>2. PICK t \in Seq(Frame) : t = Tail(frs)
  BY <1>1, HeadTailProperties
<1>3. Len(t) = Len(frs) - 1 /\ \A i \in 1..Len(t) : t[i] = frs[i + 1]
  BY <1>1, <1>2, HeadTailProperties
<1>4. t # <<>>
  BY <1>3
<1> QED BY <1>2, <1>3, <1>4

LEMMA PoppedLeads ==
  ASSUME NEW frs \in Seq(Frame), frs # <<>>, frs[1].todo = <<>>, NEW f, LeadTo(frs, f)
  PROVE  Len(frs) > 1 /\ LeadTo(Tail(frs), f)
<1>1. PICK i \in 1..Len(frs) : \E k \in 1..Len(frs[i].todo) : f \in Below[frs[i].todo[k]]
  BY DEF LeadTo
<1>2. i # 1
  BY <1>1
<1>3. i - 1 \in 1..Len(Tail(frs)) /\ Tail(frs)[i - 1] = frs[i] /\ Len(frs) > 1
  BY <1>2
<1>4. PICK j : j = i - 1
  OBVIOUS
<1> QED BY <1>1, <1>3, <1>4, Zenon DEF LeadTo
-----------------------------------------------------------------------------
Walks     == {"export", "dump", "custom"}
WalkSteps == {"select", "read", "back", "next"}

\* Where a job is, and what it has in hand.
JobInv ==
  /\ at \in WalkSteps \cup {"idle", "line"} /\ job \in Walks \cup {"idle", "restore"}
  /\ at = "idle" <=> job = "idle"
  /\ at = "line" <=> job = "restore"
  /\ at # "idle" => last = NoCommand
  /\ at \in WalkSteps => /\ frames \in Seq(Frame) /\ frames # <<>>
                         /\ frames[Len(frames)].dir = home /\ visit \in Names
  /\ at = "next" => sel = Here

Whole     == ~single /\ home = Top
AtHand(f) == at \in {"select", "read"} /\ visit = f
Told(f)   == f \in DOMAIN dumped /\ (~dumped[f].error => dumped[f].content = body[f])

\* What an export has not printed yet, and a dump has no entry for, lies ahead.
ExportInv ==
  /\ DOMAIN exported \subseteq EFs
  /\ job = "export" /\ Whole /\ bad = {} /\ skipped = {} =>
       \A f \in EFs : f \in DOMAIN exported \/ AtHand(f) \/ LeadTo(frames, f)
DumpInv ==
  job \in {"dump", "custom"} /\ Whole =>
    \A f \in EFs : (\A d \in skipped : f \notin Below[d]) => Told(f) \/ AtHand(f) \/ LeadTo(frames, f)

WalkInv == JobInv /\ ExportInv /\ DumpInv /\ WalkIsWhole

\* No report, or one of another job.
Silent == last.op \notin Walks
LEMMA SilentIsWhole == Silent => WalkIsWhole
BY DEF Silent, Walks, WalkIsWhole, ExportIsComplete, DumpCoversTheCard, WalkComesHome

LEMMA SilentStep == (last' = NoCommand => WalkIsWhole') /\ (last'.op \notin Walks => WalkIsWhole')
BY DEF NoCommand, Walks, WalkIsWhole, ExportIsComplete, DumpCoversTheCard, WalkComesHome

LEMMA StoppedStep == stopped' => WalkIsWhole'
BY DEF WalkIsWhole, ExportIsComplete, DumpCoversTheCard, WalkComesHome

\* Outside a walk only the report of the last one matters.
LEMMA NotWalking ==
  ASSUME job \notin Walks
  PROVE  DumpInv /\ (ExportInv <=> DOMAIN exported \subseteq EFs)
BY DEF Walks, DumpInv, ExportInv

LEMMA WalkInit == ShellInit => WalkInv
<1> SUFFICES ASSUME ShellInit
             PROVE  WalkInv
  OBVIOUS
<1>1. JobInv
  BY DEF ShellInit, JobInv, WalkSteps
<1>2. DOMAIN exported = {}
  BY DEF ShellInit, Nothing
<1>3. job \notin Walks
  BY DEF ShellInit, Walks
<1>4. WalkIsWhole
  BY SilentIsWhole DEF ShellInit, NoCommand, Silent, Walks
<1> QED BY <1>1, <1>2, <1>3, <1>4, NotWalking DEF WalkInv

LEMMA StartWalkStep ==
  ASSUME WalkInv, NEW j \in Walks, StartWalk(j)
  PROVE  WalkInv'
<1>1. /\ job' = j /\ at' = "select" /\ last' = NoCommand /\ home' = sel /\ sel \in Dirs
      /\ bad' = {} /\ skipped' = {} /\ exported' = Nothing /\ dumped' = Nothing
  BY DEF StartWalk
<1>2. Tree[sel] \in Seq(Names)
  BY <1>1, TreeAssumption
<1>3. /\ frames' \in Seq(Frame) /\ frames' # <<>> /\ frames'[Len(frames')].dir = sel /\ visit' \in Names
  <2>1. CASE single' = FALSE /\ frames' = <<[dir |-> sel, todo |-> Tree[sel]]>> /\ visit' = sel
    BY <2>1, <1>1, <1>2 DEF Frame, Names
  <2>2. CASE frames' = <<[dir |-> sel, todo |-> <<>>]>> /\ \E i \in DOMAIN Tree[sel] : visit' = Tree[sel][i]
    BY <2>2, <1>1, <1>2 DEF Frame
  <2> QED BY <2>1, <2>2 DEF StartWalk
<1>4. JobInv'
  BY <1>1, <1>3 DEF JobInv, WalkSteps, Walks
<1>5. ASSUME Whole', NEW f \in EFs
      PROVE  LeadTo(frames', f)
  <2>1. sel = Top /\ frames' = <<[dir |-> Top, todo |-> Tree[Top]]>>
    BY <1>1, <1>5 DEF Whole, StartWalk
  <2>2. f \in Below[Top] /\ f # Top
    BY TreeAssumption
  <2>3. PICK k \in 1..Len(Tree[Top]) : f \in Below[Tree[Top][k]]
    BY <2>2, TreeAssumption, BelowADirectory
  <2>4. Len(frames') = 1 /\ frames'[1].todo = Tree[Top]
    BY <2>1
  <2>5. 1 \in 1..Len(frames')
    BY <2>4
  <2> QED BY <2>3, <2>4, <2>5 DEF LeadTo
<1>6. ExportInv'
  BY <1>1, <1>5 DEF ExportInv, Nothing
<1>7. DumpInv'
  BY <1>5 DEF DumpInv
<1>8. WalkIsWhole'
  BY <1>1, SilentStep
<1> QED BY <1>4, <1>6, <1>7, <1>8 DEF WalkInv

LEMMA NotWalkingStep ==
  ASSUME job' \notin Walks
  PROVE  DumpInv' /\ (ExportInv' <=> DOMAIN exported' \subseteq EFs)
BY DEF Walks, DumpInv, ExportInv

\* The steps in which no walk goes on.
LEMMA OtherSteps ==
  ASSUME WalkInv, RunScript \/ RunLine \/ ScriptDone \/ AccessChanges \/ Equip \/ \E c \in Commands : Type(c)
  PROVE  WalkInv'
<1>1. CASE RunScript
  <2>1. JobInv' /\ last' = NoCommand /\ job' \notin Walks /\ UNCHANGED exported
    BY <1>1 DEF RunScript, JobInv, WalkSteps, Walks, printed
  <2> QED BY <2>1, SilentStep, NotWalkingStep DEF WalkInv, ExportInv
<1>2. CASE RunLine
  <2>1. JobInv' /\ last' = NoCommand /\ job' \notin Walks /\ UNCHANGED exported
    BY <1>2 DEF RunLine, WalkInv, JobInv, WalkSteps, Walks, printed, walking
  <2> QED BY <2>1, SilentStep, NotWalkingStep DEF WalkInv, ExportInv
<1>3. CASE ScriptDone
  <2>1. JobInv' /\ last'.op = "restore" /\ job' \notin Walks /\ UNCHANGED exported
    BY <1>3 DEF ScriptDone, JobInv, WalkSteps, Walks, printed
  <2>2. last'.op \notin Walks
    BY <2>1 DEF Walks
  <2> QED BY <2>1, <2>2, SilentStep, NotWalkingStep DEF WalkInv, ExportInv
<1>4. CASE AccessChanges
  <2>1. JobInv' /\ job' \notin Walks /\ UNCHANGED exported
    BY <1>4 DEF AccessChanges, WalkInv, JobInv, WalkSteps, Walks, printed
  <2>2. WalkIsWhole'
    BY <1>4 DEF AccessChanges, WalkInv, WalkIsWhole, ExportIsComplete, DumpCoversTheCard, WalkComesHome, printed, troubles, walking
  <2> QED BY <2>1, <2>2, NotWalkingStep DEF WalkInv, ExportInv
<1>5. CASE Equip
  <2>1. JobInv' /\ last' = NoCommand /\ job' \notin Walks /\ UNCHANGED exported
    BY <1>5 DEF Equip, WalkInv, JobInv, WalkSteps, Walks, printed
  <2> QED BY <2>1, SilentStep, NotWalkingStep DEF WalkInv, ExportInv
<1>6. ASSUME NEW c \in Commands, Type(c)
      PROVE  WalkInv'
  <2>1. JobInv' /\ job' \notin Walks /\ UNCHANGED exported
    BY <1>6 DEF Type, WalkInv, JobInv, WalkSteps, Walks, printed
  <2>2. last' = NoCommand \/ last'.op = "typed"
    BY <1>6 DEF Type
  <2>3. WalkIsWhole'
    BY <2>2, SilentStep DEF Walks
  <2> QED BY <2>1, <2>3, NotWalkingStep DEF WalkInv, ExportInv
<1> QED BY <1>1, <1>2, <1>3, <1>4, <1>5, <1>6

LEMMA PullStep ==
  ASSUME WalkInv, Pull
  PROVE  WalkInv'
<1>1. UNCHANGED <<sel, job, at, asJson, walking, single, troubles, printed, last, body>>
  BY DEF Pull
<1> QED BY <1>1 DEF WalkInv, JobInv, ExportInv, DumpInv, WalkIsWhole, ExportIsComplete, DumpCoversTheCard, WalkComesHome,
           Here, Whole, AtHand, Told, LeadTo, printed, troubles, walking

LEMMA Added ==
  ASSUME NEW x, NEW v, NEW g
  PROVE  LET h == With(g, x, v)
         IN  /\ DOMAIN h = DOMAIN g \cup {x}
             /\ h[x] = v
             /\ \A y \in DOMAIN g : y # x => h[y] = g[y]
BY DEF With

LEMMA EntryIs ==
  ASSUME NEW e, NEW c, dumped' = Entry(e, c)
  PROVE  /\ DOMAIN dumped' = DOMAIN dumped \cup {visit}
         /\ dumped'[visit].error = e /\ dumped'[visit].content = c
         /\ \A y \in DOMAIN dumped : y # visit => dumped'[y] = dumped[y]
<1>1. PICK v : v = [error |-> e, content |-> c]
  OBVIOUS
<1>2. dumped' = With(dumped, visit, v)
  BY <1>1 DEF Entry
<1>3. DOMAIN dumped' = DOMAIN dumped \cup {visit} /\ dumped'[visit] = v /\ \A y \in DOMAIN dumped : y # visit => dumped'[y] = dumped[y]
  BY <1>2 DEF With
<1> QED BY <1>1, <1>3

LEMMA VisitSelectStep ==
  ASSUME WalkInv, VisitSelect
  PROVE  WalkInv'
<1>1. /\ at = "select" /\ job \in Walks /\ last = NoCommand /\ UNCHANGED <<exported, visit, single, home, skipped, body>>
  BY DEF VisitSelect, WalkInv, JobInv, WalkSteps, Walks, printed, cardVars
<1>2. CASE Reaches(visit)
  <2>1. /\ sel' = visit /\ UNCHANGED <<job, last, frames, stopped, bad, dumped>>
        /\ at' = IF job # "export" /\ visit \in Blank THEN "back" ELSE "read"
    BY <1>2 DEF VisitSelect, Onward
  <2>2. JobInv'
    BY <1>1, <2>1 DEF WalkInv, JobInv, WalkSteps, Walks
  <2>3. \A f \in EFs : AtHand(f) => AtHand(f)' \/ (job # "export" /\ visit \in Blank /\ visit = f)
    BY <1>1, <2>1 DEF AtHand
  <2>4. \A f \in EFs : AtHand(f) => AtHand(f)'
    BY <2>3, TreeAssumption
  <2>5. ExportInv'
    BY <1>1, <2>1, <2>4 DEF WalkInv, ExportInv, Whole
  <2>6. DumpInv'
    BY <1>1, <2>1, <2>4 DEF WalkInv, DumpInv, Whole, Told
  <2> QED BY <1>1, <2>1, <2>2, <2>5, <2>6, SilentStep DEF WalkInv
<1>3. CASE ~Reaches(visit) /\ job = "export"
  <2>1. bad' = bad \cup {visit} /\ UNCHANGED <<sel, job, last, frames, stopped>> /\ at' = "back"
    BY <1>3 DEF VisitSelect, Onward
  <2>2. JobInv'
    BY <1>1, <2>1 DEF WalkInv, JobInv, WalkSteps, Walks
  <2>3. ExportInv' /\ DumpInv'
    BY <1>1, <2>1, <1>3 DEF WalkInv, ExportInv, DumpInv
  <2> QED BY <1>1, <2>1, <2>2, <2>3, SilentStep DEF WalkInv
<1>4. CASE ~Reaches(visit) /\ (job = "custom" \/ (job = "dump" /\ linked))
  <2>1. dumped' = Entry(TRUE, <<>>) /\ UNCHANGED <<sel, job, last, frames, stopped, bad>> /\ at' = "back"
    BY <1>4 DEF VisitSelect, Onward
  <2>2. JobInv'
    BY <1>1, <2>1 DEF WalkInv, JobInv, WalkSteps, Walks
  <2>3. ExportInv'
    BY <1>1, <2>1, <1>4 DEF WalkInv, ExportInv
  <2>4. \A f : (Told(f) \/ AtHand(f)) => Told(f)'
    BY <1>1, <2>1, EntryIs DEF Told, AtHand
  <2>5. DumpInv'
    BY <1>1, <2>1, <2>4 DEF WalkInv, DumpInv, Whole
  <2> QED BY <1>1, <2>1, <2>2, <2>3, <2>5, SilentStep DEF WalkInv
<1>5. CASE ~Reaches(visit) /\ job = "dump" /\ ~linked
  <2>1. stopped' /\ job' = "idle" /\ at' = "idle"
    BY <1>5 DEF VisitSelect, StopEarly, EndJob
  <2>2. JobInv' /\ job' \notin Walks
    BY <2>1 DEF JobInv, WalkSteps, Walks
  <2> QED BY <1>1, <2>1, <2>2, StoppedStep, NotWalkingStep DEF WalkInv, ExportInv
<1> QED BY <1>1, <1>2, <1>3, <1>4, <1>5 DEF Walks

LEMMA ExportReadStep ==
  ASSUME WalkInv, ExportRead
  PROVE  WalkInv'
<1>1. /\ at = "read" /\ job = "export" /\ last = NoCommand /\ at' = "back"
      /\ UNCHANGED <<visit, single, home, skipped, body, sel, job, last, frames, stopped, dumped>>
  BY DEF ExportRead, Onward, WalkInv, JobInv, WalkSteps, Walks, cardVars
<1>2. JobInv'
  BY <1>1 DEF WalkInv, JobInv, WalkSteps, Walks
<1>3. DumpInv'
  BY <1>1 DEF DumpInv
<1>4. ExportInv'
  <2>1. CASE visit \in Dirs /\ UNCHANGED <<exported, bad>>
    <3>1. \A f \in EFs : ~AtHand(f)
      BY <2>1, TreeAssumption DEF AtHand
    <3> QED BY <1>1, <2>1, <3>1 DEF WalkInv, ExportInv, Whole
  <2>2. CASE visit \in EFs /\ exported' = With(exported, visit, body[visit]) /\ UNCHANGED bad
    <3>1. DOMAIN exported' = DOMAIN exported \cup {visit}
      BY <2>2, Added
    <3> QED BY <1>1, <2>2, <3>1 DEF WalkInv, ExportInv, Whole, AtHand
  <2>3. CASE bad' = bad \cup {visit} /\ UNCHANGED exported
    BY <2>3 DEF WalkInv, ExportInv
  <2> QED BY <2>1, <2>2, <2>3 DEF ExportRead
<1> QED BY <1>1, <1>2, <1>3, <1>4, SilentStep DEF WalkInv

LEMMA DumpReadStep ==
  ASSUME WalkInv, DumpRead
  PROVE  WalkInv'
<1>1. /\ at = "read" /\ job \in {"dump", "custom"} /\ last = NoCommand
      /\ UNCHANGED <<visit, single, home, skipped, body, sel, exported, bad>>
  BY DEF DumpRead, WalkInv, JobInv, WalkSteps, Walks, cardVars
<1>2. ASSUME NEW e, NEW c, dumped' = Entry(e, c), visit \in EFs /\ ~e => c = body[visit], Onward("back")
      PROVE  WalkInv'
  <2>1. UNCHANGED <<job, last, frames, stopped>> /\ at' = "back"
    BY <1>2 DEF Onward
  <2>2. JobInv'
    BY <1>1, <2>1 DEF WalkInv, JobInv, WalkSteps, Walks
  <2>3. ExportInv'
    BY <1>1, <2>1 DEF WalkInv, ExportInv
  <2>4. \A f \in EFs : (Told(f) \/ AtHand(f)) => Told(f)'
    BY <1>1, <1>2, EntryIs DEF Told, AtHand
  <2>5. DumpInv'
    BY <1>1, <2>1, <2>4 DEF WalkInv, DumpInv, Whole
  <2> QED BY <1>1, <2>1, <2>2, <2>3, <2>5, SilentStep DEF WalkInv
<1>3. CASE visit \in Dirs /\ dumped' = Entry(FALSE, <<>>) /\ Onward("back")
  <2>1. visit \notin EFs
    BY <1>3, TreeAssumption
  <2> QED BY <1>2, <1>3, <2>1
<1>4. CASE visit \in EFs /\ dumped' = Entry(FALSE, body[visit]) /\ Onward("back")
  BY <1>2, <1>4
<1>5. CASE dumped' = Entry(TRUE, <<>>) /\ Onward("back")
  BY <1>2, <1>5
<1>6. CASE StopEarly
  <2>1. stopped' /\ job' = "idle" /\ at' = "idle"
    BY <1>6 DEF StopEarly, EndJob
  <2>2. JobInv' /\ job' \notin Walks
    BY <2>1 DEF JobInv, WalkSteps, Walks
  <2> QED BY <1>1, <2>1, <2>2, StoppedStep, NotWalkingStep DEF WalkInv, ExportInv
<1> QED BY <1>3, <1>4, <1>5, <1>6 DEF DumpRead

LEMMA VisitBackStep ==
  ASSUME WalkInv, VisitBack
  PROVE  WalkInv'
<1>1. /\ at = "back" /\ job \in Walks /\ last = NoCommand
      /\ UNCHANGED <<visit, single, home, skipped, body, exported, dumped, bad>>
  BY DEF VisitBack, WalkInv, JobInv, WalkSteps, Walks, cardVars, printed
<1>2. CASE sel' = Here /\ Onward("next")
  <2>1. UNCHANGED <<job, last, frames, stopped>> /\ at' = "next"
    BY <1>2 DEF Onward
  <2>2. JobInv'
    BY <1>1, <1>2, <2>1 DEF WalkInv, JobInv, WalkSteps, Walks, Here
  <2>3. ExportInv' /\ DumpInv'
    BY <1>1, <2>1 DEF WalkInv, ExportInv, DumpInv, Whole, AtHand, Told
  <2> QED BY <1>1, <2>1, <2>2, <2>3, SilentStep DEF WalkInv
<1>3. CASE StopEarly
  <2>1. stopped' /\ job' = "idle" /\ at' = "idle"
    BY <1>3 DEF StopEarly, EndJob
  <2>2. JobInv' /\ job' \notin Walks
    BY <2>1 DEF JobInv, WalkSteps, Walks
  <2> QED BY <1>1, <2>1, <2>2, StoppedStep, NotWalkingStep DEF WalkInv, ExportInv
<1> QED BY <1>2, <1>3 DEF VisitBack

LEMMA NextNameStep ==
  ASSUME WalkInv, NextName
  PROVE  WalkInv'
<1> DEFINE f0 == Head(frames[1].todo)
<1>1. /\ at = "next" /\ job \in Walks /\ last = NoCommand /\ frames \in Seq(Frame) /\ frames # <<>>
      /\ frames[1].todo # <<>> /\ frames[Len(frames)].dir = home /\ visit \in Names
      /\ UNCHANGED <<job, single, home, body, bad, stopped, exported, dumped, last>>
  BY DEF NextName, WalkInv, JobInv, WalkSteps, Walks, cardVars, printed
<1>2. /\ Shorter(frames) \in Seq(Frame) /\ Len(Shorter(frames)) = Len(frames) /\ f0 \in Names
      /\ \A i \in 1..Len(frames) : Shorter(frames)[i].dir = frames[i].dir
  BY <1>1, ShorterFrames
<1>3. Shorter(frames) # <<>> /\ Shorter(frames)[Len(Shorter(frames))].dir = home /\ Len(frames) \in Nat \ {0}
  BY <1>1, <1>2
<1>4. \A f \in EFs : ~AtHand(f)
  BY <1>1 DEF AtHand
<1>5. CASE f0 \in Dirs /\ ~Reaches(f0)
  <2>1. skipped' = skipped \cup {f0} /\ frames' = Shorter(frames) /\ UNCHANGED <<at, visit, sel>>
    BY <1>5 DEF NextName, Shorter
  <2>2. sel = Here /\ Here' = Here
    BY <1>1, <1>2, <1>3, <2>1 DEF Here, WalkInv, JobInv
  <2>3. JobInv'
    BY <1>1, <1>2, <1>3, <2>1, <2>2 DEF WalkInv, JobInv, WalkSteps, Walks
  <2>4. ExportInv'
    BY <1>1, <2>1 DEF WalkInv, ExportInv
  <2>5. ASSUME job \in {"dump", "custom"}, Whole, NEW f \in EFs, \A d \in skipped' : f \notin Below[d]
        PROVE  Told(f) \/ LeadTo(Shorter(frames), f)
    <3>1. Told(f) \/ LeadTo(frames, f)
      BY <1>4, <2>1, <2>5 DEF WalkInv, DumpInv
    <3>2. f \notin Below[f0]
      BY <2>1, <2>5
    <3> QED BY <1>1, <3>1, <3>2, ShorterLeads
  <2>6. DumpInv'
    BY <1>1, <2>1, <2>5 DEF DumpInv, Whole, Told
  <2> QED BY <1>1, <2>3, <2>4, <2>6, SilentStep DEF WalkInv
<1>6. CASE ~(f0 \in Dirs /\ ~Reaches(f0)) /\ f0 \in Dirs
  <2>1. at' = "select" /\ visit' = f0 /\ UNCHANGED skipped /\ frames' = Deeper(frames, f0)
    BY <1>6 DEF NextName, Deeper
  <2>2. /\ Deeper(frames, f0) \in Seq(Frame) /\ Len(Deeper(frames, f0)) = Len(frames) + 1
        /\ \A i \in 1..Len(frames) : Deeper(frames, f0)[i + 1] = Shorter(frames)[i]
    BY <1>1, <1>6, DeeperFrames
  <2>3. frames' # <<>> /\ frames'[Len(frames')].dir = home
    BY <1>2, <1>3, <2>1, <2>2
  <2>4. JobInv'
    BY <1>1, <1>2, <2>1, <2>2, <2>3 DEF WalkInv, JobInv, WalkSteps, Walks
  <2>5. \A f \in EFs : LeadTo(frames, f) => LeadTo(frames', f)
    BY <1>1, <1>6, <2>1, DeeperLeads
  <2>6. ExportInv'
    BY <1>1, <1>4, <2>1, <2>5 DEF WalkInv, ExportInv, Whole
  <2>7. DumpInv'
    BY <1>1, <1>4, <2>1, <2>5 DEF WalkInv, DumpInv, Whole, Told
  <2> QED BY <1>1, <2>4, <2>6, <2>7, SilentStep DEF WalkInv
<1>7. CASE f0 \notin Dirs
  <2>1. at' = "select" /\ visit' = f0 /\ UNCHANGED skipped /\ frames' = Shorter(frames)
    BY <1>7 DEF NextName, Shorter
  <2>2. JobInv'
    BY <1>1, <1>2, <1>3, <2>1 DEF WalkInv, JobInv, WalkSteps, Walks
  <2>3. f0 \in EFs
    BY <1>2, <1>7 DEF Names
  <2>4. \A f \in EFs : LeadTo(frames, f) => LeadTo(frames', f) \/ AtHand(f)'
    <3> SUFFICES ASSUME NEW f \in EFs, LeadTo(frames, f)
                 PROVE  LeadTo(Shorter(frames), f) \/ f = f0
      BY <2>1 DEF AtHand
    <3>1. f \in Below[f0] \/ LeadTo(Shorter(frames), f)
      BY <1>1, ShorterLeads
    <3> QED BY <2>3, <3>1, BelowAnEF
  <2>5. ExportInv'
    BY <1>1, <1>4, <2>1, <2>4 DEF WalkInv, ExportInv, Whole
  <2>6. DumpInv'
    BY <1>1, <1>4, <2>1, <2>4 DEF WalkInv, DumpInv, Whole, Told
  <2> QED BY <1>1, <2>2, <2>5, <2>6, SilentStep DEF WalkInv
<1> QED BY <1>5, <1>6, <1>7

LEMMA DirDoneStep ==
  ASSUME WalkInv, DirDone
  PROVE  WalkInv'
<1>1. /\ at = "next" /\ job \in Walks /\ last = NoCommand /\ frames \in Seq(Frame) /\ frames # <<>>
      /\ frames[1].todo = <<>> /\ Len(frames) > 1 /\ frames[Len(frames)].dir = home /\ visit \in Names
      /\ UNCHANGED <<visit, single, home, body, bad, skipped, exported, dumped>>
  BY DEF DirDone, WalkInv, JobInv, WalkSteps, Walks, cardVars, printed
<1>2. CASE linked
  <2>1. sel' = frames[2].dir /\ frames' = Tail(frames) /\ UNCHANGED <<at, job, last, stopped>>
    BY <1>2 DEF DirDone
  <2>2. /\ Tail(frames) \in Seq(Frame) /\ Tail(frames) # <<>> /\ Len(Tail(frames)) = Len(frames) - 1
        /\ \A i \in 1..(Len(frames) - 1) : Tail(frames)[i] = frames[i + 1]
    BY <1>1, PoppedFrames
  <2>3. frames'[Len(frames')].dir = home /\ sel' = frames'[1].dir
    BY <1>1, <2>1, <2>2
  <2>4. JobInv'
    BY <1>1, <2>1, <2>2, <2>3 DEF WalkInv, JobInv, WalkSteps, Walks, Here
  <2>5. \A f \in EFs : ~AtHand(f) /\ (LeadTo(frames, f) => LeadTo(frames', f))
    BY <1>1, <2>1, PoppedLeads DEF AtHand
  <2>6. ExportInv'
    BY <1>1, <2>1, <2>5 DEF WalkInv, ExportInv, Whole
  <2>7. DumpInv'
    BY <1>1, <2>1, <2>5 DEF WalkInv, DumpInv, Whole, Told
  <2> QED BY <1>1, <2>1, <2>4, <2>6, <2>7, SilentStep DEF WalkInv
<1>3. CASE ~linked
  <2>1. stopped' /\ job' = "idle" /\ at' = "idle"
    BY <1>3 DEF DirDone, StopEarly, EndJob
  <2>2. JobInv' /\ job' \notin Walks
    BY <2>1 DEF JobInv, WalkSteps, Walks
  <2> QED BY <1>1, <2>1, <2>2, StoppedStep, NotWalkingStep DEF WalkInv, ExportInv
<1> QED BY <1>2, <1>3

LEMMA WalkDoneStep ==
  ASSUME WalkInv, WalkDone
  PROVE  WalkInv'
<1>1. /\ at = "next" /\ job \in Walks /\ frames \in Seq(Frame) /\ frames # <<>>
      /\ frames[1].todo = <<>> /\ Len(frames) = 1 /\ frames[1].dir = home /\ sel = Here
      /\ job' = "idle" /\ at' = "idle" /\ last' = [op |-> job, status |-> Status]
      /\ UNCHANGED <<sel, single, home, body, bad, skipped, stopped, exported, dumped>>
  BY DEF WalkDone, EndJob, WalkInv, JobInv, WalkSteps, Walks, cardVars, printed, troubles
<1>2. JobInv' /\ job' \notin Walks
  BY <1>1 DEF JobInv, WalkSteps, Walks
<1>3. \A f \in EFs : ~AtHand(f) /\ ~LeadTo(frames, f)
  <2>1. ASSUME NEW f, LeadTo(frames, f)
        PROVE  FALSE
    <3>1. Len(frames) > 1
      BY <1>1, <2>1, PoppedLeads
    <3>2. Len(frames) = 1
      BY <1>1
    <3> QED BY <3>1, <3>2
  <2> QED BY <1>1, <2>1 DEF AtHand
<1>4. last'.op = job /\ last'.status = Status
  BY <1>1
<1>5. ExportIsComplete'
  BY <1>1, <1>3, <1>4 DEF ExportIsComplete, WalkInv, ExportInv, Status, Whole
<1>6. DumpCoversTheCard'
  BY <1>1, <1>3, <1>4 DEF DumpCoversTheCard, WalkInv, DumpInv, Whole, Told
<1>7. WalkComesHome'
  BY <1>1 DEF WalkComesHome, Here
<1> QED BY <1>1, <1>2, <1>5, <1>6, <1>7, NotWalkingStep DEF WalkInv, WalkIsWhole, ExportInv

LEMMA WalkStep ==
  ASSUME WalkInv, [ShellNext]_shellVars
  PROVE  WalkInv'
<1>1. CASE DoExport \/ DoFsdump \/ DoFsdumpCustom
  BY <1>1, StartWalkStep DEF DoExport, DoFsdump, DoFsdumpCustom, Walks
<1>2. CASE RunScript \/ RunLine \/ ScriptDone \/ AccessChanges \/ Equip \/ \E c \in Commands : Type(c)
  BY <1>2, OtherSteps
<1>3. CASE UNCHANGED shellVars
  BY <1>3 DEF shellVars, WalkInv, JobInv, ExportInv, DumpInv, WalkIsWhole, ExportIsComplete, DumpCoversTheCard, WalkComesHome,
           Here, Whole, AtHand, Told, LeadTo, printed, troubles, walking, cardVars
<1> QED BY <1>1, <1>2, <1>3, VisitSelectStep, ExportReadStep, DumpReadStep, VisitBackStep, NextNameStep, DirDoneStep,
           WalkDoneStep, PullStep DEF ShellNext, Working

\* pySim-shell.py:578-760: export and fsdump that came to the end of their walk,
\* on any card and whatever it refused, left nothing out and are back where they
\* began.  (~stopped: one the link cut off before says nothing of what is left,
\* and an export cut off between a file and the SELECT after it ends without an
\* error.)
THEOREM WalksAreWhole == ShellSpec => []WalkIsWhole
<1>1. WalkInv => WalkIsWhole
  BY DEF WalkInv
<1> QED BY <1>1, WalkInit, WalkStep, PTL DEF ShellSpec
-----------------------------------------------------------------------------
(* Data: padding, trimming, splitting and joining.                         *)

LEMMA SameSequence ==
  ASSUME NEW S, NEW s \in Seq(S), NEW t \in Seq(S), Len(s) = Len(t), \A i \in 1..Len(s) : s[i] = t[i]
  PROVE  s = t
OBVIOUS

LEMMA ConcatIs ==
  ASSUME NEW S, NEW s \in Seq(S), NEW t \in Seq(S)
  PROVE  /\ s \o t \in Seq(S) /\ Len(s \o t) = Len(s) + Len(t)
         /\ \A i \in 1..Len(s) : (s \o t)[i] = s[i]
         /\ \A i \in 1..Len(t) : (s \o t)[Len(s) + i] = t[i]
OBVIOUS

LEMMA PartIs ==
  ASSUME NEW S, NEW s \in Seq(S), NEW m \in 1..(Len(s) + 1), NEW n \in 0..Len(s), m <= n + 1
  PROVE  /\ SubSeq(s, m, n) \in Seq(S) /\ Len(SubSeq(s, m, n)) = n - m + 1
         /\ \A i \in 1..(n - m + 1) : SubSeq(s, m, n)[i] = s[m + i - 1]
OBVIOUS

LEMMA PrefixIs ==
  ASSUME NEW S, NEW s \in Seq(S), NEW t \in Seq(S), Len(s) <= Len(t), \A i \in 1..Len(s) : s[i] = t[i]
  PROVE  IsPrefix(s, t)
<1>1. SubSeq(s, 1, Len(s)) \in Seq(S) /\ SubSeq(t, 1, Len(s)) \in Seq(S)
  BY PartIs
<1>2. /\ Len(SubSeq(s, 1, Len(s))) = Len(s) /\ Len(SubSeq(t, 1, Len(s))) = Len(s)
      /\ \A i \in 1..Len(s) : SubSeq(s, 1, Len(s))[i] = s[i] /\ SubSeq(t, 1, Len(s))[i] = t[i]
  OBVIOUS
<1>3. SubSeq(s, 1, Len(s)) = SubSeq(t, 1, Len(s))
  BY <1>1, <1>2, SameSequence
<1> QED BY <1>3 DEF IsPrefix

LEMMA ConcatPrefix ==
  ASSUME NEW S, NEW s \in Seq(S), NEW t \in Seq(S)
  PROVE  IsPrefix(s, s \o t)
<1>1. PICK u \in Seq(S) : u = s \o t
  BY ConcatIs
<1>2. Len(s) <= Len(u) /\ \A i \in 1..Len(s) : s[i] = u[i]
  BY <1>1, ConcatIs
<1> QED BY <1>1, <1>2, PrefixIs

LEMMA SequenceIs ==
  ASSUME NEW S, NEW n \in Nat, NEW x \in S
  PROVE  [i \in 1..n |-> x] \in Seq(S) /\ Len([i \in 1..n |-> x]) = n
OBVIOUS

Pads(k) == [i \in 1..k |-> Pad]

LEMMA PadsIs ==
  ASSUME NEW k \in Int
  PROVE  Pads(k) \in Seq(Byte) /\ Len(Pads(k)) = (IF k >= 0 THEN k ELSE 0) /\ \A i \in 1..k : Pads(k)[i] = Pad
<1>1. \A i \in 1..k : Pads(k)[i] = Pad
  BY DEF Pads
<1>2. CASE k >= 0
  <2>1. Pads(k) \in Seq(Byte) /\ Len(Pads(k)) = k
    BY <1>2, CardAssumption, SequenceIs DEF Pads
  <2> QED BY <1>1, <1>2, <2>1
<1>3. CASE k < 0
  <2>1. Pads(k) = <<>>
    BY <1>3 DEF Pads
  <2>2. Pads(k) \in Seq(Byte) /\ Len(Pads(k)) = 0
    BY <2>1
  <2> QED BY <1>1, <1>3, <2>2
<1> QED BY <1>2, <1>3

LEMMA PaddedIs ==
  ASSUME NEW s \in Seq(Byte), NEW n \in Nat
  PROVE  /\ Padded(s, n) \in Seq(Byte) /\ LeftPadded(s, n) \in Seq(Byte)
         /\ Len(s) <= n => Len(Padded(s, n)) = n /\ Len(LeftPadded(s, n)) = n
         /\ Len(s) > n => Len(Padded(s, n)) > n
         /\ Len(s) = n => Padded(s, n) = s /\ LeftPadded(s, n) = s
         /\ IsPrefix(s, Padded(s, n))
         /\ \A i \in 1..Len(s) : Padded(s, n)[i] = s[i]
         /\ \A i \in (Len(s) + 1)..Len(Padded(s, n)) : Padded(s, n)[i] = Pad
<1>0. PICK k \in Int : k = n - Len(s)
  OBVIOUS
<1>1. PICK p \in Seq(Byte) : p = Pads(k)
  BY PadsIs
<1>2. Len(p) = (IF n - Len(s) >= 0 THEN n - Len(s) ELSE 0) /\ \A i \in 1..(n - Len(s)) : p[i] = Pad
  BY <1>0, <1>1, PadsIs
<1>3. Padded(s, n) = s \o p /\ LeftPadded(s, n) = p \o s
  BY <1>0, <1>1 DEF Padded, LeftPadded, Pads
<1>4. IsPrefix(s, s \o p)
  BY ConcatPrefix
<1>5. Len(s) = n => s \o p = s /\ p \o s = s
  <2> SUFFICES ASSUME Len(s) = n
               PROVE  s \o p = s /\ p \o s = s
    OBVIOUS
  <2>1. p = <<>>
    BY <1>2, EmptySeq
  <2> QED BY <2>1, ConcatEmptySeq
<1>6. s \o p \in Seq(Byte) /\ p \o s \in Seq(Byte) /\ Len(s \o p) = Len(s) + Len(p) /\ Len(p \o s) = Len(s) + Len(p)
  OBVIOUS
<1>7. \A i \in 1..Len(s) : (s \o p)[i] = s[i]
  OBVIOUS
<1>8. ASSUME NEW i \in (Len(s) + 1)..Len(s \o p)
      PROVE  (s \o p)[i] = Pad
  <2>1. (s \o p)[i] = p[i - Len(s)] /\ i - Len(s) \in 1..(n - Len(s))
    BY <1>2, <1>6
  <2> QED BY <1>2, <2>1
<1> QED BY <1>2, <1>3, <1>4, <1>5, <1>6, <1>7, <1>8

LEMMA LeastExists ==
  ASSUME NEW S \in SUBSET Nat, S # {}
  PROVE  \E i \in S : \A j \in S : i <= j
<1>1. \E i \in S : \A j \in S : <<j, i>> \notin OpToRel(<, Nat)
  BY WFMin, NatLessThanWellFounded, Zenon
<1>2. PICK i \in S : \A j \in S : <<j, i>> \notin OpToRel(<, Nat)
  BY <1>1, Zenon
<1>3. ASSUME NEW j \in S PROVE i <= j
  <2>1. i \in Nat /\ j \in Nat
    OBVIOUS
  <2>2. j < i => <<j, i>> \in OpToRel(<, Nat)
    BY <2>1 DEF OpToRel
  <2>3. <<j, i>> \notin OpToRel(<, Nat)
    BY <1>2, Zenon
  <2>4. ~(j < i)
    BY <2>2, <2>3, Zenon
  <2> QED BY <2>1, <2>4
<1> QED BY <1>3

\* The last byte that is no padding.
IsLast(s, n) == /\ n \in 0..Len(s)
                /\ \A i \in (n + 1)..Len(s) : s[i] = Pad
                /\ n > 0 => s[n] # Pad

LEMMA LastIsOne ==
  ASSUME NEW s \in Seq(Byte), NEW m, NEW n, IsLast(s, m), IsLast(s, n)
  PROVE  m = n
BY DEF IsLast

LEMMA LastExists ==
  ASSUME NEW s \in Seq(Byte)
  PROVE  IsLast(s, LastByte(s))
<1> DEFINE T == {n \in 0..Len(s) : \A i \in (n + 1)..Len(s) : s[i] = Pad}
<1>1. T # {} /\ T \subseteq Nat
  <2>1. Len(s) \in T
    OBVIOUS
  <2> QED BY <2>1
<1>2. PICK n \in T : \A m \in T : n <= m
  <2> HIDE DEF T
  <2> QED BY <1>1, LeastExists
<1>3. ASSUME n > 0, s[n] = Pad
      PROVE  FALSE
  <2>1. n - 1 \in T
    BY <1>2, <1>3
  <2> QED BY <1>2, <2>1
<1>4. IsLast(s, n)
  BY <1>2, <1>3 DEF IsLast
<1> QED BY <1>4 DEF IsLast, LastByte

LEMMA TrimmedIs ==
  ASSUME NEW s \in Seq(Byte)
  PROVE  Trimmed(s) \in Seq(Byte) /\ IsPrefix(Trimmed(s), s) /\ Len(Trimmed(s)) = LastByte(s) /\ LastByte(s) \in 0..Len(s)
         /\ \A i \in 1..LastByte(s) : Trimmed(s)[i] = s[i]
<1>1. LastByte(s) \in 0..Len(s)
  BY LastExists DEF IsLast
<1>2. PICK n \in 0..Len(s) : n = LastByte(s)
  BY <1>1
<1>3. PICK t : t = SubSeq(s, 1, n)
  OBVIOUS
<1>4. t \in Seq(Byte) /\ Len(t) = n /\ \A i \in 1..n : t[i] = s[i]
  BY <1>3, PartIs
<1>5. IsPrefix(t, s)
  BY <1>4, PrefixIs
<1> QED BY <1>2, <1>3, <1>4, <1>5 DEF Trimmed

\* Padding is trimmed away again.
LEMMA TrimPadded ==
  ASSUME NEW s \in Seq(Byte), NEW n \in Nat
  PROVE  Trimmed(Padded(s, n)) = Trimmed(s)
<1>1. PICK p \in Seq(Byte) : p = Padded(s, n)
  BY PaddedIs
<1>2. /\ \A i \in 1..Len(s) : p[i] = s[i]
      /\ \A i \in (Len(s) + 1)..Len(p) : p[i] = Pad
      /\ Len(p) >= Len(s)
  <2>1. Len(p) >= Len(s)
    BY <1>1, PaddedIs DEF IsPrefix
  <2>2. \A i \in 1..Len(s) : p[i] = s[i]
    BY <1>1, PaddedIs
  <2>3. \A i \in (Len(s) + 1)..Len(p) : p[i] = Pad
    BY <1>1, PaddedIs
  <2> QED BY <2>1, <2>2, <2>3
<1>3. PICK l : l = LastByte(s)
  OBVIOUS
<1>4. IsLast(s, l)
  BY <1>3, LastExists
<1>5. IsLast(p, l)
  BY <1>2, <1>4, SMTT(30) DEF IsLast
<1>6. LastByte(p) = l
  BY <1>5, LastExists, LastIsOne
<1>7. /\ Trimmed(p) \in Seq(Byte) /\ Trimmed(s) \in Seq(Byte) /\ Len(Trimmed(p)) = l /\ Len(Trimmed(s)) = l
      /\ \A i \in 1..l : Trimmed(p)[i] = p[i] /\ Trimmed(s)[i] = s[i]
  BY <1>3, <1>6, TrimmedIs
<1>8. \A i \in 1..l : Trimmed(p)[i] = Trimmed(s)[i]
  BY <1>2, <1>4, <1>7 DEF IsLast
<1> QED BY <1>1, <1>7, <1>8, SameSequence

LEMMA Division ==
  ASSUME NEW q \in Nat, NEW r \in Nat, NEW R \in Nat \ {0}, r < R
  PROVE  (q * R + r) \div R = q /\ (q * R + r) % R = r
OBVIOUS

LEMMA Dividing ==
  ASSUME NEW n \in Nat, NEW R \in Nat \ {0}
  PROVE  /\ n \div R \in Nat /\ n % R \in Nat /\ n % R < R
         /\ n = (n \div R) * R + (n % R)
OBVIOUS

LEMMA Monotone ==
  ASSUME NEW a \in Nat, NEW b \in Nat, NEW R \in Nat, a <= b
  PROVE  a * R <= b * R
OBVIOUS

LEMMA SequenceOf ==
  ASSUME NEW S, NEW n \in Nat, NEW f \in [1..n -> S]
  PROVE  f \in Seq(S) /\ Len(f) = n
OBVIOUS

\* A chunk of the joined records is a record.
LEMMA JoinedIs ==
  ASSUME NEW rs \in Seq(Seq(Byte)), \A i \in DOMAIN rs : Len(rs[i]) = RecLen
  PROVE  /\ Joined(rs) \in Seq(Byte) /\ Len(Joined(rs)) = Len(rs) * RecLen
         /\ \A k \in 1..Len(rs) : \A j \in 1..RecLen :
              (k - 1) * RecLen + j \in 1..Len(Joined(rs)) /\ Joined(rs)[(k - 1) * RecLen + j] = rs[k][j]
<1>1. RecLen \in Nat \ {0} /\ Len(rs) \in Nat /\ Len(rs) * RecLen \in Nat
  BY CardAssumption
<1>2. PICK n \in Nat : n = Len(rs) * RecLen
  BY <1>1
<1>3. ASSUME NEW i \in 1..n
      PROVE  /\ ((i - 1) \div RecLen) + 1 \in 1..Len(rs) /\ ((i - 1) % RecLen) + 1 \in 1..RecLen
             /\ rs[((i - 1) \div RecLen) + 1][((i - 1) % RecLen) + 1] \in Byte
  <2>0. PICK p \in Nat : p = i - 1
    OBVIOUS
  <2>1. PICK q \in Nat : q = (i - 1) \div RecLen
    BY <1>1, <2>0, Dividing
  <2>2. PICK r \in Nat : r = (i - 1) % RecLen
    BY <1>1, <2>0, Dividing
  <2>3. i - 1 = q * RecLen + r /\ r < RecLen
    BY <1>1, <2>0, <2>1, <2>2, Dividing
  <2>4. q < Len(rs)
    <3>1. SUFFICES ASSUME q >= Len(rs)
                   PROVE  FALSE
      BY <1>1
    <3>2. q * RecLen >= Len(rs) * RecLen
      BY <1>1, <3>1, Monotone
    <3> QED BY <1>1, <1>2, <2>3, <3>2
  <2>5. q + 1 \in 1..Len(rs) /\ r + 1 \in 1..RecLen
    BY <1>1, <2>3, <2>4
  <2>6. rs[q + 1] \in Seq(Byte) /\ Len(rs[q + 1]) = RecLen
    BY <2>5
  <2>7. rs[q + 1][r + 1] \in Byte
    BY <2>5, <2>6
  <2> QED BY <2>1, <2>2, <2>5, <2>7
<1>4. Joined(rs) = [i \in 1..n |-> rs[((i - 1) \div RecLen) + 1][((i - 1) % RecLen) + 1]]
  BY <1>2 DEF Joined
<1>5. Joined(rs) \in Seq(Byte) /\ Len(Joined(rs)) = n
  BY <1>3, <1>4
<1>6. ASSUME NEW k \in 1..Len(rs), NEW j \in 1..RecLen
      PROVE  (k - 1) * RecLen + j \in 1..n /\ Joined(rs)[(k - 1) * RecLen + j] = rs[k][j]
  <2>1. ((k - 1) * RecLen + (j - 1)) \div RecLen = k - 1 /\ ((k - 1) * RecLen + (j - 1)) % RecLen = j - 1
    <3>1. PICK q \in Nat : q = k - 1
      BY <1>1
    <3>2. PICK r \in Nat : r = j - 1 /\ r < RecLen
      BY <1>1
    <3> QED BY <1>1, <3>1, <3>2, Division
  <2>2. PICK m \in Nat : m = (k - 1) * RecLen
    BY <1>1
  <2>3. m + RecLen <= n
    <3>1. k * RecLen = m + RecLen
      BY <1>1, <2>2
    <3>2. k * RecLen <= Len(rs) * RecLen
      <4>1. k \in Nat /\ k <= Len(rs)
        BY <1>1
      <4> QED BY <1>1, <4>1, Monotone
    <3> QED BY <1>2, <3>1, <3>2
  <2>4. PICK i \in 1..n : i = m + j /\ i - 1 = m + (j - 1)
    BY <1>1, <2>3
  <2>5. ((i - 1) \div RecLen) + 1 = k /\ ((i - 1) % RecLen) + 1 = j
    BY <1>1, <2>1, <2>2, <2>4
  <2> QED BY <1>4, <2>2, <2>4, <2>5
<1> QED BY <1>2, <1>5, <1>6

NrOf(n) == (n + RecLen - 1) \div RecLen
EndOf(n, i) == IF i * RecLen < n THEN i * RecLen ELSE n

LEMMA ChunkBounds ==
  ASSUME NEW n \in Nat, NEW i \in 1..NrOf(n)
  PROVE  /\ (i - 1) * RecLen + 1 \in 1..n /\ EndOf(n, i) \in 0..n /\ (i - 1) * RecLen + 1 <= EndOf(n, i) + 1
         /\ EndOf(n, i) - (i - 1) * RecLen <= RecLen
<1>1. RecLen \in Nat \ {0}
  BY CardAssumption
<1>2. PICK q \in Nat : q = NrOf(n)
  BY <1>1, Dividing DEF NrOf
<1>3. PICK r \in Nat : r = (n + RecLen - 1) % RecLen
  BY <1>1, Dividing
<1>4. n + RecLen - 1 = q * RecLen + r /\ r < RecLen
  BY <1>1, <1>2, <1>3, Dividing DEF NrOf
<1>5. i \in 1..q
  BY <1>2
<1>6. PICK m \in Nat : m = (i - 1) * RecLen
  BY <1>1, <1>5
<1>7. i * RecLen = m + RecLen
  BY <1>1, <1>5, <1>6
<1>8. m + RecLen <= q * RecLen
  BY <1>1, <1>5, <1>6
<1>9. m + 1 <= n
  BY <1>1, <1>4, <1>8
<1>10. EndOf(n, i) = IF m + RecLen < n THEN m + RecLen ELSE n
  BY <1>7 DEF EndOf
<1> QED BY <1>1, <1>6, <1>9, <1>10

LEMMA SplitIs ==
  ASSUME NEW s \in Seq(Byte)
  PROVE  /\ Split(s) \in Seq(Seq(Byte)) /\ Len(Split(s)) = NrOf(Len(s))
         /\ \A k \in 1..Len(Split(s)) :
              /\ Len(Split(s)[k]) = EndOf(Len(s), k) - (k - 1) * RecLen
              /\ \A j \in 1..Len(Split(s)[k]) : Split(s)[k][j] = s[(k - 1) * RecLen + j]
<1>1. RecLen \in Nat \ {0} /\ NrOf(Len(s)) \in Nat
  BY CardAssumption, Dividing DEF NrOf
<1>2. Split(s) = [i \in 1..NrOf(Len(s)) |-> SubSeq(s, (i - 1) * RecLen + 1, EndOf(Len(s), i))]
  BY DEF Split, NrOf, EndOf
<1>3. ASSUME NEW i \in 1..NrOf(Len(s))
      PROVE  LET c == SubSeq(s, (i - 1) * RecLen + 1, EndOf(Len(s), i))
             IN  /\ c \in Seq(Byte) /\ Len(c) = EndOf(Len(s), i) - (i - 1) * RecLen
                 /\ \A j \in 1..Len(c) : c[j] = s[(i - 1) * RecLen + j]
  <2>1. PICK m : m = (i - 1) * RecLen
    OBVIOUS
  <2>2. PICK e : e = EndOf(Len(s), i)
    OBVIOUS
  <2>3. m + 1 \in 1..Len(s) /\ e \in 0..Len(s) /\ m + 1 <= e + 1
    BY <2>1, <2>2, ChunkBounds
  <2>4. PICK c : c = SubSeq(s, m + 1, e)
    OBVIOUS
  <2>5. c \in Seq(Byte) /\ Len(c) = e - (m + 1) + 1 /\ \A j \in 1..(e - (m + 1) + 1) : c[j] = s[(m + 1) + j - 1]
    BY <2>3, <2>4, PartIs
  <2>6. Len(c) = e - m /\ m \in Int /\ e \in Int
    <3>1. m \in Int
      BY <1>1, <2>1
    <3> QED BY <2>3, <2>5, <3>1
  <2>7. ASSUME NEW j \in 1..Len(c)
        PROVE  c[j] = s[m + j]
    <3>1. j \in 1..(e - (m + 1) + 1) /\ (m + 1) + j - 1 = m + j
      BY <2>6
    <3> QED BY <2>5, <3>1
  <2> QED BY <2>1, <2>2, <2>4, <2>5, <2>6, <2>7
<1>4. PICK n \in Nat : n = NrOf(Len(s))
  BY <1>1
<1>5. Split(s) \in Seq(Seq(Byte)) /\ Len(Split(s)) = n
  <2>1. Split(s) \in [1..n -> Seq(Byte)]
    BY <1>2, <1>3, <1>4
  <2> QED BY <2>1, SequenceOf
<1> QED BY <1>2, <1>3, <1>4, <1>5

\* Records of full length come back.
LEMMA JoinSplit ==
  ASSUME NEW s \in Seq(Byte), \A i \in DOMAIN Split(s) : Len(Split(s)[i]) = RecLen
  PROVE  Joined(Split(s)) = s
<1>1. RecLen \in Nat \ {0} /\ Len(s) \in Nat
  BY CardAssumption
<1>2. PICK rs \in Seq(Seq(Byte)) : rs = Split(s)
  BY SplitIs
<1>3. /\ \A i \in DOMAIN rs : Len(rs[i]) = RecLen
      /\ Len(rs) = NrOf(Len(s)) /\ DOMAIN rs = 1..Len(rs)
      /\ \A k \in 1..Len(rs) : /\ Len(rs[k]) = EndOf(Len(s), k) - (k - 1) * RecLen
                               /\ \A j \in 1..Len(rs[k]) : rs[k][j] = s[(k - 1) * RecLen + j]
  <2>1. \A i \in DOMAIN rs : Len(rs[i]) = RecLen
    BY <1>2
  <2>2. DOMAIN rs = 1..Len(rs)
    OBVIOUS
  <2>3. /\ Len(rs) = NrOf(Len(s))
        /\ \A k \in 1..Len(rs) : /\ Len(rs[k]) = EndOf(Len(s), k) - (k - 1) * RecLen
                                 /\ \A j \in 1..Len(rs[k]) : rs[k][j] = s[(k - 1) * RecLen + j]
    BY <1>2, SplitIs, Zenon
  <2> QED BY <2>1, <2>2, <2>3
<1>4. PICK n \in Nat : n = Len(rs)
  OBVIOUS
<1>5. n * RecLen = Len(s)
  <2>1. PICK r \in Nat : r = (Len(s) + RecLen - 1) % RecLen
    BY <1>1, Dividing
  <2>2. Len(s) + RecLen - 1 = n * RecLen + r /\ r < RecLen
    BY <1>1, <1>3, <1>4, <2>1, Dividing DEF NrOf
  <2>3. PICK m \in Nat : m = n * RecLen
    BY <1>1
  <2>4. Len(s) <= m
    BY <1>1, <2>2, <2>3
  <2>5. CASE n = 0
    BY <1>1, <2>3, <2>4, <2>5
  <2>6. CASE n > 0
    <3>1. n \in 1..Len(rs)
      BY <1>4, <2>6
    <3>2. RecLen = EndOf(Len(s), n) - (n - 1) * RecLen
      BY <1>3, <3>1
    <3>3. (n - 1) * RecLen = m - RecLen
      BY <1>1, <2>3
    <3>4. EndOf(Len(s), n) = IF m < Len(s) THEN m ELSE Len(s)
      BY <2>3 DEF EndOf
    <3> QED BY <1>1, <2>3, <2>4, <3>2, <3>3, <3>4
  <2> QED BY <2>5, <2>6
<1>6. PICK t \in Seq(Byte) : t = Joined(rs)
  BY <1>3, JoinedIs
<1>7. /\ Len(t) = n * RecLen
      /\ \A k \in 1..n : \A j \in 1..RecLen : t[(k - 1) * RecLen + j] = rs[k][j]
  BY <1>3, <1>4, <1>6, JoinedIs
<1>8. ASSUME NEW i \in 1..Len(s)
      PROVE  t[i] = s[i]
  <2>0. PICK p \in Nat : p = i - 1
    OBVIOUS
  <2>1. PICK q \in Nat : q = p \div RecLen
    BY <1>1, Dividing
  <2>2. PICK r \in Nat : r = p % RecLen
    BY <1>1, Dividing
  <2>3. p = q * RecLen + r /\ r < RecLen
    BY <1>1, <2>1, <2>2, Dividing
  <2>4. q < n
    <3>1. SUFFICES ASSUME q >= n
                   PROVE  FALSE
      OBVIOUS
    <3>2. n * RecLen <= q * RecLen
      BY <1>1, <3>1, Monotone
    <3>3. PICK x \in Nat : x = q * RecLen
      BY <1>1
    <3>4. x >= Len(s)
      BY <1>5, <3>2, <3>3
    <3> QED BY <1>1, <2>0, <2>3, <3>3, <3>4
  <2>5. PICK k \in 1..n : k = q + 1
    BY <2>4
  <2>6. PICK j \in 1..RecLen : j = r + 1
    BY <1>1, <2>3
  <2>7. i = (k - 1) * RecLen + j
    <3>1. k - 1 = q
      BY <2>5
    <3> QED BY <1>1, <2>0, <2>3, <2>6, <3>1
  <2>8. Len(rs[k]) = RecLen /\ k \in 1..Len(rs)
    BY <1>3, <1>4
  <2>9. rs[k][j] = s[(k - 1) * RecLen + j]
    BY <1>3, <2>8
  <2> QED BY <1>7, <2>7, <2>9
<1> QED BY <1>2, <1>5, <1>6, <1>7, <1>8, SameSequence

\* What was joined is split again, whatever stands behind it.
LEMMA SplitJoined ==
  ASSUME NEW rs \in Seq(Seq(Byte)), \A i \in DOMAIN rs : Len(rs[i]) = RecLen, NEW u \in Seq(Byte)
  PROVE  IsPrefix(rs, Split(Joined(rs) \o u))
<1>1. RecLen \in Nat \ {0}
  BY CardAssumption
<1>2. PICK n \in Nat : n = Len(rs)
  OBVIOUS
<1>3. PICK m \in Nat : m = n * RecLen
  BY <1>1
<1>4. PICK v \in Seq(Byte) : v = Joined(rs)
  BY JoinedIs
<1>5. /\ Len(v) = m
      /\ \A k \in 1..n : \A j \in 1..RecLen : (k - 1) * RecLen + j \in 1..m /\ v[(k - 1) * RecLen + j] = rs[k][j]
  BY <1>2, <1>3, <1>4, JoinedIs
<1>6. PICK t \in Seq(Byte) : t = v \o u
  BY ConcatIs
<1>7. Len(t) >= m /\ \A i \in 1..m : t[i] = v[i]
  BY <1>5, <1>6, ConcatIs
<1>8. PICK w \in Seq(Seq(Byte)) : w = Split(t)
  BY SplitIs
<1>9. /\ Len(w) = NrOf(Len(t))
      /\ \A k \in 1..Len(w) : /\ Len(w[k]) = EndOf(Len(t), k) - (k - 1) * RecLen
                              /\ \A j \in 1..Len(w[k]) : w[k][j] = t[(k - 1) * RecLen + j]
  BY <1>8, SplitIs
<1>10. n <= Len(w)
  <2>0. Len(t) + RecLen - 1 \in Nat
    BY <1>1
  <2>1. PICK q \in Nat : q = NrOf(Len(t))
    BY <1>1, <2>0, Dividing DEF NrOf
  <2>2. PICK r \in Nat : r = (Len(t) + RecLen - 1) % RecLen
    BY <1>1, Dividing
  <2>3. Len(t) + RecLen - 1 = q * RecLen + r /\ r < RecLen
    BY <1>1, <2>1, <2>2, Dividing DEF NrOf
  <2>4. SUFFICES ASSUME q + 1 <= n
                 PROVE  FALSE
    BY <1>9, <2>1
  <2>5. (q + 1) * RecLen <= m
    BY <1>1, <1>3, <2>4, Monotone
  <2>6. (q + 1) * RecLen = q * RecLen + RecLen
    BY <1>1
  <2>7. PICK x \in Nat : x = q * RecLen
    BY <1>1
  <2> QED BY <1>1, <1>7, <2>3, <2>5, <2>6, <2>7
<1>11. ASSUME NEW k \in 1..Len(rs)
       PROVE  rs[k] = w[k]
  <2>1. k \in 1..n /\ k \in 1..Len(w) /\ Len(rs[k]) = RecLen /\ rs[k] \in Seq(Byte)
    <3>1. k \in 1..n /\ k \in 1..Len(w)
      BY <1>2, <1>10
    <3>2. k \in DOMAIN rs
      OBVIOUS
    <3> QED BY <3>1, <3>2
  <2>2. PICK a \in Nat : a = (k - 1) * RecLen
    BY <1>1, <2>1
  <2>3. k * RecLen = a + RecLen
    BY <1>1, <2>1, <2>2
  <2>4. a + RecLen <= m
    <3>1. k \in Nat /\ k <= n
      BY <2>1
    <3>2. k * RecLen <= n * RecLen
      BY <1>1, <3>1, Monotone
    <3> QED BY <1>3, <2>3, <3>2
  <2>5. EndOf(Len(t), k) = a + RecLen
    <3>1. EndOf(Len(t), k) = IF a + RecLen < Len(t) THEN a + RecLen ELSE Len(t)
      BY <2>3 DEF EndOf
    <3>2. a + RecLen <= Len(t)
      BY <1>1, <1>7, <2>4
    <3>3. Len(t) \in Nat /\ a + RecLen \in Nat
      BY <1>1
    <3>4. CASE a + RecLen < Len(t)
      BY <3>1, <3>4
    <3>5. CASE a + RecLen = Len(t)
      BY <3>1, <3>3, <3>5
    <3> QED BY <3>2, <3>3, <3>4, <3>5
  <2>6. Len(w[k]) = RecLen /\ w[k] \in Seq(Byte)
    BY <1>1, <1>9, <2>1, <2>2, <2>5
  <2>7. ASSUME NEW j \in 1..RecLen
        PROVE  rs[k][j] = w[k][j]
    <3>1. w[k][j] = t[a + j]
      BY <1>9, <2>1, <2>2, <2>6
    <3>2. a + j \in 1..m /\ v[a + j] = rs[k][j]
      BY <1>5, <2>1, <2>2
    <3> QED BY <1>7, <3>1, <3>2
  <2> QED BY <2>1, <2>6, <2>7, SameSequence
<1> QED BY <1>2, <1>4, <1>6, <1>8, <1>10, <1>11, PrefixIs
-----------------------------------------------------------------------------
(* What a command writes.                                                  *)

KindInv ==
  /\ kind = [f \in EFs |-> kind[f]] /\ body = [f \in EFs |-> body[f]]
  /\ \A f \in EFs : IsKind(kind[f]) /\ IsContent(kind[f], body[f])

DecodedCommands == {"update_binary_decoded", "update_record_decoded"}

\* c is a command that may be given to a file.
Usable(c) == c.n \in Nat /\ c.data \in Seq(Byte) /\ c.parts \in Seq(Seq(Byte))

LEMMA BinaryIs ==
  ASSUME NEW f, body[f] \in Seq(Byte), NEW d \in Seq(Byte), Len(d) <= Len(body[f])
  PROVE  /\ BinaryWith(f, d) \in Seq(Byte) /\ Len(BinaryWith(f, d)) = Len(body[f])
         /\ Len(d) = Len(body[f]) => BinaryWith(f, d) = d
         /\ \E u \in Seq(Byte) : BinaryWith(f, d) = d \o u
<1>1. PICK b \in Seq(Byte) : b = body[f]
  OBVIOUS
<1>2. PICK u : u = SubSeq(b, Len(d) + 1, Len(b))
  OBVIOUS
<1>3. u \in Seq(Byte) /\ Len(u) = Len(b) - Len(d)
  <2>1. Len(d) + 1 \in 1..(Len(b) + 1) /\ Len(b) \in 0..Len(b) /\ Len(d) + 1 <= Len(b) + 1
    BY <1>1
  <2>2. u \in Seq(Byte) /\ Len(u) = Len(b) - (Len(d) + 1) + 1
    BY <1>2, <2>1, PartIs
  <2> QED BY <2>2
<1>4. BinaryWith(f, d) = d \o u
  BY <1>1, <1>2 DEF BinaryWith
<1>5. d \o u \in Seq(Byte) /\ Len(d \o u) = Len(b)
  BY <1>3, ConcatIs
<1>6. ASSUME Len(d) = Len(b)
      PROVE  d \o u = d
  <2>1. Len(u) = 0
    BY <1>3, <1>6
  <2>2. u = <<>>
    BY <1>3, <2>1, EmptySeq
  <2> QED BY <2>2, ConcatEmptySeq
<1> QED BY <1>1, <1>3, <1>4, <1>5, <1>6

Record == [1..RecLen -> Byte]

LEMMA RecordIsSeq ==
  /\ \A r \in Record : r \in Seq(Byte) /\ Len(r) = RecLen
  /\ \A r \in Seq(Byte) : Len(r) = RecLen => r \in Record
BY CardAssumption DEF Record

LEMMA RecordIs ==
  ASSUME NEW f, NEW n, NEW d \in Seq(Byte), Len(d) <= RecLen
  PROVE  /\ RecordOf(f, n, d) \in Record
         /\ Len(d) = RecLen => RecordOf(f, n, d) = d
         /\ ~kind[f].leftpad => RecordOf(f, n, d) = Padded(d, RecLen)
<1>1. RecLen \in Nat
  BY CardAssumption
<1>2. /\ Padded(d, RecLen) \in Seq(Byte) /\ Len(Padded(d, RecLen)) = RecLen
      /\ LeftPadded(d, RecLen) \in Seq(Byte) /\ Len(LeftPadded(d, RecLen)) = RecLen
      /\ Len(d) = RecLen => Padded(d, RecLen) = d /\ LeftPadded(d, RecLen) = d
  BY <1>1, PaddedIs
<1>3. Padded(d, RecLen) \in Record /\ LeftPadded(d, RecLen) \in Record
  BY <1>2, RecordIsSeq
<1> QED BY <1>2, <1>3 DEF RecordOf

SizeFor(f) == IF kind[f].class = "linear_fixed" THEN RecLen ELSE Len(body[f])

LEMMA CodedIs ==
  ASSUME NEW c, NEW f, IsKind(kind[f]), Usable(c), c.cmd \in DecodedCommands, CanCode(c, f), SizeFor(f) \in Nat
  PROVE  /\ Coded(c, f) \in Seq(Byte)
         /\ kind[f].codec = "records" => Coded(c, f) = Joined(c.parts) /\ \A i \in DOMAIN c.parts : Len(c.parts[i]) = RecLen
         /\ kind[f].codec = "plain" => Coded(c, f) = Padded(c.parts[1], SizeFor(f)) /\ c.parts[1] \in Seq(Byte)
         /\ kind[f].codec = "tlv" => Coded(c, f) = c.parts[1] /\ c.parts[1] \in Seq(Byte)
         /\ kind[f].codec \in {"records", "plain", "tlv"}
<1>1. kind[f].codec \in {"records", "plain", "tlv"}
  BY DEF IsKind, CanCode, Unencodable
<1>2. Coded(c, f) = Encode(kind[f].codec, c.parts, SizeFor(f))
  BY DEF Coded, SizeFor
<1>3. CASE kind[f].codec = "records"
  <2>1. \A i \in DOMAIN c.parts : Len(c.parts[i]) = RecLen
    BY <1>3 DEF CanCode, Unencodable
  <2>2. Coded(c, f) = Joined(c.parts)
    BY <1>2, <1>3 DEF Encode
  <2>3. Joined(c.parts) \in Seq(Byte)
    BY <2>1, JoinedIs DEF Usable
  <2> QED BY <1>3, <2>1, <2>2, <2>3
<1>4. CASE kind[f].codec # "records"
  <2>1. Len(c.parts) = 1 /\ c.parts \in Seq(Seq(Byte))
    BY <1>4 DEF Usable, CanCode, Unencodable
  <2>2. c.parts[1] \in Seq(Byte)
    BY <2>1
  <2>3. CASE kind[f].codec = "plain"
    <3>1. Coded(c, f) = Padded(c.parts[1], SizeFor(f))
      BY <1>2, <2>3 DEF Encode
    <3> QED BY <2>2, <2>3, <3>1, PaddedIs
  <2>4. CASE kind[f].codec = "tlv"
    <3>1. Coded(c, f) = c.parts[1]
      BY <1>2, <2>4 DEF Encode
    <3> QED BY <2>2, <2>4, <3>1
  <2> QED BY <1>1, <1>4, <2>3, <2>4
<1> QED BY <1>3, <1>4

\* What a command that succeeds on f has found of it.
LEMMA SuccessTells ==
  ASSUME NEW c, NEW f \in EFs, KindInv, Succeeds(c, f)
  PROVE  /\ kind[f].class = kind[f].structure /\ kind[f].structure \in Structures
         /\ kind[f].structure # "ber_tlv" => SizeFor(f) \in Nat
         /\ c.cmd \in TransparentCommands \cup LinFixedCommands \cup BerTlvCommands
         /\ c.cmd \in TransparentCommands <=> kind[f].structure = "transparent"
         /\ c.cmd \in LinFixedCommands <=> kind[f].structure = "linear_fixed"
<1>1. IsKind(kind[f]) /\ IsContent(kind[f], body[f])
  BY DEF KindInv
<1>2. Available(c, f)
  BY DEF Succeeds
<1>3. ~Mismatched(f)
  <2>1. c.cmd \in {"update_binary", "update_binary_decoded", "update_record", "update_record_decoded",
                   "set_data", "delete_data", "delete_all"}
    BY <1>2 DEF Available, CommandsOf, TransparentCommands, LinFixedCommands, BerTlvCommands
  <2> QED BY <2>1 DEF Succeeds, BinaryFits, RecordFits, DataFits, Granted
<1>4. kind[f].class = kind[f].structure /\ kind[f].structure \in Structures
  BY <1>1, <1>3 DEF Mismatched, IsKind
<1>5. c.cmd \in CommandsOf(kind[f].structure)
  BY <1>2, <1>4 DEF Available
<1>6. SizeFor(f) \in Nat \/ kind[f].structure = "ber_tlv"
  BY <1>1, <1>4, CardAssumption DEF SizeFor, IsContent, Structures
<1> QED BY <1>4, <1>5, <1>6 DEF CommandsOf, TransparentCommands, LinFixedCommands, BerTlvCommands, Structures

\* What a command that succeeds leaves in a transparent file, d being the bytes
\* it sends.
Sends(c, f) == IF c.cmd \in DecodedCommands THEN Coded(c, f) ELSE c.data

LEMMA BinarySuccess ==
  ASSUME NEW c, NEW f \in EFs, KindInv, Usable(c), Succeeds(c, f), kind[f].structure = "transparent"
  PROVE  /\ body[f] \in Seq(Byte) /\ Content(c, f) = BinaryWith(f, Sends(c, f)) /\ Sends(c, f) \in Seq(Byte)
         /\ Len(Sends(c, f)) <= Len(body[f]) /\ c.cmd \in TransparentCommands /\ SizeFor(f) = Len(body[f])
         /\ c.cmd \in DecodedCommands => CanCode(c, f)
<1>1. IsKind(kind[f]) /\ body[f] \in Seq(Byte)
  BY DEF KindInv, IsContent
<1>2. c.cmd \in TransparentCommands /\ SizeFor(f) = Len(body[f]) /\ SizeFor(f) \in Nat
  BY SuccessTells DEF SizeFor, Structures
<1>3. CASE c.cmd = "update_binary"
  <2>1. BinaryFits(f, c.data) /\ Content(c, f) = BinaryWith(f, c.data) /\ Sends(c, f) = c.data
    BY <1>3 DEF Succeeds, Content, Sends, DecodedCommands
  <2> QED BY <1>1, <1>2, <1>3, <2>1 DEF BinaryFits, Usable, DecodedCommands
<1>4. CASE c.cmd = "update_binary_decoded"
  <2>1. CanCode(c, f) /\ BinaryFits(f, Coded(c, f)) /\ Content(c, f) = BinaryWith(f, Coded(c, f)) /\ Sends(c, f) = Coded(c, f)
    BY <1>4 DEF Succeeds, Content, Sends, DecodedCommands
  <2>2. Coded(c, f) \in Seq(Byte)
    BY <1>1, <1>2, <1>4, <2>1, CodedIs DEF DecodedCommands
  <2> QED BY <1>1, <1>2, <2>1, <2>2 DEF BinaryFits
<1> QED BY <1>2, <1>3, <1>4 DEF TransparentCommands

LEMMA RecordSuccess ==
  ASSUME NEW c, NEW f \in EFs, KindInv, Usable(c), Succeeds(c, f), kind[f].structure = "linear_fixed"
  PROVE  /\ body[f] \in Seq(Record) /\ c.n \in 1..Len(body[f]) /\ Sends(c, f) \in Seq(Byte)
         /\ Content(c, f) = [body[f] EXCEPT ![c.n] = RecordOf(f, c.n, Sends(c, f))]
         /\ Len(Sends(c, f)) <= RecLen /\ c.cmd \in LinFixedCommands /\ SizeFor(f) = RecLen
         /\ c.cmd \in DecodedCommands => CanCode(c, f)
<1>1. IsKind(kind[f]) /\ body[f] \in Seq(Record)
  BY DEF KindInv, IsContent, Record
<1>2. c.cmd \in LinFixedCommands /\ SizeFor(f) = RecLen /\ SizeFor(f) \in Nat
  BY SuccessTells DEF SizeFor, Structures
<1>3. CASE c.cmd = "update_record"
  <2>1. RecordFits(f, c.n, c.data) /\ Content(c, f) = [body[f] EXCEPT ![c.n] = RecordOf(f, c.n, c.data)] /\ Sends(c, f) = c.data
    BY <1>3 DEF Succeeds, Content, Sends, DecodedCommands
  <2> QED BY <1>1, <1>2, <1>3, <2>1 DEF RecordFits, Usable, DecodedCommands
<1>4. CASE c.cmd = "update_record_decoded"
  <2>1. /\ CanCode(c, f) /\ RecordFits(f, c.n, Coded(c, f)) /\ Sends(c, f) = Coded(c, f)
        /\ Content(c, f) = [body[f] EXCEPT ![c.n] = RecordOf(f, c.n, Coded(c, f))]
    BY <1>4 DEF Succeeds, Content, Sends, DecodedCommands
  <2>2. Coded(c, f) \in Seq(Byte)
    BY <1>1, <1>2, <1>4, <2>1, CodedIs DEF DecodedCommands
  <2> QED BY <1>1, <1>2, <2>1, <2>2 DEF RecordFits
<1> QED BY <1>2, <1>3, <1>4 DEF LinFixedCommands

SameLength(f, b) == kind[f].structure \in {"transparent", "linear_fixed"} => Len(b) = Len(body[f])

\* Tags are a finite set of numbers, whatever is set or deleted.
LEMMA TlvSuccess ==
  ASSUME NEW c, NEW f \in EFs, KindInv, Usable(c), Succeeds(c, f), kind[f].structure = "ber_tlv"
  PROVE  IsContent(kind[f], Content(c, f))
<1> DEFINE OK(b) == IsFiniteSet(DOMAIN b) /\ DOMAIN b \subseteq Nat /\ b \in [DOMAIN b -> Seq(Byte)]
<1>1. OK(body[f])
  BY DEF KindInv, IsContent
<1>2. SUFFICES OK(Content(c, f))
  BY DEF IsContent
<1>3. c.cmd \in BerTlvCommands
  BY SuccessTells
<1>4. CASE c.cmd = "set_data"
  <2>1. PICK b : b = With(body[f], c.n, c.data)
    OBVIOUS
  <2>2. Content(c, f) = b
    BY <1>4, <2>1 DEF Content
  <2>3. DOMAIN b = DOMAIN body[f] \cup {c.n}
    BY <2>1 DEF With
  <2>4. IsFiniteSet(DOMAIN b)
    BY <1>1, <2>3, FS_AddElement
  <2>5. b \in [DOMAIN b -> Seq(Byte)] /\ DOMAIN b \subseteq Nat
    BY <1>1, <2>1, <2>3 DEF With, Usable
  <2> QED BY <2>2, <2>4, <2>5
<1>5. CASE c.cmd = "delete_data"
  <2>1. PICK b : b = Without(f, {c.n})
    OBVIOUS
  <2>2. Content(c, f) = b
    BY <1>5, <2>1 DEF Content
  <2>3. DOMAIN b = DOMAIN body[f] \ {c.n}
    BY <2>1 DEF Without
  <2>4. IsFiniteSet(DOMAIN b)
    BY <1>1, <2>3, FS_Subset
  <2>5. b \in [DOMAIN b -> Seq(Byte)] /\ DOMAIN b \subseteq Nat
    BY <1>1, <2>1, <2>3 DEF Without
  <2> QED BY <2>2, <2>4, <2>5
<1>6. CASE c.cmd = "delete_all"
  <2>1. Content(c, f) = Nothing
    BY <1>6 DEF Content
  <2>2. DOMAIN Nothing = {} /\ Nothing \in [{} -> Seq(Byte)]
    BY DEF Nothing
  <2> QED BY <2>1, <2>2, FS_EmptySet
<1> QED BY <1>3, <1>4, <1>5, <1>6 DEF BerTlvCommands

LEMMA ReplacedInSeq ==
  ASSUME NEW S, NEW s \in Seq(S), NEW i \in 1..Len(s), NEW x \in S
  PROVE  [s EXCEPT ![i] = x] \in Seq(S) /\ Len([s EXCEPT ![i] = x]) = Len(s)
OBVIOUS

LEMMA SuccessKeepsKind ==
  ASSUME NEW c, NEW f \in EFs, KindInv, Usable(c), Succeeds(c, f)
  PROVE  IsContent(kind[f], Content(c, f)) /\ SameLength(f, Content(c, f))
<1>1. CASE kind[f].structure = "transparent"
  BY <1>1, BinarySuccess, BinaryIs DEF IsContent, SameLength
<1>2. CASE kind[f].structure = "linear_fixed"
  <2>1. /\ body[f] \in Seq(Record) /\ c.n \in 1..Len(body[f])
        /\ Content(c, f) = [body[f] EXCEPT ![c.n] = RecordOf(f, c.n, Sends(c, f))]
    BY <1>2, RecordSuccess
  <2>2. PICK r \in Record : r = RecordOf(f, c.n, Sends(c, f))
    BY <1>2, RecordSuccess, RecordIs
  <2>3. PICK b \in Seq(Record) : b = body[f]
    BY <2>1
  <2>4. [b EXCEPT ![c.n] = r] \in Seq(Record) /\ Len([b EXCEPT ![c.n] = r]) = Len(b)
    BY <2>1, <2>3, ReplacedInSeq
  <2> QED BY <1>2, <2>1, <2>2, <2>3, <2>4 DEF IsContent, SameLength, Record
<1>3. CASE kind[f].structure = "ber_tlv"
  BY <1>3, TlvSuccess DEF SameLength
<1> QED BY <1>1, <1>2, <1>3, SuccessTells DEF Structures

LEMMA PartialKeepsKind ==
  ASSUME NEW c, NEW f \in EFs, KindInv, NEW b \in Partial(c, f)
  PROVE  IsContent(kind[f], b) /\ SameLength(f, b)
<1>1. CASE b = body[f]
  BY <1>1 DEF KindInv, SameLength
<1>2. ASSUME Available(c, f), c.cmd = "delete_all", Granted(f, FALSE), NEW gone, b = Without(f, gone)
      PROVE  IsContent(kind[f], b) /\ SameLength(f, b)
  <2>1. kind[f].structure = "ber_tlv"
    BY <1>2 DEF Available, CommandsOf, Granted, Mismatched, TransparentCommands, LinFixedCommands, KindInv, IsKind, Structures
  <2>2. IsFiniteSet(DOMAIN body[f]) /\ DOMAIN body[f] \subseteq Nat /\ body[f] \in [DOMAIN body[f] -> Seq(Byte)]
    BY <2>1 DEF KindInv, IsContent
  <2>3. DOMAIN b = DOMAIN body[f] \ gone
    BY <1>2 DEF Without
  <2>4. IsFiniteSet(DOMAIN b)
    BY <2>2, <2>3, FS_Subset
  <2>5. b \in [DOMAIN b -> Seq(Byte)] /\ DOMAIN b \subseteq Nat
    BY <1>2, <2>2, <2>3 DEF Without
  <2> QED BY <2>1, <2>4, <2>5 DEF IsContent, SameLength
<1> QED BY <1>1, <1>2 DEF Partial
-----------------------------------------------------------------------------
(* The lines of a script.                                                  *)

\* A line that may be printed for the file f, which holds s.
PrintedFor(l, f, s) ==
  CASE kind[f].structure = "transparent"  -> l = UpdateBinary(f, s)
    [] kind[f].structure = "linear_fixed" -> \E r \in 1..Len(s) : l = UpdateRecord(f, r, s[r])
    [] OTHER -> l = Cmd("delete_all", f, 0, <<>>) \/ \E t \in DOMAIN s : l = Cmd("set_data", f, t, s[t])

LEMMA CmdIs ==
  ASSUME NEW name, NEW f, NEW n, NEW d, NEW l, l = Cmd(name, f, n, d)
  PROVE  l.cmd = name /\ l.from = f /\ l.n = n /\ l.data = d /\ l.parts = <<>>
BY DEF Cmd

LEMMA DecodedIs ==
  ASSUME NEW name, NEW f, NEW n, NEW p, NEW l, l = Decoded_(name, f, n, p)
  PROVE  l.cmd = name /\ l.from = f /\ l.n = n /\ l.data = <<>> /\ l.parts = p
<1>1. l = [cmd |-> name, from |-> f, n |-> n, data |-> <<>>, parts |-> p]
  BY DEF Cmd, Decoded_
<1> QED BY <1>1

LEMMA DecodeIs ==
  ASSUME NEW codec, NEW s \in Seq(Byte)
  PROVE  /\ Decode(codec, s) \in Seq(Seq(Byte))
         /\ codec # "records" => Decode(codec, s) # <<>>
         /\ codec = "tlv" => Decode(codec, s)[1] = Trimmed(s)
         /\ codec = "plain" => Decode(codec, s)[1] = s
         /\ codec = "records" => Decode(codec, s) = Split(s)
<1>1. CASE codec = "records"
  BY <1>1, SplitIs DEF Decode
<1>2. CASE codec = "tlv"
  <2>1. PICK t \in Seq(Byte) : t = Trimmed(s)
    BY TrimmedIs
  <2>2. Decode(codec, s) = <<t>>
    BY <1>2, <2>1 DEF Decode
  <2>3. <<t>> \in Seq(Seq(Byte)) /\ <<t>> # <<>> /\ <<t>>[1] = t
    OBVIOUS
  <2> QED BY <1>2, <2>1, <2>2, <2>3
<1>3. CASE codec \notin {"records", "tlv"}
  <2>1. Decode(codec, s) = <<s>>
    BY <1>3 DEF Decode
  <2>2. <<s>> \in Seq(Seq(Byte)) /\ <<s>> # <<>> /\ <<s>>[1] = s
    OBVIOUS
  <2> QED BY <1>3, <2>1, <2>2
<1> QED BY <1>1, <1>2, <1>3

\* An update of s, raw or decoded.
LEMMA UpdateIs ==
  ASSUME NEW raw, NEW decoded, NEW f, NEW n \in Nat, NEW s \in Seq(Byte), raw \notin DecodedCommands
  PROVE  LET l == Update_(raw, decoded, f, n, s)
         IN  /\ Usable(l) /\ l.from = f /\ l.n = n /\ l.cmd \in {raw, decoded}
             /\ asJson => l.cmd = decoded /\ l.parts = Decode(kind[f].codec, s)
             /\ ~asJson => l.cmd = raw /\ l.data = s
<1>0. PICK d \in Seq(Seq(Byte)) : d = Decode(kind[f].codec, s)
  BY DecodeIs
<1>1. CASE asJson
  <2>1. PICK l : l = Decoded_(decoded, f, n, d)
    OBVIOUS
  <2>2. l.cmd = decoded /\ l.from = f /\ l.n = n /\ l.data = <<>> /\ l.parts = d
    BY <2>1, DecodedIs
  <2>3. Usable(l)
    BY <1>0, <2>2, DecodeIs DEF Usable
  <2>4. Update_(raw, decoded, f, n, s) = l
    BY <1>0, <1>1, <2>1 DEF Update_
  <2> QED BY <1>0, <1>1, <2>2, <2>3, <2>4
<1>2. CASE ~asJson
  <2>1. PICK l : l = Cmd(raw, f, n, s)
    OBVIOUS
  <2>2. l.cmd = raw /\ l.from = f /\ l.n = n /\ l.data = s /\ l.parts = <<>>
    BY <2>1, CmdIs
  <2>3. Usable(l)
    BY <2>2 DEF Usable
  <2>4. Update_(raw, decoded, f, n, s) = l
    BY <1>2, <2>1 DEF Update_
  <2> QED BY <1>2, <2>2, <2>3, <2>4
<1> QED BY <1>1, <1>2

LEMMA LineIsUsable ==
  ASSUME NEW f, NEW s, NEW l, IsContent(kind[f], s), PrintedFor(l, f, s)
  PROVE  /\ Usable(l) /\ l.from = f /\ l.cmd # "select"
         /\ l.cmd \in TransparentCommands \cup LinFixedCommands \cup BerTlvCommands
<1>1. CASE kind[f].structure = "transparent"
  <2>1. s \in Seq(Byte) /\ l = UpdateBinary(f, s)
    BY <1>1 DEF IsContent, PrintedFor
  <2> QED BY <2>1, UpdateIs DEF UpdateBinary, DecodedCommands, TransparentCommands
<1>2. CASE kind[f].structure = "linear_fixed"
  <2>1. PICK r \in 1..Len(s) : l = UpdateRecord(f, r, s[r])
    BY <1>2 DEF PrintedFor
  <2>2. s[r] \in Seq(Byte) /\ r \in Nat
    BY <1>2, RecordIsSeq DEF IsContent, Record
  <2> QED BY <2>1, <2>2, UpdateIs DEF UpdateRecord, DecodedCommands, LinFixedCommands
<1>3. CASE kind[f].structure \notin {"transparent", "linear_fixed"}
  <2>1. DOMAIN s \subseteq Nat /\ \A t \in DOMAIN s : s[t] \in Seq(Byte)
    BY <1>3 DEF IsContent
  <2>2. CASE l = Cmd("delete_all", f, 0, <<>>)
    <3>1. l.cmd = "delete_all" /\ l.from = f /\ l.n = 0 /\ l.data = <<>> /\ l.parts = <<>>
      BY <2>2, CmdIs
    <3> QED BY <3>1 DEF Usable, DecodedCommands, BerTlvCommands
  <2>3. ASSUME NEW t \in DOMAIN s, l = Cmd("set_data", f, t, s[t])
        PROVE  Usable(l) /\ l.from = f /\ l.cmd # "select" /\ l.cmd \in BerTlvCommands
    <3>1. l.cmd = "set_data" /\ l.from = f /\ l.n = t /\ l.data = s[t] /\ l.parts = <<>>
      BY <2>3, CmdIs
    <3> QED BY <2>1, <3>1 DEF Usable, DecodedCommands, BerTlvCommands
  <2> QED BY <1>3, <2>2, <2>3 DEF PrintedFor
<1> QED BY <1>1, <1>2, <1>3

\* What SameTo asks of a codec, for bytes that were encoded from a decoded s.
LEMMA EncodedAgain ==
  ASSUME NEW l, NEW f, NEW s \in Seq(Byte), IsKind(kind[f]), Usable(l), l.cmd \in DecodedCommands,
         l.parts = Decode(kind[f].codec, s), CanCode(l, f), SizeFor(f) = Len(s)
  PROVE  IF kind[f].codec = "tlv" THEN Coded(l, f) = Trimmed(s) ELSE Coded(l, f) = s
<1>1. SizeFor(f) \in Nat
  OBVIOUS
<1>2. CASE kind[f].codec = "tlv"
  BY <1>1, <1>2, CodedIs, DecodeIs
<1>3. CASE kind[f].codec = "records"
  <2>1. l.parts = Split(s) /\ Coded(l, f) = Joined(l.parts) /\ \A i \in DOMAIN l.parts : Len(l.parts[i]) = RecLen
    BY <1>1, <1>3, CodedIs, DecodeIs
  <2> QED BY <1>3, <2>1, JoinSplit
<1>4. CASE kind[f].codec = "plain"
  <2>1. l.parts[1] = s /\ Coded(l, f) = Padded(l.parts[1], SizeFor(f))
    BY <1>1, <1>4, CodedIs, DecodeIs
  <2> QED BY <1>1, <1>4, <2>1, PaddedIs
<1> QED BY <1>1, <1>2, <1>3, <1>4, CodedIs

LEMMA BinaryGoesBack ==
  ASSUME NEW f \in EFs, KindInv, kind[f].structure = "transparent", NEW s \in Seq(Byte), Len(s) = Len(body[f]),
         NEW l, l = UpdateBinary(f, s), Succeeds(l, f)
  PROVE  SameTo(kind[f].codec, s, Content(l, f))
<1>1. /\ Usable(l) /\ asJson => l.cmd = "update_binary_decoded" /\ l.parts = Decode(kind[f].codec, s)
      /\ ~asJson => l.cmd = "update_binary" /\ l.data = s
  BY UpdateIs DEF UpdateBinary, DecodedCommands
<1>2. Usable(l)
  BY UpdateIs DEF UpdateBinary, DecodedCommands
<1>3. /\ body[f] \in Seq(Byte) /\ Content(l, f) = BinaryWith(f, Sends(l, f)) /\ Sends(l, f) \in Seq(Byte)
      /\ Len(Sends(l, f)) <= Len(body[f]) /\ SizeFor(f) = Len(body[f])
      /\ l.cmd \in DecodedCommands => CanCode(l, f)
  BY <1>2, BinarySuccess
<1>4. IsKind(kind[f])
  BY DEF KindInv
<1>5. CASE ~asJson
  <2>1. Sends(l, f) = s
    BY <1>1, <1>2, <1>5 DEF Sends, DecodedCommands
  <2>2. Content(l, f) = s
    BY <1>3, <2>1, BinaryIs
  <2> QED BY <1>5, <2>2 DEF SameTo
<1>6. CASE asJson
  <2>1. l.cmd \in DecodedCommands /\ l.parts = Decode(kind[f].codec, s) /\ CanCode(l, f) /\ Sends(l, f) = Coded(l, f)
    BY <1>1, <1>2, <1>3, <1>6 DEF Sends, DecodedCommands
  <2>2. IF kind[f].codec = "tlv" THEN Coded(l, f) = Trimmed(s) ELSE Coded(l, f) = s
    BY <1>2, <1>3, <1>4, <2>1, EncodedAgain
  <2>3. CASE kind[f].codec = "tlv"
    <3>0. PICK t \in Seq(Byte) : t = Trimmed(s) /\ t = Sends(l, f)
      BY <1>3, <2>1, <2>2, <2>3
    <3>1. PICK u \in Seq(Byte) : Content(l, f) = Trimmed(s) \o u
      <4>1. \E u \in Seq(Byte) : BinaryWith(f, t) = t \o u
        BY <1>3, <3>0, BinaryIs
      <4> QED BY <1>3, <3>0, <4>1
    <3>2. IsPrefix(Trimmed(s), Content(l, f))
      BY <3>1, TrimmedIs, ConcatPrefix
    <3> QED BY <1>6, <2>3, <3>2 DEF SameTo
  <2>4. CASE kind[f].codec # "tlv"
    <3>1. Content(l, f) = s
      BY <1>3, <2>1, <2>2, <2>4, BinaryIs
    <3> QED BY <2>4, <3>1 DEF SameTo
  <2> QED BY <2>3, <2>4
<1> QED BY <1>5, <1>6

LEMMA RecordGoesBack ==
  ASSUME NEW f \in EFs, KindInv, kind[f].structure = "linear_fixed", NEW r \in Nat, NEW s \in Record,
         NEW l, l = UpdateRecord(f, r, s), Succeeds(l, f)
  PROVE  /\ SameTo(kind[f].codec, s, Content(l, f)[r])
         /\ r \in 1..Len(body[f]) /\ \A k \in 1..Len(body[f]) : k # r => Content(l, f)[k] = body[f][k]
<1>0. s \in Seq(Byte) /\ Len(s) = RecLen
  BY RecordIsSeq
<1>1. Usable(l) /\ l.n = r
  BY <1>0, UpdateIs DEF UpdateRecord, DecodedCommands
<1>2. /\ asJson => l.cmd = "update_record_decoded" /\ l.parts = Decode(kind[f].codec, s)
      /\ ~asJson => l.cmd = "update_record" /\ l.data = s
  BY <1>0, UpdateIs DEF UpdateRecord, DecodedCommands
<1>3. /\ body[f] \in Seq(Record) /\ l.n \in 1..Len(body[f]) /\ Sends(l, f) \in Seq(Byte)
      /\ Content(l, f) = [body[f] EXCEPT ![l.n] = RecordOf(f, l.n, Sends(l, f))]
      /\ Len(Sends(l, f)) <= RecLen /\ SizeFor(f) = RecLen
      /\ l.cmd \in DecodedCommands => CanCode(l, f)
  BY <1>1, RecordSuccess
<1>4. /\ Content(l, f)[r] = RecordOf(f, r, Sends(l, f))
      /\ r \in 1..Len(body[f]) /\ \A k \in 1..Len(body[f]) : k # r => Content(l, f)[k] = body[f][k]
  BY <1>1, <1>3
<1>5. IsKind(kind[f])
  BY DEF KindInv
<1>6. CASE ~asJson
  <2>1. Sends(l, f) = s
    BY <1>2, <1>6 DEF Sends, DecodedCommands
  <2>2. RecordOf(f, r, s) = s
    BY <1>0, RecordIs
  <2> QED BY <1>4, <1>6, <2>1, <2>2 DEF SameTo
<1>7. CASE asJson
  <2>1. l.cmd \in DecodedCommands /\ l.parts = Decode(kind[f].codec, s) /\ CanCode(l, f) /\ Sends(l, f) = Coded(l, f)
    BY <1>2, <1>3, <1>7 DEF Sends, DecodedCommands
  <2>2. IF kind[f].codec = "tlv" THEN Coded(l, f) = Trimmed(s) ELSE Coded(l, f) = s
    <3>1. SizeFor(f) = Len(s)
      BY <1>0, <1>3
    <3> QED BY <1>0, <1>1, <1>5, <2>1, <3>1, EncodedAgain
  <2>3. CASE kind[f].codec = "tlv"
    <3>1. ~kind[f].leftpad
      BY <1>5, <2>3 DEF IsKind
    <3>2. RecordOf(f, r, Trimmed(s)) = Padded(Trimmed(s), RecLen)
      BY <1>3, <2>1, <2>2, <2>3, <3>1, RecordIs
    <3>3. IsPrefix(Trimmed(s), Padded(Trimmed(s), RecLen))
      BY <1>0, TrimmedIs, PaddedIs, CardAssumption
    <3> QED BY <1>4, <1>7, <2>1, <2>2, <2>3, <3>2, <3>3 DEF SameTo
  <2>4. CASE kind[f].codec # "tlv"
    <3>1. RecordOf(f, r, s) = s
      BY <1>0, RecordIs
    <3> QED BY <1>4, <2>1, <2>2, <2>4, <3>1 DEF SameTo
  <2> QED BY <2>3, <2>4
<1> QED BY <1>4, <1>6, <1>7
-----------------------------------------------------------------------------
(* What a script consists of, and how far it has been run.                 *)

LineSet == [cmd : {"select"} \cup TransparentCommands \cup LinFixedCommands \cup BerTlvCommands,
            from : Names, n : Nat, data : Seq(Byte), parts : Seq(Seq(Byte))]

\* The lines ls tell everything of the file f, which holds s.
Covers(ls, f, s) ==
  CASE kind[f].structure = "transparent"  -> \E i \in 1..Len(ls) : ls[i] = UpdateBinary(f, s)
    [] kind[f].structure = "linear_fixed" -> \A r \in 1..Len(s) : \E i \in 1..Len(ls) : ls[i] = UpdateRecord(f, r, s[r])
    [] OTHER -> s # Nothing => \E i \in 1..Len(ls) : ls[i] = Cmd("delete_all", f, 0, <<>>)

\* What is deleted is set behind it.
Refills(ls, f, s) ==
  \A i \in 1..Len(ls) : ls[i].cmd = "delete_all" /\ ls[i].from = f =>
    \A t \in DOMAIN s : \E k \in (i + 1)..Len(ls) : ls[k] = Cmd("set_data", f, t, s[t])

\* A line that writes to a file stands behind one about the same file; ex is
\* what the exported files held.
Follows(ls, i, ex) ==
  ls[i].cmd # "select" =>
    /\ i > 1 /\ ls[i - 1].from = ls[i].from
    /\ ls[i].from \in DOMAIN ex /\ PrintedFor(ls[i], ls[i].from, ex[ls[i].from])

\* What was exported is still the content of a file of its kind and length.
ExportedInv ==
  /\ DOMAIN exported \subseteq EFs
  /\ \A f \in DOMAIN exported : /\ IsContent(kind[f], exported[f]) /\ SameLength(f, exported[f])
                                /\ job = "export" => exported[f] = body[f]

\* The script tells everything that was exported, and nothing else.
ScriptInv ==
  /\ script \in Seq(LineSet)
  /\ \A i \in 1..Len(script) : Follows(script, i, exported)
  /\ \A f \in DOMAIN exported : Covers(script, f, exported[f]) /\ Refills(script, f, exported[f])

\* b, which f holds now, is s or will be when the lines from n on are run.
Refilled(ls, n, f, s, b) ==
  /\ \A t \in DOMAIN b : t \in DOMAIN s /\ b[t] = s[t]
  /\ \A t \in DOMAIN s : t \in DOMAIN b \/ \E k \in n..Len(ls) : ls[k] = Cmd("set_data", f, t, s[t])

\* What the line ls[i] of the file f gave back of s.
GoneBack(ls, i, n, f, s, b) ==
  CASE kind[f].structure = "transparent"  -> SameTo(kind[f].codec, s, b)
    [] kind[f].structure = "linear_fixed" -> \A r \in 1..Len(s) : ls[i] = UpdateRecord(f, r, s[r]) => SameTo(kind[f].codec, s[r], b[r])
    [] OTHER -> ls[i].cmd = "delete_all" => Refilled(ls, n, f, s, b)

RestoreInv ==
  job = "restore" =>
    /\ line \in 1..(Len(script) + 1)
    /\ misled => failed
    /\ ~misled /\ line > 1 => sel = script[line - 1].from
    /\ ~failed => \A i \in 1..(line - 1) :
         script[i].cmd # "select" =>
           \A f \in DOMAIN exported : f = script[i].from => GoneBack(script, i, line, f, exported[f], body[f])

FilesInv == KindInv /\ ExportedInv /\ ScriptInv /\ RestoreInv /\ WrittenIsThere
-----------------------------------------------------------------------------
(* One command.                                                            *)

LEMMA PerformIs ==
  ASSUME NEW c, NEW f, KindInv, Usable(c), Perform(c, f), kind' = kind
  PROVE  /\ KindInv'
         /\ \A g \in EFs : SameLength(g, body'[g])
         /\ \A g \in EFs : g # f => body'[g] = body[g]
         /\ f \in EFs /\ Succeeds(c, f) => body'[f] = Content(c, f)
<1>1. CASE f \notin EFs
  <2>1. ~Succeeds(c, f)
    BY <1>1 DEF Succeeds, Available
  <2>2. body' = body
    BY <1>1, <2>1 DEF Perform
  <2> QED BY <1>1, <2>2 DEF KindInv, SameLength
<1>2. CASE f \in EFs
  <2>1. PICK b : /\ body' = [body EXCEPT ![f] = b] /\ IsContent(kind[f], b) /\ SameLength(f, b)
                 /\ Succeeds(c, f) => b = Content(c, f)
    <3>1. CASE Succeeds(c, f)
      BY <1>2, <3>1, SuccessKeepsKind DEF Perform
    <3>2. CASE ~Succeeds(c, f)
      <4>1. PICK b \in Partial(c, f) : body' = [body EXCEPT ![f] = b]
        BY <1>2, <3>2 DEF Perform
      <4> QED BY <1>2, <3>2, <4>1, PartialKeepsKind
    <3> QED BY <3>1, <3>2
  <2>2. body = [g \in EFs |-> body[g]]
    BY DEF KindInv
  <2>3. \A g \in EFs : body'[g] = IF g = f THEN b ELSE body[g]
    BY <2>1, <2>2
  <2>4. body' = [g \in EFs |-> body'[g]]
    BY <2>1, <2>2
  <2>5. \A g \in EFs : SameLength(g, body'[g])
    BY <2>1, <2>3 DEF SameLength
  <2>6. KindInv'
    BY <2>1, <2>3, <2>4 DEF KindInv
  <2> QED BY <2>1, <2>3, <2>5, <2>6
<1> QED BY <1>1, <1>2

LEMMA SameLengthAgain ==
  ASSUME NEW f, NEW s, SameLength(f, s), SameLength(f, body'[f]), kind' = kind
  PROVE  SameLength(f, s)'
BY DEF SameLength
-----------------------------------------------------------------------------
(* The tags of a file in a sequence.                                       *)

LEMMA TagsAreListed ==
  ASSUME NEW S, IsFiniteSet(S)
  PROVE  SetToSeq(S) \in Seq(S) /\ \A x \in S : \E i \in 1..Len(SetToSeq(S)) : SetToSeq(S)[i] = x
<1>1. PICK n \in Nat : n = Cardinality(S) /\ ExistsBijection(1..n, S)
  BY FS_CardinalityType
<1>2. PICK g \in Bijection(1..n, S) : TRUE
  BY <1>1 DEF ExistsBijection
<1>3. g \in [1..n -> S] /\ IsInjective(g)
  BY <1>2 DEF Bijection, Injection
<1>4. PICK h \in [1..n -> S] : h = SetToSeq(S) /\ IsInjective(h)
  BY <1>1, <1>3 DEF SetToSeq
<1>5. h \in Seq(S) /\ Len(h) = n
  BY <1>4, SequenceOf
<1>6. ASSUME NEW x \in S
      PROVE  \E i \in 1..n : h[i] = x
  <2>1. SUFFICES ASSUME \A i \in 1..n : h[i] # x
                 PROVE  FALSE
    OBVIOUS
  <2>2. PICK T : T = {h[i] : i \in 1..n}
    OBVIOUS
  <2>3. h \in Bijection(1..n, T)
    BY <1>4, <2>2 DEF Bijection, Injection, Surjection, IsInjective
  <2>4. Cardinality(T) = n
    BY <2>3, FS_CountingElements DEF ExistsBijection
  <2>5. T \subseteq S /\ x \notin T
    BY <1>4, <2>1, <2>2
  <2>6. Cardinality(T) = Cardinality(S)
    BY <1>1, <2>4
  <2> QED BY <1>6, <2>5, <2>6, FS_Subset
<1> QED BY <1>4, <1>5, <1>6
-----------------------------------------------------------------------------
(* The lines of a file.                                                    *)

IsLine(l) == l = [cmd |-> l.cmd, from |-> l.from, n |-> l.n, data |-> l.data, parts |-> l.parts]

LEMMA LineIsALine ==
  ASSUME NEW f \in EFs, NEW s, NEW l, IsContent(kind[f], s), PrintedFor(l, f, s)
  PROVE  l \in LineSet
<1>1. /\ l.n \in Nat /\ l.data \in Seq(Byte) /\ l.parts \in Seq(Seq(Byte)) /\ l.from = f
      /\ l.cmd \in TransparentCommands \cup LinFixedCommands \cup BerTlvCommands
  BY LineIsUsable DEF Usable
<1>2. IsLine(l)
  <2>1. \A name, n, d : l = Cmd(name, f, n, d) => IsLine(l)
    BY DEF Cmd, IsLine
  <2>2. \A name, n, d : l = Decoded_(name, f, n, d) => IsLine(l)
    BY DEF Cmd, Decoded_, IsLine
  <2>3. \A raw, decoded, n, d : l = Update_(raw, decoded, f, n, d) => IsLine(l)
    BY <2>1, <2>2 DEF Update_
  <2>4. CASE kind[f].structure = "transparent"
    BY <2>3, <2>4 DEF PrintedFor, UpdateBinary
  <2>5. CASE kind[f].structure = "linear_fixed"
    BY <2>3, <2>5 DEF PrintedFor, UpdateRecord
  <2>6. CASE kind[f].structure \notin {"transparent", "linear_fixed"}
    BY <2>1, <2>6 DEF PrintedFor
  <2> QED BY <2>4, <2>5, <2>6
<1> QED BY <1>1, <1>2 DEF IsLine, LineSet, Names

LEMMA SetLinesAre ==
  ASSUME NEW f \in EFs, KindInv, kind[f].structure \notin {"transparent", "linear_fixed"}
  PROVE  \E n \in Nat :
           /\ SetLines(f) = [i \in 1..n |-> SetLines(f)[i]]
           /\ \A i \in 1..n : \E t \in DOMAIN body[f] : SetLines(f)[i] = Cmd("set_data", f, t, body[f][t])
           /\ \A t \in DOMAIN body[f] : \E i \in 1..n : SetLines(f)[i] = Cmd("set_data", f, t, body[f][t])
<1>1. IsFiniteSet(DOMAIN body[f])
  BY DEF KindInv, IsContent
<1>2. PICK ts \in Seq(DOMAIN body[f]) : ts = TagList(f) /\ \A t \in DOMAIN body[f] : \E i \in 1..Len(ts) : ts[i] = t
  BY <1>1, TagsAreListed DEF TagList
<1>3. SetLines(f) = [i \in 1..Len(ts) |-> Cmd("set_data", f, ts[i], body[f][ts[i]])]
  BY <1>2 DEF SetLines
<1>4. SetLines(f) = [i \in 1..Len(ts) |-> SetLines(f)[i]]
  BY <1>3
<1>5. \A i \in 1..Len(ts) : ts[i] \in DOMAIN body[f] /\ SetLines(f)[i] = Cmd("set_data", f, ts[i], body[f][ts[i]])
  BY <1>3
<1>6. \A t \in DOMAIN body[f] : \E i \in 1..Len(ts) : SetLines(f)[i] = Cmd("set_data", f, t, body[f][t])
  <2> TAKE t \in DOMAIN body[f]
  <2>1. PICK i \in 1..Len(ts) : ts[i] = t
    BY <1>2
  <2> QED BY <1>5, <2>1
<1>7. \A i \in 1..Len(ts) : \E t \in DOMAIN body[f] : SetLines(f)[i] = Cmd("set_data", f, t, body[f][t])
  BY <1>5
<1>8. Len(ts) \in Nat
  OBVIOUS
<1> QED BY <1>4, <1>6, <1>7, <1>8, Zenon

LEMMA LinesAre ==
  ASSUME NEW f \in EFs, KindInv
  PROVE  /\ Lines(f) \in Seq(LineSet)
         /\ \A i \in 1..Len(Lines(f)) : PrintedFor(Lines(f)[i], f, body[f])
         /\ Covers(Lines(f), f, body[f]) /\ Refills(Lines(f), f, body[f])
<1>1. IsContent(kind[f], body[f])
  BY DEF KindInv
<1>2. CASE kind[f].structure = "transparent"
  <2>1. PICK l : l = UpdateBinary(f, body[f])
    OBVIOUS
  <2>2. PrintedFor(l, f, body[f])
    BY <1>2, <2>1 DEF PrintedFor
  <2>3. l \in LineSet /\ l.cmd \in TransparentCommands
    BY <1>1, <1>2, <2>1, <2>2, LineIsALine, UpdateIs DEF IsContent, UpdateBinary, DecodedCommands, TransparentCommands
  <2>4. Lines(f) = <<l>>
    BY <1>2, <2>1 DEF Lines
  <2>5. Covers(<<l>>, f, body[f])
    BY <1>2, <2>1 DEF Covers
  <2>6. Refills(<<l>>, f, body[f])
    BY <2>3 DEF Refills, TransparentCommands
  <2> QED BY <2>2, <2>3, <2>4, <2>5, <2>6
<1>3. CASE kind[f].structure = "linear_fixed"
  <2>1. body[f] \in Seq(Record)
    BY <1>1, <1>3 DEF IsContent, Record
  <2>2. Lines(f) = [r \in 1..Len(body[f]) |-> UpdateRecord(f, r, body[f][r])]
    BY <1>3, <2>1 DEF Lines
  <2>3. PICK n \in Nat : n = Len(body[f])
    BY <2>1
  <2>4. \A r \in 1..n : Lines(f)[r] = UpdateRecord(f, r, body[f][r]) /\ PrintedFor(Lines(f)[r], f, body[f])
    BY <1>3, <2>2, <2>3 DEF PrintedFor
  <2>5. \A r \in 1..n : Lines(f)[r] \in LineSet /\ Lines(f)[r].cmd \in LinFixedCommands
    <3> TAKE r \in 1..n
    <3>1. body[f][r] \in Seq(Byte)
      BY <2>1, <2>3, RecordIsSeq
    <3> QED BY <1>1, <2>4, <3>1, LineIsALine, UpdateIs DEF UpdateRecord, DecodedCommands, LinFixedCommands
  <2>6. Lines(f) \in Seq(LineSet) /\ Len(Lines(f)) = n
    <3>1. Lines(f) = [r \in 1..n |-> Lines(f)[r]]
      BY <2>2, <2>3, <2>4
    <3>2. Lines(f) \in [1..n -> LineSet]
      BY <2>5, <3>1
    <3> QED BY <3>2, SequenceOf
  <2>7. Covers(Lines(f), f, body[f])
    BY <1>3, <2>3, <2>4, <2>6 DEF Covers
  <2>8. Refills(Lines(f), f, body[f])
    BY <2>5, <2>6 DEF Refills, LinFixedCommands
  <2> QED BY <2>3, <2>4, <2>6, <2>7, <2>8
<1>4. CASE kind[f].structure \notin {"transparent", "linear_fixed"}
  <2>1. Lines(f) = TlvLines(f)
    BY <1>4 DEF Lines
  <2>2. CASE body[f] = Nothing
    <3>1. Lines(f) = <<>>
      BY <2>1, <2>2 DEF TlvLines
    <3> QED BY <1>4, <2>2, <3>1 DEF Covers, Refills
  <2>3. CASE body[f] # Nothing
    <3>0. PICK ls : ls = SetLines(f)
      OBVIOUS
    <3>1. PICK n \in Nat : /\ ls = [i \in 1..n |-> ls[i]]
                           /\ \A i \in 1..n : \E t \in DOMAIN body[f] : ls[i] = Cmd("set_data", f, t, body[f][t])
                           /\ \A t \in DOMAIN body[f] : \E i \in 1..n : ls[i] = Cmd("set_data", f, t, body[f][t])
      BY <1>4, <3>0, SetLinesAre
    <3>2. \A i \in 1..n : \E t \in DOMAIN body[f] : ls[i] = Cmd("set_data", f, t, body[f][t])
      BY <3>1
    <3>3. \A t \in DOMAIN body[f] : \E i \in 1..n : ls[i] = Cmd("set_data", f, t, body[f][t])
      BY <3>1
    <3>4. PICK d : d = Cmd("delete_all", f, 0, <<>>)
      OBVIOUS
    <3>5. PrintedFor(d, f, body[f]) /\ \A i \in 1..n : PrintedFor(ls[i], f, body[f])
      BY <1>4, <3>2, <3>4 DEF PrintedFor
    <3>6. d \in LineSet /\ \A i \in 1..n : ls[i] \in LineSet
      BY <1>1, <3>5, LineIsALine
    <3>7. ls \in Seq(LineSet) /\ Len(ls) = n
      <4>1. ls \in [1..n -> LineSet]
        BY <3>1, <3>6
      <4> QED BY <3>1, <4>1, SequenceOf
    <3>8a. Lines(f) = <<d>> \o ls
      BY <2>1, <2>3, <3>0, <3>4 DEF TlvLines
    <3>8b. <<d>> \in Seq(LineSet) /\ Len(<<d>>) = 1 /\ <<d>>[1] = d
      BY <3>6
    <3>8. PICK t \in Seq(LineSet) : t = Lines(f) /\ t = <<d>> \o ls
      BY <3>7, <3>8a, <3>8b, ConcatIs
    <3>9. Len(t) = n + 1 /\ t[1] = d /\ \A i \in 1..n : t[i + 1] = ls[i]
      <4>1. Len(t) = 1 + n
        BY <3>7, <3>8, <3>8b, ConcatIs
      <4>2. \A i \in 1..1 : t[i] = <<d>>[i]
        BY <3>7, <3>8, <3>8b, ConcatIs
      <4>3. \A i \in 1..n : t[1 + i] = ls[i]
        BY <3>7, <3>8, <3>8b, ConcatIs
      <4> QED BY <3>8b, <4>1, <4>2, <4>3
    <3>10. \A i \in 1..Len(t) : PrintedFor(t[i], f, body[f])
      <4> TAKE i \in 1..Len(t)
      <4>1. CASE i = 1
        BY <3>5, <3>9, <4>1
      <4>2. CASE i # 1
        <5>1. i - 1 \in 1..n /\ i = (i - 1) + 1
          BY <3>9, <4>2
        <5>2. t[i] = ls[i - 1]
          BY <3>9, <5>1
        <5> QED BY <3>5, <5>1, <5>2
      <4> QED BY <4>1, <4>2
    <3>11. Covers(t, f, body[f])
      BY <1>4, <3>4, <3>9 DEF Covers
    <3>12. Refills(t, f, body[f])
      <4>1. SUFFICES ASSUME NEW i \in 1..Len(t), t[i].cmd = "delete_all", NEW x \in DOMAIN body[f]
                     PROVE  \E k \in (i + 1)..Len(t) : t[k] = Cmd("set_data", f, x, body[f][x])
        BY DEF Refills
      <4>2. i = 1
        <5>1. SUFFICES ASSUME i # 1
                       PROVE  FALSE
          OBVIOUS
        <5>2. i - 1 \in 1..n /\ i = (i - 1) + 1
          BY <3>9, <5>1
        <5>3. PICK y : t[i] = Cmd("set_data", f, y, body[f][y])
          BY <3>2, <3>9, <5>2
        <5> QED BY <4>1, <5>3, CmdIs
      <4>3. PICK j \in 1..n : ls[j] = Cmd("set_data", f, x, body[f][x])
        BY <3>3
      <4>4. j + 1 \in (i + 1)..Len(t) /\ t[j + 1] = ls[j]
        BY <3>9, <4>2
      <4> QED BY <4>3, <4>4
    <3> QED BY <3>8, <3>10, <3>11, <3>12
  <2> QED BY <2>2, <2>3
<1> QED BY <1>2, <1>3, <1>4
-----------------------------------------------------------------------------
(* The script grows.                                                       *)

LEMMA CoversMore ==
  ASSUME NEW ls \in Seq(LineSet), NEW ms \in Seq(LineSet), NEW f, NEW s, Covers(ls, f, s) \/ Covers(ms, f, s)
  PROVE  Covers(ls \o ms, f, s)
<1>1. PICK t \in Seq(LineSet) : t = ls \o ms
  BY ConcatIs
<1>2. /\ \A i \in 1..Len(ls) : i \in 1..Len(t) /\ t[i] = ls[i]
      /\ \A i \in 1..Len(ms) : Len(ls) + i \in 1..Len(t) /\ t[Len(ls) + i] = ms[i]
  BY <1>1, ConcatIs
<1>3. ASSUME NEW x, (\E i \in 1..Len(ls) : ls[i] = x) \/ (\E i \in 1..Len(ms) : ms[i] = x)
      PROVE  \E i \in 1..Len(t) : t[i] = x
  BY <1>2, <1>3
<1>4. CASE kind[f].structure = "transparent"
  BY <1>1, <1>3, <1>4 DEF Covers
<1>5. CASE kind[f].structure = "linear_fixed"
  BY <1>1, <1>3, <1>5 DEF Covers
<1>6. CASE kind[f].structure \notin {"transparent", "linear_fixed"}
  BY <1>1, <1>3, <1>6 DEF Covers
<1> QED BY <1>4, <1>5, <1>6

LEMMA RefillsMore ==
  ASSUME NEW ls \in Seq(LineSet), NEW ms \in Seq(LineSet), NEW f, NEW s, Refills(ls, f, s), Refills(ms, f, s)
  PROVE  Refills(ls \o ms, f, s)
<1>1. PICK t \in Seq(LineSet) : t = ls \o ms
  BY ConcatIs
<1>2. /\ Len(t) = Len(ls) + Len(ms)
      /\ \A i \in 1..Len(ls) : t[i] = ls[i]
      /\ \A i \in 1..Len(ms) : t[Len(ls) + i] = ms[i]
  BY <1>1, ConcatIs
<1>3. SUFFICES ASSUME NEW i \in 1..Len(t), t[i].cmd = "delete_all", t[i].from = f, NEW x \in DOMAIN s
               PROVE  \E k \in (i + 1)..Len(t) : t[k] = Cmd("set_data", f, x, s[x])
  BY <1>1 DEF Refills
<1>4. CASE i \in 1..Len(ls)
  <2>1. PICK k \in (i + 1)..Len(ls) : ls[k] = Cmd("set_data", f, x, s[x])
    BY <1>2, <1>3, <1>4 DEF Refills
  <2> QED BY <1>2, <1>4, <2>1
<1>5. CASE i \notin 1..Len(ls)
  <2>1. PICK j \in 1..Len(ms) : i = Len(ls) + j
    <3>1. i - Len(ls) \in 1..Len(ms) /\ i = Len(ls) + (i - Len(ls))
      BY <1>2, <1>5
    <3> QED BY <3>1
  <2>2. PICK k \in (j + 1)..Len(ms) : ms[k] = Cmd("set_data", f, x, s[x])
    BY <1>2, <1>3, <2>1 DEF Refills
  <2>3. Len(ls) + k \in (i + 1)..Len(t) /\ t[Len(ls) + k] = ms[k]
    BY <1>2, <2>1, <2>2
  <2> QED BY <2>2, <2>3
<1> QED BY <1>4, <1>5

\* Lines of f behind a line that names f.
LEMMA FollowsMore ==
  ASSUME NEW ls \in Seq(LineSet), NEW ms \in Seq(LineSet), NEW f, NEW ex,
         \A i \in 1..Len(ls) : Follows(ls, i, ex), ls # <<>>, ls[Len(ls)].from = f,
         ms # <<>> => f \in DOMAIN ex,
         \A i \in 1..Len(ms) : ms[i].from = f /\ PrintedFor(ms[i], f, ex[f])
  PROVE  \A i \in 1..Len(ls \o ms) : Follows(ls \o ms, i, ex)
<1>1. PICK t \in Seq(LineSet) : t = ls \o ms
  BY ConcatIs
<1>2. /\ Len(t) = Len(ls) + Len(ms)
      /\ \A i \in 1..Len(ls) : t[i] = ls[i]
      /\ \A i \in 1..Len(ms) : t[Len(ls) + i] = ms[i]
  BY <1>1, ConcatIs
<1>3. SUFFICES ASSUME NEW i \in 1..Len(t)
               PROVE  Follows(t, i, ex)
  BY <1>1
<1>4. CASE i \in 1..Len(ls)
  <2>1. i > 1 => i - 1 \in 1..Len(ls)
    BY <1>4
  <2>2. t[i] = ls[i] /\ (i > 1 => t[i - 1] = ls[i - 1])
    BY <1>2, <1>4, <2>1
  <2>3. Follows(ls, i, ex)
    BY <1>4
  <2> QED BY <2>2, <2>3 DEF Follows
<1>5. CASE i \notin 1..Len(ls)
  <2>1. PICK j \in 1..Len(ms) : i = Len(ls) + j
    <3>1. i - Len(ls) \in 1..Len(ms) /\ i = Len(ls) + (i - Len(ls))
      BY <1>2, <1>5
    <3> QED BY <3>1
  <2>2. t[i] = ms[j] /\ t[i].from = f /\ ms # <<>> /\ i > 1
    <3>1. t[i] = ms[j]
      BY <1>2, <2>1
    <3>2. ms # <<>> /\ Len(ls) \in Nat \ {0}
      BY <2>1, EmptySeq
    <3> QED BY <2>1, <3>1, <3>2
  <2>3. t[i - 1].from = f
    <3>1. CASE j = 1
      <4>1. i - 1 = Len(ls) /\ Len(ls) \in 1..Len(ls)
        BY <2>1, <3>1
      <4> QED BY <1>2, <4>1
    <3>2. CASE j # 1
      <4>1. j - 1 \in 1..Len(ms) /\ i - 1 = Len(ls) + (j - 1)
        BY <2>1, <3>2
      <4> QED BY <1>2, <4>1
    <3> QED BY <3>1, <3>2
  <2> QED BY <2>1, <2>2, <2>3 DEF Follows
<1> QED BY <1>4, <1>5

LEMMA AppendIs ==
  ASSUME NEW S, NEW s \in Seq(S), NEW x \in S
  PROVE  /\ Append(s, x) \in Seq(S) /\ Len(Append(s, x)) = Len(s) + 1 /\ Append(s, x) = s \o <<x>>
         /\ Append(s, x)[Len(s) + 1] = x /\ \A i \in 1..Len(s) : Append(s, x)[i] = s[i]
OBVIOUS

LEMMA FollowsOne ==
  ASSUME NEW ls \in Seq(LineSet), NEW l \in LineSet, l.cmd = "select", NEW ex, \A i \in 1..Len(ls) : Follows(ls, i, ex)
  PROVE  /\ Append(ls, l) \in Seq(LineSet) /\ Append(ls, l) # <<>> /\ Append(ls, l)[Len(Append(ls, l))] = l
         /\ \A i \in 1..Len(Append(ls, l)) : Follows(Append(ls, l), i, ex)
         /\ Append(ls, l) = ls \o <<l>>
<1>1. PICK t \in Seq(LineSet) : t = Append(ls, l)
  BY AppendIs
<1>2. Len(t) = Len(ls) + 1 /\ t[Len(t)] = l /\ \A i \in 1..Len(ls) : t[i] = ls[i]
  BY <1>1, AppendIs
<1>3. ASSUME NEW i \in 1..Len(t)
      PROVE  Follows(t, i, ex)
  <2>1. CASE i = Len(t)
    BY <1>2, <2>1 DEF Follows
  <2>2. CASE i # Len(t)
    <3>1. i \in 1..Len(ls) /\ (i > 1 => i - 1 \in 1..Len(ls))
      BY <1>2, <2>2
    <3>2. t[i] = ls[i] /\ (i > 1 => t[i - 1] = ls[i - 1]) /\ Follows(ls, i, ex)
      BY <1>2, <3>1
    <3> QED BY <3>2 DEF Follows
  <2> QED BY <2>1, <2>2
<1>4. t = ls \o <<l>>
  BY <1>1, AppendIs
<1>5. t # <<>>
  BY <1>2
<1> QED BY <1>1, <1>2, <1>3, <1>4, <1>5
-----------------------------------------------------------------------------
(* Steps that leave the files and the script alone.                        *)

\* The script and what it tells of, after a step.
ScriptIs(ls, ex) ==
  /\ ls \in Seq(LineSet)
  /\ \A i \in 1..Len(ls) : Follows(ls, i, ex)
  /\ \A f \in DOMAIN ex : Covers(ls, f, ex[f]) /\ Refills(ls, f, ex[f])

LEMMA ScriptThen ==
  ASSUME kind' = kind, asJson' = asJson, ScriptIs(script', exported')
  PROVE  ScriptInv'
BY DEF ScriptIs, ScriptInv, Follows, PrintedFor, Covers, Refills, UpdateBinary, UpdateRecord, Update_

LEMMA ScriptNow == ScriptInv <=> ScriptIs(script, exported)
BY DEF ScriptIs, ScriptInv

LEMMA SilentWritten ==
  ASSUME job' # "restore", last'.op \notin {"typed", "restore"}
  PROVE  WrittenIsThere' /\ RestoreInv'
BY DEF WrittenIsThere, DecodedReadsBack, RestoreGivesBack, RestoreStaysHome, RestoreInv

LEMMA StartFiles ==
  ASSUME FilesInv, NEW j \in Walks, StartWalk(j)
  PROVE  FilesInv'
<1>1. /\ UNCHANGED <<kind, body>> /\ script' = <<>> /\ exported' = Nothing /\ job' = j /\ last' = NoCommand
  BY DEF StartWalk, cardVars
<1>2. KindInv'
  BY <1>1 DEF FilesInv, KindInv
<1>3. ExportedInv'
  BY <1>1 DEF ExportedInv, Nothing
<1>4. ScriptInv'
  BY <1>1 DEF ScriptInv, Nothing
<1>5. WrittenIsThere' /\ RestoreInv'
  BY <1>1, SilentWritten DEF Walks, NoCommand
<1> QED BY <1>2, <1>3, <1>4, <1>5 DEF FilesInv

\* A step of a walk that prints nothing.
LEMMA QuietFiles ==
  ASSUME FilesInv, UNCHANGED <<kind, body, asJson, script, exported>>, job' \in {job, "idle"},
         job # "restore", last'.op \notin {"typed", "restore"}
  PROVE  FilesInv'
<1>1. KindInv'
  BY DEF FilesInv, KindInv
<1>2. ExportedInv'
  BY DEF FilesInv, ExportedInv, SameLength
<1>3. ScriptInv'
  BY ScriptThen, ScriptNow DEF FilesInv
<1>4. WrittenIsThere' /\ RestoreInv'
  BY SilentWritten
<1> QED BY <1>1, <1>2, <1>3, <1>4 DEF FilesInv

LEMMA WalkFiles ==
  ASSUME FilesInv, JobInv, VisitSelect \/ DumpRead \/ VisitBack \/ NextName \/ DirDone \/ WalkDone
  PROVE  FilesInv'
<1>1. UNCHANGED <<kind, body, asJson, script, exported>>
  BY DEF VisitSelect, DumpRead, VisitBack, NextName, DirDone, WalkDone, cardVars, printed
<1>2. at \in WalkSteps
  BY DEF VisitSelect, DumpRead, VisitBack, NextName, DirDone, WalkDone, WalkSteps
<1>3. job \in Walks /\ last = NoCommand
  BY <1>2 DEF JobInv, WalkSteps, Walks
<1>4. \/ job' = job /\ last' = last
      \/ job' = "idle" /\ last'.op = job
  <2>1. \A status : EndJob(status) => job' = "idle" /\ last'.op = job
    BY DEF EndJob
  <2>2. StopEarly => job' = "idle" /\ last'.op = job
    BY <2>1 DEF StopEarly
  <2>3. \A a : Onward(a) => job' = job /\ last' = last
    BY DEF Onward
  <2>4. CASE VisitSelect
    BY <2>2, <2>3, <2>4 DEF VisitSelect
  <2>5. CASE DumpRead
    BY <2>2, <2>3, <2>5 DEF DumpRead
  <2>6. CASE VisitBack
    BY <2>2, <2>3, <2>6 DEF VisitBack
  <2>7. CASE NextName
    BY <2>7 DEF NextName
  <2>8. CASE DirDone
    BY <2>2, <2>8 DEF DirDone
  <2>9. CASE WalkDone
    BY <2>1, <2>9 DEF WalkDone
  <2> QED BY <2>4, <2>5, <2>6, <2>7, <2>8, <2>9
<1>5. last'.op \notin {"typed", "restore"}
  BY <1>3, <1>4 DEF Walks, NoCommand
<1> QED BY <1>1, <1>3, <1>4, <1>5, QuietFiles DEF Walks

LEMMA ExportFiles ==
  ASSUME FilesInv, JobInv, ExportRead
  PROVE  FilesInv'
<1>1. /\ job = "export" /\ UNCHANGED <<kind, body, asJson, job, last>> /\ last = NoCommand /\ visit \in Names
  BY DEF ExportRead, Onward, JobInv, WalkSteps, cardVars
<1>2. PICK x : x = Select_(visit)
  OBVIOUS
<1>3. x \in LineSet /\ x.cmd = "select" /\ x.from = visit
  BY <1>1, <1>2 DEF Select_, Cmd, LineSet
<1>4. PICK ls \in Seq(LineSet) : ls = Append(script, x)
  BY <1>3, FollowsOne DEF FilesInv, ScriptInv
<1>5. /\ ls # <<>> /\ ls[Len(ls)] = x /\ \A i \in 1..Len(ls) : Follows(ls, i, exported)
      /\ ls = script \o <<x>>
  BY <1>3, <1>4, FollowsOne DEF FilesInv, ScriptInv
<1>6. ASSUME NEW f \in DOMAIN exported
      PROVE  Covers(ls, f, exported[f]) /\ Refills(ls, f, exported[f])
  <2>1. <<x>> \in Seq(LineSet) /\ \A i \in 1..Len(<<x>>) : <<x>>[i].cmd # "delete_all"
    BY <1>3
  <2>2. Refills(<<x>>, f, exported[f])
    BY <2>1 DEF Refills
  <2> QED BY <1>5, <2>1, <2>2, CoversMore, RefillsMore DEF FilesInv, ScriptInv
<1>7. KindInv'
  BY <1>1 DEF FilesInv, KindInv
<1>8. WrittenIsThere' /\ RestoreInv'
  BY <1>1, SilentWritten DEF NoCommand
<1>9. CASE script' = ls /\ exported' = exported
  <2>1. ExportedInv'
    BY <1>1, <1>9 DEF FilesInv, ExportedInv, SameLength
  <2>2. ScriptIs(script', exported')
    BY <1>5, <1>6, <1>9 DEF ScriptIs
  <2> QED BY <1>1, <1>7, <1>8, <2>1, <2>2, ScriptThen DEF FilesInv
<1>10. CASE visit \in EFs /\ script' = ls \o Lines(visit) /\ exported' = With(exported, visit, body[visit])
  <2>1. /\ DOMAIN exported' = DOMAIN exported \cup {visit} /\ exported'[visit] = body[visit]
        /\ \A f \in DOMAIN exported : exported'[f] = exported[f]
    BY <1>1, <1>10 DEF With, FilesInv, ExportedInv
  <2>2. IsContent(kind[visit], body[visit]) /\ SameLength(visit, body[visit])
    BY <1>10 DEF FilesInv, KindInv, SameLength
  <2>3. ExportedInv'
    BY <1>1, <1>10, <2>1, <2>2 DEF FilesInv, ExportedInv, SameLength
  <2>4. PICK ms \in Seq(LineSet) :
          /\ ms = Lines(visit) /\ \A i \in 1..Len(ms) : PrintedFor(ms[i], visit, body[visit])
          /\ Covers(ms, visit, body[visit]) /\ Refills(ms, visit, body[visit])
    BY <1>10, LinesAre DEF FilesInv
  <2>5. \A i \in 1..Len(ms) : ms[i].from = visit
    BY <2>2, <2>4, LineIsUsable
  <2>6. \A i \in 1..Len(ls) : Follows(ls, i, exported')
    <3> TAKE i \in 1..Len(ls)
    <3>1. Follows(ls, i, exported)
      BY <1>5
    <3> QED BY <2>1, <3>1 DEF Follows
  <2>7. \A i \in 1..Len(ls \o ms) : Follows(ls \o ms, i, exported')
    <3>1. PICK ex : ex = exported'
      OBVIOUS
    <3> QED BY <1>3, <1>5, <2>1, <2>4, <2>5, <2>6, <3>1, FollowsMore
  <2>8. ASSUME NEW f \in DOMAIN exported'
        PROVE  Covers(ls \o ms, f, exported'[f]) /\ Refills(ls \o ms, f, exported'[f])
    <3>1. CASE f \in DOMAIN exported
      <4>1. Covers(ls, f, exported[f]) /\ Refills(ls, f, exported[f])
        BY <1>6, <3>1
      <4>2. Refills(ms, f, exported[f])
        <5>1. CASE f = visit
          BY <2>1, <2>4, <3>1, <5>1
        <5>2. CASE f # visit
          BY <2>5, <5>2 DEF Refills
        <5> QED BY <5>1, <5>2
      <4> QED BY <2>1, <3>1, <4>1, <4>2, CoversMore, RefillsMore
    <3>2. CASE f \notin DOMAIN exported
      <4>1. f = visit /\ exported'[f] = body[visit]
        BY <2>1, <3>2
      <4>2. \A i \in 1..Len(ls) : ls[i].from # visit \/ ls[i].cmd = "select"
        <5> TAKE i \in 1..Len(ls)
        <5>1. Follows(ls, i, exported)
          BY <1>5
        <5> QED BY <3>2, <4>1, <5>1 DEF Follows
      <4>3. Refills(ls, visit, body[visit])
        BY <4>2 DEF Refills
      <4> QED BY <2>4, <4>1, <4>3, CoversMore, RefillsMore
    <3> QED BY <3>1, <3>2
  <2>9. ls \o ms \in Seq(LineSet)
    BY ConcatIs
  <2>10. ScriptIs(script', exported')
    BY <1>10, <2>4, <2>7, <2>8, <2>9 DEF ScriptIs
  <2> QED BY <1>1, <1>7, <1>8, <2>3, <2>10, ScriptThen DEF FilesInv
<1> QED BY <1>2, <1>4, <1>9, <1>10 DEF ExportRead
-----------------------------------------------------------------------------
(* The script is run.                                                      *)

LEMMA RestoreThen ==
  ASSUME kind' = kind, asJson' = asJson, UNCHANGED <<script, exported>>, job' = "restore",
         line' \in 1..(Len(script) + 1), misled' => failed',
         ~misled' /\ line' > 1 => sel' = script[line' - 1].from,
         ~failed' => \A i \in 1..(line' - 1) :
           script[i].cmd # "select" =>
             \A f \in DOMAIN exported : f = script[i].from => GoneBack(script, i, line', f, exported[f], body'[f])
  PROVE  RestoreInv'
<1>1. \A codec, s, b : SameTo(codec, s, b)' <=> SameTo(codec, s, b)
  BY DEF SameTo
<1>2. \A f, r, s : UpdateRecord(f, r, s)' = UpdateRecord(f, r, s)
  BY DEF UpdateRecord, Update_
<1>3. ASSUME NEW i, NEW f, GoneBack(script, i, line', f, exported[f], body'[f])
      PROVE  GoneBack(script, i, line, f, exported[f], body[f])'
  <2>1. CASE kind[f].structure = "transparent"
    BY <1>1, <1>3, <2>1 DEF GoneBack
  <2>2. CASE kind[f].structure = "linear_fixed"
    BY <1>1, <1>2, <1>3, <2>2 DEF GoneBack
  <2>3. CASE kind[f].structure \notin {"transparent", "linear_fixed"}
    BY <1>3, <2>3 DEF GoneBack, Refilled, Cmd
  <2> QED BY <2>1, <2>2, <2>3
<1> QED BY <1>3 DEF RestoreInv

LEMMA RunScriptFiles ==
  ASSUME FilesInv, RunScript
  PROVE  FilesInv'
<1>1. /\ job' = "restore" /\ line' = 1 /\ misled' = FALSE /\ failed' = FALSE /\ outset' = body /\ last' = NoCommand
      /\ UNCHANGED <<kind, body, asJson, script, exported>> /\ script # <<>>
  BY DEF RunScript, cardVars, printed
<1>2. KindInv'
  BY <1>1 DEF FilesInv, KindInv
<1>3. ExportedInv'
  BY <1>1 DEF FilesInv, ExportedInv, SameLength
<1>4. ScriptInv'
  BY <1>1, ScriptThen, ScriptNow DEF FilesInv
<1>5. RestoreInv'
  <2>1. 1 \in 1..(Len(script) + 1)
    BY DEF FilesInv, ScriptInv
  <2> QED BY <1>1, <2>1 DEF RestoreInv
<1>6. WrittenIsThere'
  BY <1>1 DEF WrittenIsThere, DecodedReadsBack, RestoreGivesBack, RestoreStaysHome, NoCommand
<1> QED BY <1>2, <1>3, <1>4, <1>5, <1>6 DEF FilesInv

\* A SELECT of the script.
LEMMA RunSelectFiles ==
  ASSUME FilesInv, JobInv, RunLine, script[line].cmd = "select"
  PROVE  FilesInv'
<1>1. /\ job = "restore" /\ last = NoCommand /\ line \in 1..Len(script)
      /\ UNCHANGED <<kind, body, asJson, script, exported, job, last, outset>> /\ line' = line + 1
      /\ failed' = (failed \/ ~Reaches(script[line].from)) /\ misled' = (misled \/ ~Reaches(script[line].from))
      /\ sel' = IF Reaches(script[line].from) THEN script[line].from ELSE sel
  BY DEF RunLine, JobInv, WalkSteps, FilesInv, RestoreInv, ScriptInv, printed
<1>2. KindInv'
  BY <1>1 DEF FilesInv, KindInv
<1>3. ExportedInv'
  BY <1>1 DEF FilesInv, ExportedInv, SameLength
<1>4. ScriptInv'
  BY <1>1, ScriptThen, ScriptNow DEF FilesInv
<1>5. ASSUME ~failed', NEW i \in 1..line, script[i].cmd # "select", NEW f \in DOMAIN exported, f = script[i].from
      PROVE  GoneBack(script, i, line + 1, f, exported[f], body[f])
  <2>0. i # line
    BY <1>5
  <2>1. i \in 1..(line - 1) /\ ~failed
    <3>1. i \in 1..(line - 1)
      BY <1>1, <2>0
    <3> QED BY <1>1, <1>5, <3>1
  <2>2. GoneBack(script, i, line, f, exported[f], body[f])
    BY <1>1, <1>5, <2>1 DEF FilesInv, RestoreInv
  <2>3. ASSUME NEW x, NEW k \in line..Len(script), script[k] = Cmd("set_data", f, x, exported[f][x])
        PROVE  k \in (line + 1)..Len(script)
    <3>1. k # line
      BY <2>3, CmdIs
    <3> QED BY <1>1, <3>1
  <2>4. Refilled(script, line, f, exported[f], body[f]) => Refilled(script, line + 1, f, exported[f], body[f])
    BY <2>3 DEF Refilled
  <2> QED BY <2>2, <2>4 DEF GoneBack
<1>6. RestoreInv'
  <2>1. line' \in 1..(Len(script) + 1) /\ line' - 1 = line
    BY <1>1 DEF FilesInv, ScriptInv
  <2>2. misled' => failed'
    BY <1>1 DEF FilesInv, RestoreInv
  <2>3. ~misled' => sel' = script[line].from
    BY <1>1
  <2> QED BY <1>1, <1>5, <2>1, <2>2, <2>3, RestoreThen
<1>7. WrittenIsThere'
  BY <1>1 DEF WrittenIsThere, DecodedReadsBack, RestoreGivesBack, RestoreStaysHome, NoCommand, FilesInv
<1> QED BY <1>2, <1>3, <1>4, <1>6, <1>7 DEF FilesInv

\* What a line that succeeds gives back, on the file f that held s.
LEMMA LineGoesBack ==
  ASSUME FilesInv, NEW i \in 1..line, line \in 1..Len(script), script[i].cmd # "select", ~misled, ~failed,
         job = "restore", NEW f \in DOMAIN exported, script[i].from = f, script[line].cmd # "select",
         script[line].from = f, Succeeds(script[line], f)
  PROVE  GoneBack(script, i, line + 1, f, exported[f], Content(script[line], f))
<1>1. /\ f \in EFs /\ IsContent(kind[f], exported[f]) /\ SameLength(f, exported[f])
      /\ PrintedFor(script[line], f, exported[f]) /\ PrintedFor(script[i], f, exported[f])
      /\ IsContent(kind[f], body[f]) /\ KindInv
  <2>1. Follows(script, line, exported) /\ Follows(script, i, exported)
    BY DEF FilesInv, ScriptInv
  <2> QED BY <2>1 DEF Follows, FilesInv, ExportedInv, KindInv
<1>2. i # line => GoneBack(script, i, line, f, exported[f], body[f])
  <2>1. i # line => i \in 1..(line - 1)
    OBVIOUS
  <2> QED BY <2>1 DEF FilesInv, RestoreInv
<1>3. PICK l, s : l = script[line] /\ s = exported[f]
  OBVIOUS
<1>4. CASE kind[f].structure = "transparent"
  <2>1. s \in Seq(Byte) /\ Len(s) = Len(body[f]) /\ l = UpdateBinary(f, s)
    BY <1>1, <1>3, <1>4 DEF IsContent, SameLength, PrintedFor
  <2>2. SameTo(kind[f].codec, s, Content(l, f))
    BY <1>1, <1>3, <1>4, <2>1, BinaryGoesBack
  <2> QED BY <1>3, <1>4, <2>2 DEF GoneBack
<1>5. CASE kind[f].structure = "linear_fixed"
  <2>1. s \in Seq(Record) /\ Len(s) = Len(body[f]) /\ body[f] \in Seq(Record)
    BY <1>1, <1>3, <1>5 DEF IsContent, SameLength, Record
  <2>2. SUFFICES ASSUME NEW r \in 1..Len(s), script[i] = UpdateRecord(f, r, s[r])
                 PROVE  SameTo(kind[f].codec, s[r], Content(l, f)[r])
    BY <1>3, <1>5 DEF GoneBack
  <2>3. PICK q \in 1..Len(s) : l = UpdateRecord(f, q, s[q])
    BY <1>1, <1>3, <1>5 DEF PrintedFor
  <2>4. r \in Nat /\ q \in Nat /\ s[r] \in Record /\ s[q] \in Record
    BY <2>1
  <2>5. CASE l = UpdateRecord(f, r, s[r])
    BY <1>1, <1>3, <1>5, <2>4, <2>5, RecordGoesBack
  <2>6. CASE l # UpdateRecord(f, r, s[r])
    <3>1. r # q /\ i # line
      BY <1>3, <2>2, <2>3, <2>6
    <3>2. SameTo(kind[f].codec, s[r], body[f][r])
      BY <1>2, <1>3, <1>5, <2>2, <3>1 DEF GoneBack
    <3>3. Content(l, f)[r] = body[f][r]
      <4>1. \A k \in 1..Len(body[f]) : k # q => Content(l, f)[k] = body[f][k]
        BY <1>1, <1>3, <1>5, <2>3, <2>4, RecordGoesBack
      <4> QED BY <2>1, <3>1, <4>1
    <3> QED BY <3>2, <3>3
  <2> QED BY <2>5, <2>6
<1>6. CASE kind[f].structure \notin {"transparent", "linear_fixed"}
  <2>1. SUFFICES ASSUME script[i].cmd = "delete_all"
                 PROVE  Refilled(script, line + 1, f, s, Content(l, f))
    BY <1>3, <1>6 DEF GoneBack
  <2>2. CASE l = Cmd("delete_all", f, 0, <<>>)
    <3>1. l.cmd = "delete_all"
      BY <2>2, CmdIs
    <3>2. Content(l, f) = Nothing
      BY <3>1 DEF Content
    <3>3. \A t \in DOMAIN s : \E k \in (line + 1)..Len(script) : script[k] = Cmd("set_data", f, t, s[t])
      BY <1>3, <3>1 DEF FilesInv, ScriptInv, Refills
    <3> QED BY <3>2, <3>3 DEF Refilled, Nothing
  <2>3. ASSUME NEW t \in DOMAIN s, l = Cmd("set_data", f, t, s[t])
        PROVE  Refilled(script, line + 1, f, s, Content(l, f))
    <3>1. l.cmd = "set_data" /\ l.n = t /\ l.data = s[t]
      BY <2>3, CmdIs
    <3>2. i # line
      BY <1>3, <2>1, <3>1
    <3>3. Refilled(script, line, f, s, body[f])
      BY <1>2, <1>3, <1>6, <2>1, <3>2 DEF GoneBack
    <3>4. PICK b : b = With(body[f], t, s[t])
      OBVIOUS
    <3>5. Content(l, f) = b
      BY <3>1, <3>4 DEF Content
    <3>6. DOMAIN b = DOMAIN body[f] \cup {t} /\ b[t] = s[t] /\ \A x \in DOMAIN body[f] : x # t => b[x] = body[f][x]
      BY <3>4 DEF With
    <3>7. ASSUME NEW x \in DOMAIN s, x \notin DOMAIN b
          PROVE  \E k \in (line + 1)..Len(script) : script[k] = Cmd("set_data", f, x, s[x])
      <4>1. PICK k \in line..Len(script) : script[k] = Cmd("set_data", f, x, s[x])
        BY <3>3, <3>6, <3>7 DEF Refilled
      <4>2. k # line
        BY <1>3, <3>1, <3>6, <3>7, <4>1, CmdIs
      <4> QED BY <4>1, <4>2
    <3>8. \A x \in DOMAIN b : x \in DOMAIN s /\ b[x] = s[x]
      BY <2>3, <3>3, <3>6 DEF Refilled
    <3> QED BY <3>5, <3>7, <3>8 DEF Refilled
  <2> QED BY <1>1, <1>3, <1>6, <2>2, <2>3 DEF PrintedFor
<1> QED BY <1>4, <1>5, <1>6

\* A line that writes.
LEMMA RunWriteFiles ==
  ASSUME FilesInv, JobInv, RunLine, script[line].cmd # "select"
  PROVE  FilesInv'
<1>1. /\ job = "restore" /\ last = NoCommand /\ line \in 1..Len(script)
      /\ UNCHANGED <<kind, asJson, script, exported, job, last, outset, sel, misled>> /\ line' = line + 1
      /\ failed' = (failed \/ ~Succeeds(script[line], sel)) /\ Perform(script[line], sel)
  BY DEF RunLine, JobInv, WalkSteps, FilesInv, RestoreInv, ScriptInv, printed
<1>2. PICK l, g : l = script[line] /\ g = l.from
  OBVIOUS
<1>3. line > 1 /\ script[line - 1].from = g /\ g \in DOMAIN exported /\ PrintedFor(l, g, exported[g])
  BY <1>1, <1>2 DEF FilesInv, ScriptInv, Follows
<1>4. g \in EFs /\ IsContent(kind[g], exported[g]) /\ Usable(l)
  BY <1>3, LineIsUsable DEF FilesInv, ExportedInv
<1>5. /\ KindInv' /\ \A f \in EFs : SameLength(f, body'[f])
      /\ \A f \in EFs : f # sel => body'[f] = body[f]
      /\ sel \in EFs /\ Succeeds(l, sel) => body'[sel] = Content(l, sel)
  BY <1>1, <1>2, <1>4, PerformIs DEF FilesInv
<1>6. ExportedInv'
  <2>1. \A f \in DOMAIN exported : f \in EFs /\ IsContent(kind[f], exported[f]) /\ SameLength(f, exported[f])
    BY DEF FilesInv, ExportedInv
  <2>2. \A f \in DOMAIN exported : SameLength(f, exported[f])'
    BY <1>1, <1>5, <2>1, SameLengthAgain DEF SameLength
  <2> QED BY <1>1, <2>1, <2>2 DEF ExportedInv
<1>7. ScriptInv'
  BY <1>1, ScriptThen, ScriptNow DEF FilesInv
<1>8. ~misled => sel = g
  BY <1>1, <1>3 DEF FilesInv, RestoreInv
<1>9. ASSUME ~failed', NEW i \in 1..line, script[i].cmd # "select", NEW f \in DOMAIN exported, f = script[i].from
      PROVE  GoneBack(script, i, line + 1, f, exported[f], body'[f])
  <2>1. ~failed /\ ~misled /\ Succeeds(l, g) /\ sel = g
    BY <1>1, <1>2, <1>8, <1>9 DEF FilesInv, RestoreInv
  <2>2. f \in EFs
    BY DEF FilesInv, ExportedInv
  <2>3. CASE f = g
    <3>1. body'[f] = Content(l, f)
      BY <1>5, <2>1, <2>2, <2>3
    <3> QED BY <1>1, <1>2, <1>9, <2>1, <2>3, <3>1, LineGoesBack
  <2>4. CASE f # g
    <3>1. body'[f] = body[f]
      BY <1>5, <2>1, <2>2, <2>4
    <3>2. i # line
      BY <1>2, <1>9, <2>4
    <3>3. i \in 1..(line - 1)
      BY <1>1, <3>2
    <3>4. GoneBack(script, i, line, f, exported[f], body[f])
      BY <1>1, <1>9, <2>1, <3>3 DEF FilesInv, RestoreInv
    <3>5. ASSUME NEW x, NEW k \in line..Len(script), script[k] = Cmd("set_data", f, x, exported[f][x])
          PROVE  k \in (line + 1)..Len(script)
      <4>1. k # line
        BY <1>2, <2>4, <3>5, CmdIs
      <4> QED BY <1>1, <4>1
    <3>6. Refilled(script, line, f, exported[f], body[f]) => Refilled(script, line + 1, f, exported[f], body[f])
      BY <3>5 DEF Refilled
    <3> QED BY <3>1, <3>4, <3>6 DEF GoneBack
  <2> QED BY <2>3, <2>4
<1>10. RestoreInv'
  <2>1. line' \in 1..(Len(script) + 1) /\ line' - 1 = line
    BY <1>1 DEF FilesInv, ScriptInv
  <2>2. misled' => failed'
    BY <1>1 DEF FilesInv, RestoreInv
  <2>3. ~misled' => sel' = script[line].from
    BY <1>1, <1>2, <1>8
  <2> QED BY <1>1, <1>9, <2>1, <2>2, <2>3, RestoreThen
<1>11. WrittenIsThere'
  <2>1. ASSUME ~misled', NEW f \in EFs, f \notin DOMAIN exported
        PROVE  body'[f] = outset[f]
    <3>1. f # sel
      BY <1>1, <1>3, <1>8, <2>1
    <3>2. body[f] = outset[f]
      BY <1>1, <2>1 DEF FilesInv, WrittenIsThere, RestoreStaysHome
    <3> QED BY <1>5, <3>1, <3>2
  <2> QED BY <1>1, <2>1 DEF WrittenIsThere, DecodedReadsBack, RestoreGivesBack, RestoreStaysHome, NoCommand
<1> QED BY <1>5, <1>6, <1>7, <1>10, <1>11 DEF FilesInv

\* The end of the script.
LEMMA ScriptDoneFiles ==
  ASSUME FilesInv, JobInv, ScriptDone
  PROVE  FilesInv'
<1>1. /\ job = "restore" /\ line = Len(script) + 1 /\ Len(script) \in Nat
      /\ UNCHANGED <<kind, body, asJson, script, exported, misled, failed, outset>>
      /\ job' = "idle" /\ last' = [op |-> "restore", status |-> IF failed THEN "error" ELSE "ok"]
  BY DEF ScriptDone, JobInv, WalkSteps, FilesInv, RestoreInv, ScriptInv, printed, cardVars, running
<1>2. KindInv'
  BY <1>1 DEF FilesInv, KindInv
<1>3. ExportedInv'
  BY <1>1 DEF FilesInv, ExportedInv, SameLength
<1>4. ScriptInv'
  BY <1>1, ScriptThen, ScriptNow DEF FilesInv
<1>5. ASSUME ~failed, NEW f \in DOMAIN exported
      PROVE  CASE kind[f].structure = "transparent"  -> SameTo(kind[f].codec, exported[f], body[f])
               [] kind[f].structure = "linear_fixed" -> \A r \in DOMAIN exported[f] : SameTo(kind[f].codec, exported[f][r], body[f][r])
               [] OTHER -> exported[f] # Nothing => body[f] = exported[f]
  <2>1. PICK s, n : s = exported[f] /\ n = Len(script)
    OBVIOUS
  <2>2. IsContent(kind[f], s) /\ Covers(script, f, s) /\ IsContent(kind[f], body[f]) /\ f \in EFs
    BY <2>1 DEF FilesInv, ExportedInv, ScriptInv, KindInv
  <2>3. ASSUME NEW i \in 1..n, script[i].cmd # "select", script[i].from = f
        PROVE  GoneBack(script, i, n + 1, f, s, body[f])
    <3>1. i \in 1..(line - 1)
      BY <1>1, <2>1
    <3> QED BY <1>1, <1>5, <2>1, <2>3, <3>1 DEF FilesInv, RestoreInv
  <2>4. CASE kind[f].structure = "transparent"
    <3>1. PICK i \in 1..n : script[i] = UpdateBinary(f, s)
      BY <2>1, <2>2, <2>4 DEF Covers
    <3>2. PrintedFor(script[i], f, s)
      BY <2>4, <3>1 DEF PrintedFor
    <3>3. script[i].cmd # "select" /\ script[i].from = f
      BY <2>2, <3>2, LineIsUsable
    <3> QED BY <2>1, <2>3, <2>4, <3>3 DEF GoneBack
  <2>5. CASE kind[f].structure = "linear_fixed"
    <3>1. s \in Seq(Record)
      BY <2>2, <2>5 DEF IsContent, Record
    <3>2. ASSUME NEW r \in 1..Len(s)
          PROVE  SameTo(kind[f].codec, s[r], body[f][r])
      <4>1. PICK i \in 1..n : script[i] = UpdateRecord(f, r, s[r])
        BY <2>1, <2>2, <2>5 DEF Covers
      <4>2. PrintedFor(script[i], f, s)
        BY <2>5, <4>1 DEF PrintedFor
      <4>3. script[i].cmd # "select" /\ script[i].from = f
        BY <2>2, <4>2, LineIsUsable
      <4>4. GoneBack(script, i, n + 1, f, s, body[f])
        BY <2>3, <4>3
      <4> QED BY <2>5, <4>1, <4>4 DEF GoneBack
    <3>3. DOMAIN s = 1..Len(s)
      BY <3>1
    <3> QED BY <2>1, <2>5, <3>2, <3>3
  <2>6. CASE kind[f].structure \notin {"transparent", "linear_fixed"}
    <3>1. SUFFICES ASSUME s # Nothing
                   PROVE  body[f] = s
      BY <2>1, <2>6
    <3>2. PICK i \in 1..n : script[i] = Cmd("delete_all", f, 0, <<>>)
      BY <2>1, <2>2, <2>6, <3>1 DEF Covers
    <3>3. script[i].cmd = "delete_all" /\ script[i].from = f
      BY <3>2, CmdIs
    <3>4. Refilled(script, n + 1, f, s, body[f])
      BY <2>3, <2>6, <3>3 DEF GoneBack
    <3>5. (n + 1)..Len(script) = {}
      BY <1>1, <2>1
    <3>6. PICK b : b = body[f]
      OBVIOUS
    <3>7. DOMAIN b = DOMAIN s /\ \A t \in DOMAIN s : b[t] = s[t]
      BY <3>4, <3>5, <3>6 DEF Refilled
    <3>8. s = [t \in DOMAIN s |-> s[t]] /\ b = [t \in DOMAIN b |-> b[t]]
      BY <2>2, <2>6, <3>6 DEF IsContent
    <3> QED BY <3>6, <3>7, <3>8
  <2> QED BY <2>4, <2>5, <2>6
<1>6. RestoreInv' /\ DecodedReadsBack'
  BY <1>1 DEF RestoreInv, DecodedReadsBack
<1>7. RestoreStaysHome'
  BY <1>1 DEF FilesInv, WrittenIsThere, RestoreStaysHome
<1>8. RestoreGivesBack'
  <2>1. \A codec, s, b : SameTo(codec, s, b)' <=> SameTo(codec, s, b)
    BY <1>1 DEF SameTo
  <2> QED BY <1>1, <1>5, <2>1 DEF RestoreGivesBack
<1> QED BY <1>2, <1>3, <1>4, <1>6, <1>7, <1>8 DEF FilesInv, WrittenIsThere
-----------------------------------------------------------------------------
(* The user types.                                                         *)

LEMMA BinaryReadsBack ==
  ASSUME KindInv, NEW f \in EFs, NEW c, Usable(c), Succeeds(c, f), c.cmd = "update_binary_decoded"
  PROVE  IF kind[f].codec = "records" THEN IsPrefix(c.parts, Split(Content(c, f))) ELSE IsPrefix(c.parts[1], Content(c, f))
<1>1. kind[f].structure = "transparent" /\ IsKind(kind[f]) /\ c.cmd \in DecodedCommands
  BY SuccessTells DEF TransparentCommands, DecodedCommands, KindInv
<1>2. PICK d \in Seq(Byte) : /\ d = Coded(c, f) /\ Content(c, f) = BinaryWith(f, d) /\ Len(d) <= Len(body[f])
                             /\ body[f] \in Seq(Byte) /\ SizeFor(f) = Len(body[f]) /\ CanCode(c, f)
  BY <1>1, BinarySuccess DEF Sends
<1>3. PICK u \in Seq(Byte) : Content(c, f) = d \o u
  <2>1. body[f] \in Seq(Byte) /\ Len(d) <= Len(body[f])
    BY <1>2
  <2>2. PICK u \in Seq(Byte) : BinaryWith(f, d) = d \o u
    BY <2>1, BinaryIs
  <2> QED BY <1>2, <2>2
<1>4. SizeFor(f) \in Nat
  BY <1>2
<1>5. CASE kind[f].codec = "records"
  <2>1. d = Joined(c.parts) /\ c.parts \in Seq(Seq(Byte)) /\ \A i \in DOMAIN c.parts : Len(c.parts[i]) = RecLen
    BY <1>1, <1>2, <1>4, <1>5, CodedIs DEF Usable
  <2> QED BY <1>3, <1>5, <2>1, SplitJoined
<1>6. CASE kind[f].codec = "plain"
  <2>1. PICK p \in Seq(Byte) : p = c.parts[1] /\ d = Padded(p, SizeFor(f))
    BY <1>1, <1>2, <1>4, <1>6, CodedIs
  <2>2. Len(p) <= Len(d) /\ \A i \in 1..Len(p) : d[i] = p[i]
    <3>1. IsPrefix(p, d) /\ \A i \in 1..Len(p) : d[i] = p[i]
      BY <1>4, <2>1, PaddedIs
    <3> QED BY <3>1 DEF IsPrefix
  <2>3. d \o u \in Seq(Byte) /\ Len(d \o u) = Len(d) + Len(u) /\ \A i \in 1..Len(d) : (d \o u)[i] = d[i]
    BY ConcatIs
  <2>4. Len(p) <= Len(d \o u) /\ \A i \in 1..Len(p) : p[i] = (d \o u)[i]
    BY <2>2, <2>3
  <2>5. IsPrefix(p, d \o u)
    BY <2>3, <2>4, PrefixIs
  <2> QED BY <1>3, <1>6, <2>1, <2>5
<1>7. CASE kind[f].codec = "tlv"
  <2>1. d = c.parts[1]
    BY <1>1, <1>2, <1>4, <1>7, CodedIs
  <2> QED BY <1>3, <1>7, <2>1, ConcatPrefix
<1> QED BY <1>1, <1>2, <1>4, <1>5, <1>6, <1>7, CodedIs

LEMMA RecordReadsBack ==
  ASSUME KindInv, NEW f \in EFs, NEW c, Usable(c), Succeeds(c, f), c.cmd = "update_record_decoded", ~kind[f].leftpad
  PROVE  Trimmed(Content(c, f)[c.n]) = Trimmed(c.parts[1])
<1>1. kind[f].structure = "linear_fixed" /\ IsKind(kind[f]) /\ c.cmd \in DecodedCommands /\ kind[f].class = kind[f].structure
  BY SuccessTells DEF LinFixedCommands, DecodedCommands, KindInv
<1>2. PICK d \in Seq(Byte) :
        /\ d = Coded(c, f) /\ body[f] \in Seq(Record) /\ c.n \in 1..Len(body[f])
        /\ Content(c, f) = [body[f] EXCEPT ![c.n] = RecordOf(f, c.n, d)] /\ Len(d) <= RecLen
        /\ SizeFor(f) = RecLen /\ CanCode(c, f)
  BY <1>1, RecordSuccess DEF Sends
<1>3. Content(c, f)[c.n] = Padded(d, RecLen)
  BY <1>2, RecordIs
<1>4. RecLen \in Nat
  BY CardAssumption
<1>5. Trimmed(Padded(d, RecLen)) = Trimmed(d)
  BY <1>4, TrimPadded
<1>6. CASE kind[f].codec = "plain"
  <2>1. PICK p \in Seq(Byte) : p = c.parts[1] /\ d = Padded(p, RecLen)
    BY <1>1, <1>2, <1>4, <1>6, CodedIs
  <2> QED BY <1>3, <1>4, <1>5, <2>1, TrimPadded
<1>7. CASE kind[f].codec = "tlv"
  BY <1>1, <1>2, <1>3, <1>4, <1>5, <1>7, CodedIs
<1>8. kind[f].codec # "records"
  BY <1>1 DEF IsKind
<1> QED BY <1>1, <1>2, <1>4, <1>6, <1>7, <1>8, CodedIs

LEMMA TypeFiles ==
  ASSUME FilesInv, NEW c \in Commands, Type(c)
  PROVE  FilesInv'
<1>1. job = "idle" /\ job' = "idle" /\ UNCHANGED <<kind, asJson, script, exported>>
  BY DEF Type, printed
<1>2. ScriptInv'
  BY <1>1, ScriptThen, ScriptNow DEF FilesInv
<1>3. CASE c.cmd = "select"
  <2>1. body' = body /\ last' = NoCommand
    BY <1>3 DEF Type
  <2> QED BY <1>1, <2>1, QuietFiles DEF NoCommand
<1>4. CASE c.cmd # "select"
  <2>1. /\ sel \in EFs /\ Perform(c, sel)
        /\ last' = [op |-> "typed", status |-> IF Succeeds(c, sel) THEN "ok" ELSE "error", cmd |-> c, file |-> sel]
    BY <1>4 DEF Type
  <2>2. Usable(c)
    BY <1>4, CommandAssumption DEF Usable
  <2>3. /\ KindInv' /\ \A f \in EFs : SameLength(f, body'[f])
        /\ Succeeds(c, sel) => body'[sel] = Content(c, sel)
    BY <1>1, <2>1, <2>2, PerformIs DEF FilesInv
  <2>4. ExportedInv'
    <3>1. \A f \in DOMAIN exported : f \in EFs /\ IsContent(kind[f], exported[f]) /\ SameLength(f, exported[f])
      BY DEF FilesInv, ExportedInv
    <3>2. \A f \in DOMAIN exported : SameLength(f, exported[f])'
      BY <1>1, <2>3, <3>1, SameLengthAgain DEF SameLength
    <3> QED BY <1>1, <3>1, <3>2 DEF ExportedInv
  <2>5. RestoreInv' /\ RestoreGivesBack' /\ RestoreStaysHome'
    BY <1>1, <2>1 DEF RestoreInv, RestoreGivesBack, RestoreStaysHome
  <2>6. DecodedReadsBack'
    <3>1. SUFFICES ASSUME Succeeds(c, sel)
                   PROVE  DecodedReadsBack'
      BY <2>1 DEF DecodedReadsBack
    <3>2. PICK b : b = body'[sel] /\ b = Content(c, sel)
      BY <2>3, <3>1
    <3>3. CASE c.cmd = "update_binary_decoded"
      BY <1>1, <2>1, <2>2, <3>1, <3>2, <3>3, BinaryReadsBack DEF DecodedReadsBack, FilesInv
    <3>4. CASE c.cmd = "update_record_decoded" /\ ~kind[sel].leftpad
      BY <1>1, <2>1, <2>2, <3>1, <3>2, <3>4, RecordReadsBack DEF DecodedReadsBack, FilesInv
    <3>5. CASE c.cmd # "update_binary_decoded" /\ ~(c.cmd = "update_record_decoded" /\ ~kind[sel].leftpad)
      BY <1>1, <2>1, <3>5 DEF DecodedReadsBack
    <3> QED BY <3>3, <3>4, <3>5
  <2> QED BY <1>2, <2>3, <2>4, <2>5, <2>6 DEF FilesInv, WrittenIsThere
<1> QED BY <1>3, <1>4
-----------------------------------------------------------------------------
(* The rest, and the theorem.                                              *)

LEMMA AccessFiles ==
  ASSUME FilesInv, AccessChanges
  PROVE  FilesInv'
<1>1. UNCHANGED <<kind, body, asJson, script, exported, misled, outset, job, last>> /\ job = "idle"
  BY DEF AccessChanges, printed, running
<1>2. KindInv'
  BY <1>1 DEF FilesInv, KindInv
<1>3. ExportedInv'
  BY <1>1 DEF FilesInv, ExportedInv, SameLength
<1>4. ScriptInv'
  BY <1>1, ScriptThen, ScriptNow DEF FilesInv
<1>5. WrittenIsThere' /\ RestoreInv'
  BY <1>1 DEF FilesInv, RestoreInv, WrittenIsThere, DecodedReadsBack, RestoreGivesBack, RestoreStaysHome, SameTo
<1> QED BY <1>2, <1>3, <1>4, <1>5 DEF FilesInv

\* Pull, and a step of something else.
LEMMA SameFiles ==
  ASSUME FilesInv, UNCHANGED <<kind, body, asJson, script, exported, misled, failed, line, outset, job, last, sel>>
  PROVE  FilesInv'
<1>1. KindInv'
  BY DEF FilesInv, KindInv
<1>2. ExportedInv'
  BY DEF FilesInv, ExportedInv, SameLength
<1>3. ScriptInv'
  BY ScriptThen, ScriptNow DEF FilesInv
<1>4. WrittenIsThere'
  BY DEF FilesInv, WrittenIsThere, DecodedReadsBack, RestoreGivesBack, RestoreStaysHome, SameTo
<1>5. RestoreInv'
  <2>1. CASE job = "restore"
    BY <2>1, RestoreThen DEF FilesInv, RestoreInv
  <2>2. CASE job # "restore"
    BY <2>2 DEF RestoreInv
  <2> QED BY <2>1, <2>2
<1> QED BY <1>1, <1>2, <1>3, <1>4, <1>5 DEF FilesInv

LEMMA EquipFiles ==
  ASSUME FilesInv, Equip
  PROVE  FilesInv'
BY QuietFiles DEF Equip, NoCommand, printed

LEMMA FilesInit == ShellInit => FilesInv
<1> SUFFICES ASSUME ShellInit
             PROVE  FilesInv
  OBVIOUS
<1>1. PICK c \in Cards : kind = c.kind /\ body = c.body
  BY DEF ShellInit
<1>2. KindInv
  BY <1>1, CardAssumption DEF KindInv
<1>3. script = <<>> /\ exported = Nothing /\ job = "idle" /\ last = NoCommand
  BY DEF ShellInit
<1>4. ExportedInv /\ ScriptInv
  BY <1>3 DEF ExportedInv, ScriptInv, Nothing
<1>5. RestoreInv /\ WrittenIsThere
  BY <1>3 DEF RestoreInv, WrittenIsThere, DecodedReadsBack, RestoreGivesBack, RestoreStaysHome, NoCommand
<1> QED BY <1>2, <1>4, <1>5 DEF FilesInv

LEMMA FilesStep ==
  ASSUME FilesInv, JobInv, [ShellNext]_shellVars
  PROVE  FilesInv'
<1>1. CASE DoExport \/ DoFsdump \/ DoFsdumpCustom
  BY <1>1, StartFiles DEF DoExport, DoFsdump, DoFsdumpCustom, Walks
<1>2. CASE VisitSelect \/ DumpRead \/ VisitBack \/ NextName \/ DirDone \/ WalkDone
  BY <1>2, WalkFiles
<1>3. CASE ExportRead
  BY <1>3, ExportFiles
<1>4. CASE RunScript
  BY <1>4, RunScriptFiles
<1>5. CASE RunLine
  BY <1>5, RunSelectFiles, RunWriteFiles
<1>6. CASE ScriptDone
  BY <1>6, ScriptDoneFiles
<1>7. CASE AccessChanges
  BY <1>7, AccessFiles
<1>8. CASE Pull
  BY <1>8, SameFiles DEF Pull, printed, running
<1>9. CASE Equip
  BY <1>9, EquipFiles
<1>10. CASE \E c \in Commands : Type(c)
  BY <1>10, TypeFiles
<1>11. CASE UNCHANGED shellVars
  BY <1>11, SameFiles DEF shellVars, cardVars, printed, running
<1> QED BY <1>1, <1>2, <1>3, <1>4, <1>5, <1>6, <1>7, <1>8, <1>9, <1>10, <1>11 DEF ShellNext, Working

\* What the shell wrote can be read back: a script it exported gives every file
\* back that it told of and touches no other, and what a decoded update reported
\* as written is what decoding finds, on any card and for any commands.
THEOREM WhatIsWrittenIsThere == ShellSpec => []WrittenIsThere
<1>1. ShellInit => WalkInv /\ FilesInv
  BY WalkInit, FilesInit
<1>2. WalkInv /\ FilesInv /\ [ShellNext]_shellVars => (WalkInv /\ FilesInv)'
  <2>1. WalkInv /\ [ShellNext]_shellVars => WalkInv'
    BY WalkStep
  <2>2. WalkInv /\ FilesInv /\ [ShellNext]_shellVars => FilesInv'
    BY FilesStep DEF WalkInv
  <2> QED BY <2>1, <2>2
<1>3. FilesInv => WrittenIsThere
  BY DEF FilesInv
<1> QED BY <1>1, <1>2, <1>3, PTL DEF ShellSpec
=============================================================================
