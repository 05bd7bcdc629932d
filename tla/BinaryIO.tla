------------------------------ MODULE BinaryIO ------------------------------
(***************************************************************************)
(* pySim/commands.py, read_binary and update_binary (with the size check   *)
(* of pySim/runtime.py before them): a transparent EF is read and written  *)
(* in chunks of at most MaxCmdLen bytes, each its own APDU.  Every APDU is *)
(* a step: the card may refuse it and the link may be lost before it.      *)
(*                                                                         *)
(* The bytes of a file, of the data to write and of what has been read are *)
(* functions on 0..n-1.                                                    *)
(***************************************************************************)
EXTENDS Integers

CONSTANTS
  Bytes,     \* the values a byte may have
  FileLen,   \* the length of the EF
  MaxCmdLen, \* max_cmd_len: 255, less the overhead of a secure channel
  SfiFlag,   \* 0x8000: from here on P1 has the bit that makes it an SFI
  MaxLen,    \* bound: the longest data a caller hands in
  Buffers,   \* the data callers hand in
  Contents   \* what the EF holds to begin with

ASSUME Sizes ==
  /\ FileLen \in Nat /\ MaxCmdLen \in Nat \ {0} /\ SfiFlag \in Nat
  /\ MaxLen \in Nat /\ FileLen <= MaxLen
  /\ Buffers \subseteq [0..(MaxLen - 1) -> Bytes]
  /\ Contents \subseteq [0..(FileLen - 1) -> Bytes]

ToEnd == -1    \* length = None

VARIABLES
  file,      \* what the EF holds (external)
  alive,     \* the link to the card works (external)
  readable, writable, \* the access the card grants (external)
  sizeKnown, \* the cached FCP of the file has its size
  op, off, len, buf,  \* the request: "read" or "update", and its arguments
  conserve, verify, expand, \* expand: the data has a ".." for expand_hex
  pc,        \* where the call is
  why,       \* read_binary was called to "read", to "conserve" or to "verify"
  pos,       \* chunk_offset
  got,       \* total_data
  result,    \* what the call returned
  strayed,   \* history: an APDU of this call addressed another file
  before     \* history: what the EF held when the call began

card    == <<file, alive, readable, writable>>
request == <<sizeKnown, op, off, buf, conserve, verify, expand, before>>
vars    == <<card, request, len, pc, why, pos, got, result, strayed>>

Empty == [i \in {} |-> 0]

Init ==
  /\ file \in Contents /\ alive = TRUE
  /\ readable \in BOOLEAN /\ writable \in BOOLEAN /\ sizeKnown \in BOOLEAN
  /\ op = "none" /\ off = 0 /\ len = 0 /\ buf \in Buffers
  /\ conserve = FALSE /\ verify = FALSE /\ expand = FALSE
  /\ pc = "idle" /\ why = "read" /\ pos = 0 /\ got = Empty
  /\ result = "none" /\ strayed = FALSE /\ before = file
-----------------------------------------------------------------------------
(* Requests.                                                               *)

Finish(r) == pc' = "idle" /\ result' = r

Read ==
  /\ op = "none" /\ pc = "idle" /\ pc' = "read" /\ why' = "read" /\ op' = "read"
  /\ off' \in 0..MaxLen /\ len' \in {ToEnd} \cup 0..MaxLen
  /\ result' = "none" /\ strayed' = FALSE /\ before' = file
  /\ UNCHANGED <<card, sizeKnown, buf, conserve, verify, expand, pos, got>>

\* __check_writeable_size; it sees the data before expand_hex does
TooLong == sizeKnown /\ len' + off' > FileLen

Update ==
  /\ op = "none" /\ pc = "idle" /\ op' = "update"
  /\ off' \in 0..MaxLen /\ len' \in 0..MaxLen /\ buf' \in Buffers
  /\ conserve' \in BOOLEAN /\ verify' \in BOOLEAN /\ expand' \in BOOLEAN
  /\ IF TooLong THEN Finish("error") ELSE pc' = "size" /\ result' = "none"
  /\ strayed' = FALSE /\ before' = file
  /\ UNCHANGED <<card, sizeKnown, why, pos, got>>

\* the caller has its answer; nothing of the call remains but the file
Answered ==
  /\ pc = "idle" /\ op # "none" /\ op' = "none"
  /\ off' = 0 /\ len' = 0 /\ pos' = 0 /\ got' = Empty /\ why' = "read"
  /\ conserve' = FALSE /\ verify' = FALSE /\ expand' = FALSE
  /\ result' = "none" /\ strayed' = FALSE /\ before' = file
  /\ UNCHANGED <<card, sizeKnown, buf, pc>>

Lost  == alive /\ alive' = FALSE
         /\ UNCHANGED <<file, readable, writable, request, len, pc, why, pos, got, result, strayed>>
Reset == op = "none" /\ ~alive /\ alive' = TRUE
         /\ UNCHANGED <<file, readable, writable, request, len, pc, why, pos, got, result, strayed>>

\* binary_size selects the file for the length expand_hex fills the data to
Size ==
  /\ pc = "size"
  /\ IF alive
     THEN /\ len' = IF expand THEN FileLen ELSE len
          /\ IF conserve THEN pc' = "read" /\ why' = "conserve" ELSE pc' = "select" /\ UNCHANGED why
          /\ UNCHANGED result
     ELSE Finish("error") /\ UNCHANGED <<len, why>>
  /\ UNCHANGED <<card, request, pos, got, strayed>>
-----------------------------------------------------------------------------
(* read_binary.                                                            *)

\* an exception in it, or (None, None): what its caller makes of them
ReadReturns(r) ==
  IF why = "conserve" THEN pc' = "select" /\ UNCHANGED result
  ELSE Finish(IF why = "verify" THEN "error" ELSE r)

SelectToRead ==
  LET n == IF len = ToEnd THEN FileLen - off ELSE len IN
  /\ pc = "read"
  /\ IF ~alive THEN ReadReturns("error") /\ UNCHANGED <<len, pos, got>>
     ELSE IF n < 0 THEN ReadReturns("nothing") /\ UNCHANGED <<len, pos, got>>
     ELSE pc' = "reading" /\ len' = n /\ pos' = 0 /\ got' = Empty /\ UNCHANGED result
  /\ UNCHANGED <<card, request, why, strayed>>

Chunk   == IF len - pos < MaxCmdLen THEN len - pos ELSE MaxCmdLen
InFile  == off + pos < SfiFlag /\ off + pos + Chunk <= FileLen

\* Mutant: the offset of the request is left out.
ReadChunk_FromStart ==
  /\ pc = "reading" /\ pos < len /\ alive /\ readable /\ InFile
  /\ got' = [i \in 0..(pos + Chunk - 1) |-> IF i < pos THEN got[i] ELSE file[i]]
  /\ pos' = pos + Chunk
  /\ UNCHANGED <<card, request, len, pc, why, result, strayed>>

ReadChunk ==
  /\ pc = "reading" /\ pos < len /\ alive /\ readable /\ InFile
  /\ got' = [i \in 0..(pos + Chunk - 1) |-> IF i < pos THEN got[i] ELSE file[off + i]]
  /\ pos' = pos + Chunk
  /\ UNCHANGED <<card, request, len, pc, why, result, strayed>>

\* the card takes P1 for a short file identifier and reads that file
ReadElsewhere ==
  /\ pc = "reading" /\ pos < len /\ alive /\ off + pos >= SfiFlag
  /\ \E b \in Bytes : got' = [i \in 0..(pos + Chunk - 1) |-> IF i < pos THEN got[i] ELSE b]
  /\ pos' = pos + Chunk /\ strayed' = TRUE
  /\ UNCHANGED <<card, request, len, pc, why, result>>

\* a refused or lost APDU; or no APDU at all, which leaves `sw` unassigned
ReadRaises ==
  /\ pc = "reading"
  /\ len = 0 \/ (pos < len /\ (~alive \/ ~readable \/ ~InFile))
  /\ ReadReturns("error")
  /\ UNCHANGED <<card, request, len, why, pos, got, strayed>>

Same == \A i \in 0..(len - 1) : got[i] = buf[i]

\* Mutant: only the first chunk is compared.
ReadDone_FirstChunk ==
  /\ pc = "reading" /\ pos = len /\ len > 0
  /\ CASE why = "read"     -> Finish("ok")
       [] why = "conserve" -> IF \A i \in 0..(len - 1) : i < MaxCmdLen => got[i] = buf[i]
                              THEN Finish("kept") ELSE pc' = "select" /\ UNCHANGED result
       [] why = "verify"   -> Finish(IF Same THEN "ok" ELSE "error")
  /\ UNCHANGED <<card, request, len, why, pos, got, strayed>>

ReadDone ==
  /\ pc = "reading" /\ pos = len /\ len > 0
  /\ CASE why = "read"     -> Finish("ok")
       [] why = "conserve" -> IF Same THEN Finish("kept") ELSE pc' = "select" /\ UNCHANGED result
       [] why = "verify"   -> Finish(IF Same THEN "ok" ELSE "error")
  /\ UNCHANGED <<card, request, len, why, pos, got, strayed>>
-----------------------------------------------------------------------------
(* update_binary, after the comparison.                                    *)

SelectToWrite ==
  /\ pc = "select"
  /\ IF alive THEN pc' = "writing" /\ pos' = 0 /\ UNCHANGED result
              ELSE Finish("error") /\ UNCHANGED pos
  /\ UNCHANGED <<card, request, len, why, got, strayed>>

\* the bytes of f with the first n of b written at o
Written(f, o, b, n) ==
  [j \in 0..(FileLen - 1) |-> IF o <= j /\ j < o + n THEN b[j - o] ELSE f[j]]

WriteChunk ==
  /\ pc = "writing" /\ pos < len /\ alive /\ writable /\ InFile
  /\ file' = [j \in 0..(FileLen - 1) |->
                IF off + pos <= j /\ j < off + pos + Chunk THEN buf[j - off] ELSE file[j]]
  /\ pos' = pos + Chunk
  /\ UNCHANGED <<alive, readable, writable, request, len, pc, why, got, result, strayed>>

WriteElsewhere ==
  /\ pc = "writing" /\ pos < len /\ alive /\ off + pos >= SfiFlag
  /\ pos' = pos + Chunk /\ strayed' = TRUE
  /\ UNCHANGED <<card, request, len, pc, why, got, result>>

WriteRaises ==
  /\ pc = "writing" /\ pos < len /\ (~alive \/ ~writable \/ ~InFile)
  /\ Finish("error")
  /\ UNCHANGED <<card, request, len, why, pos, got, strayed>>

\* without data no chunk was sent: chunk_sw is unassigned
WriteDone ==
  /\ pc = "writing" /\ pos = len
  /\ IF verify THEN pc' = "read" /\ why' = "verify" /\ UNCHANGED result
     ELSE Finish(IF len = 0 THEN "error" ELSE "ok") /\ UNCHANGED why
  /\ UNCHANGED <<card, request, len, pos, got, strayed>>
-----------------------------------------------------------------------------
Next == \/ Read \/ Update \/ Answered \/ Lost \/ Reset \/ Size
        \/ SelectToRead \/ ReadChunk \/ ReadElsewhere \/ ReadRaises \/ ReadDone
        \/ SelectToWrite \/ WriteChunk \/ WriteElsewhere \/ WriteRaises \/ WriteDone

Spec == Init /\ [][Next]_vars
-----------------------------------------------------------------------------
(* Properties.                                                             *)

TypeOK ==
  /\ file \in [0..(FileLen - 1) -> Bytes] /\ before \in [0..(FileLen - 1) -> Bytes]
  /\ alive \in BOOLEAN /\ readable \in BOOLEAN /\ writable \in BOOLEAN /\ sizeKnown \in BOOLEAN
  /\ op \in {"none", "read", "update"} /\ off \in Nat
  /\ len \in Nat \/ (len = ToEnd /\ op = "read" /\ pc \in {"idle", "read"})
  /\ buf \in [0..(MaxLen - 1) -> Bytes]
  /\ conserve \in BOOLEAN /\ verify \in BOOLEAN /\ expand \in BOOLEAN
  /\ pc \in {"idle", "size", "read", "reading", "select", "writing"}
  /\ why \in {"read", "conserve", "verify"} /\ pos \in Nat
  /\ result \in {"none", "ok", "kept", "nothing", "error"} /\ strayed \in BOOLEAN

\* A read that succeeded returned the bytes of the range it was asked for, in
\* their order, however many chunks it took (commands.py:319-341).
ReadReturnsTheRange ==
  op = "read" /\ result = "ok" /\ ~strayed =>
    /\ off + len <= FileLen
    /\ got = [i \in 0..(len - 1) |-> before[off + i]]

\* An update that reported success left the data in its range of the file and
\* every other byte as it was; this includes the one that conserve_write
\* skipped because the card already had the data (commands.py:372-385).
SuccessMeansWritten ==
  op = "update" /\ result \in {"ok", "kept"} /\ ~strayed =>
    file = Written(before, off, buf, len)

\* At any moment, so also when a chunk was refused or the link was lost, the
\* file holds a prefix of the data in its range and its old bytes elsewhere.
UpdateIsAPrefix ==
  ~strayed => \E n \in 0..MaxLen : file = Written(before, off, buf, n)

\* Within a file shorter than SfiFlag an update whose size could be checked
\* addresses no other file.
UpdateStaysInFile == op = "update" /\ sizeKnown /\ FileLen < SfiFlag => ~strayed
=============================================================================
