---------------------------- MODULE WebUi_proofs ----------------------------
(***************************************************************************)
(* Three facts about the page, for any cards, files, access rules and      *)
(* number of requests: offline it writes nothing; the keys of a user who   *)
(* waits for answers go to the card that accepted them; and what such a    *)
(* user sees of a file is what the card holds.                             *)
(***************************************************************************)
EXTENDS WebUi, TLAPS

\* A request is a record with the fields of Blank.
IsRequest(q) ==
  q = [id |-> q.id, kind |-> q.kind, paths |-> q.paths, structs |-> q.structs, value |-> q.value,
       key |-> q.key, served |-> q.served, ok |-> q.ok, files |-> q.files]

Shape == /\ \A q \in flight : IsRequest(q)
         /\ admKeys = [k \in Keys |-> admKeys[k]]

\* Nothing can be written offline: no popup is open and none can be opened.
OfflineInv == isOfflineMode => ~popup /\ ~btnWrite

\* A request that brings a key the page holds, or will hold once answered.
Carries(q) == IF q.kind = "verify" THEN q.served /\ q.ok ELSE q.key # NoKey

\* While the server has a connect before it, it has nothing else, the page
\* holds no key, and nothing can be sent that would bring one.
Alone(q) == /\ flight = {q} /\ q.key = NoKey /\ ~btnAdm /\ ~btnReadAll
            /\ \A k \in Keys : admKeys[k] = NoCard

\* The keys held, sent or on their way back are those of the session's card.
HeldKeys    == \A k \in Keys : admKeys[k] # NoCard => admKeys[k] = session
CarriedKeys == \A q \in flight : Carries(q) => q.key[2] = session
Connecting  == \A q \in flight : q.kind = "connect" /\ ~q.served => Alone(q)

KeyInv == calm => ~misKeyed /\ HeldKeys /\ CarriedKeys /\ Connecting
-----------------------------------------------------------------------------
(* What the steps do to the requests under way.                           *)

\* `others` stay, and one is sent.
Sends(others, kind, paths, key) ==
  \E m : /\ flight' = others \cup {m} /\ IsRequest(m)
         /\ m.kind = kind /\ m.paths = paths /\ m.key = key /\ m.served = FALSE

\* q is answered by the server.
Serves(q) ==
  \E m : /\ flight' = (flight \ {q}) \cup {m} /\ IsRequest(m)
         /\ m.kind = q.kind /\ m.key = q.key /\ m.served = TRUE
         /\ q.kind = "verify" /\ m.ok => q.key[2] = session

LEMMA Sending ==
  ASSUME NEW others, NEW r, IsRequest(r), r.served = FALSE, SendBeside(others, r)
  PROVE  Sends(others, r.kind, r.paths, r.key)
<1> DEFINE n == CHOOSE i \in 1..MaxFlight : \A x \in others : x.id # i
           m == [r EXCEPT !.id = n]
<1>1. flight' = others \cup {m}
  BY DEF SendBeside
<1> HIDE DEF n
<1>2. IsRequest(m) /\ m.kind = r.kind /\ m.paths = r.paths /\ m.key = r.key /\ m.served = FALSE
  BY DEF IsRequest
<1> QED  BY <1>1, <1>2 DEF Sends

LEMMA ConnectSends == ConnectReader => Sends(flight, "connect", {}, NoKey)
<1> DEFINE r == [Blank EXCEPT !.kind = "connect"]
<1>1. r = [Blank EXCEPT !.kind = "connect"]
  OBVIOUS
<1>2. ConnectReader => SendBeside(flight, r)
  BY DEF ConnectReader, Send
<1> HIDE DEF r
<1>3. IsRequest(r) /\ r.kind = "connect" /\ r.paths = {} /\ r.key = NoKey /\ r.served = FALSE
  BY <1>1 DEF IsRequest, Blank
<1> QED  BY <1>2, <1>3, Sending

LEMMA DumpSends == ReadAllFiles => Sends(flight, "dump", {}, NoKey)
<1> DEFINE r == [Blank EXCEPT !.kind = "dump"]
<1>1. r = [Blank EXCEPT !.kind = "dump"]
  OBVIOUS
<1>2. ReadAllFiles => SendBeside(flight, r)
  BY DEF ReadAllFiles, Send
<1> HIDE DEF r
<1>3. IsRequest(r) /\ r.kind = "dump" /\ r.paths = {} /\ r.key = NoKey /\ r.served = FALSE
  BY <1>1 DEF IsRequest, Blank
<1> QED  BY <1>2, <1>3, Sending

LEMMA VerifySends ==
  ASSUME NEW k, NEW c, DoAdmVerify(k, c)
  PROVE  Sends(flight, "verify", {}, <<k, c>>)
<1> DEFINE r == [Blank EXCEPT !.kind = "verify", !.key = <<k, c>>]
<1>1. r = [Blank EXCEPT !.kind = "verify", !.key = <<k, c>>]
  OBVIOUS
<1>2. SendBeside(flight, r)
  BY DEF DoAdmVerify, Send
<1> HIDE DEF r
<1>3. IsRequest(r) /\ r.kind = "verify" /\ r.paths = {} /\ r.key = <<k, c>> /\ r.served = FALSE
  BY <1>1 DEF IsRequest, Blank
<1> QED  BY <1>2, <1>3, Sending

LEMMA SubmitSends ==
  ASSUME NEW v, SubmitWrite(v)
  PROVE  \E key \in VerifiedAdm : Sends(flight, "write", {selectedPath}, key)
<1> DEFINE ss == Struct(selectedPath, selectedFd)
           r(key) == [Blank EXCEPT !.kind = "write", !.paths = {selectedPath}, !.key = key, !.value = v,
                                   !.structs = ss]
<1>1. PICK key \in VerifiedAdm : SendBeside(flight, r(key))
  BY DEF SubmitWrite, Send
<1> HIDE DEF ss
<1>2. PICK m : m = r(key)
  OBVIOUS
<1>3. IsRequest(m) /\ m.kind = "write" /\ m.paths = {selectedPath} /\ m.key = key /\ m.served = FALSE
  BY <1>2 DEF IsRequest, Blank
<1>4. SendBeside(flight, m)
  BY <1>1, <1>2
<1> QED  BY <1>3, <1>4, Sending

\* autoRead6982Files sends nothing, or one read with the key.
LEMMA AutoReading ==
  ASSUME NEW q, NEW k, NEW key, NEW d, AutoRead(q, k, key, d)
  PROVE  flight' = flight \ {q} \/ \E paths : Sends(flight \ {q}, "read", paths, key)
<1> DEFINE fs == AutoReadPaths(k, d)
           ss == UNION {Struct(f, d[f]) : f \in fs}
           r  == [Blank EXCEPT !.kind = "read", !.paths = fs, !.key = key, !.structs = ss]
<1>1. CASE fs = {}
  BY <1>1 DEF AutoRead, Answered
<1>2. CASE fs # {}
  <2>1. SendBeside(flight \ {q}, r)
    BY <1>2 DEF AutoRead, AndSend
  <2> HIDE DEF fs, ss
  <2>2. r = [Blank EXCEPT !.kind = "read", !.paths = fs, !.key = key, !.structs = ss]
    OBVIOUS
  <2> HIDE DEF r
  <2>3. IsRequest(r) /\ r.kind = "read" /\ r.paths = fs /\ r.key = key /\ r.served = FALSE
    BY <2>2 DEF IsRequest, Blank
  <2> QED  BY <2>1, <2>3, Sending
<1> QED  BY <1>1, <1>2

LEMMA ReadingAgain ==
  ASSUME NEW q, WriteAnswer(q)
  PROVE  flight' = flight \ {q} \/ Sends(flight \ {q}, "read", {selectedPath}, q.key)
<1> DEFINE ss == IF q.key = NoKey \/ q.structs = {} THEN {} ELSE {selectedPath}
           r  == [Blank EXCEPT !.kind = "read", !.paths = {selectedPath}, !.key = q.key, !.structs = ss]
<1>1. flight' = flight \ {q} \/ SendBeside(flight \ {q}, r)
  BY DEF WriteAnswer, Answered, AndSend
<1> HIDE DEF ss
<1>2. r = [Blank EXCEPT !.kind = "read", !.paths = {selectedPath}, !.key = q.key, !.structs = ss]
  OBVIOUS
<1> HIDE DEF r
<1>3. IsRequest(r) /\ r.kind = "read" /\ r.paths = {selectedPath} /\ r.key = q.key /\ r.served = FALSE
  BY <1>2 DEF IsRequest, Blank
<1> QED  BY <1>1, <1>3, Sending

LEMMA Serving ==
  ASSUME NEW q, IsRequest(q), Serve(q)
  PROVE  Serves(q)
<1>1. CASE q.kind = "connect"
  <2>1. PICK ok, m : /\ flight' = (flight \ {q}) \cup {m}
                     /\ m = [q EXCEPT !.served = TRUE, !.ok = ok]
    BY <1>1 DEF Serve, ServeConnect
  <2>2. m = [id |-> q.id, kind |-> q.kind, paths |-> q.paths, structs |-> q.structs, value |-> q.value,
             key |-> q.key, served |-> TRUE, ok |-> ok, files |-> q.files]
    BY <2>1 DEF IsRequest
  <2>3. IsRequest(m)
    BY <2>2 DEF IsRequest
  <2> QED  BY <1>1, <2>1, <2>2, <2>3 DEF Serves
<1>2. CASE q.kind # "connect"
  <2> DEFINE fits  == q.key # NoKey /\ live /\ q.key[2] = session
             keys  == IF fits THEN granted \cup {q.key[1]} ELSE granted
             f     == CHOOSE g \in q.paths : TRUE
             done  == CASE q.kind = "verify" -> fits
                        [] q.kind = "write"  -> /\ live /\ Opens(WriteCond[f], keys)
                                                /\ f \in Records <=> f \in q.structs
                        [] q.kind = "dump"   -> live
                        [] OTHER             -> TRUE
             files == CASE ~live              -> NoDump
                        [] q.kind = "dump"    -> [g \in EFs |-> DumpEntry(g, keys)]
                        [] q.kind = "read"    -> ReadResults(q, keys)
                        [] OTHER              -> NoDump
  <2>1. flight' = (flight \ {q}) \cup {[q EXCEPT !.served = TRUE, !.ok = done, !.files = files]}
    BY <1>2, Zenon DEF Serve, ServeOther
  <2>2. q.kind = "verify" /\ done => q.key[2] = session
    OBVIOUS
  <2> HIDE DEF done, files
  <2>3. PICK m : /\ flight' = (flight \ {q}) \cup {m}
                 /\ m = [q EXCEPT !.served = TRUE, !.ok = done, !.files = files]
    BY <2>1
  <2>4. m = [id |-> q.id, kind |-> q.kind, paths |-> q.paths, structs |-> q.structs, value |-> q.value,
             key |-> q.key, served |-> TRUE, ok |-> done, files |-> files]
    BY <2>3 DEF IsRequest
  <2>5. IsRequest(m)
    BY <2>4 DEF IsRequest
  <2> QED  BY <2>2, <2>3, <2>4, <2>5 DEF Serves
<1> QED  BY <1>1, <1>2
-----------------------------------------------------------------------------
(* Offline, the page writes nothing.                                       *)

LEMMA ShapeKept ==
  ASSUME Shape, Next
  PROVE  Shape'
<1>1. ASSUME NEW others \in SUBSET flight, NEW kind, NEW paths, NEW key, Sends(others, kind, paths, key)
      PROVE  (\A q \in flight : IsRequest(q))'
  BY <1>1 DEF Shape, Sends, IsRequest
<1>2. ASSUME UNCHANGED admKeys \/ admKeys' = [k \in Keys |-> NoCard]
      PROVE  (admKeys = [k \in Keys |-> admKeys[k]])'
  BY <1>2 DEF Shape
<1>3. CASE ConnectReader
  BY <1>1, <1>2, <1>3, ConnectSends DEF ConnectReader, Shape
<1>4. CASE ReadAllFiles
  BY <1>1, <1>2, <1>4, DumpSends DEF ReadAllFiles, page, Shape
<1>5. CASE OpenWritePopup \/ CloseWritePopup
  BY <1>2, <1>5 DEF OpenWritePopup, CloseWritePopup, page, Shape, IsRequest
<1>6. CASE \E k \in Keys, c \in Cards : DoAdmVerify(k, c)
  BY <1>1, <1>2, <1>6, VerifySends DEF DoAdmVerify, page, Shape
<1>7. CASE \E f \in EFs : SelectRow(f)
  BY <1>2, <1>7 DEF SelectRow, Shape, IsRequest
<1>8. CASE \E saved \in [Keys -> BOOLEAN] : LoadDumpFile(saved)
  BY <1>2, <1>8 DEF LoadDumpFile, Shape, IsRequest
<1>9. CASE \E v \in NewValues : SubmitWrite(v)
  BY <1>1, <1>2, <1>9, SubmitSends DEF SubmitWrite, page, Shape
<1>10. CASE \E q \in flight : Serve(q)
  <2>1. PICK q \in flight : Serve(q)
    BY <1>10
  <2>2. Serves(q)
    BY <2>1, Serving DEF Shape
  <2>3. UNCHANGED admKeys
    BY <2>1 DEF Serve, page
  <2> QED  BY <1>2, <2>2, <2>3 DEF Serves, Shape, IsRequest
<1>11. CASE \E q \in flight : ConnectAnswer(q) \/ ReadAnswer(q)
  BY <1>2, <1>11 DEF ConnectAnswer, ReadAnswer, Answered, page, Shape, IsRequest
<1>12. CASE \E q \in flight : ReadAllAnswer(q)
  BY <1>1, <1>2, <1>12, AutoReading DEF ReadAllAnswer, Answered, Shape, IsRequest
<1>13. CASE \E q \in flight : VerifyAnswer(q)
  <2>1. PICK q \in flight : VerifyAnswer(q)
    BY <1>13
  <2>2. flight' = flight \ {q} \/ \E key, paths : Sends(flight \ {q}, "read", paths, key)
    BY <2>1, AutoReading DEF VerifyAnswer, Answered
  <2>3. (\A x \in flight : IsRequest(x))'
    BY <1>1, <2>2 DEF Shape, IsRequest
  <2>4. (admKeys = [k \in Keys |-> admKeys[k]])'
    BY <2>1 DEF VerifyAnswer, Shape
  <2> QED  BY <2>3, <2>4 DEF Shape
<1>14. CASE \E q \in flight : WriteAnswer(q)
  BY <1>1, <1>2, <1>14, ReadingAgain DEF WriteAnswer, Shape, IsRequest
<1>15. CASE \E c \in Cards : Exchange(c)
  BY <1>2, <1>15 DEF Exchange, page, Shape, IsRequest
<1> QED
  BY <1>3, <1>4, <1>5, <1>6, <1>7, <1>8, <1>9, <1>10, <1>11, <1>12, <1>13, <1>14, <1>15 DEF Next, User, Answer

\* Only SelectRow and VerifyAnswer enable Write, and they ask isOfflineMode.
LEMMA OfflineKept ==
  ASSUME OfflineInv, Next
  PROVE  OfflineInv'
<1>1. CASE ConnectReader
  BY <1>1 DEF ConnectReader, OfflineInv
<1>2. CASE ReadAllFiles
  BY <1>2 DEF ReadAllFiles, page, OfflineInv
<1>3. CASE OpenWritePopup \/ CloseWritePopup
  BY <1>3 DEF OpenWritePopup, CloseWritePopup, page, buttons, OfflineInv
<1>4. CASE \E k \in Keys, c \in Cards : DoAdmVerify(k, c)
  BY <1>4 DEF DoAdmVerify, page, buttons, OfflineInv
<1>5. CASE \E f \in EFs : SelectRow(f)
  <2>1. PICK f \in EFs : SelectRow(f)
    BY <1>5
  <2>2. isOfflineMode' = isOfflineMode /\ popup' = popup /\ ~popup
    BY <2>1 DEF SelectRow
  <2>3. btnWrite' => ~isOfflineMode
    BY <2>1, Zenon DEF SelectRow, WriteEnabled
  <2> QED  BY <2>2, <2>3 DEF OfflineInv
<1>6. CASE \E saved \in [Keys -> BOOLEAN] : LoadDumpFile(saved)
  <2>1. ~popup /\ popup' = popup /\ btnWrite' = FALSE
    BY <1>6 DEF LoadDumpFile
  <2> QED  BY <2>1 DEF OfflineInv
<1>7. CASE \E v \in NewValues : SubmitWrite(v)
  BY <1>7 DEF SubmitWrite, page, buttons, OfflineInv
<1>8. CASE \E q \in flight : Serve(q) \/ ConnectAnswer(q)
  BY <1>8 DEF Serve, ConnectAnswer, page, buttons, OfflineInv
<1>9. CASE \E q \in flight : ReadAllAnswer(q)
  BY <1>9 DEF ReadAllAnswer, OfflineInv
<1>10. CASE \E q \in flight : VerifyAnswer(q)
  <2>1. PICK q \in flight : VerifyAnswer(q)
    BY <1>10
  <2>2. isOfflineMode' = isOfflineMode /\ popup' = popup
    BY <2>1 DEF VerifyAnswer
  <2>3. CASE btnWrite' = btnWrite
    BY <2>2, <2>3 DEF OfflineInv
  <2>4. CASE btnWrite' = WriteEnabled(selectedPath, selectedFd, dumpData, admVerified', isOfflineMode)
    <3>1. btnWrite' => ~isOfflineMode
      BY <2>4, Zenon DEF WriteEnabled
    <3> QED  BY <3>1, <2>2 DEF OfflineInv
  <2> QED  BY <2>1, <2>3, <2>4 DEF VerifyAnswer
<1>11. CASE \E q \in flight : WriteAnswer(q) \/ ReadAnswer(q)
  BY <1>11 DEF WriteAnswer, ReadAnswer, buttons, OfflineInv
<1>12. CASE \E c \in Cards : Exchange(c)
  BY <1>12 DEF Exchange, page, buttons, OfflineInv
<1> QED
  BY <1>1, <1>2, <1>3, <1>4, <1>5, <1>6, <1>7, <1>8, <1>9, <1>10, <1>11, <1>12 DEF Next, User, Answer

\* A step that sends sends one request, and it is a write only if the popup
\* is open.
LEMMA SendingStep ==
  ASSUME Next, ~popup, sent' # sent
  PROVE  Writes' \subseteq Writes
<1>1. ASSUME NEW others \in SUBSET flight, NEW kind, NEW paths, NEW key, Sends(others, kind, paths, key), kind # "write"
      PROVE  Writes' \subseteq Writes
  BY <1>1 DEF Sends, Writes
<1>2. ASSUME NEW q \in flight, flight' = flight \ {q}
      PROVE  Writes' \subseteq Writes
  BY <1>2 DEF Writes
<1>3. CASE ConnectReader
  BY <1>1, <1>3, ConnectSends
<1>4. CASE ReadAllFiles
  BY <1>1, <1>4, DumpSends
<1>5. CASE \E k \in Keys, c \in Cards : DoAdmVerify(k, c)
  BY <1>1, <1>5, VerifySends
<1>6. CASE \E q \in flight : ReadAllAnswer(q)
  BY <1>1, <1>2, <1>6, AutoReading DEF ReadAllAnswer, Answered
<1>7. CASE \E q \in flight : VerifyAnswer(q)
  BY <1>1, <1>2, <1>7, AutoReading DEF VerifyAnswer, Answered
<1>8. CASE \E q \in flight : WriteAnswer(q)
  BY <1>1, <1>2, <1>8, ReadingAgain
<1>9. CASE \E v \in NewValues : SubmitWrite(v)
  BY <1>9 DEF SubmitWrite
<1>10. CASE \/ OpenWritePopup \/ CloseWritePopup
            \/ \E f \in EFs : SelectRow(f)
            \/ \E saved \in [Keys -> BOOLEAN] : LoadDumpFile(saved)
            \/ \E q \in flight : Serve(q) \/ ConnectAnswer(q) \/ ReadAnswer(q)
            \/ \E c \in Cards : Exchange(c)
  BY <1>10 DEF OpenWritePopup, CloseWritePopup, SelectRow, LoadDumpFile, Serve, ConnectAnswer, ReadAnswer,
               Answered, Exchange
<1> QED
  BY <1>3, <1>4, <1>5, <1>6, <1>7, <1>8, <1>9, <1>10 DEF Next, User, Answer

\* Offline, no step of the page sends a write, whatever answers are still to
\* come. (index.html: updateDetailButtons, loadDumpFile, submitWrite)
THEOREM OfflineSafety == Spec => OfflineNeverWrites
<1>1. Init => OfflineInv
  BY DEF Init, OfflineInv
<1>2. OfflineInv /\ [Next]_vars => OfflineInv'
  <2>1. ASSUME OfflineInv, UNCHANGED vars
        PROVE  OfflineInv'
    BY <2>1 DEF vars, page, buttons, OfflineInv
  <2> QED  BY <2>1, OfflineKept
<1>3. OfflineInv /\ [Next]_vars => [isOfflineMode /\ sent' # sent => Writes' \subseteq Writes]_vars
  BY SendingStep DEF OfflineInv
<1> QED  BY <1>1, <1>2, <1>3, PTL DEF Spec, OfflineNeverWrites
-----------------------------------------------------------------------------
(* The keys of a patient user.                                             *)

\* What the page sends beside other requests keeps the parts.
LEMMA KeysSent ==
  ASSUME NEW others \in SUBSET flight, NEW kind, NEW paths, NEW key, Sends(others, kind, paths, key),
         UNCHANGED session, CarriedKeys, kind # "connect",
         kind = "verify" \/ key = NoKey \/ key[2] = session,
         \A q \in others : ~(q.kind = "connect" /\ ~q.served)
  PROVE  CarriedKeys' /\ Connecting'
<1>1. PICK m : flight' = others \cup {m} /\ m.kind = kind /\ m.key = key /\ m.served = FALSE
  BY DEF Sends
<1>2. Carries(m) => m.key[2] = session
  BY <1>1 DEF Carries
<1>3. CarriedKeys'
  BY <1>1, <1>2 DEF CarriedKeys, Carries
<1>4. Connecting'
  BY <1>1 DEF Connecting
<1> QED  BY <1>3, <1>4

\* An answer that is taken in keeps them too.
LEMMA KeysTaken ==
  ASSUME NEW q \in flight, flight' = flight \ {q}, UNCHANGED session, CarriedKeys, Connecting
  PROVE  CarriedKeys' /\ Connecting'
<1>1. \A x \in flight' : ~(x.kind = "connect" /\ ~x.served)
  BY DEF Connecting, Alone
<1> QED  BY <1>1 DEF CarriedKeys, Connecting, Carries

\* The keys _getVerifiedAdm may choose.
LEMMA VerifiedKeys ==
  ASSUME NEW key \in VerifiedAdm, HeldKeys
  PROVE  key = NoKey \/ key[2] = session
<1> DEFINE c     == ArrCondition(WriteCond, selectedPath, dumpData)
           known == {k \in Keys : admVerified[k]}
           best  == IF c \in known THEN {c} ELSE known
<1>1. VerifiedAdm = IF best = {} THEN {NoKey}
                    ELSE {IF admKeys[k] = NoCard THEN NoKey ELSE <<k, admKeys[k]>> : k \in best}
  BY DEF VerifiedAdm
<1>2. best \subseteq Keys
  OBVIOUS
<1> HIDE DEF best
<1> QED  BY <1>1, <1>2 DEF HeldKeys

\* The server takes a request: only a connect changes the session.
LEMMA ServeKeepsKeys ==
  ASSUME Shape, KeyInv, NEW q \in flight, Serve(q), calm
  PROVE  ~misKeyed' /\ HeldKeys' /\ CarriedKeys' /\ Connecting'
<1>1. PICK m : /\ flight' = (flight \ {q}) \cup {m}
               /\ m.kind = q.kind /\ m.key = q.key /\ m.served = TRUE
               /\ q.kind = "verify" /\ m.ok => q.key[2] = session
  BY Serving DEF Shape, Serves
<1>2. ~misKeyed /\ HeldKeys /\ CarriedKeys /\ Connecting
  BY DEF KeyInv
<1>3. ~q.served /\ UNCHANGED <<page, buttons>>
  BY DEF Serve
<1>4. CASE q.kind = "connect"
  <2>1. Alone(q)
    BY <1>2, <1>3, <1>4 DEF Connecting
  <2>2. flight' = {m} /\ ~Carries(m)
    BY <1>1, <1>4, <2>1 DEF Alone, Carries
  <2>3. misKeyed' = misKeyed
    BY <1>4 DEF Serve, ServeConnect
  <2>4. HeldKeys'
    BY <1>3, <2>1 DEF HeldKeys, Alone, page
  <2>5. CarriedKeys' /\ Connecting'
    BY <1>1, <2>2 DEF CarriedKeys, Connecting, Carries
  <2> QED  BY <1>2, <2>3, <2>4, <2>5
<1>5. CASE q.kind # "connect"
  <2>1. ServeOther(q)
    BY <1>5 DEF Serve
  <2>2. session' = session
    BY <2>1 DEF ServeOther
  <2>3. q.kind # "verify" /\ q.key # NoKey => q.key[2] = session
    BY <1>2 DEF CarriedKeys, Carries
  <2>4. ~misKeyed'
    BY <1>2, <2>1, <2>3, Zenon DEF ServeOther
  <2>5. HeldKeys'
    BY <1>2, <1>3, <2>2 DEF HeldKeys, page
  <2>6. Carries(m) => m.key[2] = session
    BY <1>1, <2>3 DEF Carries
  <2>7. CarriedKeys'
    BY <1>1, <1>2, <2>2, <2>6 DEF CarriedKeys, Carries
  <2>8. Connecting'
    BY <1>1, <1>2 DEF Connecting, Alone
  <2> QED  BY <2>4, <2>5, <2>7, <2>8
<1> QED  BY <1>4, <1>5

LEMMA KeysKept ==
  ASSUME Shape, KeyInv, Next
  PROVE  KeyInv'
<1> SUFFICES ASSUME calm' PROVE ~misKeyed' /\ HeldKeys' /\ CarriedKeys' /\ Connecting'
  BY DEF KeyInv
<1>1. ASSUME calm, UNCHANGED <<admKeys, btnAdm, btnReadAll, flight, session, misKeyed>>
      PROVE  ~misKeyed' /\ HeldKeys' /\ CarriedKeys' /\ Connecting'
  BY <1>1 DEF KeyInv, HeldKeys, CarriedKeys, Connecting, Carries, Alone
\* the steps after which a patient user has no request under way
<1>2. ASSUME calm, flight = {}, UNCHANGED <<flight, misKeyed>>, \A k \in Keys : admKeys'[k] = NoCard
      PROVE  ~misKeyed' /\ HeldKeys' /\ CarriedKeys' /\ Connecting'
  BY <1>2 DEF KeyInv, HeldKeys, CarriedKeys, Connecting
<1>3. ASSUME calm, UNCHANGED <<admKeys, session, misKeyed>>
      PROVE  ~misKeyed' /\ HeldKeys'
  BY <1>3 DEF KeyInv, HeldKeys
<1>4. calm => HeldKeys /\ CarriedKeys /\ Connecting
  BY DEF KeyInv
<1>5. CASE ConnectReader
  <2>1. PICK m : flight' = flight \cup {m} /\ m.kind = "connect" /\ m.key = NoKey
    BY <1>5, ConnectSends DEF Sends
  <2>2. /\ calm /\ flight = {}
        /\ ~btnAdm' /\ ~btnReadAll' /\ admKeys' = [k \in Keys |-> NoCard]
        /\ misKeyed' = misKeyed
    BY <1>5 DEF ConnectReader, Patient, server
  <2>3. ~misKeyed' /\ HeldKeys'
    BY <2>2 DEF KeyInv, HeldKeys
  <2>4. CarriedKeys' /\ Connecting'
    BY <2>1, <2>2 DEF CarriedKeys, Connecting, Carries, Alone
  <2> QED  BY <2>3, <2>4
<1>6. CASE ReadAllFiles
  <2>1. calm /\ btnReadAll /\ UNCHANGED <<admKeys, session, misKeyed>>
    BY <1>6 DEF ReadAllFiles, page, server
  <2>2. \A x \in flight : ~(x.kind = "connect" /\ ~x.served)
    BY <1>4, <2>1 DEF Connecting, Alone
  <2> QED  BY <1>3, <1>4, <1>6, <2>1, <2>2, DumpSends, KeysSent
<1>7. CASE \E k \in Keys, c \in Cards : DoAdmVerify(k, c)
  <2>1. PICK k \in Keys, c \in Cards : DoAdmVerify(k, c)
    BY <1>7
  <2>2. calm /\ btnAdm /\ UNCHANGED <<admKeys, session, misKeyed>>
    BY <2>1 DEF DoAdmVerify, page, server
  <2>3. \A x \in flight : ~(x.kind = "connect" /\ ~x.served)
    BY <1>4, <2>2 DEF Connecting, Alone
  <2>4. CarriedKeys' /\ Connecting'
    BY <1>4, <2>1, <2>2, <2>3, VerifySends, KeysSent
  <2> QED  BY <1>3, <2>2, <2>4
<1>8. CASE \E v \in NewValues : SubmitWrite(v)
  <2>1. calm /\ flight = {} /\ UNCHANGED <<admKeys, session, misKeyed>>
    BY <1>8 DEF SubmitWrite, Patient, page, server
  <2>2. PICK key \in VerifiedAdm : Sends(flight, "write", {selectedPath}, key)
    BY <1>8, SubmitSends
  <2>3. key = NoKey \/ key[2] = session
    BY <1>4, <2>1, VerifiedKeys
  <2> QED  BY <1>3, <1>4, <2>1, <2>2, <2>3, KeysSent
<1>9. CASE \/ OpenWritePopup \/ CloseWritePopup
           \/ \E f \in EFs : SelectRow(f)
           \/ \E c \in Cards : Exchange(c)
  BY <1>1, <1>9 DEF OpenWritePopup, CloseWritePopup, SelectRow, Exchange, Patient, page, buttons, server
<1>10. CASE \E saved \in [Keys -> BOOLEAN] : LoadDumpFile(saved)
  BY <1>2, <1>10 DEF LoadDumpFile, Patient, server
<1>11. CASE \E q \in flight : Serve(q)
  BY <1>11, ServeKeepsKeys DEF Serve
<1>12. CASE \E q \in flight : ConnectAnswer(q) \/ ReadAnswer(q)
  BY <1>3, <1>4, <1>12, KeysTaken DEF ConnectAnswer, ReadAnswer, Answered, page, server
<1>13. CASE \E q \in flight : ReadAllAnswer(q) \/ VerifyAnswer(q) \/ WriteAnswer(q)
  <2>1. PICK q \in flight : ReadAllAnswer(q) \/ VerifyAnswer(q) \/ WriteAnswer(q)
    BY <1>13
  <2>2. q.served /\ calm /\ UNCHANGED <<session, misKeyed>>
    BY <2>1 DEF ReadAllAnswer, VerifyAnswer, WriteAnswer, server
  <2>3. \A x \in flight \ {q} : ~(x.kind = "connect" /\ ~x.served)
    BY <1>4, <2>2 DEF Connecting, Alone
  <2>4. ASSUME NEW key, key = NoKey \/ key[2] = session,
               flight' = flight \ {q} \/ \E paths : Sends(flight \ {q}, "read", paths, key)
        PROVE  CarriedKeys' /\ Connecting'
    BY <1>4, <2>2, <2>3, <2>4, KeysSent, KeysTaken
  <2>5. CASE ReadAllAnswer(q)
    <3>1. \/ flight' = flight \ {q}
          \/ \E k \in Keys : admKeys[k] # NoCard /\ AutoRead(q, k, <<k, admKeys[k]>>, q.files)
      BY <2>5 DEF ReadAllAnswer, Answered
    <3>2. CASE flight' = flight \ {q}
      <4>1. CarriedKeys' /\ Connecting'
        BY <2>4, <3>2
      <4> QED  BY <1>3, <2>2, <2>5, <4>1 DEF ReadAllAnswer
    <3>3. CASE \E k \in Keys : admKeys[k] # NoCard /\ AutoRead(q, k, <<k, admKeys[k]>>, q.files)
      <4>1. PICK k \in Keys : admKeys[k] # NoCard /\ AutoRead(q, k, <<k, admKeys[k]>>, q.files)
        BY <3>3
      <4>2. admKeys[k] = session
        BY <1>4, <2>2, <4>1 DEF HeldKeys
      <4>3. CarriedKeys' /\ Connecting'
        <5>1. <<k, admKeys[k]>>[2] = session
          BY <4>2
        <5>2. PICK key : key = <<k, admKeys[k]>>
          OBVIOUS
        <5> QED  BY <2>4, <4>1, <5>1, <5>2, AutoReading
      <4> QED  BY <1>3, <2>2, <2>5, <4>3 DEF ReadAllAnswer
    <3> QED  BY <3>1, <3>2, <3>3
  <2>6. CASE VerifyAnswer(q) /\ q.ok
    <3>1. q.key[2] = session
      BY <1>4, <2>2, <2>6 DEF VerifyAnswer, CarriedKeys, Carries
    <3>2. AutoRead(q, q.key[1], q.key, dumpData) /\ admKeys' = [admKeys EXCEPT ![q.key[1]] = q.key[2]]
      BY <2>6 DEF VerifyAnswer
    <3>3. CarriedKeys' /\ Connecting'
      BY <2>4, <3>1, <3>2, AutoReading
    <3>4. HeldKeys'
      BY <1>4, <2>2, <3>1, <3>2 DEF HeldKeys, Shape
    <3> QED  BY <2>2, <3>3, <3>4 DEF KeyInv
  <2>7. CASE VerifyAnswer(q) /\ ~q.ok
    BY <1>3, <2>2, <2>4, <2>7 DEF VerifyAnswer, Answered
  <2>8. CASE WriteAnswer(q)
    <3>1. q.key = NoKey \/ q.key[2] = session
      BY <1>4, <2>2, <2>8 DEF WriteAnswer, CarriedKeys, Carries
    <3> QED  BY <1>3, <2>2, <2>4, <2>8, <3>1, ReadingAgain DEF WriteAnswer
  <2> QED  BY <2>1, <2>5, <2>6, <2>7, <2>8
<1> QED
  BY <1>5, <1>6, <1>7, <1>8, <1>9, <1>10, <1>11, <1>12, <1>13 DEF Next, User, Answer

\* For a user who waits for answers, a key that one card accepted is never
\* presented to another, whichever cards are put in and whatever fails.
\* (index.html: connectReader, doAdmVerify, autoRead6982Files, submitWrite)
THEOREM KeysStayHome == Spec => []KeysGoHome
<1>1. Init => Shape /\ KeyInv
  BY DEF Init, Shape, KeyInv, HeldKeys, CarriedKeys, Connecting
<1>2. Shape /\ KeyInv /\ [Next]_vars => (Shape /\ KeyInv)'
  <2>1. ASSUME Shape, KeyInv, UNCHANGED vars
        PROVE  (Shape /\ KeyInv)'
    BY <2>1 DEF vars, page, buttons, server, Shape, KeyInv, HeldKeys, CarriedKeys, Connecting, Carries,
                Alone, IsRequest
  <2> QED  BY <2>1, ShapeKept, KeysKept
<1>3. Shape /\ KeyInv => KeysGoHome
  BY DEF KeyInv, KeysGoHome
<1> QED  BY <1>1, <1>2, <1>3, PTL DEF Spec
-----------------------------------------------------------------------------
(* The page of a patient user shows what the card holds.                   *)

\* A dump has an entry for every file.  One that reports a refusal has no FCP.
IsEntry(e) == e = Entry(e.bytes, e.body, e.error, e.fcp) /\ (e.error = "6982" => ~e.fcp)
IsDump(d)  == d = NoDump \/ (d = [f \in EFs |-> d[f]] /\ \A f \in EFs : IsEntry(d[f]))
True(d)    == \A f \in DOMAIN d : d[f].bytes \in {NoValue, content[session][f]}

Job(q)     == q.kind \in {"write", "read"}   \* a write, or the reading that follows it
Loads(q)   == q.kind \in {"connect", "dump"}
Written(q) == q.kind = "write" /\ q.served /\ q.ok
Loading    == btnReadAll \/ \E q \in flight : Loads(q)

PageShape ==
  /\ inserted \in Cards /\ (live => session \in Cards)
  /\ content = [c \in Cards |-> [f \in EFs |-> content[c][f]]]
  /\ orphan = NoEntry /\ IsDump(dumpData)
  /\ popup => selectedPath \in DOMAIN dumpData

\* A patient user has one write, or one dump, or one connect under way, and
\* looks at an empty page until the first dump has come.
OneAtATime ==
  /\ \A q, r \in flight : Job(q) /\ Job(r) => q = r
  /\ \A q, r \in flight : Loads(q) /\ Loads(r) => q = r
  /\ \A q \in flight : Loads(q) => ~btnReadAll
  /\ \A q \in flight : q.kind = "connect" => flight = {q} /\ ~btnAdm
  /\ Loading => dumpData = NoDump /\ \A q \in flight : ~Job(q)
  /\ \A q \in flight : Job(q) => q.paths = {selectedPath} /\ selectedPath \in EFs

\* What the server answered is still so when the answer arrives.
Answers ==
  \A q \in flight :
    /\ q.kind = "verify" => q.key[1] \in Keys
    /\ q.served =>
         /\ q.kind = "connect" /\ ~q.ok => session = NoCard
         /\ q.kind = "dump" /\ q.ok => IsDump(q.files) /\ q.files # NoDump /\ True(q.files)
         /\ q.kind = "read" => True(q.files)
         /\ Written(q) => content[session][selectedPath] = q.value

\* Only the file that was just written may show something else, until its
\* answer comes.
Cache ==
  ~isOfflineMode => \A f \in DOMAIN dumpData :
    \/ dumpData[f].bytes \in {NoValue, content[session][f]}
    \/ f = selectedPath /\ \E q \in flight : Written(q)

MayReadAll == session # NoCard /\ dumpData = NoDump => Loading

PageParts == PageShape /\ OneAtATime /\ Answers /\ Cache /\ MayReadAll
PageInv   == calm => PageParts

LEMMA NoDumpIsEmpty == DOMAIN NoDump = {} /\ \A d : IsDump(d) /\ d # NoDump => DOMAIN d = EFs
  BY DEF NoDump, IsDump

LEMMA NoEntryShape == IsEntry(NoEntry) /\ NoEntry.bytes = NoValue
  BY DEF NoEntry, IsEntry, Entry

\* A file that reported a refusal has no condition a key could open.
LEMMA NothingToRead ==
  ASSUME NEW q, NEW k \in Keys, NEW key, NEW d, IsDump(d), AutoRead(q, k, key, d)
  PROVE  flight' = flight \ {q}
<1>1. ASSUME NEW f \in DOMAIN d, d[f].error = "6982"
      PROVE  ArrCondition(ReadCond, f, d) # k
  <2>1. ~d[f].fcp
    BY <1>1, NoDumpIsEmpty DEF IsDump, IsEntry
  <2>2. ArrCondition(ReadCond, f, d) = "unknown"
    BY <2>1 DEF ArrCondition
  <2> QED  BY <2>2, WebUiAssumption
<1>2. AutoReadPaths(k, d) = {}
  BY <1>1 DEF AutoReadPaths
<1> QED  BY <1>2 DEF AutoRead, Answered

LEMMA TheSelected ==
  ASSUME PageShape
  PROVE  /\ selectedPath \in DOMAIN dumpData => selectedFd = dumpData[selectedPath]
         /\ selectedPath \notin DOMAIN dumpData => selectedFd = NoEntry
  BY DEF PageShape, selectedFd

\* An entry of the dump the server makes says what the card holds.
LEMMA EntryIsTrue ==
  ASSUME NEW f, NEW keys
  PROVE  /\ IsEntry(DumpEntry(f, keys))
         /\ DumpEntry(f, keys).bytes \in {NoValue, content[session][f]}
<1>1. DumpEntry(f, keys) \in {Entry(content[session][f], content[session][f], "", TRUE),
                              Entry(NoValue, NoValue, "", TRUE), Entry(NoValue, NoValue, "6982", FALSE)}
  BY DEF DumpEntry
<1>2. PICK e : e = DumpEntry(f, keys)
  OBVIOUS
<1>3. CASE e = Entry(content[session][f], content[session][f], "", TRUE)
  <2>1. e.bytes = content[session][f] /\ e.body = content[session][f] /\ e.error = "" /\ e.fcp = TRUE
    BY <1>3 DEF Entry
  <2> QED  BY <1>2, <1>3, <2>1 DEF IsEntry
<1>4. CASE e = Entry(NoValue, NoValue, "", TRUE)
  <2>1. e.bytes = NoValue /\ e.body = NoValue /\ e.error = "" /\ e.fcp = TRUE
    BY <1>4 DEF Entry
  <2> QED  BY <1>2, <1>4, <2>1 DEF IsEntry
<1>5. CASE e = Entry(NoValue, NoValue, "6982", FALSE)
  <2>1. e.bytes = NoValue /\ e.body = NoValue /\ e.error = "6982" /\ e.fcp = FALSE
    BY <1>5 DEF Entry
  <2> QED  BY <1>2, <1>5, <2>1 DEF IsEntry
<1> QED  BY <1>1, <1>2, <1>3, <1>4, <1>5

\* The steps of the user.
LEMMA ConnectPage ==
  ASSUME PageParts, flight = {}, ConnectReader
  PROVE  PageParts'
<1>3. PICK m : flight' = {m} /\ m.kind = "connect" /\ m.served = FALSE
  BY ConnectSends DEF Sends
<1>4. /\ dumpData' = NoDump /\ orphan' = NoEntry /\ ~popup /\ ~btnReadAll' /\ ~btnAdm'
      /\ UNCHANGED <<popup, inserted, live, session, content>>
  BY DEF ConnectReader, server
<1>5. PageShape'
  BY <1>4 DEF PageParts, PageShape, IsDump
<1>6. OneAtATime' /\ MayReadAll'
  BY <1>3, <1>4 DEF OneAtATime, MayReadAll, Loading, Loads, Job
<1>7. Answers'
  BY <1>3 DEF Answers
<1>8. Cache'
  BY <1>4, NoDumpIsEmpty DEF Cache
<1> QED  BY <1>5, <1>6, <1>7, <1>8 DEF PageParts

\* A request beside others that is neither a connect nor a job.
LEMMA PostedBeside ==
  ASSUME PageParts, NEW m, flight' = flight \cup {m}, m.served = FALSE,
         UNCHANGED <<selectedPath, session, content>>
  PROVE  (m.kind = "verify" => m.key[1] \in Keys) => Answers'
  BY DEF PageParts, Answers, IsDump, True, Written, IsEntry

LEMMA ReadAllPage ==
  ASSUME PageParts, ReadAllFiles
  PROVE  PageParts'
<1>3. PICK m : flight' = flight \cup {m} /\ m.kind = "dump" /\ m.served = FALSE
  BY DumpSends DEF Sends
<1>4. /\ btnReadAll /\ ~btnReadAll'
      /\ UNCHANGED <<page, popup, inserted, live, session, content, btnAdm>>
  BY DEF ReadAllFiles, server
<1>5. PageShape'
  BY <1>4 DEF PageParts, PageShape, page, IsDump, IsEntry
<1>6. dumpData' = NoDump /\ \A q \in flight : ~Job(q) /\ ~Loads(q)
  BY <1>4 DEF PageParts, OneAtATime, Loading, page
<1>7. OneAtATime' /\ MayReadAll'
  BY <1>3, <1>4, <1>6 DEF OneAtATime, MayReadAll, Loading, Loads, Job
<1>8. Answers'
  BY <1>3, <1>4, PostedBeside DEF page
<1>9. Cache'
  BY <1>6, NoDumpIsEmpty DEF Cache
<1> QED  BY <1>5, <1>7, <1>8, <1>9 DEF PageParts

LEMMA VerifyPage ==
  ASSUME PageParts, NEW k \in Keys, NEW c, DoAdmVerify(k, c)
  PROVE  PageParts'
<1>3. PICK m : flight' = flight \cup {m} /\ m.kind = "verify" /\ m.key = <<k, c>> /\ m.served = FALSE
  BY VerifySends DEF Sends
<1>4. btnAdm /\ UNCHANGED <<page, buttons, popup, inserted, live, session, content>>
  BY DEF DoAdmVerify, server
<1>5. PageShape'
  BY <1>4 DEF PageParts, PageShape, page, IsDump, IsEntry
<1>6. OneAtATime'
  BY <1>3, <1>4 DEF PageParts, OneAtATime, Loading, Loads, Job, page, buttons
<1>7. MayReadAll'
  BY <1>3, <1>4 DEF PageParts, MayReadAll, Loading, Loads, page, buttons
<1>8. Answers'
  <2>1. m.key[1] = k
    BY <1>3
  <2> QED  BY <1>3, <1>4, <2>1, PostedBeside DEF page
<1>9. Cache'
  BY <1>3, <1>4 DEF PageParts, Cache, page, Written
<1> QED  BY <1>5, <1>6, <1>7, <1>8, <1>9 DEF PageParts

LEMMA SubmitPage ==
  ASSUME PageParts, flight = {}, NEW v, SubmitWrite(v)
  PROVE  PageParts'
<1>4. PICK m : flight' = {m} /\ m.kind = "write" /\ m.paths = {selectedPath} /\ m.served = FALSE
  BY SubmitSends DEF Sends
<1>5. popup /\ UNCHANGED <<page, buttons, popup, inserted, live, session, content>>
  BY DEF SubmitWrite, server
<1>6. selectedPath \in DOMAIN dumpData /\ dumpData # NoDump
  BY <1>5, NoDumpIsEmpty DEF PageParts, PageShape
<1>7. PageShape'
  BY <1>5 DEF PageParts, PageShape, page, IsDump, IsEntry
<1>8. selectedPath \in EFs /\ ~btnReadAll
  BY <1>6, NoDumpIsEmpty DEF PageParts, PageShape, OneAtATime, Loading
<1>9. OneAtATime'
  BY <1>4, <1>5, <1>8 DEF OneAtATime, Loading, Loads, Job, page, buttons
<1>10. MayReadAll'
  BY <1>5, <1>6 DEF MayReadAll, page
<1>11. Answers'
  BY <1>4 DEF Answers
<1>12. Cache'
  BY <1>5 DEF PageParts, Cache, page, Written
<1> QED  BY <1>7, <1>9, <1>10, <1>11, <1>12 DEF PageParts

LEMMA BrowsePage ==
  ASSUME PageParts,
         \/ OpenWritePopup \/ CloseWritePopup
         \/ \E c \in Cards : Exchange(c)
         \/ flight = {} /\ \E f \in EFs : SelectRow(f)
  PROVE  PageParts'
<1>1. UNCHANGED <<dumpData, orphan, isOfflineMode, btnReadAll, btnAdm, flight, session, content>>
  BY DEF OpenWritePopup, CloseWritePopup, Exchange, SelectRow, page, buttons, server, PageParts, PageShape
<1>2. inserted' \in Cards /\ (live' => live)
  BY DEF OpenWritePopup, CloseWritePopup, Exchange, SelectRow, server, PageParts, PageShape
<1>3. selectedPath' = selectedPath \/ flight = {}
  BY DEF OpenWritePopup, CloseWritePopup, Exchange, page
<1>4. popup' => selectedPath' \in DOMAIN dumpData
  BY TheSelected DEF OpenWritePopup, CloseWritePopup, Exchange, SelectRow, page, PageParts, PageShape
<1>5. PageShape'
  BY <1>1, <1>2, <1>4 DEF PageParts, PageShape, IsDump, IsEntry
<1>6. OneAtATime'
  BY <1>1, <1>3 DEF PageParts, OneAtATime, Loading, Loads, Job
<1>7. MayReadAll'
  BY <1>1 DEF PageParts, MayReadAll, Loading, Loads
<1>8. Answers'
  BY <1>1, <1>3 DEF PageParts, Answers, IsDump, IsEntry, True, Written
<1>9. Cache'
  BY <1>1, <1>3 DEF PageParts, Cache, Written
<1> QED  BY <1>5, <1>6, <1>7, <1>8, <1>9 DEF PageParts

LEMMA LoadPage ==
  ASSUME PageParts, flight = {}, NEW saved, LoadDumpFile(saved)
  PROVE  PageParts'
<1> DEFINE d == [f \in EFs |-> Entry(OldDump[f], OldDump[f], "", TRUE)]
<1>1. /\ dumpData' = d /\ orphan' = NoEntry /\ ~popup /\ isOfflineMode' = TRUE /\ btnReadAll' = FALSE
      /\ UNCHANGED <<popup, flight, inserted, live, session, content>>
  BY DEF LoadDumpFile, server
<1>2. ASSUME NEW f \in EFs
      PROVE  IsEntry(d[f])
  BY DEF IsEntry, Entry
<1>3. IsDump(d) /\ d # NoDump
  <2>1. DOMAIN d = EFs /\ DOMAIN NoDump = {}
    BY NoDumpIsEmpty
  <2>2. d # NoDump
    BY <2>1, WebUiAssumption
  <2>3. d = [f \in EFs |-> d[f]]
    OBVIOUS
  <2> HIDE DEF d
  <2> QED  BY <1>2, <2>2, <2>3 DEF IsDump
<1> HIDE DEF d
<1>4. PageShape'
  BY <1>1, <1>3 DEF PageParts, PageShape, IsDump, IsEntry
<1>5. OneAtATime' /\ Answers'
  BY <1>1 DEF OneAtATime, Answers, Loading
<1>6. MayReadAll' /\ Cache'
  BY <1>1, <1>3 DEF MayReadAll, Cache
<1> QED  BY <1>4, <1>5, <1>6 DEF PageParts

\* The server resets the card; the page shows nothing yet.
LEMMA ServeConnectPage ==
  ASSUME PageParts, NEW q \in flight, IsRequest(q), q.kind = "connect", Serve(q)
  PROVE  PageParts'
<1>1. PICK ok \in BOOLEAN : /\ session' = IF ok THEN inserted ELSE NoCard
                            /\ live' = ok
                            /\ flight' = (flight \ {q}) \cup {[q EXCEPT !.served = TRUE, !.ok = ok]}
  BY DEF Serve, ServeConnect
<1>2. PICK m : m = [q EXCEPT !.served = TRUE, !.ok = ok]
  OBVIOUS
<1>3. m.kind = "connect" /\ m.served = TRUE /\ m.ok = ok
  BY <1>2 DEF IsRequest
<1>4. UNCHANGED <<page, buttons, popup, inserted, content>>
  BY DEF Serve, ServeConnect
<1>5. flight = {q} /\ flight' = {m} /\ ~btnAdm
  BY <1>1, <1>2 DEF PageParts, OneAtATime
<1>6. dumpData = NoDump /\ ~btnReadAll
  BY DEF PageParts, OneAtATime, Loading, Loads
<1>7. PageShape'
  BY <1>1, <1>4 DEF PageParts, PageShape, page, IsDump, IsEntry
<1>8. OneAtATime' /\ MayReadAll'
  BY <1>3, <1>4, <1>5, <1>6 DEF OneAtATime, MayReadAll, Loading, Loads, Job, page, buttons
<1>9. Answers'
  BY <1>1, <1>3, <1>5 DEF Answers, Written
<1>10. Cache'
  BY <1>4, <1>6, NoDumpIsEmpty DEF Cache, page
<1> QED  BY <1>7, <1>8, <1>9, <1>10 DEF PageParts

\* What the server makes of any other request.
Makes(q, m) ==
  /\ flight' = (flight \ {q}) \cup {m}
  /\ m.kind = q.kind /\ m.paths = q.paths /\ m.key = q.key /\ m.value = q.value /\ m.served = TRUE
  /\ q.kind = "dump" /\ m.ok => \E keys : m.files = [g \in EFs |-> DumpEntry(g, keys)]
  /\ q.kind = "read" => m.files = NoDump \/ \E keys : m.files = ReadResults(q, keys)
  /\ q.kind = "write" /\ m.ok => live
  /\ content' = IF q.kind = "write" /\ m.ok THEN [content EXCEPT ![session][selectedPath] = q.value]
                ELSE content

LEMMA Making ==
  ASSUME PageParts, NEW q \in flight, IsRequest(q), q.kind # "connect", Serve(q)
  PROVE  \E m : Makes(q, m)
<1> DEFINE fits  == q.key # NoKey /\ live /\ q.key[2] = session
           keys  == IF fits THEN granted \cup {q.key[1]} ELSE granted
           f     == CHOOSE g \in q.paths : TRUE
           done  == CASE q.kind = "verify" -> fits
                      [] q.kind = "write"  -> /\ live /\ Opens(WriteCond[f], keys)
                                              /\ f \in Records <=> f \in q.structs
                      [] q.kind = "dump"   -> live
                      [] OTHER             -> TRUE
           files == CASE ~live              -> NoDump
                      [] q.kind = "dump"    -> [g \in EFs |-> DumpEntry(g, keys)]
                      [] q.kind = "read"    -> ReadResults(q, keys)
                      [] OTHER              -> NoDump
<1>1. /\ flight' = (flight \ {q}) \cup {[q EXCEPT !.served = TRUE, !.ok = done, !.files = files]}
      /\ content' = IF q.kind = "write" /\ done THEN [content EXCEPT ![session][f] = q.value] ELSE content
  BY Zenon DEF Serve, ServeOther
<1>2. q.kind = "write" => f = selectedPath
  BY DEF PageParts, OneAtATime, Job
<1>3. q.kind \in {"write", "dump"} /\ done => live
  OBVIOUS
<1>4. q.kind = "dump" /\ done => files = [g \in EFs |-> DumpEntry(g, keys)]
  BY <1>3
<1>5. q.kind = "read" => files = NoDump \/ files = ReadResults(q, keys)
  OBVIOUS
<1> HIDE DEF done, files, keys, f
<1>6. PICK m : m = [q EXCEPT !.served = TRUE, !.ok = done, !.files = files]
  OBVIOUS
<1>7. m = [id |-> q.id, kind |-> q.kind, paths |-> q.paths, structs |-> q.structs, value |-> q.value,
           key |-> q.key, served |-> TRUE, ok |-> done, files |-> files]
  BY <1>6 DEF IsRequest
<1>8. /\ m.kind = q.kind /\ m.paths = q.paths /\ m.key = q.key /\ m.value = q.value /\ m.served = TRUE
      /\ m.ok = done /\ m.files = files
  BY <1>7
<1>9. flight' = (flight \ {q}) \cup {m}
  BY <1>1, <1>6
<1> QED  BY <1>1, <1>2, <1>3, <1>4, <1>5, <1>8, <1>9 DEF Makes

LEMMA DumpIsTrue ==
  ASSUME NEW keys, NEW d, d = [g \in EFs |-> DumpEntry(g, keys)]
  PROVE  IsDump(d) /\ d # NoDump /\ True(d)
<1>1. d # NoDump
  BY NoDumpIsEmpty, WebUiAssumption
<1>2. \A g \in EFs : IsEntry(d[g]) /\ d[g].bytes \in {NoValue, content[session][g]}
  BY EntryIsTrue
<1> QED  BY <1>1, <1>2 DEF IsDump, True

LEMMA ReadIsTrue ==
  ASSUME NEW q, NEW d, d = NoDump \/ \E keys : d = ReadResults(q, keys)
  PROVE  True(d)
<1>1. CASE d = NoDump
  BY <1>1, NoDumpIsEmpty DEF True
<1>2. CASE \E keys : d = ReadResults(q, keys)
  BY <1>2, EntryIsTrue DEF True, ReadResults
<1> QED  BY <1>1, <1>2

LEMMA ServeOtherPage ==
  ASSUME PageParts, NEW q \in flight, IsRequest(q), q.kind # "connect", Serve(q)
  PROVE  PageParts'
<1>1. PICK m : Makes(q, m)
  BY Making
<1>2. UNCHANGED <<page, buttons, popup, session, live, inserted>> /\ ~q.served
  BY DEF Serve, ServeOther
<1>3. CASE ~(q.kind = "write" /\ m.ok)
  <2>1. content' = content
    BY <1>1, <1>3 DEF Makes
  <2>2. ASSUME NEW d, True(d)
        PROVE  True(d)'
    BY <1>2, <2>1, <2>2 DEF True
  <2>3. PageShape'
    BY <1>2, <2>1 DEF PageParts, PageShape, page, IsDump, IsEntry
  <2>4. OneAtATime'
    BY <1>1, <1>2 DEF PageParts, OneAtATime, Makes, Loading, Loads, Job, page, buttons
  <2>5. MayReadAll'
    BY <1>1, <1>2 DEF PageParts, MayReadAll, Makes, Loading, Loads, page, buttons
  <2>6. m.kind = "dump" /\ m.ok => IsDump(m.files) /\ m.files # NoDump /\ True(m.files)'
    BY <1>1, <2>2, DumpIsTrue DEF Makes
  <2>7. m.kind = "read" => True(m.files)'
    BY <1>1, <2>2, ReadIsTrue DEF Makes
  <2>8. ASSUME NEW x \in flight', x # m
        PROVE  /\ x.kind = "verify" => x.key[1] \in Keys
               /\ x.served =>
                    /\ x.kind = "connect" /\ ~x.ok => session = NoCard
                    /\ x.kind = "dump" /\ x.ok => IsDump(x.files) /\ x.files # NoDump /\ True(x.files)'
                    /\ x.kind = "read" => True(x.files)'
                    /\ Written(x) => content[session][selectedPath] = x.value
    BY <1>1, <2>2, <2>8 DEF PageParts, Answers, Makes
  <2>9. m.kind = "verify" => m.key[1] \in Keys
    BY <1>1 DEF PageParts, Answers, Makes
  <2>10. Answers'
    <3> SUFFICES ASSUME NEW x \in flight'
                 PROVE  /\ x.kind = "verify" => x.key[1] \in Keys
                        /\ x.served =>
                             /\ x.kind = "connect" /\ ~x.ok => session' = NoCard
                             /\ x.kind = "dump" /\ x.ok =>
                                  IsDump(x.files) /\ x.files # NoDump /\ True(x.files)'
                             /\ x.kind = "read" => True(x.files)'
                             /\ Written(x) => content'[session'][selectedPath'] = x.value
      BY DEF Answers, IsDump, IsEntry, Written
    <3>1. CASE x = m
      BY <1>1, <1>3, <2>6, <2>7, <2>9, <3>1 DEF Makes, Written
    <3>2. CASE x # m
      BY <1>2, <2>1, <2>8, <3>2 DEF page
    <3> QED  BY <3>1, <3>2
  <2>11. Cache'
    BY <1>1, <1>2, <2>1 DEF PageParts, Cache, Makes, Written, page
  <2> QED  BY <2>3, <2>4, <2>5, <2>10, <2>11 DEF PageParts
<1>4. CASE q.kind = "write" /\ m.ok
  <2>1. /\ live /\ session \in Cards /\ selectedPath \in EFs
        /\ content' = [content EXCEPT ![session][selectedPath] = q.value]
    BY <1>1, <1>4 DEF PageParts, PageShape, OneAtATime, Job, Makes
  <2>2. content = [c \in Cards |-> [f \in EFs |-> content[c][f]]]
    BY DEF PageParts, PageShape
  <2>3. /\ content' = [c \in Cards |-> [f \in EFs |-> content'[c][f]]]
        /\ content'[session][selectedPath] = q.value
        /\ \A f \in EFs : f # selectedPath => content'[session][f] = content[session][f]
    BY <2>1, <2>2
  <2>4. PageShape'
    BY <1>2, <2>3 DEF PageParts, PageShape, page, IsDump, IsEntry
  <2>5. OneAtATime'
    BY <1>1, <1>2 DEF PageParts, OneAtATime, Makes, Loading, Loads, Job, page, buttons
  <2>6. MayReadAll'
    BY <1>1, <1>2 DEF PageParts, MayReadAll, Makes, Loading, Loads, page, buttons
  <2>7. \A x \in flight' : x # m => x \in flight /\ ~Job(x) /\ ~Loads(x)
    BY <1>1, <1>4 DEF PageParts, OneAtATime, Makes, Loading, Job
  <2>8. Answers'
    BY <1>1, <1>2, <1>4, <2>3, <2>7 DEF PageParts, Answers, Makes, Written, Job, Loads, page
  <2>9. Written(m) /\ m \in flight'
    BY <1>1, <1>4 DEF Makes, Written
  <2>10. \A f \in DOMAIN dumpData : f \in EFs
    BY NoDumpIsEmpty DEF PageParts, PageShape
  <2>11. Cache'
    BY <1>2, <2>3, <2>9, <2>10 DEF PageParts, Cache, Written, page
  <2> QED  BY <2>4, <2>5, <2>6, <2>8, <2>11 DEF PageParts
<1> QED  BY <1>3, <1>4

\* The answers.
LEMMA ConnectAnswerPage ==
  ASSUME PageParts, NEW q \in flight, ConnectAnswer(q)
  PROVE  PageParts'
<1>1. /\ q.kind = "connect" /\ q.served /\ flight' = flight \ {q}
      /\ UNCHANGED <<page, popup, inserted, live, session, content>>
      /\ q.ok => btnReadAll' = TRUE
      /\ ~q.ok => btnReadAll' = btnReadAll
  BY DEF ConnectAnswer, Answered, server
<1>2. flight' = {}
  BY <1>1 DEF PageParts, OneAtATime
<1>3. dumpData = NoDump
  BY <1>1 DEF PageParts, OneAtATime, Loading, Loads
<1>4. PageShape'
  BY <1>1 DEF PageParts, PageShape, page, IsDump, IsEntry
<1>5. OneAtATime' /\ Answers'
  BY <1>1, <1>2, <1>3 DEF OneAtATime, Answers, Loading, page
<1>6. MayReadAll'
  BY <1>1, <1>2 DEF PageParts, MayReadAll, Answers, Loading
<1>7. Cache'
  BY <1>1, <1>3, NoDumpIsEmpty DEF Cache, page
<1> QED  BY <1>4, <1>5, <1>6, <1>7 DEF PageParts

\* A request that is neither a load nor a job is answered: what the rest of the
\* page relies on stays.
LEMMA AnswerTaken ==
  ASSUME PageParts, NEW q \in flight, flight' = flight \ {q},
         UNCHANGED <<selectedPath, session, content>>
  PROVE  Answers'
  BY DEF PageParts, Answers, IsDump, True, Written, IsEntry

LEMMA VerifyAnswerPage ==
  ASSUME PageParts, NEW q \in flight, VerifyAnswer(q)
  PROVE  PageParts'
<1>1. /\ q.kind = "verify" /\ q.served
      /\ UNCHANGED <<dumpData, selectedPath, orphan, isOfflineMode, btnReadAll, btnAdm, popup,
                     inserted, live, session, content>>
  BY DEF VerifyAnswer, server
<1>2. flight' = flight \ {q}
  <2>1. CASE q.ok
    <3>1. AutoRead(q, q.key[1], q.key, dumpData) /\ q.key[1] \in Keys /\ IsDump(dumpData)
      BY <1>1, <2>1 DEF VerifyAnswer, PageParts, Answers, PageShape
    <3> QED  BY <3>1, NothingToRead
  <2>2. CASE ~q.ok
    BY <2>2 DEF VerifyAnswer, Answered
  <2> QED  BY <2>1, <2>2
<1>3. PageShape'
  BY <1>1 DEF PageParts, PageShape, IsDump, IsEntry
<1>4. OneAtATime'
  BY <1>1, <1>2 DEF PageParts, OneAtATime, Loading, Loads, Job
<1>5. MayReadAll'
  BY <1>1, <1>2 DEF PageParts, MayReadAll, Loading, Loads
<1>6. Cache'
  BY <1>1, <1>2 DEF PageParts, Cache, Written
<1>7. Answers'
  BY <1>1, <1>2, AnswerTaken
<1> QED  BY <1>3, <1>4, <1>5, <1>6, <1>7 DEF PageParts

LEMMA ReadAllAnswerPage ==
  ASSUME PageParts, NEW q \in flight, ReadAllAnswer(q)
  PROVE  PageParts'
<1>1. /\ q.kind = "dump" /\ q.served /\ btnReadAll' = ~q.ok
      /\ IF q.ok THEN dumpData' = q.files /\ orphan' = selectedFd ELSE UNCHANGED <<dumpData, orphan>>
      /\ UNCHANGED <<selectedPath, isOfflineMode, btnAdm, popup, inserted, live, session, content>>
  BY DEF ReadAllAnswer, server
<1>2. /\ dumpData = NoDump
      /\ \A x \in flight : ~Job(x) /\ (Loads(x) => x = q) /\ x.kind # "connect"
  BY <1>1 DEF PageParts, OneAtATime, Loading, Loads
<1>3. selectedFd = NoEntry /\ ~popup
  BY <1>2, TheSelected, NoDumpIsEmpty DEF PageParts, PageShape
<1>4. q.ok => IsDump(q.files) /\ q.files # NoDump /\ True(q.files)
  BY <1>1 DEF PageParts, Answers
<1>5. flight' = flight \ {q}
  <2>1. CASE \E k \in Keys : q.ok /\ AutoRead(q, k, <<k, admKeys[k]>>, q.files)
    BY <1>4, <2>1, NothingToRead
  <2>2. CASE Answered(q)
    BY <2>2 DEF Answered
  <2> QED  BY <2>1, <2>2, Zenon DEF ReadAllAnswer
<1>6. PageShape'
  BY <1>1, <1>3, <1>4 DEF PageParts, PageShape, IsDump, IsEntry
<1>7. OneAtATime' /\ MayReadAll'
  <2>1. \A x \in flight' : ~Job(x) /\ ~Loads(x)
    BY <1>2, <1>5
  <2>2. btnReadAll' => dumpData' = NoDump
    BY <1>1, <1>2
  <2>3. ~btnReadAll' => dumpData' # NoDump
    BY <1>1, <1>4
  <2> QED  BY <2>1, <2>2, <2>3 DEF OneAtATime, MayReadAll, Loading, Loads, Job
<1>8. Cache'
  BY <1>1, <1>2, <1>4, NoDumpIsEmpty DEF Cache, True
<1>9. Answers'
  BY <1>1, <1>5, AnswerTaken
<1> QED  BY <1>6, <1>7, <1>8, <1>9 DEF PageParts

\* An assignment to the bytes of the selected entry.
LEMMA SetBytes ==
  ASSUME PageParts, NEW fd, IsEntry(fd), selectedFd # NoEntry, SetSelectedFd(fd)
  PROVE  /\ selectedPath \in DOMAIN dumpData
         /\ orphan' = NoEntry /\ IsDump(dumpData')
         /\ DOMAIN dumpData' = DOMAIN dumpData
         /\ dumpData'[selectedPath] = fd
         /\ \A f \in DOMAIN dumpData : f # selectedPath => dumpData'[f] = dumpData[f]
<1>1. selectedPath \in DOMAIN dumpData /\ orphan = NoEntry /\ IsDump(dumpData)
  BY TheSelected DEF PageParts, PageShape
<1>2. dumpData' = [dumpData EXCEPT ![selectedPath] = fd] /\ UNCHANGED orphan
  BY <1>1 DEF SetSelectedFd
<1>3. dumpData = [f \in EFs |-> dumpData[f]] /\ \A f \in EFs : IsEntry(dumpData[f])
  BY <1>1, NoDumpIsEmpty DEF IsDump
<1>4. /\ dumpData' = [f \in EFs |-> dumpData'[f]]
      /\ \A f \in EFs : dumpData'[f] = IF f = selectedPath THEN fd ELSE dumpData[f]
  BY <1>2, <1>3
<1> QED  BY <1>1, <1>2, <1>3, <1>4 DEF IsDump

LEMMA SelectedIsEntry ==
  ASSUME PageParts
  PROVE  IsEntry(selectedFd)
  BY TheSelected, NoDumpIsEmpty, NoEntryShape DEF PageParts, PageShape, IsDump

LEMMA EntryKept ==
  ASSUME NEW e, IsEntry(e), NEW b, NEW c
  PROVE  /\ IsEntry([e EXCEPT !.bytes = b]) /\ [e EXCEPT !.bytes = b].bytes = b
         /\ IsEntry([e EXCEPT !.bytes = b, !.body = c]) /\ [e EXCEPT !.bytes = b, !.body = c].bytes = b
<1>1. e = [bytes |-> e.bytes, body |-> e.body, error |-> e.error, fcp |-> e.fcp]
  BY DEF IsEntry, Entry
<1>2. PICK x : x = [e EXCEPT !.bytes = b]
  OBVIOUS
<1>3. x = [bytes |-> b, body |-> e.body, error |-> e.error, fcp |-> e.fcp]
  BY <1>1, <1>2
<1>4. PICK y : y = [e EXCEPT !.bytes = b, !.body = c]
  OBVIOUS
<1>5. y = [bytes |-> b, body |-> c, error |-> e.error, fcp |-> e.fcp]
  BY <1>1, <1>4
<1>6. IsEntry(x) /\ x.bytes = b
  <2>1. x.bytes = b /\ x.body = e.body /\ x.error = e.error /\ x.fcp = e.fcp
    BY <1>3
  <2> QED  BY <1>3, <2>1 DEF IsEntry, Entry
<1>7. IsEntry(y) /\ y.bytes = b
  <2>1. y.bytes = b /\ y.body = c /\ y.error = e.error /\ y.fcp = e.fcp
    BY <1>5
  <2> QED  BY <1>5, <2>1 DEF IsEntry, Entry
<1> QED  BY <1>2, <1>4, <1>6, <1>7

LEMMA WriteAnswerPage ==
  ASSUME PageParts, NEW q \in flight, WriteAnswer(q)
  PROVE  PageParts'
<1>1. /\ q.kind = "write" /\ q.served /\ Job(q)
      /\ UNCHANGED <<selectedPath, isOfflineMode, btnReadAll, btnAdm, popup, inserted, live, session, content>>
  BY DEF WriteAnswer, server, buttons, Job
<1>2. /\ selectedPath \in EFs /\ ~Loading
      /\ \A x \in flight : x # q => ~Job(x) /\ ~Loads(x)
  BY <1>1 DEF PageParts, OneAtATime, Loading
<1>3. \A x \in flight \ {q} : ~Written(x)
  BY <1>2 DEF Written, Job
<1>4. CASE q.ok /\ selectedFd # NoEntry
  <2>1. PICK fd : fd = [selectedFd EXCEPT !.bytes = q.value]
    OBVIOUS
  <2>2. IsEntry(fd) /\ fd.bytes = q.value /\ SetSelectedFd(fd)
    BY <1>4, <2>1, SelectedIsEntry, EntryKept DEF WriteAnswer
  <2>3. content[session][selectedPath] = q.value
    BY <1>1, <1>4 DEF PageParts, Answers, Written
  <2>4. /\ selectedPath \in DOMAIN dumpData /\ orphan' = NoEntry /\ IsDump(dumpData')
        /\ DOMAIN dumpData' = DOMAIN dumpData /\ dumpData'[selectedPath] = fd
        /\ \A f \in DOMAIN dumpData : f # selectedPath => dumpData'[f] = dumpData[f]
    BY <1>4, <2>2, SetBytes
  <2>5. flight' # flight \ {q} => Sends(flight \ {q}, "read", {selectedPath}, q.key)
    BY ReadingAgain
  <2> DEFINE Joins(ms) == /\ flight' = (flight \ {q}) \cup ms
                          /\ \A x, y \in ms : x = y
                          /\ \A x \in ms : x.kind = "read" /\ x.paths = {selectedPath} /\ x.served = FALSE
  <2>6. PICK ms : Joins(ms)
    <3>1. CASE flight' = flight \ {q}
      <4>1. Joins({})
        BY <3>1
      <4> HIDE DEF Joins
      <4> QED  BY <4>1
    <3>2. CASE Sends(flight \ {q}, "read", {selectedPath}, q.key)
      <4>1. PICK m : /\ flight' = (flight \ {q}) \cup {m} /\ m.kind = "read" /\ m.paths = {selectedPath}
                     /\ m.served = FALSE
        BY <3>2 DEF Sends
      <4>2. Joins({m})
        BY <4>1
      <4> HIDE DEF Joins
      <4> QED  BY <4>2
    <3> QED  BY <2>5, <3>1, <3>2
  <2>7. PageShape'
    BY <1>1, <2>4 DEF PageParts, PageShape, IsDump, IsEntry
  <2>8. \A x \in flight' : ~Loads(x)
    BY <1>1, <1>2, <2>6 DEF Loads, Job
  <2>9. ~Loading'
    BY <1>1, <1>2, <2>8 DEF Loading, Loads
  <2>10. \A x, y \in flight' : Job(x) /\ Job(y) => x = y
    BY <1>2, <2>6
  <2>11. OneAtATime'
    BY <1>1, <1>2, <2>6, <2>8, <2>9, <2>10 DEF OneAtATime, Loads, Job
  <2>12. MayReadAll'
    <3>1. dumpData' # NoDump
      BY <2>4, NoDumpIsEmpty
    <3> QED  BY <3>1 DEF MayReadAll
  <2>13. Answers'
    BY <1>1, <2>6 DEF PageParts, Answers, IsDump, True, Written, IsEntry
  <2>14. Cache'
    BY <1>1, <1>3, <2>2, <2>3, <2>4 DEF PageParts, Cache, Written
  <2> QED  BY <2>7, <2>11, <2>12, <2>13, <2>14 DEF PageParts
<1>5. CASE ~(q.ok /\ selectedFd # NoEntry)
  <2>1. flight' = flight \ {q} /\ UNCHANGED <<dumpData, orphan>>
    BY <1>5 DEF WriteAnswer, Answered
  <2>2. PageShape'
    BY <1>1, <2>1 DEF PageParts, PageShape, IsDump, IsEntry
  <2>3. OneAtATime' /\ MayReadAll'
    BY <1>1, <1>2, <2>1 DEF PageParts, OneAtATime, MayReadAll, Loading, Loads, Job
  <2>4. Answers'
    BY <1>1, <2>1, AnswerTaken
  <2>5. selectedPath \in DOMAIN dumpData /\ selectedFd = NoEntry => dumpData[selectedPath].bytes = NoValue
    BY TheSelected, NoEntryShape DEF PageParts
  <2>6. Cache'
    BY <1>1, <1>3, <1>5, <2>1, <2>5 DEF PageParts, Cache, Written
  <2> QED  BY <2>2, <2>3, <2>4, <2>6 DEF PageParts
<1> QED  BY <1>4, <1>5

LEMMA ReadAnswerPage ==
  ASSUME PageParts, NEW q \in flight, ReadAnswer(q)
  PROVE  PageParts'
<1>1. /\ q.kind = "read" /\ q.served /\ Job(q) /\ flight' = flight \ {q}
      /\ UNCHANGED <<selectedPath, isOfflineMode, btnReadAll, btnAdm, popup, inserted, live, session, content>>
  BY DEF ReadAnswer, Answered, server, buttons, Job
<1>2. ~Loading /\ \A x \in flight : x # q => ~Job(x) /\ ~Loads(x)
  BY <1>1 DEF PageParts, OneAtATime, Loading
<1>3. \A x \in flight : ~Written(x)
  BY <1>1, <1>2 DEF Written, Job
<1>4. Answers'
  BY <1>1, AnswerTaken
<1>5. CASE selectedPath \in DOMAIN q.files /\ selectedFd # NoEntry
  <2>1. PICK fd : fd = [selectedFd EXCEPT !.bytes = q.files[selectedPath].bytes,
                                          !.body = q.files[selectedPath].body]
    OBVIOUS
  <2>2. IsEntry(fd) /\ fd.bytes = q.files[selectedPath].bytes /\ SetSelectedFd(fd)
    <3>1. SetSelectedFd(fd)
      BY <1>5, <2>1 DEF ReadAnswer
    <3>2. PICK b, c : b = q.files[selectedPath].bytes /\ c = q.files[selectedPath].body
      OBVIOUS
    <3>3. fd = [selectedFd EXCEPT !.bytes = b, !.body = c]
      BY <2>1, <3>2
    <3>4. IsEntry(fd) /\ fd.bytes = b
      BY <3>3, SelectedIsEntry, EntryKept, ZenonT(40)
    <3> QED  BY <3>1, <3>2, <3>4
  <2>3. q.files[selectedPath].bytes \in {NoValue, content[session][selectedPath]}
    BY <1>1, <1>5 DEF PageParts, Answers, True
  <2>4. /\ selectedPath \in DOMAIN dumpData /\ orphan' = NoEntry /\ IsDump(dumpData')
        /\ DOMAIN dumpData' = DOMAIN dumpData /\ dumpData'[selectedPath] = fd
        /\ \A f \in DOMAIN dumpData : f # selectedPath => dumpData'[f] = dumpData[f]
    BY <1>5, <2>2, SetBytes
  <2>5. PageShape'
    BY <1>1, <2>4 DEF PageParts, PageShape, IsDump, IsEntry
  <2>6. ~Loading' /\ dumpData' # NoDump
    BY <1>1, <1>2, <2>4, NoDumpIsEmpty DEF Loading, Loads, Job
  <2>7. OneAtATime' /\ MayReadAll'
    BY <1>1, <1>2, <2>6 DEF PageParts, OneAtATime, MayReadAll, Loads, Job
  <2>8. Cache'
    BY <1>1, <1>3, <2>2, <2>3, <2>4 DEF PageParts, Cache, Written
  <2> QED  BY <1>4, <2>5, <2>7, <2>8 DEF PageParts
<1>6. CASE ~(selectedPath \in DOMAIN q.files /\ selectedFd # NoEntry)
  <2>1. UNCHANGED <<dumpData, orphan>>
    BY <1>6 DEF ReadAnswer
  <2>2. PageShape'
    BY <1>1, <2>1 DEF PageParts, PageShape, IsDump, IsEntry
  <2>3. OneAtATime' /\ MayReadAll'
    BY <1>1, <1>2, <2>1 DEF PageParts, OneAtATime, MayReadAll, Loading, Loads, Job
  <2>4. Cache'
    BY <1>1, <1>3, <2>1 DEF PageParts, Cache, Written
  <2> QED  BY <1>4, <2>2, <2>3, <2>4 DEF PageParts
<1> QED  BY <1>5, <1>6

LEMMA PageKept ==
  ASSUME Shape, PageInv, Next
  PROVE  PageInv'
<1> SUFFICES ASSUME calm' PROVE PageParts'
  BY DEF PageInv, PageParts, PageShape, OneAtATime, Answers, Cache, MayReadAll, IsDump, IsEntry, True,
         Loading, Loads, Job, Written
<1>1. CASE ConnectReader
  BY <1>1, ConnectPage DEF ConnectReader, Patient, PageInv
<1>2. CASE ReadAllFiles
  BY <1>2, ReadAllPage DEF ReadAllFiles, PageInv
<1>3. CASE \E k \in Keys, c \in Cards : DoAdmVerify(k, c)
  <2>1. calm
    BY <1>3 DEF DoAdmVerify
  <2> QED  BY <1>3, <2>1, VerifyPage DEF PageInv
<1>4. CASE OpenWritePopup \/ CloseWritePopup \/ \E c \in Cards : Exchange(c)
  <2>1. calm
    BY <1>4 DEF OpenWritePopup, CloseWritePopup, Exchange
  <2> QED  BY <1>4, <2>1, BrowsePage DEF PageInv
<1>5. CASE \E f \in EFs : SelectRow(f)
  <2>1. calm /\ flight = {}
    BY <1>5 DEF SelectRow, Patient
  <2> QED  BY <1>5, <2>1, BrowsePage DEF PageInv
<1>6. CASE \E saved \in [Keys -> BOOLEAN] : LoadDumpFile(saved)
  <2>1. calm /\ flight = {}
    BY <1>6 DEF LoadDumpFile, Patient
  <2> QED  BY <1>6, <2>1, LoadPage DEF PageInv
<1>7. CASE \E v \in NewValues : SubmitWrite(v)
  <2>1. calm /\ flight = {}
    BY <1>7 DEF SubmitWrite, Patient
  <2> QED  BY <1>7, <2>1, SubmitPage DEF PageInv
<1>8. CASE \E q \in flight : Serve(q)
  <2>1. PICK q \in flight : Serve(q)
    BY <1>8
  <2>2. calm /\ IsRequest(q)
    BY <2>1 DEF Serve, Shape
  <2> QED  BY <2>1, <2>2, ServeConnectPage, ServeOtherPage DEF PageInv
<1>9. CASE \E q \in flight : Answer(q)
  <2>1. PICK q \in flight : Answer(q)
    BY <1>9
  <2>2. calm
    BY <2>1 DEF Answer, ConnectAnswer, ReadAllAnswer, VerifyAnswer, WriteAnswer, ReadAnswer
  <2> QED
    BY <2>1, <2>2, ConnectAnswerPage, ReadAllAnswerPage, VerifyAnswerPage, WriteAnswerPage, ReadAnswerPage
       DEF PageInv, Answer
<1> QED  BY <1>1, <1>2, <1>3, <1>4, <1>5, <1>6, <1>7, <1>8, <1>9 DEF Next, User

\* For a user who waits for answers, what the page shows of a file is what the
\* card holds, and a page without a dump lets the user ask for one: whatever
\* cards are exchanged, keys accepted and values written, and however many
\* verifications are under way beside a write or a dump.
\* (index.html: connectReader, readAllFiles, submitWrite, _refreshAfterWrite)
THEOREM PageSafety == Spec => []PageIsRight
<1>1. Init => Shape /\ PageInv
  <2> SUFFICES ASSUME Init PROVE Shape /\ PageParts
    BY DEF PageInv
  <2>1. Shape /\ OneAtATime /\ Answers
    BY DEF Init, Shape, OneAtATime, Answers, Loading
  <2>2. PageShape
    BY WebUiAssumption DEF Init, PageShape, IsDump
  <2>3. Cache /\ MayReadAll
    BY NoDumpIsEmpty DEF Init, Cache, MayReadAll
  <2> QED  BY <2>1, <2>2, <2>3 DEF PageParts
<1>2. Shape /\ PageInv /\ [Next]_vars => (Shape /\ PageInv)'
  <2>1. ASSUME Shape, PageInv, UNCHANGED vars
        PROVE  (Shape /\ PageInv)'
    <3>1. Shape'
      BY <2>1 DEF vars, page, Shape, IsRequest
    <3>2. PageInv'
      BY <2>1 DEF vars, page, buttons, server, PageInv, PageParts, PageShape, OneAtATime, Answers, Cache,
                  MayReadAll, IsDump, IsEntry, True, Loading, Loads, Job, Written
    <3> QED  BY <3>1, <3>2
  <2> QED  BY <2>1, ShapeKept, PageKept
<1>3. Shape /\ PageInv => PageIsRight
  BY DEF PageInv, PageParts, PageIsRight, CacheIsTrue, CanReadAll, Quiet, HasDump, Cache, MayReadAll, Loading
<1> QED  BY <1>1, <1>2, <1>3, PTL DEF Spec
=============================================================================
