------------------------------- MODULE WebUi -------------------------------
(***************************************************************************)
(* templates/index.html: the page's globals, the handlers that read and    *)
(* change them, and the requests they await.  A handler runs to its next   *)
(* await; meanwhile the user may click, and answers come back in any       *)
(* order.  The server serves a request at one moment (see CardServer for   *)
(* what happens inside); the card may be exchanged at any time.            *)
(*                                                                         *)
(* selectedFd is a reference: to the dump's own entry of the selected path *)
(* or, once another dump has taken dumpData's place, to an entry nobody    *)
(* else refers to any more (`orphan`).  Reading a local file takes no time *)
(* here, every FCP names its access rule, a write is done or refused as a  *)
(* whole (BinaryIO), and BER-TLV writes are left out: they fail            *)
(* (CardServer).                                                           *)
(***************************************************************************)
EXTENDS Naturals, FiniteSets

CONSTANTS
  Cards, NoCard, \* the cards the user has
  EFs, NoFile,
  Keys,         \* the types of ADM key
  ReadCond,     \* ReadCond[f]: "always", "never" or a key, by the file's ARR record
  WriteCond,    \* the same of updates
  Records,      \* the record files; the others are transparent
  Contents,     \* Contents[c]: what card c holds to begin with
  NewValues,    \* what the user may write
  NoValue,
  OldDump,      \* a dump saved earlier: what each file held then
  MaxRequests,  \* bound: how many requests the page sends
  MaxFlight     \* bound: how many of them at a time

\* "unknown" is what the page has for a condition it cannot find out
ASSUME WebUiAssumption ==
  /\ EFs # {} /\ "unknown" \notin Keys
  /\ Contents = [c \in Cards |-> [f \in EFs |-> Contents[c][f]]]

VARIABLES
  \* the page
  dumpData,      \* entries by path, or NoDump
  selectedPath,
  orphan,        \* the entry selectedFd refers to if it is not dumpData's
  admVerified, admKeys,
  isOfflineMode,
  btnReadAll, btnAdm, btnWrite,  \* whether they are enabled
  popup,         \* the write popup, which covers the page, is open
  \* requests
  flight,        \* those sent and not answered
  sent,          \* how many have been
  \* the server and the card (module CardServer; external)
  session,       \* the card of the published session
  live,          \* its link still reaches it
  granted,       \* the keys the card has accepted since it was reset
  inserted,      \* the card in the reader
  content,       \* content[c]: that of its files
  \* history
  calm,          \* the user has waited for answers (see Patient)
  misKeyed       \* a stored key was presented to a card that had not accepted it

page    == <<dumpData, selectedPath, orphan, admVerified, admKeys, isOfflineMode>>
buttons == <<btnReadAll, btnAdm, btnWrite>>
server  == <<session, live, granted, inserted, content, misKeyed>>
vars    == <<page, buttons, popup, flight, sent, server, calm>>

\* An entry is what the dump says of a file: the raw bytes, their decoding,
\* the status word of a failed read, and whether the FCP is there.
Entry(bytes, body, error, fcp) == [bytes |-> bytes, body |-> body, error |-> error, fcp |-> fcp]
NoEntry == Entry(NoValue, NoValue, "", FALSE)
NoDump  == [f \in {} |-> NoEntry]
HasDump == dumpData # NoDump

\* A request: its number and kind, the files it names, those of them it calls
\* record files, the value to write, and the key to present before, with the
\* card whose key it is.  The rest is the answer, once it was served.
NoKey == <<>>
Blank == [id |-> 0, kind |-> "none", paths |-> {}, structs |-> {}, value |-> NoValue, key |-> NoKey,
          served |-> FALSE, ok |-> FALSE, files |-> NoDump]

Init ==
  /\ dumpData = NoDump /\ selectedPath = NoFile /\ orphan = NoEntry
  /\ admVerified = [k \in Keys |-> FALSE] /\ admKeys = [k \in Keys |-> NoCard]
  /\ isOfflineMode = FALSE
  /\ btnReadAll = FALSE /\ btnAdm = FALSE /\ btnWrite = FALSE /\ popup = FALSE
  /\ flight = {} /\ sent = 0
  /\ session = NoCard /\ live = FALSE /\ granted = {} /\ inserted \in Cards
  /\ content = Contents /\ calm = TRUE /\ misKeyed = FALSE
-----------------------------------------------------------------------------
(* What the page knows of a file.                                          *)

\* getArrCondition: the condition in the ARR record that the FCP refers to; an
\* entry without an FCP has none
ArrCondition(cond, f, d) == IF f \in DOMAIN d /\ d[f].fcp THEN cond[f] ELSE "unknown"

\* isAdmSatisfied
AdmSatisfied(c, verified) == c \in Keys => verified[c]

\* Mutant: the button is enabled offline as well.
WriteEnabled_Offline(f, fd, d, verified, offline) ==
  LET c == ArrCondition(WriteCond, f, d)
  IN  fd.error # "6982" /\ c # "never" /\ AdmSatisfied(c, verified)

\* updateDetailButtons: is Write visible and enabled?
WriteEnabled(f, fd, d, verified, offline) ==
  LET c == ArrCondition(WriteCond, f, d)
  IN  fd.error # "6982" /\ ~offline /\ c # "never" /\ AdmSatisfied(c, verified)

\* _getVerifiedAdm, _getVerifiedAdmType: the key the selected file asks for,
\* else any that was verified; one restored from a dump has no value
VerifiedAdm ==
  LET c == ArrCondition(WriteCond, selectedPath, dumpData)
      known == {k \in Keys : admVerified[k]}
      best == IF c \in known THEN {c} ELSE known
  IN  IF best = {} THEN {NoKey}
      ELSE {IF admKeys[k] = NoCard THEN NoKey ELSE <<k, admKeys[k]>> : k \in best}

selectedFd == IF orphan # NoEntry \/ selectedPath \notin DOMAIN dumpData THEN orphan
              ELSE dumpData[selectedPath]

\* an assignment through selectedFd
SetSelectedFd(fd) ==
  IF orphan # NoEntry THEN orphan' = fd /\ UNCHANGED dumpData
  ELSE dumpData' = [dumpData EXCEPT ![selectedPath] = fd] /\ UNCHANGED orphan

\* autoRead6982Files: the files a key just verified makes readable
AutoReadPaths(k, d) == {f \in DOMAIN d : d[f].error = "6982" /\ ArrCondition(ReadCond, f, d) = k}
-----------------------------------------------------------------------------
(* The server.                                                             *)

\* `others` are the requests that stay under way
SendBeside(others, q) ==
  /\ sent < MaxRequests /\ sent' = sent + 1 /\ Cardinality(others) < MaxFlight
  /\ LET id == CHOOSE i \in 1..MaxFlight : \A r \in others : r.id # i
     IN  flight' = others \cup {[q EXCEPT !.id = id]}

Send(q) == SendBeside(flight, q)

Opens(cond, keys) == cond = "always" \/ cond \in keys

\* read_all: _dump_single_file reports a transparent file that may not be read
\* without its FCP; _read_records_raw_dec ends a list at the first refusal
DumpEntry(f, keys) ==
  IF Opens(ReadCond[f], keys) THEN Entry(content[session][f], content[session][f], "", TRUE)
  ELSE IF f \in Records THEN Entry(NoValue, NoValue, "", TRUE)
  ELSE Entry(NoValue, NoValue, "6982", FALSE)

\* read_ef: the files it could read
ReadResults(q, keys) ==
  [f \in {g \in q.paths : /\ g \in Records <=> g \in q.structs
                          /\ g \in Records \/ Opens(ReadCond[g], keys)} |->
     DumpEntry(f, keys)]

\* connect: the card is reset; a reader without a working card fails
ServeConnect(q) ==
  /\ \E ok \in BOOLEAN :
       /\ session' = IF ok THEN inserted ELSE NoCard
       /\ live' = ok
       /\ flight' = (flight \ {q}) \cup {[q EXCEPT !.served = TRUE, !.ok = ok]}
  /\ granted' = {}
  /\ UNCHANGED <<inserted, content, misKeyed>>

\* the others: present the key if there is one, whatever comes of it, and go on
ServeOther(q) ==
  LET fits == q.key # NoKey /\ live /\ q.key[2] = session
      keys == IF fits THEN granted \cup {q.key[1]} ELSE granted
      f    == CHOOSE g \in q.paths : TRUE
      done == CASE q.kind = "verify" -> fits
                [] q.kind = "write"  -> live /\ Opens(WriteCond[f], keys) /\ (f \in Records <=> f \in q.structs)
                [] q.kind = "dump"   -> live
                [] OTHER             -> TRUE
      files == CASE ~live              -> NoDump
                 [] q.kind = "dump"    -> [g \in EFs |-> DumpEntry(g, keys)]
                 [] q.kind = "read"    -> ReadResults(q, keys)
                 [] OTHER              -> NoDump
  IN  /\ granted' = keys
      /\ misKeyed' = (misKeyed \/ (q.key # NoKey /\ live /\ ~fits /\ q.kind # "verify"))
      /\ content' = IF q.kind = "write" /\ done THEN [content EXCEPT ![session][f] = q.value] ELSE content
      /\ flight' = (flight \ {q}) \cup {[q EXCEPT !.served = TRUE, !.ok = done, !.files = files]}
      /\ UNCHANGED <<session, live, inserted>>

Serve(q) ==
  /\ ~q.served
  /\ IF q.kind = "connect" THEN ServeConnect(q) ELSE ServeOther(q)
  /\ UNCHANGED <<page, buttons, popup, sent, calm>>

\* the card is taken out, and one put in: the link is gone until a connect
Exchange(c) ==
  /\ inserted' = c /\ live' = FALSE
  /\ UNCHANGED <<page, buttons, popup, flight, sent, session, granted, content, misKeyed, calm>>
-----------------------------------------------------------------------------
(* The user.                                                               *)

\* A patient user waits for the page before going somewhere else.
Patient == calm' = (calm /\ flight = {})

\* Mutant: the keys survive a reconnect.
ConnectReader_KeepsKeys ==
  /\ ~popup
  /\ dumpData' = NoDump /\ selectedPath' = NoFile /\ orphan' = NoEntry /\ isOfflineMode' = FALSE
  /\ btnReadAll' = FALSE /\ btnAdm' = FALSE /\ btnWrite' = FALSE
  /\ Send([Blank EXCEPT !.kind = "connect"])
  /\ Patient /\ UNCHANGED <<admVerified, admKeys, popup, server>>

ConnectReader ==
  /\ ~popup
  /\ dumpData' = NoDump /\ selectedPath' = NoFile /\ orphan' = NoEntry /\ isOfflineMode' = FALSE
  /\ admVerified' = [k \in Keys |-> FALSE] /\ admKeys' = [k \in Keys |-> NoCard]
  /\ btnReadAll' = FALSE /\ btnAdm' = FALSE /\ btnWrite' = FALSE
  /\ Send([Blank EXCEPT !.kind = "connect"])
  /\ Patient /\ UNCHANGED <<popup, server>>

ReadAllFiles ==
  /\ ~popup /\ btnReadAll
  /\ btnReadAll' = FALSE
  /\ Send([Blank EXCEPT !.kind = "dump"])
  /\ UNCHANGED <<page, btnAdm, btnWrite, popup, server, calm>>

\* the user types the key of one of the cards
DoAdmVerify(k, c) ==
  /\ ~popup /\ btnAdm /\ ~admVerified[k]
  /\ Send([Blank EXCEPT !.kind = "verify", !.key = <<k, c>>])
  /\ UNCHANGED <<page, buttons, popup, server, calm>>

\* a click on a row of the list
SelectRow(f) ==
  /\ ~popup /\ f \in DOMAIN dumpData
  /\ selectedPath' = f /\ orphan' = NoEntry
  /\ btnWrite' = WriteEnabled(f, dumpData[f], dumpData, admVerified, isOfflineMode)
  /\ Patient
  /\ UNCHANGED <<dumpData, admVerified, admKeys, isOfflineMode, btnReadAll, btnAdm, popup, flight, sent, server>>

\* the dump saved earlier, with the keys verified then
LoadDumpFile(saved) ==
  /\ ~popup
  /\ dumpData' = [f \in EFs |-> Entry(OldDump[f], OldDump[f], "", TRUE)]
  /\ selectedPath' = NoFile /\ orphan' = NoEntry
  /\ admVerified' = saved /\ admKeys' = [k \in Keys |-> NoCard]
  /\ isOfflineMode' = TRUE
  /\ btnReadAll' = FALSE /\ btnAdm' = FALSE /\ btnWrite' = FALSE
  /\ Patient /\ UNCHANGED <<popup, flight, sent, server>>

OpenWritePopup ==
  /\ ~popup /\ btnWrite /\ selectedFd # NoEntry
  /\ popup' = TRUE
  /\ UNCHANGED <<page, buttons, flight, sent, server, calm>>

CloseWritePopup ==
  /\ popup /\ popup' = FALSE
  /\ UNCHANGED <<page, buttons, flight, sent, server, calm>>

Struct(f, fd) == IF fd.fcp /\ f \in Records THEN {f} ELSE {}

SubmitWrite(v) ==
  /\ popup /\ v # selectedFd.bytes
  /\ \E key \in VerifiedAdm :
       Send([Blank EXCEPT !.kind = "write", !.paths = {selectedPath}, !.key = key, !.value = v,
                          !.structs = Struct(selectedPath, selectedFd)])
  /\ Patient /\ UNCHANGED <<page, buttons, popup, server>>
-----------------------------------------------------------------------------
(* Answers: the rest of each handler after its await.                      *)

Answered(q) == flight' = flight \ {q} /\ UNCHANGED sent

\* the handler awaits another answer
AndSend(q, r) == SendBeside(flight \ {q}, r)

\* as DumpEntry shows, an entry of status 6982 has no FCP to ask for a condition:
\* nothing is ever found here, and one key stands for readAllFiles' loop over them
AutoRead(q, k, key, d) ==
  LET fs == AutoReadPaths(k, d)
  IN  IF fs = {} THEN Answered(q)
      ELSE AndSend(q, [Blank EXCEPT !.kind = "read", !.paths = fs, !.key = key,
                                    !.structs = UNION {Struct(f, d[f]) : f \in fs}])

ConnectAnswer(q) ==
  /\ q.kind = "connect" /\ q.served
  /\ IF q.ok THEN btnReadAll' = TRUE /\ btnAdm' = TRUE ELSE UNCHANGED <<btnReadAll, btnAdm>>
  /\ Answered(q)
  /\ UNCHANGED <<page, btnWrite, popup, server, calm>>

\* the new dump takes the place of the last; the selection stays
ReadAllAnswer(q) ==
  /\ q.kind = "dump" /\ q.served
  /\ btnReadAll' = ~q.ok
  /\ IF q.ok THEN dumpData' = q.files /\ orphan' = selectedFd ELSE UNCHANGED <<dumpData, orphan>>
  /\ LET known == {k \in Keys : admVerified[k] /\ admKeys[k] # NoCard}
     IN  IF q.ok /\ known # {} THEN \E k \in known : AutoRead(q, k, <<k, admKeys[k]>>, q.files)
         ELSE Answered(q)
  /\ UNCHANGED <<selectedPath, admVerified, admKeys, isOfflineMode, btnAdm, btnWrite, popup, server, calm>>

VerifyAnswer(q) ==
  /\ q.kind = "verify" /\ q.served
  /\ IF q.ok
     THEN /\ admVerified' = [admVerified EXCEPT ![q.key[1]] = TRUE]
          /\ admKeys' = [admKeys EXCEPT ![q.key[1]] = q.key[2]]
          /\ btnWrite' = IF selectedFd = NoEntry THEN btnWrite
                         ELSE WriteEnabled(selectedPath, selectedFd, dumpData, admVerified', isOfflineMode)
          /\ AutoRead(q, q.key[1], q.key, dumpData)
     ELSE Answered(q) /\ UNCHANGED <<admVerified, admKeys, btnWrite>>
  /\ UNCHANGED <<dumpData, selectedPath, orphan, isOfflineMode, btnReadAll, btnAdm, popup, server, calm>>

\* Mutant: the value shown is left to the reading that follows.
WriteAnswer_LeavesBytes(q) ==
  /\ q.kind = "write" /\ q.served
  /\ IF q.ok /\ selectedFd # NoEntry
     THEN AndSend(q, [Blank EXCEPT !.kind = "read", !.paths = {selectedPath}, !.key = q.key,
                                   !.structs = IF q.key = NoKey \/ q.structs = {} THEN {} ELSE {selectedPath}])
     ELSE Answered(q)
  /\ UNCHANGED <<page, buttons, popup, server, calm>>

\* the value goes to the entry selected now, and that file is read again: as a
\* record file only if there was a key; with nothing selected an exception ends it
WriteAnswer(q) ==
  /\ q.kind = "write" /\ q.served
  /\ IF q.ok /\ selectedFd # NoEntry
     THEN /\ SetSelectedFd([selectedFd EXCEPT !.bytes = q.value])
          /\ AndSend(q, [Blank EXCEPT !.kind = "read", !.paths = {selectedPath}, !.key = q.key,
                                      !.structs = IF q.key = NoKey \/ q.structs = {} THEN {} ELSE {selectedPath}])
     ELSE Answered(q) /\ UNCHANGED <<dumpData, orphan>>
  /\ UNCHANGED <<selectedPath, admVerified, admKeys, isOfflineMode, buttons, popup, server, calm>>

\* the answer to the read that follows a write
ReadAnswer(q) ==
  /\ q.kind = "read" /\ q.served
  /\ IF selectedPath \in DOMAIN q.files /\ selectedFd # NoEntry
     THEN SetSelectedFd([selectedFd EXCEPT !.bytes = q.files[selectedPath].bytes,
                                           !.body = q.files[selectedPath].body])
     ELSE UNCHANGED <<dumpData, orphan>>
  /\ Answered(q)
  /\ UNCHANGED <<selectedPath, admVerified, admKeys, isOfflineMode, buttons, popup, server, calm>>
-----------------------------------------------------------------------------
Answer(q) == ConnectAnswer(q) \/ ReadAllAnswer(q) \/ VerifyAnswer(q) \/ WriteAnswer(q) \/ ReadAnswer(q)

User ==
  \/ ConnectReader \/ ReadAllFiles \/ OpenWritePopup \/ CloseWritePopup
  \/ \E k \in Keys, c \in Cards : DoAdmVerify(k, c)
  \/ \E f \in EFs : SelectRow(f)
  \/ \E saved \in [Keys -> BOOLEAN] : LoadDumpFile(saved)
  \/ \E v \in NewValues : SubmitWrite(v)

Next ==
  \/ User
  \/ \E q \in flight : Serve(q) \/ Answer(q)
  \/ \E c \in Cards : Exchange(c)

Spec == Init /\ [][Next]_vars
-----------------------------------------------------------------------------
(* Properties.                                                             *)

Quiet == calm /\ flight = {}

\* For a user who waits for answers, what the page shows as a file's bytes is
\* what the card holds, through writes, new keys, reconnects and exchanged
\* cards.  (user-guide-en.md:127-128: read files are cached, after a write
\* the file is read again.)
CacheIsTrue ==
  Quiet /\ live /\ ~isOfflineMode =>
    \A f \in DOMAIN dumpData : dumpData[f].bytes # NoValue => dumpData[f].bytes = content[session][f]

\* A key that one card accepted is never presented to another, which would
\* count it as a wrong guess.
\* (index.html:312 "Get best verified ADM key".)
KeysGoHome == calm => ~misKeyed

Writes == {q \in flight : q.kind = "write"}

\* Browsing a loaded dump never writes to a card, whatever is still on its way
\* from one. (README.md:27 "Offline mode", without a SIM card.)
OfflineNeverWrites ==
  [][isOfflineMode /\ sent' # sent => Writes' \subseteq Writes]_vars

\* The page never waits for a click it does not allow: with a session, no dump
\* and no request under way READ ALL FILES is enabled.
CanReadAll == Quiet /\ session # NoCard /\ ~HasDump => btnReadAll

\* The bytes on the page are the card's, and READ ALL FILES can be asked for
\* again once a dump was answered.
PageIsRight == CacheIsTrue /\ CanReadAll
=============================================================================
