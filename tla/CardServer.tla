----------------------------- MODULE CardServer -----------------------------
(***************************************************************************)
(* app.py and pysim_wrapper.py: the Flask server's threads serve requests  *)
(* on one shared RuntimeState, with no lock.  Each handler is a short      *)
(* program of pysim_wrapper calls; the SELECTs of a call run on the        *)
(* logical channel of RuntimeLchan, one step at a time, so that another    *)
(* thread may run between any two of them.                                 *)
(*                                                                         *)
(* RuntimeLchan describes one thread inside the channel.  Its call stack   *)
(* and local variables belong to the `running` thread; those of the others *)
(* are set aside in `saved`, and Switch exchanges them.                    *)
(***************************************************************************)
EXTENDS CardFs

CONSTANTS
  Threads,     \* the threads of the server
  Requests,    \* what clients ask: sequences of pysim_wrapper calls
  MaxRequests, \* bound: how many requests arrive
  MayBePulled, \* whether the card may be pulled out
  Connected,   \* whether a session is open to begin with
  InfoPaths,   \* the files connect() reads for its answer
  AdmOnly,     \* the files the card opens to the ADM key only
  TlvEFs,      \* the BER-TLV files
  Values, NoValue

Names == {Name(f) : f \in Files}
Paths == {<<n>> : n \in Names}
HexIds == {}   \* paths come from a dump: no name in them is probed

\* the calls of pysim_wrapper.py that work on a file
FileOps == {"read", "write", "read_tlv", "write_tlv", "info", "visit"}
Calls   == [op : {"connect"}] \cup [op : {"verify"}, path : {NoFile}, value : {"right", "wrong"}]
           \cup [op : FileOps, path : Profile, value : Values \cup {NoValue}]

\* Clients name files by the paths of a dump, which are those of the profile,
\* and a name picks one file of a directory: get_selectables is a dictionary,
\* and no file may carry the name of the MF (RESERVED_NAMES).
ASSUME ServerAssumption ==
  /\ Requests \subseteq Seq(Calls) /\ InfoPaths \in Seq(Profile)
  /\ \A f \in Profile \ {MF} : \A g \in Selectables(Profile, Parent(f)) : Name(f) \in Ids(g) => g = f
  /\ \A g \in Profile \ {MF} : Name(MF) \notin Ids(g)

VARIABLES
  tree, sel, adf, fcp, cur, alive, stack, hops, at, data, raised, call,
  running,  \* the thread whose calls the variables above hold
  saved,    \* saved[t]: those of a thread that is not running
  todo,     \* todo[t]: the pysim_wrapper calls its request still makes
  phase,    \* phase[t]: where it is in the first of them
  names,    \* names[t]: what _select_path has left to select
  link,     \* link[t]: the link under the lchan it took from _rs
  sl, rs,   \* _sl and _rs: the number of the link, 0 for None
  con,      \* the link that is connected to the card (exclusively), or 0
  links,    \* how many have been created
  granted,  \* the card accepted the ADM key since its last reset (external)
  content,  \* content[f]: what a card's file holds, as what one command can
            \* write of it and what takes further commands (external)
  answer,   \* answer[t]: the outcome of its last read or write
  alone,    \* history: no other thread had a call in progress during this one
  arrived   \* how many requests have arrived

Chan == INSTANCE RuntimeLchan

chanVars == <<tree, sel, adf, fcp, cur, alive, stack, hops, at, data, raised, call>>
context  == <<stack, hops, at, data, raised, call>>
jobs     == <<todo, phase, names, link, answer, alone, arrived>>
session  == <<sl, rs, con, links>>
sched    == <<running, saved>>
vars     == <<chanVars, sched, jobs, session, granted, content>>

Fresh    == <<<<>>, <<>>, NoFile, NoFile, FALSE, Chan!NoCall>>
Idle     == stack = <<>> /\ hops = <<>> /\ at = NoFile /\ data = NoFile /\ raised = FALSE
            /\ call = Chan!NoCall

\* the calls whose answer tells the client about a file
Transfers == {"read", "write", "read_tlv", "write_tlv", "info"}
NoContent == <<NoValue, NoValue>>
NoAnswer  == [ok |-> FALSE, path |-> NoFile, file |-> NoFile, value |-> NoContent,
              alone |-> FALSE]

Init ==
  /\ tree = Profile /\ sel = MF /\ adf = NoFile /\ fcp = MF /\ cur = MF /\ alive = TRUE /\ Idle
  /\ running \in Threads /\ saved = [t \in Threads |-> Fresh]
  /\ todo = [t \in Threads |-> <<>>] /\ phase = [t \in Threads |-> "idle"]
  /\ names = [t \in Threads |-> <<>>] /\ link = [t \in Threads |-> 0]
  /\ links = (IF Connected THEN 1 ELSE 0) /\ sl = links /\ rs = links /\ con = links
  /\ granted = FALSE
  /\ \E v \in Values : content = [f \in EFs \cap OnCard |-> <<v, v>>]
  /\ answer = [t \in Threads |-> NoAnswer]
  /\ alone = [t \in Threads |-> FALSE] /\ arrived = 0
-----------------------------------------------------------------------------
(* Threads.                                                                *)

Busy(t)  == phase[t] # "idle"
Runs(t)  == running = t
First(t) == Head(todo[t])
InCall(t) == stack # <<>>            \* of the running thread
Live(t)  == link[t] = con /\ con # 0 \* the lchan it holds can reach the card

Switch(t) ==
  /\ running # t /\ running' = t
  /\ saved' = [saved EXCEPT ![running] = context, ![t] = Fresh]
  /\ stack' = saved[t][1] /\ hops' = saved[t][2] /\ at' = saved[t][3]
  /\ data' = saved[t][4] /\ raised' = saved[t][5] /\ call' = saved[t][6]
  /\ UNCHANGED <<tree, sel, adf, fcp, cur, alive, jobs, session, granted, content>>

\* a Flask handler starts in a thread of its own
Arrive(t) ==
  /\ Runs(t) /\ todo[t] = <<>> /\ arrived < MaxRequests
  /\ \E r \in Requests : todo' = [todo EXCEPT ![t] = r]
  /\ arrived' = arrived + 1
  /\ UNCHANGED <<chanVars, sched, phase, names, link, answer, alone, session, granted, content>>

\* the running thread takes up its next call
Begin(t, ph) ==
  /\ Runs(t) /\ todo[t] # <<>> /\ phase[t] = "idle"
  /\ phase' = [phase EXCEPT ![t] = ph]
  /\ alone' = [u \in Threads |-> u = t /\ \A w \in Threads \ {t} : ~Busy(w)]

\* a call returns to its handler, which goes on with the next one
Return(t, ok, file, value) ==
  /\ phase' = [phase EXCEPT ![t] = "idle"]
  /\ answer' = IF First(t).op \in Transfers
               THEN [answer EXCEPT ![t] = [ok |-> ok, path |-> First(t).path, file |-> file, value |-> value,
                                           alone |-> alone[t]]]
               ELSE answer
  /\ todo' = [todo EXCEPT ![t] = Tail(@)]
  /\ names' = [names EXCEPT ![t] = <<>>]
  /\ stack' = <<>> /\ hops' = <<>> /\ at' = NoFile /\ data' = NoFile
  /\ raised' = FALSE /\ call' = Chan!NoCall

Fail(t) == Return(t, FALSE, NoFile, NoContent)
-----------------------------------------------------------------------------
(* read_ef, write_ef, read_tlv, write_tlv: _select_path, then the command. *)

\* Mutant: nothing is selected when the software believes the file selected.
StartCall_Cached(t) ==
  /\ todo[t] # <<>> /\ First(t).op \in FileOps \ {"info"} /\ rs # 0
  /\ Begin(t, "path")
  /\ names' = [names EXCEPT ![t] = IF sel = First(t).path THEN <<>> ELSE First(t).path]
  /\ link' = [link EXCEPT ![t] = rs]
  /\ UNCHANGED <<chanVars, sched, todo, answer, arrived, session, granted, content>>

\* `if not _rs: return`, `lchan = _rs.lchan[0]`
StartCall(t) ==
  /\ todo[t] # <<>> /\ First(t).op \in FileOps \ {"info"} /\ rs # 0
  /\ Begin(t, "path")
  /\ names' = [names EXCEPT ![t] = First(t).path]
  /\ link' = [link EXCEPT ![t] = rs]
  /\ UNCHANGED <<chanVars, sched, todo, answer, arrived, session, granted, content>>

NotConnected(t) ==
  /\ Runs(t) /\ todo[t] # <<>> /\ phase[t] = "idle"
  /\ First(t).op \in (FileOps \ {"info"}) \cup {"verify"} /\ rs = 0
  /\ Fail(t)
  /\ UNCHANGED <<tree, sel, adf, fcp, cur, alive, sched, link, alone, arrived, session, granted, content>>

SelectNext(t) ==
  /\ Runs(t) /\ phase[t] = "path" /\ Live(t) /\ ~raised /\ names[t] # <<>>
  /\ Chan!CallSelect(<<Head(names[t])>>)
  /\ names' = [names EXCEPT ![t] = Tail(@)]
  /\ UNCHANGED <<sched, todo, phase, link, answer, alone, arrived, session, granted, content>>

Selecting(t) ==
  /\ Runs(t) /\ phase[t] = "path" /\ Live(t) /\ Chan!Step
  /\ UNCHANGED <<sched, jobs, session, granted, content>>

SelectFailed(t) ==
  /\ Runs(t) /\ phase[t] = "path" /\ Live(t) /\ ~InCall(t) /\ raised
  /\ Fail(t)
  /\ UNCHANGED <<tree, sel, adf, fcp, cur, alive, sched, link, alone, arrived, session, granted, content>>

\* the type check of RuntimeLchan.read_binary, update_binary, retrieve_data
TypeMatches(op) ==
  sel \in EFs /\ (sel \in TlvEFs <=> op \in {"read_tlv", "write_tlv"})

\* Mutant: the FID is selected in the first application.
Reselect_FirstApplication(t) ==
  /\ Runs(t) /\ phase[t] = "path" /\ Live(t) /\ ~InCall(t) /\ ~raised /\ names[t] = <<>>
  /\ First(t).op \notin {"visit", "write_tlv"}
  /\ TypeMatches(First(t).op) /\ alive
  /\ \E g \in CardFind(FirstFsADF, Fid[sel]) : cur' = g
  /\ phase' = [phase EXCEPT ![t] = "data"]
  /\ UNCHANGED <<tree, sel, adf, fcp, alive, context, sched, todo, names, link, answer, alone,
                 arrived, session, granted, content>>

\* scc.read_binary, update_binary, retrieve_data SELECT the file again by FID;
\* write_tlv calls scc.set_data with an empty path, which raises IndexError
Reselect(t) ==
  /\ Runs(t) /\ phase[t] = "path" /\ Live(t) /\ ~InCall(t) /\ ~raised /\ names[t] = <<>>
  /\ First(t).op \notin {"visit", "write_tlv"}
  /\ TypeMatches(First(t).op) /\ alive
  /\ \E g \in CardFind(cur, Fid[sel]) : cur' = g
  /\ phase' = [phase EXCEPT ![t] = "data"]
  /\ UNCHANGED <<tree, sel, adf, fcp, alive, context, sched, todo, names, link, answer, alone,
                 arrived, session, granted, content>>

ReselectFails(t) ==
  /\ Runs(t) /\ phase[t] = "path" /\ Live(t) /\ ~InCall(t) /\ ~raised /\ names[t] = <<>>
  /\ First(t).op # "visit"
  /\ \/ First(t).op = "write_tlv" \/ ~TypeMatches(First(t).op) \/ ~alive
     \/ sel \in EFs /\ CardFind(cur, Fid[sel]) = {}
  /\ Fail(t)
  /\ UNCHANGED <<tree, sel, adf, fcp, cur, alive, sched, link, alone, arrived, session, granted, content>>

\* read_all's walk only selects a DF; the rest of it is module DumpWalk
Visited(t) ==
  /\ Runs(t) /\ phase[t] = "path" /\ Live(t) /\ ~InCall(t) /\ ~raised /\ names[t] = <<>>
  /\ First(t).op = "visit"
  /\ Return(t, TRUE, sel, NoContent)
  /\ UNCHANGED <<tree, sel, adf, fcp, cur, alive, sched, link, alone, arrived, session, granted, content>>

Accessible == cur \in EFs /\ (cur \in AdmOnly => granted)

Writing(t) == phase[t] = "rest" \/ (phase[t] = "data" /\ First(t).op = "write")

\* update_binary's while loop: one UPDATE that is not the last.  Whether the
\* data take one command or several is left open.
WritePart(t) ==
  /\ Runs(t) /\ phase[t] = "data" /\ Writing(t) /\ Live(t) /\ alive /\ Accessible
  /\ content' = [content EXCEPT ![cur] = <<First(t).value, @[2]>>]
  /\ phase' = [phase EXCEPT ![t] = "rest"]
  /\ UNCHANGED <<tree, sel, adf, fcp, cur, alive, context, sched, todo, names, link, answer, alone,
                 arrived, session, granted>>

\* READ, or the last UPDATE: the card works on its current file, whichever it
\* is.  (A READ in several commands changes nothing and is one step.)
Transfer(t) ==
  /\ Runs(t) /\ phase[t] \in {"data", "rest"} /\ Live(t) /\ alive /\ Accessible
  /\ IF Writing(t)
     THEN /\ content' = [content EXCEPT ![cur] = <<IF phase[t] = "rest" THEN @[1] ELSE First(t).value,
                                                 First(t).value>>]
          /\ Return(t, TRUE, cur, NoContent)
     ELSE UNCHANGED content /\ Return(t, TRUE, cur, content[cur])
  /\ UNCHANGED <<tree, sel, adf, fcp, cur, alive, sched, link, alone, arrived, session, granted>>

\* Mutant: the loop goes on after an UPDATE that failed.
TransferFails_Unnoticed(t) ==
  /\ Runs(t) /\ phase[t] \in {"data", "rest"} /\ Live(t) /\ (~alive \/ ~Accessible)
  /\ IF Writing(t) THEN Return(t, TRUE, cur, NoContent) ELSE Fail(t)
  /\ UNCHANGED <<tree, sel, adf, fcp, cur, alive, sched, link, alone, arrived, session, granted, content>>

\* what was written before the command that failed stays written
TransferFails(t) ==
  /\ Runs(t) /\ phase[t] \in {"data", "rest"} /\ Live(t) /\ (~alive \/ ~Accessible)
  /\ Fail(t)
  /\ UNCHANGED <<tree, sel, adf, fcp, cur, alive, sched, link, alone, arrived, session, granted, content>>

\* the link under its lchan was closed by connect(): the next APDU raises, so
\* does the one of every except clause, and the call returns an error
Stale(t) ==
  /\ Runs(t) /\ phase[t] \in {"path", "data", "rest"} /\ ~Live(t)
  /\ Fail(t)
  /\ UNCHANGED <<tree, sel, adf, fcp, cur, alive, sched, link, alone, arrived, session, granted, content>>
-----------------------------------------------------------------------------
(* verify_adm: one APDU.  Its result is only used by the /sim/verify_adm   *)
(* handler; the others go on whatever it is.                               *)
Verify(t) ==
  /\ Runs(t) /\ todo[t] # <<>> /\ phase[t] = "idle" /\ First(t).op = "verify" /\ rs # 0
  /\ IF rs = con /\ alive /\ First(t).value = "right"
     THEN granted' = TRUE /\ Return(t, TRUE, NoFile, NoContent)
     ELSE UNCHANGED granted /\ Fail(t)
  /\ alone' = [u \in Threads |-> FALSE]
  /\ UNCHANGED <<tree, sel, adf, fcp, cur, alive, sched, link, arrived, session, content>>
-----------------------------------------------------------------------------
(* connect: close the link of the last session, open one, build the        *)
(* RuntimeState on it, publish it and read a few files for the answer.     *)

Connect(t) ==
  /\ todo[t] # <<>> /\ First(t).op = "connect"
  /\ Begin(t, "open")
  /\ IF sl # 0 THEN /\ con' = IF con = sl THEN 0 ELSE con
                    /\ sl' = 0 /\ rs' = 0
               ELSE UNCHANGED <<sl, rs, con>>
  /\ UNCHANGED <<chanVars, sched, todo, names, link, answer, arrived, links, granted, content>>

\* PcscSimLink, init_card (which resets the card and leaves the MF selected);
\* a second exclusive connection is refused
Open(t) ==
  /\ Runs(t) /\ phase[t] = "open"
  /\ links' = links + 1 /\ sl' = links' /\ link' = [link EXCEPT ![t] = links']
  /\ \/ /\ con = 0 /\ con' = links'
        /\ tree' = Profile /\ sel' = MF /\ adf' = NoFile /\ fcp' = MF
        /\ cur' = MF /\ alive' = TRUE /\ granted' = FALSE
        /\ phase' = [phase EXCEPT ![t] = "publish"]
        /\ UNCHANGED <<context, todo, names, answer>>
     \/ /\ Fail(t) /\ UNCHANGED <<tree, sel, adf, fcp, cur, alive, con, granted>>
  /\ UNCHANGED <<sched, rs, alone, arrived, content>>

\* Another connect() may have closed the link meanwhile: if that was before
\* init_card's last APDU it fails.
Publish(t) ==
  /\ Runs(t) /\ phase[t] = "publish"
  /\ rs' = link[t]
  /\ phase' = [phase EXCEPT ![t] = "idle"]
  /\ todo' = [todo EXCEPT ![t] = [i \in 1..Len(InfoPaths) |->
                [op |-> "info", path |-> InfoPaths[i], value |-> NoValue]] \o Tail(@)]
  /\ UNCHANGED <<chanVars, sched, names, link, answer, alone, arrived, sl, con, links, granted, content>>

PublishFails(t) ==
  /\ Runs(t) /\ phase[t] = "publish" /\ con # link[t]
  /\ Fail(t)
  /\ UNCHANGED <<tree, sel, adf, fcp, cur, alive, sched, link, alone, arrived, session, granted, content>>

\* connect() goes on with the lchan it published, without looking at _rs again
StartInfo(t) ==
  /\ todo[t] # <<>> /\ First(t).op = "info"
  /\ Begin(t, "path")
  /\ names' = [names EXCEPT ![t] = First(t).path]
  /\ UNCHANGED <<chanVars, sched, todo, link, answer, arrived, session, granted, content>>

\* the card is pulled out
Pulled ==
  /\ MayBePulled /\ alive /\ alive' = FALSE
  /\ UNCHANGED <<tree, sel, adf, fcp, cur, context, sched, jobs, session, granted, content>>
-----------------------------------------------------------------------------
ThreadStep(t) ==
  \/ StartCall(t) \/ NotConnected(t) \/ SelectNext(t) \/ Selecting(t) \/ SelectFailed(t)
  \/ Reselect(t) \/ ReselectFails(t) \/ Visited(t) \/ WritePart(t) \/ Transfer(t)
  \/ TransferFails(t) \/ Stale(t) \/ Verify(t) \/ Connect(t) \/ Open(t) \/ Publish(t) \/ PublishFails(t)
  \/ StartInfo(t)

Next == \/ \E t \in Threads : Switch(t) \/ Arrive(t) \/ ThreadStep(t)
        \/ Pulled

Spec == Init /\ [][Next]_vars
-----------------------------------------------------------------------------
(* Properties.                                                             *)

\* A command that answered success worked on the file its path names.
\* (pysim_wrapper.py:230 "Write to an EF": the one at file_path.)
ActsOnNamedFile == \A t \in Threads : answer[t].ok => answer[t].file = answer[t].path

\* Whatever the calls before it left behind (two threads may have sent the
\* software and the card to different files), a call that nobody interferes
\* with works on the file its path names: _select_path starts at the MF.
AloneIsRight == \A t \in Threads : answer[t].alone /\ answer[t].ok
                                     => answer[t].file = answer[t].path

\* With one thread the server is a store of files named by path, where a write
\* that fails may leave a part of the data behind (FileStore).
StoreCall(t) == LET c == First(t)
                IN  IF c.op \in {"write", "write_tlv"} THEN [op |-> "write", path |-> c.path, value |-> c.value]
                                                    ELSE [op |-> "read", path |-> c.path]
Store == INSTANCE FileStore WITH
  Clients <- Threads, Paths <- EFs \cap OnCard, NoCall <- [op |-> "none"],
  pending <- [t \in Threads |-> IF phase[t] \in {"path", "data", "rest"} /\ First(t).op \in Transfers
                                THEN StoreCall(t) ELSE [op |-> "none"]],
  answer <- [t \in Threads |-> [ok |-> answer[t].ok, value |-> answer[t].value]]

ImplementsFileStore == Store!StoreSpec
=============================================================================
