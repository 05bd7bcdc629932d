---------------------------- MODULE RuntimeLchan ----------------------------
(***************************************************************************)
(* pySim/runtime.py: the basic logical channel of a RuntimeState over the  *)
(* card it drives.  Every SELECT is a step, so that a failing SELECT, a    *)
(* lost link and the code that cleans up after them are all visible.       *)
(*                                                                         *)
(* The Python calls in progress (select, select_file, probe_file, and the  *)
(* "go back where we were" of their except clauses, which call each other) *)
(* are a stack of frames; the hop loop of select_file never calls another  *)
(* method, so its local variables are variables of the module.             *)
(***************************************************************************)
EXTENDS CardFs

CONSTANTS
  Paths,     \* the name sequences the callers of select() use
  HexIds     \* the names that are 4-digit FIDs (is_hex), which may be probed

ASSUME PathsShape == Paths \subseteq Seq(STRING) \ {<<>>}

(***************************************************************************)
(* Two things the code takes for granted of the card it drives, which not  *)
(* every card grants; the theorems that need them say so.  What a blind    *)
(* SELECT finds is among what the software can name from there: probe_file *)
(* takes a directory next to the current one for a file in it              *)
(* (runtime.py:341-354).  And an application without a file system can be  *)
(* left: the first one that has one lets itself be selected                *)
(* (runtime.py:383-399).                                                   *)
(***************************************************************************)
NoBlindSiblings ==
  \A f \in OnCard : \A id \in HexIds : CardFind(f, id) \subseteq Selectables(OnCard, f)

CanLeave == ADFs \subseteq FsADFs \/ (FsADFs # {} /\ FirstFsADF \in OnCard)

VARIABLES
  tree,   \* the files the software knows; probe_file adds to it
  sel,    \* RuntimeLchan.selected_file
  adf,    \* RuntimeLchan.selected_adf
  fcp,    \* the file whose FCP is cached in selected_file_fcp
  cur,    \* the card's current file (external)
  alive,  \* the link to the card works (external)
  stack,  \* the calls in progress, innermost first
  hops,   \* select_file: what is left of inter_path
  at,     \* select_file: local variable selected_file, the last file reached
  data,   \* select_file: local variable data, the file whose FCP it holds
  raised, \* an exception is propagating, or the last request ended with one
  call    \* history: the request being served, and where the card was

lchan == <<tree, sel, adf, fcp>>
card  == <<cur, alive>>
loop  == <<hops, at, data>>
vars  == <<tree, sel, adf, fcp, cur, alive, stack, hops, at, data, raised, call>>

Ops == {"path", "select", "try", "reraise", "select_file", "goto", "hop", "probe"}
Frame(op, file, ids) == [op |-> op, file |-> file, ids |-> ids]
Top(op) == stack # <<>> /\ Head(stack).op = op
Return  == stack' = Tail(stack)
Become(frame) == stack' = <<frame>> \o Tail(stack)
Call(frame, callee) == stack' = <<callee, frame>> \o Tail(stack)

NoCall == [kind |-> "none", ids |-> <<>>, file |-> NoFile, from |-> MF]

Init ==
  /\ tree = Profile /\ sel = MF /\ adf = NoFile /\ fcp = MF
  /\ cur = MF /\ alive = TRUE
  /\ stack = <<>> /\ hops = <<>> /\ at = MF /\ data = NoFile
  /\ raised = FALSE /\ call = NoCall

-----------------------------------------------------------------------------
(* Requests of the callers.                                                *)

CallSelect(ids) ==
  /\ stack = <<>> /\ raised' = FALSE
  /\ stack' = IF Len(ids) > 1 THEN <<Frame("path", sel, ids)>>
                              ELSE <<Frame("select", NoFile, ids)>>
  /\ call' = [kind |-> "select", ids |-> ids, file |-> NoFile, from |-> cur]
  /\ UNCHANGED <<lchan, card, loop>>

CallSelectFile(file) ==
  /\ stack = <<>> /\ raised' = FALSE
  /\ stack' = <<Frame("select_file", file, <<>>)>>
  /\ call' = [kind |-> "select_file", ids |-> <<>>, file |-> file, from |-> cur]
  /\ UNCHANGED <<lchan, card, loop>>

Trapped == adf # NoFile /\ adf \notin FsADFs /\ FsADFs # {}

(* reset(): the card's reset, select('MF') and the assignments around them. *)
(* No request is served meanwhile, so only its outcomes are told apart: it  *)
(* ends on the MF; the link fails, before or after the application that     *)
(* select_file leaves through was selected; that application refuses, and   *)
(* select('MF') goes back where it was.                                     *)
Reset ==
  /\ stack = <<>>
  /\ call' = [kind |-> "reset", ids |-> <<>>, file |-> NoFile, from |-> cur]
  /\ \/ /\ ~Trapped \/ FirstFsADF \in OnCard
        /\ cur' = MF /\ sel' = MF /\ fcp' = MF /\ adf' = NoFile
        /\ alive' = TRUE /\ raised' = FALSE
     \/ /\ Trapped /\ FirstFsADF \notin OnCard
        /\ cur' = sel /\ fcp' = sel /\ UNCHANGED <<sel, adf>>
        /\ alive' = TRUE /\ raised' = TRUE
     \/ /\ alive' = FALSE /\ raised' = TRUE
        /\ UNCHANGED <<sel, adf, fcp, cur>>
     \/ /\ Trapped /\ FirstFsADF \in OnCard
        /\ alive' = FALSE /\ raised' = TRUE
        /\ sel' = FirstFsADF /\ adf' = FirstFsADF /\ fcp' = FirstFsADF /\ cur' = FirstFsADF
  /\ UNCHANGED <<tree, stack, loop>>

LinkLost == alive /\ alive' = FALSE
            /\ UNCHANGED <<lchan, cur, stack, loop, raised, call>>
-----------------------------------------------------------------------------
(* select(): a path is selected name by name; any exception selects the    *)
(* file that was selected before and is raised again.                      *)

\* Mutant: the loop over the path does not advance.
PathStep_Stuck ==
  LET f == Head(stack) IN
  /\ Top("path") /\ ~raised
  /\ IF f.ids = <<>> THEN Return ELSE Call(f, Frame("select", NoFile, <<Head(f.ids)>>))
  /\ UNCHANGED <<lchan, card, loop, raised, call>>

PathStep ==
  LET f == Head(stack) IN
  /\ Top("path") /\ ~raised
  /\ IF f.ids = <<>> THEN Return
     ELSE Call([f EXCEPT !.ids = Tail(@)], Frame("select", NoFile, <<Head(f.ids)>>))
  /\ UNCHANGED <<lchan, card, loop, raised, call>>

SelectKnown ==
  LET id == Head(stack).ids[1] IN
  /\ Top("select")
  /\ \E target \in Lookup(tree, sel, id) :
       Call(Frame("try", sel, <<>>), Frame("select_file", target, <<>>))
  /\ UNCHANGED <<lchan, card, loop, raised, call>>

SelectUnknown ==
  LET id == Head(stack).ids[1] IN
  /\ Top("select") /\ Lookup(tree, sel, id) = {}
  /\ IF id \in HexIds
     THEN Call(Frame("try", sel, <<>>), Frame("probe", NoFile, <<id>>)) /\ UNCHANGED raised
     ELSE Become(Frame("try", sel, <<>>)) /\ raised' = TRUE
  /\ UNCHANGED <<lchan, card, loop, call>>

TryReturn == /\ Top("try") /\ ~raised /\ Return
             /\ UNCHANGED <<lchan, card, loop, raised, call>>

\* Mutant: the except clause only raises again.
GoBack_Stays ==
  /\ Top("try") \/ Top("path")
  /\ raised /\ Return
  /\ UNCHANGED <<lchan, card, loop, raised, call>>

GoBack ==
  /\ Top("try") \/ Top("path")
  /\ raised /\ raised' = FALSE
  /\ Call(Frame("reraise", NoFile, <<>>), Frame("select_file", Head(stack).file, <<>>))
  /\ UNCHANGED <<lchan, card, loop, call>>

Reraise == /\ Top("reraise") /\ Return /\ raised' = TRUE
           /\ UNCHANGED <<lchan, card, loop, call>>
-----------------------------------------------------------------------------
(* select_file(): leave an application without a file system through the   *)
(* first one that has one, then select what lies on the way to the target. *)

Escape ==
  LET f == Head(stack) IN
  /\ Top("select_file")
  /\ IF f.file \notin ADFs /\ Trapped
     THEN Call(Frame("goto", f.file, <<>>), Frame("select", NoFile, <<Name(FirstFsADF)>>))
     ELSE Become(Frame("goto", f.file, <<>>))
  /\ UNCHANGED <<lchan, card, loop, raised, call>>

StartHops ==
  /\ Top("goto")
  /\ IF raised THEN Return /\ UNCHANGED loop
     ELSE /\ Become(Frame("hop", Head(stack).file, <<>>))
          /\ hops' = BuildSelectPathTo(sel, Head(stack).file)
          /\ at' = sel /\ data' = fcp
  /\ UNCHANGED <<lchan, card, raised, call>>

\* where the card goes when the software selects f
Answers(f) == IF f \in ADFs THEN {f} \cap OnCard ELSE CardFind(cur, Fid[f])

SelectPost(f, fcpOf) ==
  /\ sel' = f /\ fcp' = fcpOf
  /\ adf' = IF f \in ADFs THEN f ELSE adf

\* Mutant: the answer to the SELECT is not kept.
HopOk_DropsAnswer ==
  LET f == Head(hops) IN
  /\ Top("hop") /\ hops # <<>> /\ alive
  /\ \E g \in Answers(f) : cur' = g
  /\ hops' = Tail(hops) /\ at' = f
  /\ UNCHANGED <<lchan, alive, stack, data, raised, call>>

HopOk ==
  LET f == Head(hops) IN
  /\ Top("hop") /\ hops # <<>> /\ alive
  /\ \E g \in Answers(f) : cur' = g
  /\ hops' = Tail(hops) /\ at' = f /\ data' = f
  /\ UNCHANGED <<lchan, alive, stack, raised, call>>

\* Mutant: a refused hop leaves the loop without _select_post.
HopRefused_NoPost ==
  /\ Top("hop") /\ hops # <<>> /\ alive /\ Answers(Head(hops)) = {}
  /\ Return /\ raised' = TRUE
  /\ hops' = <<>> /\ at' = NoFile /\ data' = NoFile
  /\ UNCHANGED <<lchan, card, call>>

\* Mutant: a refused hop ends the selection as if it had succeeded.
HopRefused_Silent ==
  /\ Top("hop") /\ hops # <<>> /\ alive /\ Answers(Head(hops)) = {}
  /\ hops' = <<>>
  /\ UNCHANGED <<lchan, card, stack, at, data, raised, call>>

HopRefused ==
  /\ Top("hop") /\ hops # <<>> /\ alive /\ Answers(Head(hops)) = {}
  /\ raised' = TRUE /\ hops' = <<>>
  /\ UNCHANGED <<lchan, card, stack, at, data, call>>

\* _select_post, after the last hop and in the except clause of a refused one
HopsDone ==
  /\ Top("hop") /\ hops = <<>>
  /\ SelectPost(at, data)
  /\ Return /\ at' = NoFile /\ data' = NoFile
  /\ UNCHANGED <<tree, card, hops, raised, call>>

\* any exception but SwMatchError leaves the loop without _select_post
HopLost ==
  /\ Top("hop") /\ hops # <<>> /\ ~alive /\ Return /\ raised' = TRUE
  /\ hops' = <<>> /\ at' = NoFile /\ data' = NoFile
  /\ UNCHANGED <<lchan, card, call>>
-----------------------------------------------------------------------------
(* probe_file(): SELECT an unknown FID; when the card knows it, it becomes *)
(* a file of the selected directory.  An EF has no add_files.              *)

ProbeOk ==
  LET fid == Head(stack).ids[1]
      new == Append(sel, fid)
  IN /\ Top("probe") /\ alive
     /\ \E g \in CardFind(cur, fid) : cur' = g
     /\ IF sel \in EFs
        THEN raised' = TRUE /\ UNCHANGED lchan
        ELSE /\ tree' = tree \cup {new} /\ sel' = new /\ fcp' = new
             /\ UNCHANGED <<adf, raised>>
     /\ Return
     /\ UNCHANGED <<alive, loop, call>>

\* Mutant: the file is added whether or not the card knows it.
ProbeFailed_Adds ==
  /\ Top("probe") /\ (~alive \/ CardFind(cur, Head(stack).ids[1]) = {})
  /\ Return /\ raised' = TRUE
  /\ tree' = tree \cup {Append(sel, Head(stack).ids[1])}
  /\ UNCHANGED <<sel, adf, fcp, card, loop, call>>

ProbeFailed ==
  /\ Top("probe") /\ (~alive \/ CardFind(cur, Head(stack).ids[1]) = {})
  /\ Return /\ raised' = TRUE
  /\ UNCHANGED <<lchan, card, loop, call>>
-----------------------------------------------------------------------------
Step == \/ PathStep \/ SelectKnown \/ SelectUnknown \/ TryReturn \/ GoBack \/ Reraise
        \/ Escape \/ StartHops \/ HopOk \/ HopRefused \/ HopsDone \/ HopLost
        \/ ProbeOk \/ ProbeFailed

Next == \/ \E ids \in Paths : CallSelect(ids)
        \/ \E file \in tree : CallSelectFile(file)
        \/ Reset \/ LinkLost \/ Step

Spec == Init /\ [][Next]_vars

\* one thread executes the calls: it never stops in the middle of one
FairSpec == Spec /\ WF_vars(Step)
-----------------------------------------------------------------------------
(* Properties.                                                             *)

TypeOK ==
  /\ tree \subseteq Files /\ sel \in Files /\ adf \in ADFs \cup {NoFile} /\ fcp \in Files
  /\ cur \in Files /\ alive \in BOOLEAN /\ raised \in BOOLEAN
  /\ stack \in Seq([op : Ops, file : Files \cup {NoFile}, ids : Seq(STRING)])
  /\ hops \in Seq(Files) /\ at \in Files \cup {NoFile} /\ data \in Files \cup {NoFile}
  /\ call \in [kind : {"none", "select", "select_file", "reset"}, ids : Seq(STRING),
               file : Files \cup {NoFile}, from : Files]

\* Between two requests the software and the card agree on the selected file,
\* and the cached FCP is the one of that file: the commands that follow a
\* select (READ and UPDATE re-select by FID, sizes and structure come from
\* the cached FCP) act on the file they name.
\* runtime.py:414-420: the local state must follow the card.
Coherent == stack = <<>> /\ alive => cur = sel /\ fcp = sel /\ sel \in OnCard

\* The file model only learns files the card has, each at its own place.
LearnsTheTruth == tree \subseteq Profile \cup OnCard

\* A select that fails leaves the software and the card where they were
\* ("we must be able to go back where we were", runtime.py:439).
FailedSelectGoesBack ==
  stack = <<>> /\ alive /\ raised /\ call.kind = "select" => cur = call.from /\ sel = call.from

\* Every request comes back to its caller: select, select_file and their
\* except clauses call each other, and none of them for ever.
CallsReturn == [](stack # <<>> => <>(stack = <<>>))

\* What the channel promises its callers.
Promise == INSTANCE LchanSpec WITH
  at     <- IF stack = <<>> THEN cur ELSE call.from,
  lost   <- ~alive,
  req    <- IF stack = <<>> THEN [kind |-> "none", ids |-> <<>>, file |-> NoFile]
            ELSE [kind |-> call.kind, ids |-> call.ids, file |-> call.file],
  failed <- stack = <<>> /\ raised

ImplementsPromise == Promise!Spec
=============================================================================
