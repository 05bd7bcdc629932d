----------------------------- MODULE ProgBatch -----------------------------
(***************************************************************************)
(* pySim-prog: the loop over cards (fetch, recognise, take parameters from *)
(* the command line's number or a row of a CSV file, program, log, save    *)
(* the number, put the card into the good or the error bin), with the state*)
(* file it may be restarted from.  A card may refuse any command, and the  *)
(* process may be killed at any step.                                      *)
(***************************************************************************)
EXTENDS LegacyCards, FiniteSets, SequencesExt

CONSTANTS Cards,      \* the cards at hand
          Kinds,      \* what cards may be
          Options,    \* command lines
          MaxNum      \* bound on the number of the automatic parameters

VARIABLES kind, opts, \* Cards -> kind; the command line
          pc, step,   \* where process_card is, and the step of the program
          bay,        \* card in the reader
          first,      \* no card has been fetched yet
          class,      \* card class recognised
          cla, at,    \* class byte of the command layer; where the card stands
          aids,       \* applications read_aids found
          num, id,    \* opts.num; the identity the parameters describe
          mem,        \* card -> what was written to it, where, and for whom
          deaf,       \* unchecked commands this card refused
          good,       \* cards this run put into the good bin, with their identity
          log, saved  \* identities in the CSV file written; the state file
vars == <<kind, opts, pc, step, bay, first, class, cla, at, aids, num, id, mem, deaf, good, log, saved>>
setup == <<kind, opts>>
card  == <<at, aids, mem, deaf>>       \* what a step of program() can change
books == <<num, id, good, log, saved>>

None == "none"
Mine == kind[bay]

(* ------------------------------------------------------------ the card *)
Children(dir) ==
  CASE dir = "3f00" -> {"7f20", "7f10", "7f4d", "a515", "7ff0", "2fe2", "2f00", "000c", "0001", "6002"}
    [] dir = "7f20" -> {"6f07", "6f20", "6f30", "6f3e", "6f46", "6f60", "6f61", "6f62", "6f78", "6fad", "6f38", "0001", "00ff", "00f7", "ff01", "ff02"}
    [] dir = "7f10" -> {"6f42", "6f40"}
    [] dir = "7f4d" -> {"8f0c", "8f0d", "8f0e"}
    [] dir = "7ff0" -> {"ff01", "ff02"}
    [] dir = "a515" -> {"6f20"}
    [] dir = "usim" -> {"6f07", "6fad", "af20", "6fd9", "6ff3", "6ff4", "6f38", "6f7b"}
    [] OTHER        -> {"af20", "6fe7", "6f09", "6f03", "6f02", "6f04", "6f07"}
Dirs == {"7f20", "7f10", "7f4d", "a515", "7ff0"}
(* Proprietary directories are on the cards that have them only.           *)
Has(k, fid) == fid \notin k.lacks /\ (fid = "7f4d" => k.class \in Magic) /\ (fid = "000c" => k.class = "fakemagicsim")
                 /\ (fid = "a515" => k.class \in {"sysmoISIM-SJA2", "sysmoISIM-SJA5"}) /\ (fid = "7ff0" => k.class = "OpenCells-SIM")
                 /\ (fid = "2f00" => k.uicc)
Reaches(k, dir, fid) == fid = "3f00" \/ fid = dir \/ (fid \in Children(dir) \cup (Dirs \cap Children("3f00")) /\ Has(k, fid))
DirAfter(dir, fid) == IF fid \in Dirs \cup {"3f00"} THEN fid ELSE dir
RECURSIVE Walk(_, _, _)      \* where a path leads, or None
Walk(k, dir, path) == IF path = <<>> THEN dir
                      ELSE IF Reaches(k, dir, Head(path)) THEN Walk(k, DirAfter(dir, Head(path)), Tail(path)) ELSE None
Understands(k, byte) == IF byte = "00" THEN k.uicc ELSE k.sim

-----------------------------------------------------------------------------
Init == /\ kind \in [Cards -> Kinds] /\ opts \in Options
        /\ pc = "start" /\ step = 0 /\ bay = None /\ first = TRUE /\ class = None /\ cla = "a0" /\ at = "3f00" /\ aids = {}
        /\ num = 0 /\ id = 0 /\ mem = [c \in Cards |-> {}] /\ deaf = {} /\ good = {} /\ log = {} /\ saved = 0

(* A state that was saved cannot be loaded: d.iteritems() raises.          *)
InitBatch == /\ pc = "start"
             /\ pc' = IF saved = 0 THEN "get" ELSE "dead"
             /\ UNCHANGED <<setup, step, bay, first, class, cla, card, books>>

(* CardHandler.get: the first card may be in the reader already, the others*)
(* must be inserted anew.                                                  *)
Get(c) == /\ pc = "get" /\ num < MaxNum
          /\ first /\ bay # None => c = bay
          /\ bay' = c /\ at' = "3f00" /\ aids' = {} /\ pc' = "detect"
          /\ deaf' = {}
          /\ UNCHANGED <<setup, step, first, class, cla, num, id, mem, good, log, saved>>

Detected(k, byte) == IF k.class \in ByFile THEN IF Understands(k, byte) THEN k.class ELSE None
                     ELSE IF k.class \in Undetectable \cup {"unknown"} THEN None ELSE k.class
Recognised(k) == IF opts.type = "auto" THEN Detected(k, cla) ELSE opts.type

Detect == /\ pc = "detect"
          /\ class' = Recognised(Mine)
          /\ IF class' = None THEN pc' = "error" /\ UNCHANGED cla
             ELSE pc' = (IF opts.probe THEN "next" ELSE "params") /\ cla' = ClassByte(class')
          /\ at' = "3f00"
          /\ mem' = IF class' # None /\ opts.erase /\ ~opts.probe /\ ~opts.dry_run /\ class' \in Erasable
                    THEN [mem EXCEPT ![bay] = {w \in @ : w.dir # "7f4d" /\ w.file # "000c"}] ELSE mem
          /\ UNCHANGED <<setup, step, bay, first, aids, num, id, deaf, good, log, saved>>

(* gen_parameters takes the number, read_params_csv the row of the card, by*)
(* the ICCID or IMSI it reads from it, if there is one.                    *)
Params ==
  /\ pc = "params"
  /\ at' = IF opts.source = "imsi" /\ Understands(Mine, cla) THEN "7f20" ELSE "3f00"
  /\ id' = IF opts.source = "cmdline" THEN num ELSE Mine.row
  /\ pc' = IF opts.source # "cmdline" /\ (Mine.row = 0 \/ ~Understands(Mine, cla)) THEN "error"
           ELSE IF opts.dry_run THEN "log" ELSE "program"
  /\ step' = IF pc' = "program" THEN 1 ELSE 0
  /\ cla' = IF pc' = "program" THEN ProgramByte(class) ELSE cla
  /\ UNCHANGED <<setup, bay, first, class, aids, num, mem, deaf, good, log, saved>>

(* -------------------------------------------------------- card.program *)
Now == Program(class)[step]
Skipped == \/ Now.of # "any" /\ Now.of \notin aids
           \/ Now.when \in {"given", "exists"} /\ ~(Now.items \subseteq opts.given)
           \/ Now.when \in {"exists", "filled"} /\ Walk(Mine, at, Now.path) = None
Missing == Now.when = "must" /\ ~(Now.items \subseteq opts.given \cup {"new_pin"})
Fails   == \/ Now.op = "raise" \/ Missing \/ ~Understands(Mine, cla)
           \/ Now.op \in {"select", "put"} /\ Walk(Mine, at, Now.path) = None
           \/ Now.op = "app" /\ Now.path[1] \notin Mine.apps
Advance == IF step = Len(Program(class)) THEN pc' = "log" /\ step' = 0 /\ cla' = ClassByte(class)
           ELSE pc' = "program" /\ step' = step + 1 /\ cla' = cla
Written(w) == [mem EXCEPT ![bay] = {v \in @ : ~\E u \in w : v.dir = u.dir /\ v.file = u.file /\ v.item = u.item} \cup w]
Entry(dir, file, item) == [dir |-> dir, file |-> file, item |-> item, id |-> IF item \in opts.given \cup {"new_pin"} THEN id ELSE 0]

(* An exception leaves program(); FairwavesSIM restores its class byte.    *)
StepFails == /\ pc' = "error" /\ step' = 0 /\ cla' = ClassByte(class)
             /\ UNCHANGED card

ProgramStep ==
  /\ pc = "program"
  /\ IF Skipped THEN Advance /\ UNCHANGED card
     ELSE IF Fails THEN StepFails
     ELSE /\ Advance
          /\ CASE Now.op = "select" -> at' = Walk(Mine, at, Now.path) /\ UNCHANGED <<aids, mem, deaf>>
               [] Now.op = "app"    -> at' = Now.path[1] /\ UNCHANGED <<aids, mem, deaf>>
               [] Now.op = "aids"   -> /\ aids' = IF Walk(Mine, at, Now.path) # None THEN Mine.apps ELSE {}
                                       /\ UNCHANGED <<at, mem, deaf>>
               [] Now.op = "put"    -> /\ at' = Walk(Mine, at, Now.path)
                                       /\ mem' = Written({Entry(at', Last(Now.path), i) : i \in Now.items})
                                       /\ UNCHANGED <<aids, deaf>>
               [] Now.op \in {"raw", "cmd"} -> /\ mem' = Written({Entry("card", "key", i) : i \in Now.items})
                                               /\ deaf' = deaf \ Now.items /\ UNCHANGED <<at, aids>>
               [] OTHER -> UNCHANGED card
  /\ UNCHANGED <<setup, bay, first, class, books>>

(* The card refuses a command: only those of send_apdu and read_aids do not*)
(* raise.                                                                  *)
Refused == /\ pc = "program" /\ ~Skipped /\ ~Fails
           /\ IF Now.op = "raw" THEN Advance /\ deaf' = deaf \cup Now.items /\ UNCHANGED <<at, aids, mem>>
              ELSE IF Now.op = "aids" THEN Advance /\ aids' = {} /\ deaf' = deaf \cup {"aids"} /\ UNCHANGED <<at, mem>>
              ELSE StepFails
           /\ UNCHANGED <<setup, bay, first, class, books>>

(* ---------------------------------------------- the end of process_card *)
LogColumns == {"name", "smsp", "iccid", "imsi", "ki", "opc", "plmn"}
(* A row without a column raises; so does the database of subscribers, in  *)
(* any case, but after the CSV file was written.                           *)
Log == /\ pc = "log"
       /\ IF opts.write_csv /\ ~(LogColumns \subseteq opts.given) THEN pc' = "error" /\ UNCHANGED log
          ELSE /\ log' = IF opts.write_csv THEN log \cup {id} ELSE log
               /\ pc' = IF opts.write_hlr THEN "error" ELSE "save"
       /\ UNCHANGED <<setup, step, bay, first, class, cla, card, num, id, good, saved>>

Save_Late == /\ pc = "save"
             /\ pc' = "done"
             /\ UNCHANGED <<setup, step, bay, first, class, cla, card, books>>
Save == /\ pc = "save"
        /\ num' = num + 1
        /\ saved' = IF opts.batch_state THEN num + 1 ELSE saved
        /\ pc' = "done"
        /\ UNCHANGED <<setup, step, bay, first, class, cla, card, id, good, log>>

Done == /\ pc = "done"
        /\ good' = good \cup {[card |-> bay, id |-> id]}
        /\ pc' = "next"
        /\ UNCHANGED <<setup, step, bay, first, class, cla, card, num, id, log, saved>>

Error == /\ pc = "error"
         /\ pc' = "next"
         /\ UNCHANGED <<setup, step, bay, first, class, cla, card, books>>

Iterate == /\ pc = "next"
           /\ pc' = IF opts.batch THEN "get" ELSE "exit"
           /\ first' = FALSE
           /\ UNCHANGED <<setup, step, bay, class, cla, card, books>>

(* The process is killed, or its user interrupts it, and starts it again   *)
(* with the same options.                                                  *)
Running == {"get", "detect", "params", "program", "log", "save", "done", "error", "next"}
Killed == /\ pc \in Running
          /\ pc' = "start" /\ step' = 0 /\ first' = TRUE /\ deaf' = {} /\ class' = None /\ cla' = "a0" /\ num' = 0 /\ id' = 0 /\ aids' = {}
          /\ at' = "3f00"
          /\ good' = {}
          /\ UNCHANGED <<setup, bay, mem, log, saved>>

Work == \/ InitBatch \/ (\E c \in Cards : Get(c)) \/ Detect \/ Params \/ ProgramStep
        \/ Log \/ Save \/ Done \/ Error \/ Iterate
ProgNext == Work \/ Refused \/ Killed
ProgSpec == Init /\ [][ProgNext]_vars

-----------------------------------------------------------------------------
(* Where a card of a class keeps its identity and keys.                    *)
Homes(class_, item) ==
  CASE class_ = "fakemagicsim"   -> IF item = "opc" THEN {} ELSE {<<"3f00", "000c">>}
    [] class_ = "sysmoUSIM-GR1"  -> {<<"card", "key">>}
    [] item = "imsi" -> {<<"7f20", "6f07">>}
    [] item = "iccid" -> IF class_ \in {"grcardsim", "sysmosim-gr1", "sysmoSIM-GR2", "sysmoUSIM-SJS1", "OpenCells-SIM", "gialersim"}
                         THEN {<<"3f00", "2fe2">>} ELSE {}
    [] item = "ki" -> CASE class_ \in {"grcardsim", "sysmosim-gr1"} -> {<<"card", "key">>}
                        [] class_ = "sysmoSIM-GR2"   -> {<<"7f20", "0001">>}
                        [] class_ = "sysmoUSIM-SJS1" -> {<<"7f20", "00ff">>}
                        [] class_ = "Fairwaves-SIM"  -> {<<"7f20", "ff02">>}
                        [] class_ = "OpenCells-SIM"  -> {<<"7ff0", "ff02">>}
                        [] class_ = "gialersim"         -> {<<"3f00", "0001">>}
                        [] class_ \in {"sysmoISIM-SJA2", "sysmoISIM-SJA5"} ->
                             {<<"a515", "6f20">>} \cup {<<a, "af20">> : a \in {"usim", "isim"}}
                        [] OTHER -> {}
    [] OTHER       -> CASE class_ = "sysmoUSIM-SJS1" -> {<<"7f20", "00f7">>}
                        [] class_ = "Fairwaves-SIM"  -> {<<"7f20", "ff01">>}
                        [] class_ = "OpenCells-SIM"  -> {<<"7ff0", "ff01">>}
                        [] class_ = "gialersim"         -> {<<"3f00", "6002">>}
                        [] class_ \in {"sysmoISIM-SJA2", "sysmoISIM-SJA5"} ->
                             {<<"a515", "6f20">>} \cup {<<a, "af20">> : a \in {"usim", "isim"}}
                        [] OTHER -> {}
Keys == {"iccid", "imsi", "ki", "opc"}
Present(w, c) == w[1] \in kind[c].apps \cup {"card", "3f00", "7f20", "7ff0", "a515"}
Carries(c, cls, ident) ==
  \A item \in Keys \cap opts.given : \A w \in Homes(cls, item) :
    Present(w, c) => [dir |-> w[1], file |-> w[2], item |-> item, id |-> ident] \in mem[c]

(* A card that passed program() carries the identity and keys given for it *)
(* in every file where its class keeps them, in the applications too, but  *)
(* for what a status nobody looks at refused.  (With --read-imsi the       *)
(* applications are not found: see the README.)                            *)
ProgrammedIsWhole == pc \in {"log", "save", "done"} /\ ~opts.dry_run /\ opts.source # "imsi" /\ deaf = {}
                       => Carries(bay, class, id)

(* Identities and keys are never written to a file of another meaning: the *)
(* programs select relatively to wherever the step before left the card.   *)
WrittenWhereMeant == opts.type = "auto" =>
  \A c \in Cards : \A w \in mem[c] : w.item \in Keys => <<w.dir, w.file>> \in Homes(kind[c].class, w.item)

(* Two good cards of a run never share the number on the command line.     *)
NumberUsedOnce == opts.source = "cmdline" => \A g, h \in good : g.id = h.id => g = h

(* The state file is ahead of every number a good card has.                *)
SavedIsAhead == opts.batch_state /\ opts.source = "cmdline" => \A g \in good : saved # 0 /\ g.id < saved

(* Every good card is in the CSV file written.                             *)
GoodIsLogged == opts.write_csv => \A g \in good : g.id \in log

(* Outside program() the command layer uses the class byte of the card     *)
(* recognised, after a failed program() too.                               *)
SpeaksItsClass == pc # "program" /\ class # None => cla = ClassByte(class)

\* A card that was programmed has what it was given where it belongs, and
\* nothing anywhere else (pySim-prog.py:750-840, legacy/cards.py).
ProgrammedExactly == ProgrammedIsWhole /\ WrittenWhereMeant /\ SpeaksItsClass

\* The numbers, the state file and the CSV file agree with the good cards
\* (pySim-prog.py:640-720, 790-840).
RunIsAccounted == NumberUsedOnce /\ SavedIsAhead /\ GoodIsLogged
=============================================================================
