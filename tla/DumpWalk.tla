------------------------------ MODULE DumpWalk ------------------------------
(***************************************************************************)
(* pysim_wrapper.py, read_all: the walk over the file tree behind "READ    *)
(* ALL FILES".  _walk_dump calls itself for every directory; its calls in  *)
(* progress are `frames`, innermost first.  It works on names, with the    *)
(* relative select() of RuntimeLchan, and swallows every exception: what a *)
(* failing SELECT leaves selected decides where the next name leads.       *)
(***************************************************************************)
EXTENDS CardFs, FiniteSets

CONSTANTS
  Listing,   \* Listing[d]: the files of directory d in get_selectables order
  Structure, \* Structure[f]: "transparent", "records" or "tlv", from f's FCP
  Outcomes,  \* the functions `access` may be
  Before,    \* what an earlier request may have selected
  MayBePulled

(* What is looked up under the name of a listed file is of its kind:       *)
(* nothing but the root is called MF (filesystem.py:59, RESERVED_NAMES); a *)
(* directory's name begins with DF or ADF, that of an elementary file with *)
(* EF, and no FID or AID does.  A directory of the profile lists what is   *)
(* in it, each file once and under a name of its own (filesystem.py:358-   *)
(* 385: add_file refuses a second child of the same name; 408-425: the     *)
(* children are put last into the dict of what can be selected).           *)
ASSUME DumpAssumption ==
  /\ Listing \in [Files \ EFs -> Seq(Files)]
  /\ Before \subseteq Seq(STRING) \ {<<>>}
  /\ \A f \in Files \ {MF} : Name(MF) \notin Ids(f)
  /\ \A d \in Files \ EFs : \A i \in 1..Len(Listing[d]) : \A g \in Files :
       Name(Listing[d][i]) \in Ids(g) => (g \in EFs <=> Listing[d][i] \in EFs)
  /\ \A d \in Profile \ EFs :
       /\ {Listing[d][i] : i \in 1..Len(Listing[d])} = {f \in Profile \ {MF} : Parent(f) = d}
       /\ \A i, j \in 1..Len(Listing[d]) : Listing[d][i] = Listing[d][j] => i = j
       /\ \A i \in 1..Len(Listing[d]) : Lookup(Profile, d, Name(Listing[d][i])) \subseteq {Listing[d][i]}

Paths  == Before \cup {<<Name(f)>> : f \in Files}
HexIds == {}

VARIABLES
  tree, sel, adf, fcp, cur, alive, stack, hops, at, data, raised, call,
  phase,   \* where read_all is
  frames,  \* the calls of _walk_dump: [dir, todo, before]
  dump,    \* result['files']: path |-> entry
  outcome, \* what read_all returned
  access   \* access[f]: reading f is "ok", "refused" by the card, or f is not
           \* of the class the profile says ("mismatched") (external)

Chan == INSTANCE RuntimeLchan

chanVars == <<tree, sel, adf, fcp, cur, alive, stack, hops, at, data, raised, call>>
vars     == <<chanVars, phase, frames, dump, outcome, access>>

Top      == Head(frames)
Frame(d, before) == [dir |-> d, todo |-> Listing[d], before |-> before]
InSelect == stack # <<>>
Entry(kind, of) == [kind |-> kind, of |-> of, fcp |-> fcp]
Error    == [kind |-> "error", of |-> NoFile, fcp |-> NoFile]
Put(path, entry) ==
  dump' = [p \in DOMAIN dump \cup {path} |-> IF p = path THEN entry ELSE dump[p]]
Size     == Cardinality(DOMAIN dump)

Init == /\ Chan!Init /\ phase = "idle" /\ frames = <<>> /\ dump = <<>> /\ outcome = "none"
        /\ access \in Outcomes
-----------------------------------------------------------------------------
Browse ==
  /\ phase = "idle" /\ phase' = "browse"
  /\ \E ids \in Before : Chan!CallSelect(ids)
  /\ UNCHANGED <<frames, dump, outcome, access>>

StartReadAll ==
  /\ phase \in {"idle", "browse"} /\ ~InSelect /\ phase' = "root"
  /\ Chan!CallSelect(<<Name(MF)>>)
  /\ UNCHANGED <<frames, dump, outcome, access>>

Selecting == Chan!Step /\ UNCHANGED <<phase, frames, dump, outcome, access>>

RootFailed ==
  /\ phase = "root" /\ ~InSelect /\ raised
  /\ phase' = "done" /\ outcome' = "failed"
  /\ UNCHANGED <<chanVars, frames, dump, access>>

RootSelected ==
  /\ phase = "root" /\ ~InSelect /\ ~raised
  /\ Put(MF, Entry("dir", cur)) /\ frames' = <<Frame(sel, 0)>>
  /\ phase' = "walk"
  /\ UNCHANGED <<chanVars, outcome, access>>

\* Mutant: the name stays on the list.
NextName_Again ==
  /\ phase = "walk" /\ Top.todo # <<>>
  /\ LET f == Head(Top.todo) IN
       /\ Chan!CallSelect(<<Name(f)>>)
       /\ phase' = IF IsDF(f) THEN "dir" ELSE "file"
  /\ UNCHANGED <<frames, dump, outcome, access>>

\* the next name of the listing is selected, in whatever directory we are in
NextName ==
  /\ phase = "walk" /\ Top.todo # <<>>
  /\ LET f == Head(Top.todo) IN
       /\ Chan!CallSelect(<<Name(f)>>)
       /\ phase' = IF IsDF(f) THEN "dir" ELSE "file"
  /\ frames' = [frames EXCEPT ![1].todo = Tail(@)]
  /\ UNCHANGED <<dump, outcome, access>>

DirRefused ==
  /\ phase = "dir" /\ ~InSelect /\ raised /\ phase' = "walk"
  /\ UNCHANGED <<chanVars, frames, dump, outcome, access>>

DirEntered ==
  /\ phase = "dir" /\ ~InSelect /\ ~raised /\ phase' = "walk"
  /\ Put(sel, Entry("dir", cur)) /\ frames' = <<Frame(sel, Size)>> \o frames
  /\ UNCHANGED <<chanVars, outcome, access>>

\* Mutant: the walk does not go back up.
DirDone_Stays ==
  /\ phase = "walk" /\ Top.todo = <<>> /\ Len(frames) > 1
  /\ dump' = IF Size = Top.before + 1 THEN [p \in DOMAIN dump \ {Top.dir} |-> dump[p]] ELSE dump
  /\ UNCHANGED chanVars
  /\ frames' = Tail(frames) /\ phase' = "up"
  /\ UNCHANGED <<outcome, access>>

\* a directory in which nothing was found is taken out again
DirDone ==
  /\ phase = "walk" /\ Top.todo = <<>> /\ Len(frames) > 1
  /\ dump' = IF Size = Top.before + 1 THEN [p \in DOMAIN dump \ {Top.dir} |-> dump[p]] ELSE dump
  /\ Chan!CallSelectFile(Parent(sel))
  /\ frames' = Tail(frames) /\ phase' = "up"
  /\ UNCHANGED <<outcome, access>>

\* select_file(parent) returned, with or without an exception
BackInDir ==
  /\ phase \in {"up", "left"} /\ ~InSelect /\ phase' = "walk"
  /\ UNCHANGED <<chanVars, frames, dump, outcome, access>>

Finish ==
  /\ phase = "walk" /\ Top.todo = <<>> /\ Len(frames) = 1
  /\ phase' = "done" /\ outcome' = "success"
  /\ UNCHANGED <<chanVars, frames, dump, access>>
-----------------------------------------------------------------------------
(* _dump_single_file.                                                      *)

\* only a SwMatchError makes an entry: the card refused a SELECT.  An unknown
\* name and a lost link raise other exceptions.
FileRefused ==
  /\ phase = "file" /\ ~InSelect /\ raised /\ phase' = "finally"
  /\ IF alive /\ Lookup(tree, sel, call.ids[1]) # {}
     THEN Put(Append(sel, call.ids[1]), Error) ELSE UNCHANGED dump
  /\ UNCHANGED <<chanVars, frames, outcome, access>>

FileSelected ==
  /\ phase = "file" /\ ~InSelect /\ ~raised /\ phase' = "read"
  /\ UNCHANGED <<chanVars, frames, dump, outcome, access>>

Moved == UNCHANGED <<tree, sel, adf, fcp, stack, hops, at, data, raised, call>>

\* READ BINARY, READ RECORD, RETRIEVE DATA select the file again by its FID
ReadOk ==
  /\ phase = "read" /\ alive /\ access[sel] # "mismatched"
  /\ \E g \in CardFind(cur, Fid[sel]) :
       g \in EFs /\ access[g] = "ok" /\ cur' = g /\ Put(sel, Entry("data", g))
  /\ phase' = "finally" /\ Moved /\ UNCHANGED <<alive, frames, outcome, access>>

\* _read_records_raw_dec stops at a refused record and returns what it has;
\* the others let the SwMatchError reach the except clause, which takes the
\* selected file for its directory
ReadRefused ==
  /\ phase = "read" /\ alive /\ access[sel] # "mismatched"
  /\ \E g \in CardFind(cur, Fid[sel]) :
       g \in EFs /\ access[g] = "refused" /\ cur' = g
       /\ IF Structure[sel] = "records" THEN Put(sel, Entry("cut", g))
                                       ELSE Put(Append(sel, Name(sel)), Error)
  /\ phase' = "finally" /\ Moved /\ UNCHANGED <<alive, frames, outcome, access>>

\* TypeError, ReaderError: no entry
ReadRaises ==
  /\ phase = "read" /\ (~alive \/ access[sel] = "mismatched")
  /\ phase' = "finally" /\ UNCHANGED <<chanVars, frames, dump, outcome, access>>

\* the link fails between two tags: their exceptions are swallowed one by one
ReadCut ==
  /\ MayBePulled /\ phase = "read" /\ alive /\ access[sel] = "ok" /\ Structure[sel] = "tlv"
  /\ \E g \in CardFind(cur, Fid[sel]) : cur' = g /\ Put(sel, Entry("cut", g))
  /\ alive' = FALSE
  /\ phase' = "finally" /\ Moved /\ UNCHANGED <<frames, outcome, access>>

Leave ==
  /\ phase = "finally"
  /\ IF sel \in EFs THEN Chan!CallSelectFile(Parent(sel)) /\ phase' = "left"
                    ELSE UNCHANGED chanVars /\ phase' = "walk"
  /\ UNCHANGED <<frames, dump, outcome, access>>

\* the link is lost; it shows at the next APDU
Pulled ==
  /\ MayBePulled /\ alive /\ alive' = FALSE
  /\ phase = "read" \/ Chan!Top("hop")
  /\ UNCHANGED <<tree, sel, adf, fcp, cur, stack, hops, at, data, raised, call,
                 phase, frames, dump, outcome, access>>
-----------------------------------------------------------------------------
Walk == \/ StartReadAll \/ Selecting \/ RootFailed \/ RootSelected \/ NextName
        \/ DirRefused \/ DirEntered \/ DirDone \/ BackInDir \/ Finish
        \/ FileRefused \/ FileSelected \/ ReadOk \/ ReadRefused \/ ReadRaises \/ Leave

Next == Browse \/ Walk \/ ReadCut \/ Pulled

Spec == Init /\ [][Next]_vars

\* one thread walks, and the request that started it waits for it
FairSpec == Spec /\ WF_vars(Walk)
-----------------------------------------------------------------------------
(* Properties.                                                             *)

\* An entry of the dump shows the file its path names: the content is that
\* file's and so are the FCP's attributes, whatever failed on the way there.
DumpTellsTheTruth ==
  \A p \in DOMAIN dump : dump[p].kind # "error" => dump[p].of = p /\ dump[p].fcp = p

\* A dump that ended with the link intact says of every file the profile knows
\* below the directories of the card what became of it; only one of the wrong
\* class is left out.
Reported(f) == f \in DOMAIN dump \/ Append(f, Name(f)) \in DOMAIN dump
AllReported ==
  phase = "done" /\ outcome = "success" /\ alive =>
    \A f \in Profile \cap EFs :
      Dirs(f) \subseteq OnCard /\ (f \in OnCard => access[f] # "mismatched") => Reported(f)

\* No directory is listed in which there is nothing ("Remove empty DFs",
\* pysim_wrapper.py:374), even when the link was lost in the middle.
NoEmptyDirectory ==
  phase = "done" => \A d \in DOMAIN dump \ {MF} :
    dump[d].kind = "dir" => \E p \in DOMAIN dump : Len(p) > Len(d) /\ Prefix(p, Len(d)) = d

\* The dump leaves nothing out and has nothing that is not there.
DumpIsComplete == AllReported /\ NoEmptyDirectory

\* "READ ALL FILES" comes to an end, whenever the link is lost.
WalkEnds == (phase = "root") ~> (phase = "done")
=============================================================================
