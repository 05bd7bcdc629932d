--------------------------- MODULE CardTree_proofs ---------------------------
(***************************************************************************)
(* The two components that know a card only by its tree, for every tree    *)
(* and card.  The dump tells the truth, whatever the listing, the access   *)
(* rules and the moment the link is lost: the channel's invariant holds    *)
(* under the walk, and a select that did not fail has reached its file.    *)
(* And it misses nothing while the link holds: every file not reported yet *)
(* has on its path a name that some call of the walk has still to do.      *)
(* And the tracer shows what went over the line, for every number of       *)
(* channels, every SELECT and every length of the capture.                 *)
(***************************************************************************)
EXTENDS DumpWalk, ApduTrace, FiniteSetTheorems, SequenceTheorems, WellFoundedInduction, TLAPS

P == INSTANCE RuntimeLchan_proofs

Listed   == UNION {{Listing[d][i] : i \in 1..Len(Listing[d])} : d \in Files \ EFs}
FrameSet == [dir : Files, todo : Seq(Listed), before : Nat]

\* Where read_all is: no select() under way, which one it waits for, and which
\* directories are still to be done.
Where   == phase \in {"idle", "walk", "read", "finally", "done"} => stack = <<>>
Asked   == /\ phase = "root" => call.kind = "select" /\ call.ids = <<Name(MF)>>
           /\ phase \in {"dir", "file"} =>
                /\ call.kind = "select"
                /\ \E f \in Listed : call.ids = <<Name(f)>> /\ (phase = "dir" <=> IsDF(f))
Reading == phase = "read" => sel \in EFs /\ cur = sel
Walking == phase \in {"walk", "dir", "file", "read", "finally", "up", "left"} =>
             frames \in Seq(FrameSet) /\ frames # <<>>

DumpInv == /\ P!Channel /\ Where /\ Asked /\ Reading /\ Walking
           /\ IsFiniteSet(DOMAIN dump) /\ DumpTellsTheTruth
-----------------------------------------------------------------------------
(* The channel under the walk.                                             *)

LEMMA SameTree ==
  /\ P!NoFile = NoFile
  /\ \A f, n : P!Prefix(f, n) = Prefix(f, n)
  /\ \A f : P!Name(f) = Name(f) /\ P!Ids(f) = Ids(f)
  /\ \A f : P!Parent(f) = Parent(f) /\ P!Dirs(f) = Dirs(f) /\ P!Cwd(f) = Cwd(f)
  /\ \A f : P!FidScope(f) = FidScope(f)
<1>1. \A f, n : P!Prefix(f, n) = Prefix(f, n)
  BY DEF P!Prefix, Prefix
<1>2. \A f : P!Name(f) = Name(f)
  BY DEF P!Name, Name
<1>3. \A f : P!Ids(f) = Ids(f)
  BY <1>2 DEF P!Ids, Ids
<1>4. \A f : P!Parent(f) = Parent(f) /\ P!Dirs(f) = Dirs(f)
  BY <1>1 DEF P!Parent, Parent, P!Dirs, Dirs
<1>5. \A f : P!Cwd(f) = Cwd(f)
  BY <1>4 DEF P!Cwd, Cwd
<1>6. \A f : P!FidScope(f) = FidScope(f)
  BY <1>4, <1>5 DEF P!FidScope, FidScope
<1>7. P!NoFile = NoFile
  BY DEF P!NoFile, NoFile
<1> QED BY <1>1, <1>2, <1>3, <1>4, <1>5, <1>6, <1>7

\* Every name is a path of one name.
LEMMA PathsAreShaped == Paths \subseteq Seq(STRING) \ {<<>>}
<1>1. ASSUME NEW f \in Files PROVE <<Name(f)>> \in Seq(STRING) \ {<<>>}
  <2>1. f \in Seq(STRING) /\ Len(f) \in 1..Len(f)
    BY TreeShape
  <2>2. Name(f) \in STRING
    BY <2>1 DEF Name
  <2> QED BY <2>2
<1>2. Before \subseteq Seq(STRING) \ {<<>>}
  BY DumpAssumption
<1>3. {<<Name(f)>> : f \in Files} \subseteq Seq(STRING) \ {<<>>}
  BY <1>1
<1> QED BY <1>2, <1>3 DEF Paths

LEMMA ChannelBegins == P!Init => P!Channel
BY TreeShape, KnownShape, FidUnique, PathsAreShaped, SameTree, P!ChannelBegins

LEMMA ChannelKeeps == P!NoBlindSiblings /\ P!Channel /\ [P!Next]_(P!vars) => P!Channel'
BY TreeShape, KnownShape, FidUnique, PathsAreShaped, SameTree, P!ChannelKeeps

LEMMA ChannelRests ==
  P!Channel /\ stack = <<>> =>
    /\ sel \in tree \cap OnCard /\ fcp = sel /\ Parent(sel) \in tree /\ (alive \/ ~raised => cur = sel)
    /\ \A last : call.kind = "select" /\ ~raised /\ call.ids = <<last>> => last \in P!Ids(sel)
BY TreeShape, KnownShape, FidUnique, PathsAreShaped, SameTree, P!ChannelRests

LEMMA NoBlind == P!NoBlindSiblings
BY DEF P!NoBlindSiblings, HexIds

LEMMA StepKeepsChannel ==
  ASSUME P!Channel, P!Next PROVE P!Channel'
BY NoBlind, ChannelKeeps

LEMMA RestKeepsChannel ==
  ASSUME P!Channel, UNCHANGED chanVars PROVE P!Channel'
<1>1. UNCHANGED P!vars
  BY DEF chanVars, P!vars
<1> QED BY <1>1, NoBlind, ChannelKeeps

\* What the walk asks of the channel are steps of it.
LEMMA SelectsReach ==
  ASSUME P!Channel, NEW ids \in Paths, Chan!CallSelect(ids)
  PROVE  P!Channel' /\ call'.kind = "select" /\ call'.ids = ids
<1>1. P!CallSelect(ids)
  BY DEF Chan!CallSelect, P!CallSelect, Chan!Frame, P!Frame, Chan!lchan, P!lchan,
         Chan!card, P!card, Chan!loop, P!loop, Chan!NoFile, P!NoFile
<1>2. P!Next
  BY <1>1 DEF P!Next
<1>3. call'.kind = "select" /\ call'.ids = ids
  BY DEF Chan!CallSelect
<1> QED BY <1>2, <1>3, StepKeepsChannel

LEMMA SelectsFile ==
  ASSUME P!Channel, stack = <<>>, Chan!CallSelectFile(Parent(sel))
  PROVE  P!Channel'
<1>2. Parent(sel) \in tree
  BY ChannelRests
<1>3. P!CallSelectFile(Parent(sel))
  BY DEF Chan!CallSelectFile, P!CallSelectFile, Chan!Frame, P!Frame, Chan!lchan, P!lchan,
         Chan!card, P!card, Chan!loop, P!loop, Chan!NoFile, P!NoFile
<1>4. P!Next
  BY <1>2, <1>3 DEF P!Next
<1> QED BY <1>4, StepKeepsChannel

LEMMA SameChanTree ==
  /\ Chan!NoFile = NoFile
  /\ \A f : Chan!Name(f) = Name(f)
  /\ \A f, g : Chan!BuildSelectPathTo(f, g) = P!BuildSelectPathTo(f, g)
  /\ \A t, f, id : Chan!Lookup(t, f, id) = P!Lookup(t, f, id)
  /\ \A f, id : Chan!CardFind(f, id) = P!CardFind(f, id)
<1>1. \A f, n : Chan!Prefix(f, n) = P!Prefix(f, n)
  BY DEF Chan!Prefix, P!Prefix
<1>2. \A f : Chan!Name(f) = P!Name(f)
  BY DEF Chan!Name, P!Name
<1>3. \A f : Chan!Ids(f) = P!Ids(f)
  BY <1>2 DEF Chan!Ids, P!Ids
<1>4. \A f : Chan!Parent(f) = P!Parent(f) /\ Chan!Dirs(f) = P!Dirs(f)
  BY <1>1 DEF Chan!Parent, P!Parent, Chan!Dirs, P!Dirs
<1>5. \A f : Chan!Cwd(f) = P!Cwd(f)
  BY <1>4 DEF Chan!Cwd, P!Cwd
<1>6. \A t, f, id : Chan!Lookup(t, f, id) = P!Lookup(t, f, id)
  BY <1>3, <1>4, <1>5 DEF Chan!Lookup, P!Lookup, Chan!Selectables, P!Selectables
<1>7. \A f, id : Chan!CardFind(f, id) = P!CardFind(f, id)
  BY <1>4, <1>5 DEF Chan!CardFind, P!CardFind, Chan!FidScope, P!FidScope
<1>8. \A f, g : Chan!CommonDepth(f, g) = P!CommonDepth(f, g)
  BY <1>1 DEF Chan!CommonDepth, P!CommonDepth
<1>9. \A f, g : Chan!UpDown(f, g) = P!UpDown(f, g)
  BY <1>1, <1>8 DEF Chan!UpDown, P!UpDown
<1>10. \A f : Chan!ClipPath(f) = P!ClipPath(f)
  BY DEF Chan!ClipPath, P!ClipPath
<1>11. \A f, g : Chan!BuildSelectPathTo(f, g) = P!BuildSelectPathTo(f, g)
  BY <1>9, <1>10 DEF Chan!BuildSelectPathTo, P!BuildSelectPathTo
<1>12. Chan!NoFile = NoFile
  BY DEF Chan!NoFile, NoFile
<1> QED BY <1>2, <1>6, <1>7, <1>11, <1>12, SameTree

LEMMA SameStep ==
  ASSUME Chan!Step PROVE P!Step /\ stack # <<>> /\ call' = call
<1>1. stack # <<>> /\ call' = call
  BY DEF Chan!Step, Chan!PathStep, Chan!SelectKnown, Chan!SelectUnknown, Chan!TryReturn, Chan!GoBack,
         Chan!Reraise, Chan!Escape, Chan!StartHops, Chan!HopOk, Chan!HopRefused, Chan!HopsDone, Chan!HopLost,
         Chan!ProbeOk, Chan!ProbeFailed, Chan!Top
<1> USE DEF Chan!Top, P!Top, Chan!Return, P!Return, Chan!Become, P!Become, Chan!Call, P!Call, Chan!Frame, P!Frame,
            Chan!lchan, P!lchan, Chan!card, P!card, Chan!loop, P!loop
<1>2. CASE Chan!PathStep
  BY <1>2, SameTree, SameChanTree DEF Chan!PathStep, P!PathStep, P!Step
<1>3. CASE Chan!SelectKnown
  BY <1>3, SameTree, SameChanTree DEF Chan!SelectKnown, P!SelectKnown, P!Step
<1>4. CASE Chan!SelectUnknown
  BY <1>4, SameTree, SameChanTree DEF Chan!SelectUnknown, P!SelectUnknown, P!Step
<1>5. CASE Chan!TryReturn
  BY <1>5 DEF Chan!TryReturn, P!TryReturn, P!Step
<1>6. CASE Chan!GoBack
  BY <1>6, SameTree, SameChanTree DEF Chan!GoBack, P!GoBack, P!Step
<1>7. CASE Chan!Reraise
  BY <1>7 DEF Chan!Reraise, P!Reraise, P!Step
<1>8. CASE Chan!Escape
  BY <1>8, SameTree, SameChanTree DEF Chan!Escape, P!Escape, P!Step, Chan!Trapped, P!Trapped
<1>9. CASE Chan!StartHops
  BY <1>9, SameTree, SameChanTree DEF Chan!StartHops, P!StartHops, P!Step
<1>10. CASE Chan!HopOk
  BY <1>10, SameChanTree DEF Chan!HopOk, P!HopOk, P!Step, Chan!Answers, P!Answers
<1>11. CASE Chan!HopRefused
  BY <1>11, SameChanTree DEF Chan!HopRefused, P!HopRefused, P!Step, Chan!Answers, P!Answers
<1>12. CASE Chan!HopsDone
  BY <1>12, SameTree, SameChanTree DEF Chan!HopsDone, P!HopsDone, P!Step, Chan!SelectPost, P!SelectPost
<1>13. CASE Chan!HopLost
  BY <1>13, SameTree, SameChanTree DEF Chan!HopLost, P!HopLost, P!Step
<1>14. CASE Chan!ProbeOk
  BY <1>14, SameChanTree DEF Chan!ProbeOk, P!ProbeOk, P!Step
<1>15. CASE Chan!ProbeFailed
  BY <1>15, SameChanTree DEF Chan!ProbeFailed, P!ProbeFailed, P!Step
<1> QED BY <1>1, <1>2, <1>3, <1>4, <1>5, <1>6, <1>7, <1>8, <1>9, <1>10, <1>11, <1>12, <1>13, <1>14, <1>15
        DEF Chan!Step
-----------------------------------------------------------------------------
(* The dump.                                                               *)

True(p, entry) == entry.kind # "error" => entry.of = p /\ entry.fcp = p

LEMMA PutFacts ==
  ASSUME IsFiniteSet(DOMAIN dump), DumpTellsTheTruth, NEW p, NEW entry, Put(p, entry), True(p, entry)
  PROVE  IsFiniteSet(DOMAIN dump') /\ DumpTellsTheTruth'
<1>1. DOMAIN dump' = DOMAIN dump \cup {p}
  BY DEF Put
<1>2. \A q \in DOMAIN dump' : dump'[q] = IF q = p THEN entry ELSE dump[q]
  BY DEF Put
<1>3. IsFiniteSet(DOMAIN dump')
  BY <1>1, FS_AddElement
<1>4. DumpTellsTheTruth'
  BY <1>1, <1>2 DEF DumpTellsTheTruth, True
<1> QED BY <1>3, <1>4

\* At rest the selected file is the one whose FCP is cached; it is the card's
\* current file if the link holds or the last request did not fail.
LEMMA AtRest ==
  ASSUME P!Channel, stack = <<>>
  PROVE  /\ sel \in Files \cap OnCard /\ fcp = sel /\ (alive \/ ~raised => cur = sel)
         /\ \A name : call.kind = "select" /\ call.ids = <<name>> /\ ~raised => name \in Ids(sel)
<1>1. sel \in Files
  BY ChannelRests, KnownShape
<1> QED BY <1>1, ChannelRests, SameTree

LEMMA ListedFacts ==
  ASSUME NEW f \in Listed
  PROVE  f \in Files /\ <<Name(f)>> \in Paths
         /\ \A g \in Files : Name(f) \in Ids(g) => (g \in EFs <=> f \in EFs)
<1>1. PICK d \in Files \ EFs : f \in {Listing[d][i] : i \in 1..Len(Listing[d])}
  BY DEF Listed
<1>2. PICK i \in 1..Len(Listing[d]) : f = Listing[d][i]
  BY <1>1
<1>3. f \in Files
  BY <1>2, DumpAssumption
<1> QED BY <1>2, <1>3, DumpAssumption DEF Paths

LEMMA ListingFacts ==
  ASSUME NEW d \in Files \ EFs PROVE Listing[d] \in Seq(Listed)
<1>1. Listing[d] \in Seq(Files)
  BY DumpAssumption
<1>2. \A i \in 1..Len(Listing[d]) : Listing[d][i] \in Listed
  BY DEF Listed
<1> QED BY <1>1, <1>2

LEMMA FrameFacts ==
  ASSUME NEW d \in Files \ EFs, NEW n \in Nat PROVE Frame(d, n) \in FrameSet
BY ListingFacts DEF Frame, FrameSet

\* READ and UPDATE select the EF again by its FID: where the card already is.
LEMMA FoundAgain ==
  ASSUME NEW f \in EFs \cap OnCard, NEW g \in CardFind(f, Fid[f]) PROVE g = f
<1>1. f \in Files \ ADFs /\ f # MF /\ Cwd(f) = Parent(f) /\ f \notin ADFs
  BY TreeShape DEF Cwd
<1>2. f \in FidScope(f)
  BY <1>1 DEF FidScope
<1> QED BY <1>2, FidUnique DEF CardFind
-----------------------------------------------------------------------------
LEMMA InitDumpInv == Init => DumpInv
<1> SUFFICES ASSUME Init PROVE DumpInv
  OBVIOUS
<1>1. P!Init
  BY SameTree DEF Init, Chan!Init, P!Init, Chan!NoFile, P!NoFile, Chan!NoCall, P!NoCall
<1>2. P!Channel
  BY <1>1, ChannelBegins
<1>3. stack = <<>> /\ DOMAIN dump = {}
  BY DEF Init, Chan!Init
<1>4. IsFiniteSet(DOMAIN dump)
  BY <1>3, FS_EmptySet
<1> QED BY <1>2, <1>3, <1>4 DEF Init, DumpInv, Where, Asked, Reading, Walking, DumpTellsTheTruth

\* Steps after which the channel is where it was, and those of the channel.
LEMMA BrowseKeeps == ASSUME DumpInv, Browse PROVE DumpInv'
<1>1. PICK ids \in Before : Chan!CallSelect(ids)
  BY DEF Browse
<1>2. P!Channel'
  BY <1>1, SelectsReach DEF DumpInv, Paths
<1> QED BY <1>2 DEF Browse, DumpInv, Where, Asked, Reading, Walking, DumpTellsTheTruth

LEMMA StartKeeps == ASSUME DumpInv, StartReadAll PROVE DumpInv'
<1>1. <<Name(MF)>> \in Paths
  BY TreeShape DEF Paths
<1>2. P!Channel' /\ call'.kind = "select" /\ call'.ids = <<Name(MF)>>
  BY <1>1, SelectsReach DEF DumpInv, StartReadAll
<1> QED BY <1>2 DEF StartReadAll, DumpInv, Where, Asked, Reading, Walking, DumpTellsTheTruth

LEMMA SelectingKeeps == ASSUME DumpInv, Selecting PROVE DumpInv'
<1>1. P!Next /\ stack # <<>> /\ call' = call
  BY SameStep DEF Selecting, P!Next
<1>2. P!Channel'
  BY <1>1, StepKeepsChannel DEF DumpInv
<1>3. UNCHANGED <<phase, frames, dump>>
  BY DEF Selecting
<1>4. phase \notin {"idle", "walk", "read", "finally", "done"}
  BY <1>1 DEF DumpInv, Where
<1> QED BY <1>1, <1>2, <1>3, <1>4 DEF DumpInv, Where, Asked, Reading, Walking, DumpTellsTheTruth

LEMMA RestKeeps ==
  ASSUME DumpInv, RootFailed \/ DirRefused \/ BackInDir \/ Finish \/ ReadRaises
  PROVE  DumpInv'
<1>1. P!Channel' /\ UNCHANGED <<stack, call, sel, cur, frames, dump>>
  BY RestKeepsChannel DEF DumpInv, RootFailed, DirRefused, BackInDir, Finish, ReadRaises, chanVars
<1>2. stack = <<>>
  BY DEF DumpInv, Where, RootFailed, DirRefused, BackInDir, Finish, ReadRaises, InSelect
<1>3. /\ phase' \in {"done", "walk", "finally"}
      /\ phase' # "done" => phase \in {"dir", "up", "left", "read"}
  BY DEF RootFailed, DirRefused, BackInDir, Finish, ReadRaises
<1> QED BY <1>1, <1>2, <1>3 DEF DumpInv, Where, Asked, Reading, Walking, DumpTellsTheTruth

\* The root is entered, or a directory: what was asked for is selected.
LEMMA RootKeeps == ASSUME DumpInv, RootSelected PROVE DumpInv'
<1>1. P!Channel' /\ UNCHANGED <<stack, call, sel, cur>> /\ stack = <<>> /\ ~raised
  BY RestKeepsChannel DEF DumpInv, RootSelected, chanVars, InSelect
<1>2. sel \in Files /\ Name(MF) \in Ids(sel) /\ cur = sel /\ fcp = sel
  BY <1>1, AtRest DEF DumpInv, Asked, RootSelected
<1>3. sel = MF
  BY <1>2, DumpAssumption
<1>4. True(MF, Entry("dir", cur))
  BY <1>2, <1>3 DEF True, Entry
<1>5. IsFiniteSet(DOMAIN dump') /\ DumpTellsTheTruth'
  BY <1>4, PutFacts DEF DumpInv, RootSelected
<1>6. frames' \in Seq(FrameSet) /\ frames' # <<>>
  <2>1. Frame(sel, 0) \in FrameSet
    BY <1>3, TreeShape, FrameFacts
  <2> QED BY <2>1 DEF RootSelected
<1> QED BY <1>1, <1>5, <1>6 DEF RootSelected, DumpInv, Where, Asked, Reading, Walking

LEMMA DirKeeps == ASSUME DumpInv, DirEntered PROVE DumpInv'
<1>1. P!Channel' /\ UNCHANGED <<stack, call, sel, cur>> /\ stack = <<>> /\ ~raised
  BY RestKeepsChannel DEF DumpInv, DirEntered, chanVars, InSelect
<1>2. PICK f \in Listed : call.kind = "select" /\ call.ids = <<Name(f)>> /\ IsDF(f)
  BY DEF DumpInv, Asked, DirEntered
<1>3. sel \in Files /\ Name(f) \in Ids(sel) /\ cur = sel /\ fcp = sel
  BY <1>1, <1>2, AtRest DEF DumpInv
<1>4. sel \notin EFs
  BY <1>2, <1>3, ListedFacts DEF IsDF
<1>5. True(sel, Entry("dir", cur))
  BY <1>3 DEF True, Entry
<1>6. IsFiniteSet(DOMAIN dump') /\ DumpTellsTheTruth'
  BY <1>5, PutFacts DEF DumpInv, DirEntered
<1>7. frames' \in Seq(FrameSet) /\ frames' # <<>>
  <2>1. Size \in Nat
    BY FS_CardinalityType DEF DumpInv, Size
  <2>2. Frame(sel, Size) \in FrameSet
    BY <1>3, <1>4, <2>1, FrameFacts
  <2>3. frames \in Seq(FrameSet)
    BY DEF DumpInv, Walking, DirEntered
  <2> QED BY <2>2, <2>3 DEF DirEntered
<1> QED BY <1>1, <1>6, <1>7 DEF DirEntered, DumpInv, Where, Asked, Reading, Walking

LEMMA NameKeeps == ASSUME DumpInv, NextName PROVE DumpInv'
<1> DEFINE f == Head(Top.todo)
<1>1. frames \in Seq(FrameSet) /\ frames # <<>> /\ Top.todo # <<>>
  BY DEF DumpInv, Walking, NextName
<1>2. frames[1] \in FrameSet /\ Top = frames[1] /\ frames[1].todo \in Seq(Listed) /\ 1 \in DOMAIN frames
  <2>1. Len(frames) \in Nat /\ Len(frames) >= 1 /\ DOMAIN frames = 1..Len(frames)
    BY <1>1
  <2>2. frames[1] \in FrameSet /\ Top = frames[1]
    BY <1>1, <2>1 DEF Top
  <2> QED BY <2>1, <2>2 DEF FrameSet
<1>3. f \in Listed /\ Tail(Top.todo) \in Seq(Listed)
  BY <1>1, <1>2
<1>4. Chan!CallSelect(<<Name(f)>>) /\ phase' = IF IsDF(f) THEN "dir" ELSE "file"
  BY DEF NextName
<1> HIDE DEF f
<1>5. P!Channel' /\ call'.kind = "select" /\ call'.ids = <<Name(f)>>
  BY <1>3, <1>4, ListedFacts, SelectsReach DEF DumpInv
<1>6. frames' \in Seq(FrameSet) /\ frames' # <<>>
  <2> DEFINE e == [frames[1] EXCEPT !.todo = Tail(Top.todo)]
  <2>1. e \in FrameSet
    BY <1>2, <1>3 DEF FrameSet
  <2>2. frames' = [frames EXCEPT ![1] = e]
    BY <1>2 DEF NextName
  <2> HIDE DEF e
  <2> QED BY <1>1, <1>2, <2>1, <2>2
<1>7. dump' = dump
  BY DEF NextName
<1> QED BY <1>3, <1>4, <1>5, <1>6, <1>7 DEF DumpInv, Where, Asked, Reading, Walking, DumpTellsTheTruth

LEMMA DoneKeeps == ASSUME DumpInv, DirDone PROVE DumpInv'
<1>1. P!Channel'
  BY SelectsFile DEF DumpInv, DirDone, Chan!CallSelectFile
<1>2. DOMAIN dump' \subseteq DOMAIN dump /\ \A p \in DOMAIN dump' : dump'[p] = dump[p]
  BY DEF DirDone
<1>3. IsFiniteSet(DOMAIN dump')
  BY <1>2, FS_Subset DEF DumpInv
<1>4. frames' \in Seq(FrameSet) /\ frames' # <<>>
  <2>1. frames \in Seq(FrameSet) /\ Len(frames) > 1 /\ frames' = Tail(frames)
    BY DEF DumpInv, Walking, DirDone
  <2>2. Len(frames') = Len(frames) - 1 /\ frames' \in Seq(FrameSet)
    BY <2>1
  <2> QED BY <2>1, <2>2
<1> QED BY <1>1, <1>2, <1>3, <1>4 DEF DirDone, DumpInv, Where, Asked, Reading, Walking, DumpTellsTheTruth

LEMMA LeaveKeeps == ASSUME DumpInv, Leave PROVE DumpInv'
<1>1. P!Channel' /\ (phase' = "walk" => stack' = <<>>)
  <2>1. CASE sel \in EFs
    BY <2>1, SelectsFile DEF DumpInv, Leave, Chan!CallSelectFile
  <2>2. CASE sel \notin EFs
    BY <2>2, RestKeepsChannel DEF DumpInv, Where, Leave, chanVars
  <2> QED BY <2>1, <2>2
<1>2. UNCHANGED <<frames, dump>> /\ phase = "finally" /\ phase' \in {"walk", "left"}
  BY DEF Leave
<1> QED BY <1>1, <1>2 DEF DumpInv, Where, Asked, Reading, Walking, DumpTellsTheTruth
-----------------------------------------------------------------------------
(* One file.                                                               *)

LEMMA FileKeeps == ASSUME DumpInv, FileRefused \/ FileSelected PROVE DumpInv'
<1>1. P!Channel' /\ UNCHANGED <<stack, call, sel, cur, frames>> /\ stack = <<>> /\ phase = "file"
  BY RestKeepsChannel DEF DumpInv, FileRefused, FileSelected, chanVars, InSelect
<1>2. CASE FileRefused
  <2>1. IsFiniteSet(DOMAIN dump') /\ DumpTellsTheTruth'
    <3>1. CASE dump' = dump
      BY <3>1 DEF DumpInv, DumpTellsTheTruth
    <3>2. CASE Put(Append(sel, call.ids[1]), Error)
      BY <3>2, PutFacts DEF DumpInv, True, Error
    <3> QED BY <1>2, <3>1, <3>2 DEF FileRefused
  <2> QED BY <1>1, <1>2, <2>1 DEF FileRefused, DumpInv, Where, Asked, Reading, Walking
<1>3. CASE FileSelected
  <2>1. PICK f \in Listed : call.kind = "select" /\ call.ids = <<Name(f)>> /\ ~IsDF(f)
    BY <1>1 DEF DumpInv, Asked
  <2>2. sel \in Files /\ Name(f) \in Ids(sel) /\ cur = sel
    BY <1>1, <1>3, <2>1, AtRest DEF DumpInv, FileSelected
  <2>3. sel \in EFs
    BY <2>1, <2>2, ListedFacts DEF IsDF
  <2> QED BY <1>1, <1>3, <2>2, <2>3
          DEF FileSelected, DumpInv, Where, Asked, Reading, Walking, DumpTellsTheTruth
<1> QED BY <1>2, <1>3

LEMMA ReadKeeps == ASSUME DumpInv, ReadOk \/ ReadRefused \/ ReadCut PROVE DumpInv'
<1>1. /\ phase = "read" /\ phase' = "finally" /\ alive /\ stack = <<>> /\ frames' = frames
      /\ UNCHANGED <<tree, sel, adf, fcp, stack, hops, at, data, raised, call>>
  BY DEF ReadOk, ReadRefused, ReadCut, Moved, DumpInv, Where
<1>2. sel \in EFs \cap OnCard /\ cur = sel /\ fcp = sel
  BY <1>1, AtRest DEF DumpInv, Reading
<1>3. PICK g \in CardFind(cur, Fid[sel]) :
        /\ cur' = g
        /\ \/ \E kind : Put(sel, Entry(kind, g))
           \/ Put(Append(sel, Name(sel)), Error)
  BY DEF ReadOk, ReadRefused, ReadCut
<1>4. g = sel
  BY <1>2, <1>3, FoundAgain
<1>5. IsFiniteSet(DOMAIN dump') /\ DumpTellsTheTruth'
  <2>1. CASE \E kind : Put(sel, Entry(kind, g))
    <3>1. PICK kind : Put(sel, Entry(kind, g))
      BY <2>1
    <3>2. True(sel, Entry(kind, g))
      BY <1>2, <1>4 DEF True, Entry
    <3> QED BY <3>1, <3>2, PutFacts DEF DumpInv
  <2>2. CASE Put(Append(sel, Name(sel)), Error)
    BY <2>2, PutFacts DEF DumpInv, True, Error
  <2> QED BY <1>3, <2>1, <2>2
<1>6. P!Channel'
  <2>1. CASE alive' = alive
    <3>1. UNCHANGED chanVars
      BY <1>1, <1>2, <1>3, <1>4, <2>1 DEF chanVars
    <3> QED BY <3>1, RestKeepsChannel DEF DumpInv
  <2>2. CASE alive' = FALSE
    <3>1. P!LinkLost
      BY <1>1, <1>2, <1>3, <1>4, <2>2 DEF P!LinkLost, P!lchan, P!loop
    <3> QED BY <3>1, StepKeepsChannel DEF DumpInv, P!Next
  <2> QED BY <2>1, <2>2 DEF ReadOk, ReadRefused, ReadCut
<1> QED BY <1>1, <1>5, <1>6 DEF DumpInv, Where, Asked, Reading, Walking

LEMMA PulledKeeps == ASSUME DumpInv, Pulled PROVE DumpInv'
<1>1. P!LinkLost
  BY DEF Pulled, P!LinkLost, P!lchan, P!loop
<1>2. P!Channel'
  BY <1>1, StepKeepsChannel DEF DumpInv, P!Next
<1> QED BY <1>2 DEF Pulled, DumpInv, Where, Asked, Reading, Walking, DumpTellsTheTruth
-----------------------------------------------------------------------------
LEMMA NextDumpInv == ASSUME DumpInv, [Next]_vars PROVE DumpInv'
<1>1. CASE UNCHANGED vars
  <2>1. UNCHANGED chanVars /\ UNCHANGED <<stack, call, sel, cur, phase, frames, dump>>
    BY <1>1 DEF vars, chanVars
  <2>2. P!Channel'
    BY <2>1, RestKeepsChannel DEF DumpInv
  <2> QED BY <2>1, <2>2 DEF DumpInv, Where, Asked, Reading, Walking, DumpTellsTheTruth
<1>2. CASE Browse \/ StartReadAll \/ Selecting
  BY <1>2, BrowseKeeps, StartKeeps, SelectingKeeps
<1>3. CASE RootFailed \/ DirRefused \/ BackInDir \/ Finish \/ ReadRaises
  BY <1>3, RestKeeps
<1>4. CASE RootSelected \/ DirEntered \/ NextName \/ DirDone \/ Leave
  BY <1>4, RootKeeps, DirKeeps, NameKeeps, DoneKeeps, LeaveKeeps
<1>5. CASE FileRefused \/ FileSelected \/ ReadOk \/ ReadRefused \/ ReadCut \/ Pulled
  BY <1>5, FileKeeps, ReadKeeps, PulledKeeps
<1> QED BY <1>1, <1>2, <1>3, <1>4, <1>5 DEF Next, Walk

\* pysim_wrapper.py:297-440: an entry of the dump shows the file its path names,
\* whatever was refused on the way there and whenever the link was lost.
THEOREM DumpIsTrue == Spec => []DumpTellsTheTruth
<1>1. DumpInv => DumpTellsTheTruth
  BY DEF DumpInv
<1>2. DumpInv /\ [Next]_vars => DumpInv'
  BY NextDumpInv
<1> QED BY <1>1, <1>2, InitDumpInv, PTL DEF Spec
-----------------------------------------------------------------------------
(* The dump leaves nothing out.  The walk is a way through the tree: the   *)
(* n-th call in progress is in the n-th directory of the path of the one   *)
(* it is in, and every file of the profile that is not reported yet has on *)
(* its path a name that some call has still to do.                         *)

Deeper(p, d) == Len(p) > Len(d) /\ Prefix(p, Len(d)) = d
In(p, d)     == Len(p) >= Len(d) /\ Prefix(p, Len(d)) = d
Child(d)     == {f \in Profile \ {MF} : Parent(f) = d}

UnderWay == phase \in {"walk", "dir", "file", "read", "finally", "up", "left"}
Depth    == Len(frames)
Level(n) == frames[Len(frames) + 1 - n]
Elems(s) == {s[k] : k \in 1..Len(s)}
Todo(n)  == Elems(Level(n).todo)
Here     == Top.dir
Sought   == Append(Here, call.ids[1])
Doing    == IF phase \in {"dir", "file"} THEN {Sought} ELSE IF phase = "read" THEN {sel} ELSE {}
Expected == {e \in Profile \cap EFs : Dirs(e) \subseteq OnCard /\ (e \in OnCard => access[e] # "mismatched")}
Awaited(e) == \/ \E w \in Doing : In(e, w)
              \/ \E n \in 1..Depth : \E w \in Todo(n) : In(e, w)
Rest(d)  == {p \in DOMAIN dump : ~In(p, d)}

Nested == UnderWay =>
  /\ Here \in (Profile \cap OnCard) \ EFs /\ Depth = Len(Here)
  /\ \A n \in 1..Depth :
       /\ Level(n).dir = Prefix(Here, n) /\ Todo(n) \subseteq Child(Prefix(Here, n))
       /\ \A j, k \in 1..Len(Level(n).todo) : Level(n).todo[j] = Level(n).todo[k] => j = k
       /\ n < Depth => Prefix(Here, n + 1) \notin Todo(n)

\* The request under way leads to the file that is sought, or the link is lost.
Seeking == UnderWay =>
  /\ Doing \subseteq Child(Here) \ Todo(Depth)
  /\ phase = "dir" => Sought \notin EFs
  /\ phase = "file" => Sought \in EFs
  /\ phase \in {"dir", "file"} => (P!Aims(Sought) /\ P!Unrefused(Sought)) \/ P!Doomed

\* While the link holds the walk is where its innermost call believes it is.
Led == alive =>
  /\ phase = "walk" => sel = Here
  /\ phase \in {"dir", "file"} => call.from = Here
  /\ phase = "finally" => sel = Here \/ (sel \in EFs /\ Parent(sel) = Here)
  /\ phase \in {"up", "left"} => call.kind = "select_file" /\ call.file = Here /\ P!FileUnrefused

Accounted ==
  /\ UnderWay /\ alive => \A e \in Expected : Reported(e) \/ Awaited(e)
  /\ phase = "done" /\ outcome = "success" /\ alive => \A e \in Expected : Reported(e)

\* What a call counted is what was in the dump apart from its directory.
Counted ==
  /\ DOMAIN dump \subseteq Seq(STRING) \ {<<>>}
  /\ ~UnderWay /\ outcome # "success" => DOMAIN dump = {}
  /\ UnderWay =>
       /\ \A n \in 2..Depth : Prefix(Here, n) \in DOMAIN dump /\ Level(n).before = Cardinality(Rest(Prefix(Here, n)))
       /\ \A p \in DOMAIN dump : (\A w \in Doing : ~In(p, w)) /\ \A n \in 1..Depth : \A w \in Todo(n) : ~In(p, w)
  /\ \A d \in DOMAIN dump : dump[d].kind = "dir" =>
       \/ d = MF
       \/ UnderWay /\ (\E n \in 2..Depth : d = Prefix(Here, n))
       \/ \E p \in DOMAIN dump : Deeper(p, d)

Kept == tree = Profile /\ (phase # "done" => outcome = "none")

WalkInv == Kept /\ Nested /\ Seeking /\ Led /\ Accounted /\ Counted

LEMMA WalkImplies == WalkInv => DumpIsComplete
<1> SUFFICES ASSUME WalkInv PROVE DumpIsComplete
  OBVIOUS
<1>1. AllReported
  BY DEF WalkInv, Accounted, AllReported, Expected
<1>2. NoEmptyDirectory
  BY DEF WalkInv, Counted, NoEmptyDirectory, UnderWay, Deeper
<1> QED BY <1>1, <1>2 DEF DumpIsComplete

(* The channel under the walk.                                             *)

LEMMA WalkSelects ==
  ASSUME P!Channel, NEW f, f \in Files, Lookup(tree, sel, Name(f)) = {f}, Chan!CallSelect(<<Name(f)>>)
  PROVE  P!Aims(f)' /\ P!Unrefused(f)'
<1>1. P!CallSelect(<<Name(f)>>)
  BY DEF Chan!CallSelect, P!CallSelect, Chan!Frame, P!Frame, Chan!lchan, P!lchan,
         Chan!card, P!card, Chan!loop, P!loop, Chan!NoFile, P!NoFile
<1>2. P!Lookup(tree, sel, Name(f)) = {f}
  BY SameTree DEF Lookup, P!Lookup, Selectables, P!Selectables
<1> QED BY <1>1, <1>2, TreeShape, KnownShape, FidUnique, PathsAreShaped, SameTree, P!WalkAsks

LEMMA WalkIsDoomed ==
  ASSUME P!Channel, NEW id, ~alive, Chan!CallSelect(<<id>>)
  PROVE  P!Doomed'
<1>1. P!CallSelect(<<id>>)
  BY DEF Chan!CallSelect, P!CallSelect, Chan!Frame, P!Frame, Chan!lchan, P!lchan,
         Chan!card, P!card, Chan!loop, P!loop, Chan!NoFile, P!NoFile
<1> QED BY <1>1, TreeShape, KnownShape, FidUnique, PathsAreShaped, SameTree, P!WalkAsks

LEMMA WalkGoesUp ==
  ASSUME NEW f, Chan!CallSelectFile(f)
  PROVE  P!FileUnrefused' /\ call'.kind = "select_file" /\ call'.file = f
<1>1. P!CallSelectFile(f) /\ call'.kind = "select_file" /\ call'.file = f
  BY DEF Chan!CallSelectFile, P!CallSelectFile, Chan!Frame, P!Frame, Chan!lchan, P!lchan,
         Chan!card, P!card, Chan!loop, P!loop, Chan!NoFile, P!NoFile
<1> QED BY <1>1, TreeShape, KnownShape, FidUnique, PathsAreShaped, SameTree, P!WalkAsks

LEMMA WalkSteps ==
  ASSUME P!Channel, Chan!Step
  PROVE  /\ tree' = tree /\ alive' = alive
         /\ \A f : /\ P!Aims(f) => P!Aims(f)'
                   /\ P!Aims(f) /\ P!Unrefused(f) => P!Unrefused(f)'
         /\ P!Doomed => P!Doomed'
         /\ P!FileUnrefused => P!FileUnrefused'
<1>1. P!Step
  BY SameStep
<1>2. HexIds = {}
  BY DEF HexIds
<1> QED BY <1>1, <1>2, TreeShape, KnownShape, FidUnique, PathsAreShaped, SameTree, P!WalkSteps

LEMMA WalkIsCut ==
  ASSUME P!LinkLost
  PROVE  (\A f : P!Aims(f) => P!Aims(f)' /\ P!Unrefused(f)') /\ P!FileUnrefused'
BY TreeShape, KnownShape, FidUnique, PathsAreShaped, SameTree, P!WalkIsCut

LEMMA WalkReturns ==
  ASSUME P!CanLeave, P!Channel, stack = <<>>
  PROVE  /\ \A f : P!Aims(f) => raised \/ sel = f
         /\ P!Doomed => ~alive /\ raised
         /\ alive =>
              /\ \A f : P!Unrefused(f) /\ f \in OnCard => ~raised
              /\ call.kind = "select" /\ raised => sel = call.from
              /\ call.kind = "select_file" /\ call.file \in OnCard /\ P!FileUnrefused => sel = call.file
BY TreeShape, KnownShape, FidUnique, PathsAreShaped, SameTree, P!WalkReturns

(* Places in the tree, and the calls in progress.                          *)

LEMMA InFacts ==
  /\ \A p \in Seq(STRING) : In(p, p) /\ Prefix(p, Len(p)) = p
  /\ \A p, d \in Seq(STRING) : /\ In(p, d) <=> p = d \/ Deeper(p, d)
                               /\ Len(p) < Len(d) => ~In(p, d)
  /\ \A p, x, w \in Seq(STRING) :
       /\ In(p, x) /\ In(x, w) => In(p, w)
       /\ In(p, x) /\ Deeper(x, w) => Deeper(p, w)
       /\ In(p, x) /\ Len(w) <= Len(x) /\ ~In(x, w) => ~In(p, w)
<1>1. ASSUME NEW p \in Seq(STRING) PROVE Prefix(p, Len(p)) = p
  BY DEF Prefix
<1>2. \A p \in Seq(STRING) : In(p, p)
  BY <1>1 DEF In
<1>3. ASSUME NEW p \in Seq(STRING), NEW d \in Seq(STRING)
      PROVE  (In(p, d) <=> p = d \/ Deeper(p, d)) /\ (Len(p) < Len(d) => ~In(p, d))
  <2>1. Len(p) = Len(d) /\ Prefix(p, Len(d)) = d => p = d
    BY <1>1
  <2>2. Len(p) \in Nat /\ Len(d) \in Nat
    OBVIOUS
  <2> QED BY <1>2, <2>1, <2>2 DEF In, Deeper
<1>4. ASSUME NEW p, NEW x, NEW n \in Nat, NEW m \in Nat, m <= n, Prefix(p, n) = x
      PROVE  Prefix(p, m) = Prefix(x, m)
  BY <1>4 DEF Prefix
<1>5. ASSUME NEW p \in Seq(STRING), NEW x \in Seq(STRING), NEW w \in Seq(STRING), In(p, x)
      PROVE  /\ In(x, w) => In(p, w)
             /\ Deeper(x, w) => Deeper(p, w)
             /\ Len(w) <= Len(x) /\ ~In(x, w) => ~In(p, w)
  <2>1. Len(p) \in Nat /\ Len(x) \in Nat /\ Len(w) \in Nat
    OBVIOUS
  <2>2. Len(w) <= Len(x) => Prefix(p, Len(w)) = Prefix(x, Len(w))
    BY <1>4, <1>5, <2>1 DEF In
  <2> QED BY <1>5, <2>1, <2>2 DEF In, Deeper
<1> QED BY <1>1, <1>2, <1>3, <1>5

LEMMA PrefixOf ==
  ASSUME NEW f \in Seq(STRING), NEW n \in 1..Len(f)
  PROVE  /\ Prefix(f, n) \in Seq(STRING) /\ Len(Prefix(f, n)) = n /\ In(f, Prefix(f, n))
         /\ \A m \in 1..n : Prefix(Prefix(f, n), m) = Prefix(f, m)
<1>1. Len(f) \in Nat /\ Prefix(f, n) \in Seq(STRING) /\ Len(Prefix(f, n)) = n
  BY DEF Prefix
<1> QED BY <1>1 DEF In, Prefix

LEMMA JustBefore ==
  \A k \in Nat : k >= 1 /\ k # 1 => k - 1 \in 1..(k - 1) /\ 1 \in 1..(k - 1)
OBVIOUS

LEMMA AboveIsDirectory ==
  ASSUME NEW f \in Files, f # MF
  PROVE  Parent(f) \in Dirs(f) /\ Parent(f) \in Files \ EFs
<1>1. f \in Seq(STRING) /\ Len(f) >= 1 /\ Prefix(f, 1) = MF /\ Dirs(f) \subseteq Files \ EFs
  BY TreeShape
<1>2. Len(f) # 1
  BY <1>1 DEF Prefix
<1>3. Len(f) - 1 \in 1..(Len(f) - 1)
  <2>1. Len(f) \in Nat
    BY <1>1, LenProperties
  <2> QED BY <2>1, <1>1, <1>2, JustBefore
<1>4. Parent(f) = Prefix(f, Len(f) - 1)
  BY DEF Parent
<1>5. Parent(f) \in Dirs(f)
  BY <1>3, <1>4 DEF Dirs
<1> QED BY <1>1, <1>5

LEMMA FileIsSeq == \A f \in Files : f \in Seq(STRING) /\ Len(f) >= 1
BY TreeShape

LEMMA ChildFacts ==
  ASSUME NEW d \in Files, NEW f \in Child(d)
  PROVE  /\ f \in Profile /\ f \in Files /\ f # MF /\ f \in Seq(STRING) /\ d \in Seq(STRING)
         /\ Len(f) = Len(d) + 1 /\ Prefix(f, Len(d)) = d /\ Deeper(f, d)
         /\ f = Append(d, Name(f)) /\ d \in Dirs(f)
<1>1. f \in Profile /\ f \in Files /\ f # MF /\ f \in Seq(STRING) /\ d \in Seq(STRING) /\ Len(f) >= 1
  BY KnownShape, FileIsSeq DEF Child
<1>2. d \in Dirs(f) /\ d = Prefix(f, Len(f) - 1)
  BY <1>1, AboveIsDirectory DEF Child, Parent
<1>3. Len(f) \in Nat /\ Len(f) # 1
  <2>1. PICK n \in 1..(Len(f) - 1) : d = Prefix(f, n)
    BY <1>2 DEF Dirs
  <2>2. Len(f) \in Nat
    BY <1>1
  <2>3. \A k \in Nat : \A m \in 1..(k - 1) : k # 1
    OBVIOUS
  <2> QED BY <2>2, <2>3
<1>4. Len(d) = Len(f) - 1
  BY <1>1, <1>2, <1>3 DEF Prefix
<1>5. Prefix(f, Len(d)) = d /\ Len(f) = Len(d) + 1
  BY <1>1, <1>2, <1>3, <1>4
<1>6. f = Append(d, Name(f))
  <2>1. Len(Append(d, Name(f))) = Len(f) /\ Append(d, Name(f)) \in Seq(STRING)
    <3>1. Name(f) \in STRING
      BY <1>1, <1>3 DEF Name
    <3> QED BY <1>1, <1>5, <3>1
  <2>2. ASSUME NEW i \in 1..Len(f) PROVE Append(d, Name(f))[i] = f[i]
    BY <1>1, <1>2, <1>3, <1>4, <1>5, <2>2 DEF Name, Prefix
  <2> QED BY <1>1, <2>1, <2>2
<1> QED BY <1>1, <1>2, <1>5, <1>6 DEF Deeper

\* A file of the profile below a directory is in one of its children.
LEMMA NextOnTheWay ==
  ASSUME NEW d \in Profile, NEW e \in Profile, Deeper(e, d)
  PROVE  \E w \in Child(d) : In(e, w)
<1>1. /\ d \in Seq(STRING) /\ e \in Seq(STRING) /\ Len(d) >= 1 /\ Len(e) > Len(d)
      /\ Len(d) \in Nat /\ Len(e) \in Nat /\ Prefix(e, Len(d)) = d
      /\ Dirs(e) \subseteq Profile /\ Len(MF) = 1
  BY KnownShape, FileIsSeq, TreeShape DEF Deeper
<1> DEFINE n == Len(d) + 1
           w == Prefix(e, n)
<1>2. n \in 1..Len(e) /\ n - 1 = Len(d) /\ n # 1
  BY <1>1
<1>3. Len(w) = n /\ In(e, w) /\ Prefix(w, n - 1) = d
  BY <1>1, <1>2, PrefixOf
<1>4. w \in Profile
  <2>1. CASE n = Len(e)
    BY <1>1, <2>1, InFacts
  <2>2. CASE n # Len(e)
    <3>1. n \in 1..(Len(e) - 1)
      BY <1>2, <2>2
    <3> QED BY <1>1, <3>1 DEF Dirs
  <2> QED BY <2>1, <2>2
<1>5. w # MF /\ Parent(w) = d
  BY <1>1, <1>2, <1>3 DEF Parent
<1> QED BY <1>3, <1>4, <1>5 DEF Child

LEMMA Levels ==
  ASSUME NEW S, NEW s \in Seq(S), s # <<>>
  PROVE  /\ Len(s) \in Nat /\ Len(s) >= 1 /\ Head(s) = s[1] /\ Len(s) \in 1..Len(s)
         /\ s[Len(s) + 1 - Len(s)] = s[1]
         /\ \A n \in 1..Len(s) : s[Len(s) + 1 - n] \in S
<1>1. Len(s) \in Nat /\ Len(s) >= 1 /\ Head(s) = s[1]
  OBVIOUS
<1> QED BY <1>1

LEMMA Pushed ==
  ASSUME NEW S, NEW s \in Seq(S), NEW e \in S
  PROVE  LET t == <<e>> \o s IN
         /\ Len(t) = Len(s) + 1 /\ Head(t) = e
         /\ \A n \in 1..Len(s) : t[Len(t) + 1 - n] = s[Len(s) + 1 - n]
         /\ t[Len(t) + 1 - (Len(s) + 1)] = e
<1> DEFINE t == <<e>> \o s
<1>1. Len(s) \in Nat /\ Len(t) = Len(s) + 1 /\ t[1] = e /\ Head(t) = e
  OBVIOUS
<1>2. \A i \in 2..Len(t) : t[i] = s[i - 1]
  OBVIOUS
<1> HIDE DEF t
<1>3. ASSUME NEW n \in 1..Len(s) PROVE t[Len(t) + 1 - n] = s[Len(s) + 1 - n]
  <2>1. Len(t) + 1 - n \in 2..Len(t) /\ Len(t) + 1 - n - 1 = Len(s) + 1 - n
    BY <1>1
  <2> QED BY <1>2, <2>1
<1>4. t[Len(t) + 1 - (Len(s) + 1)] = e
  BY <1>1
<1> QED BY <1>1, <1>3, <1>4 DEF t

LEMMA Popped ==
  ASSUME NEW S, NEW s \in Seq(S), Len(s) > 1
  PROVE  /\ Tail(s) \in Seq(S) /\ Len(Tail(s)) = Len(s) - 1 /\ Len(s) \in Nat
         /\ \A n \in 1..(Len(s) - 1) : Tail(s)[Len(Tail(s)) + 1 - n] = s[Len(s) + 1 - n]
<1>1. Len(s) \in Nat /\ Tail(s) \in Seq(S) /\ Len(Tail(s)) = Len(s) - 1
  OBVIOUS
<1>2. \A i \in 1..Len(Tail(s)) : Tail(s)[i] = s[i + 1]
  OBVIOUS
<1>3. ASSUME NEW n \in 1..(Len(s) - 1) PROVE Tail(s)[Len(Tail(s)) + 1 - n] = s[Len(s) + 1 - n]
  <2>1. Len(Tail(s)) + 1 - n \in 1..Len(Tail(s)) /\ Len(Tail(s)) + 1 - n + 1 = Len(s) + 1 - n
    BY <1>1
  <2> QED BY <1>2, <2>1
<1> QED BY <1>1, <1>3

\* The calls in progress, from the outermost.
LEMMA CallsAre ==
  ASSUME DumpInv, WalkInv, UnderWay
  PROVE  /\ frames \in Seq(FrameSet) /\ frames # <<>>
         /\ Depth \in Nat /\ Depth >= 1 /\ Depth \in 1..Depth /\ Top = Level(Depth) /\ Top = frames[1]
         /\ \A n \in 1..Depth : Level(n) \in FrameSet
         /\ Here \in Profile /\ Here \in Files /\ Here \in OnCard /\ Here \notin EFs /\ Here \in Seq(STRING)
         /\ Len(Here) = Depth /\ Prefix(Here, Depth) = Here /\ Level(Depth).dir = Here
         /\ \A n \in 1..Depth :
              /\ Level(n).dir = Prefix(Here, n) /\ Prefix(Here, n) \in Profile /\ Prefix(Here, n) \in Files
              /\ Prefix(Here, n) \notin EFs /\ Prefix(Here, n) \in Seq(STRING)
              /\ Len(Prefix(Here, n)) = n /\ In(Here, Prefix(Here, n))
<1>1. frames \in Seq(FrameSet) /\ frames # <<>>
  BY DEF DumpInv, Walking, UnderWay
<1>2. /\ Here \in (Profile \cap OnCard) \ EFs /\ Depth = Len(Here)
      /\ \A n \in 1..Depth : Level(n).dir = Prefix(Here, n)
  BY DEF WalkInv, Nested
<1>3. Depth \in Nat /\ Depth >= 1 /\ Depth \in 1..Depth /\ Top = Level(Depth) /\ Top = frames[1]
  BY <1>1, Levels DEF Depth, Level, Top
<1>4. \A n \in 1..Depth : Level(n) \in FrameSet
  BY <1>1, Levels DEF Depth, Level
<1>5. Here \in Files /\ Here \in Seq(STRING) /\ Prefix(Here, Depth) = Here
  BY <1>2, KnownShape, FileIsSeq, InFacts
<1>6. ASSUME NEW n \in 1..Depth
      PROVE  /\ Prefix(Here, n) \in Profile /\ Prefix(Here, n) \notin EFs /\ Prefix(Here, n) \in Files
             /\ Prefix(Here, n) \in Seq(STRING) /\ Len(Prefix(Here, n)) = n /\ In(Here, Prefix(Here, n))
  <2>1. Prefix(Here, n) \in Seq(STRING) /\ Len(Prefix(Here, n)) = n /\ In(Here, Prefix(Here, n))
    BY <1>2, <1>5, PrefixOf
  <2>2. CASE n = Depth
    BY <1>2, <1>5, <2>1, <2>2
  <2>3. CASE n # Depth
    <3>1. n \in 1..(Len(Here) - 1)
      BY <1>2, <1>3, <2>3
    <3>2. Prefix(Here, n) \in Dirs(Here)
      BY <3>1 DEF Dirs
    <3> QED BY <1>2, <1>5, <2>1, <3>2, KnownShape, TreeShape
  <2> QED BY <2>2, <2>3
<1>7. Level(Depth).dir = Here
  BY <1>3 DEF Here
<1> QED BY <1>1, <1>2, <1>3, <1>4, <1>5, <1>6, <1>7

(* Steps that leave the calls and the dump alone.                          *)

LEMMA SameCalls ==
  ASSUME frames' = frames
  PROVE  /\ Here' = Here /\ Depth' = Depth
         /\ \A n : Level(n)' = Level(n) /\ Todo(n)' = Todo(n)
BY DEF Here, Top, Depth, Level, Todo

LEMMA NestedStays ==
  ASSUME Nested, UnderWay, frames' = frames PROVE Nested'
BY SameCalls DEF Nested

LEMMA CountedStays ==
  ASSUME Counted, UnderWay, UnderWay', frames' = frames, dump' = dump, Doing' \subseteq Doing
  PROVE  Counted'
<1>1. \A d : Rest(d)' = Rest(d)
  BY DEF Rest
<1> QED BY <1>1, SameCalls DEF Counted

LEMMA AwaitedStays ==
  ASSUME frames' = frames, NEW e, Awaited(e), \A w \in Doing : In(e, w) => w \in Doing'
  PROVE  Awaited(e)'
BY SameCalls DEF Awaited

LEMMA ReportedStays ==
  ASSUME dump' = dump PROVE \A e : Reported(e)' = Reported(e)
BY DEF Reported

\* A name is looked up; the link is lost.
LEMMA SelectingKeepsWalk ==
  ASSUME DumpInv, WalkInv, Selecting PROVE WalkInv'
<1>1. /\ UNCHANGED <<phase, frames, dump, outcome, access, call, tree, alive>> /\ stack # <<>>
      /\ \A f : /\ P!Aims(f) => P!Aims(f)'
                /\ P!Aims(f) /\ P!Unrefused(f) => P!Unrefused(f)'
      /\ P!Doomed => P!Doomed'
      /\ P!FileUnrefused => P!FileUnrefused'
  BY SameStep, WalkSteps DEF Selecting, DumpInv
<1>2. phase \notin {"idle", "walk", "read", "finally", "done"}
  BY <1>1 DEF DumpInv, Where
<1>3. UnderWay' = UnderWay /\ Here' = Here /\ Sought' = Sought /\ Doing' = Doing /\ Expected' = Expected
  BY <1>1, <1>2, SameCalls DEF UnderWay, Sought, Doing, Expected
<1>4. Kept'
  BY <1>1 DEF WalkInv, Kept
<1>5. Nested'
  BY <1>1, <1>3, NestedStays DEF WalkInv, Nested
<1>6. Seeking'
  BY <1>1, <1>3, SameCalls DEF WalkInv, Seeking
<1>7. Led'
  BY <1>1, <1>2, <1>3 DEF WalkInv, Led
<1>8. Accounted'
  <2>1. \A e : Awaited(e) => Awaited(e)'
    BY <1>1, <1>3, AwaitedStays
  <2> QED BY <1>1, <1>2, <1>3, <2>1, ReportedStays DEF WalkInv, Accounted
<1>9. Counted'
  <2>1. CASE UnderWay
    BY <1>1, <1>3, <2>1, CountedStays DEF WalkInv
  <2>2. CASE ~UnderWay
    <3>1. \A p \in DOMAIN dump : dump'[p] = dump[p]
      BY <1>1
    <3> QED BY <1>1, <1>3, <2>2 DEF WalkInv, Counted
  <2> QED BY <2>1, <2>2
<1> QED BY <1>4, <1>5, <1>6, <1>7, <1>8, <1>9 DEF WalkInv

LEMMA PulledKeepsWalk ==
  ASSUME DumpInv, WalkInv, Pulled PROVE WalkInv'
<1>1. /\ UNCHANGED <<tree, sel, stack, raised, call, phase, frames, dump, outcome, access>>
      /\ alive /\ ~alive'
  BY DEF Pulled
<1>2. P!LinkLost
  BY DEF Pulled, P!LinkLost, P!lchan, P!loop
<1>3. (\A f : P!Aims(f) => P!Aims(f)' /\ P!Unrefused(f)') /\ P!FileUnrefused'
  BY <1>2, WalkIsCut
<1>4. UnderWay' = UnderWay /\ Here' = Here /\ Sought' = Sought /\ Doing' = Doing
  BY <1>1, SameCalls DEF UnderWay, Sought, Doing
<1>5. Kept'
  BY <1>1 DEF WalkInv, Kept
<1>6. Nested'
  BY <1>1, <1>4, NestedStays DEF WalkInv, Nested
<1>7. Seeking'
  <2>1. ~P!Doomed
    BY <1>1 DEF P!Doomed
  <2> QED BY <1>1, <1>3, <1>4, <2>1, SameCalls DEF WalkInv, Seeking
<1>8. Led' /\ Accounted'
  BY <1>1 DEF Led, Accounted
<1>9. Counted'
  <2>1. CASE UnderWay
    BY <1>1, <1>4, <2>1, CountedStays DEF WalkInv
  <2>2. CASE ~UnderWay
    <3>1. \A p \in DOMAIN dump : dump'[p] = dump[p]
      BY <1>1
    <3> QED BY <1>1, <1>4, <2>2 DEF WalkInv, Counted
  <2> QED BY <2>1, <2>2
<1> QED BY <1>5, <1>6, <1>7, <1>8, <1>9 DEF WalkInv

\* Before the walk, and after it failed to begin.
LEMMA OutsideKeepsWalk ==
  ASSUME DumpInv, WalkInv, Browse \/ StartReadAll \/ RootFailed PROVE WalkInv'
<1>1. /\ ~UnderWay /\ ~UnderWay' /\ phase # "done" /\ UNCHANGED <<tree, dump>>
      /\ IF phase' = "done" THEN outcome' = "failed" ELSE outcome' = outcome
      /\ phase' \notin {"walk", "dir", "file", "finally", "up", "left"}
  BY DEF UnderWay, Browse, StartReadAll, RootFailed, Chan!CallSelect, Chan!lchan, chanVars
<1>2. outcome = "none" /\ DOMAIN dump = {}
  BY <1>1 DEF WalkInv, Kept, Counted
<1>3. Kept'
  BY <1>1 DEF WalkInv, Kept
<1>4. Counted'
  BY <1>1, <1>2 DEF Counted
<1>5. Accounted'
  BY <1>1, <1>2 DEF Accounted
<1> QED BY <1>1, <1>3, <1>4, <1>5 DEF WalkInv, Nested, Seeking, Led

\* Back where the names are read from.
LEMMA BackKeepsWalk ==
  ASSUME P!CanLeave, DumpInv, WalkInv, DirRefused \/ BackInDir \/ ReadRaises PROVE WalkInv'
<1>1. /\ UNCHANGED <<chanVars, frames, dump, outcome, access>> /\ stack = <<>>
      /\ UNCHANGED <<tree, alive, sel, call>>
      /\ UnderWay /\ UnderWay' /\ phase # "done" /\ phase' \in {"walk", "finally"} /\ Doing' = {}
      /\ Here' = Here /\ Expected' = Expected
  BY SameCalls DEF DirRefused, BackInDir, ReadRaises, chanVars, DumpInv, Where, InSelect, UnderWay, Doing, Expected
<1>2. Kept'
  BY <1>1 DEF WalkInv, Kept
<1>3. Nested' /\ Counted'
  BY <1>1, NestedStays, CountedStays DEF WalkInv
<1>4. Seeking'
  BY <1>1 DEF Seeking, UnderWay, DirRefused, BackInDir, ReadRaises
<1>5. /\ \A f : P!Aims(f) => raised \/ sel = f
      /\ P!Doomed => ~alive /\ raised
      /\ alive =>
           /\ \A f : P!Unrefused(f) /\ f \in OnCard => ~raised
           /\ call.kind = "select" /\ raised => sel = call.from
           /\ call.kind = "select_file" /\ call.file \in OnCard /\ P!FileUnrefused => sel = call.file
  BY <1>1, WalkReturns DEF DumpInv
<1>6. Here \in Files /\ Here \in OnCard /\ Doing \subseteq Child(Here)
  BY <1>1, CallsAre DEF WalkInv, Seeking
<1>7. ASSUME alive
      PROVE  /\ phase' = "walk" => sel = Here
             /\ phase' = "finally" => sel \in EFs /\ Parent(sel) = Here
             /\ \A e \in Expected : \A w \in Doing : In(e, w) => FALSE
  <2>1. CASE DirRefused
    <3>1. phase = "dir" /\ raised /\ call.kind = "select" /\ phase' = "walk" /\ Doing = {Sought}
      BY <2>1 DEF DirRefused, DumpInv, Asked, Doing
    <3>2. sel = Here
      BY <1>5, <1>7, <3>1 DEF WalkInv, Led
    <3>3. Sought \notin OnCard /\ Sought \notin EFs /\ Sought \in Seq(STRING)
      BY <1>1, <1>5, <1>6, <1>7, <3>1, ChildFacts DEF WalkInv, Seeking
    <3>4. ASSUME NEW e \in Expected, In(e, Sought) PROVE FALSE
      <4>1. e \in Profile /\ e \in EFs /\ Dirs(e) \subseteq OnCard /\ e \in Seq(STRING)
        BY KnownShape, FileIsSeq DEF Expected
      <4>2. Deeper(e, Sought) /\ Len(Sought) >= 1
        <5>1. Len(Sought) = Len(Here) + 1 /\ Len(Here) >= 1 /\ Len(Here) \in Nat
          BY <1>1, <1>6, <3>1, ChildFacts, CallsAre
        <5> QED BY <3>3, <3>4, <4>1, <5>1, InFacts
      <4>3. Sought \in Dirs(e)
        <5>1. Len(Sought) \in 1..(Len(e) - 1) /\ Prefix(e, Len(Sought)) = Sought
          <6>1. Len(e) \in Nat /\ Len(Sought) \in Nat
            BY <3>3, <4>1
          <6> QED BY <4>2, <6>1 DEF Deeper
        <5> QED BY <5>1 DEF Dirs
      <4> QED BY <3>3, <4>1, <4>3
    <3> QED BY <3>1, <3>2, <3>4
  <2>2. CASE BackInDir
    <3>1. phase \in {"up", "left"} /\ phase' = "walk" /\ Doing = {}
      BY <2>2 DEF BackInDir, Doing
    <3> QED BY <1>5, <1>6, <1>7, <3>1 DEF WalkInv, Led
  <2>3. CASE ReadRaises
    <3>1. phase = "read" /\ phase' = "finally" /\ Doing = {sel} /\ access[sel] = "mismatched"
      BY <1>7, <2>3 DEF ReadRaises, Doing
    <3>2. sel \in EFs /\ sel \in Child(Here) /\ sel \in Files /\ sel \in OnCard /\ sel \in Seq(STRING)
      BY <1>1, <1>6, <3>1, AtRest, FileIsSeq DEF DumpInv, Reading
    <3>3. ASSUME NEW e \in Expected, In(e, sel) PROVE FALSE
      <4>1. e \in Profile /\ e \in EFs /\ e \in Seq(STRING) /\ e \in Files
        BY KnownShape, FileIsSeq DEF Expected
      <4>2. Deeper(e, sel)
        BY <3>1, <3>2, <3>3, <4>1, InFacts DEF Expected
      <4>3. sel \in Dirs(e)
        <5>1. Len(sel) \in 1..(Len(e) - 1) /\ Prefix(e, Len(sel)) = sel
          <6>1. Len(e) \in Nat /\ Len(sel) \in Nat /\ Len(sel) >= 1
            BY <3>2, <4>1, FileIsSeq
          <6> QED BY <4>2, <6>1 DEF Deeper
        <5> QED BY <5>1 DEF Dirs
      <4> QED BY <3>2, <4>1, <4>3, TreeShape
    <3> QED BY <3>1, <3>2, <3>3 DEF Child
  <2> QED BY <2>1, <2>2, <2>3
<1>8. Led'
  BY <1>1, <1>7 DEF Led
<1>9. Accounted'
  <2>1. ASSUME NEW e \in Expected, alive, Awaited(e) PROVE Awaited(e)'
    BY <1>1, <1>7, <2>1, AwaitedStays
  <2> QED BY <1>1, <2>1, ReportedStays DEF WalkInv, Accounted
<1> QED BY <1>2, <1>3, <1>4, <1>8, <1>9 DEF WalkInv

\* An elementary file has nothing below it.
LEMMA NothingBelow ==
  ASSUME NEW e \in Files, NEW f \in EFs, In(e, f) PROVE e = f
<1>1. e \in Seq(STRING) /\ f \in Seq(STRING) /\ Len(f) >= 1 /\ Len(f) \in Nat /\ Len(e) \in Nat
  BY TreeShape, FileIsSeq
<1>2. CASE Deeper(e, f)
  <2>1. Len(f) \in 1..(Len(e) - 1) /\ Prefix(e, Len(f)) = f
    BY <1>1, <1>2 DEF Deeper
  <2>2. f \in Dirs(e)
    BY <2>1 DEF Dirs
  <2> QED BY <2>2, TreeShape
<1> QED BY <1>1, <1>2, InFacts

\* What is put at or below the file a call is at work on is nowhere else.
LEMMA PutsBelow ==
  ASSUME DumpInv, WalkInv, UnderWay, NEW x \in Doing, NEW p \in Seq(STRING), In(p, x)
  PROVE  /\ \A n \in 1..Depth : In(p, Prefix(Here, n)) /\ p # Prefix(Here, n)
         /\ \A n \in 1..Depth : \A w \in Todo(n) : ~In(p, w)
<1>1. x \in Child(Here) \ Todo(Depth) /\ Here \in Files
  BY CallsAre DEF WalkInv, Seeking
<1>2. x \in Seq(STRING) /\ Len(x) = Depth + 1 /\ Prefix(x, Depth) = Here /\ Deeper(x, Here) /\ Deeper(p, Here)
  BY <1>1, CallsAre, ChildFacts, InFacts
<1>3. ASSUME NEW n \in 1..Depth PROVE In(p, Prefix(Here, n)) /\ p # Prefix(Here, n)
  <2>1. Prefix(Here, n) \in Seq(STRING) /\ In(Here, Prefix(Here, n)) /\ Len(Prefix(Here, n)) = n
    BY CallsAre
  <2>2. In(p, Here) /\ Len(p) > Depth /\ Here \in Seq(STRING) /\ Depth \in Nat
    BY <1>2, CallsAre, InFacts DEF Deeper
  <2>3. In(p, Prefix(Here, n))
    BY <2>1, <2>2, InFacts
  <2> QED BY <2>1, <2>2, <2>3
<1>4. ASSUME NEW n \in 1..Depth, NEW w \in Todo(n) PROVE ~In(p, w)
  <2>1. /\ w \in Child(Prefix(Here, n)) /\ Prefix(Here, n) \in Files /\ Len(Prefix(Here, n)) = n
        /\ n < Depth => Prefix(Here, n + 1) # w
    BY CallsAre DEF WalkInv, Nested
  <2>2. w \in Seq(STRING) /\ Len(w) = n + 1
    BY <2>1, ChildFacts
  <2>3. Depth \in Nat /\ n + 1 <= Depth + 1 /\ Len(Here) = Depth /\ Here \in Seq(STRING)
    BY CallsAre
  <2>4. Prefix(x, n + 1) # w
    <3>1. CASE n = Depth
      <4>1. Prefix(x, n + 1) = x
        BY <1>2, <3>1, InFacts
      <4> QED BY <1>1, <3>1, <4>1
    <3>2. CASE n # Depth
      <4>1. n + 1 \in 1..Depth /\ n < Depth
        BY <2>3, <3>2
      <4>2. Prefix(x, n + 1) = Prefix(Here, n + 1)
        <5>1. Depth \in 1..Len(x)
          BY <1>2, <2>3, <4>1
        <5> QED BY <1>2, <4>1, <5>1, PrefixOf
      <4> QED BY <2>1, <4>1, <4>2
    <3> QED BY <3>1, <3>2
  <2>5. ~In(x, w) /\ Len(w) <= Len(x)
    BY <1>2, <2>2, <2>3, <2>4 DEF In
  <2> QED BY <1>2, <2>2, <2>5, InFacts
<1> QED BY <1>3, <1>4

\* An entry for the file a call is at work on.
LEMMA PutCounts ==
  ASSUME DumpInv, WalkInv, UnderWay, UnderWay', frames' = frames, Doing' = {},
         NEW x \in Doing, NEW p \in Seq(STRING), In(p, x), NEW entry, Put(p, entry), entry.kind # "dir"
  PROVE  Counted'
<1>1. /\ \A n \in 1..Depth : In(p, Prefix(Here, n)) /\ p # Prefix(Here, n)
      /\ \A n \in 1..Depth : \A w \in Todo(n) : ~In(p, w)
  BY PutsBelow
<1>2. DOMAIN dump' = DOMAIN dump \cup {p} /\ \A q \in DOMAIN dump' : dump'[q] = IF q = p THEN entry ELSE dump[q]
  BY DEF Put
<1>3. Depth \in Nat /\ \A n \in 2..Depth : n \in 1..Depth
  BY CallsAre
<1>4. \A n \in 1..Depth : Rest(Prefix(Here, n))' = Rest(Prefix(Here, n))
  BY <1>1, <1>2, SameCalls DEF Rest
<1>5. Counted
  BY DEF WalkInv
<1>6. /\ (DOMAIN dump \subseteq Seq(STRING) \ {<<>>})' /\ Here' = Here /\ Depth' = Depth
      /\ \A n : Level(n)' = Level(n) /\ Todo(n)' = Todo(n)
  <2>1. p # <<>>
    <3>1. Prefix(Here, 1) = MF /\ Len(Here) >= 1 /\ Len(Here) \in Nat /\ Deeper(p, Prefix(Here, 1))
      <4>1. 1 \in 1..Depth
        BY <1>3, CallsAre
      <4> QED BY <1>1, <4>1, CallsAre, TreeShape, InFacts
    <3> QED BY <3>1, TreeShape DEF Deeper
  <2> QED BY <1>2, <1>5, <2>1, SameCalls DEF Counted
<1>7. \A n \in 2..Depth : Prefix(Here, n) \in DOMAIN dump' /\ Level(n).before = Cardinality(Rest(Prefix(Here, n)))'
  BY <1>2, <1>3, <1>4, <1>5 DEF Counted
<1>8. \A q \in DOMAIN dump' : \A n \in 1..Depth : \A w \in Todo(n) : ~In(q, w)
  BY <1>1, <1>2, <1>5 DEF Counted
<1>9. \A d \in DOMAIN dump' : dump'[d].kind = "dir" =>
        d = MF \/ (\E n \in 2..Depth : d = Prefix(Here, n)) \/ (\E q \in DOMAIN dump' : Deeper(q, d))
  <2> SUFFICES ASSUME NEW d \in DOMAIN dump', dump'[d].kind = "dir"
               PROVE  d = MF \/ (\E n \in 2..Depth : d = Prefix(Here, n)) \/ (\E q \in DOMAIN dump' : Deeper(q, d))
    OBVIOUS
  <2>1. d \in DOMAIN dump /\ dump[d].kind = "dir"
    BY <1>2
  <2> QED BY <1>2, <1>5, <2>1 DEF Counted
<1> QED BY <1>6, <1>7, <1>8, <1>9 DEF Counted

\* What was selected and read is reported.
LEMMA FileKeepsWalk ==
  ASSUME P!CanLeave, DumpInv, WalkInv, FileRefused PROVE WalkInv'
<1>1. /\ UNCHANGED <<chanVars, frames, outcome, access>> /\ stack = <<>> /\ raised /\ phase = "file" /\ phase' = "finally"
      /\ UNCHANGED <<tree, alive, sel, call>> /\ UnderWay /\ UnderWay' /\ Doing = {Sought} /\ Doing' = {}
      /\ Here' = Here /\ Expected' = Expected /\ call.kind = "select"
  BY SameCalls DEF FileRefused, chanVars, InSelect, UnderWay, Doing, Expected, DumpInv, Asked
<1>2. Kept'
  BY <1>1 DEF WalkInv, Kept
<1>3. Nested'
  BY <1>1, NestedStays DEF WalkInv
<1>4. Seeking'
  BY <1>1 DEF Seeking
<1>5. Here \in Files /\ Here \notin EFs /\ Here \in Seq(STRING) /\ Sought \in Child(Here) /\ Sought \in EFs
  BY <1>1, CallsAre DEF WalkInv, Seeking
<1>6. Sought \in Seq(STRING) /\ In(Sought, Sought) /\ Sought \in Profile /\ Sought \in Files /\ Sought # MF
  BY <1>5, ChildFacts, InFacts
<1>7. ASSUME alive PROVE sel = Here /\ Put(Sought, Error)
  <2>1. sel = Here
    BY <1>1, <1>7, WalkReturns DEF DumpInv, WalkInv, Led
  <2>2. Name(Sought) = call.ids[1]
    <3>1. PICK f \in Listed : call.ids = <<Name(f)>>
      BY <1>1 DEF DumpInv, Asked
    <3>2. Name(f) \in STRING /\ call.ids[1] = Name(f)
      <4>1. f \in Seq(STRING) /\ Len(f) >= 1
        BY ListedFacts, FileIsSeq
      <4> QED BY <3>1, <4>1 DEF Name
    <3>3. Len(Append(Here, Name(f))) = Len(Here) + 1 /\ Append(Here, Name(f))[Len(Here) + 1] = Name(f)
      BY <1>5, <3>2, AppendProperties
    <3> QED BY <3>2, <3>3 DEF Name, Sought
  <2>3. Sought \in Lookup(tree, sel, call.ids[1])
    BY <1>5, <1>6, <2>1, <2>2 DEF Lookup, Selectables, Cwd, Ids, Child, WalkInv, Kept
  <2> QED BY <1>7, <2>1, <2>3 DEF FileRefused, Sought
<1>8. Led'
  BY <1>1, <1>7 DEF Led
<1>9. Accounted'
  <2>1. ASSUME NEW e \in Expected, alive, Reported(e) \/ Awaited(e) PROVE Reported(e)' \/ Awaited(e)'
    <3>1. DOMAIN dump' = DOMAIN dump \cup {Sought}
      BY <1>7, <2>1 DEF Put
    <3>2. CASE In(e, Sought)
      <4>1. e = Sought
        BY <1>5, <3>2, NothingBelow, KnownShape DEF Expected
      <4> QED BY <3>1, <4>1 DEF Reported
    <3>3. CASE ~In(e, Sought)
      <4>1. Awaited(e) => Awaited(e)'
        BY <1>1, <3>3, AwaitedStays
      <4> QED BY <2>1, <3>1, <4>1 DEF Reported
    <3> QED BY <3>2, <3>3
  <2> QED BY <1>1, <2>1 DEF WalkInv, Accounted
<1>10. Counted'
  <2>1. CASE alive
    <3>1. Error.kind # "dir"
      BY DEF Error
    <3> QED BY <1>1, <1>6, <1>7, <2>1, <3>1, PutCounts
  <2>2. CASE ~alive
    <3>1. dump' = dump
      BY <2>2 DEF FileRefused
    <3> QED BY <1>1, <3>1, CountedStays DEF WalkInv
  <2> QED BY <2>1, <2>2
<1> QED BY <1>2, <1>3, <1>4, <1>8, <1>9, <1>10 DEF WalkInv

LEMMA SelectedKeepsWalk ==
  ASSUME P!CanLeave, DumpInv, WalkInv, FileSelected PROVE WalkInv'
<1>1. /\ UNCHANGED <<chanVars, frames, dump, outcome, access>> /\ stack = <<>> /\ ~raised
      /\ phase = "file" /\ phase' = "read"
      /\ UNCHANGED <<tree, alive, sel, call>> /\ UnderWay /\ UnderWay' /\ Doing = {Sought} /\ Doing' = {sel}
      /\ Here' = Here /\ Expected' = Expected /\ Depth' = Depth /\ \A n : Todo(n)' = Todo(n)
  BY SameCalls DEF FileSelected, chanVars, InSelect, UnderWay, Doing, Expected
<1>2. sel = Sought
  BY <1>1, WalkReturns DEF DumpInv, WalkInv, Seeking
<1>3. Kept' /\ Led'
  BY <1>1 DEF WalkInv, Kept, Led
<1>4. Nested' /\ Counted'
  BY <1>1, <1>2, NestedStays, CountedStays DEF WalkInv
<1>5. Seeking'
  BY <1>1, <1>2 DEF WalkInv, Seeking
<1>6. Accounted'
  <2>1. \A e : Awaited(e) => Awaited(e)'
    BY <1>1, <1>2, AwaitedStays
  <2> QED BY <1>1, <2>1, ReportedStays DEF WalkInv, Accounted
<1> QED BY <1>3, <1>4, <1>5, <1>6 DEF WalkInv

LEMMA ReadKeepsWalk ==
  ASSUME DumpInv, WalkInv, ReadOk \/ ReadRefused \/ ReadCut PROVE WalkInv'
<1>1. /\ phase = "read" /\ phase' = "finally" /\ alive
      /\ UNCHANGED <<tree, sel, call, frames, outcome, access>>
      /\ UnderWay /\ UnderWay' /\ Doing = {sel} /\ Doing' = {} /\ Here' = Here /\ Expected' = Expected
  BY SameCalls DEF ReadOk, ReadRefused, ReadCut, Moved, UnderWay, Doing, Expected
<1>2. sel \in EFs /\ sel \in Child(Here) /\ Here \in Files
  BY <1>1, CallsAre DEF DumpInv, Reading, WalkInv, Seeking
<1>3. sel \in Files /\ sel \in Seq(STRING) /\ Len(sel) >= 1 /\ In(sel, sel)
  BY <1>2, ChildFacts, FileIsSeq, InFacts
<1>4. PICK p, entry : Put(p, entry) /\ entry.kind # "dir" /\ p \in {sel, Append(sel, Name(sel))}
  <2>1. \A g : /\ Entry("data", g).kind = "data" /\ Entry("cut", g).kind = "cut" /\ Error.kind = "error"
    BY DEF Entry, Error
  <2>2. CASE ReadOk
    BY <2>1, <2>2 DEF ReadOk
  <2>3. CASE ReadRefused
    BY <2>1, <2>3 DEF ReadRefused
  <2>4. CASE ReadCut
    BY <2>1, <2>4 DEF ReadCut
  <2> QED BY <2>2, <2>3, <2>4
<1>5. p \in Seq(STRING) /\ In(p, sel)
  <2>1. CASE p = sel
    BY <1>3, <2>1
  <2>2. CASE p = Append(sel, Name(sel))
    <3>1. Name(sel) \in STRING
      BY <1>3 DEF Name
    <3> QED BY <1>3, <2>2, <3>1 DEF In, Prefix
  <2> QED BY <1>4, <2>1, <2>2
<1>6. DOMAIN dump' = DOMAIN dump \cup {p}
  BY <1>4 DEF Put
<1>7. Kept'
  BY <1>1 DEF WalkInv, Kept
<1>8. Nested'
  BY <1>1, NestedStays DEF WalkInv
<1>9. Seeking'
  BY <1>1 DEF Seeking
<1>10. Led'
  BY <1>1, <1>2 DEF Led, Child
<1>11. Accounted'
  <2>1. ASSUME NEW e \in Expected, Reported(e) \/ Awaited(e) PROVE Reported(e)' \/ Awaited(e)'
    <3>1. CASE In(e, sel)
      <4>1. e = sel
        BY <1>2, <3>1, NothingBelow, KnownShape DEF Expected
      <4> QED BY <1>4, <1>6, <4>1 DEF Reported
    <3>2. CASE ~In(e, sel)
      <4>1. Awaited(e) => Awaited(e)'
        BY <1>1, <3>2, AwaitedStays
      <4> QED BY <1>6, <2>1, <4>1 DEF Reported
    <3> QED BY <3>1, <3>2
  <2> QED BY <1>1, <2>1 DEF WalkInv, Accounted
<1>12. Counted'
  BY <1>1, <1>4, <1>5, PutCounts
<1> QED BY <1>7, <1>8, <1>9, <1>10, <1>11, <1>12 DEF WalkInv

LEMMA LeaveKeepsWalk ==
  ASSUME DumpInv, WalkInv, Leave PROVE WalkInv'
<1>1. /\ phase = "finally" /\ phase' \in {"walk", "left"} /\ UNCHANGED <<tree, alive, sel, frames, dump, outcome, access>>
      /\ UnderWay /\ UnderWay' /\ Doing = {} /\ Doing' = {} /\ Here' = Here /\ Expected' = Expected
  BY SameCalls DEF Leave, Chan!CallSelectFile, Chan!lchan, Chan!card, chanVars, UnderWay, Doing, Expected
<1>2. Kept'
  BY <1>1 DEF WalkInv, Kept
<1>3. Nested' /\ Counted'
  BY <1>1, NestedStays, CountedStays DEF WalkInv
<1>4. Seeking'
  BY <1>1 DEF Seeking
<1>5. Led'
  <2>1. CASE sel \in EFs
    <3>1. phase' = "left" /\ P!FileUnrefused' /\ call'.kind = "select_file" /\ call'.file = Parent(sel)
      BY <2>1, WalkGoesUp DEF Leave
    <3>2. alive => sel = Here \/ Parent(sel) = Here
      BY <1>1 DEF WalkInv, Led
    <3>3. Here \notin EFs
      BY <1>1, CallsAre
    <3> QED BY <1>1, <2>1, <3>1, <3>2, <3>3 DEF Led
  <2>2. CASE sel \notin EFs
    BY <1>1, <2>2 DEF WalkInv, Led, Leave
  <2> QED BY <2>1, <2>2
<1>6. Accounted'
  <2>1. \A e : Awaited(e) => Awaited(e)'
    BY <1>1, AwaitedStays
  <2> QED BY <1>1, <2>1, ReportedStays DEF WalkInv, Accounted
<1> QED BY <1>2, <1>3, <1>4, <1>5, <1>6 DEF WalkInv

LEMMA FinishKeepsWalk ==
  ASSUME DumpInv, WalkInv, Finish PROVE WalkInv'
<1>1. /\ phase = "walk" /\ phase' = "done" /\ outcome' = "success" /\ Depth = 1 /\ Top.todo = <<>>
      /\ UNCHANGED <<tree, alive, dump, access>> /\ UnderWay /\ ~UnderWay' /\ Doing = {} /\ Expected' = Expected
  BY DEF Finish, chanVars, UnderWay, Doing, Expected, Depth
<1>2. Todo(1) = {}
  <2>1. Top = Level(1)
    BY <1>1, CallsAre
  <2>2. Level(1).todo = <<>>
    BY <1>1, <2>1
  <2> QED BY <2>2 DEF Todo, Elems
<1>3. \A e : ~Awaited(e)
  BY <1>1, <1>2 DEF Awaited
<1>4. Accounted'
  BY <1>1, <1>3, ReportedStays DEF WalkInv, Accounted
<1>5. Counted'
  BY <1>1 DEF WalkInv, Counted
<1>6. Kept' /\ Nested' /\ Seeking' /\ Led'
  BY <1>1 DEF WalkInv, Kept, Nested, Seeking, Led
<1> QED BY <1>4, <1>5, <1>6 DEF WalkInv

(* Steps that change the calls in progress.                                *)

LEMMA TakenOff ==
  ASSUME NEW S, NEW s \in Seq(S), s # <<>>, \A j, k \in 1..Len(s) : s[j] = s[k] => j = k
  PROVE  /\ Elems(Tail(s)) = Elems(s) \ {Head(s)} /\ Head(s) \in Elems(s)
         /\ \A j, k \in 1..Len(Tail(s)) : Tail(s)[j] = Tail(s)[k] => j = k
<1> DEFINE t == Tail(s)
<1>1. /\ Len(s) \in Nat /\ Len(s) >= 1 /\ Head(s) = s[1] /\ Len(t) = Len(s) - 1
      /\ \A i \in 1..Len(t) : t[i] = s[i + 1]
  OBVIOUS
<1> HIDE DEF t
<1>2. ASSUME NEW k \in 1..Len(s), s[k] # Head(s) PROVE \E i \in 1..Len(t) : t[i] = s[k]
  <2>1. k # 1
    BY <1>1, <1>2
  <2>2. k - 1 \in 1..Len(t) /\ k - 1 + 1 = k
    BY <1>1, <2>1
  <2> QED BY <1>1, <2>2
<1>3. ASSUME NEW i \in 1..Len(t) PROVE i + 1 \in 1..Len(s) /\ i + 1 # 1 /\ 1 \in 1..Len(s)
  BY <1>1
<1>4. \A i \in 1..Len(t) : t[i] \in Elems(s) /\ t[i] # Head(s)
  BY <1>1, <1>3 DEF Elems
<1>5. \A j, k \in 1..Len(t) : t[j] = t[k] => j = k
  <2> SUFFICES ASSUME NEW j \in 1..Len(t), NEW k \in 1..Len(t), t[j] = t[k] PROVE j = k
    OBVIOUS
  <2>1. j + 1 = k + 1
    BY <1>1, <1>3
  <2> QED BY <1>1, <2>1
<1>6. Head(s) \in Elems(s)
  BY <1>1 DEF Elems
<1>7. Elems(t) = Elems(s) \ {Head(s)}
  <2>1. ASSUME NEW x \in Elems(t) PROVE x \in Elems(s) \ {Head(s)}
    BY <1>4 DEF Elems
  <2>2. ASSUME NEW x \in Elems(s) \ {Head(s)} PROVE x \in Elems(t)
    BY <1>2 DEF Elems
  <2> QED BY <2>1, <2>2
<1> QED BY <1>5, <1>6, <1>7 DEF t

LEMMA Retopped ==
  ASSUME NEW S, NEW s \in Seq(S), s # <<>>, NEW e, NEW t, t = [s EXCEPT ![1] = e]
  PROVE  /\ Len(t) = Len(s) /\ Head(t) = e /\ t[Len(t) + 1 - Len(s)] = e
         /\ \A n \in 1..Len(s) : n # Len(s) => t[Len(t) + 1 - n] = s[Len(s) + 1 - n]
<1>1. Len(s) \in Nat /\ Len(s) >= 1 /\ DOMAIN t = 1..Len(s) /\ t[1] = e /\ \A i \in 2..Len(s) : t[i] = s[i]
  OBVIOUS
<1>2. Len(t) = Len(s) /\ Head(t) = t[1]
  OBVIOUS
<1>3. Len(s) + 1 - Len(s) = 1
  BY <1>1
<1>4. ASSUME NEW n \in 1..Len(s), n # Len(s) PROVE t[Len(t) + 1 - n] = s[Len(s) + 1 - n]
  <2>1. \A k \in Nat : \A m \in 1..k : m # k => k + 1 - m \in 2..k
    OBVIOUS
  <2>2. Len(s) + 1 - n \in 2..Len(s)
    BY <1>1, <1>4, <2>1
  <2> QED BY <1>1, <1>2, <2>2
<1> QED BY <1>1, <1>2, <1>3, <1>4

\* A name of a listing stands for its file alone.
LEMMA ListedAlone ==
  ASSUME NEW d \in Profile \ EFs, d \in Files, NEW f \in Child(d)
  PROVE  Lookup(Profile, d, Name(f)) = {f}
<1>1. PICK i \in 1..Len(Listing[d]) : f = Listing[d][i]
  BY DumpAssumption DEF Child
<1>2. Lookup(Profile, d, Name(f)) \subseteq {f}
  BY <1>1, DumpAssumption
<1>3. f \in Lookup(Profile, d, Name(f))
  BY DEF Lookup, Selectables, Child, Cwd, Ids
<1> QED BY <1>2, <1>3

LEMMA NameKeepsWalk ==
  ASSUME DumpInv, WalkInv, NextName PROVE WalkInv'
<1>0. PICK f, e : f = Head(Top.todo) /\ e = [frames[1] EXCEPT !.todo = Tail(Top.todo)]
  OBVIOUS
<1>1. /\ phase = "walk" /\ phase' \in {"dir", "file"} /\ Top.todo # <<>> /\ Chan!CallSelect(<<Name(f)>>)
      /\ phase' = (IF f \notin EFs THEN "dir" ELSE "file")
      /\ frames' = [frames EXCEPT ![1].todo = Tail(@)] /\ UNCHANGED <<dump, outcome, access>>
      /\ UnderWay /\ UnderWay' /\ Doing = {}
  BY <1>0 DEF NextName, UnderWay, Doing, IsDF
<1>2. stack = <<>> /\ UNCHANGED <<tree, alive, sel>> /\ call' = [kind |-> "select", ids |-> <<Name(f)>>, file |-> NoFile, from |-> cur]
  BY <1>1, SameChanTree DEF Chan!CallSelect, Chan!lchan, Chan!card
<1>3. /\ frames \in Seq(FrameSet) /\ frames # <<>> /\ Depth \in Nat /\ Depth >= 1 /\ Depth \in 1..Depth
      /\ Top = Level(Depth) /\ Top = frames[1]
      /\ Here \in Profile /\ Here \in Files /\ Here \notin EFs /\ Prefix(Here, Depth) = Here
      /\ Level(Depth) \in FrameSet
  BY <1>1, CallsAre
<1>4. /\ Top.todo \in Seq(Listed) /\ \A j, k \in 1..Len(Top.todo) : Top.todo[j] = Top.todo[k] => j = k
  BY <1>1, <1>3 DEF FrameSet, WalkInv, Nested
<1>5. /\ Todo(Depth) = Elems(Top.todo) /\ f \in Todo(Depth) /\ Elems(Tail(Top.todo)) = Todo(Depth) \ {f}
      /\ \A j, k \in 1..Len(Tail(Top.todo)) : Tail(Top.todo)[j] = Tail(Top.todo)[k] => j = k
  <2>1. Todo(Depth) = Elems(Top.todo)
    BY <1>3 DEF Todo
  <2> QED BY <1>0, <1>1, <1>4, <2>1, TakenOff
<1>6. /\ f \in Child(Here) /\ f \in Profile /\ f \in Files /\ f = Append(Here, Name(f))
      /\ Lookup(Profile, Here, Name(f)) = {f}
  <2>1. f \in Child(Here)
    BY <1>1, <1>3, <1>5 DEF WalkInv, Nested
  <2> QED BY <1>3, <2>1, ChildFacts, ListedAlone
<1>7. /\ Depth' = Depth /\ Here' = Here /\ Top' = e /\ Level(Depth)' = e
      /\ \A n \in 1..Depth : n # Depth => Level(n)' = Level(n) /\ Todo(n)' = Todo(n)
  <2>1. frames' = [frames EXCEPT ![1] = e]
    BY <1>0, <1>1, <1>3
  <2>2. /\ Len(frames') = Len(frames) /\ Head(frames') = e /\ frames'[Len(frames') + 1 - Len(frames)] = e
        /\ \A n \in 1..Len(frames) : n # Len(frames) => frames'[Len(frames') + 1 - n] = frames[Len(frames) + 1 - n]
    BY <1>3, <2>1, Retopped
  <2>3. e.dir = Top.dir
    BY <1>0, <1>3 DEF FrameSet
  <2> QED BY <2>2, <2>3 DEF Depth, Here, Top, Level, Todo
<1>8. e.dir = Here /\ e.todo = Tail(Top.todo) /\ e.before = Level(Depth).before
  BY <1>0, <1>3 DEF FrameSet, Here
<1>9. Todo(Depth)' = Todo(Depth) \ {f}
  BY <1>5, <1>7, <1>8 DEF Todo
<1>10. Sought' = f /\ Doing' = {f}
  BY <1>1, <1>2, <1>6, <1>7 DEF Sought, Doing
<1>11. Kept'
  BY <1>1, <1>2 DEF WalkInv, Kept
<1>12. Nested'
  <2> SUFFICES ASSUME NEW n \in 1..Depth
               PROVE  /\ Level(n)'.dir = Prefix(Here, n) /\ Todo(n)' \subseteq Child(Prefix(Here, n))
                      /\ \A j, k \in 1..Len(Level(n)'.todo) : Level(n)'.todo[j] = Level(n)'.todo[k] => j = k
                      /\ n < Depth => Prefix(Here, n + 1) \notin Todo(n)'
    BY <1>1, <1>7 DEF WalkInv, Nested
  <2>1. CASE n = Depth
    <3>1. Level(n)' = e /\ Todo(n)' = Todo(n) \ {f}
      BY <1>7, <1>9, <2>1
    <3>2. Todo(n) \subseteq Child(Prefix(Here, n)) /\ ~(n < Depth) /\ Prefix(Here, n) = Here
      BY <1>1, <1>3, <2>1 DEF WalkInv, Nested
    <3> QED BY <1>5, <1>8, <3>1, <3>2
  <2>2. CASE n # Depth
    BY <1>1, <1>7, <2>2 DEF WalkInv, Nested
  <2> QED BY <2>1, <2>2
<1>13. Led'
  <2>1. ASSUME alive PROVE cur = Here
    BY <1>1, <1>2, <2>1, AtRest DEF DumpInv, WalkInv, Led
  <2> QED BY <1>1, <1>2, <1>7, <2>1 DEF Led
<1>14. Seeking'
  <2>1. (P!Aims(f)' /\ P!Unrefused(f)') \/ P!Doomed'
    <3>1. CASE alive
      <4>1. sel = Here /\ tree = Profile
        BY <1>1, <3>1 DEF WalkInv, Led, Kept
      <4> QED BY <1>1, <1>6, <4>1, WalkSelects DEF DumpInv
    <3>2. CASE ~alive
      BY <1>1, <3>2, WalkIsDoomed DEF DumpInv
    <3> QED BY <3>1, <3>2
  <2>2. (P!Aims(Sought) /\ P!Unrefused(Sought))' \/ P!Doomed'
    BY <1>10, <2>1
  <2>3. Doing' \subseteq Child(Here) \ Todo(Depth)' /\ Depth' = Depth /\ Here' = Here
    BY <1>6, <1>7, <1>9, <1>10
  <2>4. (phase' = "dir" => Sought' \notin EFs) /\ (phase' = "file" => Sought' \in EFs)
    BY <1>1, <1>10
  <2> QED BY <1>9, <1>7, <2>2, <2>3, <2>4 DEF Seeking
<1>15. Accounted'
  <2>1. Expected' = Expected
    BY <1>1 DEF Expected
  <2>2. ASSUME NEW g, Awaited(g) PROVE Awaited(g)'
    <3>1. PICK n \in 1..Depth : \E w \in Todo(n) : In(g, w)
      BY <1>1, <2>2 DEF Awaited
    <3>2. PICK w \in Todo(n) : In(g, w)
      BY <3>1
    <3>3. CASE n = Depth /\ w = f
      BY <1>10, <3>2, <3>3 DEF Awaited
    <3>4. CASE n # Depth \/ w # f
      <4>1. w \in Todo(n)'
        BY <1>7, <1>9, <3>4
      <4> QED BY <1>7, <3>2, <4>1 DEF Awaited
    <3> QED BY <3>3, <3>4
  <2> QED BY <1>1, <1>2, <2>1, <2>2, ReportedStays DEF WalkInv, Accounted
<1>16. Counted'
  <2>1. \A d : Rest(d)' = Rest(d)
    BY <1>1 DEF Rest
  <2>2. \A n \in 1..Depth : Level(n)'.before = Level(n).before /\ Todo(n)' \subseteq Todo(n)
    BY <1>7, <1>8, <1>9
  <2>3. \A p \in DOMAIN dump : ~In(p, f)
    BY <1>1, <1>3, <1>5 DEF WalkInv, Counted
  <2>4. \A n \in 2..Depth : n \in 1..Depth
    BY <1>3
  <2> QED BY <1>1, <1>7, <1>10, <2>1, <2>2, <2>3, <2>4 DEF WalkInv, Counted
<1> QED BY <1>11, <1>12, <1>13, <1>14, <1>15, <1>16 DEF WalkInv

\* A call begins with all the children of its directory to do.
LEMMA Begins ==
  ASSUME NEW d \in Profile \ EFs, NEW n
  PROVE  /\ Frame(d, n).dir = d /\ Frame(d, n).before = n /\ Elems(Frame(d, n).todo) = Child(d)
         /\ \A j, k \in 1..Len(Frame(d, n).todo) : Frame(d, n).todo[j] = Frame(d, n).todo[k] => j = k
<1>1. Frame(d, n).dir = d /\ Frame(d, n).before = n /\ Frame(d, n).todo = Listing[d]
  BY DEF Frame
<1>2. Elems(Listing[d]) = Child(d)
  BY DumpAssumption DEF Elems, Child
<1> QED BY <1>1, <1>2, DumpAssumption

\* ... so that what is below the directory is awaited.
LEMMA BelowIsAwaited ==
  ASSUME NEW d \in Profile \ EFs, d \in Files, NEW e \in Expected, In(e, d)
  PROVE  \E w \in Child(d) : In(e, w)
<1>1. e \in Profile /\ e \in EFs /\ e \in Files /\ e \in Seq(STRING) /\ d \in Seq(STRING)
  BY KnownShape, FileIsSeq DEF Expected
<1>2. Deeper(e, d)
  BY <1>1, InFacts
<1> QED BY <1>1, <1>2, NextOnTheWay

\* ... and nothing in the dump is.
LEMMA NothingYet ==
  ASSUME NEW d \in Files, NEW w \in Child(d), NEW p \in Seq(STRING), ~In(p, d) \/ p = d
  PROVE  ~In(p, w)
<1>1. w \in Seq(STRING) /\ d \in Seq(STRING) /\ Len(w) = Len(d) + 1 /\ Deeper(w, d) /\ Len(d) \in Nat
  BY ChildFacts, FileIsSeq
<1>2. CASE p = d
  <2>1. Len(p) < Len(w)
    BY <1>1, <1>2
  <2> QED BY <1>1, <2>1, InFacts
<1>3. CASE ~In(p, d)
  BY <1>1, <1>3, InFacts
<1> QED BY <1>2, <1>3

LEMMA RootKeepsWalk ==
  ASSUME DumpInv, WalkInv, RootSelected PROVE WalkInv'
<1>1. /\ phase = "root" /\ phase' = "walk" /\ ~UnderWay /\ UnderWay' /\ Doing' = {} /\ stack = <<>> /\ ~raised
      /\ UNCHANGED <<tree, alive, sel, outcome, access>>
      /\ Put(MF, Entry("dir", cur)) /\ frames' = <<Frame(sel, 0)>>
  BY DEF RootSelected, chanVars, UnderWay, Doing, InSelect
<1>2. sel = MF
  <2>1. sel \in Files /\ Name(MF) \in Ids(sel)
    BY <1>1, AtRest DEF DumpInv, Asked
  <2> QED BY <2>1, DumpAssumption
<1>3. MF \in Profile \ EFs /\ MF \in Files /\ MF \in OnCard /\ MF \in Seq(STRING) /\ Len(MF) = 1
  BY KnownShape, TreeShape
<1>4. DOMAIN dump = {} /\ DOMAIN dump' = {MF}
  BY <1>1 DEF WalkInv, Counted, Kept, Put
<1>5. Depth' = 1 /\ Here' = MF /\ Level(1)' = Frame(MF, 0) /\ Todo(1)' = Child(MF) /\ Prefix(MF, 1) = MF
  <2>1. Len(frames') = 1 /\ Head(frames') = Frame(MF, 0) /\ frames'[1] = Frame(MF, 0)
    BY <1>1, <1>2
  <2>2. Depth' = 1 /\ Here' = MF /\ Level(1)' = Frame(MF, 0)
    BY <1>3, <2>1, Begins DEF Depth, Here, Top, Level
  <2> QED BY <1>3, <2>2, Begins, TreeShape DEF Todo
<1>6. Kept'
  BY <1>1 DEF WalkInv, Kept
<1>7. Nested'
  <2>1. \A n \in 1..1 : n = 1
    OBVIOUS
  <2>2. \A n \in 1..1 :
          /\ Level(n)'.dir = Prefix(MF, n) /\ Todo(n)' \subseteq Child(Prefix(MF, n))
          /\ \A j, k \in 1..Len(Level(n)'.todo) : Level(n)'.todo[j] = Level(n)'.todo[k] => j = k
          /\ ~(n < 1)
    BY <1>3, <1>5, <2>1, Begins
  <2> QED BY <1>3, <1>5, <2>2 DEF Nested
<1>8. Seeking' /\ Led'
  BY <1>1, <1>2, <1>5 DEF Seeking, Led
<1>9. Accounted'
  <2>1. ASSUME NEW e \in Expected' PROVE Awaited(e)'
    <3>1. e \in Expected /\ In(e, MF)
      <4>1. e \in Expected /\ e \in Files
        BY <1>1, KnownShape DEF Expected
      <4> QED BY <1>3, <4>1, TreeShape, FileIsSeq DEF In
    <3>2. PICK w \in Child(MF) : In(e, w)
      BY <1>3, <3>1, BelowIsAwaited
    <3> QED BY <1>5, <3>2 DEF Awaited
  <2> QED BY <1>1, <2>1 DEF Accounted
<1>10. Counted'
  <2>1. \A w \in Child(MF) : ~In(MF, w)
    BY <1>3, NothingYet
  <2>2. \A n \in 2..1 : FALSE
    OBVIOUS
  <2>3. \A n \in 1..1 : n = 1
    OBVIOUS
  <2>4. MF # <<>>
    BY <1>3
  <2> QED BY <1>1, <1>3, <1>4, <1>5, <2>1, <2>2, <2>3, <2>4 DEF Counted
<1> QED BY <1>6, <1>7, <1>8, <1>9, <1>10 DEF WalkInv

LEMMA DirKeepsWalk ==
  ASSUME P!CanLeave, DumpInv, WalkInv, DirEntered PROVE WalkInv'
<1>1. /\ phase = "dir" /\ phase' = "walk" /\ UnderWay /\ UnderWay' /\ Doing = {Sought} /\ Doing' = {}
      /\ stack = <<>> /\ ~raised /\ UNCHANGED <<tree, alive, sel, outcome, access>>
      /\ Put(sel, Entry("dir", cur)) /\ frames' = <<Frame(sel, Size)>> \o frames
  BY DEF DirEntered, chanVars, UnderWay, Doing, InSelect
<1>2. sel = Sought /\ sel \in OnCard
  BY <1>1, WalkReturns, AtRest DEF DumpInv, WalkInv, Seeking
<1>3. /\ Here \in Files /\ Depth \in Nat /\ Depth >= 1 /\ Depth \in 1..Depth /\ Len(Here) = Depth
      /\ frames \in Seq(FrameSet) /\ frames # <<>> /\ Here \in Seq(STRING) /\ Prefix(Here, Depth) = Here
  BY <1>1, CallsAre
<1>4. /\ sel \in Child(Here) /\ sel \notin Todo(Depth) /\ sel \notin EFs /\ sel \in Profile /\ sel \in Files
      /\ sel \in Seq(STRING) /\ Len(sel) = Depth + 1 /\ Prefix(sel, Depth) = Here /\ Prefix(sel, Depth + 1) = sel
  <2>1. sel \in Child(Here) /\ sel \notin Todo(Depth) /\ sel \notin EFs
    BY <1>1, <1>2 DEF WalkInv, Seeking
  <2> QED BY <1>3, <2>1, ChildFacts, InFacts
<1>5. \A n \in 1..Depth : Prefix(sel, n) = Prefix(Here, n)
  <2>1. Depth \in 1..Len(sel)
    BY <1>3, <1>4
  <2> QED BY <1>4, <2>1, PrefixOf
<1>0. PICK m : m = Depth + 1
  OBVIOUS
<1>6. /\ Depth' = m /\ Here' = sel /\ Level(m)' = Frame(sel, Size) /\ Todo(m)' = Child(sel)
      /\ \A n \in 1..Depth : Level(n)' = Level(n) /\ Todo(n)' = Todo(n)
  <2>1. Frame(sel, Size) \in FrameSet
    <3>1. Size \in Nat
      BY FS_CardinalityType DEF DumpInv, Size
    <3> QED BY <1>4, <3>1, FrameFacts
  <2>2. PICK a \in FrameSet : a = Frame(sel, Size)
    BY <2>1
  <2>3. /\ Len(frames') = Len(frames) + 1 /\ Head(frames') = a /\ frames'[Len(frames') + 1 - (Len(frames) + 1)] = a
        /\ \A n \in 1..Len(frames) : frames'[Len(frames') + 1 - n] = frames[Len(frames) + 1 - n]
    BY <1>1, <1>3, <2>2, Pushed
  <2>4. a.dir = sel /\ Elems(a.todo) = Child(sel)
    BY <1>4, <2>2, Begins
  <2>5. m = Len(frames) + 1 /\ m \in Nat
    BY <1>0, <1>3 DEF Depth
  <2>6. Level(m)' = a /\ Todo(m)' = Elems(a.todo)
    BY <2>3, <2>5 DEF Level, Todo
  <2>7. \A n \in 1..Depth : Level(n)' = Level(n) /\ Todo(n)' = Todo(n)
    BY <2>3 DEF Depth, Level, Todo
  <2>8. Depth' = m /\ Here' = sel
    BY <2>3, <2>4, <2>5 DEF Depth, Here, Top
  <2> QED BY <2>2, <2>4, <2>6, <2>7, <2>8
<1>7. /\ m \in 2..m /\ m \in 1..m /\ m \in Nat
      /\ \A n \in 1..m : n \in 1..Depth \/ n = m
      /\ \A n \in 1..Depth : n \in 1..m
      /\ \A n \in 2..Depth : n \in 1..Depth /\ n \in 2..m
      /\ \A n \in 2..m : n \in 1..m /\ (n \in 1..Depth => n \in 2..Depth)
  BY <1>0, <1>3
<1>8. DOMAIN dump' = DOMAIN dump \cup {sel} /\ \A q \in DOMAIN dump' : q # sel => dump'[q] = dump[q]
  BY <1>1 DEF Put
<1>9. /\ \A n \in 1..Depth : In(sel, Prefix(Here, n))
      /\ \A n \in 1..Depth : \A w \in Todo(n) : ~In(sel, w)
      /\ \A p \in DOMAIN dump : ~In(p, sel)
  <2>1. In(sel, sel) /\ sel \in Doing
    BY <1>1, <1>2, <1>4, InFacts
  <2> QED BY <1>1, <1>4, <2>1, PutsBelow DEF WalkInv, Counted
<1>10. Kept'
  BY <1>1 DEF WalkInv, Kept
<1>11. Nested'
  <2> SUFFICES ASSUME NEW n \in 1..m
               PROVE  /\ Level(n)'.dir = Prefix(sel, n) /\ Todo(n)' \subseteq Child(Prefix(sel, n))
                      /\ \A j, k \in 1..Len(Level(n)'.todo) : Level(n)'.todo[j] = Level(n)'.todo[k] => j = k
                      /\ n < m => Prefix(sel, n + 1) \notin Todo(n)'
    <3>1. sel \in (Profile \cap OnCard) \ EFs /\ m = Len(sel)
      BY <1>0, <1>2, <1>4
    <3> QED BY <1>1, <1>6, <3>1 DEF Nested
  <2>1. CASE n \in 1..Depth
    <3>1. Level(n)' = Level(n) /\ Todo(n)' = Todo(n) /\ Prefix(sel, n) = Prefix(Here, n)
      BY <1>5, <1>6, <2>1
    <3>2. /\ Level(n).dir = Prefix(Here, n) /\ Todo(n) \subseteq Child(Prefix(Here, n))
          /\ \A j, k \in 1..Len(Level(n).todo) : Level(n).todo[j] = Level(n).todo[k] => j = k
          /\ n < Depth => Prefix(Here, n + 1) \notin Todo(n)
      BY <1>1, <2>1 DEF WalkInv, Nested
    <3>3. Prefix(sel, n + 1) \notin Todo(n)
      <4>1. CASE n = Depth
        BY <1>4, <4>1
      <4>2. CASE n # Depth
        <5>1. n + 1 \in 1..Depth /\ n < Depth
          BY <1>3, <2>1, <4>2
        <5> QED BY <1>5, <3>2, <5>1
      <4> QED BY <4>1, <4>2
    <3> QED BY <3>1, <3>2, <3>3
  <2>2. CASE n = m
    <3>1. Level(n)' = Frame(sel, Size) /\ Todo(n)' = Child(sel)
      BY <1>6, <2>2
    <3>3. Prefix(sel, n) = sel /\ ~(n < m)
      BY <1>0, <1>4, <1>7, <2>2
    <3>2. /\ Frame(sel, Size).dir = sel
          /\ \A j, k \in 1..Len(Frame(sel, Size).todo) :
               Frame(sel, Size).todo[j] = Frame(sel, Size).todo[k] => j = k
      BY <1>4, Begins
    <3>4. Child(sel) \subseteq Child(Prefix(sel, n))
      BY <3>3
    <3> QED BY <3>1, <3>2, <3>3, <3>4
  <2> QED BY <1>7, <2>1, <2>2
<1>12. Seeking' /\ Led'
  BY <1>1, <1>6 DEF Seeking, Led
<1>13. Accounted'
  <2>1. Expected' = Expected
    BY <1>1 DEF Expected
  <2>2. ASSUME NEW e \in Expected, Awaited(e) PROVE Awaited(e)'
    <3>1. CASE In(e, sel)
      <4>1. PICK w \in Child(sel) : In(e, w)
        BY <1>4, <3>1, BelowIsAwaited
      <4> QED BY <1>6, <1>7, <4>1 DEF Awaited
    <3>2. CASE ~In(e, sel)
      <4>1. PICK n \in 1..Depth : \E w \in Todo(n) : In(e, w)
        BY <1>1, <1>2, <2>2, <3>2 DEF Awaited
      <4> QED BY <1>6, <1>7, <4>1 DEF Awaited
    <3> QED BY <3>1, <3>2
  <2>3. \A e : Reported(e) => Reported(e)'
    BY <1>8 DEF Reported
  <2> QED BY <1>1, <2>1, <2>2, <2>3 DEF WalkInv, Accounted
<1>14. Counted'
  <2>1. DOMAIN dump' \subseteq Seq(STRING) \ {<<>>}
    <3>1. sel # <<>>
      BY <1>3, <1>4
    <3> QED BY <1>4, <1>8, <3>1 DEF WalkInv, Counted
  <2>2. ASSUME NEW n \in 2..m
        PROVE  /\ Prefix(sel, n) \in DOMAIN dump'
               /\ Level(n)'.before = Cardinality({p \in DOMAIN dump' : ~In(p, Prefix(sel, n))})
    <3>1. CASE n \in 1..Depth
      <4>1. Prefix(Here, n) \in DOMAIN dump /\ Level(n).before = Cardinality({p \in DOMAIN dump : ~In(p, Prefix(Here, n))})
        BY <1>1, <1>7, <2>2, <3>1 DEF WalkInv, Counted, Rest
      <4>2. {p \in DOMAIN dump' : ~In(p, Prefix(Here, n))} = {p \in DOMAIN dump : ~In(p, Prefix(Here, n))}
        BY <1>8, <1>9, <3>1
      <4>3. Prefix(sel, n) = Prefix(Here, n) /\ Level(n)' = Level(n)
        BY <1>5, <1>6, <3>1
      <4> QED BY <1>8, <4>1, <4>2, <4>3
    <3>2. CASE n = m
      <4>1. Prefix(sel, n) = sel
        BY <1>0, <1>4, <3>2
      <4>2. Level(n)'.before = Size
        BY <1>4, <1>6, <3>2, Begins
      <4>3. {p \in DOMAIN dump' : ~In(p, sel)} = DOMAIN dump
        BY <1>4, <1>8, <1>9, InFacts
      <4> QED BY <1>8, <4>1, <4>2, <4>3 DEF Size
    <3> QED BY <1>7, <3>1, <3>2
  <2>3. ASSUME NEW p \in DOMAIN dump', NEW n \in 1..m, NEW w \in Todo(n)' PROVE ~In(p, w)
    <3>1. CASE n \in 1..Depth
      BY <1>1, <1>6, <1>8, <1>9, <3>1 DEF WalkInv, Counted
    <3>2. CASE n = m
      <4>1. w \in Child(sel) /\ p \in Seq(STRING) /\ (p = sel \/ ~In(p, sel))
        BY <1>6, <1>8, <1>9, <2>1, <3>2
      <4> QED BY <1>4, <4>1, NothingYet
    <3> QED BY <1>7, <3>1, <3>2
  <2>4. ASSUME NEW d \in DOMAIN dump', dump'[d].kind = "dir"
        PROVE  d = MF \/ (\E n \in 2..m : d = Prefix(sel, n)) \/ (\E p \in DOMAIN dump' : Deeper(p, d))
    <3>1. CASE d = sel
      <4>1. Prefix(sel, m) = sel
        BY <1>0, <1>4
      <4> QED BY <1>7, <3>1, <4>1
    <3>2. CASE d # sel
      <4>1. d \in DOMAIN dump /\ dump[d].kind = "dir"
        BY <1>8, <2>4, <3>2
      <4>2. d = MF \/ (\E n \in 2..Depth : d = Prefix(Here, n)) \/ (\E p \in DOMAIN dump : Deeper(p, d))
        BY <1>1, <4>1 DEF WalkInv, Counted
      <4> QED BY <1>5, <1>7, <1>8, <4>2
    <3> QED BY <3>1, <3>2
  <2>5. Doing' = {} /\ UnderWay'
    BY <1>1
  <2> QED BY <1>6, <2>1, <2>2, <2>3, <2>4, <2>5 DEF Counted, Rest
<1> QED BY <1>10, <1>11, <1>12, <1>13, <1>14 DEF WalkInv

LEMMA WithoutLast ==
  ASSUME NEW S, NEW e \in Seq(S), NEW x \in S
  PROVE  Append(e, x) \in Seq(S) /\ Len(Append(e, x)) = Len(e) + 1 /\ Prefix(Append(e, x), Len(e)) = e
<1> DEFINE t == Append(e, x)
<1>1. t \in Seq(S) /\ Len(t) = Len(e) + 1 /\ Len(e) \in Nat
  OBVIOUS
<1>2. \A i \in 1..Len(e) : t[i] = e[i]
  OBVIOUS
<1> HIDE DEF t
<1>3. Prefix(t, Len(e)) = [i \in 1..Len(e) |-> e[i]]
  BY <1>2 DEF Prefix
<1>4. [i \in 1..Len(e) |-> e[i]] = e
  OBVIOUS
<1> QED BY <1>1, <1>3, <1>4 DEF t

LEMMA Shorter == \A n, k \in Nat : n # 0 /\ n # 1 /\ n < k => n \in 2..(k - 1) /\ n \in 1..(k - 1)
OBVIOUS

\* A directory is left: it is taken out if the dump has nothing in it.
LEMMA DoneKeepsWalk ==
  ASSUME DumpInv, WalkInv, DirDone PROVE WalkInv'
<1>1. /\ phase = "walk" /\ phase' = "up" /\ UnderWay /\ UnderWay' /\ Doing = {} /\ Doing' = {}
      /\ UNCHANGED <<tree, alive, sel, outcome, access>>
      /\ Top.todo = <<>> /\ Len(frames) > 1 /\ frames' = Tail(frames) /\ Chan!CallSelectFile(Parent(sel))
  BY DEF DirDone, Chan!CallSelectFile, Chan!lchan, Chan!card, UnderWay, Doing
<1>2. /\ Here \in Files /\ Here \in OnCard /\ Here \notin EFs /\ Here \in Seq(STRING)
      /\ Depth \in Nat /\ Depth >= 1 /\ Len(Here) = Depth /\ Prefix(Here, Depth) = Here
      /\ frames \in Seq(FrameSet) /\ Top = Level(Depth)
      /\ \A n \in 1..Depth : /\ Prefix(Here, n) \in Profile /\ Prefix(Here, n) \notin EFs
                             /\ Prefix(Here, n) \in Seq(STRING) /\ Len(Prefix(Here, n)) = n
                             /\ In(Here, Prefix(Here, n))
  BY <1>1, CallsAre
<1>3. Todo(Depth) = {}
  BY <1>1, <1>2 DEF Todo, Elems
<1>0. PICK m : m = Depth - 1
  OBVIOUS
<1>4. /\ m \in Nat /\ m >= 1 /\ m \in 1..m /\ m \in 1..Depth /\ m = Len(Here) - 1 /\ Depth > 1
      /\ \A n \in 1..m : n \in 1..Depth /\ n < Depth /\ n + 1 \in 1..Depth
      /\ \A n \in 2..m : n \in 2..Depth /\ n \in 1..m
      /\ \A n \in 1..Depth : n \in 1..m \/ n = Depth
      /\ \A n \in 2..Depth : n \in 2..m \/ n = Depth
      /\ Depth \in 2..Depth
  BY <1>0, <1>1, <1>2 DEF Depth
<1>5. PICK h : h = Prefix(Here, m)
  OBVIOUS
<1>6. /\ Depth' = m /\ \A n \in 1..m : Level(n)' = Level(n) /\ Todo(n)' = Todo(n)
  <2>1. /\ Tail(frames) \in Seq(FrameSet) /\ Len(Tail(frames)) = Len(frames) - 1 /\ Len(frames) \in Nat
        /\ \A n \in 1..(Len(frames) - 1) : Tail(frames)[Len(Tail(frames)) + 1 - n] = frames[Len(frames) + 1 - n]
    BY <1>1, <1>2, Popped
  <2>2. m = Len(frames) - 1
    BY <1>0 DEF Depth
  <2> QED BY <1>1, <2>1, <2>2 DEF Depth, Level, Todo
<1>7. Here' = h
  <2>1. frames' \in Seq(FrameSet) /\ frames' # <<>> /\ Len(frames') = m
    <3>1. frames' \in Seq(FrameSet) /\ Len(frames') = m
      BY <1>1, <1>2, <1>6, Popped DEF Depth
    <3> QED BY <1>4, <3>1
  <2>2. Top' = Level(m)'
    BY <2>1, Levels DEF Top, Level
  <2>3. Level(m).dir = Prefix(Here, m)
    BY <1>1, <1>4 DEF WalkInv, Nested
  <2> QED BY <1>4, <1>5, <1>6, <2>2, <2>3 DEF Here
<1>8. /\ DOMAIN dump' \subseteq DOMAIN dump /\ DOMAIN dump \ {Here} \subseteq DOMAIN dump'
      /\ \A q \in DOMAIN dump' : dump'[q] = dump[q]
      /\ Here \in DOMAIN dump' => Size # Top.before + 1
  BY DEF DirDone, Here
<1>9. \A n \in 1..m : Prefix(h, n) = Prefix(Here, n)
  BY <1>2, <1>4, <1>5, PrefixOf
<1>10. Kept'
  BY <1>1 DEF WalkInv, Kept
<1>11. Nested'
  <2>1. h \in (Profile \cap OnCard) \ EFs /\ m = Len(h)
    <3>1. h \in Profile /\ h \notin EFs /\ Len(h) = m
      BY <1>2, <1>4, <1>5
    <3>2. h \in Dirs(Here)
      <4>1. m \in 1..(Len(Here) - 1)
        BY <1>4
      <4> QED BY <1>5, <4>1 DEF Dirs
    <3> QED BY <1>2, <3>1, <3>2, KnownShape
  <2>2. ASSUME NEW n \in 1..m
        PROVE  /\ Level(n)'.dir = Prefix(h, n) /\ Todo(n)' \subseteq Child(Prefix(h, n))
               /\ \A j, k \in 1..Len(Level(n)'.todo) : Level(n)'.todo[j] = Level(n)'.todo[k] => j = k
               /\ n < m => Prefix(h, n + 1) \notin Todo(n)'
    <3>1. Level(n)' = Level(n) /\ Todo(n)' = Todo(n) /\ Prefix(h, n) = Prefix(Here, n)
      BY <1>6, <1>9
    <3>2. /\ Level(n).dir = Prefix(Here, n) /\ Todo(n) \subseteq Child(Prefix(Here, n))
          /\ \A j, k \in 1..Len(Level(n).todo) : Level(n).todo[j] = Level(n).todo[k] => j = k
          /\ Prefix(Here, n + 1) \notin Todo(n)
      BY <1>1, <1>4 DEF WalkInv, Nested
    <3>3. n < m => Prefix(h, n + 1) = Prefix(Here, n + 1)
      <4>1. n < m => n + 1 \in 1..m
        BY <1>4
      <4> QED BY <1>9, <4>1
    <3> QED BY <3>1, <3>2, <3>3
  <2> QED BY <1>6, <1>7, <2>1, <2>2 DEF Nested
<1>12. Seeking' /\ Led'
  <2>1. P!FileUnrefused' /\ call'.kind = "select_file" /\ call'.file = Parent(sel)
    BY <1>1, WalkGoesUp
  <2>2. alive => sel = Here
    BY <1>1 DEF WalkInv, Led
  <2>3. Parent(Here) = h
    <3>1. Here # MF
      BY <1>2, <1>4, TreeShape
    <3> QED BY <1>4, <1>5, <3>1 DEF Parent
  <2> QED BY <1>1, <1>7, <2>1, <2>2, <2>3 DEF Seeking, Led
<1>13. Accounted'
  <2>1. Expected' = Expected
    BY <1>1 DEF Expected
  <2>2. ASSUME NEW e \in Expected, Awaited(e) PROVE Awaited(e)'
    BY <1>1, <1>3, <1>4, <1>6, <2>2 DEF Awaited
  <2>3. ASSUME NEW e \in Expected, Reported(e) PROVE Reported(e)'
    <3>1. e \in Profile /\ e \in EFs /\ e # Here
      BY <1>2 DEF Expected
    <3>2. Append(e, Name(e)) # Here
      <4>1. e \in Seq(STRING) /\ Len(e) \in Nat /\ Len(e) >= 1
        BY <3>1, KnownShape, FileIsSeq
      <4>2. Name(e) \in STRING
        BY <4>1 DEF Name
      <4>3. ASSUME Append(e, Name(e)) = Here PROVE FALSE
        <5>1. Len(e) + 1 = Depth /\ Prefix(Here, Len(e)) = e
          <6>1. Len(Append(e, Name(e))) = Len(e) + 1 /\ Prefix(Append(e, Name(e)), Len(e)) = e
            BY <4>1, <4>2, WithoutLast
          <6> QED BY <1>2, <4>3, <6>1
        <5>2. Len(e) \in 1..Depth
          BY <1>2, <4>1, <5>1
        <5> QED BY <1>2, <3>1, <5>1, <5>2
      <4> QED BY <4>3
    <3> QED BY <1>8, <2>3, <3>1, <3>2 DEF Reported
  <2> QED BY <1>1, <2>1, <2>2, <2>3 DEF WalkInv, Accounted
<1>14. Counted'
  <2>1. DOMAIN dump' \subseteq Seq(STRING) \ {<<>>}
    BY <1>8 DEF WalkInv, Counted
  <2>2. ASSUME NEW n \in 2..m
        PROVE  /\ Prefix(h, n) \in DOMAIN dump'
               /\ Level(n)'.before = Cardinality({p \in DOMAIN dump' : ~In(p, Prefix(h, n))})
    <3>1. Prefix(Here, n) \in DOMAIN dump /\ Level(n).before = Cardinality({p \in DOMAIN dump : ~In(p, Prefix(Here, n))})
      BY <1>1, <1>4 DEF WalkInv, Counted, Rest
    <3>2. Prefix(Here, n) # Here /\ In(Here, Prefix(Here, n))
      <4>1. n \in 1..Depth /\ n < Depth
        BY <1>4
      <4> QED BY <1>2, <4>1
    <3>3. {p \in DOMAIN dump' : ~In(p, Prefix(Here, n))} = {p \in DOMAIN dump : ~In(p, Prefix(Here, n))}
      BY <1>8, <3>2
    <3>4. Prefix(h, n) = Prefix(Here, n) /\ Level(n)' = Level(n)
      BY <1>4, <1>6, <1>9
    <3> QED BY <1>8, <3>1, <3>2, <3>3, <3>4
  <2>3. ASSUME NEW p \in DOMAIN dump', NEW n \in 1..m, NEW w \in Todo(n)' PROVE ~In(p, w)
    BY <1>1, <1>4, <1>6, <1>8, <2>3 DEF WalkInv, Counted
  <2>4. Here \in DOMAIN dump' => \E p \in DOMAIN dump' : Deeper(p, Here)
    <3> SUFFICES ASSUME Here \in DOMAIN dump', \A p \in DOMAIN dump : ~Deeper(p, Here) PROVE FALSE
      <4>1. \A p : Deeper(p, Here) => p # Here
        BY <1>2 DEF Deeper
      <4> QED BY <1>8, <4>1
    <3>1. Top.before = Cardinality(Rest(Here)) /\ Here \in DOMAIN dump
      BY <1>1, <1>2, <1>4 DEF WalkInv, Counted
    <3>2. DOMAIN dump = Rest(Here) \cup {Here} /\ Here \notin Rest(Here)
      <4>1. \A p \in DOMAIN dump : p \in Seq(STRING)
        BY DEF WalkInv, Counted
      <4>2. ASSUME NEW p \in DOMAIN dump, In(p, Here) PROVE p = Here
        BY <1>2, <4>1, <4>2, InFacts
      <4>3. In(Here, Here)
        BY <1>2, InFacts
      <4> QED BY <3>1, <4>2, <4>3 DEF Rest
    <3>3. IsFiniteSet(Rest(Here))
      BY <3>2, FS_Subset DEF DumpInv
    <3>4. Size = Cardinality(Rest(Here)) + 1
      BY <3>2, <3>3, FS_AddElement DEF Size
    <3> QED BY <1>8, <3>1, <3>4
  <2>5. ASSUME NEW d \in DOMAIN dump', dump'[d].kind = "dir"
        PROVE  d = MF \/ (\E n \in 2..m : d = Prefix(h, n)) \/ (\E p \in DOMAIN dump' : Deeper(p, d))
    <3>1. d \in DOMAIN dump /\ dump[d].kind = "dir" /\ d \in Seq(STRING) \ {<<>>}
      BY <1>8, <2>1, <2>5
    <3>2. d = MF \/ (\E n \in 2..Depth : d = Prefix(Here, n)) \/ (\E p \in DOMAIN dump : Deeper(p, d))
      BY <1>1, <3>1 DEF WalkInv, Counted
    <3>3. ASSUME NEW n \in 2..Depth, d = Prefix(Here, n)
          PROVE  (\E k \in 2..m : d = Prefix(h, k)) \/ (\E p \in DOMAIN dump' : Deeper(p, d))
      <4>1. CASE n = Depth
        BY <1>2, <2>4, <3>3, <4>1
      <4>2. CASE n # Depth
        <5>1. n \in 2..m /\ n \in 1..m
          BY <1>4, <4>2
        <5> QED BY <1>9, <3>3, <5>1
      <4> QED BY <4>1, <4>2
    <3>4. ASSUME NEW p \in DOMAIN dump, Deeper(p, d), p \notin DOMAIN dump'
          PROVE  d = MF \/ \E k \in 2..m : d = Prefix(h, k)
      <4>1. p = Here
        BY <1>8, <3>4
      <4>2. Len(d) \in Nat /\ Len(d) # 0 /\ Len(d) < Depth /\ Prefix(Here, Len(d)) = d
        BY <1>2, <3>1, <3>4, <4>1 DEF Deeper
      <4>3. CASE Len(d) = 1
        BY <1>2, <4>2, <4>3, TreeShape
      <4>4. CASE Len(d) # 1
        <5>1. Len(d) \in 2..m /\ Len(d) \in 1..m
          BY <1>0, <1>2, <4>2, <4>4, Shorter
        <5> QED BY <1>9, <4>2, <5>1
      <4> QED BY <4>3, <4>4
    <3> QED BY <3>2, <3>3, <3>4
  <2> QED BY <1>1, <1>6, <1>7, <2>1, <2>2, <2>3, <2>5 DEF Counted, Rest
<1> QED BY <1>10, <1>11, <1>12, <1>13, <1>14 DEF WalkInv
\* A step in which nothing happens.
LEMMA NothingKeepsWalk ==
  ASSUME WalkInv, UNCHANGED vars PROVE WalkInv'
<1>1. /\ UNCHANGED <<tree, sel, alive, stack, raised, call, at, hops, phase, frames, dump, outcome, access>>
  BY DEF vars, chanVars
<1>2. UnderWay' = UnderWay /\ Sought' = Sought /\ Doing' = Doing /\ Expected' = Expected
  BY <1>1, SameCalls DEF UnderWay, Sought, Doing, Expected
<1>3. Kept'
  BY <1>1 DEF WalkInv, Kept
<1>4. Nested'
  BY <1>1, <1>2, NestedStays DEF WalkInv, Nested
<1>5. (\A f : P!Aims(f)' = P!Aims(f) /\ P!Unrefused(f)' = P!Unrefused(f)) /\ P!Doomed' = P!Doomed /\ P!FileUnrefused' = P!FileUnrefused
  BY <1>1 DEF vars, chanVars, P!Aims, P!Unrefused, P!Doomed, P!FileUnrefused, P!Sound, P!Ctx
<1>6. Seeking'
  BY <1>1, <1>2, <1>5, SameCalls DEF WalkInv, Seeking
<1>7. Led'
  BY <1>1, <1>5, SameCalls DEF WalkInv, Led
<1>8. Accounted'
  <2>1. \A e : Awaited(e) => Awaited(e)'
    BY <1>1, <1>2, AwaitedStays
  <2> QED BY <1>1, <1>2, <2>1, ReportedStays DEF WalkInv, Accounted
<1>9. Counted'
  <2>1. CASE UnderWay
    BY <1>1, <1>2, <2>1, CountedStays DEF WalkInv
  <2>2. CASE ~UnderWay
    <3>1. \A p \in DOMAIN dump : dump'[p] = dump[p]
      BY <1>1
    <3> QED BY <1>1, <1>2, <2>2 DEF WalkInv, Counted
  <2> QED BY <2>1, <2>2
<1> QED BY <1>3, <1>4, <1>6, <1>7, <1>8, <1>9 DEF WalkInv

LEMMA InitWalkInv == Init => WalkInv
<1> SUFFICES ASSUME Init PROVE WalkInv
  OBVIOUS
<1>1. phase = "idle" /\ outcome = "none" /\ dump = <<>> /\ tree = Profile
  BY DEF Init, Chan!Init
<1>2. ~UnderWay /\ DOMAIN dump = {}
  BY <1>1 DEF UnderWay
<1> QED BY <1>1, <1>2 DEF WalkInv, Kept, Nested, Seeking, Led, Accounted, Counted

LEMMA NextWalkInv == ASSUME P!CanLeave, DumpInv, WalkInv, [Next]_vars PROVE WalkInv'
<1>1. CASE UNCHANGED vars
  BY <1>1, NothingKeepsWalk
<1>2. CASE Browse \/ StartReadAll \/ RootFailed
  BY <1>2, OutsideKeepsWalk
<1>3. CASE Selecting \/ Pulled
  BY <1>3, SelectingKeepsWalk, PulledKeepsWalk
<1>4. CASE RootSelected \/ NextName \/ DirEntered \/ DirDone \/ Finish
  BY <1>4, RootKeepsWalk, NameKeepsWalk, DirKeepsWalk, DoneKeepsWalk, FinishKeepsWalk
<1>5. CASE DirRefused \/ BackInDir \/ ReadRaises
  BY <1>5, BackKeepsWalk
<1>6. CASE FileRefused \/ FileSelected \/ ReadOk \/ ReadRefused \/ ReadCut \/ Leave
  BY <1>6, FileKeepsWalk, SelectedKeepsWalk, ReadKeepsWalk, LeaveKeepsWalk
<1> QED BY <1>1, <1>2, <1>3, <1>4, <1>5, <1>6 DEF Next, Walk

\* pysim_wrapper.py:297-440: on a card that lets a directory be left by its
\* parent's FID, a dump that ends with the link intact says of every file of the
\* profile below the directories of the card what became of it, whatever was
\* refused; and no directory is left in it in which nothing was found.
THEOREM DumpMissesNothing == ASSUME P!CanLeave PROVE Spec => []DumpIsComplete
<1>1. Init => DumpInv /\ WalkInv
  BY InitDumpInv, InitWalkInv
<1>2. DumpInv /\ WalkInv /\ [Next]_vars => (DumpInv /\ WalkInv)'
  BY NextDumpInv, NextWalkInv
<1>3. DumpInv /\ WalkInv => DumpIsComplete
  BY WalkImplies
<1> QED BY <1>1, <1>2, <1>3, PTL DEF Spec
-----------------------------------------------------------------------------
(* The tracer.  First what computing along a sequence is: `step` applied   *)
(* once for each element; and that a least number exists.                  *)

LEMMA LeastExists ==
  ASSUME NEW S \in SUBSET Nat, S # {}
  PROVE  \E i \in S : \A j \in S : i <= j
<1>1. \E i \in S : \A j \in S : <<j, i>> \notin OpToRel(<, Nat)
  BY WFMin, NatLessThanWellFounded, Zenon
<1>2. PICK i \in S : \A j \in S : <<j, i>> \notin OpToRel(<, Nat)
  BY <1>1, Zenon
<1>3. ASSUME NEW j \in S PROVE i <= j
  <2>1. i \in Nat /\ j \in Nat
    OBVIOUS
  <2>2. j < i => <<j, i>> \in OpToRel(<, Nat)
    BY <2>1 DEF OpToRel
  <2>3. <<j, i>> \notin OpToRel(<, Nat)
    BY <1>2, Zenon
  <2>4. ~(j < i)
    BY <2>2, <2>3, Zenon
  <2> QED BY <2>1, <2>4
<1> QED BY <1>3

\* What holds of 0 and passes from each number to the next holds up to n.
LEMMA UpTo ==
  ASSUME NEW n \in Nat, NEW H \in SUBSET (0..n), 0 \in H,
         \A i \in 1..n : i - 1 \in H => i \in H
  PROVE  H = 0..n
<1> SUFFICES ASSUME (0..n) \ H # {}
             PROVE  FALSE
  OBVIOUS
<1>1. (0..n) \ H \in SUBSET Nat
  OBVIOUS
<1>2. PICK i \in (0..n) \ H : \A j \in (0..n) \ H : i <= j
  BY <1>1, LeastExists
<1>3. i \in 1..n /\ i - 1 \in 0..n /\ ~(i <= i - 1)
  BY <1>2
<1>4. i - 1 \in H
  BY <1>2, <1>3
<1> QED BY <1>2, <1>3, <1>4

IsRun(r, n, S, a, step) == r \in [0..n -> S] /\ r[0] = a /\ \A i \in 1..n : r[i] = step[i][r[i - 1]]

\* A run of steps exists: step(i, x) is what the i-th makes of x.
LEMMA RunExists ==
  ASSUME NEW n \in Nat, NEW S, NEW a \in S, NEW step \in [1..n -> [S -> S]]
  PROVE  \E r : IsRun(r, n, S, a, step)
<1> DEFINE Runs(m) == {r \in [0..m -> S] : r[0] = a /\ \A i \in 1..m : r[i] = step[i][r[i - 1]]}
           H == {m \in 0..n : Runs(m) # {}}
<1>1. 0 \in H
  <2>1. [i \in 0..0 |-> a] \in Runs(0)
    OBVIOUS
  <2> QED BY <2>1
<1>2. ASSUME NEW m \in 1..n, m - 1 \in H
      PROVE  m \in H
  <2>1. PICK r : r \in Runs(m - 1)
    BY <1>2
  <2>2. r \in [0..(m - 1) -> S] /\ r[0] = a /\ \A i \in 1..(m - 1) : r[i] = step[i][r[i - 1]]
    BY <2>1
  <2>3. r[m - 1] \in S
    BY <2>2
  <2>4. step[m][r[m - 1]] \in S
    BY <2>3
  <2> DEFINE q == [i \in 0..m |-> IF i = m THEN step[m][r[m - 1]] ELSE r[i]]
  <2>5. \A i \in 0..m : i # m => i \in 0..(m - 1)
    OBVIOUS
  <2>6. q \in [0..m -> S]
    BY <2>2, <2>4, <2>5
  <2>7. q[0] = a
    BY <2>2
  <2>8. ASSUME NEW i \in 1..m PROVE q[i] = step[i][q[i - 1]]
    <3>1. i - 1 \in 0..m /\ i - 1 # m /\ i \in 0..m
      OBVIOUS
    <3>2. q[i - 1] = r[i - 1]
      BY <3>1
    <3>3. CASE i = m
      <4>1. q[i] = step[m][r[m - 1]]
        BY <3>1, <3>3
      <4> HIDE DEF q
      <4> QED BY <4>1, <3>2, <3>3
    <3>4. CASE i # m
      <4>1. i \in 1..(m - 1) /\ q[i] = r[i]
        BY <3>1, <3>4
      <4> QED BY <4>1, <3>2, <2>2
    <3> QED BY <3>3, <3>4
  <2>9. q \in Runs(m)
    <3> HIDE DEF q
    <3> QED BY <2>6, <2>7, <2>8
  <2>10. Runs(m) # {}
    BY <2>9
  <2> HIDE DEF Runs, q
  <2> QED BY <2>10
<1>3. H = 0..n
  <2>1. H \in SUBSET (0..n)
    OBVIOUS
  <2> HIDE DEF H
  <2> QED BY <2>1, <1>1, <1>2, UpTo
<1>4. PICK r : r \in Runs(n)
  BY <1>3, SMTT(30)
<1> QED BY <1>4 DEF IsRun

-----------------------------------------------------------------------------
(* The way of the card and of the tracer along the elements of a path.     *)
(* Both are runs; they stay together from where they first agree, as an    *)
(* identifier found below a directory is no other one's there.             *)

LChanSet == [open : BOOLEAN, sel : KnownTree, adf : (ADFs \cap KnownTree) \cup {NoFile}]

LEMMA The1 == \A set : set # {} => The(set) \in set
BY DEF The

LEMMA PathElementType ==
  ASSUME NEW l \in LChanSet, NEW id \in FidsUsed, NEW ok
  PROVE  PathElement(l, id, ok) \in LChanSet
<1>0. MF \in KnownTree /\ AssumedADF \in ADFs \cap KnownTree
  BY TraceAssumption
<1>1. ByFid[l.sel][id] # NoFile => ByFid[l.sel][id] \in KnownTree
  <2> DEFINE m == {f \in Selectables(KnownTree, l.sel) \ ADFs : Fid[f] = id}
             c == {f \in m : f # MF /\ Parent(f) = Cwd(l.sel)}
  <2>1. l.sel \in KnownTree
    BY DEF LChanSet
  <2>2. ByFid[l.sel][id] = IF c # {} THEN The(c) ELSE The(m)
    BY <2>1 DEF ByFid
  <2>3. c \subseteq m /\ m \subseteq KnownTree
    BY DEF Selectables
  <2>4. The(m) \in KnownTree \cup {NoFile} /\ (c # {} => The(c) \in KnownTree)
    BY <2>3 DEF The
  <2> HIDE DEF c, m
  <2> QED BY <2>2, <2>4
<1>2. l = [open |-> l.open, sel |-> l.sel, adf |-> l.adf]
  BY DEF LChanSet
<1> QED BY <1>0, <1>1, <1>2 DEF PathElement, LChanSet

IsPath(r, l, ids, ok) ==
  /\ r \in [0..Len(ids) -> LChanSet] /\ r[0] = l
  /\ \A i \in 1..Len(ids) : r[i] = PathElement(r[i - 1], ids[i], ok)

LEMMA PathIsARun ==
  ASSUME NEW l \in LChanSet, NEW ids \in Seq(FidsUsed), NEW ok
  PROVE  \E r : IsPath(r, l, ids, ok) /\ Path(l, ids, ok) = r[Len(ids)]
<1> DEFINE n == Len(ids)
           step == [i \in 1..n |-> [x \in LChanSet |-> PathElement(x, ids[i], ok)]]
           Is(r) == r = [i \in 0..n |-> IF i = 0 THEN l ELSE PathElement(r[i - 1], ids[i], ok)]
<1>1. step \in [1..n -> [LChanSet -> LChanSet]]
  BY PathElementType
<1>2. n \in Nat /\ \A i \in 0..n : i # 0 => i \in 1..n /\ i - 1 \in 0..n
  OBVIOUS
<1>3. PICK r : IsRun(r, n, LChanSet, l, step)
  <2> HIDE DEF n, step
  <2> QED BY <1>1, <1>2, RunExists
<1>4. r \in [0..n -> LChanSet] /\ r[0] = l /\ \A i \in 1..n : r[i] = step[i][r[i - 1]]
  <2> HIDE DEF n, step
  <2> QED BY <1>3 DEF IsRun
<1>5. \A i \in 1..n : step[i][r[i - 1]] = PathElement(r[i - 1], ids[i], ok)
  BY <1>2, <1>4
<1>6. Is(r)
  <2> HIDE DEF step, n
  <2> QED BY <1>2, <1>4, <1>5
<1>7. PICK q : q = CHOOSE p : Is(p)
  OBVIOUS
<1>8. Path(l, ids, ok) = q[n]
  BY <1>7 DEF Path
<1>9. Is(q)
  <2> HIDE DEF Is
  <2> QED BY <1>6, <1>7
<1>10. q[0] = l /\ \A i \in 1..n : q[i] = PathElement(q[i - 1], ids[i], ok)
  <2> HIDE DEF n
  <2> QED BY <1>2, <1>9
<1> DEFINE H == {i \in 0..n : q[i] \in LChanSet}
<1>11. \A i \in 1..n : i - 1 \in H => i \in H
  BY <1>10, PathElementType
<1>12. H = 0..n
  <2>1. 0 \in H /\ H \in SUBSET (0..n)
    BY <1>10
  <2> HIDE DEF H, n
  <2> QED BY <2>1, <1>2, <1>11, UpTo
<1>13. q \in [0..n -> LChanSet]
  <2> HIDE DEF n
  <2> QED BY <1>9, <1>12
<1> QED BY <1>8, <1>10, <1>13 DEF IsPath

OrNone(set) == set \cup {NoFile}

\* The card's way along a path.
Step(x, id, app) == IF x = NoFile THEN NoFile ELSE Below(x, id, app)
IsWay(r, f, ids, app) ==
  /\ r \in [0..Len(ids) -> OrNone(OnCard)] /\ r[0] = f
  /\ \A i \in 1..Len(ids) : r[i] = Step(r[i - 1], ids[i], app)

LEMMA StepType ==
  ASSUME NEW x \in OrNone(OnCard), NEW id \in FidsUsed, NEW app \in OrNone(OnCard)
  PROVE  Step(x, id, app) \in OrNone(OnCard)
<1>1. x # NoFile => Children[x][id] = The({g \in OnCard \ ADFs : g # MF /\ Parent(g) = x /\ Fid[g] = id})
  BY DEF Children, OrNone
<1>2. The({g \in OnCard \ ADFs : g # MF /\ Parent(g) = x /\ Fid[g] = id}) \in OrNone(OnCard)
  BY DEF The, OrNone
<1> QED BY <1>1, <1>2 DEF Step, Below, OrNone

LEMMA AlongIsAWay ==
  ASSUME NEW f \in OrNone(OnCard), NEW ids \in Seq(FidsUsed), NEW app \in OrNone(OnCard)
  PROVE  \E r : IsWay(r, f, ids, app) /\ Along(f, ids, app) = r[Len(ids)]
<1> DEFINE n == Len(ids)
           S == OrNone(OnCard)
           step == [i \in 1..n |-> [x \in S |-> Step(x, ids[i], app)]]
           Is(r) == r = [i \in 0..n |-> IF i = 0 THEN f ELSE IF r[i - 1] = NoFile THEN NoFile ELSE Below(r[i - 1], ids[i], app)]
<1>1. step \in [1..n -> [S -> S]]
  BY StepType
<1>2. n \in Nat /\ \A i \in 0..n : i # 0 => i \in 1..n /\ i - 1 \in 0..n
  OBVIOUS
<1>3. PICK r : IsRun(r, n, S, f, step)
  <2> HIDE DEF n, step
  <2> QED BY <1>1, <1>2, RunExists
<1>4. r \in [0..n -> S] /\ r[0] = f /\ \A i \in 1..n : r[i] = step[i][r[i - 1]]
  <2> HIDE DEF n, step
  <2> QED BY <1>3 DEF IsRun
<1>5. \A i \in 1..n : step[i][r[i - 1]] = IF r[i - 1] = NoFile THEN NoFile ELSE Below(r[i - 1], ids[i], app)
  <2> HIDE DEF S
  <2> QED BY <1>2, <1>4 DEF Step
<1>6. Is(r)
  <2> HIDE DEF step, n
  <2> QED BY <1>2, <1>4, <1>5
<1>7. PICK q : q = CHOOSE p : Is(p)
  OBVIOUS
<1>8. Along(f, ids, app) = q[n]
  BY <1>7 DEF Along
<1>9. Is(q)
  <2> HIDE DEF Is
  <2> QED BY <1>6, <1>7
<1>10. q[0] = f /\ \A i \in 1..n : q[i] = Step(q[i - 1], ids[i], app)
  <2> HIDE DEF n
  <2> QED BY <1>2, <1>9 DEF Step
<1> DEFINE H == {i \in 0..n : q[i] \in S}
<1>11. \A i \in 1..n : i - 1 \in H => i \in H
  <2> HIDE DEF S
  <2> QED BY <1>10, StepType DEF S
<1>12. H = 0..n
  <2>1. 0 \in H /\ H \in SUBSET (0..n)
    BY <1>10
  <2> HIDE DEF H, n
  <2> QED BY <2>1, <1>2, <1>11, UpTo
<1>13. q \in [0..n -> S]
  <2> HIDE DEF n, S
  <2> QED BY <1>9, <1>12
<1> QED BY <1>8, <1>10, <1>13 DEF IsWay

LEMMA MFIsRoot ==
  /\ MF \notin EFs /\ MF \notin ADFs /\ MF # NoFile /\ Cwd(MF) = MF
  /\ \A f \in Files : f # NoFile /\ (f # MF => MF \in Dirs(f))
<1>1. MF \notin EFs /\ MF \notin ADFs /\ Cwd(MF) = MF
  BY TreeShape DEF Cwd
<1>2. ASSUME NEW f \in Files PROVE f # NoFile
  BY TreeShape DEF NoFile
<1>3. ASSUME NEW f \in Files, f # MF PROVE MF \in Dirs(f)
  <2>1. f \in Seq(STRING) /\ Len(f) >= 1 /\ Prefix(f, 1) = MF
    BY TreeShape
  <2>2. Len(f) # 1
    BY <2>1, <1>3 DEF Prefix
  <2>3. 1 \in 1..(Len(f) - 1)
    <3>1. Len(f) \in Nat
      BY <2>1, LenProperties
    <3> QED BY <3>1, <2>1, <2>2, JustBefore
  <2> QED BY <2>1, <2>3 DEF Dirs
<1> QED BY <1>1, <1>2, <1>3, TreeShape

LEMMA CwdIsDirectory ==
  ASSUME NEW f \in Files
  PROVE  /\ Cwd(f) \in Files \ EFs /\ Cwd(Cwd(f)) = Cwd(f)
         /\ f \in OnCard => Cwd(f) \in OnCard
         /\ f \in KnownTree => Cwd(f) \in KnownTree
<1>1. CASE f \in EFs
  <2>1. f # MF
    BY <1>1, TreeShape
  <2>2. Parent(f) \in Dirs(f) /\ Parent(f) \in Files \ EFs
    BY <2>1, AboveIsDirectory
  <2> QED BY <1>1, <2>2, KnownShape, TraceAssumption DEF Cwd
<1>2. CASE f \notin EFs
  BY <1>2 DEF Cwd
<1> QED BY <1>1, <1>2

LEMMA KnownFiles == KnownTree \subseteq Files /\ OnCard \subseteq Files /\ MF \in KnownTree /\ MF \in OnCard
BY KnownShape, TraceAssumption

LEMMA TheOnly == \A x : The({x}) = x
BY DEF The

\* Where the card finds a child, it finds one that the tracer finds, too.
LEMMA SameChild ==
  ASSUME NEW d \in KnownTree, NEW x \in OnCard, Cwd(d) = x, NEW id \in FidsUsed,
         Children[x][id] \in KnownTree
  PROVE  /\ ByFid[d][id] = Children[x][id] /\ Parent(Children[x][id]) = x
         /\ Children[x][id] \in OnCard /\ Children[x][id] # MF
<1> DEFINE on == {g \in OnCard \ ADFs : g # MF /\ Parent(g) = x /\ Fid[g] = id}
           m == {f \in Selectables(KnownTree, d) \ ADFs : Fid[f] = id}
           c == {f \in m : f # MF /\ Parent(f) = Cwd(d)}
<1>1. PICK g : g = Children[x][id]
  OBVIOUS
<1>2. g \in KnownTree /\ g \in on
  <2>1. g = The(on) /\ g \in KnownTree
    BY <1>1 DEF Children
  <2>2. g # NoFile
    BY <2>1, KnownFiles, MFIsRoot
  <2> HIDE DEF on
  <2> QED BY <2>1, <2>2 DEF The
<1>3. g \in c
  BY <1>2 DEF Selectables
<1>4. ASSUME NEW h \in c PROVE h = g
  <2>1. h \in KnownTree /\ h \notin ADFs /\ h # MF /\ Parent(h) = x /\ Fid[h] = id
    BY DEF Selectables
  <2>2. g \in OnCard /\ g \notin ADFs /\ g # MF /\ Parent(g) = x /\ Fid[g] = id
    BY <1>2
  <2>3. x \notin EFs /\ x \notin ADFs \ FsADFs
    <3>1. x \in Dirs(g) /\ x \in Files \ EFs
      BY <2>2, AboveIsDirectory, KnownFiles
    <3> QED BY <3>1, <2>2, KnownFiles, TreeShape
  <2>4. Cwd(x) = x
    BY <2>3 DEF Cwd
  <2>5. g \in FidScope(x) /\ h \in FidScope(x)
    BY <2>1, <2>2, <2>3, <2>4, KnownFiles DEF FidScope
  <2>6. h \in Profile
    BY <2>1, TraceAssumption
  <2> QED BY <2>1, <2>2, <2>5, <2>6, FidUnique
<1>5. c = {g}
  <2> HIDE DEF c
  <2> QED BY <1>3, <1>4
<1>6. ByFid[d][id] = IF c # {} THEN The(c) ELSE The(m)
  BY DEF ByFid
<1>7. ByFid[d][id] = g
  <2> HIDE DEF c, m
  <2> QED BY <1>5, <1>6, TheOnly
<1> QED BY <1>1, <1>2, <1>7

\* What the tracer makes of a path that is not followed.
LEMMA ElementKeeps ==
  ASSUME NEW l \in LChanSet, NEW id \in FidsUsed, id # "7fff", NEW ok \in BOOLEAN
  PROVE  /\ PathElement(l, id, ok).adf = l.adf /\ PathElement(l, id, ok).open = l.open
         /\ ~ok => PathElement(l, id, ok) = l
         /\ ok /\ ByFid[l.sel][id] # NoFile => PathElement(l, id, ok).sel = ByFid[l.sel][id]
BY DEF PathElement, LChanSet

LEMMA ElementOpen ==
  ASSUME NEW l \in LChanSet, NEW id \in FidsUsed, NEW ok \in BOOLEAN
  PROVE  /\ PathElement(l, id, ok).open = l.open
         /\ id = "7fff" /\ l.adf # NoFile => PathElement(l, id, ok) = [l EXCEPT !.sel = l.adf]
BY DEF PathElement, LChanSet

LEMMA PathKeepsOpen ==
  ASSUME NEW l \in LChanSet, NEW ids \in Seq(FidsUsed), NEW ok \in BOOLEAN, NEW r, IsPath(r, l, ids, ok)
  PROVE  r[Len(ids)].open = l.open /\ r[Len(ids)] \in LChanSet
<1> DEFINE n == Len(ids)
           H == {i \in 0..n : r[i].open = l.open}
<1>1. n \in Nat /\ r \in [0..n -> LChanSet] /\ r[0] = l /\ \A i \in 1..n : r[i] = PathElement(r[i - 1], ids[i], ok)
  BY DEF IsPath
<1>2. \A i \in 1..n : i - 1 \in 0..n /\ i \in 0..n /\ ids[i] \in FidsUsed
  OBVIOUS
<1>3. \A i \in 1..n : i - 1 \in H => i \in H
  <2> HIDE DEF n
  <2> QED BY <1>1, <1>2, ElementOpen
<1>4. H = 0..n
  <2>1. 0 \in H /\ H \in SUBSET (0..n)
    BY <1>1
  <2> HIDE DEF H, n
  <2> QED BY <2>1, <1>1, <1>3, UpTo
<1>5. n \in H
  BY <1>1, <1>4
<1> QED BY <1>1, <1>5

\* From the k-th element on, no application is named.
LEMMA PathKeepsApp ==
  ASSUME NEW l \in LChanSet, NEW ids \in Seq(FidsUsed), NEW ok \in BOOLEAN, NEW r, IsPath(r, l, ids, ok),
         NEW k \in 0..Len(ids), \A i \in (k + 1)..Len(ids) : ids[i] # "7fff"
  PROVE  r[Len(ids)].adf = r[k].adf /\ (~ok => r[Len(ids)] = r[k])
<1> DEFINE n == Len(ids)
           H == {i \in 0..(n - k) : r[k + i].adf = r[k].adf /\ (~ok => r[k + i] = r[k])}
<1>1. n \in Nat /\ r \in [0..n -> LChanSet] /\ r[0] = l /\ \A i \in 1..n : r[i] = PathElement(r[i - 1], ids[i], ok)
  BY DEF IsPath
<1>2. ASSUME NEW i \in 1..(n - k), i - 1 \in H PROVE i \in H
  <2>1. k + i \in 1..n /\ k + i \in (k + 1)..n /\ k + i - 1 \in 0..n /\ k + (i - 1) = k + i - 1 /\ i \in 0..(n - k)
    OBVIOUS
  <2>2. r[k + i] = PathElement(r[k + i - 1], ids[k + i], ok) /\ r[k + i - 1] \in LChanSet /\ ids[k + i] \in FidsUsed /\ ids[k + i] # "7fff"
    BY <1>1, <2>1
  <2>3. r[k + i - 1].adf = r[k].adf /\ (~ok => r[k + i - 1] = r[k])
    BY <1>2, <2>1
  <2>4. r[k + i].adf = r[k + i - 1].adf /\ (~ok => r[k + i] = r[k + i - 1])
    BY <2>2, ElementKeeps
  <2> QED BY <2>1, <2>3, <2>4
<1>3. H = 0..(n - k)
  <2>1. 0 \in H /\ H \in SUBSET (0..(n - k)) /\ n - k \in Nat
    BY <1>1
  <2>2. PICK d : d = n - k
    OBVIOUS
  <2>3. \A i \in 1..d : i - 1 \in H => i \in H
    BY <1>2, <2>2
  <2> HIDE DEF H, n
  <2> QED BY <2>1, <2>2, <2>3, UpTo
<1>4. n - k \in H
  <2>1. n - k \in 0..(n - k)
    BY <1>1
  <2> HIDE DEF H, n
  <2> QED BY <1>3, <2>1
<1>5. k + (n - k) = n
  OBVIOUS
<1> QED BY <1>4, <1>5

LEMMA WayUp ==
  ASSUME NEW f \in OrNone(OnCard), NEW ids \in Seq(FidsUsed), NEW app \in OrNone(OnCard), NEW w, IsWay(w, f, ids, app),
         NEW k \in 0..Len(ids), \A i \in (k + 1)..Len(ids) : ids[i] # "7fff",
         w[Len(ids)] \in KnownTree
  PROVE  \A i \in k..Len(ids) : w[i] \in KnownTree \cap OnCard
<1> DEFINE n == Len(ids)
           H == {j \in 0..(n - k) : w[n - j] \in KnownTree \cap OnCard}
<1>1. n \in Nat /\ w \in [0..n -> OrNone(OnCard)] /\ \A i \in 1..n : w[i] = Step(w[i - 1], ids[i], app)
  BY DEF IsWay
<1>2. ASSUME NEW j \in 1..(n - k), j - 1 \in H PROVE j \in H
  <2>1. PICK i \in 1..n : i = n - (j - 1) /\ i - 1 = n - j /\ i - 1 \in 0..n /\ i \in (k + 1)..n
    <3>1. n - (j - 1) \in 1..n /\ n - (j - 1) - 1 = n - j /\ n - j \in 0..n /\ n - (j - 1) \in (k + 1)..n
      BY <1>1
    <3> QED BY <3>1
  <2>2. w[i] \in KnownTree \cap OnCard
    BY <1>2, <2>1
  <2>3. w[i] = Step(w[i - 1], ids[i], app) /\ w[i - 1] \in OrNone(OnCard) /\ ids[i] \in FidsUsed /\ ids[i] # "7fff"
    <3>1. w[i] = Step(w[i - 1], ids[i], app) /\ w[i - 1] \in OrNone(OnCard)
      <4> HIDE DEF n
      <4> QED BY <1>1, <2>1
    <3>2. ids[i] \in FidsUsed /\ ids[i] # "7fff"
      BY <2>1
    <3> QED BY <3>1, <3>2
  <2>4. w[i] # NoFile
    BY <2>2, KnownFiles, MFIsRoot
  <2>5. w[i - 1] \in OnCard /\ w[i] = Children[w[i - 1]][ids[i]]
    BY <2>3, <2>4 DEF Step, Below, OrNone
  <2>6. w[i] \in {g \in OnCard \ ADFs : g # MF /\ Parent(g) = w[i - 1] /\ Fid[g] = ids[i]}
    BY <2>3, <2>4, <2>5 DEF Children, The
  <2>7. w[i - 1] \in Dirs(w[i])
    BY <2>2, <2>6, KnownFiles, AboveIsDirectory
  <2>8. w[i - 1] \in KnownTree
    BY <2>2, <2>7, TraceAssumption
  <2> QED BY <2>1, <2>5, <2>8
<1>3. H = 0..(n - k)
  <2>1. 0 \in H /\ H \in SUBSET (0..(n - k)) /\ n - k \in Nat
    <3>1. n - 0 = n /\ n - k \in Nat /\ n \in 0..n
      BY <1>1
    <3>2. w[n] # NoFile /\ w[n] \in OrNone(OnCard)
      BY <1>1, <3>1, KnownFiles, MFIsRoot
    <3> QED BY <3>1, <3>2 DEF OrNone
  <2>2. PICK d : d = n - k
    OBVIOUS
  <2>3. \A i \in 1..d : i - 1 \in H => i \in H
    BY <1>2, <2>2
  <2> HIDE DEF H, n
  <2> QED BY <2>1, <2>2, <2>3, UpTo
<1>4. ASSUME NEW i \in k..n PROVE w[i] \in KnownTree \cap OnCard
  <2>1. n - i \in 0..(n - k) /\ n - (n - i) = i
    BY <1>1
  <2>2. n - i \in H
    <3> HIDE DEF H, n
    <3> QED BY <1>3, <2>1
  <2> QED BY <2>1, <2>2
<1> QED BY <1>4

\* From the k-th element on no application is named; there tracer and card
\* are in one directory.
Followed(r, l, ids) == IsPath(r, l, ids, TRUE)
Begun(r, w, ids, k) ==
  /\ \A i \in (k + 1)..Len(ids) : ids[i] # "7fff"
  /\ r[k].sel = w[k] \/ (Cwd(r[k].sel) = w[k] /\ k < Len(ids))

\* From the k-th element on the tracer goes where the card goes.
LEMMA PathFollows ==
  ASSUME NEW l \in LChanSet, NEW f \in OrNone(OnCard), NEW ids \in Seq(FidsUsed), NEW app \in OrNone(OnCard),
         NEW r, Followed(r, l, ids), NEW w, IsWay(w, f, ids, app),
         NEW k \in 0..Len(ids), Begun(r, w, ids, k), w[Len(ids)] \in KnownTree
  PROVE  r[Len(ids)].sel = w[Len(ids)]
<1>0. (\A i \in (k + 1)..Len(ids) : ids[i] # "7fff") /\ (r[k].sel = w[k] \/ (Cwd(r[k].sel) = w[k] /\ k < Len(ids)))
  BY DEF Begun
<1> DEFINE n == Len(ids)
           H == {i \in 0..(n - k) : r[k + i].sel = w[k + i] \/ (i = 0 /\ Cwd(r[k].sel) = w[k])}
<1>1. /\ n \in Nat /\ w \in [0..n -> OrNone(OnCard)] /\ \A i \in 1..n : w[i] = Step(w[i - 1], ids[i], app)
      /\ r \in [0..n -> LChanSet] /\ \A i \in 1..n : r[i] = PathElement(r[i - 1], ids[i], TRUE)
  <2>1. n \in Nat
    OBVIOUS
  <2>2. w \in [0..n -> OrNone(OnCard)] /\ \A i \in 1..n : w[i] = Step(w[i - 1], ids[i], app)
    BY Zenon DEF IsWay
  <2>3. r \in [0..n -> LChanSet] /\ \A i \in 1..n : r[i] = PathElement(r[i - 1], ids[i], TRUE)
    BY Zenon DEF IsPath, Followed
  <2> QED BY <2>1, <2>2, <2>3
<1>2. \A i \in k..n : w[i] \in KnownTree \cap OnCard
  BY <1>0, WayUp
<1>3. ASSUME NEW i \in 1..(n - k), i - 1 \in H PROVE r[k + i].sel = w[k + i]
  <2>1. PICK j \in 1..n : j = k + i /\ j - 1 = k + (i - 1) /\ j - 1 \in 0..n /\ j \in (k + 1)..n /\ j - 1 \in k..n /\ j \in k..n
    OBVIOUS
  <2>2. w[j] \in KnownTree /\ w[j - 1] \in KnownTree \cap OnCard
    BY <1>2, <2>1
  <2>3. w[j] = Step(w[j - 1], ids[j], app) /\ ids[j] \in FidsUsed /\ ids[j] # "7fff" /\ w[j] # NoFile /\ w[j - 1] # NoFile
    BY <1>0, <1>1, <2>1, <2>2, KnownFiles, MFIsRoot
  <2>4. w[j] = Children[w[j - 1]][ids[j]]
    BY <2>3 DEF Step, Below
  <2>5. r[j] = PathElement(r[j - 1], ids[j], TRUE) /\ r[j - 1] \in LChanSet
    BY <1>1, <2>1
  <2>6. r[j - 1].sel \in KnownTree
    BY <2>5 DEF LChanSet
  <2>7. w[j] \in OnCard \ ADFs /\ w[j] # MF /\ Parent(w[j]) = w[j - 1]
    <3>1. w[j] \in {g \in OnCard \ ADFs : g # MF /\ Parent(g) = w[j - 1] /\ Fid[g] = ids[j]}
      BY <2>2, <2>3, <2>4 DEF Children, The
    <3> QED BY <3>1
  <2>8. w[j - 1] \notin EFs
    BY <2>7, KnownFiles, AboveIsDirectory
  <2>9. Cwd(r[j - 1].sel) = w[j - 1]
    <3>1. r[j - 1].sel = w[j - 1] \/ (j - 1 = k /\ Cwd(r[k].sel) = w[k])
      BY <1>3, <2>1
    <3>2. Cwd(w[j - 1]) = w[j - 1]
      BY <2>8 DEF Cwd
    <3> QED BY <3>1, <3>2
  <2>10. ByFid[r[j - 1].sel][ids[j]] = w[j]
    BY <2>2, <2>3, <2>4, <2>6, <2>9, SameChild
  <2>11. r[j].sel = w[j]
    BY <2>3, <2>5, <2>10, ElementKeeps
  <2> QED BY <2>1, <2>11
<1>4. \A i \in 1..(n - k) : i - 1 \in H => i \in H
  <2>1. \A i \in 1..(n - k) : i \in 0..(n - k)
    OBVIOUS
  <2> QED BY <1>3, <2>1
<1>5. H = 0..(n - k)
  <2>1. 0 \in H /\ H \in SUBSET (0..(n - k)) /\ n - k \in Nat
    BY <1>0, <1>1
  <2>2. PICK d : d = n - k
    OBVIOUS
  <2>3. \A i \in 1..d : i - 1 \in H => i \in H
    BY <1>4, <2>2
  <2> HIDE DEF H, n
  <2> QED BY <2>1, <2>2, <2>3, UpTo
<1>6. CASE k < n
  <2>1. PICK d \in 1..(n - k) : d = n - k /\ d - 1 \in 0..(n - k) /\ k + d = n
    <3>1. n - k \in 1..(n - k) /\ n - k - 1 \in 0..(n - k) /\ k + (n - k) = n
      BY <1>1, <1>6
    <3> QED BY <3>1
  <2>2. d - 1 \in H
    <3> HIDE DEF H, n
    <3> QED BY <1>5, <2>1
  <2> QED BY <1>3, <2>1, <2>2
<1>7. CASE ~(k < n)
  <2>1. k = n
    BY <1>1, <1>7
  <2> QED BY <1>0, <2>1
<1> QED BY <1>6, <1>7

\* Of two files on one path, one lies above the other.
LEMMA OnePath ==
  ASSUME NEW f \in Files, NEW g \in {f} \cup Dirs(f), NEW h \in {f} \cup Dirs(f), g # h
  PROVE  g \in Dirs(h) \/ h \in Dirs(g)
<1>1. f \in Seq(STRING) /\ Len(f) \in Nat /\ f = Prefix(f, Len(f)) /\ Len(f) >= 1
  <2>1. f \in Seq(STRING) /\ Len(f) \in Nat /\ Len(f) >= 1
    BY TreeShape, LenProperties
  <2>2. f = Prefix(f, Len(f))
    BY <2>1 DEF Prefix
  <2> QED BY <2>1, <2>2
<1>2. ASSUME NEW x \in {f} \cup Dirs(f) PROVE \E a \in 1..Len(f) : x = Prefix(f, a)
  <2>1. CASE x = f
    BY <2>1, <1>1
  <2>2. CASE x \in Dirs(f)
    BY <2>2, <1>1 DEF Dirs
  <2> QED BY <2>1, <2>2
<1>3. PICK a \in 1..Len(f), b \in 1..Len(f) : g = Prefix(f, a) /\ h = Prefix(f, b)
  BY <1>2
<1>4. ASSUME NEW i \in 1..Len(f), NEW j \in 1..Len(f), i < j
      PROVE  Prefix(f, i) \in Dirs(Prefix(f, j))
  <2>1. Prefix(f, j) \in Seq(STRING) /\ Len(Prefix(f, j)) = j /\ Prefix(Prefix(f, j), i) = Prefix(f, i)
    BY <1>1, <1>4 DEF Prefix
  <2>2. i \in 1..(j - 1)
    BY <1>4
  <2> QED BY <2>1, <2>2 DEF Dirs
<1>5. a < b \/ b < a
  BY <1>3
<1> QED BY <1>3, <1>4, <1>5

LEMMA AppByName ==
  ASSUME NEW a \in ADFs, NEW b \in ADFs, Name(a) = Name(b)
  PROVE  a = b
<1>1. a \in Seq(STRING) /\ b \in Seq(STRING) /\ Len(a) = 2 /\ Len(b) = 2 /\ Prefix(a, 1) = MF /\ Prefix(b, 1) = MF
  BY TreeShape
<1>2. a[1] = b[1]
  BY <1>1 DEF Prefix
<1>3. a[2] = b[2]
  BY <1>1 DEF Name
<1> QED BY <1>1, <1>2, <1>3

\* The MF's identifier leads to the MF from everywhere.
LEMMA ByFidRoot ==
  ASSUME NEW d \in KnownTree, Fid[MF] \in FidsUsed
  PROVE  ByFid[d][Fid[MF]] = MF
<1> DEFINE m == {f \in Selectables(KnownTree, d) \ ADFs : Fid[f] = Fid[MF]}
           c == {f \in m : f # MF /\ Parent(f) = Cwd(d)}
<1>1. ASSUME NEW h \in m PROVE h = MF
  <2>1. h \in KnownTree /\ h \notin ADFs /\ Fid[h] = Fid[MF]
    BY DEF Selectables
  <2>2. h # MF => MF \in Dirs(h) \ ADFs
    BY <2>1, KnownFiles, MFIsRoot
  <2>3. h \in (Profile \cup OnCard) \ ADFs
    BY <2>1, TraceAssumption
  <2> QED BY <2>1, <2>2, <2>3, TraceAssumption
<1>2. MF \in m
  BY KnownFiles, MFIsRoot DEF Selectables
<1>3. c = {} /\ m = {MF}
  BY <1>1, <1>2
<1>4. ByFid[d][Fid[MF]] = IF c # {} THEN The(c) ELSE The(m)
  BY DEF ByFid
<1> HIDE DEF c, m
<1> QED BY <1>3, <1>4, TheOnly

\* What the card finds by an identifier, and what the tracer finds.
LEMMA FoundIs ==
  ASSUME NEW x \in OnCard, NEW id \in FidsUsed, Found[x][id] # NoFile
  PROVE  /\ Found[x][id] \in OnCard \cap FidScope(x) /\ Fid[Found[x][id]] = id
         /\ Found[x][id] \notin ADFs /\ id # "7fff"
<1>1. Found[x][id] = The(CardFind(x, id))
  BY DEF Found
<1>2. Found[x][id] \in CardFind(x, id)
  BY <1>1 DEF The
<1>3. Found[x][id] \in OnCard \cap FidScope(x) /\ Fid[Found[x][id]] = id
  BY <1>2 DEF CardFind
<1>4. Found[x][id] \notin ADFs
  BY <1>3 DEF FidScope
<1> QED BY <1>3, <1>4, TraceAssumption

LEMMA ByFidFollows ==
  ASSUME NEW x \in OnCard \cap KnownTree, NEW id \in FidsUsed, NEW f, f = Found[x][id], f \in KnownTree,
         f \in {MF, x} \cup Dirs(x) \/ Parent(f) = Cwd(x)
  PROVE  ByFid[x][id] = f
<1> DEFINE m == {h \in Selectables(KnownTree, x) \ ADFs : Fid[h] = id}
           c == {h \in m : h # MF /\ Parent(h) = Cwd(x)}
<1>1. f \in OnCard /\ f \in FidScope(x) /\ Fid[f] = id /\ f \notin ADFs
  BY FoundIs, KnownFiles, MFIsRoot
<1>2. f \in m
  <2>1. f \in Selectables(KnownTree, x)
    BY DEF Selectables
  <2> QED BY <1>1, <2>1
<1>3. ASSUME NEW h \in c PROVE h = f
  <2>1. h \in KnownTree /\ h \notin ADFs /\ h # MF /\ Parent(h) = Cwd(x) /\ Fid[h] = id
    BY DEF Selectables
  <2>2. x \notin ADFs \ FsADFs
    BY <1>1 DEF FidScope
  <2>3. h \in FidScope(x)
    BY <2>1, <2>2, KnownFiles DEF FidScope
  <2>4. h \in Profile
    BY <2>1, TraceAssumption
  <2> QED BY <1>1, <2>1, <2>3, <2>4, FidUnique
<1>4. c # {} => c = {f}
  <2> HIDE DEF c
  <2> QED BY <1>3
<1>5. ASSUME c = {}, NEW h \in m PROVE h = f
  <2>1. \A g \in m : g \in KnownTree /\ g \notin ADFs /\ Fid[g] = id /\ g \in {x} \cup Dirs(x)
    <3> SUFFICES ASSUME NEW g \in m PROVE g \in KnownTree /\ g \notin ADFs /\ Fid[g] = id /\ g \in {x} \cup Dirs(x)
      OBVIOUS
    <3>1. g \in KnownTree /\ g \notin ADFs /\ Fid[g] = id /\ g \in Selectables(KnownTree, x)
      BY DEF Selectables
    <3>2. g \notin c
      BY <1>5
    <3>3. g \in {x, MF} \cup Dirs(x)
      BY <3>1, <3>2 DEF Selectables
    <3>4. MF \in {x} \cup Dirs(x)
      BY KnownFiles, MFIsRoot
    <3> QED BY <3>1, <3>3, <3>4
  <2>2. h \in {x} \cup Dirs(x) /\ f \in {x} \cup Dirs(x) /\ h \in KnownTree /\ h \notin ADFs /\ Fid[h] = id
    BY <2>1, <1>2
  <2>3. h \in (Profile \cup OnCard) \ ADFs /\ f \in (Profile \cup OnCard) \ ADFs
    BY <1>1, <2>2, TraceAssumption
  <2>4. h # f => h \in Dirs(f) \/ f \in Dirs(h)
    BY <2>2, KnownFiles, OnePath
  <2>5. h \notin Dirs(f) /\ f \notin Dirs(h)
    BY <1>1, <2>2, <2>3, TraceAssumption
  <2> QED BY <2>4, <2>5
<1>6. c = {} => m = {f}
  <2> HIDE DEF c, m
  <2> QED BY <1>2, <1>5
<1>7. ByFid[x][id] = IF c # {} THEN The(c) ELSE The(m)
  BY DEF ByFid
<1> HIDE DEF c, m
<1> QED BY <1>4, <1>6, <1>7, TheOnly
-----------------------------------------------------------------------------
(* A SELECT: the application and the file it leaves the card and the       *)
(* tracer with.                                                            *)

Apps(t) == (ADFs \cap t) \cup {NoFile}
ChipSet == [open : BOOLEAN, cur : OnCard, app : Apps(OnCard)]

LEMMA SelectShape ==
  ASSUME NEW s \in Selects
  PROVE  /\ s.mode \in {"fid", "from_mf", "from_df", "aid"} /\ s.ids \in Seq(STRING) /\ s.ids # <<>>
         /\ s.mode # "aid" => s.ids \in Seq(FidsUsed) /\ s.ids[1] \in FidsUsed
         /\ \A i \in 2..Len(s.ids) : s.ids[i] # "7fff"
         /\ Len(s.ids) \in Nat /\ 1 \in 1..Len(s.ids)
<1>1. s \in [mode : {"fid", "from_mf", "from_df", "aid"}, ids : Seq(STRING) \ {<<>>}]
  BY TraceAssumption
<1>2. s.mode \in {"fid", "from_mf", "from_df", "aid"} /\ s.ids \in Seq(STRING) /\ s.ids # <<>>
  BY <1>1
<1>3. Len(s.ids) \in Nat /\ 1 \in 1..Len(s.ids)
  BY <1>2
<1>4. \A i \in 2..Len(s.ids) : s.ids[i] # "7fff"
  BY TraceAssumption
<1>5. ASSUME s.mode # "aid" PROVE s.ids \in Seq(FidsUsed) /\ s.ids[1] \in FidsUsed
  <2>1. ASSUME NEW i \in 1..Len(s.ids) PROVE s.ids[i] \in FidsUsed
    <3>1. DOMAIN s.ids = 1..Len(s.ids)
      BY <1>2
    <3>2. s.ids[i] \in {s.ids[j] : j \in DOMAIN s.ids}
      BY <3>1
    <3> QED BY <1>5, <3>2 DEF FidsUsed
  <2> QED BY <1>2, <1>3, <2>1
<1> QED BY <1>2, <1>3, <1>4, <1>5

LEMMA PathType ==
  ASSUME NEW l \in LChanSet, NEW ids \in Seq(FidsUsed), NEW ok \in BOOLEAN
  PROVE  Path(l, ids, ok) \in LChanSet /\ Path(l, ids, ok).open = l.open
<1>1. PICK r : IsPath(r, l, ids, ok) /\ Path(l, ids, ok) = r[Len(ids)]
  BY PathIsARun
<1> QED BY <1>1, PathKeepsOpen

LEMMA FirstElement ==
  ASSUME NEW l \in LChanSet, NEW ids \in Seq(FidsUsed), ids # <<>>, NEW ok \in BOOLEAN, NEW r, IsPath(r, l, ids, ok)
  PROVE  r[0] = l /\ r[1] = PathElement(l, ids[1], ok) /\ ids[1] \in FidsUsed /\ 1 \in 0..Len(ids) /\ 0 \in 0..Len(ids) /\ 0 < Len(ids)
<1>1. 1 \in 1..Len(ids)
  OBVIOUS
<1>2. r[1] = PathElement(r[1 - 1], ids[1], ok) /\ r[0] = l
  BY <1>1, Zenon DEF IsPath
<1> QED BY <1>1, <1>2

LEMMA PathApp ==
  ASSUME NEW l \in LChanSet, NEW ids \in Seq(FidsUsed), ids # <<>>, NEW ok \in BOOLEAN,
         \A i \in 2..Len(ids) : ids[i] # "7fff"
  PROVE  /\ (ids[1] = "7fff" => l.adf # NoFile) => Path(l, ids, ok).adf = l.adf
         /\ ~ok /\ ids[1] # "7fff" => Path(l, ids, ok) = l
<1>1. PICK r : IsPath(r, l, ids, ok) /\ Path(l, ids, ok) = r[Len(ids)]
  BY PathIsARun
<1>2. r[0] = l /\ r[1] = PathElement(l, ids[1], ok) /\ ids[1] \in FidsUsed /\ 1 \in 0..Len(ids) /\ 0 \in 0..Len(ids)
  BY <1>1, FirstElement
<1>3. \A i \in (1 + 1)..Len(ids) : ids[i] # "7fff"
  OBVIOUS
<1>4. r[Len(ids)].adf = r[1].adf /\ (~ok => r[Len(ids)] = r[1])
  BY <1>1, <1>2, <1>3, PathKeepsApp
<1>5. CASE ids[1] = "7fff"
  <2>1. l.adf # NoFile => r[1].adf = l.adf
    BY <1>2, <1>5, ElementOpen DEF LChanSet
  <2> QED BY <1>1, <1>4, <1>5, <2>1
<1>6. CASE ids[1] # "7fff"
  BY <1>1, <1>2, <1>4, <1>6, ElementKeeps
<1> QED BY <1>5, <1>6

LEMMA PathReaches ==
  ASSUME NEW l \in LChanSet, NEW ids \in Seq(FidsUsed), ids # <<>>,
         \A i \in 2..Len(ids) : ids[i] # "7fff",
         NEW x \in OnCard, NEW app \in OrNone(OnCard), NEW ok \in BOOLEAN, ok,
         Along(x, ids, app) \in KnownTree,
         ids[1] # "7fff" => l.sel = x \/ Cwd(l.sel) = x,
         ids[1] = "7fff" => l.adf = app
  PROVE  Path(l, ids, ok).sel = Along(x, ids, app) /\ (ids[1] = "7fff" => app # NoFile)
<1>1. PICK r : IsPath(r, l, ids, ok) /\ Path(l, ids, ok) = r[Len(ids)]
  BY PathIsARun
<1>2. PICK w : IsWay(w, x, ids, app) /\ Along(x, ids, app) = w[Len(ids)]
  BY AlongIsAWay DEF OrNone
<1>3. r[0] = l /\ r[1] = PathElement(l, ids[1], ok) /\ ids[1] \in FidsUsed /\ 1 \in 0..Len(ids) /\ 0 \in 0..Len(ids) /\ 0 < Len(ids)
  BY <1>1, FirstElement
<1>4. w[0] = x /\ w[1] = Step(x, ids[1], app)
  <2>1. 1 \in 1..Len(ids)
    BY <1>3
  <2>2. w[1] = Step(w[1 - 1], ids[1], app) /\ w[0] = x
    BY <1>2, <2>1, Zenon DEF IsWay
  <2> QED BY <2>2
<1>5. x \in OrNone(OnCard) /\ x # NoFile
  BY KnownFiles, MFIsRoot DEF OrNone
<1>6. CASE ids[1] = "7fff"
  <2>1. w[1] = app
    BY <1>4, <1>5, <1>6 DEF Step, Below
  <2>2. \A i \in (1 + 1)..Len(ids) : ids[i] # "7fff"
    OBVIOUS
  <2>3. app \in KnownTree
    BY <1>2, <1>3, <1>5, <2>1, <2>2, WayUp
  <2>4. app # NoFile
    BY <2>3, KnownFiles, MFIsRoot
  <2>5. r[1].sel = app
    <3>1. l.adf = app /\ l.adf # NoFile
      BY <1>6, <2>4
    <3>2. PathElement(l, ids[1], ok) = [l EXCEPT !.sel = l.adf]
      BY <1>3, <1>6, <3>1, ElementOpen
    <3>3. [l EXCEPT !.sel = l.adf].sel = l.adf
      BY DEF LChanSet
    <3> QED BY <1>3, <3>1, <3>2, <3>3
  <2>6. r[Len(ids)].sel = w[Len(ids)]
    <3>1. w[Len(ids)] \in KnownTree
      BY <1>2
    <3>2. PICK k \in 0..Len(ids) : k = 1
      BY <1>3
    <3>3. Begun(r, w, ids, k)
      BY <2>1, <2>2, <2>5, <3>2 DEF Begun
    <3>4. Followed(r, l, ids)
      BY <1>1, ok = TRUE DEF Followed
    <3> QED BY <1>2, <1>5, <3>1, <3>3, <3>4, PathFollows
  <2> QED BY <1>1, <1>2, <2>4, <2>6
<1>7. CASE ids[1] # "7fff"
  <2>1. \A i \in (0 + 1)..Len(ids) : ids[i] # "7fff"
    BY <1>7
  <2>2. r[Len(ids)].sel = w[Len(ids)]
    <3>1. w[Len(ids)] \in KnownTree
      BY <1>2
    <3>2. PICK k \in 0..Len(ids) : k = 0
      BY <1>3
    <3>3. Begun(r, w, ids, k)
      BY <1>3, <1>4, <1>7, <2>1, <3>2 DEF Begun
    <3>4. Followed(r, l, ids)
      BY <1>1, ok = TRUE DEF Followed
    <3> QED BY <1>2, <1>5, <3>1, <3>3, <3>4, PathFollows
  <2> QED BY <1>1, <1>2, <1>7, <2>2
<1> QED BY <1>6, <1>7

SelectCmd(n, s) == Cmd("SELECT", n, s.mode, s.ids, 0)
ReadCmd(n, sfi) == Cmd("READ", n, "", <<sfi>>, 0)

LEMMA SelectFields ==
  ASSUME NEW n, NEW s
  PROVE  SelectCmd(n, s).ins = "SELECT" /\ SelectCmd(n, s).mode = s.mode /\ SelectCmd(n, s).ids = s.ids /\ SelectCmd(n, s).cla = ClaOf(n)
BY DEF SelectCmd, Cmd

LEMMA TargetType ==
  ASSUME NEW p \in ChipSet, NEW s \in Selects
  PROVE  /\ Target(p, s.mode, s.ids) \in OrNone(OnCard)
         /\ s.mode = "aid" => Target(p, s.mode, s.ids) \in Apps(OnCard)
<1>1. p.cur \in OnCard /\ p.app \in Apps(OnCard) /\ p.app \in OrNone(OnCard)
  BY DEF ChipSet, Apps, OrNone
<1>2. CASE s.mode = "fid"
  <2>1. Target(p, s.mode, s.ids) = Found[p.cur][s.ids[1]]
    BY <1>2 DEF Target
  <2>2. s.ids[1] \in FidsUsed
    BY <1>2, SelectShape
  <2> QED BY <1>1, <1>2, <2>1, <2>2, FoundIs DEF OrNone
<1>3. ASSUME s.mode # "aid", NEW x \in OnCard PROVE Along(x, s.ids, p.app) \in OrNone(OnCard)
  <2>1. s.ids \in Seq(FidsUsed) /\ Len(s.ids) \in 0..Len(s.ids) /\ x \in OrNone(OnCard)
    BY <1>3, SelectShape DEF OrNone
  <2>2. PICK r : IsWay(r, x, s.ids, p.app) /\ Along(x, s.ids, p.app) = r[Len(s.ids)]
    BY <1>1, <2>1, AlongIsAWay
  <2>3. r \in [0..Len(s.ids) -> OrNone(OnCard)]
    BY <2>2, Zenon DEF IsWay
  <2> QED BY <2>1, <2>2, <2>3
<1>4. CASE s.mode = "from_mf"
  <2>1. Target(p, s.mode, s.ids) = Along(MF, s.ids, p.app)
    BY <1>4 DEF Target
  <2> QED BY <1>3, <1>4, <2>1, KnownFiles
<1>5. CASE s.mode = "from_df"
  <2>1. Target(p, s.mode, s.ids) = Along(Cwd(p.cur), s.ids, p.app)
    BY <1>5 DEF Target
  <2>2. Cwd(p.cur) \in OnCard
    BY <1>1, KnownFiles, CwdIsDirectory
  <2> QED BY <1>3, <1>5, <2>1, <2>2
<1>6. CASE s.mode = "aid"
  <2>1. Target(p, s.mode, s.ids) = The({a \in ADFs \cap OnCard : Name(a) = s.ids[1]})
    BY <1>6 DEF Target
  <2>2. Target(p, s.mode, s.ids) \in Apps(OnCard)
    BY <2>1 DEF The, Apps
  <2> QED BY <2>2 DEF Apps, OrNone
<1> QED BY <1>2, <1>4, <1>5, <1>6, SelectShape

LEMMA AtRoot ==
  ASSUME NEW l \in LChanSet
  PROVE  \E k \in LChanSet : k = [l EXCEPT !.sel = MF] /\ k.sel = MF /\ k.adf = l.adf /\ k.open = l.open
<1>1. [l EXCEPT !.sel = MF] \in LChanSet /\ [l EXCEPT !.sel = MF].sel = MF /\ [l EXCEPT !.sel = MF].adf = l.adf
     /\ [l EXCEPT !.sel = MF].open = l.open
  BY KnownFiles DEF LChanSet
<1> QED BY <1>1

LEMMA UiccSelectType ==
  ASSUME NEW l \in LChanSet, NEW n, NEW s \in Selects, NEW ok \in BOOLEAN
  PROVE  UiccSelect(l, SelectCmd(n, s), ok) \in LChanSet /\ UiccSelect(l, SelectCmd(n, s), ok).open = l.open
<1>1. PICK c : c = SelectCmd(n, s) /\ c.mode = s.mode /\ c.ids = s.ids
  BY SelectFields
<1>2. s.mode # "aid" => s.ids \in Seq(FidsUsed) /\ s.ids[1] \in FidsUsed
  BY SelectShape
<1>3. CASE s.mode = "fid"
  <2>1. UiccSelect(l, c, ok) = IF s.ids[1] = "7fff" THEN l ELSE PathElement(l, s.ids[1], ok)
    BY <1>1, <1>3 DEF UiccSelect
  <2>2. PathElement(l, s.ids[1], ok) \in LChanSet
    BY <1>2, <1>3, PathElementType
  <2>3. PathElement(l, s.ids[1], ok).open = l.open
    BY <1>2, <1>3, ElementOpen
  <2> QED BY <1>1, <2>1, <2>2, <2>3
<1>4. CASE s.mode = "from_mf"
  <2>1. UiccSelect(l, c, ok) = Path([l EXCEPT !.sel = MF], s.ids, ok)
    BY <1>1, <1>4 DEF UiccSelect
  <2>2. PICK k \in LChanSet : k = [l EXCEPT !.sel = MF] /\ k.open = l.open
    BY AtRoot
  <2>3. Path(k, s.ids, ok) \in LChanSet /\ Path(k, s.ids, ok).open = k.open
    BY <1>2, <1>4, PathType
  <2> QED BY <1>1, <2>1, <2>2, <2>3
<1>5. CASE s.mode = "from_df"
  <2>1. UiccSelect(l, c, ok) = Path(l, s.ids, ok)
    BY <1>1, <1>5 DEF UiccSelect
  <2> QED BY <1>1, <1>2, <1>5, <2>1, PathType
<1>6. CASE s.mode = "aid"
  <2>1. PICK a : a = The({b \in ADFs \cap KnownTree : Name(b) = s.ids[1]})
    OBVIOUS
  <2>2. UiccSelect(l, c, ok) = IF a = NoFile THEN l ELSE [l EXCEPT !.adf = a, !.sel = a]
    BY <1>1, <1>6, <2>1 DEF UiccSelect
  <2>3. a \in (ADFs \cap KnownTree) \cup {NoFile}
    BY <2>1 DEF The
  <2>4. a # NoFile => [l EXCEPT !.adf = a, !.sel = a] \in LChanSet /\ [l EXCEPT !.adf = a, !.sel = a].open = l.open
    BY <2>3 DEF LChanSet
  <2> QED BY <1>1, <2>2, <2>4
<1> QED BY <1>3, <1>4, <1>5, <1>6, SelectShape

\* A way through the application is none if no application is selected.
LEMMA WayThroughApp ==
  ASSUME NEW x \in OrNone(OnCard), x # NoFile, NEW ids \in Seq(FidsUsed), ids # <<>>, ids[1] = "7fff",
         NEW app \in OrNone(OnCard), NEW w, IsWay(w, x, ids, app), w[Len(ids)] # NoFile
  PROVE  app # NoFile
<1> DEFINE n == Len(ids)
           H == {i \in 0..(n - 1) : w[1 + i] = NoFile}
<1> SUFFICES ASSUME app = NoFile PROVE FALSE
  OBVIOUS
<1>1. n \in Nat /\ 1 \in 1..n
  OBVIOUS
<1>2. w[0] = x /\ \A i \in 1..n : w[i] = Step(w[i - 1], ids[i], app)
  BY Zenon DEF IsWay
<1>3. w[1] = NoFile
  <2>1. w[1] = Step(w[1 - 1], ids[1], app)
    BY <1>1, <1>2
  <2> QED BY <1>2, <2>1 DEF Step, Below
<1>4. ASSUME NEW i \in 1..(n - 1), i - 1 \in H PROVE i \in H
  <2>1. PICK j \in 1..n : j = 1 + i /\ j - 1 = 1 + (i - 1) /\ i \in 0..(n - 1)
    BY <1>1
  <2>2. w[j] = Step(w[j - 1], ids[j], app) /\ w[j - 1] = NoFile
    BY <1>2, <1>4, <2>1
  <2> QED BY <2>1, <2>2 DEF Step
<1>5. H = 0..(n - 1)
  <2>1. 0 \in H /\ H \in SUBSET (0..(n - 1)) /\ n - 1 \in Nat
    BY <1>1, <1>3
  <2>2. PICK d : d = n - 1
    OBVIOUS
  <2>3. \A i \in 1..d : i - 1 \in H => i \in H
    BY <1>4, <2>2
  <2> HIDE DEF H, n
  <2> QED BY <2>1, <2>2, <2>3, UpTo
<1>6. n - 1 \in H
  <2>1. n - 1 \in 0..(n - 1)
    BY <1>1
  <2> HIDE DEF H, n
  <2> QED BY <1>5, <2>1
<1>7. 1 + (n - 1) = n
  BY <1>1
<1> QED BY <1>6, <1>7

LEMMA AidFollows ==
  ASSUME NEW p \in ChipSet, NEW l \in LChanSet, NEW n, NEW s \in Selects, s.mode = "aid",
         NEW f, f = Target(p, s.mode, s.ids), f \in KnownTree,
         NEW c, c = SelectCmd(n, s), NEW ok \in BOOLEAN
  PROVE  UiccSelect(l, c, ok).adf = f /\ UiccSelect(l, c, ok).sel = f
<1> DEFINE on == {a \in ADFs \cap OnCard : Name(a) = s.ids[1]}
           known == {b \in ADFs \cap KnownTree : Name(b) = s.ids[1]}
<1>1. f = The(on) /\ f # NoFile
  BY KnownFiles, MFIsRoot DEF Target
<1>2. f \in on
  <2> HIDE DEF on
  <2> QED BY <1>1 DEF The
<1>3. f \in known
  BY <1>2
<1>4. known = {f}
  <2>1. \A b \in known : b = f
    BY <1>3, AppByName
  <2> HIDE DEF known
  <2> QED BY <1>3, <2>1
<1>5. The(known) = f
  <2> HIDE DEF known
  <2> QED BY <1>4, TheOnly
<1>6. c.mode = "aid" /\ c.ids = s.ids
  BY SelectFields
<1>7. UiccSelect(l, c, ok) = [l EXCEPT !.adf = f, !.sel = f]
  BY <1>1, <1>5, <1>6 DEF UiccSelect
<1> QED BY <1>7 DEF LChanSet

\* The application: what does not lead astray leaves the tracer with the card's.
LEMMA AppFollows ==
  ASSUME NEW p \in ChipSet, NEW l \in LChanSet, NEW n, NEW s \in Selects, NEW f \in {Target(p, s.mode, s.ids), NoFile},
         NEW c, c = SelectCmd(n, s), NEW ok \in BOOLEAN, ok <=> f # NoFile,
         l.adf = p.app \/ (s.mode = "aid" /\ f \in KnownTree),
         ~(f = NoFile /\ ByApp(c)), ~(f # NoFile /\ s.mode = "aid" /\ f \notin KnownTree)
  PROVE  UiccSelect(l, c, ok).adf = (IF f = NoFile THEN p ELSE Standing(p, s.mode, f)).app
<1>1. c.mode = s.mode /\ c.ids = s.ids 
  BY SelectFields
<1>2. s.mode # "aid" => s.ids \in Seq(FidsUsed) /\ s.ids[1] \in FidsUsed /\ s.ids # <<>> /\ \A i \in 2..Len(s.ids) : s.ids[i] # "7fff"
  BY SelectShape
<1>3. s.mode # "aid" => (IF f = NoFile THEN p ELSE Standing(p, s.mode, f)).app = p.app
  BY DEF Standing, ChipSet
<1>4. CASE s.mode = "fid"
  <2>1. UiccSelect(l, c, ok) = IF s.ids[1] = "7fff" THEN l ELSE PathElement(l, s.ids[1], ok)
    BY <1>1, <1>4 DEF UiccSelect
  <2>2. s.ids[1] # "7fff" => PathElement(l, s.ids[1], ok).adf = l.adf
    BY <1>1, <1>2, <1>4, ElementKeeps
  <2>3. l.adf = p.app
    BY <1>4
  <2> QED BY <1>3, <1>4, <2>1, <2>2, <2>3
<1>5. ASSUME s.mode \in {"from_mf", "from_df"}, s.ids[1] = "7fff" PROVE l.adf # NoFile
  <2>1. f # NoFile
    BY <1>1, <1>5 DEF ByApp
  <2>2. PICK x \in OnCard : f = Along(x, s.ids, p.app)
    <3>1. CASE s.mode = "from_mf"
      BY <2>1, <3>1, KnownFiles DEF Target
    <3>2. CASE s.mode = "from_df"
      <4>1. f = Along(Cwd(p.cur), s.ids, p.app)
        BY <2>1, <3>2 DEF Target
      <4>2. p.cur \in OnCard
        BY DEF ChipSet
      <4> QED BY <4>1, <4>2, KnownFiles, CwdIsDirectory
    <3> QED BY <1>5, <3>1, <3>2
  <2>3. p.app \in OrNone(OnCard) /\ x \in OrNone(OnCard) /\ x # NoFile
    BY KnownFiles, MFIsRoot DEF ChipSet, Apps, OrNone
  <2>4. PICK w : IsWay(w, x, s.ids, p.app) /\ f = w[Len(s.ids)]
    BY <1>2, <1>5, <2>2, <2>3, AlongIsAWay
  <2>5. p.app # NoFile
    BY <1>2, <1>5, <2>1, <2>3, <2>4, WayThroughApp
  <2> QED BY <1>5, <2>5
<1>6. CASE s.mode = "from_mf"
  <2>1. PICK k \in LChanSet : k = [l EXCEPT !.sel = MF] /\ k.sel = MF /\ k.adf = l.adf
    BY AtRoot
  <2>2. UiccSelect(l, c, ok) = Path(k, s.ids, ok)
    BY <1>1, <1>6, <2>1 DEF UiccSelect
  <2>3. Path(k, s.ids, ok).adf = k.adf
    BY <1>1, <1>2, <1>5, <1>6, <2>1, PathApp
  <2> QED BY <1>3, <1>6, <2>1, <2>2, <2>3
<1>7. CASE s.mode = "from_df"
  <2>1. UiccSelect(l, c, ok) = Path(l, s.ids, ok)
    BY <1>1, <1>7 DEF UiccSelect
  <2>2. Path(l, s.ids, ok).adf = l.adf
    BY <1>1, <1>2, <1>5, <1>7, PathApp
  <2> QED BY <1>3, <1>7, <2>1, <2>2
<1>8. CASE s.mode = "aid"
  <2>1. f # NoFile /\ f \in KnownTree
    BY <1>1, <1>8 DEF ByApp
  <2>2. UiccSelect(l, c, ok).adf = f
    <3>1. f = Target(p, s.mode, s.ids)
      BY <2>1
    <3> QED BY <1>8, <2>1, <3>1, AidFollows
  <2>3. Standing(p, s.mode, f).app = f
    BY <1>8 DEF Standing, ChipSet
  <2> QED BY <2>1, <2>2, <2>3
<1> QED BY <1>4, <1>6, <1>7, <1>8, SelectShape

LEMMA WayIsNotRoot ==
  ASSUME NEW x \in OnCard, NEW ids \in Seq(FidsUsed), ids # <<>>, NEW app \in OrNone(OnCard),
         ids[1] # "7fff", \A i \in 2..Len(ids) : ids[i] # "7fff"
  PROVE  Along(x, ids, app) # MF
<1>1. PICK w : IsWay(w, x, ids, app) /\ Along(x, ids, app) = w[Len(ids)]
  BY AlongIsAWay DEF OrNone
<1>2. PICK i \in 1..Len(ids) : i = Len(ids) /\ i - 1 \in 0..Len(ids) /\ ids[i] # "7fff" /\ ids[i] \in FidsUsed
  OBVIOUS
<1>3. w[i] = Step(w[i - 1], ids[i], app) /\ w[i - 1] \in OrNone(OnCard)
  BY <1>1, <1>2, Zenon DEF IsWay
<1>4. CASE w[i - 1] = NoFile
  BY <1>1, <1>2, <1>3, <1>4, KnownFiles, MFIsRoot DEF Step
<1>5. CASE w[i - 1] # NoFile
  <2>1. w[i] = The({g \in OnCard \ ADFs : g # MF /\ Parent(g) = w[i - 1] /\ Fid[g] = ids[i]})
    BY <1>2, <1>3, <1>5 DEF Step, Below, Children, OrNone
  <2> QED BY <1>1, <1>2, <2>1, KnownFiles, MFIsRoot DEF The
<1> QED BY <1>4, <1>5

\* A granted SELECT brings the tracer to the file f.
BringsTo(l, c, f) == \A ok \in BOOLEAN : ok => UiccSelect(l, c, ok).sel = f

\* The file: what does not lose the channel leaves the tracer at the card's.
LEMMA FileFollows ==
  ASSUME NEW p \in ChipSet, NEW l \in LChanSet, NEW n, NEW s \in Selects, NEW f, f = Target(p, s.mode, s.ids), f \in KnownTree,
         NEW c, c = SelectCmd(n, s),
         Seen(p, c, f), s.ids[1] = "7fff" => l.adf = p.app, FromTop(c, f) \/ l.sel = p.cur
  PROVE  BringsTo(l, c, f)
<1> SUFFICES ASSUME NEW ok \in BOOLEAN, ok PROVE UiccSelect(l, c, ok).sel = f
  BY DEF BringsTo
<1>1. c.mode = s.mode /\ c.ids = s.ids /\ f # NoFile
  BY SelectFields, KnownFiles, MFIsRoot
<1>2. s.mode # "aid" => s.ids \in Seq(FidsUsed) /\ s.ids[1] \in FidsUsed /\ s.ids # <<>> /\ \A i \in 2..Len(s.ids) : s.ids[i] # "7fff"
  BY SelectShape
<1>3. p.cur \in OnCard /\ p.app \in OrNone(OnCard) /\ l.sel \in KnownTree
  BY DEF ChipSet, Apps, OrNone, LChanSet
<1>4. CASE s.mode = "fid"
  <2>1. PICK id \in FidsUsed : id = s.ids[1] /\ f = Found[p.cur][id]
    BY <1>2, <1>4 DEF Target
  <2>2. id # "7fff" /\ Fid[f] = id
    BY <1>1, <1>3, <2>1, FoundIs
  <2>3. UiccSelect(l, c, ok) = PathElement(l, id, ok)
    BY <1>1, <1>4, <2>1, <2>2 DEF UiccSelect
  <2>4. f = MF \/ l.sel = p.cur
    BY <1>1, <1>4, <2>1, <2>2 DEF FromTop, ByApp
  <2>5. ByFid[l.sel][id] = f
    <3>1. CASE f = MF
      BY <1>3, <2>1, <2>2, <3>1, ByFidRoot
    <3>2. CASE l.sel = p.cur
      <4>1. f \in {MF, p.cur} \cup Dirs(p.cur) \/ Parent(f) = Cwd(p.cur)
        BY <1>1, <1>4 DEF Seen
      <4> QED BY <1>3, <2>1, <3>2, <4>1, ByFidFollows
    <3> QED BY <2>4, <3>1, <3>2
  <2> QED BY <1>1, <2>2, <2>3, <2>5, ElementKeeps
<1>5. CASE s.mode = "from_mf"
  <2>1. PICK k \in LChanSet : k = [l EXCEPT !.sel = MF] /\ k.sel = MF /\ k.adf = l.adf
    BY AtRoot
  <2>2. UiccSelect(l, c, ok) = Path(k, s.ids, ok)
    BY <1>1, <1>5, <2>1 DEF UiccSelect
  <2>3. f = Along(MF, s.ids, p.app)
    BY <1>5 DEF Target
  <2>4. Path(k, s.ids, ok).sel = Along(MF, s.ids, p.app)
    <3>1. Along(MF, s.ids, p.app) \in KnownTree
      BY <2>3
    <3>2. k.sel = MF /\ MF \in OnCard /\ (s.ids[1] = "7fff" => k.adf = p.app)
      BY <2>1, KnownFiles
    <3> QED BY <1>2, <1>3, <1>5, <3>1, <3>2, PathReaches
  <2> QED BY <2>2, <2>3, <2>4
<1>6. CASE s.mode = "from_df"
  <2>1. UiccSelect(l, c, ok) = Path(l, s.ids, ok)
    BY <1>1, <1>6 DEF UiccSelect
  <2>2. f = Along(Cwd(p.cur), s.ids, p.app)
    BY <1>6 DEF Target
  <2>4. s.ids[1] # "7fff" => f # MF
    BY <1>1, <1>2, <1>3, <1>6, <2>2, WayIsNotRoot, KnownFiles, CwdIsDirectory
  <2>5. s.ids[1] # "7fff" => Cwd(l.sel) = Cwd(p.cur)
    BY <1>1, <1>6, <2>4 DEF FromTop, ByApp
  <2>6. Path(l, s.ids, ok).sel = Along(Cwd(p.cur), s.ids, p.app)
    <3>1. PICK x \in OnCard : x = Cwd(p.cur)
      BY <1>3, KnownFiles, CwdIsDirectory
    <3>2. Along(x, s.ids, p.app) \in KnownTree
      BY <2>2, <3>1
    <3>3. s.ids[1] # "7fff" => l.sel = x \/ Cwd(l.sel) = x
      BY <2>5, <3>1
    <3> QED BY <1>2, <1>3, <1>6, <3>1, <3>2, <3>3, PathReaches
  <2> QED BY <2>1, <2>2, <2>6
<1>7. CASE s.mode = "aid"
  <2>1. ASSUME NEW k \in BOOLEAN PROVE UiccSelect(l, c, k).sel = f
    BY ONLY <1>7, f = Target(p, s.mode, s.ids), f \in KnownTree, c = SelectCmd(n, s), p \in ChipSet, l \in LChanSet, s \in Selects, k \in BOOLEAN, AidFollows
  <2> QED BY <2>1
<1> QED BY <1>4, <1>5, <1>6, <1>7, SelectShape

\* A refused SELECT that the tracer does not follow.
LEMMA RefusedStays ==
  ASSUME NEW l \in LChanSet, NEW n, NEW s \in Selects, NEW c, c = SelectCmd(n, s), NEW ok \in BOOLEAN, ~ok,
         ~FromTop(c, NoFile)
  PROVE  UiccSelect(l, c, ok) = l
<1>1. c.mode = s.mode /\ c.ids = s.ids 
  BY SelectFields
<1>2. s.mode \in {"fid", "from_df"} /\ s.ids[1] # "7fff"
  BY <1>1, SelectShape DEF FromTop, ByApp
<1>3. s.ids \in Seq(FidsUsed) /\ s.ids[1] \in FidsUsed /\ s.ids # <<>> /\ \A i \in 2..Len(s.ids) : s.ids[i] # "7fff"
  BY <1>2, SelectShape
<1>4. CASE s.mode = "fid"
  BY <1>1, <1>2, <1>3, <1>4, ElementKeeps DEF UiccSelect
<1>5. CASE s.mode = "from_df"
  <2>1. UiccSelect(l, c, ok) = Path(l, s.ids, ok)
    BY <1>1, <1>5 DEF UiccSelect
  <2> QED BY <1>1, <1>2, <1>3, <2>1, PathApp
<1> QED BY <1>2, <1>4, <1>5

-----------------------------------------------------------------------------
(* The inductive invariant.  While an answer is due the tracer is behind   *)
(* the card: what it will be once the answer was fetched follows the card  *)
(* (Ahead). A channel on which something happened that cannot be followed  *)
(* says nothing of its file until the next SELECT from the top, and        *)
(* nothing of its application until the next by AID.  The tracer has the   *)
(* channels the card has, unless something happened that may end it.       *)

SelectCmds == {SelectCmd(n, s) : n \in Channels, s \in Selects}
ReadCmds   == {ReadCmd(n, sfi) : n \in Channels, sfi \in Sfis}

TypeOK ==
  /\ chip \in [Channels -> ChipSet] /\ chip[0].open
  /\ lchans \in [Channels -> LChanSet]
  /\ lost \subseteq Channels /\ astray \subseteq Channels
  /\ dead \in BOOLEAN /\ orphan \in BOOLEAN /\ provoked \in BOOLEAN

\* The filter holds the command whose answer is due, or one whose answer went
\* with a reset; then nothing is certain until the next exchange.
HeldBack ==
  /\ due = NoDue \/ (due.kind = "61" /\ due.cmd \in SelectCmds) \/ (due.kind = "6C" /\ due.cmd \in ReadCmds)
  /\ last_cmd \in {None} \cup SelectCmds \cup ReadCmds
  /\ due # NoDue => /\ last_cmd = due.cmd /\ ~orphan
                    /\ \A n \in Channels : due.cmd.cla = ClaOf(n) => chip[n].open
  /\ due = NoDue => (orphan <=> last_cmd # None)
  /\ orphan => lost = Channels /\ astray = Channels

\* The tracer's channel as it will be when the answer that is due was fetched.
Pending(n) == due.kind = "61" /\ due.cmd.cla = ClaOf(n)
Ahead(n)   == IF Pending(n) THEN UiccSelect(lchans[n], due.cmd, TRUE) ELSE lchans[n]

SameChannels == ~dead /\ ~provoked => \A n \in Channels : lchans[n].open = chip[n].open
FollowsFile  == ~dead => \A n \in Open \ lost : lchans[n].open => Ahead(n).sel = chip[n].cur
FollowsApp   == ~dead => \A n \in Open \ astray : lchans[n].open => Ahead(n).adf = chip[n].app
ReadsRight   == shown.right /\ shown.read # NoFile /\ shown.sure => shown.file \in {shown.read, NoFile}

TraceInv == TypeOK /\ HeldBack /\ SameChannels /\ FollowsFile /\ FollowsApp /\ GoesOn /\ PairedRight /\ ReadsRight

LEMMA NoneIs == None.ins = "none" /\ NoDue.kind = "none" /\ NoDue.cmd = None
BY DEF None, NoDue

LEMMA InvImplies == TraceInv => TraceIsRight
<1> SUFFICES ASSUME TraceInv PROVE TraceIsRight
  OBVIOUS
<1>1. ASSUME ~dead, NEW n \in Open \ lost PROVE lchans[n].open \/ provoked
  <2>1. n \in Channels /\ chip[n].open
    BY <1>1 DEF Open
  <2>2. ~provoked => lchans[n].open = chip[n].open
    BY <1>1, <2>1 DEF TraceInv, SameChannels
  <2> QED BY <2>1, <2>2
<1>2. ASSUME ~dead, NEW n \in Open \ lost, lchans[n].open, due = NoDue \/ due.cmd.cla # ClaOf(n)
      PROVE  lchans[n].sel = chip[n].cur
  <2>1. Ahead(n) = lchans[n]
    BY <1>2, NoneIs DEF Ahead, Pending
  <2> QED BY <1>2, <2>1 DEF TraceInv, FollowsFile
<1>3. FollowsTheCard
  BY <1>1, <1>2 DEF FollowsTheCard, TraceInv, ReadsRight
<1> QED BY <1>3 DEF TraceIsRight, TraceInv

LEMMA ClaFacts ==
  ASSUME NEW n \in Channels
  PROVE  LchanNrFromCla(ClaOf(n)) = n /\ \A k \in Channels : ClaOf(k) = ClaOf(n) => k = n
<1>1. n \in 0..19
  BY TraceAssumption
<1>2. \A k \in Channels : ClaOf(k) = ClaOf(n) => k = n
  <2>1. \A k \in 0..19 : ClaOf(k) = ClaOf(n) => k = n
    BY <1>1 DEF ClaOf
  <2>2. \A k \in Channels : k \in 0..19
    BY TraceAssumption
  <2> QED BY <2>1, <2>2
<1>3. CASE n < 4
  <2>1. n \div 16 = 0 /\ n % 4 = n /\ ClaOf(n) = n
    BY <1>1, <1>3 DEF ClaOf
  <2>2. LchanNrFromCla(n) = n
    BY <2>1 DEF LchanNrFromCla
  <2> QED BY <1>2, <2>1, <2>2
<1>4. CASE ~(n < 4)
  <2>1. PICK m \in 0..15 : m = n - 4
    BY <1>1, <1>4
  <2>2. (64 + m) \div 16 = 4 /\ (64 + m) % 16 = m
    BY <2>1
  <2>3. ClaOf(n) = 64 + m
    BY <1>4, <2>1 DEF ClaOf
  <2>4. LchanNrFromCla(ClaOf(n)) = 4 + m
    BY <2>2, <2>3 DEF LchanNrFromCla
  <2>5. 4 + m = n
    BY <1>1, <2>1
  <2> QED BY <1>2, <2>4, <2>5
<1> QED BY <1>3, <1>4

LEMMA ReadFields ==
  ASSUME NEW n, NEW sfi
  PROVE  ReadCmd(n, sfi).ins = "READ" /\ ReadCmd(n, sfi).ids[1] = sfi /\ ReadCmd(n, sfi).cla = ClaOf(n)
BY DEF ReadCmd, Cmd

LEMMA CommandsAreSome ==
  ASSUME NEW d \in SelectCmds \cup ReadCmds
  PROVE  d # None /\ d.ins \in {"SELECT", "READ"} /\ \E n \in Channels : d.cla = ClaOf(n)
<1>1. CASE d \in SelectCmds
  <2>1. PICK n \in Channels, s \in Selects : d = SelectCmd(n, s)
    BY <1>1 DEF SelectCmds
  <2> QED BY <2>1, SelectFields, NoneIs
<1>2. CASE d \in ReadCmds
  <2>1. PICK n \in Channels, sfi \in Sfis : d = ReadCmd(n, sfi)
    BY <1>2 DEF ReadCmds
  <2> QED BY <2>1, ReadFields, NoneIs
<1> QED BY <1>1, <1>2

LEMMA ProcessRead ==
  ASSUME NEW n \in Channels, NEW sfi, NEW c, c = ReadCmd(n, sfi), NEW ok \in BOOLEAN, NEW nr
  PROVE  /\ Process(c, ok, nr).lchans = lchans
         /\ Process(c, ok, nr).dead = ~lchans[n].open
         /\ lchans[n].open => Process(c, ok, nr).file = DetermineFile(lchans[n], sfi)
         /\ ~lchans[n].open => Process(c, ok, nr).file = NoFile
<1>1. c.ins = "READ" /\ c.ids[1] = sfi /\ LchanNrFromCla(c.cla) = n
  BY ReadFields, ClaFacts
<1> QED BY <1>1 DEF Process, Fails

\* A READ is shown with the file it read.
LEMMA ReadFollows ==
  ASSUME NEW n, NEW l \in LChanSet, l.sel = chip[n].cur, NEW sfi, ReadFrom(n, sfi) # NoFile, ~(sfi = "" /\ BySfi(n))
  PROVE  DetermineFile(l, sfi) \in {ReadFrom(n, sfi), NoFile}
<1>1. CASE sfi = ""
  <2>1. ef[n] = EfOf(chip[n].cur) /\ ef[n] # NoFile
    BY <1>1 DEF BySfi, ReadFrom
  <2>2. ef[n] = l.sel
    BY <2>1 DEF EfOf
  <2> QED BY <1>1, <2>2 DEF ReadFrom, DetermineFile
<1>2. CASE sfi # ""
  <2> DEFINE on == {f \in EFs \cap OnCard : Parent(f) = Cwd(chip[n].cur) /\ SfiOf[f] = sfi}
             known == {f \in EFs \cap KnownTree : Parent(f) = Cwd(l.sel) /\ SfiOf[f] = sfi}
  <2>1. ReadFrom(n, sfi) = The(on) /\ DetermineFile(l, sfi) = The(known)
    BY <1>2 DEF ReadFrom, DetermineFile
  <2>2. The(on) \in on
    <3> HIDE DEF on
    <3> QED BY <2>1 DEF The
  <2>3. \A f \in known : f = The(on)
    BY <1>2, <2>2, TraceAssumption
  <2>4. The(known) \in known \cup {NoFile}
    <3> HIDE DEF known
    <3> QED BY DEF The
  <2> HIDE DEF known, on
  <2> QED BY <2>1, <2>3, <2>4
<1> QED BY <1>1, <1>2

\* What it takes to follow a READ.
LEMMA SureRead ==
  ASSUME NEW n \in Channels, NEW sfi, Sure(ReadCmd(n, sfi))
  PROVE  n \notin lost /\ ~(sfi = "" /\ BySfi(n))
<1>1. LchanNrFromCla(ReadCmd(n, sfi).cla) = n /\ ReadCmd(n, sfi).ids = <<sfi>>
  BY ReadFields, ClaFacts DEF ReadCmd, Cmd
<1> QED BY <1>1 DEF Sure

LEMMA ReadIs ==
  ASSUME TraceInv, ~dead, NEW n \in Open, NEW sfi, NEW c, c = ReadCmd(n, sfi), NEW ok \in BOOLEAN, NEW nr,
         ~Pending(n), Sure(c), ReadFrom(n, sfi) # NoFile
  PROVE  Process(c, ok, nr).file \in {ReadFrom(n, sfi), NoFile}
<1>1. n \in Channels /\ chip[n] \in ChipSet /\ lchans[n] \in LChanSet
  BY DEF Open, TraceInv, TypeOK
<1>0. n \notin lost /\ ~(sfi = "" /\ BySfi(n))
  BY <1>1, SureRead
<1>2. CASE lchans[n].open
  <2>1. lchans[n].sel = chip[n].cur
    BY <1>0, <1>2 DEF TraceInv, FollowsFile, Ahead
  <2>2. Process(c, ok, nr).file = DetermineFile(lchans[n], sfi)
    BY <1>1, <1>2, ProcessRead
  <2> QED BY <1>0, <1>1, <2>1, <2>2, ReadFollows
<1>3. CASE ~lchans[n].open
  BY <1>1, <1>3, ProcessRead
<1> QED BY <1>2, <1>3

-----------------------------------------------------------------------------
(* TpduFilter: what it hands on, and what is answered to the wrong command *)
(* once an answer was not asked for.                                       *)

LEMMA CaptureHeld ==
  ASSUME NEW c, NEW sw \in {"61", "6C"}, NEW own, NEW nr, NEW read, c.ins # "GET RESPONSE", Capture(c, sw, own, nr, read)
  PROVE  last_cmd' = c /\ orphan' = FALSE /\ lchans' = lchans /\ dead' = dead /\ shown' = shown
BY DEF Capture, Filter

\* The command d was answered to the tracer, with the status ok.
Handed(d, ok, own, nr, read) ==
  /\ last_cmd' = None /\ orphan' = FALSE
  /\ lchans' = Process(d, ok, nr).lchans /\ dead' = Process(d, ok, nr).dead
  /\ shown'.right = (d = own) /\ shown'.file = Process(d, ok, nr).file /\ shown'.read = read
  /\ shown'.skipped = (orphan \/ (due # NoDue /\ own # due.cmd))
  /\ shown'.sure = Sure(own)

LEMMA CapturePassed ==
  ASSUME NEW c, NEW sw, sw \notin {"61", "6C"}, NEW own, NEW nr, NEW read, Capture(c, sw, own, nr, read)
  PROVE  \E ok \in BOOLEAN : (ok <=> sw = "ok") /\ Handed(IF last_cmd = None THEN c ELSE last_cmd, ok, own, nr, read)
<1> DEFINE d == IF last_cmd = None THEN c ELSE last_cmd
<1>1. Filter(c, sw) = [pass |-> TRUE, cmd |-> d, last |-> None]
  BY DEF Filter
<1>2. ASSUME NEW ok \in BOOLEAN, ok <=> sw = "ok" PROVE Handed(d, ok, own, nr, read)
  <2>1. PICK p : p = Process(d, sw = "ok", nr)
    OBVIOUS
  <2>2. p = Process(d, ok, nr)
    <3>1. CASE sw = "ok"
      <4>1. (sw = "ok") = TRUE /\ ok = TRUE
        BY <3>1, <1>2
      <4> QED BY <4>1, <2>1
    <3>2. CASE sw # "ok"
      <4>1. (sw = "ok") = FALSE /\ ok = FALSE
        BY <3>2, <1>2
      <4> QED BY <4>1, <2>1
    <3> QED BY <3>1, <3>2
  <2>3. /\ last_cmd' = None /\ orphan' = FALSE /\ lchans' = p.lchans /\ dead' = p.dead
        /\ shown' = [right |-> d = own, file |-> p.file, read |-> read, skipped |-> orphan \/ (due # NoDue /\ own # due.cmd),
                     sure |-> Sure(own)]
    BY <1>1, <2>1 DEF Capture
  <2> QED BY <2>2, <2>3 DEF Handed
<1>3. PICK ok \in BOOLEAN : ok <=> sw = "ok"
  OBVIOUS
<1> QED BY <1>2, <1>3

\* Nothing is held back.
LEMMA NotSkipping ==
  ASSUME TraceInv, ~Skipping
  PROVE  due = NoDue /\ ~orphan /\ last_cmd = None /\ \A n : ~Pending(n) /\ Ahead(n) = lchans[n]
BY NoneIs DEF TraceInv, HeldBack, Skipping, Pending, Ahead

LEMMA CommandIs ==
  ASSUME NEW d \in SelectCmds \cup ReadCmds
  PROVE  \E m \in Channels : d.cla = ClaOf(m) /\ ((\E s \in Selects : d = SelectCmd(m, s)) \/ (\E sfi \in Sfis : d = ReadCmd(m, sfi)))
<1>1. CASE d \in SelectCmds
  <2>1. PICK m \in Channels, s \in Selects : d = SelectCmd(m, s)
    BY <1>1 DEF SelectCmds
  <2>2. d.cla = ClaOf(m)
    BY <2>1, SelectFields
  <2> QED BY <2>1, <2>2
<1>2. CASE d \in ReadCmds
  <2>1. PICK m \in Channels, sfi \in Sfis : d = ReadCmd(m, sfi)
    BY <1>2 DEF ReadCmds
  <2>2. d.cla = ClaOf(m)
    BY <2>1, ReadFields
  <2> QED BY <2>1, <2>2
<1> QED BY <1>1, <1>2

\* What the tracer makes of a command that was held back touches its channel only.
LEMMA HandedTouches ==
  ASSUME TraceInv, NEW m \in Channels, NEW d, (\E s \in Selects : d = SelectCmd(m, s)) \/ (\E sfi \in Sfis : d = ReadCmd(m, sfi)),
         NEW ok \in BOOLEAN, NEW own, NEW nr, NEW read, Handed(d, ok, own, nr, read)
  PROVE  /\ lchans' \in [Channels -> LChanSet] /\ dead' = ~lchans[m].open
         /\ \A k \in Channels : (k # m => lchans'[k] = lchans[k]) /\ lchans'[k].open = lchans[k].open
<1>1. lchans \in [Channels -> LChanSet] /\ lchans[m] \in LChanSet /\ lchans[m].open \in BOOLEAN
  BY DEF TraceInv, TypeOK, LChanSet
<1>2. PICK p : p = Process(d, ok, nr) /\ lchans' = p.lchans /\ dead' = p.dead
  BY DEF Handed
<1>3. ASSUME NEW s \in Selects, d = SelectCmd(m, s), lchans[m].open
      PROVE  /\ lchans' \in [Channels -> LChanSet] /\ dead' = ~lchans[m].open
             /\ \A k \in Channels : (k # m => lchans'[k] = lchans[k]) /\ lchans'[k].open = lchans[k].open
  <2>1. PICK l \in LChanSet : l = UiccSelect(lchans[m], d, ok) /\ l.open = lchans[m].open
    BY <1>1, <1>3, UiccSelectType
  <2>2. p.lchans = [lchans EXCEPT ![m] = l] /\ p.dead = FALSE
    <3>1. d.ins = "SELECT" /\ LchanNrFromCla(d.cla) = m
      BY <1>3, SelectFields, ClaFacts
    <3> QED BY <1>2, <1>3, <2>1, <3>1 DEF Process
  <2> QED BY <1>1, <1>2, <1>3, <2>1, <2>2
<1>4. ASSUME NEW s \in Selects, d = SelectCmd(m, s), ~lchans[m].open
      PROVE  /\ lchans' \in [Channels -> LChanSet] /\ dead' = ~lchans[m].open
             /\ \A k \in Channels : (k # m => lchans'[k] = lchans[k]) /\ lchans'[k].open = lchans[k].open
  <2>1. p.lchans = lchans /\ p.dead = TRUE
    <3>1. d.ins = "SELECT" /\ LchanNrFromCla(d.cla) = m
      BY <1>4, SelectFields, ClaFacts
    <3> QED BY <1>2, <1>4, <3>1 DEF Process, Fails
  <2> QED BY <1>1, <1>2, <1>4, <2>1
<1>5. ASSUME NEW sfi \in Sfis, d = ReadCmd(m, sfi)
      PROVE  /\ lchans' \in [Channels -> LChanSet] /\ dead' = ~lchans[m].open
             /\ \A k \in Channels : (k # m => lchans'[k] = lchans[k]) /\ lchans'[k].open = lchans[k].open
  <2>1. p.lchans = lchans /\ p.dead = ~lchans[m].open
    BY <1>2, <1>5, ProcessRead
  <2> QED BY <1>1, <1>2, <2>1
<1> QED BY <1>3, <1>4, <1>5

\* The command that hides the next one, and its channel.
LEMMA Hidden ==
  ASSUME TraceInv, Skipping, NEW n \in Channels
  PROVE  /\ last_cmd # None
         /\ \E m \in Channels : /\ m \in lost \cup Unfollowed(n) /\ m \in astray \cup Unfollowed(n)
                                /\ (\E s \in Selects : last_cmd = SelectCmd(m, s)) \/ (\E sfi \in Sfis : last_cmd = ReadCmd(m, sfi))
<1>1. last_cmd \in SelectCmds \cup ReadCmds
  <2>1. CASE due # NoDue
    BY <2>1 DEF TraceInv, HeldBack
  <2>2. CASE due = NoDue
    BY <2>2 DEF TraceInv, HeldBack, Skipping
  <2> QED BY <2>1, <2>2
<1>2. PICK m \in Channels : last_cmd.cla = ClaOf(m) /\ ((\E s \in Selects : last_cmd = SelectCmd(m, s)) \/ (\E sfi \in Sfis : last_cmd = ReadCmd(m, sfi)))
  BY <1>1, CommandIs
<1>3. m \in lost \cup Unfollowed(n) /\ m \in astray \cup Unfollowed(n)
  <2>1. CASE due # NoDue
    <3>1. last_cmd = due.cmd
      BY <2>1 DEF TraceInv, HeldBack
    <3> QED BY <1>2, <2>1, <3>1 DEF Unfollowed
  <2>2. CASE due = NoDue
    BY <1>2, <2>2 DEF TraceInv, HeldBack, Skipping
  <2> QED BY <2>1, <2>2
<1>4. last_cmd # None
  BY <1>1, CommandsAreSome
<1> QED BY <1>2, <1>3, <1>4

\* A channel that is not the one of an answer that is due.
LEMMA NotAwaited ==
  ASSUME TraceInv, Skipping, NEW n \in Channels, NEW k \in Channels, k \notin Unfollowed(n)
  PROVE  ~Pending(k) /\ Ahead(k) = lchans[k] /\ k # n
BY NoneIs DEF Unfollowed, Pending, Ahead

\* What may be where nothing was followed.
Blind(n) ==
  /\ lost \cup Unfollowed(n) \subseteq lost' /\ astray \cup Unfollowed(n) \subseteq astray'
  /\ lost' \subseteq Channels /\ astray' \subseteq Channels /\ provoked' = TRUE
  /\ chip' \in [Channels -> ChipSet] /\ chip'[0].open
  /\ \A k \in Channels : chip'[k].open /\ k \notin lost' => chip'[k] = chip[k]
  /\ \A k \in Channels : chip'[k].open /\ k \notin astray' => chip'[k] = chip[k]

LEMMA BlindFollows ==
  ASSUME TraceInv, Skipping, ~dead, NEW n \in Channels, Blind(n),
         NEW m \in Channels, m \in lost \cup Unfollowed(n), m \in astray \cup Unfollowed(n),
         lchans' \in [Channels -> LChanSet], \A k \in Channels : k # m => lchans'[k] = lchans[k],
         \A k \in Channels : k # n => Ahead(k)' = lchans'[k]
  PROVE  FollowsFile' /\ FollowsApp' /\ SameChannels' /\ GoesOn'
<1>1. SameChannels' /\ GoesOn'
  BY DEF SameChannels, GoesOn, Blind
<1>2. ASSUME NEW k \in Channels, chip'[k].open, k \notin lost', lchans'[k].open
      PROVE  Ahead(k)'.sel = chip'[k].cur
  <2>1. k \notin lost /\ k \notin Unfollowed(n) /\ chip'[k] = chip[k] /\ k # m
    BY <1>2 DEF Blind
  <2>2. Ahead(k) = lchans[k] /\ k # n
    BY <2>1, NotAwaited
  <2>3. Ahead(k).sel = chip[k].cur
    BY <1>2, <2>1 DEF TraceInv, FollowsFile, Open
  <2> QED BY <2>1, <2>2, <2>3
<1>3. ASSUME NEW k \in Channels, chip'[k].open, k \notin astray', lchans'[k].open
      PROVE  Ahead(k)'.adf = chip'[k].app
  <2>1. k \notin astray /\ k \notin Unfollowed(n) /\ chip'[k] = chip[k] /\ k # m
    BY <1>3 DEF Blind
  <2>2. Ahead(k) = lchans[k] /\ k # n
    BY <2>1, NotAwaited
  <2>3. Ahead(k).adf = chip[k].app
    BY <1>3, <2>1 DEF TraceInv, FollowsApp, Open
  <2> QED BY <2>1, <2>2, <2>3
<1>4. FollowsFile'
  BY <1>2 DEF FollowsFile, Open
<1>5. FollowsApp'
  BY <1>3 DEF FollowsApp, Open
<1> QED BY <1>1, <1>4, <1>5

\* An exchange whose answer goes to the command before it.
LEMMA SkippedPassed ==
  ASSUME TraceInv, Skipping, ~dead, NEW n \in Open, Blind(n), due' = NoDue,
         NEW c, NEW sw, sw \notin {"61", "6C"}, NEW own, own.cla = ClaOf(n), NEW nr, NEW read, Capture(c, sw, own, nr, read),
         read = NoFile \/ \E sfi \in Sfis : own = ReadCmd(n, sfi) /\ read = ReadFrom(n, sfi)
  PROVE  TraceInv'
<1>0. n \in Channels
  BY DEF Open
<1>1. PICK m \in Channels : /\ m \in lost \cup Unfollowed(n) /\ m \in astray \cup Unfollowed(n)
                            /\ (\E s \in Selects : last_cmd = SelectCmd(m, s)) \/ (\E sfi \in Sfis : last_cmd = ReadCmd(m, sfi))
  BY <1>0, Hidden
<1>2. PICK ok \in BOOLEAN : Handed(last_cmd, ok, own, nr, read)
  <2>1. last_cmd # None
    BY <1>0, Hidden
  <2> QED BY <2>1, CapturePassed
<1>3. /\ lchans' \in [Channels -> LChanSet] /\ dead' = ~lchans[m].open
      /\ \A k \in Channels : (k # m => lchans'[k] = lchans[k]) /\ lchans'[k].open = lchans[k].open
  <2> DEFINE d == last_cmd
  <2>1. ((\E s \in Selects : d = SelectCmd(m, s)) \/ (\E sfi \in Sfis : d = ReadCmd(m, sfi))) /\ Handed(d, ok, own, nr, read)
    BY <1>1, <1>2
  <2> HIDE DEF d
  <2> QED BY <2>1, HandedTouches
<1>4. last_cmd' = None /\ orphan' = FALSE
  BY <1>2 DEF Handed
<1>5. \A k \in Channels : Ahead(k)' = lchans'[k]
  BY NoneIs DEF Ahead, Pending
<1>6. TypeOK'
  <2>1. dead' \in BOOLEAN
    BY <1>3 DEF TraceInv, TypeOK, LChanSet
  <2> QED BY <1>3, <1>4, <2>1 DEF TypeOK, Blind
<1>7. HeldBack'
  BY <1>4 DEF HeldBack
<1>8. FollowsFile' /\ FollowsApp' /\ SameChannels' /\ GoesOn'
  BY <1>0, <1>1, <1>3, <1>5, BlindFollows
<1>9. PairedRight'
  <2>1. shown'.right = (last_cmd = own) /\ shown'.skipped = (orphan \/ (due # NoDue /\ own # due.cmd))
    BY <1>2 DEF Handed
  <2>2. due # NoDue => last_cmd = due.cmd
    BY DEF TraceInv, HeldBack
  <2> QED BY <2>1, <2>2 DEF PairedRight, Skipping
<1>10. ASSUME shown'.right, shown'.read # NoFile, shown'.sure PROVE shown'.file \in {shown'.read, NoFile}
  <2>1. /\ shown'.right = (last_cmd = own) /\ shown'.file = Process(last_cmd, ok, nr).file /\ shown'.read = read
        /\ shown'.sure = Sure(own)
    BY <1>2 DEF Handed
  <2>2. PICK sfi \in Sfis : own = ReadCmd(n, sfi) /\ read = ReadFrom(n, sfi)
    BY <1>10, <2>1
  <2>3. Sure(own) /\ last_cmd = own
    BY <1>10, <2>1
  <2>4. ~Pending(n)
    <3>1. ASSUME Pending(n) PROVE FALSE
      <4>1. due # NoDue /\ due.cmd \in SelectCmds
        BY <3>1, NoneIs DEF Pending, TraceInv, HeldBack
      <4>2. last_cmd = due.cmd
        BY <4>1 DEF TraceInv, HeldBack
      <4>3. due.cmd.ins = "SELECT"
        BY <4>1, SelectFields DEF SelectCmds
      <4>4. own.ins = "READ"
        BY <2>2, ReadFields
      <4> QED BY <2>3, <4>2, <4>3, <4>4
    <3> QED BY <3>1
  <2>5. Process(own, ok, nr).file \in {ReadFrom(n, sfi), NoFile}
    BY <1>10, <2>1, <2>2, <2>3, <2>4, ReadIs
  <2> QED BY <2>1, <2>2, <2>3, <2>5
<1>11. ReadsRight'
  BY <1>10 DEF ReadsRight
<1> QED BY <1>6, <1>7, <1>8, <1>9, <1>11 DEF TraceInv

\* An exchange whose answer the card holds back, after one that was not asked for.
LEMMA SkippedHeld ==
  ASSUME TraceInv, Skipping, ~dead, NEW n \in Open, Blind(n), chip'[n].open,
         NEW c, NEW sw, NEW own, NEW nr, NEW read, Capture(c, sw, own, nr, read), due' = [kind |-> sw, cmd |-> c],
         (sw = "61" /\ \E s \in Selects : c = SelectCmd(n, s)) \/ (sw = "6C" /\ \E sfi \in Sfis : c = ReadCmd(n, sfi))
  PROVE  TraceInv'
<1>0. n \in Channels
  BY DEF Open
<1>1. PICK m \in Channels : m \in lost \cup Unfollowed(n) /\ m \in astray \cup Unfollowed(n)
  BY <1>0, Hidden
<1>2. c.cla = ClaOf(n) /\ c.ins # "GET RESPONSE" /\ sw \in {"61", "6C"}
  <2>1. ASSUME NEW s \in Selects, c = SelectCmd(n, s) PROVE c.cla = ClaOf(n) /\ c.ins = "SELECT"
    BY <2>1, SelectFields
  <2>2. ASSUME NEW sfi \in Sfis, c = ReadCmd(n, sfi) PROVE c.cla = ClaOf(n) /\ c.ins = "READ"
    BY <2>2, ReadFields
  <2>3. sw \in {"61", "6C"}
    OBVIOUS
  <2> QED BY <2>1, <2>2, <2>3
<1>3. last_cmd' = c /\ orphan' = FALSE /\ lchans' = lchans /\ dead' = dead /\ shown' = shown
  BY <1>2, CaptureHeld
<1>4. \A k \in Channels : k # n => Ahead(k)' = lchans'[k]
  BY <1>0, <1>2, ClaFacts DEF Ahead, Pending
<1>5. TypeOK'
  BY <1>3 DEF TypeOK, Blind, TraceInv
<1>6. due' # NoDue /\ due'.cmd = c /\ due'.kind = sw
  <2>1. due'.cmd = c /\ due'.kind = sw
    OBVIOUS
  <2>2. sw # "none"
    BY <1>2
  <2>3. due' # NoDue
    BY <2>1, <2>2, NoneIs
  <2> QED BY <2>1, <2>3
<1>7. (sw = "61" /\ c \in SelectCmds) \/ (sw = "6C" /\ c \in ReadCmds)
  BY <1>0 DEF SelectCmds, ReadCmds
<1>8. HeldBack'
  <2>1. \A k \in Channels : due'.cmd.cla = ClaOf(k) => chip'[k].open
    BY <1>0, <1>2, <1>6, ClaFacts
  <2> QED BY <1>3, <1>6, <1>7, <2>1 DEF HeldBack
<1>9. FollowsFile' /\ FollowsApp' /\ SameChannels' /\ GoesOn'
  <2>1. lchans' \in [Channels -> LChanSet] /\ \A k \in Channels : k # m => lchans'[k] = lchans[k]
    BY <1>3 DEF TraceInv, TypeOK
  <2> QED BY <1>0, <1>1, <1>4, <2>1, BlindFollows
<1>10. PairedRight' /\ ReadsRight'
  BY <1>3 DEF TraceInv, PairedRight, ReadsRight
<1> QED BY <1>5, <1>8, <1>9, <1>10 DEF TraceInv

-----------------------------------------------------------------------------
(* Every exchange keeps the invariant.                                     *)

LEMMA StandingIs ==
  ASSUME NEW p \in ChipSet, NEW mode, NEW f \in OnCard, mode = "aid" => f \in Apps(OnCard)
  PROVE  /\ Standing(p, mode, f) \in ChipSet /\ Standing(p, mode, f).open = p.open /\ Standing(p, mode, f).cur = f
BY DEF Standing, ChipSet

\* What the tracer will make of the SELECT c.
Awaits(l, k, c) == l = UiccSelect(k, c, TRUE)

LEMMA SelectedHeld ==
  ASSUME TraceInv, ~Skipping, NEW n \in Channels, NEW s \in Selects, NEW c, c = SelectCmd(n, s), NEW l, Awaits(l, lchans[n], c),
         lchans' = lchans, due' = [kind |-> "61", cmd |-> c]
  PROVE  \A k \in Channels : Ahead(k)' = IF k = n THEN l ELSE lchans[k]
<1>1. due'.kind = "61" /\ due'.cmd = c /\ c.cla = ClaOf(n)
  BY SelectFields
<1>2. ASSUME NEW k \in Channels PROVE Ahead(k)' = IF k = n THEN l ELSE lchans[k]
  <2>1. Pending(k)' <=> k = n
    BY <1>1, ClaFacts DEF Pending
  <2>2. CASE k = n
    <3>1. Ahead(k)' = UiccSelect(lchans[n], c, TRUE)
      BY <1>1, <2>1, <2>2 DEF Ahead
    <3> QED BY <2>2, <3>1 DEF Awaits
  <2>3. CASE k # n
    BY <2>1, <2>3 DEF Ahead
  <2> QED BY <2>2, <2>3
<1> QED BY <1>2

LEMMA SelectFollows ==
  ASSUME TraceInv, ~Skipping, ~dead, NEW n \in Open, NEW s \in Selects, NEW c, c = SelectCmd(n, s),
         NEW f \in {Target(chip[n], s.mode, s.ids), NoFile}, NEW ok \in BOOLEAN, ok <=> f # NoFile,
         NEW l, l = UiccSelect(lchans[n], c, ok), lchans[n].open,
         NEW q, q = IF f = NoFile THEN chip[n] ELSE Standing(chip[n], s.mode, f)
  PROVE  /\ n \notin LostBy(n, c, f) => l.sel = q.cur
         /\ n \notin AstrayBy(n, c, f) => l.adf = q.app
<1>1. n \in Channels /\ chip[n] \in ChipSet /\ lchans[n] \in LChanSet
  BY DEF Open, TraceInv, TypeOK
<1>2. c.mode = s.mode /\ c.ids = s.ids
  BY SelectFields
<1>3. n \notin lost => lchans[n].sel = chip[n].cur
  BY NotSkipping DEF TraceInv, FollowsFile
<1>4. n \notin astray => lchans[n].adf = chip[n].app
  BY NotSkipping DEF TraceInv, FollowsApp
<1>5. ASSUME n \notin LostBy(n, c, f), f = NoFile PROVE l.sel = q.cur
  <2>1. n \notin lost /\ ~FromTop(c, NoFile)
    BY <1>5 DEF LostBy
  <2>2. ~ok
    BY <1>5
  <2>3. l = lchans[n]
    BY <1>1, <2>1, <2>2, RefusedStays
  <2> QED BY <1>3, <1>5, <2>1, <2>3
<1>6. ASSUME n \notin LostBy(n, c, f), f # NoFile PROVE l.sel = q.cur
  <2>1. f \in KnownTree /\ Seen(chip[n], c, f) /\ ~(c.ids[1] = "7fff" /\ n \in astray) /\ (FromTop(c, f) \/ n \notin lost)
    BY <1>6 DEF LostBy
  <2>2. f = Target(chip[n], s.mode, s.ids) /\ f \in OnCard
    <3>1. Target(chip[n], s.mode, s.ids) \in OrNone(OnCard)
      BY <1>1, TargetType
    <3> QED BY <1>6, <3>1 DEF OrNone
  <2>3. s.ids[1] = "7fff" => lchans[n].adf = chip[n].app
    BY <1>2, <1>4, <2>1
  <2>4. FromTop(c, f) \/ lchans[n].sel = chip[n].cur
    BY <1>3, <2>1
  <2>5. ok
    BY <1>6
  <2>6. BringsTo(lchans[n], c, f)
    BY <1>1, <2>1, <2>2, <2>3, <2>4, FileFollows
  <2>8. l.sel = f
    BY <2>5, <2>6 DEF BringsTo
  <2>7. q.cur = f
    BY <1>1, <1>6, <2>2 DEF Standing, ChipSet
  <2> QED BY <2>7, <2>8
<1>7. ASSUME n \notin AstrayBy(n, c, f) PROVE l.adf = q.app
  <2>1. ~(f = NoFile /\ ByApp(c)) /\ ~(f # NoFile /\ s.mode = "aid" /\ f \notin KnownTree)
    BY <1>2, <1>7 DEF AstrayBy
  <2>2. n \notin astray \/ (f # NoFile /\ s.mode = "aid" /\ f \in KnownTree)
    BY <1>2, <1>7 DEF AstrayBy
  <2>3. lchans[n].adf = chip[n].app \/ (s.mode = "aid" /\ f \in KnownTree)
    BY <1>4, <2>2
  <2>4. UiccSelect(lchans[n], c, ok).adf = (IF f = NoFile THEN chip[n] ELSE Standing(chip[n], s.mode, f)).app
    BY <1>1, <2>1, <2>3, AppFollows
  <2> QED BY <2>4
<1> QED BY <1>5, <1>6, <1>7

LEMMA SelectKeeps ==
  ASSUME TraceInv, NEW n \in Channels, NEW s \in Selects, NEW asks \in BOOLEAN, NEW granted \in BOOLEAN,
         TerminalSelects(n, s, asks, granted)
  PROVE  TraceInv'
<1> DEFINE p == chip[n]
<1>0. p \in ChipSet /\ lchans[n] \in LChanSet /\ lchans \in [Channels -> LChanSet] /\ chip \in [Channels -> ChipSet]
  BY DEF TraceInv, TypeOK
<1>1. PICK c : c = SelectCmd(n, s)
  OBVIOUS
<1>2. PICK f : f = IF granted THEN Target(p, s.mode, s.ids) ELSE NoFile
  OBVIOUS
<1>3. PICK sw : sw = IF f = NoFile THEN "bad" ELSE IF asks THEN "61" ELSE "ok"
  OBVIOUS
<1>4. /\ ~dead /\ p.open /\ chip' = (IF f = NoFile THEN chip ELSE [chip EXCEPT ![n] = Standing(@, s.mode, f)])
      /\ Capture(c, sw, c, 0, NoFile) /\ (sw = "61" => due' = [kind |-> "61", cmd |-> c]) /\ (sw # "61" => due' = NoDue)
      /\ lost' = LostBy(n, c, f) /\ astray' = AstrayBy(n, c, f) /\ provoked' = (provoked \/ Skipping)
  BY <1>1, <1>2, <1>3 DEF TerminalSelects, Exchange, SelectCmd, Held
<1>5. f \in {Target(p, s.mode, s.ids), NoFile} /\ f \in OrNone(OnCard) /\ (f # NoFile /\ s.mode = "aid" => f \in Apps(OnCard))
  <2>1. Target(p, s.mode, s.ids) \in OrNone(OnCard) /\ (s.mode = "aid" => Target(p, s.mode, s.ids) \in Apps(OnCard))
    BY <1>0, TargetType
  <2> QED BY <1>2, <2>1 DEF OrNone
<1>6. PICK q \in ChipSet : q = (IF f = NoFile THEN p ELSE Standing(p, s.mode, f)) /\ q.open
  BY <1>0, <1>4, <1>5, StandingIs DEF OrNone
<1>7. chip' = [chip EXCEPT ![n] = q]
  BY <1>0, <1>4, <1>6
<1>8. chip' \in [Channels -> ChipSet] /\ chip'[n] = q /\ chip'[0].open /\ \A k \in Channels : k # n => chip'[k] = chip[k]
  BY <1>0, <1>6, <1>7, TraceAssumption DEF TraceInv, TypeOK
<1>9. n \in Open
  BY <1>4 DEF Open
<1>10. CASE Skipping
  <2>1. Blind(n)
    <3>1. lost' = lost \cup Unfollowed(n) /\ astray' = astray \cup Unfollowed(n) /\ provoked' = TRUE
      BY <1>4, <1>10 DEF LostBy, AstrayBy
    <3>2. n \in Unfollowed(n) /\ Unfollowed(n) \subseteq Channels
      BY <1>10 DEF Unfollowed
    <3> QED BY <1>8, <3>1, <3>2 DEF Blind, TraceInv, TypeOK
  <2>2. c.cla = ClaOf(n)
    BY <1>1, SelectFields
  <2>3. CASE sw = "61"
    BY <1>1, <1>4, <1>6, <1>8, <1>9, <1>10, <2>1, <2>3, SkippedHeld
  <2>4. CASE sw # "61"
    <3>1. sw \notin {"61", "6C"} /\ due' = NoDue
      BY <1>3, <1>4, <2>4
    <3> QED BY <1>4, <1>9, <1>10, <2>1, <2>2, <3>1, SkippedPassed
  <2> QED BY <2>3, <2>4
<1>11. CASE ~Skipping
  <2>1. due = NoDue /\ ~orphan /\ last_cmd = None /\ \A k : ~Pending(k) /\ Ahead(k) = lchans[k]
    BY <1>11, NotSkipping
  <2>2. PICK ok \in BOOLEAN : ok <=> f # NoFile
    OBVIOUS
  <2>3. PICK l \in LChanSet : l = UiccSelect(lchans[n], c, ok) /\ l.open = lchans[n].open
    BY <1>0, <1>1, UiccSelectType
  <2>4. provoked' = provoked
    BY <1>4, <1>11 DEF TraceInv, TypeOK
  <2>5. lost' \subseteq Channels /\ astray' \subseteq Channels /\ (\A k \in Channels : k # n => (k \in lost' <=> k \in lost) /\ (k \in astray' <=> k \in astray))
    BY <1>4, <1>11 DEF LostBy, AstrayBy, TraceInv, TypeOK
  <2>6. lchans[n].open => (n \notin lost' => l.sel = q.cur) /\ (n \notin astray' => l.adf = q.app)
    <3> SUFFICES ASSUME lchans[n].open PROVE (n \notin lost' => l.sel = q.cur) /\ (n \notin astray' => l.adf = q.app)
      OBVIOUS
    <3>1. (n \notin LostBy(n, c, f) => l.sel = q.cur) /\ (n \notin AstrayBy(n, c, f) => l.adf = q.app)
      BY <1>1, <1>4, <1>5, <1>6, <1>9, <1>11, <2>2, <2>3, SelectFollows
    <3> QED BY <1>4, <3>1
  \* whichever way the tracer takes the command
  <2>7. ASSUME lchans' \in [Channels -> LChanSet], dead' = ~lchans[n].open,
               \A k \in Channels : lchans'[k].open = lchans[k].open,
               \A k \in Channels : Ahead(k)' = IF k = n /\ lchans[n].open THEN l ELSE lchans[k]
        PROVE  SameChannels' /\ FollowsFile' /\ FollowsApp' /\ GoesOn'
    <3>1. SameChannels'
      BY <1>4, <1>6, <1>8, <2>4, <2>7 DEF SameChannels, TraceInv
    <3>2. ASSUME NEW k \in Channels, chip'[k].open, k \notin lost', lchans'[k].open
          PROVE  Ahead(k)'.sel = chip'[k].cur
      <4>1. CASE k = n
        BY <1>8, <2>6, <2>7, <3>2, <4>1
      <4>2. CASE k # n
        <5>1. Ahead(k)' = lchans[k] /\ chip'[k] = chip[k] /\ k \notin lost /\ lchans[k].open
          BY <1>8, <2>5, <2>7, <3>2, <4>2
        <5>2. lchans[k].sel = chip[k].cur
          BY <1>4, <2>1, <3>2, <5>1 DEF TraceInv, FollowsFile, Open
        <5> QED BY <5>1, <5>2
      <4> QED BY <4>1, <4>2
    <3>3. ASSUME NEW k \in Channels, chip'[k].open, k \notin astray', lchans'[k].open
          PROVE  Ahead(k)'.adf = chip'[k].app
      <4>1. CASE k = n
        BY <1>8, <2>6, <2>7, <3>3, <4>1
      <4>2. CASE k # n
        <5>1. Ahead(k)' = lchans[k] /\ chip'[k] = chip[k] /\ k \notin astray /\ lchans[k].open
          BY <1>8, <2>5, <2>7, <3>3, <4>2
        <5>2. lchans[k].adf = chip[k].app
          BY <1>4, <2>1, <3>3, <5>1 DEF TraceInv, FollowsApp, Open
        <5> QED BY <5>1, <5>2
      <4> QED BY <4>1, <4>2
    <3>4. GoesOn'
      <4>1. ASSUME ~lchans[n].open PROVE provoked
        BY <1>4, <4>1 DEF TraceInv, SameChannels
      <4> QED BY <2>4, <2>7, <4>1 DEF GoesOn
    <3>5. FollowsFile'
      BY <3>2 DEF FollowsFile, Open
    <3>6. FollowsApp'
      BY <3>3 DEF FollowsApp, Open
    <3> QED BY <3>1, <3>4, <3>5, <3>6
  <2>8. CASE sw = "61"
    <3>1. c.cla = ClaOf(n) /\ c.ins # "GET RESPONSE" /\ c \in SelectCmds
      <4>1. c.cla = ClaOf(n) /\ c.ins = "SELECT"
        BY <1>1, SelectFields
      <4>2. c \in SelectCmds
        BY <1>1 DEF SelectCmds
      <4> QED BY <4>1, <4>2
    <3>2. last_cmd' = c /\ orphan' = FALSE /\ lchans' = lchans /\ dead' = dead /\ shown' = shown
      <4>1. sw \in {"61", "6C"}
        BY <2>8
      <4> QED BY <1>4, <3>1, <4>1, CaptureHeld
    <3>3. due'.kind = "61" /\ due'.cmd = c /\ due' # NoDue
      <4>1. due'.kind = "61" /\ due'.cmd = c
        BY <1>4, <2>8
      <4> QED BY <4>1, NoneIs
    <3>4. TypeOK'
      BY <1>8, <2>4, <2>5, <3>2 DEF TypeOK, TraceInv
    <3>5. HeldBack'
      <4>1. \A k \in Channels : due'.cmd.cla = ClaOf(k) => chip'[k].open
        BY <1>6, <1>8, <3>1, <3>3, ClaFacts
      <4> QED BY <3>1, <3>2, <3>3, <4>1 DEF HeldBack
    <3>6. CASE lchans[n].open
      <4>1. Awaits(l, lchans[n], c)
        <5>1. ok = TRUE
          BY <1>3, <2>2, <2>8
        <5> QED BY <2>3, <5>1 DEF Awaits
      <4>2. \A k \in Channels : Ahead(k)' = IF k = n THEN l ELSE lchans[k]
        BY <1>1, <1>4, <1>11, <2>8, <3>2, <4>1, SelectedHeld
      <4>3. dead' = ~lchans[n].open
        BY <1>4, <3>2, <3>6 DEF TraceInv, TypeOK
      <4>4. SameChannels' /\ FollowsFile' /\ FollowsApp' /\ GoesOn'
        BY <1>0, <2>7, <3>2, <3>6, <4>2, <4>3
      <4>5. PairedRight' /\ ReadsRight'
        BY <3>2 DEF TraceInv, PairedRight, ReadsRight
      <4> QED BY <3>4, <3>5, <4>4, <4>5 DEF TraceInv
    <3>7. CASE ~lchans[n].open
      <4>1. provoked
        BY <1>4, <3>7 DEF TraceInv, SameChannels
      <4>2. \A k \in Channels : k # n => ~Pending(k)'
        BY <3>1, <3>3, ClaFacts DEF Pending
      <4>3. SameChannels' /\ GoesOn'
        BY <2>4, <3>2, <4>1 DEF SameChannels, GoesOn
      <4>4. ASSUME NEW k \in Channels, chip'[k].open, lchans'[k].open
            PROVE  (k \notin lost' => Ahead(k)'.sel = chip'[k].cur) /\ (k \notin astray' => Ahead(k)'.adf = chip'[k].app)
        <5>1. k # n /\ chip'[k] = chip[k] /\ lchans[k].open /\ (k \in lost' <=> k \in lost) /\ (k \in astray' <=> k \in astray)
          BY <1>8, <2>5, <3>2, <3>7, <4>4
        <5>2. Ahead(k)' = lchans[k]
          BY <3>2, <4>2, <5>1 DEF Ahead
        <5>3. (k \notin lost => lchans[k].sel = chip[k].cur) /\ (k \notin astray => lchans[k].adf = chip[k].app)
          BY <1>4, <2>1, <4>4, <5>1 DEF TraceInv, FollowsFile, FollowsApp, Open
        <5> QED BY <5>1, <5>2, <5>3
      <4>5. FollowsFile' /\ FollowsApp'
        BY <4>4 DEF FollowsFile, FollowsApp, Open
      <4>6. PairedRight' /\ ReadsRight'
        BY <3>2 DEF TraceInv, PairedRight, ReadsRight
      <4> QED BY <3>4, <3>5, <4>3, <4>5, <4>6 DEF TraceInv
    <3> QED BY <3>6, <3>7
  <2>9. CASE sw # "61"
    <3>1. sw \notin {"61", "6C"} /\ due' = NoDue /\ (sw = "ok" <=> f # NoFile)
      BY <1>3, <1>4, <2>9
    <3>2. PICK k \in BOOLEAN : (k <=> sw = "ok") /\ Handed(c, k, c, 0, NoFile)
      BY <1>4, <2>1, <3>1, CapturePassed
    <3>3. Handed(c, ok, c, 0, NoFile)
      <4>1. k = ok
        BY <2>2, <3>1, <3>2
      <4> QED BY <3>2, <4>1
    <3>4. c.ins = "SELECT" /\ LchanNrFromCla(c.cla) = n
      BY <1>1, SelectFields, ClaFacts
    <3>5. PICK t : t = Process(c, ok, 0) /\ lchans' = t.lchans /\ dead' = t.dead
      BY <3>3 DEF Handed
    <3>6. lchans' = (IF lchans[n].open THEN [lchans EXCEPT ![n] = l] ELSE lchans) /\ dead' = ~lchans[n].open
      <4>1. CASE lchans[n].open
        BY <2>3, <3>4, <3>5, <4>1 DEF Process
      <4>2. CASE ~lchans[n].open
        BY <3>4, <3>5, <4>2 DEF Process, Fails
      <4> QED BY <4>1, <4>2
    <3>7. lchans' \in [Channels -> LChanSet] /\ \A j \in Channels : lchans'[j].open = lchans[j].open
      BY <1>0, <2>3, <3>6
    <3>8. \A j \in Channels : Ahead(j)' = IF j = n /\ lchans[n].open THEN l ELSE lchans[j]
      <4>1. \A j \in Channels : Ahead(j)' = lchans'[j]
        BY <3>1, NoneIs DEF Ahead, Pending
      <4>2. \A j \in Channels : lchans'[j] = IF j = n /\ lchans[n].open THEN l ELSE lchans[j]
        BY <1>0, <3>6
      <4> QED BY <4>1, <4>2
    <3>9. SameChannels' /\ FollowsFile' /\ FollowsApp' /\ GoesOn'
      BY <2>7, <3>6, <3>7, <3>8
    <3>10. last_cmd' = None /\ orphan' = FALSE /\ shown'.right = (c = c) /\ shown'.read = NoFile
      BY <3>3 DEF Handed
    <3>11. TypeOK'
      <4>1. dead' \in BOOLEAN
        BY <1>0, <3>6 DEF LChanSet
      <4> QED BY <1>8, <2>4, <2>5, <3>7, <3>10, <4>1 DEF TypeOK, TraceInv
    <3>12. HeldBack' /\ PairedRight' /\ ReadsRight'
      BY <3>1, <3>10 DEF HeldBack, PairedRight, ReadsRight
    <3> QED BY <3>9, <3>11, <3>12 DEF TraceInv
  <2> QED BY <2>8, <2>9
<1> QED BY <1>10, <1>11

\* An exchange that leaves the channels as they are.
LEMMA SteadyKeeps ==
  ASSUME TraceInv, ~Skipping, ~dead, chip' = chip, lchans' = lchans, lost' = lost, astray' = astray,
         provoked' \in BOOLEAN, provoked => provoked', dead' \in BOOLEAN, dead' => provoked', \A k \in Channels : Ahead(k)' = lchans[k]
  PROVE  SameChannels' /\ FollowsFile' /\ FollowsApp' /\ GoesOn'
<1>1. \A k : Ahead(k) = lchans[k]
  BY NotSkipping
<1>2. SameChannels' /\ GoesOn'
  BY DEF SameChannels, GoesOn, TraceInv
<1>3. ASSUME NEW k \in Channels, chip[k].open, lchans[k].open
      PROVE  (k \notin lost => lchans[k].sel = chip[k].cur) /\ (k \notin astray => lchans[k].adf = chip[k].app)
  BY <1>1, <1>3 DEF TraceInv, FollowsFile, FollowsApp, Open
<1>4. FollowsFile'
  BY <1>3 DEF FollowsFile, Open
<1>5. FollowsApp'
  BY <1>3 DEF FollowsApp, Open
<1> QED BY <1>2, <1>4, <1>5

LEMMA ReadHanded ==
  ASSUME NEW n \in Channels, NEW sfi, NEW c, c = ReadCmd(n, sfi), NEW ok \in BOOLEAN, NEW own, NEW nr, NEW read, Handed(c, ok, own, nr, read)
  PROVE  lchans' = lchans /\ dead' = ~lchans[n].open
<1>1. PICK t : t = Process(c, ok, nr) /\ lchans' = t.lchans /\ dead' = t.dead
  BY DEF Handed
<1>2. c.ins = "READ" /\ LchanNrFromCla(c.cla) = n
  BY ReadFields, ClaFacts
<1> QED BY <1>1, <1>2 DEF Process, Fails

\* A READ is shown with the file it read, whenever it is handed on.
LEMMA ReadShown ==
  ASSUME TraceInv, ~dead, NEW n \in Open, NEW sfi, NEW c, c = ReadCmd(n, sfi), NEW ok \in BOOLEAN, NEW nr, NEW read,
         read = ReadFrom(n, sfi), ~Pending(n), Handed(c, ok, c, nr, read)
  PROVE  ReadsRight'
<1> SUFFICES ASSUME shown'.read # NoFile, shown'.sure PROVE shown'.file \in {shown'.read, NoFile}
  BY DEF ReadsRight
<1>1. shown'.file = Process(c, ok, nr).file /\ shown'.read = read /\ shown'.sure = Sure(c)
  BY DEF Handed
<1>2. Sure(c)
  BY <1>1
<1>3. Process(c, ok, nr).file \in {ReadFrom(n, sfi), NoFile}
  BY <1>1, <1>2, ReadIs
<1> QED BY <1>1, <1>3

LEMMA ReadingKeeps ==
  ASSUME TraceInv, NEW n \in Channels, NEW sfi \in Sfis, NEW w \in BOOLEAN, TerminalReads(n, sfi, w)
  PROVE  TraceInv'
<1>1. PICK c : c = ReadCmd(n, sfi)
  OBVIOUS
<1>2. PICK f : f = ReadFrom(n, sfi)
  OBVIOUS
<1>3. PICK sw : sw = IF f = NoFile THEN "bad" ELSE IF w THEN "6C" ELSE "ok"
  OBVIOUS
<1>4. /\ ~dead /\ chip[n].open /\ chip' = chip
      /\ Capture(c, sw, c, 0, f) /\ (sw = "6C" => due' = [kind |-> "6C", cmd |-> c]) /\ (sw # "6C" => due' = NoDue)
      /\ lost' = lost \cup Unfollowed(n) /\ astray' = astray \cup Unfollowed(n) /\ provoked' = (provoked \/ Skipping)
  BY <1>1, <1>2, <1>3 DEF TerminalReads, Exchange, ReadCmd, Held
<1>5. n \in Open
  BY <1>4 DEF Open
<1>6. c.cla = ClaOf(n) /\ c.ins = "READ" /\ c \in ReadCmds
  <2>1. c.cla = ClaOf(n) /\ c.ins = "READ"
    BY <1>1, ReadFields
  <2> QED BY <1>1, <2>1 DEF ReadCmds
<1>7. CASE Skipping
  <2>1. Blind(n)
    <3>1. n \in Unfollowed(n) /\ Unfollowed(n) \subseteq Channels /\ provoked' = TRUE
      BY <1>4, <1>7 DEF Unfollowed
    <3> QED BY <1>4, <3>1 DEF Blind, TraceInv, TypeOK
  <2>2. CASE sw = "6C"
    BY <1>1, <1>4, <1>5, <1>7, <2>1, <2>2, SkippedHeld
  <2>3. CASE sw # "6C"
    <3>1. sw \notin {"61", "6C"} /\ due' = NoDue
      BY <1>3, <1>4, <2>3
    <3> QED BY <1>1, <1>2, <1>4, <1>5, <1>6, <1>7, <2>1, <3>1, SkippedPassed
  <2> QED BY <2>2, <2>3
<1>8. CASE ~Skipping
  <2>1. due = NoDue /\ ~orphan /\ last_cmd = None /\ \A k : ~Pending(k) /\ Ahead(k) = lchans[k]
    BY <1>8, NotSkipping
  <2>2. provoked' = provoked /\ lost' = lost /\ astray' = astray
    BY <1>4, <1>8 DEF TraceInv, TypeOK, Unfollowed
  <2>3. CASE sw = "6C"
    <3>1. last_cmd' = c /\ orphan' = FALSE /\ lchans' = lchans /\ dead' = dead /\ shown' = shown
      <4>1. sw \in {"61", "6C"} /\ c.ins # "GET RESPONSE"
        BY <1>6, <2>3
      <4> QED BY <1>4, <4>1, CaptureHeld
    <3>2. due'.kind = "6C" /\ due'.cmd = c /\ due' # NoDue
      <4>1. due'.kind = "6C" /\ due'.cmd = c
        BY <1>4, <2>3
      <4> QED BY <4>1, NoneIs
    <3>3. \A k \in Channels : Ahead(k)' = lchans[k]
      BY <3>1, <3>2 DEF Ahead, Pending
    <3>4. SameChannels' /\ FollowsFile' /\ FollowsApp' /\ GoesOn'
      <4>1. provoked' \in BOOLEAN /\ dead' \in BOOLEAN /\ ~dead'
        BY <1>4, <2>2, <3>1 DEF TraceInv, TypeOK
      <4> QED BY <1>4, <1>8, <2>2, <3>1, <3>3, <4>1, SteadyKeeps
    <3>5. TypeOK'
      BY <1>4, <2>2, <3>1 DEF TypeOK, TraceInv
    <3>6. HeldBack'
      <4>1. \A k \in Channels : due'.cmd.cla = ClaOf(k) => chip'[k].open
        BY <1>4, <1>6, <3>2, ClaFacts
      <4> QED BY <1>6, <3>1, <3>2, <4>1 DEF HeldBack
    <3>7. PairedRight' /\ ReadsRight'
      BY <3>1 DEF TraceInv, PairedRight, ReadsRight
    <3> QED BY <3>4, <3>5, <3>6, <3>7 DEF TraceInv
  <2>4. CASE sw # "6C"
    <3>1. sw \notin {"61", "6C"} /\ due' = NoDue
      BY <1>3, <1>4, <2>4
    <3>2. PICK ok \in BOOLEAN : Handed(c, ok, c, 0, f)
      BY <1>4, <2>1, <3>1, CapturePassed
    <3>3. lchans' = lchans /\ dead' = ~lchans[n].open
      BY <1>1, <3>2, ReadHanded
    <3>4. \A k \in Channels : Ahead(k)' = lchans[k]
      BY <3>1, <3>3, NoneIs DEF Ahead, Pending
    <3>5. dead' \in BOOLEAN /\ (dead' => provoked') /\ provoked' \in BOOLEAN
      BY <1>4, <2>2, <3>3 DEF TraceInv, SameChannels, TypeOK, LChanSet
    <3>6. SameChannels' /\ FollowsFile' /\ FollowsApp' /\ GoesOn'
      BY <1>4, <1>8, <2>2, <3>3, <3>4, <3>5, SteadyKeeps
    <3>7. last_cmd' = None /\ orphan' = FALSE /\ shown'.right
      BY <3>2 DEF Handed
    <3>8. TypeOK'
      BY <1>4, <2>2, <3>3, <3>5, <3>7 DEF TypeOK, TraceInv
    <3>9. HeldBack' /\ PairedRight'
      BY <3>1, <3>7 DEF HeldBack, PairedRight
    <3>10. ReadsRight'
      BY <1>1, <1>2, <1>4, <1>5, <2>1, <3>2, ReadShown
    <3> QED BY <3>6, <3>8, <3>9, <3>10 DEF TraceInv
  <2> QED BY <2>3, <2>4
<1> QED BY <1>7, <1>8

\* The command d was answered to the tracer with the status ok, as it should.
Fetched(d, read) == Handed(d, TRUE, d, 0, read)

\* What the answer makes of the tracer is what was ahead of it.
LEMMA FetchedIsAhead ==
  ASSUME TraceInv, due # NoDue, NEW m \in Channels, NEW d, d = due.cmd, d.cla = ClaOf(m), NEW read, Fetched(d, read)
  PROVE  /\ lchans' \in [Channels -> LChanSet] /\ dead' = ~lchans[m].open
         /\ \A k \in Channels : lchans'[k].open = lchans[k].open /\ (lchans[m].open => lchans'[k] = Ahead(k))
<1>0. lchans \in [Channels -> LChanSet] /\ lchans[m] \in LChanSet
  BY DEF TraceInv, TypeOK
<1>1. LchanNrFromCla(d.cla) = m /\ \A k \in Channels : (d.cla = ClaOf(k) <=> k = m)
  BY ClaFacts
<1>2. PICK t : t = Process(d, TRUE, 0) /\ lchans' = t.lchans /\ dead' = t.dead
  BY DEF Fetched, Handed
<1>3. PICK l : l = UiccSelect(lchans[m], d, TRUE)
  OBVIOUS
<1>4. CASE due.kind = "61" /\ d \in SelectCmds
  <2>1. PICK n \in Channels, s \in Selects : d = SelectCmd(n, s)
    BY <1>4 DEF SelectCmds
  <2>2. d.ins = "SELECT"
    BY <2>1, SelectFields
  <2>3. l \in LChanSet /\ l.open = lchans[m].open
    <3>1. ASSUME NEW ok \in BOOLEAN PROVE UiccSelect(lchans[m], d, ok) \in LChanSet /\ UiccSelect(lchans[m], d, ok).open = lchans[m].open
      BY <1>0, <2>1, UiccSelectType
    <3> QED BY <1>3, <3>1
  <2>4. lchans' = (IF lchans[m].open THEN [lchans EXCEPT ![m] = l] ELSE lchans) /\ dead' = ~lchans[m].open
    <3>1. CASE lchans[m].open
      BY <1>1, <1>2, <1>3, <2>2, <3>1 DEF Process
    <3>2. CASE ~lchans[m].open
      BY <1>1, <1>2, <2>2, <3>2 DEF Process, Fails
    <3> QED BY <3>1, <3>2
  <2>5. \A k \in Channels : Ahead(k) = IF k = m THEN l ELSE lchans[k]
    <3>1. \A k \in Channels : Pending(k) <=> k = m
      BY <1>1, <1>4 DEF Pending
    <3>2. Ahead(m) = l
      BY <1>3, <3>1 DEF Ahead
    <3>3. \A k \in Channels : k # m => Ahead(k) = lchans[k]
      BY <3>1 DEF Ahead
    <3> QED BY <3>2, <3>3
  <2> QED BY <1>0, <2>3, <2>4, <2>5
<1>5. CASE due.kind = "6C" /\ d \in ReadCmds
  <2>1. PICK n \in Channels, sfi \in Sfis : d = ReadCmd(n, sfi)
    BY <1>5 DEF ReadCmds
  <2>2. d.ins = "READ"
    BY <2>1, ReadFields
  <2>3. lchans' = lchans /\ dead' = ~lchans[m].open
    BY <1>1, <1>2, <2>2 DEF Process, Fails
  <2>4. \A k : Ahead(k) = lchans[k]
    BY <1>5 DEF Ahead, Pending
  <2> QED BY <1>0, <2>3, <2>4
<1> QED BY <1>4, <1>5 DEF TraceInv, HeldBack

LEMMA FetchKeeps ==
  ASSUME TraceInv, TerminalFetches
  PROVE  TraceInv'
<1>1. PICK d : d = due.cmd
  OBVIOUS
<1>2. ~dead /\ due # NoDue /\ chip' = chip /\ lost' = lost /\ astray' = astray /\ provoked' = provoked /\ due' = NoDue
  BY DEF TerminalFetches, Exchange
<1>3. last_cmd = d /\ d # None /\ ~orphan /\ (\A k \in Channels : d.cla = ClaOf(k) => chip[k].open)
      /\ ((due.kind = "61" /\ d \in SelectCmds) \/ (due.kind = "6C" /\ d \in ReadCmds))
  BY <1>1, <1>2, CommandsAreSome DEF TraceInv, HeldBack
<1>4. PICK m \in Channels : d.cla = ClaOf(m)
  BY <1>3, CommandsAreSome
<1>5. PICK read : read = IF d.ins = "READ" THEN ReadFrom(m, d.ids[1]) ELSE NoFile
  OBVIOUS
<1>6. Fetched(d, read)
  <2>1. (CHOOSE k \in Channels : ClaOf(k) = d.cla) = m
    BY <1>4, ClaFacts
  <2>2. PICK c : Capture(c, "ok", d, 0, read)
    BY <1>1, <1>5, <2>1 DEF TerminalFetches
  <2>3. PICK ok \in BOOLEAN : (ok <=> "ok" = "ok") /\ Handed(d, ok, d, 0, read)
    <3>1. "ok" \notin {"61", "6C"}
      OBVIOUS
    <3>2. \E ok \in BOOLEAN : (ok <=> "ok" = "ok") /\ Handed(IF last_cmd = None THEN c ELSE last_cmd, ok, d, 0, read)
      BY <2>2, <3>1, CapturePassed
    <3> QED BY <1>3, <3>2
  <2>4. ok = TRUE
    BY <2>3
  <2> QED BY <2>3, <2>4 DEF Fetched
<1>7. /\ lchans' \in [Channels -> LChanSet] /\ dead' = ~lchans[m].open
      /\ \A k \in Channels : lchans'[k].open = lchans[k].open /\ (lchans[m].open => lchans'[k] = Ahead(k))
  BY <1>1, <1>2, <1>4, <1>6, FetchedIsAhead
<1>8. last_cmd' = None /\ orphan' = FALSE /\ shown'.right /\ shown'.read = read
  BY <1>6 DEF Fetched, Handed
<1>9. dead' \in BOOLEAN /\ (dead' => provoked)
  <2>1. chip[m].open
    BY <1>3, <1>4
  <2> QED BY <1>2, <1>7, <2>1 DEF TraceInv, SameChannels, TypeOK, LChanSet
<1>10. TypeOK' /\ HeldBack' /\ PairedRight'
  BY <1>2, <1>7, <1>8, <1>9 DEF TypeOK, HeldBack, PairedRight, TraceInv
<1>11. GoesOn' /\ SameChannels'
  BY <1>2, <1>7, <1>9 DEF GoesOn, SameChannels, TraceInv
<1>12. \A k : Ahead(k)' = lchans'[k]
  BY <1>2, NoneIs DEF Ahead, Pending
<1>13. ASSUME ~dead', NEW k \in Channels, chip[k].open, lchans'[k].open
       PROVE  (k \notin lost => Ahead(k)'.sel = chip[k].cur) /\ (k \notin astray => Ahead(k)'.adf = chip[k].app)
  <2>1. Ahead(k)' = Ahead(k) /\ lchans[k].open
    BY <1>7, <1>12, <1>13
  <2>2. (k \notin lost => Ahead(k).sel = chip[k].cur) /\ (k \notin astray => Ahead(k).adf = chip[k].app)
    BY <1>2, <1>13, <2>1 DEF TraceInv, FollowsFile, FollowsApp, Open
  <2> QED BY <2>1, <2>2
<1>14. FollowsFile'
  BY <1>2, <1>13 DEF FollowsFile, Open
<1>15. FollowsApp'
  BY <1>2, <1>13 DEF FollowsApp, Open
<1>16. ReadsRight'
  <2>1. CASE d \in SelectCmds
    <3>1. d.ins = "SELECT"
      BY <2>1, SelectFields DEF SelectCmds
    <3>2. read = NoFile
      BY <1>5, <3>1
    <3> QED BY <1>8, <3>2 DEF ReadsRight
  <2>2. CASE due.kind = "6C" /\ d \in ReadCmds
    <3>1. PICK n \in Channels, sfi \in Sfis : d = ReadCmd(n, sfi)
      BY <2>2 DEF ReadCmds
    <3>2. n = m /\ d.ins = "READ" /\ d.ids[1] = sfi
      BY <1>4, <3>1, ReadFields, ClaFacts
    <3>3. read = ReadFrom(m, sfi) /\ ~Pending(m) /\ m \in Open
      BY <1>3, <1>4, <1>5, <2>2, <3>2 DEF Pending, Open
    <3>4. ASSUME NEW ok \in BOOLEAN, Handed(d, ok, d, 0, read) PROVE ReadsRight'
      BY <1>2, <3>1, <3>2, <3>3, <3>4, ReadShown
    <3> QED BY <1>6, <3>4 DEF Fetched
  <2> QED BY <1>3, <2>1, <2>2
<1> QED BY <1>10, <1>11, <1>14, <1>15, <1>16 DEF TraceInv

LEMMA Starts ==
  Fresh \in ChipSet /\ Fresh.open /\ Fresh.cur = MF /\ Fresh.app = NoFile /\ Shut \in ChipSet /\ ~Shut.open
  /\ NewLchan \in LChanSet /\ NewLchan.open /\ NewLchan.sel = MF /\ NewLchan.adf = NoFile /\ Closed \in LChanSet /\ ~Closed.open
BY KnownFiles DEF Fresh, Shut, NewLchan, Closed, ChipSet, LChanSet, Apps

\* The channel the card assigns is a closed one, never the basic one.
LEMMA AssignedIs ==
  ASSUME TraceInv, NEW nr \in Channels, nr = 0 \/ nr \notin Open, Channels # Open
  PROVE  Assigned(nr) \in Channels /\ ~chip[Assigned(nr)].open /\ Assigned(nr) # 0
<1> DEFINE S == Channels \ Open
<1>1. 0 \in Open
  BY TraceAssumption DEF Open, TraceInv, TypeOK
<1>2. Assigned(nr) \in S
  <2>1. CASE nr # 0
    BY <2>1 DEF Assigned
  <2>2. CASE nr = 0
    <3>1. S \in SUBSET Nat /\ S # {}
      <4>1. Channels \subseteq 0..19
        BY TraceAssumption
      <4>2. S \in SUBSET Nat
        <5>1. \A j \in 0..19 : j \in Nat
          OBVIOUS
        <5>2. \A j \in Channels : j \in Nat
          BY <4>1, <5>1
        <5> QED BY <5>2
      <4>3. Open \subseteq Channels
        BY DEF Open
      <4>4. S # {}
        BY <4>3
      <4> QED BY <4>2, <4>4
    <3>2. \E i \in S : \A j \in S : i <= j
      <4> HIDE DEF S
      <4> QED BY <3>1, LeastExists
    <3>3. Assigned(nr) = CHOOSE k \in S : \A j \in S : k <= j
      BY <2>2 DEF Assigned
    <3> HIDE DEF S
    <3> QED BY <3>2, <3>3
  <2> QED BY <2>1, <2>2
<1> QED BY <1>1, <1>2 DEF Open

LEMMA OpenedIs ==
  ASSUME TraceInv, NEW n \in Channels
  PROVE  /\ Opened(n) \in ChipSet /\ Opened(n).open
         /\ AddLchan(n) \in LChanSet /\ AddLchan(n).open
         /\ (n = 0 \/ lchans[n].sel = chip[n].cur) => AddLchan(n).sel = Opened(n).cur
         /\ (n = 0 \/ lchans[n].adf = chip[n].app) => AddLchan(n).adf = Opened(n).app
<1>1. chip[n] \in ChipSet /\ lchans[n] \in LChanSet
  BY DEF TraceInv, TypeOK
<1>2. Cwd(chip[n].cur) \in OnCard /\ Cwd(lchans[n].sel) \in KnownTree
  BY <1>1, KnownFiles, CwdIsDirectory DEF ChipSet, LChanSet
<1> QED BY <1>1, <1>2, KnownFiles DEF Opened, AddLchan, NewLchan, ChipSet, LChanSet, Apps

ManageCmd(n, mode, nr) == Cmd("MANAGE", n, mode, <<>>, nr)

LEMMA ManageFields ==
  ASSUME NEW n \in Channels, NEW mode, NEW nr
  PROVE  LET c == ManageCmd(n, mode, nr) IN
         c.ins = "MANAGE" /\ c.cla = ClaOf(n) /\ c.mode = mode /\ c.nr = nr /\ LchanNrFromCla(c.cla) = n
BY ClaFacts DEF ManageCmd, Cmd

LEMMA OpenHanded ==
  ASSUME NEW n \in Channels, NEW nr, NEW k, NEW c, c = ManageCmd(n, "open", nr), NEW ok \in BOOLEAN, NEW own, NEW read, Handed(c, ok, own, k, read)
  PROVE  IF ~ok THEN lchans' = lchans /\ dead' = FALSE
         ELSE IF lchans[n].open /\ ~lchans[k].open THEN lchans' = [lchans EXCEPT ![k] = AddLchan(n)] /\ dead' = FALSE
         ELSE lchans' = lchans /\ dead' = TRUE
<1>1. PICK t : t = Process(c, ok, k) /\ lchans' = t.lchans /\ dead' = t.dead
  BY DEF Handed
<1>2. c.ins = "MANAGE" /\ c.mode = "open" /\ LchanNrFromCla(c.cla) = n
  BY ManageFields
<1>3. t = ManageChannel(c, ok, k)
  BY <1>1, <1>2 DEF Process
<1> QED BY <1>1, <1>2, <1>3 DEF ManageChannel, Fails

LEMMA OpenKeeps ==
  ASSUME TraceInv, NEW n \in Channels, NEW nr \in Channels, TerminalOpens(n, nr)
  PROVE  TraceInv'
<1>1. PICK c : c = ManageCmd(n, "open", nr)
  OBVIOUS
<1>2. PICK ok \in BOOLEAN : ok <=> (nr = 0 \/ nr \notin Open) /\ Channels # Open
  OBVIOUS
<1>3. PICK k : k = IF ok THEN Assigned(nr) ELSE 0
  OBVIOUS
<1>4. PICK sw : sw = IF ok THEN "ok" ELSE "bad"
  OBVIOUS
<1>5. /\ ~dead /\ chip[n].open /\ due' = NoDue
      /\ chip' = IF ok THEN [chip EXCEPT ![k] = Opened(n)] ELSE chip
      /\ Capture(c, sw, c, k, NoFile) /\ provoked' = (provoked \/ Skipping)
      /\ lost' = Inherited(lost, n, k, ok) /\ astray' = Inherited(astray, n, k, ok)
  <2>1. CASE ok
    <3>1. (nr = 0 \/ nr \notin Open) /\ Channels # Open /\ k = Assigned(nr) /\ sw = "ok"
      BY <1>2, <1>3, <1>4, <2>1
    <3> QED BY <1>1, <2>1, <3>1 DEF TerminalOpens, Exchange, ManageCmd, Inherited
  <2>2. CASE ~ok
    <3>1. ~((nr = 0 \/ nr \notin Open) /\ Channels # Open) /\ k = 0 /\ sw = "bad"
      BY <1>2, <1>3, <1>4, <2>2
    <3> QED BY <1>1, <2>2, <3>1 DEF TerminalOpens, Exchange, ManageCmd, Inherited
  <2> QED BY <2>1, <2>2
<1>6. k \in Channels /\ (ok => ~chip[k].open /\ k # 0)
  BY <1>2, <1>3, AssignedIs, TraceAssumption
<1>7. n \in Open /\ lchans \in [Channels -> LChanSet] /\ chip \in [Channels -> ChipSet] /\ c.cla = ClaOf(n)
  BY <1>1, <1>5, ManageFields DEF Open, TraceInv, TypeOK
<1>8. chip' \in [Channels -> ChipSet] /\ chip'[0].open /\ (\A j \in Channels : j # k => chip'[j] = chip[j]) /\ (~ok => chip' = chip)
      /\ (ok => chip'[k] = Opened(n))
  BY <1>5, <1>6, <1>7, OpenedIs, TraceAssumption DEF TraceInv, TypeOK
<1>9. lost' \subseteq Channels /\ astray' \subseteq Channels
  BY <1>5, <1>6 DEF Inherited, Unfollowed, TraceInv, TypeOK
<1>10. CASE Skipping
  <2>1. Blind(n)
    <3>1. lost' = lost \cup Unfollowed(n) \cup {k} /\ astray' = astray \cup Unfollowed(n) \cup {k} /\ provoked' = TRUE
      BY <1>5, <1>10 DEF Inherited
    <3> QED BY <1>8, <1>9, <3>1 DEF Blind
  <2>2. sw \notin {"61", "6C"}
    BY <1>4
  <2> QED BY <1>5, <1>7, <1>10, <2>1, <2>2, SkippedPassed
<1>11. CASE ~Skipping
  <2>1. due = NoDue /\ ~orphan /\ last_cmd = None /\ \A j : ~Pending(j) /\ Ahead(j) = lchans[j]
    BY <1>11, NotSkipping
  <2>2. provoked' = provoked
    BY <1>5, <1>11 DEF TraceInv, TypeOK
  <2>3. Handed(c, ok, c, k, NoFile)
    <3>1. PICK g \in BOOLEAN : (g <=> sw = "ok") /\ Handed(c, g, c, k, NoFile)
      <4>1. sw \notin {"61", "6C"}
        BY <1>4
      <4> QED BY <1>5, <2>1, <4>1, CapturePassed
    <3>2. g = ok
      BY <1>4, <3>1
    <3> QED BY <3>1, <3>2
  <2>4. last_cmd' = None /\ orphan' = FALSE /\ shown'.right /\ shown'.read = NoFile
    BY <2>3 DEF Handed
  <2>5. HeldBack' /\ PairedRight' /\ ReadsRight'
    BY <1>5, <2>4 DEF HeldBack, PairedRight, ReadsRight
  <2>6. \A j : Ahead(j)' = lchans'[j]
    BY <1>5, NoneIs DEF Ahead, Pending
  <2>7. IF ~ok THEN lchans' = lchans /\ dead' = FALSE
        ELSE IF lchans[n].open /\ ~lchans[k].open THEN lchans' = [lchans EXCEPT ![k] = AddLchan(n)] /\ dead' = FALSE
        ELSE lchans' = lchans /\ dead' = TRUE
    BY <1>1, <2>3, OpenHanded
  <2>8. lchans' \in [Channels -> LChanSet] /\ dead' \in BOOLEAN
    BY <1>6, <1>7, <2>7, OpenedIs
  <2>9. TypeOK'
    BY <1>8, <1>9, <2>2, <2>4, <2>8 DEF TypeOK, TraceInv
  <2>10. CASE ~ok
    <3>1. lost' = lost /\ astray' = astray /\ chip' = chip /\ lchans' = lchans /\ ~dead'
      BY <1>5, <1>8, <1>11, <2>7, <2>10 DEF Inherited
    <3>2. SameChannels' /\ FollowsFile' /\ FollowsApp' /\ GoesOn'
      <4>1. provoked' \in BOOLEAN /\ \A j \in Channels : Ahead(j)' = lchans[j]
        BY <2>2, <2>6, <3>1 DEF TraceInv, TypeOK
      <4> QED BY <1>5, <1>11, <2>2, <2>8, <3>1, <4>1, SteadyKeeps
    <3> QED BY <2>5, <2>9, <3>2 DEF TraceInv
  <2>11. CASE ok /\ ~(lchans[n].open /\ ~lchans[k].open)
    <3>1. dead' = TRUE /\ lchans' = lchans
      BY <2>7, <2>11
    <3>2. provoked
      <4>1. ~chip[k].open /\ chip[n].open
        BY <1>5, <1>6, <2>11
      <4> QED BY <1>5, <1>6, <2>11, <4>1 DEF TraceInv, SameChannels
    <3>3. SameChannels' /\ FollowsFile' /\ FollowsApp' /\ GoesOn'
      BY <2>2, <3>1, <3>2 DEF SameChannels, FollowsFile, FollowsApp, GoesOn
    <3> QED BY <2>5, <2>9, <3>3 DEF TraceInv
  <2>12. CASE ok /\ lchans[n].open /\ ~lchans[k].open
    <3>1. lchans' = [lchans EXCEPT ![k] = AddLchan(n)] /\ dead' = FALSE
      BY <2>7, <2>12
    <3>2. lchans'[k] = AddLchan(n) /\ \A j \in Channels : j # k => lchans'[j] = lchans[j]
      BY <1>6, <1>7, <3>1
    <3>3. Opened(n).open /\ AddLchan(n).open
      BY OpenedIs
    <3>4. SameChannels' /\ GoesOn'
      <4>1. chip'[k].open /\ \A j \in Channels : j # k => chip'[j].open = chip[j].open
        BY <1>8, <2>12, <3>3
      <4>2. ASSUME ~provoked', NEW j \in Channels
            PROVE  lchans'[j].open = chip'[j].open
        <5>1. ~dead /\ ~provoked
          BY <1>5, <2>2, <4>2
        <5>2. lchans[j].open = chip[j].open
          BY <4>2, <5>1 DEF TraceInv, SameChannels
        <5>3. j = k => lchans'[j].open = chip'[j].open
          <6>1. lchans'[k] = AddLchan(n) /\ chip'[k] = Opened(n)
            BY <1>8, <2>12, <3>2
          <6>2. AddLchan(n).open = TRUE /\ Opened(n).open = TRUE
            BY <1>7, OpenedIs DEF ChipSet, LChanSet, Open
          <6> QED BY <6>1, <6>2
        <5>4. j # k => lchans'[j].open = chip'[j].open
          BY <3>2, <4>1, <4>2, <5>2
        <5> QED BY <5>3, <5>4
      <4>3. SameChannels'
        BY <4>2 DEF SameChannels
      <4> QED BY <3>1, <4>3 DEF GoesOn
    <3>5. /\ \A j \in Channels : j # k => (j \in lost' <=> j \in lost) /\ (j \in astray' <=> j \in astray)
          /\ (k \notin lost' => n = 0 \/ n \notin lost) /\ (k \notin astray' => n = 0 \/ n \notin astray)
      BY <1>5, <1>11, <2>12 DEF Inherited
    <3>6. \A j \in Channels : chip[j].open /\ lchans[j].open =>
             (j \notin lost => lchans[j].sel = chip[j].cur) /\ (j \notin astray => lchans[j].adf = chip[j].app)
      BY <1>5, <2>1 DEF TraceInv, FollowsFile, FollowsApp, Open
    <3>7. (k \notin lost' => lchans'[k].sel = chip'[k].cur) /\ (k \notin astray' => lchans'[k].adf = chip'[k].app)
      <4>1. k \notin lost' => n = 0 \/ lchans[n].sel = chip[n].cur
        BY <1>5, <2>12, <3>5, <3>6
      <4>2. k \notin astray' => n = 0 \/ lchans[n].adf = chip[n].app
        BY <1>5, <2>12, <3>5, <3>6
      <4>3. lchans'[k] = AddLchan(n) /\ chip'[k] = Opened(n)
        BY <1>8, <2>12, <3>2
      <4> QED BY <4>1, <4>2, <4>3, OpenedIs
    <3>8. ASSUME NEW j \in Channels, chip'[j].open, lchans'[j].open
          PROVE  (j \notin lost' => Ahead(j)'.sel = chip'[j].cur) /\ (j \notin astray' => Ahead(j)'.adf = chip'[j].app)
      <4>1. Ahead(j)' = lchans'[j]
        BY <2>6
      <4>2. CASE j = k
        BY <3>7, <4>1, <4>2
      <4>3. CASE j # k
        <5>1. chip'[j] = chip[j] /\ lchans'[j] = lchans[j]
          BY <1>8, <3>2, <4>3
        <5> QED BY <3>5, <3>6, <3>8, <4>1, <4>3, <5>1
      <4> QED BY <4>2, <4>3
    <3>9. FollowsFile'
      BY <3>8 DEF FollowsFile, Open
    <3>10. FollowsApp'
      BY <3>8 DEF FollowsApp, Open
    <3> QED BY <2>5, <2>9, <3>4, <3>9, <3>10 DEF TraceInv
  <2> QED BY <2>10, <2>11, <2>12
<1> QED BY <1>10, <1>11

LEMMA CloseKeeps ==
  ASSUME TraceInv, NEW n \in Channels, NEW nr \in Channels, TerminalCloses(n, nr)
  PROVE  TraceInv'
<1>1. PICK c : c = ManageCmd(n, "close", nr)
  OBVIOUS
<1>2. /\ ~dead /\ chip[n].open /\ nr # 0 /\ due' = NoDue /\ chip' = [chip EXCEPT ![nr] = Shut]
      /\ Capture(c, "ok", c, 0, NoFile) /\ provoked' = (provoked \/ Skipping)
      /\ lost' = lost \cup Unfollowed(n) /\ astray' = astray \cup Unfollowed(n)
  BY <1>1 DEF TerminalCloses, Exchange, ManageCmd
<1>3. n \in Open /\ lchans \in [Channels -> LChanSet] /\ chip \in [Channels -> ChipSet] /\ c.cla = ClaOf(n)
  BY <1>1, <1>2, ManageFields DEF Open, TraceInv, TypeOK
<1>4. chip' \in [Channels -> ChipSet] /\ chip'[0].open /\ ~chip'[nr].open /\ \A j \in Channels : j # nr => chip'[j] = chip[j]
  BY <1>2, <1>3, Starts, TraceAssumption DEF TraceInv, TypeOK
<1>5. lost' \subseteq Channels /\ astray' \subseteq Channels
  BY <1>2 DEF Unfollowed, TraceInv, TypeOK
<1>6. CASE Skipping
  <2>1. Blind(n)
    BY <1>2, <1>4, <1>5, <1>6 DEF Blind
  <2>2. "ok" \notin {"61", "6C"}
    OBVIOUS
  <2> QED BY <1>2, <1>3, <1>6, <2>1, <2>2, SkippedPassed
<1>7. CASE ~Skipping
  <2>1. due = NoDue /\ ~orphan /\ last_cmd = None /\ \A j : ~Pending(j) /\ Ahead(j) = lchans[j]
    BY <1>7, NotSkipping
  <2>2. provoked' = provoked /\ lost' = lost /\ astray' = astray
    BY <1>2, <1>7 DEF TraceInv, TypeOK, Unfollowed
  <2>3. PICK g \in BOOLEAN : g /\ Handed(c, g, c, 0, NoFile)
    <3>1. "ok" \notin {"61", "6C"}
      OBVIOUS
    <3> QED BY <1>2, <2>1, <3>1, CapturePassed
  <2>4. last_cmd' = None /\ orphan' = FALSE /\ shown'.right /\ shown'.read = NoFile
    BY <2>3 DEF Handed
  <2>5. HeldBack' /\ PairedRight' /\ ReadsRight'
    BY <1>2, <2>4 DEF HeldBack, PairedRight, ReadsRight
  <2>6. \A j : Ahead(j)' = lchans'[j]
    BY <1>2, NoneIs DEF Ahead, Pending
  <2>7. lchans' = [lchans EXCEPT ![nr] = Closed] /\ dead' = FALSE
    <3>1. PICK t : t = Process(c, g, 0) /\ lchans' = t.lchans /\ dead' = t.dead
      BY <2>3 DEF Handed
    <3>2. c.ins = "MANAGE" /\ c.mode = "close" /\ c.nr = nr
      BY <1>1, ManageFields
    <3>3. t = ManageChannel(c, g, 0)
      BY <3>1, <3>2 DEF Process
    <3>4. t = [lchans |-> DelLchan(c.nr), dead |-> FALSE, file |-> NoFile]
      BY <2>3, <3>2, <3>3 DEF ManageChannel
    <3>5. t.lchans = DelLchan(c.nr) /\ t.dead = FALSE
      BY <3>4
    <3> QED BY <3>1, <3>2, <3>5 DEF DelLchan
  <2>8. lchans' \in [Channels -> LChanSet] /\ ~lchans'[nr].open /\ \A j \in Channels : j # nr => lchans'[j] = lchans[j]
    BY <1>3, <2>7, Starts
  <2>9. TypeOK'
    BY <1>4, <1>5, <2>2, <2>4, <2>7, <2>8 DEF TypeOK, TraceInv
  <2>10. SameChannels' /\ GoesOn'
    <3>1. \A j \in Channels : lchans[j].open = chip[j].open => lchans'[j].open = chip'[j].open
      <4>1. lchans'[nr].open = chip'[nr].open
        BY <1>2, <1>3, <2>7 DEF Shut, Closed
      <4> QED BY <1>4, <2>8, <4>1
    <3> QED BY <1>2, <2>2, <2>7, <3>1 DEF SameChannels, GoesOn, TraceInv
  <2>11. ASSUME NEW j \in Channels, chip'[j].open, lchans'[j].open
         PROVE  (j \notin lost' => Ahead(j)'.sel = chip'[j].cur) /\ (j \notin astray' => Ahead(j)'.adf = chip'[j].app)
    <3>1. chip'[j] = chip[j] /\ lchans'[j] = lchans[j] /\ Ahead(j)' = lchans[j]
      BY <1>4, <2>6, <2>8, <2>11
    <3> QED BY <1>2, <2>1, <2>2, <2>11, <3>1 DEF TraceInv, FollowsFile, FollowsApp, Open
  <2>12. FollowsFile'
    BY <2>11 DEF FollowsFile, Open
  <2>13. FollowsApp'
    BY <2>11 DEF FollowsApp, Open
  <2> QED BY <2>5, <2>9, <2>10, <2>12, <2>13 DEF TraceInv
<1> QED BY <1>6, <1>7

LEMMA AskKeeps ==
  ASSUME TraceInv, NEW n \in Channels, NEW ins \in {"STATUS", "unknown"}, NEW ok \in BOOLEAN, TerminalAsks(n, ins, ok)
  PROVE  TraceInv'
<1>1. PICK c : c = Cmd(ins, n, "", <<>>, 0)
  OBVIOUS
<1>2. PICK sw : sw = IF ok THEN "ok" ELSE "bad"
  OBVIOUS
<1>3. /\ ~dead /\ chip[n].open /\ due' = NoDue /\ chip' = chip
      /\ Capture(c, sw, c, 0, NoFile) /\ provoked' = (provoked \/ Skipping \/ ~ok \/ ins = "unknown")
      /\ lost' = lost \cup Unfollowed(n) /\ astray' = astray \cup Unfollowed(n)
  BY <1>1, <1>2 DEF TerminalAsks, Exchange
<1>4. n \in Open /\ c.cla = ClaOf(n) /\ c.ins = ins
  BY <1>1, <1>3 DEF Open, Cmd
<1>5. lost' \subseteq Channels /\ astray' \subseteq Channels
  BY <1>3 DEF Unfollowed, TraceInv, TypeOK
<1>6. sw \notin {"61", "6C"} /\ (sw = "ok" <=> ok)
  BY <1>2
<1>7. CASE Skipping
  <2>1. Blind(n)
    BY <1>3, <1>5, <1>7 DEF Blind, TraceInv, TypeOK
  <2> QED BY <1>3, <1>4, <1>6, <1>7, <2>1, SkippedPassed
<1>8. CASE ~Skipping
  <2>1. due = NoDue /\ ~orphan /\ last_cmd = None /\ \A j : ~Pending(j) /\ Ahead(j) = lchans[j]
    BY <1>8, NotSkipping
  <2>2. lost' = lost /\ astray' = astray /\ provoked' \in BOOLEAN /\ (provoked => provoked')
    BY <1>3, <1>8 DEF TraceInv, TypeOK, Unfollowed
  <2>3. PICK g \in BOOLEAN : (g <=> sw = "ok") /\ Handed(c, g, c, 0, NoFile)
    BY <1>3, <1>6, <2>1, CapturePassed
  <2>4. last_cmd' = None /\ orphan' = FALSE /\ shown'.right /\ shown'.read = NoFile
    BY <2>3 DEF Handed
  <2>5. HeldBack' /\ PairedRight' /\ ReadsRight'
    BY <1>3, <2>4 DEF HeldBack, PairedRight, ReadsRight
  <2>6. lchans' = lchans /\ (dead' = TRUE \/ dead' = FALSE) /\ (dead' => ~(ins = "STATUS" /\ lchans[n].open /\ g))
    <3>1. PICK t : t = Process(c, g, 0) /\ lchans' = t.lchans /\ dead' = t.dead
      BY <2>3 DEF Handed
    <3>2. LchanNrFromCla(c.cla) = n
      BY <1>4, ClaFacts
    <3>3. CASE ins = "STATUS"
      <4>1. CASE lchans[n].open /\ g
        <5>1. t = [lchans |-> lchans, dead |-> FALSE, file |-> NoFile]
          BY <1>4, <3>1, <3>2, <3>3, <4>1 DEF Process
        <5>2. t.lchans = lchans /\ t.dead = FALSE
          BY <5>1
        <5> QED BY <3>1, <5>2
      <4>2. CASE ~(lchans[n].open /\ g)
        <5>1. t = Fails
          BY <1>4, <3>1, <3>2, <3>3, <4>2 DEF Process
        <5>2. t.lchans = lchans /\ t.dead = TRUE
          BY <5>1 DEF Fails
        <5> QED BY <3>1, <4>2, <5>2
      <4> QED BY <4>1, <4>2
    <3>4. CASE ins = "unknown"
      <4>1. t = Fails
        BY <1>4, <3>1, <3>4 DEF Process
      <4>2. t.lchans = lchans /\ t.dead = TRUE
        BY <4>1 DEF Fails
      <4> QED BY <3>1, <3>4, <4>2
    <3> QED BY <3>3, <3>4
  <2>7. dead' \in BOOLEAN /\ (dead' => provoked')
    <3>1. ASSUME ins = "STATUS", g, ~lchans[n].open PROVE provoked
      BY <1>3, <3>1 DEF TraceInv, SameChannels
    <3> QED BY <1>3, <1>6, <2>2, <2>3, <2>6, <3>1
  <2>8. \A j \in Channels : Ahead(j)' = lchans[j]
    BY <1>3, <2>6, NoneIs DEF Ahead, Pending
  <2>9. SameChannels' /\ FollowsFile' /\ FollowsApp' /\ GoesOn'
    BY <1>3, <1>8, <2>2, <2>6, <2>7, <2>8, SteadyKeeps
  <2>10. TypeOK'
    BY <1>3, <2>2, <2>4, <2>6, <2>7 DEF TypeOK, TraceInv
  <2> QED BY <2>5, <2>9, <2>10 DEF TraceInv
<1> QED BY <1>7, <1>8

\* Where a card and a tracer start.
Restarted(x, y) == /\ x = [n \in Channels |-> IF n = 0 THEN Fresh ELSE Shut]
                   /\ y = [n \in Channels |-> IF n = 0 THEN NewLchan ELSE Closed]

LEMMA RestartedIs ==
  ASSUME NEW x, NEW y, Restarted(x, y)
  PROVE  /\ x \in [Channels -> ChipSet] /\ x[0].open /\ y \in [Channels -> LChanSet]
         /\ \A n \in Channels : /\ y[n].open = x[n].open
                                /\ x[n].open => y[n].sel = x[n].cur /\ y[n].adf = x[n].app
<1>1. 0 \in Channels
  BY TraceAssumption
<1>2. \A n \in Channels : x[n] = (IF n = 0 THEN Fresh ELSE Shut) /\ y[n] = (IF n = 0 THEN NewLchan ELSE Closed)
  BY DEF Restarted
<1>3. x \in [Channels -> ChipSet] /\ y \in [Channels -> LChanSet]
  BY <1>2, Starts DEF Restarted
<1>4. ASSUME NEW n \in Channels PROVE y[n].open = x[n].open /\ (x[n].open => y[n].sel = x[n].cur /\ y[n].adf = x[n].app)
  <2>1. CASE n = 0
    <3>1. x[n] = Fresh /\ y[n] = NewLchan
      BY <1>2, <2>1
    <3>2. Fresh.open = NewLchan.open /\ NewLchan.sel = Fresh.cur /\ NewLchan.adf = Fresh.app
      BY DEF Fresh, NewLchan
    <3> QED BY <3>1, <3>2
  <2>2. CASE n # 0
    <3>1. x[n] = Shut /\ y[n] = Closed
      BY <1>2, <2>2
    <3>2. Shut.open = Closed.open /\ ~Shut.open
      BY DEF Shut, Closed
    <3> QED BY <3>1, <3>2
  <2> QED BY <2>1, <2>2
<1>5. x[0].open
  BY <1>1, <1>2, Starts
<1> QED BY <1>3, <1>4, <1>5

LEMMA ResetKeeps ==
  ASSUME TraceInv, CardReset
  PROVE  TraceInv'
<1>1. /\ ~dead /\ due' = NoDue /\ orphan' = Skipping /\ provoked' = (provoked \/ Skipping) /\ shown' = NotShown
      /\ lost' = (IF Skipping THEN Channels ELSE {}) /\ astray' = (IF Skipping THEN Channels ELSE {}) /\ last_cmd' = last_cmd /\ dead' = dead
      /\ Restarted(chip', lchans')
  BY DEF CardReset, Exchange, Restarted
<1>2. /\ chip' \in [Channels -> ChipSet] /\ chip'[0].open /\ lchans' \in [Channels -> LChanSet]
      /\ \A n \in Channels : /\ lchans'[n].open = chip'[n].open
                             /\ chip'[n].open => lchans'[n].sel = chip'[n].cur /\ lchans'[n].adf = chip'[n].app
  BY <1>1, RestartedIs
<1>3. Skipping \in BOOLEAN
  BY DEF TraceInv, TypeOK, Skipping
<1>4. TypeOK'
  BY <1>1, <1>2, <1>3 DEF TypeOK, TraceInv
<1>5. Skipping <=> last_cmd # None
  <2>1. due # NoDue => last_cmd = due.cmd /\ due.cmd \in SelectCmds \cup ReadCmds
    BY DEF TraceInv, HeldBack
  <2>2. due # NoDue => last_cmd # None
    BY <2>1, CommandsAreSome
  <2>3. due = NoDue => (orphan <=> last_cmd # None)
    BY DEF TraceInv, HeldBack
  <2> QED BY <2>2, <2>3 DEF Skipping
<1>6. HeldBack'
  BY <1>1, <1>5 DEF HeldBack, TraceInv
<1>7. \A n : Ahead(n)' = lchans'[n]
  BY <1>1, NoneIs DEF Ahead, Pending
<1>8. SameChannels' /\ GoesOn'
  BY <1>1, <1>2 DEF SameChannels, GoesOn
<1>9. FollowsFile' /\ FollowsApp'
  BY <1>2, <1>7 DEF FollowsFile, FollowsApp, Open
<1>10. PairedRight' /\ ReadsRight'
  BY <1>1 DEF PairedRight, ReadsRight, NotShown
<1> QED BY <1>4, <1>6, <1>8, <1>9, <1>10 DEF TraceInv

LEMMA InitKeeps == TraceInit => TraceInv
<1> SUFFICES ASSUME TraceInit PROVE TraceInv
  OBVIOUS
<1>1. Restarted(chip, lchans) /\ due = NoDue /\ last_cmd = None /\ dead = FALSE /\ orphan = FALSE /\ provoked = FALSE
      /\ lost = {} /\ astray = {} /\ shown = NotShown
  BY DEF TraceInit, Restarted
<1>2. /\ chip \in [Channels -> ChipSet] /\ chip[0].open /\ lchans \in [Channels -> LChanSet]
      /\ \A n \in Channels : /\ lchans[n].open = chip[n].open
                             /\ chip[n].open => lchans[n].sel = chip[n].cur /\ lchans[n].adf = chip[n].app
  BY <1>1, RestartedIs
<1>3. \A n : Ahead(n) = lchans[n]
  BY <1>1, NoneIs DEF Ahead, Pending
<1>4. TypeOK /\ HeldBack
  BY <1>1, <1>2 DEF TypeOK, HeldBack
<1>5. SameChannels /\ GoesOn /\ FollowsFile /\ FollowsApp
  BY <1>1, <1>2, <1>3 DEF SameChannels, GoesOn, FollowsFile, FollowsApp, Open
<1>6. PairedRight /\ ReadsRight
  BY <1>1 DEF PairedRight, ReadsRight, NotShown
<1> QED BY <1>4, <1>5, <1>6 DEF TraceInv

LEMMA TraceKeeps == TraceInv /\ [TraceNext]_traceVars => TraceInv'
<1> SUFFICES ASSUME TraceInv, [TraceNext]_traceVars PROVE TraceInv'
  OBVIOUS
<1>1. ASSUME NEW n \in Channels, NEW s \in Selects, NEW asks \in BOOLEAN, NEW granted \in BOOLEAN, TerminalSelects(n, s, asks, granted) PROVE TraceInv'
  BY <1>1, SelectKeeps
<1>2. ASSUME NEW n \in Channels, NEW sfi \in Sfis, NEW w \in BOOLEAN, TerminalReads(n, sfi, w) PROVE TraceInv'
  BY <1>2, ReadingKeeps
<1>3. ASSUME NEW n \in Channels, NEW nr \in Channels, TerminalOpens(n, nr) PROVE TraceInv'
  BY <1>3, OpenKeeps
<1>4. ASSUME NEW n \in Channels, NEW nr \in Channels, TerminalCloses(n, nr) PROVE TraceInv'
  BY <1>4, CloseKeeps
<1>5. ASSUME NEW n \in Channels, NEW ok \in BOOLEAN, TerminalAsks(n, "STATUS", ok) PROVE TraceInv'
  <2>1. "STATUS" \in {"STATUS", "unknown"}
    OBVIOUS
  <2> QED BY <1>5, <2>1, AskKeeps
<1>6. ASSUME NEW n \in Channels, TerminalAsks(n, "unknown", FALSE) PROVE TraceInv'
  <2>1. \E ok \in BOOLEAN : TerminalAsks(n, "unknown", ok)
    BY <1>6
  <2>2. "unknown" \in {"STATUS", "unknown"}
    OBVIOUS
  <2> QED BY <2>1, <2>2, AskKeeps
<1>7. ASSUME TerminalFetches PROVE TraceInv'
  BY <1>7, FetchKeeps
<1>8. ASSUME CardReset PROVE TraceInv'
  BY <1>8, ResetKeeps
<1>9. ASSUME UNCHANGED traceVars PROVE TraceInv'
  BY <1>9 DEF TraceInv, traceVars, TypeOK, HeldBack, SameChannels, FollowsFile, FollowsApp, GoesOn, PairedRight, ReadsRight, Ahead, Pending, Open
<1> QED BY <1>1, <1>2, <1>3, <1>4, <1>5, <1>6, <1>7, <1>8, <1>9 DEF TraceNext

\* What pySim-trace shows is what went over the line, for any number of
\* channels, any files and any length of the capture.
THEOREM TracerIsRight == TraceSpec => []TraceIsRight
<1>1. TraceSpec => []TraceInv
  BY InitKeeps, TraceKeeps, PTL DEF TraceSpec
<1>2. TraceInv => TraceIsRight
  BY InvImplies
<1> QED BY <1>1, <1>2, PTL
=============================================================================
