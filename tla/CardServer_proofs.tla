-------------------------- MODULE CardServer_proofs --------------------------
(***************************************************************************)
(* The server's answers are about the file that was asked for, for every   *)
(* tree, card, number of threads and set of requests.  Two threads leave   *)
(* the software and the card at different files and call stacks of theirs  *)
(* behind, so the invariant of the channel (RuntimeLchan_proofs) does not  *)
(* hold here.  What holds instead is said of one thread: the frames on its *)
(* stack name files of the profile whatever the others do, and while it is *)
(* alone in the channel, its first SELECT, of the MF, brings the software  *)
(* and the card together again, and each of the next keeps them together   *)
(* and goes one name down its path, or the call ends with an error.        *)
(***************************************************************************)
EXTENDS CardServer, SequenceTheorems, TLAPS

P == INSTANCE RuntimeLchan_proofs

\* The calls of a thread: only the innermost may be in the hop loop.
Calling   == {"select_file", "goto"}
QuietSet  == [op : {"select", "reraise"}, file : {NoFile}, ids : Seq(STRING)]
             \cup [op : {"try"} \cup Calling, file : Profile, ids : Seq(STRING)]
FrameSet  == QuietSet \cup [op : {"hop"}, file : Profile, ids : Seq(STRING)]
StackSet  == {s \in Seq(FrameSet) : s # <<>> => Tail(s) \in Seq(QuietSet)}

\* What belongs to a thread, and what it sees.
Mine     == [stack |-> stack, hops |-> hops, at |-> at, raised |-> raised]
Own(t)   == IF running = t THEN Mine
            ELSE [stack |-> saved[t][1], hops |-> saved[t][2], at |-> saved[t][3], raised |-> saved[t][5]]
See(own) == [stack |-> own.stack, hops |-> own.hops, at |-> own.at, raised |-> own.raised,
             sel |-> sel, cur |-> cur, alive |-> alive]
Here     == See(Mine)
View(t)  == See(Own(t))

IsTop(s, op) == s # <<>> /\ Head(s).op = op

Typed(x) == /\ x.stack \in StackSet /\ x.hops \in Seq(Profile) /\ x.raised \in BOOLEAN
            /\ IsTop(x.stack, "hop") => x.at \in Profile
Rests(x) == x.stack = <<>> /\ ~x.raised

\* The select() of one name is on its way to f, or will raise: it is asked for,
\* select_file() is at work below its except clause, or leaves an application
\* through another, it has returned; the except clause is at work; it is over.
Asked(x, f)    == /\ Len(x.stack) = 1 /\ IsTop(x.stack, "select") /\ ~x.raised
                  /\ Lookup(Profile, x.sel, x.stack[1].ids[1]) \subseteq {f}
WayEnds(x, f)  == IF x.hops = <<>> THEN x.at = f ELSE x.hops[Len(x.hops)] = f
AtWork(x, f)   == /\ Len(x.stack) = 2 /\ x.stack[2].op = "try"
                  /\ x.stack[1].op \in Calling \cup {"hop"} /\ x.stack[1].file = f
                  /\ x.stack[1].op = "hop" /\ ~x.raised => WayEnds(x, f)
Escaping(x, f) == LET n == Len(x.stack) IN
                  n >= 3 /\ x.stack[n].op = "try" /\ x.stack[n - 1].op = "goto" /\ x.stack[n - 1].file = f
Tried(x, f)    == Len(x.stack) = 1 /\ IsTop(x.stack, "try") /\ (~x.raised => x.sel = f)
Doomed(x)      == x.stack # <<>> /\ x.stack[Len(x.stack)].op = "reraise"
Over(x, f)     == x.stack = <<>> /\ (~x.raised => x.sel = f)
Aims(x, f)     == Asked(x, f) \/ AtWork(x, f) \/ Escaping(x, f) \/ Tried(x, f) \/ Doomed(x) \/ Over(x, f)

\* The first of them is to the MF, from wherever the card is.
Homing(x) ==
  /\ Len(x.stack) = 2 /\ x.stack[1].op = "hop" /\ x.stack[2].op = "try" /\ ~x.raised =>
       x.hops = <<MF>> \/ (x.hops = <<>> /\ x.cur = MF)
  /\ x.stack = <<>> \/ (Len(x.stack) = 1 /\ x.stack[1].op = "try") => (~x.raised => x.cur = MF)

\* During the others the software and the card are at one file, as long as the
\* link holds; when the link is lost, what did not fail had been done before.
Together(x) ==
  /\ IsTop(x.stack, "hop") => P!IsChainFrom(x.at, x.hops)
  /\ x.alive => x.cur = IF IsTop(x.stack, "hop") THEN x.at ELSE x.sel
  /\ x.stack = <<>> \/ IsTop(x.stack, "try") => (~x.raised => x.cur = x.sel)
  /\ IsTop(x.stack, "hop") /\ x.hops = <<>> /\ ~x.raised => x.cur = x.at

Shared == tree = Profile /\ sel \in Profile /\ cur \in OnCard /\ alive \in BOOLEAN
-----------------------------------------------------------------------------
(* The channel under the threads.                                          *)

LEMMA SameTree ==
  /\ P!NoFile = NoFile
  /\ \A f, n : P!Prefix(f, n) = Prefix(f, n)
  /\ \A f : P!Name(f) = Name(f) /\ P!Ids(f) = Ids(f)
  /\ \A f : P!Parent(f) = Parent(f) /\ P!Dirs(f) = Dirs(f) /\ P!Cwd(f) = Cwd(f)
  /\ \A f : P!FidScope(f) = FidScope(f) /\ \A id : P!CardFind(f, id) = CardFind(f, id)
<1>1. \A f, n : P!Prefix(f, n) = Prefix(f, n)
  BY DEF P!Prefix, Prefix
<1>2. \A f : P!Name(f) = Name(f)
  BY DEF P!Name, Name
<1>3. \A f : P!Ids(f) = Ids(f)
  BY <1>2 DEF P!Ids, Ids
<1>4. \A f : P!Parent(f) = Parent(f) /\ P!Dirs(f) = Dirs(f)
  BY <1>1 DEF P!Parent, Parent, P!Dirs, Dirs
<1>5. \A f : P!Cwd(f) = Cwd(f)
  BY <1>4 DEF P!Cwd, Cwd
<1>6. \A f : P!FidScope(f) = FidScope(f)
  BY <1>4, <1>5 DEF P!FidScope, FidScope
<1>7. \A f, id : P!CardFind(f, id) = CardFind(f, id)
  BY <1>6 DEF P!CardFind, CardFind
<1>8. P!NoFile = NoFile
  BY DEF P!NoFile, NoFile
<1> QED BY <1>1, <1>2, <1>3, <1>4, <1>5, <1>6, <1>7, <1>8

LEMMA SameChanTree ==
  /\ Chan!NoFile = NoFile
  /\ \A f : Chan!Name(f) = Name(f)
  /\ \A f, g : Chan!BuildSelectPathTo(f, g) = P!BuildSelectPathTo(f, g)
  /\ \A t, f, id : Chan!Lookup(t, f, id) = Lookup(t, f, id)
  /\ \A f, id : Chan!CardFind(f, id) = CardFind(f, id)
<1>1. \A f, n : Chan!Prefix(f, n) = Prefix(f, n)
  BY DEF Chan!Prefix, Prefix
<1>2. \A f : Chan!Name(f) = Name(f)
  BY DEF Chan!Name, Name
<1>3. \A f : Chan!Ids(f) = Ids(f)
  BY <1>2 DEF Chan!Ids, Ids
<1>4. \A f : Chan!Parent(f) = Parent(f) /\ Chan!Dirs(f) = Dirs(f)
  BY <1>1 DEF Chan!Parent, Parent, Chan!Dirs, Dirs
<1>5. \A f : Chan!Cwd(f) = Cwd(f)
  BY <1>4 DEF Chan!Cwd, Cwd
<1>6. \A t, f, id : Chan!Lookup(t, f, id) = Lookup(t, f, id)
  BY <1>3, <1>4, <1>5 DEF Chan!Lookup, Lookup, Chan!Selectables, Selectables
<1>7. \A f, id : Chan!CardFind(f, id) = CardFind(f, id)
  BY <1>4, <1>5 DEF Chan!CardFind, CardFind, Chan!FidScope, FidScope
<1>8. \A f, g : Chan!CommonDepth(f, g) = P!CommonDepth(f, g)
  BY <1>1, SameTree DEF Chan!CommonDepth, P!CommonDepth
<1>9. \A f, g : Chan!UpDown(f, g) = P!UpDown(f, g)
  BY <1>1, <1>8, SameTree DEF Chan!UpDown, P!UpDown
<1>10. \A f : Chan!ClipPath(f) = P!ClipPath(f)
  BY DEF Chan!ClipPath, P!ClipPath
<1>11. \A f, g : Chan!BuildSelectPathTo(f, g) = P!BuildSelectPathTo(f, g)
  BY <1>9, <1>10 DEF Chan!BuildSelectPathTo, P!BuildSelectPathTo
<1>12. Chan!NoFile = NoFile
  BY DEF Chan!NoFile, NoFile
<1> QED BY <1>2, <1>6, <1>7, <1>11, <1>12

LEMMA PathsAreShaped == Paths \subseteq Seq(STRING) \ {<<>>}
<1>1. ASSUME NEW f \in Files PROVE <<Name(f)>> \in Seq(STRING) \ {<<>>}
  <2>1. f \in Seq(STRING) /\ Len(f) \in 1..Len(f)
    BY TreeShape
  <2>2. Name(f) \in STRING
    BY <2>1 DEF Name
  <2> QED BY <2>2
<1> QED BY <1>1 DEF Paths, Names

LEMMA NameByName ==
  ASSUME NEW f \in Profile
  PROVE  /\ f \in Seq(STRING) /\ Len(f) >= 1 /\ Prefix(f, 1) = MF /\ Prefix(f, Len(f)) = f
         /\ \A n \in 1..Len(f) : Prefix(f, n) \in Profile /\ Name(Prefix(f, n)) = f[n]
         /\ \A n \in 2..Len(f) : Parent(Prefix(f, n)) = Prefix(f, n - 1) /\ Prefix(f, n) # MF
BY TreeShape, KnownShape, FidUnique, PathsAreShaped, SameTree, P!NameByName

LEMMA PathLeads ==
  ASSUME NEW here \in Profile, NEW target \in Profile
  PROVE  /\ P!BuildSelectPathTo(here, target) \in Seq(Profile) /\ P!BuildSelectPathTo(here, target) # <<>>
         /\ P!BuildSelectPathTo(here, target)[Len(P!BuildSelectPathTo(here, target))] = target
         /\ P!IsChainFrom(here, P!BuildSelectPathTo(here, target))
         /\ target = MF => P!BuildSelectPathTo(here, target) = <<MF>>
<1>1. target = MF => P!BuildSelectPathTo(here, target) = <<MF>>
  BY DEF P!BuildSelectPathTo
<1> QED BY <1>1, TreeShape, KnownShape, FidUnique, PathsAreShaped, SameTree, P!PathLeads

LEMMA WayGoesOn ==
  ASSUME NEW f, NEW path \in Seq(Profile), path # <<>>
  PROVE  /\ Head(path) \in Profile /\ Tail(path) \in Seq(Profile)
         /\ path[Len(path)] = IF Tail(path) = <<>> THEN Head(path) ELSE Tail(path)[Len(Tail(path))]
         /\ P!IsChainFrom(f, path) => P!Near(f, Head(path)) /\ P!IsChainFrom(Head(path), Tail(path))
BY TreeShape, KnownShape, FidUnique, PathsAreShaped, SameTree, P!WayGoesOn

\* The card goes where the hop says, or refuses.
LEMMA HopFinds ==
  ASSUME NEW g \in Profile, cur \in OnCard, P!Near(cur, g), NEW h \in Chan!Answers(g)
  PROVE  h = g
<1>1. CASE g \in ADFs
  BY <1>1 DEF Chan!Answers
<1>2. CASE g \notin ADFs
  <2>1. h \in CardFind(cur, Fid[g])
    BY <1>2, SameChanTree DEF Chan!Answers
  <2> QED BY <1>2, <2>1, TreeShape, KnownShape, FidUnique, PathsAreShaped, SameTree, P!HopFinds
<1> QED BY <1>1, <1>2

LEMMA AnswersAreThere ==
  ASSUME NEW g, NEW h \in Chan!Answers(g)
  PROVE  h \in OnCard
BY SameChanTree DEF Chan!Answers, CardFind
-----------------------------------------------------------------------------
(* One step of the thread inside the channel.                              *)

LEMMA Views ==
  /\ Typed(Mine) <=> /\ stack \in StackSet /\ hops \in Seq(Profile) /\ raised \in BOOLEAN
                     /\ IsTop(stack, "hop") => at \in Profile
  /\ Mine.stack = stack /\ Mine.hops = hops /\ Mine.at = at /\ Mine.raised = raised
  /\ Here.stack = stack /\ Here.hops = hops /\ Here.at = at /\ Here.raised = raised
  /\ Here.sel = sel /\ Here.cur = cur /\ Here.alive = alive
BY DEF Typed, Mine, Here, See

LEMMA ViewsNext ==
  /\ Typed(Mine') <=> /\ stack' \in StackSet /\ hops' \in Seq(Profile) /\ raised' \in BOOLEAN
                      /\ IsTop(stack', "hop") => at' \in Profile
  /\ Mine'.stack = stack' /\ Mine'.hops = hops' /\ Mine'.at = at' /\ Mine'.raised = raised'
  /\ Here'.stack = stack' /\ Here'.hops = hops' /\ Here'.at = at' /\ Here'.raised = raised'
  /\ Here'.sel = sel' /\ Here'.cur = cur' /\ Here'.alive = alive'
BY DEF Typed, Mine, Here, See

LEMMA StackFacts ==
  ASSUME NEW s \in StackSet, s # <<>>
  PROVE  /\ Head(s) \in FrameSet /\ Tail(s) \in Seq(QuietSet) /\ s[1] = Head(s)
         /\ Len(s) \in Nat \ {0} /\ Len(Tail(s)) = Len(s) - 1
         /\ \A i \in 1..(Len(s) - 1) : Tail(s)[i] = s[i + 1]
BY DEF StackSet

Pushed(s, r) == \/ r = Tail(s)
                \/ \E a \in FrameSet : r = <<a>> \o Tail(s)
                \/ \E a \in FrameSet, b \in QuietSet : r = <<a, b>> \o Tail(s)

LEMMA StepShape ==
  ASSUME Shared, Typed(Mine), Chan!Step
  PROVE  /\ stack # <<>> /\ Pushed(stack, stack')
         /\ hops' \in Seq(Profile) /\ raised' \in BOOLEAN
         /\ IsTop(stack', "hop") => at' \in Profile
         /\ Shared' /\ alive' = alive
<1>1. stack # <<>>
  BY DEF Chan!Step, Chan!PathStep, Chan!SelectKnown, Chan!SelectUnknown, Chan!TryReturn, Chan!GoBack,
         Chan!Reraise, Chan!Escape, Chan!StartHops, Chan!HopOk, Chan!HopRefused, Chan!HopsDone, Chan!HopLost,
         Chan!ProbeOk, Chan!ProbeFailed, Chan!Top
<1>2. /\ stack \in StackSet /\ hops \in Seq(Profile) /\ raised \in BOOLEAN
      /\ (Head(stack).op = "hop" => at \in Profile)
  BY <1>1, Views DEF IsTop
<1>3. /\ Head(stack) \in FrameSet /\ Tail(stack) \in Seq(QuietSet)
      /\ tree = Profile /\ sel \in Profile /\ cur \in OnCard /\ alive \in BOOLEAN
  BY <1>1, <1>2, StackFacts DEF Shared
<1>4. \A f : f \in QuietSet => f.op # "hop"
  BY DEF QuietSet, Calling
<1>5. ~IsTop(Tail(stack), "hop")
  BY <1>3, <1>4 DEF IsTop
<1> DEFINE Goal == /\ Pushed(stack, stack')
                   /\ hops' \in Seq(Profile) /\ raised' \in BOOLEAN
                   /\ IsTop(stack', "hop") => at' \in Profile
                   /\ Shared' /\ alive' = alive
<1> USE DEF Chan!Top, Chan!Return, Chan!Become, Chan!Call, Chan!Frame, Chan!lchan, Chan!card, Chan!loop
<1>6. CASE Chan!PathStep \/ Chan!ProbeOk \/ Chan!ProbeFailed
  BY <1>3, <1>6 DEF Chan!PathStep, Chan!ProbeOk, Chan!ProbeFailed, FrameSet, QuietSet, Calling
<1>7. CASE Chan!SelectKnown
  <2>1. PICK target \in Lookup(tree, sel, Head(stack).ids[1]) :
          stack' = <<[op |-> "select_file", file |-> target, ids |-> <<>>],
                     [op |-> "try", file |-> sel, ids |-> <<>>]>> \o Tail(stack)
    BY <1>7, SameChanTree DEF Chan!SelectKnown
  <2>2. target \in Profile
    BY <1>3 DEF Lookup, Selectables
  <2>3. /\ [op |-> "select_file", file |-> target, ids |-> <<>>] \in FrameSet
        /\ [op |-> "try", file |-> sel, ids |-> <<>>] \in QuietSet
    BY <1>3, <2>2 DEF FrameSet, QuietSet, Calling
  <2>4. Pushed(stack, stack')
    BY <2>1, <2>3 DEF Pushed
  <2>5. ~IsTop(stack', "hop")
    BY <2>1 DEF IsTop
  <2> QED BY <1>1, <1>2, <1>3, <1>7, <2>4, <2>5 DEF Chan!SelectKnown, Shared
<1>8. CASE Chan!SelectUnknown
  <2>1. stack' = <<[op |-> "try", file |-> sel, ids |-> <<>>]>> \o Tail(stack) /\ raised' = TRUE
    BY <1>8, SameChanTree DEF Chan!SelectUnknown, HexIds
  <2>2. [op |-> "try", file |-> sel, ids |-> <<>>] \in FrameSet
    BY <1>3 DEF FrameSet, QuietSet, Calling
  <2>3. Pushed(stack, stack') /\ ~IsTop(stack', "hop")
    BY <2>1, <2>2 DEF Pushed, IsTop
  <2> QED BY <1>1, <1>2, <1>3, <1>8, <2>1, <2>3 DEF Chan!SelectUnknown, Shared
<1>9. CASE Chan!TryReturn \/ Chan!Reraise
  BY <1>1, <1>2, <1>3, <1>5, <1>9 DEF Chan!TryReturn, Chan!Reraise, Pushed, Shared
<1>10. CASE Chan!GoBack
  <2>1. Head(stack).file \in Profile
    BY <1>3, <1>10 DEF Chan!GoBack, FrameSet, QuietSet, Calling
  <2>2. stack' = <<[op |-> "select_file", file |-> Head(stack).file, ids |-> <<>>],
                   [op |-> "reraise", file |-> NoFile, ids |-> <<>>]>> \o Tail(stack)
    BY <1>10, SameChanTree DEF Chan!GoBack
  <2>3. /\ [op |-> "select_file", file |-> Head(stack).file, ids |-> <<>>] \in FrameSet
        /\ [op |-> "reraise", file |-> NoFile, ids |-> <<>>] \in QuietSet
    BY <1>3, <2>1 DEF FrameSet, QuietSet, Calling
  <2>4. Pushed(stack, stack') /\ ~IsTop(stack', "hop")
    BY <2>2, <2>3 DEF Pushed, IsTop
  <2> QED BY <1>1, <1>2, <1>3, <1>10, <2>4 DEF Chan!GoBack, Shared
<1>11. CASE Chan!Escape
  <2> DEFINE f == Head(stack).file
  <2>1. f \in Profile
    BY <1>3, <1>11 DEF Chan!Escape, FrameSet, QuietSet, Calling
  <2>2. \/ /\ stack' = <<[op |-> "select", file |-> NoFile, ids |-> <<Name(FirstFsADF)>>],
                         [op |-> "goto", file |-> f, ids |-> <<>>]>> \o Tail(stack)
           /\ FsADFs # {}
        \/ stack' = <<[op |-> "goto", file |-> f, ids |-> <<>>]>> \o Tail(stack)
    BY <1>11, SameChanTree DEF Chan!Escape, Chan!Trapped
  <2>3. [op |-> "goto", file |-> f, ids |-> <<>>] \in QuietSet
    BY <2>1 DEF QuietSet, Calling
  <2>4. FsADFs # {} => [op |-> "select", file |-> NoFile, ids |-> <<Name(FirstFsADF)>>] \in FrameSet
    <3>1. FsADFs # {} => FirstFsADF \in Seq(STRING) /\ Len(FirstFsADF) = 2
      BY TreeShape
    <3>2. FsADFs # {} => Name(FirstFsADF) \in STRING
      BY <3>1 DEF Name
    <3> QED BY <3>2 DEF FrameSet, QuietSet
  <2> HIDE DEF f
  <2>5. Pushed(stack, stack')
    <3>1. QuietSet \subseteq FrameSet
      BY DEF FrameSet
    <3> HIDE DEF Chan!Top, Chan!Return, Chan!Become, Chan!Call
    <3> QED BY <2>2, <2>3, <2>4, <3>1 DEF Pushed
  <2>6. ~IsTop(stack', "hop")
    BY <2>2 DEF IsTop
  <2> QED BY <1>1, <1>2, <1>3, <1>11, <2>5, <2>6 DEF Chan!Escape, Shared
<1>12. CASE Chan!StartHops
  <2> DEFINE f == Head(stack).file
  <2>1. f \in Profile
    BY <1>3, <1>12 DEF Chan!StartHops, FrameSet, QuietSet, Calling
  <2>2. CASE raised
    BY <1>1, <1>2, <1>3, <1>5, <1>12, <2>2 DEF Chan!StartHops, Pushed, Shared
  <2>3. CASE ~raised
    <3>1. stack' = <<[op |-> "hop", file |-> f, ids |-> <<>>]>> \o Tail(stack)
      BY <1>12, <2>3 DEF Chan!StartHops
    <3>2. hops' = P!BuildSelectPathTo(sel, f) /\ at' = sel
      BY <1>12, <2>3, SameChanTree DEF Chan!StartHops
    <3>3. [op |-> "hop", file |-> f, ids |-> <<>>] \in FrameSet
      BY <2>1 DEF FrameSet
    <3> HIDE DEF f
    <3>4. hops' \in Seq(Profile) /\ at' \in Profile /\ Pushed(stack, stack')
      BY <1>3, <2>1, <3>1, <3>2, <3>3, PathLeads DEF Pushed
    <3> QED BY <1>1, <1>2, <1>3, <1>12, <3>4 DEF Chan!StartHops, Shared
  <2> QED BY <2>2, <2>3
<1>13. CASE Chan!HopOk
  <2>1. Head(hops) \in Profile /\ Tail(hops) \in Seq(Profile) /\ cur' \in OnCard
    BY <1>2, <1>13, WayGoesOn, AnswersAreThere DEF Chan!HopOk
  <2>2. Pushed(stack, stack')
    <3>1. stack = <<Head(stack)>> \o Tail(stack)
      BY <1>1, <1>2 DEF StackSet
    <3>2. stack' = stack
      BY <1>13 DEF Chan!HopOk
    <3> QED BY <1>3, <3>1, <3>2 DEF Pushed
  <2> QED BY <1>1, <1>2, <1>3, <1>13, <2>1, <2>2 DEF Chan!HopOk, Shared
<1>14. CASE Chan!HopRefused
  <2>1. Pushed(stack, stack')
    <3>1. stack = <<Head(stack)>> \o Tail(stack)
      BY <1>1, <1>2 DEF StackSet
    <3>2. stack' = stack
      BY <1>14 DEF Chan!HopRefused
    <3> QED BY <1>3, <3>1, <3>2 DEF Pushed
  <2> QED BY <1>1, <1>2, <1>3, <1>14, <2>1 DEF Chan!HopRefused, Shared
<1>15. CASE Chan!HopsDone
  BY <1>1, <1>2, <1>3, <1>5, <1>15 DEF Chan!HopsDone, Chan!SelectPost, Pushed, Shared
<1>16. CASE Chan!HopLost
  BY <1>1, <1>2, <1>3, <1>5, <1>16 DEF Chan!HopLost, Pushed, Shared
<1>17. Goal
  BY <1>6, <1>7, <1>8, <1>9, <1>10, <1>11, <1>12, <1>13, <1>14, <1>15, <1>16 DEF Chan!Step
<1> QED BY <1>1, <1>17

LEMMA PushedFacts ==
  ASSUME NEW s \in StackSet, s # <<>>, NEW r, Pushed(s, r)
  PROVE  /\ r \in StackSet
         /\ Len(s) >= 2 => r # <<>> /\ r[Len(r)] = s[Len(s)]
         /\ Len(s) >= 3 => Len(r) >= 2 /\ r[Len(r) - 1] = s[Len(s) - 1]
         /\ r = Tail(s) => Len(r) = Len(s) - 1
<1> DEFINE n == Len(s)
           w == Tail(s)
           Ends(q) == /\ Len(w) >= 1 => q # <<>> /\ q[Len(q)] = w[Len(w)]
                      /\ Len(w) >= 2 => Len(q) >= 2 /\ q[Len(q) - 1] = w[Len(w) - 1]
<1>1. /\ w \in Seq(QuietSet) /\ n \in Nat \ {0} /\ Len(w) = n - 1
      /\ \A i \in 1..(n - 1) : w[i] = s[i + 1]
  BY StackFacts
<1>2. /\ n >= 2 => Len(w) >= 1 /\ w[Len(w)] = s[n]
      /\ n >= 3 => Len(w) >= 2 /\ w[Len(w) - 1] = s[n - 1]
  <2>1. n >= 2 => n - 1 \in 1..(n - 1) /\ (n - 1) + 1 = n
    BY <1>1
  <2>2. n >= 3 => n - 2 \in 1..(n - 1) /\ (n - 2) + 1 = n - 1 /\ (n - 1) - 1 = n - 2
    BY <1>1
  <2> QED BY <1>1, <2>1, <2>2
<1>3. Pushed(s, r) <=> \/ r = w
                       \/ \E a \in FrameSet : r = <<a>> \o w
                       \/ \E a \in FrameSet, b \in QuietSet : r = <<a, b>> \o w
  BY DEF Pushed
<1> HIDE DEF n, w
<1>4. w \in Seq(FrameSet) /\ (w # <<>> => Tail(w) \in Seq(QuietSet)) /\ Len(w) \in Nat
  BY <1>1 DEF FrameSet
<1>5. w \in StackSet
  BY <1>4 DEF StackSet
<1>6. ASSUME NEW a \in FrameSet, r = <<a>> \o w PROVE r \in StackSet /\ Ends(r)
  <2>1. /\ r \in Seq(FrameSet) /\ Len(r) = Len(w) + 1 /\ r # <<>>
        /\ \A i \in 1..Len(w) : r[i + 1] = w[i]
    BY <1>4, <1>6
  <2>2. Tail(r) = w
    BY <1>4, <1>6
  <2>3. Len(w) >= 1 => r[Len(r)] = w[Len(w)]
    <3>1. Len(w) >= 1 => Len(w) \in 1..Len(w)
      BY <1>4
    <3> QED BY <2>1, <3>1
  <2>4. Len(w) >= 2 => Len(r) >= 2 /\ r[Len(r) - 1] = w[Len(w) - 1]
    <3>1. Len(w) >= 2 => Len(w) - 1 \in 1..Len(w) /\ (Len(w) - 1) + 1 = (Len(w) + 1) - 1 /\ Len(w) + 1 >= 2
      BY <1>4
    <3> QED BY <2>1, <3>1
  <2>5. r \in StackSet
    BY <1>1, <2>1, <2>2 DEF StackSet
  <2> QED BY <2>1, <2>3, <2>4, <2>5
<1>7. ASSUME NEW a \in FrameSet, NEW b \in QuietSet, r = <<a, b>> \o w PROVE r \in StackSet /\ Ends(r)
  <2>0. b \in FrameSet
    BY DEF FrameSet
  <2>1. /\ r \in Seq(FrameSet) /\ Len(r) = Len(w) + 2
        /\ \A i \in 1..Len(w) : r[i + 2] = w[i]
    BY <1>4, <1>7, <2>0
  <2>2. r # <<>>
    BY <1>4, <2>1
  <2>3. Len(w) >= 1 => r[Len(r)] = w[Len(w)]
    <3>1. Len(w) >= 1 => Len(w) \in 1..Len(w)
      BY <1>4
    <3> QED BY <2>1, <3>1
  <2>4. Len(w) >= 2 => Len(r) >= 2 /\ r[Len(r) - 1] = w[Len(w) - 1]
    <3>1. Len(w) >= 2 => Len(w) - 1 \in 1..Len(w) /\ (Len(w) - 1) + 2 = (Len(w) + 2) - 1 /\ Len(w) + 2 >= 2
      BY <1>4
    <3> QED BY <2>1, <3>1
  <2>5. Tail(r) \in Seq(QuietSet)
    <3>1. Tail(r) = <<b>> \o w
      BY <1>4, <1>7, <2>0
    <3>2. <<b>> \o w \in Seq(QuietSet)
      BY <1>1
    <3> QED BY <3>1, <3>2
  <2>6. r \in StackSet
    BY <2>1, <2>5 DEF StackSet
  <2> QED BY <2>2, <2>3, <2>4, <2>6
<1>8. r \in StackSet /\ Ends(r)
  <2> HIDE DEF Ends
  <2>1. r = w => Ends(r)
    <3>1. Len(w) >= 1 => w # <<>>
      BY <1>4
    <3> QED BY <3>1 DEF Ends
  <2> QED BY <1>3, <1>5, <1>6, <1>7, <2>1
<1>9. /\ n >= 2 => r # <<>> /\ r[Len(r)] = s[n]
      /\ n >= 3 => Len(r) >= 2 /\ r[Len(r) - 1] = s[n - 1]
  BY <1>2, <1>8
<1>10. r = w => Len(r) = n - 1
  BY <1>1
<1> QED BY <1>8, <1>9, <1>10 DEF n, w

LEMMA StepTyped ==
  ASSUME Shared, Typed(Mine), Chan!Step
  PROVE  Typed(Mine') /\ Shared' /\ alive' = alive
<1>1. stack' \in StackSet
  BY StepShape, Views, PushedFacts
<1> QED BY <1>1, StepShape, ViewsNext

LEMMA WhichStep ==
  ASSUME Chan!Step
  PROVE  /\ Head(stack).op = "reraise" => Chan!Reraise
         /\ Head(stack).op = "try" => Chan!TryReturn \/ Chan!GoBack
         /\ Head(stack).op = "select" => Chan!SelectKnown \/ Chan!SelectUnknown
         /\ Head(stack).op = "select_file" => Chan!Escape
         /\ Head(stack).op = "goto" => Chan!StartHops
         /\ Head(stack).op = "hop" => Chan!HopOk \/ Chan!HopRefused \/ Chan!HopsDone \/ Chan!HopLost
BY DEF Chan!Step, Chan!PathStep, Chan!SelectKnown, Chan!SelectUnknown, Chan!TryReturn, Chan!GoBack,
       Chan!Reraise, Chan!Escape, Chan!StartHops, Chan!HopOk, Chan!HopRefused, Chan!HopsDone, Chan!HopLost,
       Chan!ProbeOk, Chan!ProbeFailed, Chan!Top

LEMMA Counting ==
  ASSUME NEW n \in Nat \ {0}
  PROVE  /\ (n = 1 \/ n >= 2) /\ (n >= 2 /\ n # 2 => n >= 3) /\ (n - 1 = 0 <=> n = 1)
         /\ (n = 1 \/ n > 1) /\ (n = 2 => n >= 2) /\ (n >= 3 => n # 1 /\ n # 2)
OBVIOUS

LEMMA OneLong ==
  ASSUME NEW x, NEW s, s = <<x>>
  PROVE  s # <<>> /\ Len(s) # 2
OBVIOUS

LEMMA EmptyIsZero ==
  ASSUME NEW S, NEW s \in Seq(S)
  PROVE  Len(s) \in Nat /\ (s = <<>> <=> Len(s) = 0)
OBVIOUS

LEMMA OneElement ==
  ASSUME NEW S, NEW s \in Seq(S)
  PROVE  /\ Len(s) = 1 => s = <<s[1]>>
         /\ Len(s) = 2 => s = <<s[1], s[2]>>
         /\ Len(s) = 3 => s = <<s[1], s[2], s[3]>>
OBVIOUS

LEMMA ShortStacks ==
  ASSUME NEW a, NEW b, NEW c
  PROVE  /\ <<a>> \o <<>> = <<a>> /\ <<a, b>> \o <<>> = <<a, b>>
         /\ <<a>> \o <<b>> = <<a, b>> /\ <<a, b>> \o <<c>> = <<a, b, c>>
<1> DEFINE S == {a, b, c}
<1>1. /\ <<a>> \in Seq(S) /\ <<a, b>> \in Seq(S) /\ <<b>> \in Seq(S) /\ <<c>> \in Seq(S) /\ <<>> \in Seq(S)
      /\ <<a, b, c>> \in Seq(S)
      /\ Len(<<a>>) = 1 /\ Len(<<b>>) = 1 /\ Len(<<c>>) = 1 /\ Len(<<a, b>>) = 2
  OBVIOUS
<1> HIDE DEF S
<1>2. <<a>> \o <<>> = <<a>> /\ <<a, b>> \o <<>> = <<a, b>>
  BY <1>1
<1>3. <<a>> \o <<b>> = <<a, b>>
  <2> DEFINE r == <<a>> \o <<b>>
  <2>1. r \in Seq(S) /\ Len(r) = 2 /\ r[1] = a /\ r[2] = b
    BY <1>1, ConcatProperties
  <2> HIDE DEF r
  <2>2. r = <<a, b>>
    BY <2>1, OneElement
  <2> QED BY <2>2 DEF r
<1>4. <<a, b>> \o <<c>> = <<a, b, c>>
  <2> DEFINE r == <<a, b>> \o <<c>>
  <2>1. r \in Seq(S) /\ Len(r) = 3 /\ r[1] = a /\ r[2] = b /\ r[3] = c
    BY <1>1, ConcatProperties
  <2> HIDE DEF r
  <2>2. r = <<a, b, c>>
    BY <2>1, OneElement
  <2> QED BY <2>2 DEF r
<1> QED BY <1>2, <1>3, <1>4

LEMMA LastFrame ==
  ASSUME NEW s \in StackSet, Len(s) = 1
  PROVE  /\ s # <<>> /\ Head(s) = s[1] /\ Tail(s) = <<>>
         /\ \A a : <<a>> \o Tail(s) = <<a>>
         /\ \A a, b : <<a, b>> \o Tail(s) = <<a, b>>
<1>0. s \in Seq(FrameSet)
  BY DEF StackSet
<1>1. s \in Seq(FrameSet) /\ s # <<>>
  <2>1. Len(s) # 0
    OBVIOUS
  <2> QED BY <1>0, <2>1, EmptyIsZero
<1>2. Head(s) = s[1] /\ Tail(s) \in Seq(QuietSet) /\ Len(Tail(s)) = Len(s) - 1 /\ Len(s) \in Nat \ {0}
  BY <1>1, StackFacts
<1>3. Len(Tail(s)) = 0
  BY <1>2, Counting
<1>4. Tail(s) = <<>>
  BY <1>2, <1>3, EmptyIsZero
<1> QED BY <1>1, <1>2, <1>4, ShortStacks

LEMMA TwoFrames ==
  ASSUME NEW s \in StackSet, Len(s) = 2
  PROVE  /\ s # <<>> /\ Head(s) = s[1] /\ Tail(s) = <<s[2]>> /\ s = <<s[1], s[2]>>
         /\ \A a : <<a>> \o Tail(s) = <<a, s[2]>>
         /\ \A a, b : <<a, b>> \o Tail(s) = <<a, b, s[2]>>
<1>0. s \in Seq(FrameSet)
  BY DEF StackSet
<1>1. s \in Seq(FrameSet) /\ s # <<>>
  <2>1. Len(s) # 0
    OBVIOUS
  <2> QED BY <1>0, <2>1, EmptyIsZero
<1>2. Head(s) = s[1] /\ Tail(s) \in Seq(QuietSet) /\ Len(Tail(s)) = 1 /\ Tail(s)[1] = s[2]
  BY <1>1, StackFacts
<1>3. Tail(s) = <<s[2]>>
  BY <1>2, OneElement
<1>4. s = <<s[1], s[2]>>
  BY <1>1, OneElement
<1>5. /\ \A a : <<a>> \o Tail(s) = <<a, s[2]>>
      /\ \A a, b : <<a, b>> \o Tail(s) = <<a, b, s[2]>>
  BY <1>3, ShortStacks
<1> QED BY <1>1, <1>2, <1>3, <1>4, <1>5

\* A thread on its way to f stays so, whichever file the software is at.
LEMMA StepAims ==
  ASSUME Shared, Typed(Mine), NEW f \in Profile, Aims(Here, f), Chan!Step
  PROVE  Aims(Here', f)
<1>1. stack \in StackSet /\ stack # <<>> /\ Pushed(stack, stack') /\ Len(stack) \in Nat \ {0}
  BY StepShape, Views, StackFacts
<1>2. /\ Len(stack) >= 2 => stack' # <<>> /\ stack'[Len(stack')] = stack[Len(stack)]
      /\ Len(stack) >= 3 => Len(stack') >= 2 /\ stack'[Len(stack') - 1] = stack[Len(stack) - 1]
      /\ stack' = Tail(stack) => Len(stack') = Len(stack) - 1
  BY <1>1, PushedFacts
<1>3. stack' \in StackSet
  BY <1>1, PushedFacts
<1> USE DEF Chan!Top, Chan!Return, Chan!Become, Chan!Call, Chan!Frame, Chan!lchan, Chan!card, Chan!loop
<1>4. CASE Doomed(Here)
  <2>1. CASE Len(stack) >= 2
    <3>1. Doomed(Here')
      BY <1>2, <1>4, <2>1, Views, ViewsNext DEF Doomed
    <3> QED BY <3>1 DEF Aims
  <2>2. CASE Len(stack) = 1
    <3>1. Head(stack).op = "reraise" /\ Tail(stack) = <<>>
      BY <1>1, <1>4, <2>2, LastFrame, Views DEF Doomed
    <3>2. stack' = <<>> /\ raised'
      BY <3>1, WhichStep DEF Chan!Reraise
    <3> QED BY <3>2, ViewsNext DEF Aims, Over
  <2>3. Len(stack) = 1 \/ Len(stack) >= 2
    BY <1>1, Counting
  <2> QED BY <2>1, <2>2, <2>3
<1>5. CASE Asked(Here, f)
  <2>1. Len(stack) = 1 /\ Head(stack).op = "select" /\ Lookup(Profile, sel, stack[1].ids[1]) \subseteq {f} /\ tree = Profile
    BY <1>5, Views DEF Asked, IsTop, Shared
  <2>2. CASE Chan!SelectKnown
    <3>1. stack' = <<[op |-> "select_file", file |-> f, ids |-> <<>>],
                     [op |-> "try", file |-> sel, ids |-> <<>>]>>
      BY <1>1, <2>1, <2>2, LastFrame, SameChanTree DEF Chan!SelectKnown
    <3>2. AtWork(Here', f)
      BY <3>1, ViewsNext DEF AtWork, Calling
    <3> QED BY <3>2 DEF Aims
  <2>3. CASE Chan!SelectUnknown
    <3>1. stack' = <<[op |-> "try", file |-> sel, ids |-> <<>>]>> /\ raised'
      BY <1>1, <2>1, <2>3, LastFrame DEF Chan!SelectUnknown, HexIds
    <3>2. Tried(Here', f)
      BY <3>1, ViewsNext DEF Tried, IsTop
    <3> QED BY <3>2 DEF Aims
  <2> QED BY <2>1, <2>2, <2>3, WhichStep
<1>6. CASE Tried(Here, f)
  <2>1. Len(stack) = 1 /\ Head(stack).op = "try" /\ (~raised => sel = f)
    BY <1>6, Views DEF Tried, IsTop
  <2>2. CASE Chan!TryReturn
    <3>1. stack' = <<>> /\ sel' = f
      BY <1>1, <2>1, <2>2, LastFrame DEF Chan!TryReturn
    <3> QED BY <3>1, ViewsNext DEF Aims, Over
  <2>3. CASE Chan!GoBack
    <3>1. stack' = <<[op |-> "select_file", file |-> Head(stack).file, ids |-> <<>>],
                     [op |-> "reraise", file |-> Chan!NoFile, ids |-> <<>>]>>
      BY <1>1, <2>1, <2>3, LastFrame DEF Chan!GoBack
    <3>2. Doomed(Here')
      BY <3>1, ViewsNext DEF Doomed
    <3> QED BY <3>2 DEF Aims
  <2> QED BY <2>1, <2>2, <2>3, WhichStep
<1>7. CASE Escaping(Here, f)
  <2>1. Len(stack) >= 3 /\ stack[Len(stack)].op = "try" /\ stack[Len(stack) - 1].file = f /\ stack[Len(stack) - 1].op = "goto"
    BY <1>7, Views DEF Escaping
  <2>2. /\ Len(stack') >= 2 /\ stack'[Len(stack')].op = "try"
        /\ stack'[Len(stack') - 1].file = f /\ stack'[Len(stack') - 1].op = "goto"
    BY <1>1, <1>2, <2>1
  <2>3. CASE Len(stack') = 2
    <3>1. stack'[2].op = "try" /\ stack'[1].file = f /\ stack'[1].op = "goto"
      BY <2>2, <2>3
    <3>2. AtWork(Here', f)
      BY <2>3, <3>1, ViewsNext DEF AtWork, Calling
    <3> QED BY <3>2 DEF Aims
  <2>4. CASE Len(stack') # 2
    <3>1. Len(stack') >= 3
      <4>1. stack' # <<>>
        BY <2>2, <1>3, EmptyIsZero DEF StackSet
      <4> QED BY <1>3, <2>2, <2>4, <4>1, StackFacts, Counting
    <3>2. Escaping(Here', f)
      BY <2>2, <3>1, ViewsNext DEF Escaping
    <3> QED BY <3>2 DEF Aims
  <2> QED BY <2>3, <2>4
<1>8. CASE AtWork(Here, f)
  <2>1. /\ Len(stack) = 2 /\ stack[2].op = "try" /\ stack[1].file = f /\ stack[1].op \in Calling \cup {"hop"}
        /\ stack[1].op = "hop" /\ ~raised => WayEnds(Here, f)
    BY <1>8, Views DEF AtWork
  <2>2. Head(stack) = stack[1] /\ Tail(stack) = <<stack[2]>>
    BY <1>1, <2>1, TwoFrames
  <2>3. CASE stack' = Tail(stack) /\ (~raised' => sel' = f)
    <3>1. stack' = <<stack[2]>> /\ stack'[1].op = "try" /\ Head(stack').op = "try" /\ Len(stack') = 1
      BY <2>1, <2>2, <2>3
    <3>2. Tried(Here', f)
      BY <2>3, <3>1, ViewsNext DEF Tried, IsTop
    <3> QED BY <3>2 DEF Aims
  <2>4. CASE Chan!Escape
    <3>1. CASE stack' = <<[op |-> "select", file |-> Chan!NoFile, ids |-> <<Chan!Name(FirstFsADF)>>],
                          [op |-> "goto", file |-> f, ids |-> <<>>], stack[2]>>
      <4>1. Escaping(Here', f)
        BY <2>1, <3>1, ViewsNext DEF Escaping
      <4> QED BY <4>1 DEF Aims
    <3>2. CASE stack' = <<[op |-> "goto", file |-> f, ids |-> <<>>], stack[2]>>
      <4>1. AtWork(Here', f)
        BY <2>1, <3>2, ViewsNext DEF AtWork, Calling
      <4> QED BY <4>1 DEF Aims
    <3>3. /\ \A a : <<a>> \o Tail(stack) = <<a, stack[2]>>
          /\ \A a, b : <<a, b>> \o Tail(stack) = <<a, b, stack[2]>>
      BY <1>1, <2>1, TwoFrames
    <3>4. \/ stack' = <<[op |-> "select", file |-> Chan!NoFile, ids |-> <<Chan!Name(FirstFsADF)>>],
                        [op |-> "goto", file |-> f, ids |-> <<>>]>> \o Tail(stack)
          \/ stack' = <<[op |-> "goto", file |-> f, ids |-> <<>>]>> \o Tail(stack)
      BY <2>1, <2>2, <2>4 DEF Chan!Escape
    <3> QED BY <3>1, <3>2, <3>3, <3>4
  <2>5. CASE Chan!StartHops
    <3>1. CASE raised
      BY <2>3, <2>5, <3>1 DEF Chan!StartHops
    <3>2. CASE ~raised
      <4>1. stack' = <<[op |-> "hop", file |-> f, ids |-> <<>>], stack[2]>>
        BY <1>1, <2>1, <2>2, <2>5, <3>2, TwoFrames DEF Chan!StartHops
      <4>2. hops' = P!BuildSelectPathTo(sel, f)
        BY <2>1, <2>2, <2>5, <3>2, SameChanTree DEF Chan!StartHops
      <4>3. hops' # <<>> /\ hops'[Len(hops')] = f
        BY <4>2, PathLeads DEF Shared
      <4>4. AtWork(Here', f)
        BY <2>1, <4>1, <4>3, ViewsNext DEF AtWork, WayEnds
      <4> QED BY <4>4 DEF Aims
    <3> QED BY <3>1, <3>2
  <2>6. CASE Chan!HopOk
    <3>1. hops # <<>> /\ hops \in Seq(Profile) /\ hops' = Tail(hops) /\ at' = Head(hops) /\ stack' = stack /\ raised' = raised
      BY <2>6, Views DEF Chan!HopOk
    <3>2. ~raised => hops[Len(hops)] = f
      BY <2>1, <2>2, <2>6, <3>1, Views DEF Chan!HopOk, WayEnds
    <3>3. ~raised => WayEnds(Here', f)
      BY <3>1, <3>2, WayGoesOn, ViewsNext DEF WayEnds
    <3>4. AtWork(Here', f)
      BY <2>1, <3>1, <3>3, ViewsNext DEF AtWork
    <3> QED BY <3>4 DEF Aims
  <2>7. CASE Chan!HopRefused
    <3>1. stack' = stack /\ raised'
      BY <2>7 DEF Chan!HopRefused
    <3>2. AtWork(Here', f)
      BY <2>1, <3>1, ViewsNext DEF AtWork
    <3> QED BY <3>2 DEF Aims
  <2>8. CASE Chan!HopsDone
    <3>1. stack' = Tail(stack) /\ (~raised' => sel' = f)
      BY <2>1, <2>2, <2>8, Views DEF Chan!HopsDone, Chan!SelectPost, WayEnds
    <3> QED BY <2>3, <3>1
  <2>9. CASE Chan!HopLost
    BY <2>3, <2>9 DEF Chan!HopLost
  <2> QED BY <2>1, <2>2, <2>4, <2>5, <2>6, <2>7, <2>8, <2>9, WhichStep DEF Calling
<1>10. ~Over(Here, f)
  BY <1>1, Views DEF Over
<1> QED BY <1>4, <1>5, <1>6, <1>7, <1>8, <1>10 DEF Aims

\* What is on top of the stack after a step that calls or makes way.
LEMMA TopOf ==
  ASSUME NEW s \in StackSet, s # <<>>, NEW a, NEW b, NEW r,
         r = <<a>> \o Tail(s) \/ r = <<a, b>> \o Tail(s)
  PROVE  r # <<>> /\ Head(r) = a
<1>1. Tail(s) \in Seq(QuietSet)
  BY StackFacts
<1> DEFINE S == QuietSet \cup {a, b}
<1>2. <<a>> \in Seq(S) /\ <<a, b>> \in Seq(S) /\ Tail(s) \in Seq(S)
  BY <1>1
<1> QED BY <1>2

LEMMA TopAfter ==
  ASSUME Typed(Mine), stack # <<>>
  PROVE  /\ Chan!SelectKnown \/ Chan!GoBack => IsTop(stack', "select_file")
         /\ Chan!Escape => IsTop(stack', "select") \/ IsTop(stack', "goto")
         /\ Chan!SelectUnknown => IsTop(stack', "try")
<1> USE DEF Chan!Top, Chan!Return, Chan!Become, Chan!Call, Chan!Frame
<1> DEFINE F(op, f, ids) == [op |-> op, file |-> f, ids |-> ids]
<1>1. stack \in StackSet
  BY Views
<1>2. ASSUME NEW a, NEW b, stack' = <<a>> \o Tail(stack) \/ stack' = <<a, b>> \o Tail(stack)
      PROVE  IsTop(stack', a.op)
  BY <1>1, <1>2, TopOf DEF IsTop
<1>3. CASE Chan!SelectKnown
  <2>1. PICK target \in Lookup(tree, sel, Head(stack).ids[1]) :
          stack' = <<F("select_file", target, <<>>), F("try", sel, <<>>)>> \o Tail(stack)
    BY <1>3, SameChanTree DEF Chan!SelectKnown
  <2>2. IsTop(stack', F("select_file", target, <<>>).op)
    BY <1>2, <2>1
  <2> QED BY <1>3, <2>2 DEF Chan!SelectKnown, Chan!GoBack, Chan!Escape, Chan!SelectUnknown
<1>4. CASE Chan!GoBack
  <2>1. stack' = <<F("select_file", Head(stack).file, <<>>), F("reraise", NoFile, <<>>)>> \o Tail(stack)
    BY <1>4, SameChanTree DEF Chan!GoBack
  <2>2. IsTop(stack', F("select_file", Head(stack).file, <<>>).op)
    BY <1>2, <2>1
  <2> QED BY <1>4, <2>2 DEF Chan!SelectKnown, Chan!GoBack, Chan!Escape, Chan!SelectUnknown
<1>5. CASE Chan!Escape
  <2> DEFINE g == F("goto", Head(stack).file, <<>>)
             c == F("select", NoFile, <<Name(FirstFsADF)>>)
  <2>1. stack' = <<c, g>> \o Tail(stack) \/ stack' = <<g>> \o Tail(stack)
    BY <1>5, SameChanTree DEF Chan!Escape
  <2>2. IsTop(stack', c.op) \/ IsTop(stack', g.op)
    <3> HIDE DEF c, g
    <3> QED BY <1>2, <2>1
  <2> QED BY <1>5, <2>2 DEF Chan!SelectKnown, Chan!GoBack, Chan!Escape, Chan!SelectUnknown
<1>6. CASE Chan!SelectUnknown
  <2>1. stack' = <<F("try", sel, <<>>)>> \o Tail(stack)
    BY <1>6 DEF Chan!SelectUnknown, HexIds
  <2>2. IsTop(stack', F("try", sel, <<>>).op)
    BY <1>2, <2>1
  <2> QED BY <1>6, <2>2 DEF Chan!SelectKnown, Chan!GoBack, Chan!Escape, Chan!SelectUnknown
<1> QED BY <1>3, <1>4, <1>5, <1>6

\* What does not concern Homing.
LEMMA HomeAnyway ==
  ASSUME NEW x, x.stack \in StackSet,
         \/ x.raised
         \/ IsTop(x.stack, "select") \/ IsTop(x.stack, "select_file") \/ IsTop(x.stack, "goto")
         \/ /\ x.stack # <<>> /\ (Len(x.stack) # 1 \/ x.stack[1].op # "try")
            /\ Len(x.stack) # 2 \/ x.stack[2].op # "try" \/ x.stack[1].op # "hop"
  PROVE  Homing(x)
<1>1. x.stack # <<>> => Head(x.stack) = x.stack[1]
  BY StackFacts
<1> QED BY <1>1 DEF Homing, IsTop

\* The first SELECT of a path takes the card to the MF.
LEMMA StepHomes ==
  ASSUME Shared, Typed(Mine), Aims(Here, MF), Homing(Here), Chan!Step
  PROVE  Homing(Here')
<1>1. stack \in StackSet /\ stack # <<>> /\ Pushed(stack, stack') /\ Len(stack) \in Nat \ {0}
  BY StepShape, Views, StackFacts
<1>2. /\ Len(stack) >= 2 => stack' # <<>> /\ stack'[Len(stack')] = stack[Len(stack)]
      /\ Len(stack) >= 3 => Len(stack') >= 2 /\ stack'[Len(stack') - 1] = stack[Len(stack) - 1]
      /\ stack' = Tail(stack) => Len(stack') = Len(stack) - 1
  BY <1>1, PushedFacts
<1>0. Here'.stack \in StackSet
  BY <1>1, PushedFacts, ViewsNext
<1> USE DEF Chan!Top, Chan!Return, Chan!Become, Chan!Call, Chan!Frame, Chan!lchan, Chan!card, Chan!loop
<1>3. CASE Len(stack) >= 3
  <2>1. stack[Len(stack)].op = "reraise" \/ (stack[Len(stack)].op = "try" /\ stack[Len(stack) - 1].op = "goto")
    <3>1. Len(stack) # 1 /\ Len(stack) # 2
      BY <1>1, <1>3, Counting
    <3> QED BY <1>1, <3>1, Views DEF Aims, Asked, AtWork, Escaping, Tried, Doomed, Over
  <2>2. stack' # <<>> /\ Len(stack') # 1
    BY <1>2, <1>3
  <2>3. Len(stack') = 2 => stack'[2] = stack[Len(stack)] /\ stack'[1] = stack[Len(stack) - 1]
    BY <1>2, <1>3
  <2>4. Len(stack') # 2 \/ stack'[1].op # "hop" \/ stack'[2].op # "try"
    BY <2>1, <2>3
  <2> QED BY <2>2, <2>4, ViewsNext, <1>0, HomeAnyway
<1>4. CASE Len(stack) = 2 /\ Doomed(Here)
  <2>1. stack' # <<>> /\ stack'[Len(stack')].op = "reraise"
    <3>1. Len(stack) >= 2
      BY <1>1, <1>4, Counting
    <3> QED BY <1>2, <1>4, <3>1, Views DEF Doomed
  <2>2. Len(stack') # 1 \/ stack'[1].op # "try"
    BY <2>1
  <2>3. Len(stack') # 2 \/ stack'[2].op # "try"
    BY <2>1
  <2> QED BY <2>1, <2>2, <2>3, ViewsNext, <1>0, HomeAnyway
<1>5. CASE Len(stack) = 1 /\ Doomed(Here)
  <2>1. Head(stack).op = "reraise"
    BY <1>1, <1>5, LastFrame, Views DEF Doomed
  <2>2. stack' = <<>> /\ raised'
    BY <1>1, <1>5, <2>1, LastFrame, WhichStep DEF Chan!Reraise
  <2> QED BY <2>2, ViewsNext, EmptyIsZero DEF Homing
<1>6. CASE Asked(Here, MF)
  <2>1. Len(stack) = 1 /\ Head(stack).op = "select"
    BY <1>6, Views DEF Asked, IsTop
  <2>2. CASE Chan!SelectKnown
    BY <1>0, <1>1, <2>2, TopAfter, ViewsNext, HomeAnyway
  <2>3. CASE Chan!SelectUnknown
    <3>1. raised'
      BY <2>3 DEF Chan!SelectUnknown, HexIds
    <3> QED BY <1>0, <3>1, ViewsNext, HomeAnyway
  <2> QED BY <2>1, <2>2, <2>3, WhichStep
<1>7. CASE Tried(Here, MF)
  <2>1. Len(stack) = 1 /\ Head(stack).op = "try" /\ stack[1].op = "try" /\ (~raised => cur = MF)
    BY <1>1, <1>7, LastFrame, Views DEF Tried, IsTop, Homing
  <2>2. CASE Chan!TryReturn
    <3>1. stack' = <<>> /\ cur' = MF
      BY <1>1, <2>1, <2>2, LastFrame DEF Chan!TryReturn
    <3> QED BY <3>1, ViewsNext DEF Homing
  <2>3. CASE Chan!GoBack
    BY <1>0, <1>1, <2>3, TopAfter, ViewsNext, HomeAnyway
  <2> QED BY <2>1, <2>2, <2>3, WhichStep
<1>8. CASE AtWork(Here, MF)
  <2>1. /\ Len(stack) = 2 /\ stack[2].op = "try" /\ stack[1].file = MF /\ stack[1].op \in Calling \cup {"hop"}
        /\ stack[1].op = "hop" /\ ~raised => hops = <<MF>> \/ (hops = <<>> /\ cur = MF)
    BY <1>8, Views DEF AtWork, Homing
  <2>2. Head(stack) = stack[1] /\ Tail(stack) = <<stack[2]>>
    BY <1>1, <2>1, TwoFrames
  <2>3. CASE stack' = Tail(stack) /\ (~raised' => cur' = MF)
    <3>1. Len(stack') # 2
      BY <2>2, <2>3, OneLong
    <3> QED BY <2>3, <3>1, ViewsNext DEF Homing
  <2>4. CASE Chan!Escape
    BY <1>0, <1>1, <2>4, TopAfter, ViewsNext, HomeAnyway
  <2>5. CASE Chan!StartHops
    <3>1. CASE raised
      BY <2>3, <2>5, <3>1 DEF Chan!StartHops
    <3>2. CASE ~raised
      <4>1. hops' = P!BuildSelectPathTo(sel, MF) /\ stack' = <<[op |-> "hop", file |-> MF, ids |-> <<>>]>> \o Tail(stack)
        BY <2>1, <2>2, <2>5, <3>2, SameChanTree DEF Chan!StartHops
      <4>2. hops' = <<MF>>
        BY <4>1, PathLeads, KnownShape DEF Shared
      <4>3. Len(stack') = 2
        BY <1>1, <2>1, <4>1, TwoFrames
      <4>4. stack' # <<>> /\ Len(stack') # 1
        BY <4>3
      <4> QED BY <4>2, <4>4, ViewsNext DEF Homing
    <3> QED BY <3>1, <3>2
  <2>6. CASE Chan!HopOk
    <3>1. hops # <<>> /\ hops' = Tail(hops) /\ stack' = stack /\ raised' = raised
      BY <2>6, Views DEF Chan!HopOk
    <3>2. CASE raised
      <4>1. Here'.raised
        BY <3>1, <3>2, ViewsNext
      <4> QED BY <4>1, <1>0, HomeAnyway
    <3>3. CASE ~raised
      <4>1. hops = <<MF>>
        BY <2>1, <2>2, <2>6, <3>1, <3>3 DEF Chan!HopOk
      <4>2. hops' = <<>> /\ Head(hops) = MF
        BY <3>1, <4>1
      <4>3. cur' = MF
        <5>1. cur' \in Chan!Answers(MF)
          BY <2>6, <4>2 DEF Chan!HopOk
        <5>2. P!Near(cur, MF)
          BY DEF P!Near
        <5> QED BY <5>1, <5>2, HopFinds, KnownShape DEF Shared
      <4>4. stack' # <<>> /\ Len(stack') # 1
        BY <1>1, <2>1, <3>1
      <4> QED BY <4>2, <4>3, <4>4, ViewsNext DEF Homing
    <3> QED BY <3>2, <3>3
  <2>7. CASE Chan!HopRefused
    <3>1. stack' = stack /\ raised'
      BY <2>7 DEF Chan!HopRefused
    <3>2. stack' # <<>> /\ Len(stack') # 1
      BY <1>1, <2>1, <3>1
    <3> QED BY <3>1, <3>2, ViewsNext, <1>0, HomeAnyway
  <2>8. CASE Chan!HopsDone
    <3>1. stack' = Tail(stack) /\ (~raised' => cur' = MF)
      <4>1. stack[1].op = "hop" /\ hops = <<>> /\ stack' = Tail(stack) /\ raised' = raised /\ cur' = cur
        BY <2>2, <2>8 DEF Chan!HopsDone
      <4>2. hops # <<MF>>
        BY <4>1
      <4> QED BY <2>1, <4>1, <4>2
    <3> QED BY <2>3, <3>1
  <2>9. CASE Chan!HopLost
    BY <2>3, <2>9 DEF Chan!HopLost
  <2> QED BY <2>1, <2>2, <2>4, <2>5, <2>6, <2>7, <2>8, <2>9, WhichStep DEF Calling
<1>9. Len(stack) = 1 \/ Len(stack) = 2 \/ Len(stack) >= 3
  BY <1>1, Counting
<1>10. Doomed(Here) \/ Asked(Here, MF) \/ AtWork(Here, MF) \/ Tried(Here, MF) \/ Len(stack) >= 3
  BY <1>1, Views DEF Aims, Over, Escaping
<1> QED BY <1>3, <1>4, <1>5, <1>6, <1>7, <1>8, <1>9, <1>10

\* Below the top of a stack nothing is in the hop loop.
LEMMA BelowIsQuiet ==
  ASSUME NEW s \in StackSet, s # <<>>
  PROVE  ~IsTop(Tail(s), "hop")
<1>1. \A q : q \in QuietSet => q.op # "hop"
  BY DEF QuietSet, Calling
<1> QED BY <1>1, StackFacts DEF IsTop

LEMMA StepCoheres ==
  ASSUME Shared, Typed(Mine), Together(Here), Chan!Step
  PROVE  Together(Here')
<1>1. stack \in StackSet /\ stack # <<>> /\ hops \in Seq(Profile) /\ raised \in BOOLEAN /\ Head(stack) \in FrameSet
  BY StepShape, Views, StackFacts
<1>2. ~IsTop(Tail(stack), "hop")
  BY <1>1, BelowIsQuiet
<1>3. sel \in Profile /\ cur \in OnCard /\ alive \in BOOLEAN /\ tree = Profile
  BY DEF Shared
<1> DEFINE Hop == IsTop(stack, "hop")
           Hopp == IsTop(stack', "hop")
<1>4. /\ Hop => P!IsChainFrom(at, hops)
      /\ alive => cur = IF Hop THEN at ELSE sel
      /\ stack = <<>> \/ IsTop(stack, "try") => (~raised => cur = sel)
      /\ Hop /\ hops = <<>> /\ ~raised => cur = at
  BY Views DEF Together
<1>5. SUFFICES
      /\ Hopp => P!IsChainFrom(at', hops')
      /\ alive' => cur' = IF Hopp THEN at' ELSE sel'
      /\ stack' = <<>> \/ IsTop(stack', "try") => (~raised' => cur' = sel')
      /\ Hopp /\ hops' = <<>> /\ ~raised' => cur' = at'
  BY ViewsNext DEF Together
<1> USE DEF Chan!Top, Chan!Return, Chan!Become, Chan!Call, Chan!Frame, Chan!lchan, Chan!card, Chan!loop
<1>6. CASE Chan!SelectKnown
  <2>1. IsTop(stack', "select_file")
    BY <1>1, <1>6, TopAfter
  <2>2. ~Hopp /\ ~IsTop(stack', "try") /\ stack' # <<>>
    BY <2>1 DEF IsTop
  <2>3. ~Hop /\ cur' = cur /\ sel' = sel /\ alive' = alive
    BY <1>6 DEF Chan!SelectKnown, IsTop
  <2> QED BY <1>4, <2>2, <2>3
<1>7. CASE Chan!SelectUnknown
  <2>1. raised' /\ cur' = cur /\ sel' = sel /\ alive' = alive /\ ~Hop
    BY <1>7 DEF Chan!SelectUnknown, HexIds, IsTop
  <2>2. ~Hopp
    BY <1>1, <1>7, TopAfter DEF IsTop
  <2> QED BY <1>4, <2>1, <2>2
<1>8. CASE Chan!TryReturn
  <2>1. stack' = Tail(stack) /\ raised' = raised /\ ~raised /\ cur' = cur /\ sel' = sel /\ IsTop(stack, "try") /\ alive' = alive
    BY <1>8 DEF Chan!TryReturn, IsTop
  <2> QED BY <1>2, <1>4, <2>1
<1>9. CASE Chan!GoBack
  <2>1. IsTop(stack', "select_file")
    BY <1>1, <1>9, TopAfter
  <2>2. ~Hopp /\ ~IsTop(stack', "try") /\ stack' # <<>>
    BY <2>1 DEF IsTop
  <2>3. ~Hop /\ cur' = cur /\ sel' = sel /\ alive' = alive
    BY <1>9 DEF Chan!GoBack, IsTop
  <2> QED BY <1>4, <2>2, <2>3
<1>10. CASE Chan!Reraise
  <2>1. stack' = Tail(stack) /\ raised' /\ cur' = cur /\ sel' = sel /\ alive' = alive /\ ~Hop
    BY <1>10 DEF Chan!Reraise, IsTop
  <2> QED BY <1>2, <1>4, <2>1
<1>11. CASE Chan!Escape
  <2>1. IsTop(stack', "select") \/ IsTop(stack', "goto")
    BY <1>1, <1>11, TopAfter
  <2>2. ~Hopp /\ ~IsTop(stack', "try") /\ stack' # <<>>
    BY <2>1 DEF IsTop
  <2>3. ~Hop /\ cur' = cur /\ sel' = sel /\ alive' = alive
    BY <1>11 DEF Chan!Escape, IsTop
  <2> QED BY <1>4, <2>2, <2>3
<1>12. CASE Chan!StartHops /\ raised
  <2>1. stack' = Tail(stack) /\ raised' /\ cur' = cur /\ sel' = sel /\ alive' = alive /\ ~Hop
    BY <1>12 DEF Chan!StartHops, IsTop
  <2> QED BY <1>2, <1>4, <2>1
<1>13. CASE Chan!StartHops /\ ~raised
  <2>1. /\ hops' = P!BuildSelectPathTo(sel, Head(stack).file) /\ at' = sel
        /\ stack' = <<[op |-> "hop", file |-> Head(stack).file, ids |-> <<>>]>> \o Tail(stack)
        /\ cur' = cur /\ sel' = sel /\ alive' = alive /\ ~Hop
    BY <1>13, SameChanTree DEF Chan!StartHops, IsTop
  <2>2. Head(stack).file \in Profile
    BY <1>1, <1>13 DEF Chan!StartHops, FrameSet, QuietSet, Calling
  <2>3. P!IsChainFrom(at', hops') /\ hops' # <<>>
    BY <1>3, <2>1, <2>2, PathLeads
  <2>4. Head(stack').op = "hop" /\ stack' # <<>>
    BY <1>1, <2>1, StackFacts
  <2> QED BY <1>4, <2>1, <2>3, <2>4 DEF IsTop
<1>14. CASE Chan!HopOk
  <2>1. /\ Hop /\ hops # <<>> /\ alive /\ alive' = alive /\ stack' = stack
        /\ hops' = Tail(hops) /\ at' = Head(hops) /\ cur' \in Chan!Answers(Head(hops))
    BY <1>14 DEF Chan!HopOk, IsTop
  <2>2. P!Near(cur, Head(hops)) /\ P!IsChainFrom(Head(hops), Tail(hops)) /\ Head(hops) \in Profile
    BY <1>1, <1>4, <2>1, WayGoesOn
  <2>3. cur' = Head(hops)
    BY <1>3, <2>1, <2>2, HopFinds
  <2> QED BY <1>4, <2>1, <2>2, <2>3 DEF IsTop
<1>15. CASE Chan!HopRefused
  <2>1. /\ Hop /\ alive' = alive /\ stack' = stack /\ alive /\ raised'
        /\ hops' = <<>> /\ at' = at /\ cur' = cur
    BY <1>15 DEF Chan!HopRefused, IsTop
  <2>2. P!IsChainFrom(at', hops')
    BY <2>1 DEF P!IsChainFrom
  <2> QED BY <1>4, <2>1, <2>2
<1>16. CASE Chan!HopsDone
  <2>1. Hop /\ hops = <<>> /\ stack' = Tail(stack) /\ sel' = at /\ cur' = cur /\ alive' = alive /\ raised' = raised
    BY <1>16 DEF Chan!HopsDone, Chan!SelectPost, IsTop
  <2> QED BY <1>2, <1>4, <2>1
<1>17. CASE Chan!HopLost
  <2>1. stack' = Tail(stack) /\ raised' /\ ~alive /\ alive' = alive
    BY <1>17 DEF Chan!HopLost
  <2> QED BY <1>2, <2>1
<1>18. Head(stack).op \in {"reraise", "try", "select", "select_file", "goto", "hop"}
  BY <1>1 DEF FrameSet, QuietSet, Calling
<1> QED BY <1>6, <1>7, <1>8, <1>9, <1>10, <1>11, <1>12, <1>13, <1>14, <1>15, <1>16, <1>17, <1>18, WhichStep

-----------------------------------------------------------------------------
(* The threads.                                                            *)

\* How much of its path a thread has selected, and what the channel owes it then.
Selected(t) == Len(First(t).path) - Len(names[t])
OnItsWay(t) ==
  LET p == First(t).path
      k == Selected(t)
  IN  /\ k \in 0..Len(p) /\ names[t] = SubSeq(p, k + 1, Len(p))
      /\ k = 0 => Rests(View(t))
      /\ k > 0 => Aims(View(t), Prefix(p, k))
      /\ k = 1 => Homing(View(t))
      /\ k > 1 => Together(View(t))

Job(t) ==
  /\ todo[t] \in Seq(Calls) /\ names[t] \in Seq(STRING) /\ Typed(Own(t))
  /\ phase[t] \in {"idle", "path", "data", "rest", "open", "publish"}
  /\ Busy(t) => todo[t] # <<>>
  /\ phase[t] \in {"path", "data", "rest"} => First(t).op \in FileOps
  /\ phase[t] \in {"data", "rest"} => First(t).op \notin {"visit", "write_tlv"}
  /\ phase[t] = "rest" => First(t).op = "write"
  /\ phase[t] # "path" => Rests(Own(t))

Undisturbed(t) ==
  alone[t] => /\ \A u \in Threads \ {t} : ~Busy(u)
              /\ phase[t] = "path" => OnItsWay(t)
              /\ phase[t] \in {"data", "rest"} => cur = First(t).path

Domains == /\ running \in Threads /\ DOMAIN saved = Threads /\ DOMAIN todo = Threads /\ DOMAIN phase = Threads
           /\ DOMAIN names = Threads /\ DOMAIN answer = Threads /\ DOMAIN alone = Threads

ServerInv == Shared /\ Domains /\ \A t \in Threads : Job(t) /\ Undisturbed(t)

LEMMA Empty ==
  ASSUME NEW x, x.stack = <<>>, x.hops = <<>>, x.raised = FALSE
  PROVE  Typed(x) /\ Rests(x)
<1>1. <<>> \in StackSet
  BY DEF StackSet
<1>2. <<>> \in Seq(Profile) /\ FALSE \in BOOLEAN
  OBVIOUS
<1>3. Typed(x)
  BY <1>1, <1>2 DEF Typed, IsTop
<1>4. Rests(x)
  BY DEF Rests
<1> QED BY <1>3, <1>4

LEMMA InitServer == Init => ServerInv /\ AloneIsRight
<1> SUFFICES ASSUME Init PROVE ServerInv /\ AloneIsRight
  OBVIOUS
<1> USE DEF Init
<1>1. Shared /\ Domains
  BY KnownShape DEF Shared, Domains
<1>3. ASSUME NEW t \in Threads PROVE Job(t) /\ Undisturbed(t)
  <2>1. Own(t).stack = <<>> /\ Own(t).hops = <<>> /\ Own(t).raised = FALSE
    <3>1. CASE running = t
      BY <3>1 DEF Own, Mine, Idle
    <3>2. CASE running # t
      BY <3>2 DEF Own, Fresh
    <3> QED BY <3>1, <3>2
  <2> DEFINE x == Own(t)
  <2>2. Typed(x) /\ Rests(x)
    <3>1. x.stack = <<>> /\ x.hops = <<>> /\ x.raised = FALSE
      BY <2>1
    <3> HIDE DEF x
    <3> QED BY <3>1, Empty
  <2>3. phase[t] = "idle" /\ todo[t] = <<>> /\ names[t] = <<>> /\ ~alone[t]
    OBVIOUS
  <2> QED BY <2>2, <2>3 DEF Job, Undisturbed, Busy
<1>4. AloneIsRight
  BY DEF AloneIsRight, NoAnswer
<1> QED BY <1>1, <1>3, <1>4 DEF ServerInv

\* What a step of one thread leaves to the others.
LEMMA Elsewhere ==
  ASSUME ServerInv, NEW t \in Threads, Runs(t), UNCHANGED sched,
         \A w \in Threads \ {t} : /\ todo'[w] = todo[w] /\ phase'[w] = phase[w] /\ names'[w] = names[w]
                                  /\ alone'[w] => alone[w],
         \/ Busy(t)
         \/ \A w \in Threads \ {t} : ~alone'[w]
         \/ UNCHANGED <<sel, cur, alive>> /\ phase'[t] = "idle",
         NEW u \in Threads \ {t}
  PROVE  Job(u)' /\ Undisturbed(u)'
<1>1. Job(u) /\ Undisturbed(u)
  BY DEF ServerInv
<1>2. Own(u)' = Own(u)
  BY DEF Own, sched, Runs
<1>3. First(u)' = First(u) /\ Busy(u)' = Busy(u)
  BY DEF First, Busy
<1>4. Job(u)'
  BY <1>1, <1>2, <1>3 DEF Job
<1>5. ASSUME alone'[u] PROVE Undisturbed(u)'
  <2>1. alone[u] /\ \A w \in Threads \ {u} : ~Busy(w)
    BY <1>1, <1>5 DEF Undisturbed
  <2>2. ~Busy(t)
    BY <2>1
  <2>3. UNCHANGED <<sel, cur, alive>> /\ phase'[t] = "idle"
    BY <1>5, <2>2
  <2>4. View(u)' = View(u)
    BY <1>2, <2>3 DEF View, See
  <2>5. \A w \in Threads \ {u} : ~Busy(w)'
    BY <2>1, <2>3 DEF Busy
  <2>6. OnItsWay(u)' <=> OnItsWay(u)
    BY <1>3, <2>4 DEF OnItsWay, Selected
  <2> QED BY <1>1, <1>3, <2>1, <2>3, <2>5, <2>6 DEF Undisturbed
<1> QED BY <1>4, <1>5 DEF Undisturbed

LEMMA PathOfCall ==
  ASSUME ServerInv, NEW t \in Threads, todo[t] # <<>>
  PROVE  First(t) \in Calls /\ (First(t).op \in FileOps => First(t).path \in Profile) /\ Tail(todo[t]) \in Seq(Calls)
<1>1. todo[t] \in Seq(Calls)
  BY DEF ServerInv, Job
<1>2. First(t) \in Calls /\ Tail(todo[t]) \in Seq(Calls)
  BY <1>1 DEF First
<1>3. \A c \in Calls : c.op \in FileOps => c.path \in Profile
  BY DEF Calls, FileOps
<1> QED BY <1>2, <1>3

LEMMA ReturnKeeps ==
  ASSUME ServerInv, NEW t \in Threads, Runs(t), todo[t] # <<>>, NEW ok, NEW file, NEW value,
         Return(t, ok, file, value), UNCHANGED <<tree, sel, cur, alive, sched>>,
         alone' = alone \/ alone' = [u \in Threads |-> FALSE]
  PROVE  ServerInv'
<1>1. \A w \in Threads \ {t} : /\ todo'[w] = todo[w] /\ phase'[w] = phase[w] /\ names'[w] = names[w]
                               /\ alone'[w] => alone[w]
  BY DEF ServerInv, Domains, Return
<1>2. phase'[t] = "idle" /\ todo'[t] = Tail(todo[t]) /\ names'[t] = <<>> /\ (alone'[t] => alone[t])
  BY DEF ServerInv, Domains, Return
<1>3. \A u \in Threads \ {t} : Job(u)' /\ Undisturbed(u)'
  BY <1>1, <1>2, Elsewhere
<1>4. Rests(Own(t)') /\ Typed(Own(t)')
  <2>1. Own(t)' = Mine'
    BY DEF Own, sched, Runs
  <2>2. stack' = <<>> /\ hops' = <<>> /\ raised' = FALSE
    BY DEF Return
  <2>3. Mine'.stack = <<>> /\ Mine'.hops = <<>> /\ Mine'.raised = FALSE
    BY <2>2, ViewsNext
  <2> QED BY <2>1, <2>3, Empty
<1>5. Job(t)'
  BY <1>2, <1>4, PathOfCall DEF Job, Busy
<1>6. Undisturbed(t)'
  BY <1>1, <1>2 DEF ServerInv, Undisturbed, Busy
<1>7. Shared' /\ Domains'
  BY DEF ServerInv, Shared, Domains, Return, sched
<1> QED BY <1>3, <1>5, <1>6, <1>7 DEF ServerInv

LEMMA BeginKeeps ==
  ASSUME ServerInv, NEW t \in Threads, NEW ph \in {"path", "open"}, Begin(t, ph),
         ph = "path" => First(t).op \in FileOps /\ names' = [names EXCEPT ![t] = First(t).path],
         ph = "open" => names' = names,
         UNCHANGED <<chanVars, sched, todo, answer>>
  PROVE  ServerInv'
<1>1. Job(t) /\ Rests(Own(t)) /\ todo[t] # <<>> /\ running = t
  BY DEF ServerInv, Job, Begin, Runs
<1>2. \A w \in Threads \ {t} : /\ todo'[w] = todo[w] /\ phase'[w] = phase[w] /\ names'[w] = names[w]
                               /\ ~alone'[w]
  BY DEF ServerInv, Domains, Begin
<1>3. \A u \in Threads \ {t} : Job(u)' /\ Undisturbed(u)'
  BY <1>2, Elsewhere DEF Begin
<1>4. /\ phase'[t] = ph /\ todo'[t] = todo[t] /\ First(t)' = First(t)
      /\ alone'[t] => \A w \in Threads \ {t} : ~Busy(w)
  BY DEF ServerInv, Domains, Begin, First
<1>5. Own(t)' = Own(t) /\ View(t)' = View(t)
  BY DEF Own, View, See, Mine, chanVars, sched
<1> DEFINE Goal == Job(t)' /\ Undisturbed(t)'
<1>6. ASSUME ph = "open" PROVE Goal
  <2>1. names'[t] = names[t]
    BY <1>6
  <2>2. Job(t)'
    BY <1>1, <1>4, <1>5, <1>6, <2>1 DEF Job, Busy
  <2>3. Undisturbed(t)'
    BY <1>2, <1>4, <1>6 DEF Undisturbed, Busy
  <2> QED BY <2>2, <2>3
<1>7. ASSUME ph = "path" PROVE Goal
  <2>1. names'[t] = First(t).path /\ First(t).path \in Profile
    BY <1>1, <1>7, PathOfCall DEF ServerInv, Domains
  <2>2. First(t).path \in Seq(STRING)
    BY <2>1, NameByName
  <2>3. Job(t)'
    BY <1>1, <1>4, <1>5, <1>7, <2>1, <2>2 DEF Job, Busy
  <2>4. OnItsWay(t)'
    <3> DEFINE p == First(t).path
    <3>1. p \in Seq(STRING) /\ Len(p) \in Nat
      BY <2>2
    <3> HIDE DEF p
    <3>2. p = SubSeq(p, 1, Len(p))
      BY <3>1
    <3>3. names'[t] = p /\ First(t)'.path = p
      BY <1>4, <2>1 DEF p
    <3>4. Selected(t)' = 0
      BY <3>1, <3>3 DEF Selected
    <3>5. Rests(View(t)')
      BY <1>1, <1>5 DEF Rests, View, See
    <3> QED BY <3>1, <3>2, <3>3, <3>4, <3>5 DEF OnItsWay
  <2>5. Undisturbed(t)'
    BY <1>2, <1>4, <1>7, <2>4 DEF Undisturbed, Busy
  <2> QED BY <2>3, <2>5
<1>8. Shared' /\ Domains'
  BY DEF ServerInv, Shared, Domains, Begin, sched, chanVars
<1>9. Goal
  <2> HIDE DEF Goal
  <2> QED BY <1>6, <1>7
<1> QED BY <1>3, <1>8, <1>9 DEF ServerInv

\* The part of the invariant about the thread that runs is what is left to show.
LEMMA RunsKeeps ==
  ASSUME ServerInv, NEW t \in Threads, Runs(t), Busy(t), UNCHANGED <<sched, alone>>,
         DOMAIN todo' = Threads, DOMAIN phase' = Threads, DOMAIN names' = Threads, DOMAIN answer' = Threads,
         \A w \in Threads \ {t} : todo'[w] = todo[w] /\ phase'[w] = phase[w] /\ names'[w] = names[w],
         Shared', Job(t)',
         alone[t] => (phase'[t] = "path" => OnItsWay(t)') /\ (phase'[t] \in {"data", "rest"} => cur' = First(t)'.path)
  PROVE  ServerInv'
<1>1. \A u \in Threads \ {t} : Job(u)' /\ Undisturbed(u)'
  BY Elsewhere
<1>2. Undisturbed(t)'
  BY DEF ServerInv, Undisturbed, Busy
<1>3. Domains'
  BY DEF ServerInv, Domains, sched
<1> QED BY <1>1, <1>2, <1>3 DEF ServerInv

LEMMA OwnIsMine ==
  ASSUME NEW t, running = t
  PROVE  /\ Own(t) = Mine /\ View(t) = Here
         /\ UNCHANGED sched => Own(t)' = Mine' /\ View(t)' = Here'
BY DEF Own, View, Here, See, sched

\* The next name of the path is taken up: it is looked up where the last one led.
LEMMA NextName ==
  ASSUME NEW p \in Profile, NEW k \in 0..(Len(p) - 1), sel \in Profile, k > 0 => sel = Prefix(p, k)
  PROVE  Prefix(p, k + 1) \in Profile /\ Lookup(Profile, sel, p[k + 1]) \subseteq {Prefix(p, k + 1)}
<1> DEFINE f == Prefix(p, k + 1)
<1>1. p \in Seq(STRING) /\ Len(p) \in Nat /\ k + 1 \in 1..Len(p)
  BY NameByName
<1>2. f \in Profile /\ Name(f) = p[k + 1]
  BY <1>1, NameByName
<1>3. CASE k = 0
  <2>1. f = MF
    BY <1>3, NameByName
  <2>2. Name(MF) = p[k + 1]
    BY <1>2, <2>1
  <2>3. ASSUME NEW g \in Lookup(Profile, sel, p[k + 1]) PROVE g = MF
    <3>1. g \in Profile /\ Name(MF) \in Ids(g)
      BY <2>2 DEF Lookup, Selectables
    <3> QED BY <3>1, ServerAssumption
  <2> QED BY <1>2, <2>1, <2>3
<1>4. CASE k > 0
  <2>1. Parent(f) = Prefix(p, k) /\ f # MF
    <3>1. k + 1 \in 2..Len(p) /\ (k + 1) - 1 = k
      BY <1>1, <1>4
    <3> QED BY <3>1, NameByName
  <2>2. ASSUME NEW g \in Lookup(Profile, sel, p[k + 1]) PROVE g = f
    <3>1. g \in Selectables(Profile, Parent(f)) /\ Name(f) \in Ids(g)
      BY <1>2, <1>4, <2>1 DEF Lookup
    <3>2. f \in Profile \ {MF}
      BY <1>2, <2>1
    <3> HIDE DEF f
    <3> QED BY <3>1, <3>2, ServerAssumption
  <2> QED BY <1>2, <2>2
<1>5. k = 0 \/ k > 0
  OBVIOUS
<1> QED BY <1>3, <1>4, <1>5

LEMMA NamesLeft ==
  ASSUME NEW p \in Seq(STRING), NEW k \in 0..Len(p), NEW n, n = SubSeq(p, k + 1, Len(p)), n # <<>>
  PROVE  /\ k \in 0..(Len(p) - 1) /\ Head(n) = p[k + 1]
         /\ Tail(n) = SubSeq(p, k + 2, Len(p)) /\ Len(Tail(n)) = Len(p) - (k + 1)
<1>1. Len(p) \in Nat
  OBVIOUS
<1>2. n \in Seq(STRING) /\ Len(n) = Len(p) - k /\ \A i \in 1..(Len(p) - k) : n[i] = p[k + i]
  BY <1>1, SubSeqProperties
<1>3. Len(n) # 0
  BY <1>2, EmptyIsZero
<1>4. k \in 0..(Len(p) - 1)
  BY <1>1, <1>2, <1>3
<1>5. Head(n) = p[k + 1]
  BY <1>1, <1>2, <1>4
<1>6. /\ Tail(n) \in Seq(STRING) /\ Len(Tail(n)) = Len(p) - (k + 1)
      /\ \A i \in 1..(Len(p) - (k + 1)) : Tail(n)[i] = n[i + 1]
  BY <1>1, <1>2, <1>4
<1> DEFINE r == SubSeq(p, k + 2, Len(p))
<1>7. r \in Seq(STRING) /\ Len(r) = Len(p) - (k + 1) /\ \A i \in 1..(Len(p) - (k + 1)) : r[i] = p[k + 1 + i]
  BY <1>1, <1>4, SubSeqProperties
<1> HIDE DEF r
<1>8. ASSUME NEW i \in 1..(Len(p) - (k + 1)) PROVE Tail(n)[i] = r[i]
  <2>1. i + 1 \in 1..(Len(p) - k) /\ k + (i + 1) = k + 1 + i
    BY <1>1, <1>4
  <2> QED BY <1>2, <1>6, <1>7, <2>1
<1>9. Tail(n) = r
  BY <1>6, <1>7, <1>8, SeqEqual
<1> QED BY <1>4, <1>5, <1>6, <1>9 DEF r

LEMMA SelectNextKeeps ==
  ASSUME ServerInv, NEW t \in Threads, SelectNext(t)
  PROVE  ServerInv'
<1> DEFINE p == First(t).path
           n == names[t]
           k == Selected(t)
<1>1. /\ Job(t) /\ running = t /\ phase[t] = "path" /\ todo[t] # <<>> /\ n # <<>> /\ n \in Seq(STRING)
      /\ UNCHANGED <<sched, todo, phase, answer, alone>> /\ names' = [names EXCEPT ![t] = Tail(@)]
      /\ names'[t] = Tail(n) /\ First(t)' = First(t)
  BY DEF ServerInv, Domains, Job, SelectNext, Runs, Busy, First
<1>2. /\ stack = <<>> /\ ~raised /\ raised' = FALSE
      /\ stack' = <<[op |-> "select", file |-> NoFile, ids |-> <<Head(n)>>]>>
      /\ UNCHANGED <<tree, sel, cur, alive, hops, at>>
  BY SameChanTree DEF SelectNext, Chan!CallSelect, Chan!Frame, Chan!lchan, Chan!card, Chan!loop
<1>3. p \in Profile /\ p \in Seq(STRING)
  BY <1>1, PathOfCall, NameByName DEF ServerInv, Job
<1>4. Shared /\ Shared'
  BY <1>2 DEF ServerInv, Shared
<1>5. Job(t)'
  <2>1. Head(n) \in STRING /\ Tail(n) \in Seq(STRING)
    <3> HIDE DEF n
    <3> QED BY <1>1
  <2>2. stack' \in StackSet /\ ~IsTop(stack', "hop")
    <3> DEFINE f == [op |-> "select", file |-> NoFile, ids |-> <<Head(n)>>]
    <3>1. f \in QuietSet /\ f \in FrameSet /\ f.op # "hop"
      BY <2>1 DEF QuietSet, FrameSet
    <3> HIDE DEF f
    <3>2. <<f>> \in Seq(FrameSet) /\ Tail(<<f>>) = <<>> /\ Head(<<f>>) = f
      BY <3>1
    <3>3. Tail(<<f>>) \in Seq(QuietSet)
      BY <3>2
    <3>4. stack' = <<f>>
      BY <1>2 DEF f
    <3> QED BY <3>1, <3>2, <3>3, <3>4 DEF StackSet, IsTop
  <2>3. Typed(Mine)
    BY <1>1, OwnIsMine DEF Job
  <2>4. hops' \in Seq(Profile)
    BY <1>2, <2>3, Views
  <2>5. Typed(Mine')
    BY <1>2, <2>2, <2>4, ViewsNext
  <2>6. Typed(Own(t)')
    BY <1>1, <2>5, OwnIsMine
  <2> QED BY <1>1, <2>1, <2>6 DEF Job, Busy
<1>6. ASSUME alone[t] PROVE OnItsWay(t)'
  <2>1. OnItsWay(t)
    BY <1>1, <1>6 DEF ServerInv, Undisturbed
  <2>2. /\ k \in 0..Len(p) /\ n = SubSeq(p, k + 1, Len(p))
        /\ k = 0 => Rests(Here)
        /\ k > 0 => Aims(Here, Prefix(p, k))
        /\ k = 1 => Homing(Here)
        /\ k > 1 => Together(Here)
    BY <1>1, <2>1, OwnIsMine DEF OnItsWay
  <2>3. Len(p) \in Nat
    BY <1>3
  <2>4. k \in 0..(Len(p) - 1) /\ Head(n) = p[k + 1] /\ Tail(n) = SubSeq(p, k + 2, Len(p)) /\ Len(Tail(n)) = Len(p) - (k + 1)
    <3> HIDE DEF p, k, n
    <3> QED BY <1>1, <1>3, <2>2, NamesLeft
  <2>5. Selected(t)' = k + 1
    <3>1. Selected(t)' = Len(p) - Len(Tail(n))
      BY <1>1 DEF Selected
    <3>2. \A m : m = Len(p) - (k + 1) => Len(p) - m = k + 1
      <4>1. k \in 0..(Len(p) - 1)
        BY <2>4
      <4> HIDE DEF p, k
      <4> QED BY <2>3, <4>1
    <3>3. Len(p) - Len(Tail(n)) = k + 1
      BY <2>4, <3>2
    <3> QED BY <3>1, <3>3
  <2>6. k > 0 => sel = Prefix(p, k)
    <3>1. k > 0 => Over(Here, Prefix(p, k))
      BY <1>2, <2>2, Views, EmptyIsZero DEF Aims, Asked, AtWork, Escaping, Tried, Doomed, Over, IsTop
    <3> QED BY <1>2, <3>1, Views DEF Over
  <2>7. Lookup(Profile, sel, p[k + 1]) \subseteq {Prefix(p, k + 1)}
    BY <1>3, <1>4, <2>4, <2>6, NextName DEF Shared
  <2>8. /\ Here'.stack = stack' /\ Here'.sel = sel /\ Here'.cur = cur /\ Here'.alive = alive
        /\ Here'.raised = FALSE
    BY <1>2, ViewsNext
  <2>9. Len(stack') = 1 /\ Head(stack').op = "select" /\ stack'[1].ids[1] = p[k + 1] /\ stack' # <<>> /\ stack'[1].op = "select"
    BY <1>2, <2>4
  <2>10. Aims(Here', Prefix(p, k + 1))
    BY <2>7, <2>8, <2>9 DEF Aims, Asked, IsTop
  <2>11. Homing(Here')
    BY <2>8, <2>9 DEF Homing
  <2>12. k > 0 => cur = sel
    <3>1. k = 1 => cur = MF
      BY <1>2, <2>2, Views DEF Homing
    <3>2. k = 1 => sel = MF
      BY <1>3, <2>6, NameByName
    <3>3. k > 1 => cur = sel
      BY <1>2, <2>2, Views DEF Together
    <3>4. k > 0 => k = 1 \/ k > 1
      BY <2>4
    <3> QED BY <3>1, <3>2, <3>3, <3>4
  <2>13. k > 0 => Together(Here')
    BY <2>8, <2>9, <2>12 DEF Together, IsTop
  <2>14. k + 1 \in 0..Len(p) /\ k + 1 # 0 /\ (k + 1 > 1 => k > 0) /\ (k + 1) + 1 = k + 2
    BY <2>3, <2>4
  <2>15. View(t)' = Here'
    BY <1>1, OwnIsMine
  <2> QED BY <1>1, <2>4, <2>5, <2>10, <2>11, <2>13, <2>14, <2>15 DEF OnItsWay
<1>7. /\ DOMAIN todo' = Threads /\ DOMAIN phase' = Threads /\ DOMAIN names' = Threads /\ DOMAIN answer' = Threads
      /\ \A w \in Threads \ {t} : todo'[w] = todo[w] /\ phase'[w] = phase[w] /\ names'[w] = names[w]
  BY <1>1 DEF ServerInv, Domains
<1> QED BY <1>1, <1>4, <1>5, <1>6, <1>7, RunsKeeps DEF Runs, Busy

LEMMA SelectingKeeps ==
  ASSUME ServerInv, NEW t \in Threads, Selecting(t)
  PROVE  ServerInv'
<1> DEFINE p == First(t).path
           k == Selected(t)
<1>1. /\ Job(t) /\ running = t /\ phase[t] = "path" /\ todo[t] # <<>> /\ Chan!Step
      /\ UNCHANGED <<sched, todo, phase, names, answer, alone>>
      /\ First(t)' = First(t) /\ Selected(t)' = Selected(t)
  BY DEF ServerInv, Job, Selecting, Runs, Busy, First, jobs, Selected
<1>2. p \in Profile
  BY <1>1, PathOfCall DEF ServerInv, Job
<1>3. Shared /\ Typed(Mine) /\ Own(t)' = Mine' /\ View(t) = Here /\ View(t)' = Here'
  BY <1>1, OwnIsMine DEF ServerInv, Job
<1>4. Typed(Mine') /\ Shared'
  BY <1>1, <1>3, StepTyped
<1>5. Job(t)'
  BY <1>1, <1>3, <1>4 DEF Job, Busy
<1>6. ASSUME alone[t] PROVE OnItsWay(t)'
  <2>1. OnItsWay(t)
    BY <1>1, <1>6 DEF ServerInv, Undisturbed
  <2>2. k # 0
    BY <1>1, <1>3, <2>1, StepShape, Views DEF OnItsWay, Rests
  <2>3. k > 0
    BY <2>1, <2>2, <1>2, NameByName DEF OnItsWay
  <2>4. Prefix(p, k) \in Profile /\ (k = 1 => Prefix(p, k) = MF)
    BY <1>2, <2>1, <2>3, NameByName DEF OnItsWay
  <2>5. Aims(Here', Prefix(p, k))
    BY <1>1, <1>3, <2>1, <2>3, <2>4, StepAims DEF OnItsWay
  <2>6. k = 1 => Homing(Here')
    BY <1>1, <1>3, <2>1, <2>3, <2>4, StepHomes DEF OnItsWay
  <2>7. k > 1 => Together(Here')
    BY <1>1, <1>3, <2>1, StepCoheres DEF OnItsWay
  <2> HIDE DEF k
  <2>8. Selected(t)' = k /\ Selected(t) = k
    BY <1>1 DEF k
  <2> QED BY <1>1, <1>3, <2>1, <2>2, <2>5, <2>6, <2>7, <2>8 DEF OnItsWay
<1>7. /\ DOMAIN todo' = Threads /\ DOMAIN phase' = Threads /\ DOMAIN names' = Threads /\ DOMAIN answer' = Threads
      /\ \A w \in Threads \ {t} : todo'[w] = todo[w] /\ phase'[w] = phase[w] /\ names'[w] = names[w]
  BY <1>1 DEF ServerInv, Domains
<1> QED BY <1>1, <1>4, <1>5, <1>6, <1>7, RunsKeeps DEF Runs, Busy

\* The last name is selected: the software and the card are at the file.
LEMMA Arrived ==
  ASSUME ServerInv, NEW t \in Threads, Runs(t), phase[t] = "path", ~InCall(t), ~raised, names[t] = <<>>,
         alone[t]
  PROVE  sel = First(t).path /\ cur = First(t).path
<1> DEFINE p == First(t).path
           k == Selected(t)
<1>1. OnItsWay(t) /\ Job(t) /\ View(t) = Here /\ todo[t] # <<>>
  BY OwnIsMine DEF ServerInv, Undisturbed, Job, Busy, Runs
<1>2. p \in Profile
  BY <1>1, PathOfCall DEF ServerInv, Job
<1>3. p \in Seq(STRING) /\ Len(p) >= 1 /\ Prefix(p, 1) = MF /\ Prefix(p, Len(p)) = p
  BY <1>2, NameByName
<1>4. Len(p) \in Nat
  BY <1>3
<1>5. k = Len(p)
  BY <1>4 DEF Selected
<1>6. stack = <<>>
  BY DEF InCall
<1>7. Aims(Here, p) /\ (Len(p) = 1 => Homing(Here)) /\ (Len(p) > 1 => Together(Here))
  BY <1>1, <1>3, <1>4, <1>5 DEF OnItsWay
<1>8. sel = p
  <2>1. Over(Here, p)
    BY <1>6, <1>7, Views, EmptyIsZero DEF Aims, Asked, AtWork, Escaping, Tried, Doomed, Over, IsTop
  <2> QED BY <2>1, Views DEF Over
<1>9. Len(p) = 1 => cur = MF /\ p = MF
  BY <1>3, <1>6, <1>7, Views DEF Homing
<1>10. Len(p) > 1 => cur = sel
  BY <1>6, <1>7, Views DEF Together
<1>11. Len(p) = 1 \/ Len(p) > 1
  <2>1. Len(p) \in Nat \ {0}
    BY <1>3, <1>4
  <2> HIDE DEF p
  <2> QED BY <2>1, Counting
<1> QED BY <1>8, <1>9, <1>10, <1>11

\* ... and the command that selects it again by its FID does not leave it.
LEMMA FoundAgain ==
  ASSUME sel \in Profile, sel \in EFs, sel \in OnCard, cur = sel, NEW g \in CardFind(cur, Fid[sel])
  PROVE  g = sel
<1>1. sel \in Files \ ADFs /\ sel # MF /\ Parent(sel) = Cwd(sel) /\ sel \notin ADFs \ FsADFs
  BY TreeShape, KnownShape DEF Cwd
<1>2. sel \in FidScope(cur)
  BY <1>1 DEF FidScope
<1>3. g \in FidScope(cur) \cap OnCard /\ Fid[g] = Fid[sel]
  BY DEF CardFind
<1> QED BY <1>2, <1>3, FidUnique

LEMMA ReselectKeeps ==
  ASSUME ServerInv, NEW t \in Threads, Reselect(t)
  PROVE  ServerInv'
<1>1. /\ Job(t) /\ running = t /\ phase[t] = "path" /\ todo[t] # <<>> /\ names[t] = <<>>
      /\ phase' = [phase EXCEPT ![t] = "data"] /\ phase'[t] = "data"
      /\ UNCHANGED <<tree, sel, alive, context, sched, todo, names, answer, alone>>
      /\ First(t)' = First(t) /\ First(t).op \notin {"visit", "write_tlv"}
      /\ ~InCall(t) /\ ~raised /\ sel \in EFs /\ cur' \in CardFind(cur, Fid[sel])
  BY DEF ServerInv, Domains, Job, Reselect, Runs, Busy, First, TypeMatches
<1>2. Shared'
  BY <1>1 DEF ServerInv, Shared, CardFind
<1>3. Job(t)'
  <2>1. Mine' = Mine /\ Own(t)' = Mine /\ Own(t) = Mine
    BY <1>1, OwnIsMine DEF Mine, context
  <2>2. Rests(Mine)
    BY <1>1, Views DEF InCall, Rests
  <2> QED BY <1>1, <2>1, <2>2 DEF Job, Busy
<1>4. ASSUME alone[t] PROVE cur' = First(t)'.path
  <2>1. sel = First(t).path /\ cur = First(t).path
    BY <1>1, <1>4, Arrived DEF Runs
  <2> QED BY <1>1, <2>1, FoundAgain DEF ServerInv, Shared
<1>5. /\ DOMAIN todo' = Threads /\ DOMAIN phase' = Threads /\ DOMAIN names' = Threads /\ DOMAIN answer' = Threads
      /\ \A w \in Threads \ {t} : todo'[w] = todo[w] /\ phase'[w] = phase[w] /\ names'[w] = names[w]
  BY <1>1 DEF ServerInv, Domains
<1> QED BY <1>1, <1>2, <1>3, <1>4, <1>5, RunsKeeps DEF Runs, Busy


LEMMA OpenKeeps ==
  ASSUME ServerInv, NEW t \in Threads, Open(t)
  PROVE  ServerInv'
<1>1. Job(t) /\ running = t /\ Runs(t) /\ phase[t] = "open" /\ todo[t] # <<>> /\ UNCHANGED <<sched, alone>>
  BY DEF ServerInv, Job, Open, Runs, Busy
<1>2. CASE Fail(t) /\ UNCHANGED <<tree, sel, adf, fcp, cur, alive, con, granted>>
  BY <1>1, <1>2, ReturnKeeps DEF Fail
<1>3. CASE /\ tree' = Profile /\ sel' = MF /\ cur' = MF /\ alive' = TRUE
           /\ phase' = [phase EXCEPT ![t] = "publish"] /\ UNCHANGED <<context, todo, names, answer>>
  <2>1. Shared'
    BY <1>3, KnownShape DEF Shared
  <2>2. Mine' = Mine /\ Own(t)' = Mine /\ Own(t) = Mine
    BY <1>1, <1>3, OwnIsMine DEF Mine, context
  <2>3. phase'[t] = "publish" /\ First(t)' = First(t)
    BY <1>3 DEF ServerInv, Domains, First
  <2>4. Job(t)'
    BY <1>1, <1>3, <2>2, <2>3 DEF Job, Busy
  <2>5. /\ DOMAIN todo' = Threads /\ DOMAIN phase' = Threads /\ DOMAIN names' = Threads /\ DOMAIN answer' = Threads
        /\ \A w \in Threads \ {t} : todo'[w] = todo[w] /\ phase'[w] = phase[w] /\ names'[w] = names[w]
    BY <1>3 DEF ServerInv, Domains
  <2> QED BY <1>1, <2>1, <2>3, <2>4, <2>5, RunsKeeps DEF Busy
<1> QED BY <1>2, <1>3 DEF Open

LEMMA PublishKeeps ==
  ASSUME ServerInv, NEW t \in Threads, Publish(t)
  PROVE  ServerInv'
<1> DEFINE infos == [i \in 1..Len(InfoPaths) |-> [op |-> "info", path |-> InfoPaths[i], value |-> NoValue]]
<1>1. /\ Job(t) /\ running = t /\ Runs(t) /\ phase[t] = "publish" /\ todo[t] # <<>> /\ UNCHANGED <<sched, alone>>
      /\ phase' = [phase EXCEPT ![t] = "idle"] /\ todo' = [todo EXCEPT ![t] = infos \o Tail(@)]
      /\ UNCHANGED <<chanVars, names, answer>>
  BY DEF ServerInv, Job, Publish, Runs, Busy
<1>2. infos \in Seq(Calls)
  <2>1. InfoPaths \in Seq(Profile) /\ Len(InfoPaths) \in Nat
    BY ServerAssumption
  <2>2. \A i \in 1..Len(InfoPaths) : InfoPaths[i] \in Profile
    BY <2>1
  <2>3. \A f \in Profile : [op |-> "info", path |-> f, value |-> NoValue] \in Calls
    BY DEF Calls, FileOps
  <2> QED BY <2>1, <2>2, <2>3
<1> HIDE DEF infos
<1>3. phase'[t] = "idle" /\ todo'[t] = infos \o Tail(todo[t]) /\ names'[t] = names[t]
  BY <1>1 DEF ServerInv, Domains
<1>4. todo'[t] \in Seq(Calls)
  BY <1>1, <1>2, <1>3, PathOfCall
<1>5. Mine' = Mine /\ Own(t)' = Mine /\ Own(t) = Mine
  BY <1>1, OwnIsMine DEF Mine, chanVars
<1>6. Job(t)'
  BY <1>1, <1>3, <1>4, <1>5 DEF Job, Busy
<1>7. Shared'
  BY <1>1 DEF ServerInv, Shared, chanVars
<1>8. /\ DOMAIN todo' = Threads /\ DOMAIN phase' = Threads /\ DOMAIN names' = Threads /\ DOMAIN answer' = Threads
      /\ \A w \in Threads \ {t} : todo'[w] = todo[w] /\ phase'[w] = phase[w] /\ names'[w] = names[w]
  BY <1>1 DEF ServerInv, Domains
<1> QED BY <1>1, <1>3, <1>6, <1>7, <1>8, RunsKeeps DEF Busy

LEMMA WritePartKeeps ==
  ASSUME ServerInv, NEW t \in Threads, WritePart(t)
  PROVE  ServerInv'
<1>1. /\ Job(t) /\ running = t /\ phase[t] = "data" /\ todo[t] # <<>>
      /\ phase' = [phase EXCEPT ![t] = "rest"] /\ phase'[t] = "rest"
      /\ UNCHANGED <<tree, sel, cur, alive, context, sched, todo, names, answer, alone>>
      /\ First(t)' = First(t) /\ First(t).op = "write" /\ Runs(t) /\ Busy(t)
  BY DEF ServerInv, Domains, Job, WritePart, Writing, Runs, Busy, First
<1>2. Shared'
  BY <1>1 DEF ServerInv, Shared
<1>3. Job(t)'
  <2>1. Mine' = Mine /\ Own(t)' = Mine /\ Own(t) = Mine
    BY <1>1, OwnIsMine DEF Mine, context
  <2> QED BY <1>1, <2>1 DEF Job, FileOps
<1>4. alone[t] => cur' = First(t)'.path
  BY <1>1 DEF ServerInv, Undisturbed
<1>5. /\ DOMAIN todo' = Threads /\ DOMAIN phase' = Threads /\ DOMAIN names' = Threads /\ DOMAIN answer' = Threads
      /\ \A w \in Threads \ {t} : todo'[w] = todo[w] /\ phase'[w] = phase[w] /\ names'[w] = names[w]
  BY <1>1 DEF ServerInv, Domains
<1> QED BY <1>1, <1>2, <1>3, <1>4, <1>5, RunsKeeps

LEMMA ArriveKeeps ==
  ASSUME ServerInv, NEW t \in Threads, Arrive(t)
  PROVE  ServerInv'
<1>1. /\ Job(t) /\ running = t /\ Runs(t) /\ todo[t] = <<>> /\ UNCHANGED <<chanVars, sched, phase, names, answer, alone>>
      /\ phase[t] = "idle"
  BY DEF ServerInv, Job, Arrive, Runs, Busy
<1>2. PICK r \in Requests : todo' = [todo EXCEPT ![t] = r]
  BY DEF Arrive
<1>3. todo'[t] \in Seq(Calls) /\ DOMAIN todo' = Threads /\ \A w \in Threads \ {t} : todo'[w] = todo[w]
  BY <1>2, ServerAssumption DEF ServerInv, Domains
<1>4. \A u \in Threads \ {t} : Job(u)' /\ Undisturbed(u)'
  BY <1>1, <1>3, Elsewhere DEF chanVars
<1>5. Mine' = Mine /\ Own(t)' = Mine /\ Own(t) = Mine
  BY <1>1, OwnIsMine DEF Mine, chanVars
<1>6. Job(t)'
  BY <1>1, <1>3, <1>5 DEF Job, Busy
<1>7. Undisturbed(t)'
  BY <1>1 DEF ServerInv, Undisturbed, Busy
<1>8. Shared' /\ Domains'
  BY <1>1, <1>3 DEF ServerInv, Shared, Domains, chanVars, sched
<1> QED BY <1>4, <1>6, <1>7, <1>8 DEF ServerInv

\* Another thread goes on: nobody's frames change.
LEMMA SwitchKeeps ==
  ASSUME ServerInv, NEW t \in Threads, Switch(t)
  PROVE  ServerInv'
<1>1. /\ running # t /\ running \in Threads /\ running' = t /\ DOMAIN saved = Threads
      /\ saved' = [saved EXCEPT ![running] = context, ![t] = Fresh]
      /\ stack' = saved[t][1] /\ hops' = saved[t][2] /\ at' = saved[t][3] /\ raised' = saved[t][5]
      /\ UNCHANGED <<tree, sel, cur, alive, jobs>>
  BY DEF Switch, ServerInv, Domains
<1>2. ASSUME NEW u \in Threads PROVE Own(u)' = Own(u) /\ View(u)' = View(u)
  <2>1. CASE u = t
    <3>1. Own(u)' = Mine'
      BY <1>1, <2>1 DEF Own
    <3>2. Own(u) = [stack |-> saved[t][1], hops |-> saved[t][2], at |-> saved[t][3], raised |-> saved[t][5]]
      BY <1>1, <2>1 DEF Own
    <3>3. Mine' = [stack |-> saved[t][1], hops |-> saved[t][2], at |-> saved[t][3], raised |-> saved[t][5]]
      BY <1>1 DEF Mine
    <3> QED BY <1>1, <3>1, <3>2, <3>3 DEF View, See
  <2>2. CASE u = running
    <3>1. saved'[u] = context
      BY <1>1, <2>2
    <3>2. saved'[u][1] = stack /\ saved'[u][2] = hops /\ saved'[u][3] = at /\ saved'[u][5] = raised
      BY <3>1 DEF context
    <3>3. Own(u)' = Mine /\ Own(u) = Mine
      BY <1>1, <2>2, <3>2 DEF Own, Mine
    <3> QED BY <1>1, <3>3 DEF View, See
  <2>3. CASE u # t /\ u # running
    <3>1. saved'[u] = saved[u]
      BY <1>1, <2>3
    <3>2. Own(u)' = Own(u)
      BY <1>1, <2>3, <3>1 DEF Own
    <3> QED BY <1>1, <3>2 DEF View, See
  <2> QED BY <2>1, <2>2, <2>3
<1>3. ASSUME NEW u \in Threads PROVE Job(u)' /\ Undisturbed(u)'
  <2>1. Job(u) /\ Undisturbed(u) /\ Own(u)' = Own(u) /\ View(u)' = View(u)
    BY <1>2 DEF ServerInv
  <2>2. First(u)' = First(u) /\ Selected(u)' = Selected(u) /\ \A w \in Threads : Busy(w)' = Busy(w)
    BY <1>1 DEF First, Selected, Busy, jobs
  <2>3. Job(u)'
    BY <1>1, <2>1, <2>2 DEF Job, jobs
  <2>4. OnItsWay(u)' <=> OnItsWay(u)
    BY <1>1, <2>1, <2>2 DEF OnItsWay, jobs
  <2> QED BY <1>1, <2>1, <2>2, <2>3, <2>4 DEF Undisturbed, jobs
<1>4. Shared' /\ Domains'
  BY <1>1 DEF ServerInv, Shared, Domains, jobs
<1> QED BY <1>3, <1>4 DEF ServerInv

\* A card that is gone refuses what is asked of it from then on.
LEMMA PulledKeeps ==
  ASSUME ServerInv, Pulled
  PROVE  ServerInv'
<1>1. alive' = FALSE /\ UNCHANGED <<tree, sel, cur, context, sched, jobs>>
  BY DEF Pulled
<1>2. ASSUME NEW u \in Threads PROVE Job(u)' /\ Undisturbed(u)'
  <2>1. Job(u) /\ Undisturbed(u)
    BY DEF ServerInv
  <2>2. Own(u)' = Own(u)
    BY <1>1 DEF Own, Mine, context, sched
  <2>3. First(u)' = First(u) /\ Selected(u)' = Selected(u) /\ \A w \in Threads : Busy(w)' = Busy(w)
    BY <1>1 DEF First, Selected, Busy, jobs
  <2>4. Job(u)'
    BY <1>1, <2>1, <2>2, <2>3 DEF Job, jobs
  <2> DEFINE x == View(u)
             y == View(u)'
  <2>5. /\ y.stack = x.stack /\ y.hops = x.hops /\ y.at = x.at /\ y.raised = x.raised
        /\ y.sel = x.sel /\ y.cur = x.cur /\ y.alive = FALSE
    BY <1>1, <2>2 DEF View, See
  <2> HIDE DEF x, y
  <2>6. \A f : Aims(x, f) => Aims(y, f)
    BY <2>5 DEF Aims, Asked, AtWork, WayEnds, Escaping, Tried, Doomed, Over
  <2>7. (Homing(x) => Homing(y)) /\ (Together(x) => Together(y)) /\ (Rests(x) => Rests(y))
    BY <2>5 DEF Homing, Together, Rests
  <2>8. OnItsWay(u) => OnItsWay(u)'
    BY <1>1, <2>3, <2>6, <2>7 DEF OnItsWay, jobs, x, y
  <2> QED BY <1>1, <2>1, <2>3, <2>4, <2>8 DEF Undisturbed, jobs
<1>3. Shared' /\ Domains'
  BY <1>1 DEF ServerInv, Shared, Domains, jobs, sched
<1> QED BY <1>2, <1>3 DEF ServerInv

LEMMA ThreadKeeps ==
  ASSUME ServerInv, NEW t \in Threads, ThreadStep(t)
  PROVE  ServerInv'
<1>1. CASE StartCall(t) \/ StartInfo(t)
  BY <1>1, BeginKeeps DEF StartCall, StartInfo, FileOps, chanVars
<1>2. CASE Connect(t)
  BY <1>2, BeginKeeps DEF Connect
<1>3. CASE SelectNext(t) \/ Selecting(t) \/ Reselect(t) \/ WritePart(t) \/ Open(t) \/ Publish(t)
  BY <1>3, SelectNextKeeps, SelectingKeeps, ReselectKeeps, WritePartKeeps, OpenKeeps, PublishKeeps
<1>4. ASSUME Runs(t), phase[t] # "idle" PROVE todo[t] # <<>>
  BY <1>4 DEF ServerInv, Job, Busy
<1>5. CASE NotConnected(t)
  BY <1>5, ReturnKeeps DEF NotConnected, Fail
<1>6. CASE SelectFailed(t) \/ ReselectFails(t) \/ TransferFails(t) \/ Stale(t) \/ PublishFails(t)
  <2>1. Runs(t) /\ phase[t] # "idle" /\ Fail(t) /\ UNCHANGED <<tree, sel, cur, alive, sched, alone>>
    BY <1>6 DEF SelectFailed, ReselectFails, TransferFails, Stale, PublishFails
  <2> QED BY <1>4, <2>1, ReturnKeeps DEF Fail
<1>7. CASE Visited(t)
  BY <1>4, <1>7, ReturnKeeps DEF Visited
<1>8. CASE Transfer(t)
  <2>1. Runs(t) /\ phase[t] # "idle" /\ UNCHANGED <<tree, sel, cur, alive, sched, alone>>
    BY <1>8 DEF Transfer
  <2>2. PICK v : Return(t, TRUE, cur, v)
    BY <1>8 DEF Transfer
  <2> QED BY <1>4, <2>1, <2>2, ReturnKeeps
<1>9. CASE Verify(t)
  <2>1. Runs(t) /\ todo[t] # <<>> /\ UNCHANGED <<tree, sel, cur, alive, sched>> /\ alone' = [u \in Threads |-> FALSE]
    BY <1>9 DEF Verify
  <2>2. Return(t, TRUE, NoFile, NoContent) \/ Return(t, FALSE, NoFile, NoContent)
    BY <1>9 DEF Verify, Fail
  <2> QED BY <2>1, <2>2, ReturnKeeps
<1> QED BY <1>1, <1>2, <1>3, <1>5, <1>6, <1>7, <1>8, <1>9 DEF ThreadStep

LEMMA StutterKeeps ==
  ASSUME ServerInv, UNCHANGED vars
  PROVE  ServerInv'
<1>1. Shared' /\ Domains'
  BY DEF ServerInv, Shared, Domains, vars, chanVars, jobs, sched
<1>2. ASSUME NEW t \in Threads PROVE Job(t)' /\ Undisturbed(t)'
  <2>1. /\ Job(t) /\ Undisturbed(t) /\ Own(t)' = Own(t) /\ View(t)' = View(t)
        /\ UNCHANGED <<todo, phase, names, alone, cur>>
    BY DEF ServerInv, vars, chanVars, jobs, sched, Own, View, See, Mine
  <2>2. First(t)' = First(t) /\ Selected(t)' = Selected(t) /\ \A w \in Threads : Busy(w)' = Busy(w)
    BY <2>1 DEF First, Selected, Busy
  <2>3. OnItsWay(t)' <=> OnItsWay(t)
    BY <2>1, <2>2 DEF OnItsWay
  <2> QED BY <2>1, <2>2, <2>3 DEF Job, Undisturbed
<1> QED BY <1>1, <1>2 DEF ServerInv

LEMMA NextKeeps == ServerInv /\ [Next]_vars => ServerInv'
<1> SUFFICES ASSUME ServerInv, [Next]_vars PROVE ServerInv'
  OBVIOUS
<1>1. CASE UNCHANGED vars
  BY <1>1, StutterKeeps
<1>2. CASE Pulled
  BY <1>2, PulledKeeps
<1>3. ASSUME NEW t \in Threads, Switch(t) \/ Arrive(t) \/ ThreadStep(t) PROVE ServerInv'
  BY <1>3, SwitchKeeps, ArriveKeeps, ThreadKeeps
<1> QED BY <1>1, <1>2, <1>3 DEF Next

\* The threads' invariant, for any threads, requests, tree and card: a thread
\* that has had the channel to itself since it began is where its call is.
THEOREM ServerInvariant == Spec => []ServerInv
<1>1. Init => ServerInv
  BY InitServer
<1> QED BY <1>1, NextKeeps, PTL DEF Spec


\* Only a transfer tells a client that its command was done, and it tells it
\* about the card's current file.
LEMMA AnswerStep ==
  ASSUME ServerInv, NEW t \in Threads, ThreadStep(t)
  PROVE  \/ answer' = answer
         \/ /\ \A u \in Threads \ {t} : answer'[u] = answer[u]
            /\ DOMAIN answer' = Threads
            /\ \/ answer'[t].ok = FALSE
               \/ /\ phase[t] \in {"data", "rest"} /\ Transfer(t)
                  /\ answer'[t].ok = TRUE /\ answer'[t].file = cur /\ answer'[t].path = First(t).path
                  /\ answer'[t].alone = alone[t]
<1> DEFINE Goal ==
         \/ answer' = answer
         \/ /\ \A u \in Threads \ {t} : answer'[u] = answer[u]
            /\ DOMAIN answer' = Threads
            /\ \/ answer'[t].ok = FALSE
               \/ /\ phase[t] \in {"data", "rest"} /\ Transfer(t)
                  /\ answer'[t].ok = TRUE /\ answer'[t].file = cur /\ answer'[t].path = First(t).path
                  /\ answer'[t].alone = alone[t]
<1>1. ASSUME NEW ok, NEW file, NEW value, Return(t, ok, file, value)
      PROVE  \/ answer' = answer /\ First(t).op \notin Transfers
             \/ /\ First(t).op \in Transfers
                /\ \A u \in Threads \ {t} : answer'[u] = answer[u]
                /\ DOMAIN answer' = Threads
                /\ answer'[t].ok = ok /\ answer'[t].file = file /\ answer'[t].path = First(t).path
                /\ answer'[t].alone = alone[t]
  BY <1>1 DEF Return, ServerInv, Domains
<1>2. CASE StartCall(t) \/ StartInfo(t) \/ Connect(t) \/ SelectNext(t) \/ Selecting(t) \/ Reselect(t)
         \/ WritePart(t) \/ Publish(t)
  BY <1>2 DEF StartCall, StartInfo, Connect, SelectNext, Selecting, Reselect, WritePart, Publish, jobs
<1>3. ASSUME Fail(t) PROVE Goal
  BY <1>1, <1>3 DEF Fail
<1>4. CASE NotConnected(t) \/ SelectFailed(t) \/ ReselectFails(t) \/ TransferFails(t) \/ Stale(t) \/ PublishFails(t)
  <2>1. Fail(t)
    BY <1>4 DEF NotConnected, SelectFailed, ReselectFails, TransferFails, Stale, PublishFails
  <2> QED BY <1>3, <2>1
<1>5. CASE Open(t)
  <2>1. Fail(t) \/ answer' = answer
    BY <1>5 DEF Open
  <2> QED BY <1>3, <2>1
<1>6. CASE Visited(t)
  <2>1. Return(t, TRUE, sel, NoContent) /\ First(t).op \notin Transfers
    BY <1>6 DEF Visited, Transfers
  <2> QED BY <1>1, <2>1
<1>7. CASE Verify(t)
  <2>1. \E ok : Return(t, ok, NoFile, NoContent)
    BY <1>7 DEF Verify, Fail
  <2>2. First(t).op \notin Transfers
    BY <1>7 DEF Verify, Transfers
  <2> QED BY <1>1, <2>1, <2>2
<1>8. CASE Transfer(t)
  <2>1. PICK v : Return(t, TRUE, cur, v)
    BY <1>8 DEF Transfer
  <2>2. phase[t] \in {"data", "rest"}
    BY <1>8 DEF Transfer
  <2> QED BY <1>1, <1>8, <2>1, <2>2
<1> QED BY <1>2, <1>4, <1>5, <1>6, <1>7, <1>8 DEF ThreadStep

\* The other steps leave the answers alone.
LEMMA QuietStep ==
  ASSUME [Next]_vars
  PROVE  answer' = answer \/ \E t \in Threads : ThreadStep(t)
<1>1. \A t \in Threads : Switch(t) \/ Arrive(t) => answer' = answer
  BY DEF Switch, Arrive, jobs
<1>2. Pulled \/ UNCHANGED vars => answer' = answer
  BY DEF Pulled, vars, jobs
<1> QED BY <1>1, <1>2 DEF Next

\* Whatever the calls before it left behind, a call that no other thread
\* disturbed has worked on the file its path names (pysim_wrapper.py:230):
\* whatever number of threads ask what, on any tree and any card.
THEOREM AloneRight == Spec => []AloneIsRight
<1>1. Init => AloneIsRight
  BY InitServer
<1>2. ServerInv /\ AloneIsRight /\ [Next]_vars => AloneIsRight'
  <2> SUFFICES ASSUME ServerInv, AloneIsRight, [Next]_vars PROVE AloneIsRight'
    OBVIOUS
  <2>1. CASE answer' = answer
    BY <2>1 DEF AloneIsRight
  <2>2. ASSUME NEW t \in Threads, ThreadStep(t) PROVE AloneIsRight'
    <3>1. CASE answer' = answer
      BY <3>1 DEF AloneIsRight
    <3>2. CASE /\ \A u \in Threads \ {t} : answer'[u] = answer[u]
               /\ answer'[t].ok = FALSE
      BY <3>2 DEF AloneIsRight
    <3>3. CASE /\ \A u \in Threads \ {t} : answer'[u] = answer[u]
               /\ phase[t] \in {"data", "rest"} /\ answer'[t].file = cur /\ answer'[t].path = First(t).path
               /\ answer'[t].alone = alone[t]
      <4>1. alone[t] => cur = First(t).path
        BY <3>3 DEF ServerInv, Undisturbed
      <4> QED BY <3>3, <4>1 DEF AloneIsRight
    <3> QED BY <2>2, <3>1, <3>2, <3>3, AnswerStep
  <2> QED BY <2>1, <2>2, QuietStep
<1> QED BY <1>1, <1>2, ServerInvariant, PTL DEF Spec

\* With one thread a call is always alone.
OneThread == \A t, u \in Threads : t = u
ByItself  == \A t \in Threads : /\ phase[t] \in {"path", "data", "rest"} => alone[t]
                                /\ answer[t].ok => answer[t].alone

LEMMA ByItselfHolds ==
  ASSUME OneThread
  PROVE  Spec => []ByItself
<1>1. Init => ByItself
  BY DEF Init, ByItself, NoAnswer
<1>2. ServerInv /\ ByItself /\ [Next]_vars => ByItself'
  <2> SUFFICES ASSUME ServerInv, ByItself, [Next]_vars PROVE ByItself'
    OBVIOUS
  <2>1. ASSUME NEW t \in Threads PROVE phase'[t] \in {"path", "data", "rest"} => alone'[t]
    <3>1. CASE UNCHANGED <<phase, alone>>
      BY <3>1 DEF ByItself
    <3>2. ASSUME NEW ok, NEW f, NEW v, NEW u \in Threads, Return(u, ok, f, v) PROVE phase'[t] = "idle"
      BY <3>2, OneThread DEF Return, OneThread, ServerInv, Domains
    <3>3. ASSUME NEW ph, NEW u \in Threads, Begin(u, ph) PROVE alone'[t]
      BY <3>3 DEF Begin, OneThread
    <3>4. ASSUME NEW u \in Threads, phase' = [phase EXCEPT ![u] = "data"], phase[u] = "path", alone' = alone
          PROVE alone'[t]
      BY <3>4 DEF ByItself, OneThread
    <3>8. ASSUME NEW u \in Threads, phase[u] = "data", alone' = alone PROVE alone'[t]
      BY <3>8 DEF ByItself, OneThread
    <3>5. ASSUME NEW u \in Threads, NEW ph, phase' = [phase EXCEPT ![u] = ph] PROVE phase'[t] = ph
      BY <3>5 DEF OneThread, ServerInv, Domains
    <3>6. ASSUME NEW u \in Threads, ThreadStep(u) PROVE phase'[t] \in {"path", "data", "rest"} => alone'[t]
      <4> USE <3>6
      <4>1. CASE StartCall(u) \/ StartInfo(u) \/ Connect(u)
        BY <4>1, <3>3 DEF StartCall, StartInfo, Connect
      <4>2. CASE SelectNext(u) \/ Selecting(u)
        BY <4>2, <3>1 DEF SelectNext, Selecting, jobs
      <4>3. CASE Reselect(u) \/ WritePart(u)
        BY <4>3, <3>4, <3>8 DEF Reselect, WritePart
      <4>4. CASE NotConnected(u) \/ SelectFailed(u) \/ ReselectFails(u) \/ TransferFails(u) \/ Stale(u)
                 \/ PublishFails(u) \/ Visited(u) \/ Transfer(u) \/ Verify(u)
        <5>1. \E ok, f, v : Return(u, ok, f, v)
          BY <4>4 DEF NotConnected, SelectFailed, ReselectFails, TransferFails, Stale, PublishFails,
                      Visited, Transfer, Verify, Fail
        <5> QED BY <3>2, <5>1
      <4>5. CASE Open(u)
        <5>1. Fail(u) \/ phase' = [phase EXCEPT ![u] = "publish"]
          BY <4>5 DEF Open
        <5> QED BY <3>2, <3>5, <5>1 DEF Fail
      <4>6. CASE Publish(u)
        BY <4>6, <3>5 DEF Publish
      <4> QED BY <4>1, <4>2, <4>3, <4>4, <4>5, <4>6 DEF ThreadStep
    <3>7. CASE Pulled \/ UNCHANGED vars \/ \E u \in Threads : Switch(u) \/ Arrive(u)
      <4>1. UNCHANGED <<phase, alone>>
        BY <3>7 DEF Pulled, vars, jobs, Switch, Arrive
      <4> QED BY <3>1, <4>1
    <3> QED BY <3>6, <3>7 DEF Next
  <2>2. ASSUME NEW t \in Threads PROVE answer'[t].ok => answer'[t].alone
    <3>1. CASE answer' = answer
      BY <3>1 DEF ByItself
    <3>2. ASSUME NEW u \in Threads, ThreadStep(u), answer' # answer PROVE answer'[t].ok => answer'[t].alone
      <4>1. u = t
        BY DEF OneThread
      <4>2. \/ answer'[t].ok = FALSE
            \/ phase[t] \in {"data", "rest"} /\ answer'[t].alone = alone[t]
        BY <3>2, <4>1, AnswerStep
      <4> QED BY <4>2 DEF ByItself
    <3> QED BY <3>1, <3>2, QuietStep
  <2> QED BY <2>1, <2>2 DEF ByItself
<1> QED BY <1>1, <1>2, ServerInvariant, PTL DEF Spec

\* One thread: a command that answered success worked on the file its path
\* names, whatever failed before it and whenever the card was pulled.
THEOREM OneThreadActsOnNamedFile ==
  ASSUME OneThread
  PROVE  Spec => []ActsOnNamedFile
<1>1. ByItself /\ AloneIsRight => ActsOnNamedFile
  BY DEF ByItself, AloneIsRight, ActsOnNamedFile
<1>2. Spec => []ByItself
  BY ByItselfHolds
<1> QED BY <1>1, <1>2, AloneRight, PTL


-----------------------------------------------------------------------------
(* With one thread the server is a store of files named by their paths, if *)
(* what it is asked to transfer are files of the card.                     *)

StoreFiles == EFs \cap OnCard
StoreCalls == {c \in Calls : c.op \in Transfers => /\ c.path \in StoreFiles
                                                   /\ c.op \in {"write", "write_tlv"} => c.value \in Values}
AsksForFiles == Requests \subseteq Seq(StoreCalls) /\ InfoPaths \in Seq(StoreFiles)

StoreInv == /\ content \in [StoreFiles -> Values \X Values]
            /\ \A t \in Threads : todo[t] \in Seq(StoreCalls)

\* What the store sees of a thread.
None     == [op |-> "none"]
Refused  == [ok |-> FALSE, value |-> NoContent]
Waits(t) == IF phase[t] \in {"path", "data", "rest"} /\ First(t).op \in Transfers THEN StoreCall(t) ELSE None
Told(t)  == [ok |-> answer[t].ok, value |-> answer[t].value]

LEMMA ReturnInStore ==
  ASSUME ServerInv, StoreInv, NEW t \in Threads, todo[t] # <<>>, NEW ok, NEW file, NEW value,
         Return(t, ok, file, value)
  PROVE  \A u \in Threads : todo'[u] \in Seq(StoreCalls)
<1>1. todo[t] \in Seq(StoreCalls) /\ DOMAIN todo = Threads /\ todo' = [todo EXCEPT ![t] = Tail(@)]
  BY DEF StoreInv, ServerInv, Domains, Return
<1>2. Tail(todo[t]) \in Seq(StoreCalls)
  <2> DEFINE s == todo[t]
  <2> HIDE DEF s
  <2>1. s \in Seq(StoreCalls) /\ s # <<>> => Tail(s) \in Seq(StoreCalls)
    OBVIOUS
  <2> QED BY <1>1, <2>1 DEF s
<1> QED BY <1>1, <1>2 DEF StoreInv

LEMMA StoreHolds ==
  ASSUME AsksForFiles
  PROVE  Spec => []StoreInv
<1>1. Init => StoreInv
  BY DEF Init, StoreInv, StoreFiles
<1>2. ServerInv /\ StoreInv /\ [Next]_vars => StoreInv'
  <2> SUFFICES ASSUME ServerInv, StoreInv, [Next]_vars PROVE StoreInv'
    OBVIOUS
  <2>1. CASE Pulled \/ UNCHANGED vars \/ \E t \in Threads : Switch(t)
    <3>1. UNCHANGED <<content, todo>>
      BY <2>1 DEF Pulled, vars, jobs, Switch
    <3> QED BY <3>1 DEF StoreInv
  <2>2. ASSUME NEW t \in Threads, Arrive(t) PROVE StoreInv'
    <3>1. content' = content /\ \E r \in Requests : todo' = [todo EXCEPT ![t] = r]
      BY <2>2 DEF Arrive
    <3> QED BY <3>1 DEF StoreInv, AsksForFiles, ServerInv, Domains
  <2>3. ASSUME NEW t \in Threads, ThreadStep(t) PROVE StoreInv'
    <3> USE <2>3
    <3>1. Busy(t) => todo[t] # <<>>
      BY DEF ServerInv, Job
    <3>2. ASSUME NEW ok, NEW f, NEW v, Return(t, ok, f, v), todo[t] # <<>>, content' = content PROVE StoreInv'
      BY <3>2, ReturnInStore DEF StoreInv
    <3>3. CASE StartCall(t) \/ StartInfo(t) \/ Connect(t) \/ SelectNext(t) \/ Selecting(t) \/ Reselect(t)
      <4>1. UNCHANGED <<content, todo>>
        BY <3>3 DEF StartCall, StartInfo, Connect, SelectNext, Selecting, Reselect, jobs
      <4> QED BY <4>1 DEF StoreInv
    <3>4. CASE NotConnected(t) \/ SelectFailed(t) \/ ReselectFails(t) \/ TransferFails(t) \/ Stale(t)
               \/ PublishFails(t) \/ Visited(t) \/ Verify(t)
      <4>1. content' = content /\ \E ok, f, v : Return(t, ok, f, v)
        BY <3>4 DEF NotConnected, SelectFailed, ReselectFails, TransferFails, Stale, PublishFails,
                    Visited, Verify, Fail
      <4>2. todo[t] # <<>>
        BY <3>1, <3>4 DEF NotConnected, SelectFailed, ReselectFails, TransferFails, Stale, PublishFails,
                    Visited, Verify, Busy
      <4> QED BY <3>2, <4>1, <4>2
    <3>5. CASE Open(t)
      <4>1. content' = content /\ (Fail(t) \/ todo' = todo) /\ todo[t] # <<>>
        BY <3>1, <3>5 DEF Open, Busy
      <4> QED BY <3>2, <4>1 DEF Fail, StoreInv
    <3>6. CASE Publish(t)
      <4> DEFINE infos == [i \in 1..Len(InfoPaths) |-> [op |-> "info", path |-> InfoPaths[i], value |-> NoValue]]
      <4>1. content' = content /\ todo' = [todo EXCEPT ![t] = infos \o Tail(@)] /\ todo[t] # <<>>
        BY <3>1, <3>6 DEF Publish, Busy
      <4>2. infos \in Seq(StoreCalls)
        <5>1. InfoPaths \in Seq(StoreFiles) /\ InfoPaths \in Seq(Profile) /\ Len(InfoPaths) \in Nat
          BY ServerAssumption DEF AsksForFiles
        <5>2. \A i \in 1..Len(InfoPaths) : InfoPaths[i] \in StoreFiles /\ InfoPaths[i] \in Profile
          BY <5>1
        <5>3. \A f \in StoreFiles \cap Profile : [op |-> "info", path |-> f, value |-> NoValue] \in StoreCalls
          BY DEF StoreCalls, Calls, FileOps
        <5> QED BY <5>1, <5>2, <5>3
      <4>3. todo[t] \in Seq(StoreCalls)
        BY DEF StoreInv
      <4> DEFINE s == todo[t]
      <4> HIDE DEF infos, s
      <4>4. s \in Seq(StoreCalls) /\ s # <<>> => infos \o Tail(s) \in Seq(StoreCalls)
        BY <4>2
      <4>5. infos \o Tail(todo[t]) \in Seq(StoreCalls)
        BY <4>1, <4>3, <4>4 DEF s
      <4> QED BY <4>1, <4>5 DEF StoreInv, ServerInv, Domains
    <3>7. CASE Transfer(t) \/ WritePart(t)
      <4>1. todo[t] # <<>> /\ ((\E v : Return(t, TRUE, cur, v)) \/ todo' = todo)
        BY <3>1, <3>7 DEF Transfer, WritePart, Busy
      <4>2. \A u \in Threads : todo'[u] \in Seq(StoreCalls)
        BY <4>1, ReturnInStore DEF StoreInv
      <4>3. First(t).op = "write" => First(t).value \in Values
        <5> DEFINE s == todo[t]
        <5>1. s \in Seq(StoreCalls) /\ s # <<>>
          BY <4>1 DEF StoreInv
        <5> HIDE DEF s
        <5>2. Head(s) \in StoreCalls
          BY <5>1
        <5> QED BY <5>2 DEF First, StoreCalls, Transfers, s
      <4>4. Writing(t) => First(t).op = "write" /\ cur \in StoreFiles
        BY <3>7 DEF Writing, WritePart, Transfer, Accessible, ServerInv, Job, Shared, StoreFiles
      <4>5. ASSUME Writing(t) PROVE content[cur] \in Values \X Values /\ First(t).value \in Values
        BY <4>3, <4>4, <4>5 DEF StoreInv
      <4>6. \/ content' = content
            \/ Writing(t) /\ \E c : content' = [content EXCEPT ![cur] = c] /\ c \in Values \X Values
        BY <3>7, <4>5 DEF Transfer, WritePart
      <4>7. content' \in [StoreFiles -> Values \X Values]
        BY <4>6 DEF StoreInv
      <4> QED BY <4>2, <4>7 DEF StoreInv
    <3> QED BY <3>3, <3>4, <3>5, <3>6, <3>7 DEF ThreadStep
  <2> QED BY <2>1, <2>2, <2>3 DEF Next
<1> QED BY <1>1, <1>2, ServerInvariant, PTL DEF Spec


\* A write that goes on has written its first part to the file it is about.
PartDone == \A t \in Threads : phase[t] = "rest" => content[cur][1] = First(t).value

LEMMA PartDoneHolds ==
  ASSUME OneThread, AsksForFiles
  PROVE  Spec => []PartDone
<1>1. Init => PartDone
  BY DEF Init, PartDone
<1>2. ServerInv /\ StoreInv /\ PartDone /\ [Next]_vars => PartDone'
  <2> SUFFICES ASSUME ServerInv, StoreInv, PartDone, [Next]_vars, NEW t \in Threads, phase'[t] = "rest"
               PROVE content'[cur'][1] = First(t)'.value
    BY DEF PartDone
  <2>1. CASE UNCHANGED <<phase, content, cur, todo>>
    BY <2>1 DEF PartDone, First
  <2>2. Pulled \/ UNCHANGED vars \/ Switch(t) => UNCHANGED <<phase, content, cur, todo>>
    BY DEF Pulled, vars, chanVars, jobs, Switch
  <2>3. ASSUME Arrive(t) PROVE FALSE
    BY <2>3 DEF Arrive, ServerInv, Job, Busy
  <2>4. ASSUME NEW ok, NEW f, NEW v, Return(t, ok, f, v) PROVE FALSE
    BY <2>4 DEF Return, ServerInv, Domains
  <2>5. ASSUME NEW ph, ph # "rest", phase' = [phase EXCEPT ![t] = ph] PROVE FALSE
    BY <2>5 DEF ServerInv, Domains
  <2>6. CASE ThreadStep(t)
    <3>1. ASSUME StartCall(t) \/ StartInfo(t) \/ Connect(t) PROVE FALSE
      BY <2>5, <3>1 DEF StartCall, StartInfo, Connect, Begin
    <3>2. ASSUME SelectNext(t) \/ Selecting(t) PROVE FALSE
      BY <3>2 DEF SelectNext, Selecting, jobs
    <3>3. ASSUME Reselect(t) \/ Publish(t) PROVE FALSE
      BY <2>5, <3>3 DEF Reselect, Publish
    <3>4. ASSUME NotConnected(t) \/ SelectFailed(t) \/ ReselectFails(t) \/ TransferFails(t) \/ Stale(t)
                 \/ PublishFails(t) \/ Visited(t) \/ Transfer(t) \/ Verify(t)
          PROVE  FALSE
      <4>1. \E ok, f, v : Return(t, ok, f, v)
        BY <3>4 DEF NotConnected, SelectFailed, ReselectFails, TransferFails, Stale, PublishFails,
                    Visited, Transfer, Verify, Fail
      <4> QED BY <2>4, <4>1
    <3>5. ASSUME Open(t) PROVE FALSE
      <4>1. Fail(t) \/ phase' = [phase EXCEPT ![t] = "publish"]
        BY <3>5 DEF Open
      <4> QED BY <2>4, <2>5, <4>1 DEF Fail
    <3>6. CASE WritePart(t)
      <4>1. cur \in StoreFiles
        BY <3>6 DEF WritePart, Accessible, ServerInv, Shared, StoreFiles
      <4>2. content' = [content EXCEPT ![cur] = <<First(t).value, @[2]>>] /\ cur' = cur /\ todo' = todo
        BY <3>6 DEF WritePart
      <4> QED BY <4>1, <4>2 DEF StoreInv, First
    <3> QED BY <2>6, <3>1, <3>2, <3>3, <3>4, <3>5, <3>6 DEF ThreadStep
  <2>7. \A u \in Threads : u = t
    BY DEF OneThread
  <2> QED BY <2>1, <2>2, <2>3, <2>6, <2>7 DEF Next
<1> QED BY <1>1, <1>2, ServerInvariant, StoreHolds, PTL DEF Spec

\* The actions of the store, for the one thread there is.
LEMMA StoreSteps ==
  ASSUME OneThread, NEW t \in Threads
  PROVE  /\ content' = content /\ Waits(t)' = Waits(t) /\ Told(t)' = Told(t) => UNCHANGED Store!storeVars
         /\ content' = content /\ Waits(t) = None /\ Waits(t)' \in Store!Call /\ Told(t)' = Told(t) => Store!Ask(t)
         /\ content' = content /\ Waits(t) = None /\ Waits(t)' = None /\ Told(t)' = Refused => Store!RefuseAtOnce(t)
         /\ content' = content /\ Waits(t) # None /\ Waits(t)' = None /\ Told(t)' = Refused => Store!Serve(t)
         /\ (/\ content' = content /\ Waits(t) # None /\ Waits(t).op = "read" /\ Waits(t)' = None
             /\ Told(t)' = [ok |-> TRUE, value |-> content[Waits(t).path]])
              => Store!Serve(t)
         /\ (/\ content' = [content EXCEPT ![Waits(t).path] = <<Waits(t).value, Waits(t).value>>]
             /\ Waits(t) # None /\ Waits(t).op = "write" /\ Waits(t)' = None
             /\ Told(t)' = [ok |-> TRUE, value |-> NoContent])
              => Store!Serve(t)
         /\ (/\ content' = [content EXCEPT ![Waits(t).path] = <<Waits(t).value, @[2]>>]
             /\ Waits(t) # None /\ Waits(t).op = "write" /\ Waits(t)' = Waits(t) /\ Told(t)' = Told(t))
              => Store!WritePart(t)
<1> DEFINE pend == [u \in Threads |-> Waits(u)]
           ans  == [u \in Threads |-> Told(u)]
           pendp == [u \in Threads |-> Waits(u)']
           ansp  == [u \in Threads |-> Told(u)']
<1>1. Threads = {t}
  BY DEF OneThread
<1>2. /\ pend[t] = Waits(t) /\ ans[t] = Told(t)
      /\ \A v : pendp = [pend EXCEPT ![t] = v] <=> Waits(t)' = v
      /\ \A v : ansp = [ans EXCEPT ![t] = v] <=> Told(t)' = v
      /\ pendp = pend <=> Waits(t)' = Waits(t)
      /\ ansp = ans <=> Told(t)' = Told(t)
  BY <1>1
<1>3. /\ Store!storeVars = <<content, pend, ans>>
      /\ Store!storeVars' = <<content', pendp, ansp>>
  BY DEF Store!storeVars, Waits, Told, None
<1>4. Store!Ask(t) <=> /\ pend[t] = None
                       /\ \E c \in Store!Call : pendp = [pend EXCEPT ![t] = c]
                       /\ content' = content /\ ansp = ans
  BY DEF Store!Ask, Waits, Told, None
<1>5. Store!RefuseAtOnce(t) <=> /\ pend[t] = None /\ ansp = [ans EXCEPT ![t] = Refused]
                                /\ content' = content /\ pendp = pend
  BY DEF Store!RefuseAtOnce, Store!Refusal, Store!NoContent, NoContent, Refused, Waits, Told, None
<1>6. Store!Refuse(t) <=> /\ pend[t] # None /\ ansp = [ans EXCEPT ![t] = Refused] /\ content' = content
  BY DEF Store!Refuse, Store!Refusal, Store!NoContent, NoContent, Refused, Waits, Told, None
<1>7. Store!Read(t) <=> /\ pend[t] # None /\ pend[t].op = "read"
                        /\ ansp = [ans EXCEPT ![t] = [ok |-> TRUE, value |-> content[pend[t].path]]]
                        /\ content' = content
  BY DEF Store!Read, Waits, Told, None
<1>8. Store!Write(t) <=> /\ pend[t] # None /\ pend[t].op = "write"
                         /\ content' = [content EXCEPT ![pend[t].path] = <<pend[t].value, pend[t].value>>]
                         /\ ansp = [ans EXCEPT ![t] = [ok |-> TRUE, value |-> NoContent]]
  BY DEF Store!Write, Store!NoContent, NoContent, Waits, Told, None
<1>18. Store!WritePart(t) <=> /\ pend[t] # None /\ pend[t].op = "write"
                              /\ content' = [content EXCEPT ![pend[t].path] = <<pend[t].value, @[2]>>]
                              /\ pendp = pend /\ ansp = ans
  BY DEF Store!WritePart, Waits, Told, None
<1>9. Store!Serve(t) <=> /\ Store!Read(t) \/ Store!Write(t) \/ Store!Refuse(t)
                         /\ pendp = [pend EXCEPT ![t] = None]
  BY DEF Store!Serve, Waits, None
<1> HIDE DEF pend, ans, pendp, ansp
<1>10. content' = content /\ Waits(t)' = Waits(t) /\ Told(t)' = Told(t) => UNCHANGED Store!storeVars
  BY <1>2, <1>3
<1>11. content' = content /\ Waits(t) = None /\ Waits(t)' \in Store!Call /\ Told(t)' = Told(t) => Store!Ask(t)
  BY <1>2, <1>4
<1>12. content' = content /\ Waits(t) = None /\ Waits(t)' = None /\ Told(t)' = Refused => Store!RefuseAtOnce(t)
  BY <1>2, <1>5
<1>13. content' = content /\ Waits(t) # None /\ Waits(t)' = None /\ Told(t)' = Refused => Store!Serve(t)
  BY <1>2, <1>6, <1>9
<1>14. ASSUME content' = content, Waits(t) # None, Waits(t).op = "read", Waits(t)' = None,
              Told(t)' = [ok |-> TRUE, value |-> content[Waits(t).path]]
       PROVE  Store!Serve(t)
  <2>1. pendp = [pend EXCEPT ![t] = None]
    BY <1>2, <1>14
  <2>2. ansp = [ans EXCEPT ![t] = [ok |-> TRUE, value |-> content[pend[t].path]]]
    BY <1>2, <1>14
  <2>3. Store!Read(t)
    BY <1>2, <1>7, <1>14, <2>2
  <2> QED BY <1>9, <2>1, <2>3
<1>15. ASSUME content' = [content EXCEPT ![Waits(t).path] = <<Waits(t).value, Waits(t).value>>],
              Waits(t) # None, Waits(t).op = "write", Waits(t)' = None,
              Told(t)' = [ok |-> TRUE, value |-> NoContent]
       PROVE  Store!Serve(t)
  <2>1. pendp = [pend EXCEPT ![t] = None] /\ ansp = [ans EXCEPT ![t] = [ok |-> TRUE, value |-> NoContent]]
    BY <1>2, <1>15
  <2>2. content' = [content EXCEPT ![pend[t].path] = <<pend[t].value, pend[t].value>>]
    BY <1>2, <1>15
  <2>3. Store!Write(t)
    BY <1>2, <1>8, <1>15, <2>1, <2>2
  <2> QED BY <1>9, <2>1, <2>3
<1>16. (/\ content' = content /\ Waits(t) # None /\ Waits(t).op = "read" /\ Waits(t)' = None
        /\ Told(t)' = [ok |-> TRUE, value |-> content[Waits(t).path]])
         => Store!Serve(t)
  BY <1>14
<1>17. (/\ content' = [content EXCEPT ![Waits(t).path] = <<Waits(t).value, Waits(t).value>>]
        /\ Waits(t) # None /\ Waits(t).op = "write" /\ Waits(t)' = None
        /\ Told(t)' = [ok |-> TRUE, value |-> NoContent])
         => Store!Serve(t)
  BY <1>15
<1>19. (/\ content' = [content EXCEPT ![Waits(t).path] = <<Waits(t).value, @[2]>>]
        /\ Waits(t) # None /\ Waits(t).op = "write" /\ Waits(t)' = Waits(t) /\ Told(t)' = Told(t))
         => Store!WritePart(t)
  BY <1>2, <1>18
<1> QED BY <1>10, <1>11, <1>12, <1>13, <1>16, <1>17, <1>19

\* What a call that waits asks of the store.
LEMMA CallOfStore ==
  ASSUME StoreInv, NEW t \in Threads, todo[t] # <<>>
  PROVE  /\ First(t).op \in Transfers => First(t).path \in StoreFiles /\ StoreCall(t) \in Store!Call /\ StoreCall(t) # None
         /\ First(t).op \in {"write", "write_tlv"} =>
              StoreCall(t) = [op |-> "write", path |-> First(t).path, value |-> First(t).value]
         /\ First(t).op \notin {"write", "write_tlv"} => StoreCall(t) = [op |-> "read", path |-> First(t).path]
<1>1. First(t) \in StoreCalls
  <2> DEFINE s == todo[t]
  <2>1. s \in Seq(StoreCalls) /\ s # <<>>
    BY DEF StoreInv
  <2> HIDE DEF s
  <2>2. Head(s) \in StoreCalls
    BY <2>1
  <2> QED BY <2>2 DEF First, s
<1>2. /\ First(t).op \in {"write", "write_tlv"} =>
           StoreCall(t) = [op |-> "write", path |-> First(t).path, value |-> First(t).value]
      /\ First(t).op \notin {"write", "write_tlv"} => StoreCall(t) = [op |-> "read", path |-> First(t).path]
  BY DEF StoreCall
<1>3. First(t).op \in Transfers => /\ First(t).path \in StoreFiles
                                   /\ First(t).op \in {"write", "write_tlv"} => First(t).value \in Values
  BY <1>1 DEF StoreCalls
<1>4. Store!Call = [op : {"read"}, path : StoreFiles] \cup [op : {"write"}, path : StoreFiles, value : Values]
  BY DEF Store!Call, StoreFiles
<1>5. ASSUME First(t).op \in Transfers PROVE StoreCall(t) \in Store!Call /\ StoreCall(t) # None
  <2>1. CASE First(t).op \in {"write", "write_tlv"}
    <3>1. StoreCall(t) \in Store!Call
      BY <1>2, <1>3, <1>4, <1>5, <2>1
    <3>2. StoreCall(t).op = "write" /\ None.op = "none"
      BY <1>2, <2>1 DEF None
    <3> QED BY <3>1, <3>2
  <2>2. CASE First(t).op \notin {"write", "write_tlv"}
    <3>1. StoreCall(t) \in Store!Call
      BY <1>2, <1>3, <1>4, <1>5, <2>2
    <3>2. StoreCall(t).op = "read" /\ None.op = "none"
      BY <1>2, <2>2 DEF None
    <3> QED BY <3>1, <3>2
  <2> QED BY <2>1, <2>2
<1> QED BY <1>2, <1>3, <1>5

\* A call that is over: refused, or done without a transfer.
LEMMA ReturnRefines ==
  ASSUME OneThread, ServerInv, StoreInv, NEW t \in Threads, todo[t] # <<>>, content' = content,
         \/ Fail(t)
         \/ First(t).op \notin Transfers /\ \E ok, f, v : Return(t, ok, f, v)
  PROVE  Store!StoreNext \/ UNCHANGED Store!storeVars
<1>1. Waits(t)' = None
  BY DEF Fail, Return, ServerInv, Domains, Waits
<1>2. CASE First(t).op \notin Transfers
  <2>1. answer' = answer
    BY <1>2 DEF Fail, Return
  <2>2. Told(t)' = Told(t) /\ Waits(t) = None
    BY <1>2, <2>1 DEF Told, Waits
  <2> QED BY <1>1, <2>2, StoreSteps
<1>3. CASE First(t).op \in Transfers
  <2>1. answer'[t].ok = FALSE /\ answer'[t].value = NoContent
    BY <1>3 DEF Fail, Return, ServerInv, Domains
  <2>2. Told(t)' = Refused
    BY <2>1 DEF Told, Refused
  <2>3. Store!Serve(t) \/ Store!RefuseAtOnce(t)
    BY <1>1, <2>2, StoreSteps
  <2> QED BY <2>3 DEF Store!StoreNext
<1> QED BY <1>2, <1>3

\* The transfer is the moment at which a call takes effect.
LEMMA TransferRefines ==
  ASSUME OneThread, ServerInv, StoreInv, PartDone, ByItself, NEW t \in Threads, Transfer(t)
  PROVE  Store!StoreNext
<1>1. /\ phase[t] \in {"data", "rest"} /\ todo[t] # <<>> /\ First(t).op \in FileOps \ {"visit", "write_tlv"} /\ cur = First(t).path
  BY DEF Transfer, ServerInv, Job, Undisturbed, ByItself, Busy
<1>2. First(t).op \in Transfers /\ First(t).op # "write_tlv"
  BY <1>1 DEF FileOps, Transfers
<1>3. Waits(t) = StoreCall(t) /\ Waits(t) # None
  BY <1>1, <1>2, CallOfStore DEF Waits
<1>4. Waits(t)' = None
  BY DEF Transfer, Return, ServerInv, Domains, Waits
<1>5. ASSUME NEW v, Return(t, TRUE, cur, v) PROVE Told(t)' = [ok |-> TRUE, value |-> v]
  <2>1. answer'[t].ok = TRUE /\ answer'[t].value = v
    BY <1>2, <1>5 DEF Return, ServerInv, Domains
  <2> QED BY <2>1 DEF Told
<1>6. CASE First(t).op = "write"
  <2>1. Waits(t) = [op |-> "write", path |-> cur, value |-> First(t).value]
    BY <1>1, <1>3, <1>6, CallOfStore
  <2>2. content' = [content EXCEPT ![cur] = <<First(t).value, First(t).value>>] /\ Return(t, TRUE, cur, NoContent)
    <3>1. Writing(t) /\ (phase[t] = "rest" => content[cur][1] = First(t).value)
      BY <1>1, <1>6 DEF Writing, PartDone
    <3> QED BY <3>1 DEF Transfer
  <2>3. Told(t)' = [ok |-> TRUE, value |-> NoContent]
    BY <1>5, <2>2
  <2>4. Waits(t).op = "write" /\ Waits(t).path = cur /\ Waits(t).value = First(t).value
    BY <2>1
  <2>5. content' = [content EXCEPT ![Waits(t).path] = <<Waits(t).value, Waits(t).value>>]
    BY <2>2, <2>4
  <2>6. Store!Serve(t)
    BY <1>3, <1>4, <2>3, <2>4, <2>5, StoreSteps
  <2> QED BY <2>6 DEF Store!StoreNext
<1>7. CASE First(t).op # "write"
  <2>1. Waits(t) = [op |-> "read", path |-> cur]
    BY <1>1, <1>2, <1>3, <1>7, CallOfStore
  <2>2. content' = content /\ Return(t, TRUE, cur, content[cur])
    <3>1. ~Writing(t)
      BY <1>1, <1>7 DEF Writing, ServerInv, Job
    <3> QED BY <3>1 DEF Transfer
  <2>3. Told(t)' = [ok |-> TRUE, value |-> content[cur]]
    BY <1>5, <2>2
  <2>4. Waits(t).op = "read" /\ Waits(t).path = cur
    BY <2>1
  <2>5. Store!Serve(t)
    BY <1>3, <1>4, <2>2, <2>3, <2>4, StoreSteps
  <2> QED BY <2>5 DEF Store!StoreNext
<1> QED BY <1>6, <1>7

\* A part of what is to be written, on the file the call is about.
LEMMA WritePartRefines ==
  ASSUME OneThread, ServerInv, StoreInv, ByItself, NEW t \in Threads, WritePart(t)
  PROVE  Store!StoreNext
<1>1. /\ phase[t] = "data" /\ todo[t] # <<>> /\ First(t).op = "write" /\ cur = First(t).path
      /\ phase'[t] = "rest" /\ UNCHANGED <<todo, answer>>
      /\ content' = [content EXCEPT ![cur] = <<First(t).value, @[2]>>]
  BY DEF WritePart, Writing, ServerInv, Domains, Job, Undisturbed, ByItself, Busy
<1>2. Waits(t) = StoreCall(t) /\ Waits(t)' = Waits(t) /\ Told(t)' = Told(t) /\ First(t).op \in Transfers
  BY <1>1 DEF Waits, StoreCall, First, Told, Transfers
<1>3. Waits(t) # None /\ Waits(t).op = "write" /\ Waits(t).path = cur /\ Waits(t).value = First(t).value
  BY <1>1, <1>2, CallOfStore
<1>4. content' = [content EXCEPT ![Waits(t).path] = <<Waits(t).value, @[2]>>]
  BY <1>1, <1>3
<1>5. Store!WritePart(t)
  BY <1>2, <1>3, <1>4, StoreSteps
<1> QED BY <1>5 DEF Store!StoreNext

\* A call that begins.
LEMMA BeginRefines ==
  ASSUME OneThread, ServerInv, StoreInv, NEW t \in Threads, NEW ph, Begin(t, ph), UNCHANGED <<todo, answer, content>>
  PROVE  Store!StoreNext \/ UNCHANGED Store!storeVars
<1>1. phase[t] = "idle" /\ todo[t] # <<>> /\ phase'[t] = ph
  BY DEF Begin, ServerInv, Domains
<1>2. Waits(t) = None /\ Told(t)' = Told(t) /\ First(t)' = First(t) /\ StoreCall(t)' = StoreCall(t)
  BY <1>1 DEF Waits, Told, First, StoreCall
<1>3. CASE ph \in {"path", "data", "rest"} /\ First(t).op \in Transfers
  <2>1. Waits(t)' = StoreCall(t)
    BY <1>1, <1>2, <1>3 DEF Waits
  <2>2. StoreCall(t) \in Store!Call
    BY <1>1, <1>3, CallOfStore
  <2>3. Store!Ask(t)
    BY <1>2, <2>1, <2>2, StoreSteps
  <2> QED BY <2>3 DEF Store!StoreNext
<1>4. CASE ~(ph \in {"path", "data", "rest"} /\ First(t).op \in Transfers)
  <2>1. Waits(t)' = None
    BY <1>1, <1>2, <1>4 DEF Waits
  <2> QED BY <1>2, <2>1, StoreSteps
<1> QED BY <1>3, <1>4

LEMMA NextRefines ==
  ASSUME OneThread, ServerInv, StoreInv, PartDone, ByItself, [Next]_vars
  PROVE  Store!StoreNext \/ UNCHANGED Store!storeVars
<1>1. ASSUME NEW t \in Threads, UNCHANGED <<content, answer>>, Waits(t)' = Waits(t) PROVE UNCHANGED Store!storeVars
  <2>1. Told(t)' = Told(t)
    BY <1>1 DEF Told
  <2> QED BY <1>1, <2>1, StoreSteps
<1>2. ASSUME NEW t \in Threads, UNCHANGED <<content, answer, phase, todo>> PROVE UNCHANGED Store!storeVars
  <2>1. Waits(t)' = Waits(t)
    BY <1>2 DEF Waits, StoreCall, First
  <2> QED BY <1>1, <1>2, <2>1
<1>3. PICK t : t \in Threads
  BY DEF ServerInv, Domains
<1>4. CASE Pulled \/ UNCHANGED vars \/ Switch(t)
  <2>1. UNCHANGED <<content, answer, phase, todo>>
    BY <1>4 DEF Pulled, vars, jobs, Switch
  <2> QED BY <1>2, <1>3, <2>1
<1>5. Busy(t) => todo[t] # <<>>
  BY <1>3 DEF ServerInv, Job
<1>6. CASE Arrive(t)
  <2>1. phase[t] = "idle" /\ phase' = phase /\ UNCHANGED <<content, answer>>
    BY <1>5, <1>6 DEF Arrive, Busy
  <2>2. Waits(t) = None /\ Waits(t)' = None
    BY <2>1 DEF Waits
  <2> QED BY <1>1, <1>3, <2>1, <2>2
<1>7. CASE StartCall(t) \/ StartInfo(t) \/ Connect(t)
  BY <1>3, <1>7, BeginRefines DEF StartCall, StartInfo, Connect
<1>8. CASE SelectNext(t) \/ Selecting(t)
  <2>1. UNCHANGED <<content, answer, phase, todo>>
    BY <1>8 DEF SelectNext, Selecting, jobs
  <2> QED BY <1>2, <1>3, <2>1
<1>9. CASE Reselect(t)
  <2>1. phase[t] = "path" /\ phase'[t] = "data" /\ UNCHANGED <<content, answer, todo>>
    BY <1>3, <1>9 DEF Reselect, ServerInv, Domains
  <2>2. Waits(t)' = Waits(t)
    BY <2>1 DEF Waits, StoreCall, First
  <2> QED BY <1>1, <1>3, <2>1, <2>2
<1>10. CASE NotConnected(t) \/ SelectFailed(t) \/ ReselectFails(t) \/ TransferFails(t) \/ Stale(t) \/ PublishFails(t)
  <2>1. Fail(t) /\ content' = content /\ todo[t] # <<>>
    BY <1>5, <1>10 DEF NotConnected, SelectFailed, ReselectFails, TransferFails, Stale, PublishFails, Busy
  <2> QED BY <1>3, <2>1, ReturnRefines
<1>11. CASE Visited(t) \/ Verify(t)
  <2>1. /\ First(t).op \notin Transfers /\ content' = content /\ todo[t] # <<>>
        /\ \E ok, f, v : Return(t, ok, f, v)
    BY <1>5, <1>11 DEF Visited, Verify, Fail, Transfers, Busy
  <2> QED BY <1>3, <2>1, ReturnRefines
<1>12. CASE Open(t)
  <2>1. CASE Fail(t)
    <3>1. content' = content /\ todo[t] # <<>>
      BY <1>5, <1>12 DEF Open, Busy
    <3> QED BY <1>3, <2>1, <3>1, ReturnRefines
  <2>2. CASE phase' = [phase EXCEPT ![t] = "publish"] /\ UNCHANGED <<todo, answer>>
    <3>1. Waits(t) = None /\ Waits(t)' = None /\ content' = content
      BY <1>3, <1>12, <2>2 DEF Open, Waits, ServerInv, Domains
    <3> QED BY <1>1, <1>3, <2>2, <3>1
  <2> QED BY <1>12, <2>1, <2>2 DEF Open
<1>13. CASE Publish(t)
  <2>1. Waits(t) = None /\ Waits(t)' = None /\ UNCHANGED <<content, answer>>
    BY <1>3, <1>13 DEF Publish, Waits, ServerInv, Domains
  <2> QED BY <1>1, <1>3, <2>1
<1>14. CASE Transfer(t) \/ WritePart(t)
  BY <1>3, <1>14, TransferRefines, WritePartRefines
<1>15. \A u \in Threads : u = t
  BY <1>3 DEF OneThread
<1>16. Switch(t) \/ Arrive(t) \/ ThreadStep(t) \/ Pulled \/ UNCHANGED vars
  BY <1>15 DEF Next
<1> QED BY <1>4, <1>6, <1>7, <1>8, <1>9, <1>10, <1>11, <1>12, <1>13, <1>14, <1>16 DEF ThreadStep

\* One thread: a call that answers success took effect as a whole on the file
\* its path names and on no other; one that answers an error changed nothing, or
\* left a part of its data in that file (FileStore; commands.py:385-404).
THEOREM ServerIsFileStore ==
  ASSUME OneThread, AsksForFiles
  PROVE  Spec => ImplementsFileStore
<1>1. Init => Store!StoreInit
  <2> SUFFICES ASSUME Init PROVE Store!StoreInit
    OBVIOUS
  <2>1. content \in [EFs \cap OnCard -> Values \X Values]
    BY DEF Init
  <2>2. \A t \in Threads : phase[t] = "idle" /\ answer[t].ok = FALSE /\ answer[t].value = NoContent
    BY DEF Init, NoAnswer
  <2> QED BY <2>1, <2>2 DEF Store!StoreInit, Store!Refusal, Store!Content, Store!NoContent, NoContent
<1>2. Spec => []StoreInv
  BY StoreHolds
<1>3. Spec => []ByItself
  BY ByItselfHolds
<1>5. Spec => []PartDone
  BY PartDoneHolds
<1>4. ServerInv /\ StoreInv /\ PartDone /\ ByItself /\ [Next]_vars => [Store!StoreNext]_Store!storeVars
  BY NextRefines
<1> QED BY <1>1, <1>2, <1>3, <1>4, <1>5, ServerInvariant, PTL DEF Spec, ImplementsFileStore, Store!StoreSpec


=============================================================================
