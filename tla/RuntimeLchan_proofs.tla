------------------------- MODULE RuntimeLchan_proofs -------------------------
(***************************************************************************)
(* The logical channel follows the card and keeps the promise of           *)
(* LchanSpec, for every tree, every card and every set of requests.        *)
(*                                                                         *)
(* The invariant says which stacks of calls there can be, and what each    *)
(* call on them still owes its caller.  A request that selects by name has *)
(* at most three calls on the stack: the loop over the path, select() of   *)
(* one name or its except clause, and select_file().  When select_file()   *)
(* leaves an application without a file system, one more select() and the  *)
(* select_file() it calls lie above them (the "inner" calls).              *)
(***************************************************************************)
EXTENDS RuntimeLchan, SequenceTheorems, WellFoundedInduction, TLAPS

(***************************************************************************)
(* The file tree of CardFs: prefixes of paths, and what                    *)
(* build_select_path_to() returns.                                         *)
(***************************************************************************)
\* A non-empty set of numbers up to n has a greatest element.
LEMMA MaxExists ==
  ASSUME NEW n \in Nat, NEW S \in SUBSET (1..n), S # {}
  PROVE  \E i \in S : \A j \in S : j <= i
<1> DEFINE T == {n - i : i \in S}
<1>1. T \subseteq Nat /\ T # {}
  <2>1. \A i \in S : i \in 1..n /\ n - i \in Nat
    OBVIOUS
  <2>2. T \subseteq Nat
    BY <2>1
  <2>3. PICK i \in S : TRUE
    OBVIOUS
  <2>4. n - i \in T
    BY <2>3
  <2> QED BY <2>2, <2>4
<1>2. \E x \in T : \A y \in T : <<y, x>> \notin OpToRel(<, Nat)
  <2> HIDE DEF T
  <2> QED BY <1>1, WFMin, NatLessThanWellFounded, Zenon
<1>3. PICK x \in T : \A y \in T : <<y, x>> \notin OpToRel(<, Nat)
  BY <1>2, Zenon
<1>4. PICK i \in S : x = n - i
  BY <1>3, Zenon
<1>5. ASSUME NEW j \in S PROVE j <= i
  <2>1. n - j \in T
    OBVIOUS
  <2>2. ~(n - j < x)
    <3> HIDE DEF T
    <3> QED BY <1>1, <1>3, <2>1, Zenon DEF OpToRel
  <2>3. i \in 1..n /\ j \in 1..n
    OBVIOUS
  <2> QED BY <2>2, <2>3, <1>4, SMT
<1> QED BY <1>5, Zenon

\* Prefixes are paths, and a prefix of a prefix is a prefix.
LEMMA PrefixFacts ==
  ASSUME NEW f \in Seq(STRING), NEW n \in 1..Len(f)
  PROVE  /\ Prefix(f, n) \in Seq(STRING) /\ Len(Prefix(f, n)) = n
         /\ \A m \in 1..n : Prefix(Prefix(f, n), m) = Prefix(f, m)
         /\ Prefix(f, Len(f)) = f
BY DEF Prefix

\* The directory that holds a prefix is the prefix one shorter.
LEMMA ParentOfPrefix ==
  ASSUME NEW f \in Files, NEW n \in 2..Len(f)
  PROVE  Parent(Prefix(f, n)) = Prefix(f, n - 1) /\ Prefix(f, n) # MF
<1>1. f \in Seq(STRING) /\ Len(MF) = 1
  BY TreeShape
<1>2. Len(Prefix(f, n)) = n /\ Prefix(Prefix(f, n), n - 1) = Prefix(f, n - 1)
  BY <1>1, PrefixFacts
<1> QED BY <1>1, <1>2 DEF Parent

\* A set of files that holds the directories of each of its files.
IsTree(T) == T \subseteq Files /\ MF \in T /\ \A f \in T : Dirs(f) \subseteq T

\* A prefix of a file is a file, and a proper one is a directory.
LEMMA PrefixIsFile ==
  ASSUME NEW T, IsTree(T), NEW f \in T, NEW m \in 1..Len(f)
  PROVE  Prefix(f, m) \in T /\ (m < Len(f) => Prefix(f, m) \notin EFs)
<1>1. f \in Seq(STRING) /\ Dirs(f) \subseteq T \ EFs /\ Prefix(f, Len(f)) = f
  BY TreeShape, PrefixFacts DEF IsTree
<1>2. CASE m = Len(f)
  BY <1>1, <1>2
<1>3. CASE m # Len(f)
  <2>1. Prefix(f, m) \in Dirs(f)
    BY <1>1, <1>3 DEF Dirs
  <2> QED BY <2>1, <1>1
<1> QED BY <1>2, <1>3

\* One SELECT away, as the hops of select_file() are: an application, the MF,
\* the directory above, or a file of this directory.
Near(f, g) == \/ g \in ADFs \/ g = MF
              \/ g = Parent(f)
              \/ g # MF /\ Parent(g) = f /\ f \notin EFs

IsChainFrom(f, path) ==
  \A i \in 1..Len(path) : Near(IF i = 1 THEN f ELSE path[i - 1], path[i])

\* Every path has the MF in common with every other below the MF, so the
\* deepest common directory exists.
LEMMA CommonDepthFacts ==
  ASSUME NEW here \in Files, NEW target \in Files \ {MF}
  PROVE  /\ CommonDepth(here, target) \in 1..(Len(target) - 1)
         /\ CommonDepth(here, target) <= Len(here)
         /\ Prefix(here, CommonDepth(here, target)) = Prefix(target, CommonDepth(here, target))
         /\ \A n \in 1..(Len(target) - 1) :
              n <= Len(here) /\ Prefix(here, n) = Prefix(target, n) => n <= CommonDepth(here, target)
<1> DEFINE K == {k \in 1..(Len(target) - 1) : k <= Len(here) /\ Prefix(here, k) = Prefix(target, k)}
<1>1. /\ here \in Seq(STRING) /\ target \in Seq(STRING) /\ MF \in Seq(STRING)
      /\ Len(here) >= 1 /\ Len(target) >= 1 /\ Len(MF) = 1
      /\ Prefix(here, 1) = MF /\ Prefix(target, 1) = MF
  BY TreeShape
<1>2. Len(target) # 1
  <2>1. Prefix(target, Len(target)) = target
    BY <1>1, PrefixFacts
  <2> QED BY <1>1, <2>1
<1>3. 1 \in K
  BY <1>1, <1>2
<1>4. Len(target) - 1 \in Nat /\ K \in SUBSET (1..(Len(target) - 1))
  BY <1>1
<1>5. \E k \in K : \A n \in K : n <= k
  <2> HIDE DEF K
  <2> QED BY <1>3, <1>4, MaxExists
<1>6. PICK k \in K : \A n \in K : n <= k
  BY <1>5
<1> DEFINE P(m) == /\ m <= Len(here)
                   /\ Prefix(here, m) = Prefix(target, m)
                   /\ \A n \in 1..(Len(target) - 1) :
                        n <= Len(here) /\ Prefix(here, n) = Prefix(target, n) => n <= m
<1>7. k \in 1..(Len(target) - 1) /\ P(k)
  BY <1>6
<1>8. CommonDepth(here, target) = CHOOSE m \in 1..(Len(target) - 1) : P(m)
  BY DEF CommonDepth
<1>9. CommonDepth(here, target) \in 1..(Len(target) - 1) /\ P(CommonDepth(here, target))
  <2> HIDE DEF P
  <2> QED BY <1>7, <1>8
<1> QED BY <1>9

\* The unclipped path: its length, its elements and its end.
LEMMA UpDownFacts ==
  ASSUME NEW T, IsTree(T), NEW here \in T, NEW target \in T \ {MF}
  PROVE  /\ UpDown(here, target) \in Seq(T)
         /\ Len(UpDown(here, target)) > 0
         /\ UpDown(here, target)[Len(UpDown(here, target))] = target
         /\ IsChainFrom(here, UpDown(here, target))
         /\ \A i \in 1..(Len(UpDown(here, target)) - 1) :
              UpDown(here, target)[i] \in Dirs(here) \cup Dirs(target)
<1> DEFINE k  == CommonDepth(here, target)
           up == Len(here) - k
           n  == up + Len(target) - k
           path == UpDown(here, target)
           hop(i) == IF i <= up THEN Prefix(here, Len(here) - i) ELSE Prefix(target, k + i - up)
<1>0. here \in Files /\ target \in Files \ {MF}
  BY DEF IsTree
<1>1. /\ here \in Seq(STRING) /\ target \in Seq(STRING)
      /\ Prefix(here, Len(here)) = here /\ Prefix(target, Len(target)) = target
      /\ Len(here) \in Nat \ {0} /\ Len(target) \in Nat \ {0}
  BY <1>0, TreeShape, PrefixFacts
<1>2. k \in 1..(Len(target) - 1) /\ k <= Len(here) /\ Prefix(here, k) = Prefix(target, k)
  BY <1>0, CommonDepthFacts
<1> HIDE DEF k
<1>3. up \in Nat /\ n \in Nat /\ n > 0 /\ n > up
  BY <1>1, <1>2
<1>4. path = [i \in 1..n |-> hop(i)]
  BY DEF UpDown, k
<1>6. ASSUME NEW i \in 1..n PROVE hop(i) \in T
  <2>1. CASE i <= up
    <3> DEFINE j == Len(here) - i
    <3>1. j \in 1..Len(here)
      BY <2>1, <1>1, <1>2, <1>3
    <3>2. Prefix(here, j) \in T
      <4> HIDE DEF j
      <4> QED BY <3>1, PrefixIsFile
    <3> QED BY <3>2, <2>1
  <2>2. CASE ~(i <= up)
    <3> DEFINE j == k + i - up
    <3>1. j \in 1..Len(target)
      BY <2>2, <1>1, <1>2, <1>3
    <3>2. Prefix(target, j) \in T
      <4> HIDE DEF j
      <4> QED BY <3>1, PrefixIsFile
    <3> QED BY <3>2, <2>2
  <2> QED BY <2>1, <2>2
<1>7. path \in Seq(T) /\ Len(path) = n /\ \A i \in 1..n : path[i] = hop(i)
  <2> HIDE DEF hop, n, path
  <2> QED BY <1>3, <1>4, <1>6
<1>8. path[Len(path)] = target
  <2>1. ~(n <= up) /\ k + n - up = Len(target)
    BY <1>1, <1>2, <1>3
  <2>2. hop(n) = Prefix(target, Len(target))
    BY <2>1
  <2> QED BY <1>1, <1>3, <1>7, <2>2
<1>9. ASSUME NEW i \in 1..n
      PROVE  Near(IF i = 1 THEN here ELSE path[i - 1], path[i])
  <2> DEFINE before == IF i = 1 THEN here ELSE hop(i - 1)
  <2>1. before = (IF i = 1 THEN here ELSE path[i - 1]) /\ path[i] = hop(i)
    BY <1>3, <1>7
  <2>2. CASE i <= up
    <3>1. before = Prefix(here, Len(here) - i + 1)
      <4>1. CASE i = 1
        BY <4>1, <1>1
      <4>2. CASE i # 1
        <5>1. i - 1 <= up /\ Len(here) - (i - 1) = Len(here) - i + 1
          BY <2>2, <1>1, <1>3
        <5> QED BY <5>1, <4>2
      <4> QED BY <4>1, <4>2
    <3>2. Len(here) - i + 1 \in 2..Len(here) /\ (Len(here) - i + 1) - 1 = Len(here) - i
      BY <2>2, <1>1, <1>2
    <3>3. Parent(before) = Prefix(here, Len(here) - i)
      BY <1>0, <3>1, <3>2, ParentOfPrefix
    <3> QED BY <2>1, <2>2, <3>3 DEF Near
  <2>3. CASE ~(i <= up)
    <3>1. before = Prefix(target, k + i - up - 1)
      <4>1. CASE i = 1
        <5>1. up = 0 /\ k = Len(here) /\ k + i - up - 1 = k
          BY <4>1, <2>3, <1>1, <1>2, <1>3
        <5> QED BY <5>1, <4>1, <1>1, <1>2
      <4>2. CASE i # 1 /\ i - 1 <= up
        <5>1. i - 1 = up /\ Len(here) - (i - 1) = k /\ k + i - up - 1 = k
          BY <4>2, <2>3, <1>1, <1>2, <1>3
        <5> QED BY <5>1, <4>2, <1>2
      <4>3. CASE i # 1 /\ ~(i - 1 <= up)
        <5>1. k + (i - 1) - up = k + i - up - 1
          BY <1>2, <1>3
        <5> QED BY <5>1, <4>3
      <4> QED BY <4>1, <4>2, <4>3
    <3> DEFINE m == k + i - up
    <3>2. m \in 2..Len(target) /\ m - 1 \in 1..Len(target) /\ m - 1 < Len(target)
      BY <2>3, <1>1, <1>2, <1>3
    <3>3. hop(i) = Prefix(target, m)
      BY <2>3
    <3>4. before = Prefix(target, m - 1)
      <4>1. m - 1 = k + i - up - 1
        BY <1>2, <1>3
      <4> HIDE DEF before, up, m
      <4> QED BY <3>1, <4>1
    <3>5. Parent(Prefix(target, m)) = Prefix(target, m - 1) /\ Prefix(target, m) # MF
      <4> HIDE DEF m
      <4> QED BY <1>0, <3>2, ParentOfPrefix
    <3>6. Prefix(target, m - 1) \notin EFs
      <4> DEFINE l == m - 1
      <4>1. l \in 1..Len(target) /\ l < Len(target)
        BY <3>2
      <4> HIDE DEF l
      <4>2. Prefix(target, l) \notin EFs
        BY <4>1, PrefixIsFile
      <4> QED BY <4>2 DEF l
    <3> HIDE DEF m, hop, before
    <3> QED BY <2>1, <3>3, <3>4, <3>5, <3>6 DEF Near
  <2> QED BY <2>2, <2>3
<1>10. IsChainFrom(here, path)
  <2> HIDE DEF path, n
  <2> QED BY <1>7, <1>9 DEF IsChainFrom
<1>11. ASSUME NEW i \in 1..(n - 1) PROVE path[i] \in Dirs(here) \cup Dirs(target)
  <2>1. i \in 1..n
    BY <1>3
  <2>2. CASE i <= up
    <3> DEFINE j == Len(here) - i
    <3>1. j \in 1..(Len(here) - 1) /\ path[i] = Prefix(here, j)
      BY <2>1, <2>2, <1>1, <1>2, <1>7
    <3> HIDE DEF j
    <3> QED BY <3>1 DEF Dirs
  <2>3. CASE ~(i <= up)
    <3> DEFINE j == k + i - up
    <3>1. j \in 1..(Len(target) - 1) /\ path[i] = Prefix(target, j)
      BY <2>1, <2>3, <1>1, <1>2, <1>3, <1>7
    <3> HIDE DEF j
    <3> QED BY <3>1 DEF Dirs
  <2> QED BY <2>2, <2>3
<1> QED BY <1>3, <1>7, <1>8, <1>10, <1>11

\* A sequence of length one is its first element.
LEMMA OneElement ==
  ASSUME NEW S, NEW s \in Seq(S), Len(s) = 1
  PROVE  s = <<s[1]>>
OBVIOUS

\* Dropping everything before the last application leaves a chain: it starts
\* with that application, which is one SELECT away from anywhere.
LEMMA ClipFacts ==
  ASSUME NEW here, NEW T, NEW path \in Seq(T), Len(path) > 0, IsChainFrom(here, path)
  PROVE  /\ ClipPath(path) \in Seq(T)
         /\ Len(ClipPath(path)) > 0
         /\ ClipPath(path)[Len(ClipPath(path))] = path[Len(path)]
         /\ IsChainFrom(here, ClipPath(path))
         /\ \A i \in 1..(Len(ClipPath(path)) - 1) :
              \E j \in 1..(Len(path) - 1) : ClipPath(path)[i] = path[j]
         /\ path[Len(path)] \in ADFs => ClipPath(path) = <<path[Len(path)]>>
<1> DEFINE adfAt == {i \in 1..Len(path) : path[i] \in ADFs}
           last  == CHOOSE i \in adfAt : \A j \in adfAt : j <= i
<1>1. CASE adfAt = {}
  <2>1. ClipPath(path) = path
    BY <1>1 DEF ClipPath
  <2>2. path[Len(path)] \notin ADFs
    BY <1>1
  <2> QED BY <2>1, <2>2
<1>2. CASE adfAt # {}
  <2>1. \E i \in adfAt : \A j \in adfAt : j <= i
    <3>1. Len(path) \in Nat /\ adfAt \in SUBSET (1..Len(path))
      OBVIOUS
    <3> HIDE DEF adfAt
    <3> QED BY <1>2, <3>1, MaxExists
  <2>2. last \in adfAt /\ \A j \in adfAt : j <= last
    <3> HIDE DEF adfAt
    <3> QED BY <2>1
  <2>3. /\ last \in 1..Len(path) /\ path[last] \in ADFs
        /\ path[Len(path)] \in ADFs => last = Len(path)
    BY <2>2
  <2>4. ClipPath(path) = SubSeq(path, last, Len(path))
    BY <1>2 DEF ClipPath
  <2> HIDE DEF last, adfAt
  <2> DEFINE clip == SubSeq(path, last, Len(path))
  <2>5. /\ clip \in Seq(T) /\ Len(clip) = Len(path) - last + 1
        /\ \A i \in 1..Len(clip) : clip[i] = path[last + i - 1]
    BY <2>3
  <2> HIDE DEF clip
  <2>6. ASSUME NEW i \in 1..Len(clip)
        PROVE  Near(IF i = 1 THEN here ELSE clip[i - 1], clip[i])
    <3>1. CASE i = 1
      BY <3>1, <2>3, <2>5 DEF Near
    <3>2. CASE i # 1
      <4> DEFINE j == last + i - 1
      <4>1. j \in 1..Len(path) /\ j # 1 /\ i - 1 \in 1..Len(clip) /\ j - 1 = last + (i - 1) - 1
        BY <3>2, <2>3, <2>5
      <4>2. clip[i] = path[j] /\ clip[i - 1] = path[j - 1]
        BY <4>1, <2>5
      <4>3. Near(path[j - 1], path[j])
        <5> HIDE DEF j
        <5> QED BY <4>1 DEF IsChainFrom
      <4> QED BY <3>2, <4>2, <4>3
    <3> QED BY <3>1, <3>2
  <2>7. IsChainFrom(here, clip)
    BY <2>6 DEF IsChainFrom
  <2>8. Len(clip) > 0 /\ last + Len(clip) - 1 = Len(path)
    BY <2>3, <2>5
  <2>9. clip[Len(clip)] = path[Len(path)]
    BY <2>5, <2>8
  <2>10. ASSUME NEW i \in 1..(Len(clip) - 1)
         PROVE  \E j \in 1..(Len(path) - 1) : clip[i] = path[j]
    <3>1. last + i - 1 \in 1..(Len(path) - 1) /\ i \in 1..Len(clip)
      BY <2>3, <2>5
    <3> QED BY <3>1, <2>5
  <2>11. path[Len(path)] \in ADFs => clip = <<path[Len(path)]>>
    <3>1. last = Len(path) => Len(clip) = 1 /\ clip[1] = path[Len(path)]
      BY <2>3, <2>5
    <3>2. Len(clip) = 1 => clip = <<clip[1]>>
      BY <2>5, OneElement
    <3> QED BY <3>1, <3>2, <2>3
  <2> QED BY <2>4, <2>5, <2>7, <2>8, <2>9, <2>10, <2>11 DEF clip
<1> QED BY <1>1, <1>2

\* build_select_path_to() always finds a path; it ends on the target, each of
\* its files is one SELECT away from the one before, and on the way there are
\* only directories above where it begins and above the target.  An
\* application is selected at once.
THEOREM SelectPathIsChain ==
  ASSUME NEW T, IsTree(T), NEW here \in T, NEW target \in T
  PROVE  /\ BuildSelectPathTo(here, target) \in Seq(T)
         /\ Len(BuildSelectPathTo(here, target)) > 0
         /\ BuildSelectPathTo(here, target)[Len(BuildSelectPathTo(here, target))] = target
         /\ IsChainFrom(here, BuildSelectPathTo(here, target))
         /\ \A i \in 1..(Len(BuildSelectPathTo(here, target)) - 1) :
              BuildSelectPathTo(here, target)[i] \in Dirs(here) \cup Dirs(target)
         /\ target \in ADFs => BuildSelectPathTo(here, target) = <<target>>
<1>1. CASE target = MF
  <2>1. BuildSelectPathTo(here, target) = <<MF>>
    BY <1>1 DEF BuildSelectPathTo
  <2>2. IsChainFrom(here, <<MF>>)
    BY DEF IsChainFrom, Near
  <2> QED BY <1>1, <2>1, <2>2, TreeShape DEF IsTree
<1>2. CASE target # MF
  <2>1. BuildSelectPathTo(here, target) = ClipPath(UpDown(here, target))
    BY <1>2 DEF BuildSelectPathTo
  <2>2. /\ UpDown(here, target) \in Seq(T) /\ Len(UpDown(here, target)) > 0
        /\ UpDown(here, target)[Len(UpDown(here, target))] = target
        /\ IsChainFrom(here, UpDown(here, target))
        /\ \A i \in 1..(Len(UpDown(here, target)) - 1) :
             UpDown(here, target)[i] \in Dirs(here) \cup Dirs(target)
    BY <1>2, UpDownFacts
  <2> DEFINE path == UpDown(here, target)
  <2>3. /\ ClipPath(path) \in Seq(T) /\ Len(ClipPath(path)) > 0
        /\ ClipPath(path)[Len(ClipPath(path))] = path[Len(path)]
        /\ IsChainFrom(here, ClipPath(path))
        /\ \A i \in 1..(Len(ClipPath(path)) - 1) :
             \E j \in 1..(Len(path) - 1) : ClipPath(path)[i] = path[j]
        /\ path[Len(path)] \in ADFs => ClipPath(path) = <<path[Len(path)]>>
    <3> HIDE DEF path
    <3> QED BY <2>2, ClipFacts DEF path
  <2> HIDE DEF path
  <2> QED BY <2>1, <2>2, <2>3 DEF path
<1> QED BY <1>1, <1>2

\* From an EF to itself: through the directory that holds it.
LEMMA SelectPathToItself ==
  ASSUME NEW f \in Files, f \in EFs
  PROVE  BuildSelectPathTo(f, f)[1] = Parent(f)
<1>1. f \in Files \ ({MF} \cup ADFs) /\ f \in Seq(STRING) /\ Len(f) \in Nat /\ Len(f) >= 1
  BY TreeShape
<1>2. Prefix(f, Len(f)) = f
  BY <1>1, PrefixFacts
<1>3. /\ CommonDepth(f, f) \in 1..(Len(f) - 1)
      /\ \A n \in 1..(Len(f) - 1) : n <= Len(f) => n <= CommonDepth(f, f)
  BY <1>1, CommonDepthFacts
<1>4. CommonDepth(f, f) = Len(f) - 1 /\ Len(f) >= 2
  <2>1. Len(f) - 1 \in 1..(Len(f) - 1) /\ Len(f) - 1 <= Len(f)
    BY <1>1, <1>3
  <2>2. Len(f) - 1 <= CommonDepth(f, f)
    <3> DEFINE m == Len(f) - 1
    <3> HIDE DEF m
    <3> QED BY <1>3, <2>1 DEF m
  <2> QED BY <1>1, <1>3, <2>2
<1> DEFINE path == UpDown(f, f)
<1>5. path = [i \in 1..2 |-> IF i = 1 THEN Prefix(f, Len(f) - 1) ELSE f]
  <2>1. Len(f) - CommonDepth(f, f) = 1 /\ 1 + Len(f) - CommonDepth(f, f) = 2
    BY <1>1, <1>4
  <2>2. path = [i \in 1..2 |-> IF i <= 1 THEN Prefix(f, Len(f) - i)
                                        ELSE Prefix(f, CommonDepth(f, f) + i - 1)]
    BY <2>1 DEF UpDown
  <2>3. \A i \in 1..2 : (IF i <= 1 THEN Prefix(f, Len(f) - i) ELSE Prefix(f, CommonDepth(f, f) + i - 1))
                        = (IF i = 1 THEN Prefix(f, Len(f) - 1) ELSE f)
    <3>1. CommonDepth(f, f) + 2 - 1 = Len(f)
      BY <1>1, <1>4
    <3> QED BY <1>2, <3>1
  <2> HIDE DEF path
  <2> QED BY <2>2, <2>3
<1> HIDE DEF path
<1>6. path \in Seq({Prefix(f, Len(f) - 1), f}) /\ Len(path) = 2 /\ path[1] = Prefix(f, Len(f) - 1) /\ path[2] = f
  BY <1>5
<1>7. ClipPath(path)[1] = path[1]
  <2> DEFINE adfAt == {i \in 1..Len(path) : path[i] \in ADFs}
  <2>1. CASE adfAt = {}
    BY <2>1 DEF ClipPath
  <2>2. CASE adfAt # {}
    <3>1. adfAt = {1}
      BY <1>1, <1>6, <2>2
    <3>2. (CHOOSE i \in adfAt : \A j \in adfAt : j <= i) = 1
      <4> HIDE DEF adfAt
      <4> QED BY <3>1
    <3>3. ClipPath(path) = SubSeq(path, 1, Len(path))
      BY <2>2, <3>2 DEF ClipPath
    <3> QED BY <1>6, <3>3
  <2> QED BY <2>1, <2>2
<1>8. BuildSelectPathTo(f, f) = ClipPath(path)
  BY <1>1 DEF BuildSelectPathTo, path
<1>9. Parent(f) = Prefix(f, Len(f) - 1)
  BY <1>1 DEF Parent
<1> QED BY <1>6, <1>7, <1>8, <1>9

\* What is one SELECT away, and is not an application, is in the scope of the
\* card's FID resolution, unless the card is in an application without files.
LEMMA NearIsInScope ==
  ASSUME NEW f \in Files, NEW g \in Files \ ADFs, Near(f, g), f \notin ADFs \ FsADFs
  PROVE  g \in FidScope(f)
BY TreeShape DEF FidScope, Near, Cwd

\* A SELECT of a file that is one SELECT away reaches that file or nothing;
\* it reaches the file if the card has it and is in no application without files.
LEMMA CardFindsTheHop ==
  ASSUME NEW f \in OnCard, NEW g \in (Profile \cup OnCard) \ ADFs, Near(f, g)
  PROVE  /\ CardFind(f, Fid[g]) \subseteq {g}
         /\ g \in OnCard /\ f \notin ADFs \ FsADFs => CardFind(f, Fid[g]) = {g}
<1>1. CASE f \in ADFs \ FsADFs
  BY <1>1 DEF CardFind, FidScope
<1>2. CASE f \notin ADFs \ FsADFs
  <2>1. g \in FidScope(f)
    BY <1>2, NearIsInScope, KnownShape
  <2> QED BY <2>1, <1>2, FidUnique DEF CardFind
<1> QED BY <1>1, <1>2

\* What finds a file from a file next to it finds the directory of both.
LEMMA CardFindsTheParent ==
  ASSUME NEW f \in OnCard \ (ADFs \cup {MF}), Parent(f) \in OnCard \ ADFs
  PROVE  CardFind(f, Fid[Parent(f)]) = {Parent(f)}
<1>1. Parent(f) \in FidScope(f)
  <2>1. Cwd(f) \in {f, Parent(f)}
    BY DEF Cwd
  <2> QED BY <2>1, KnownShape DEF FidScope
<1> QED BY <1>1, FidUnique DEF CardFind

\* A file is its directory followed by its name.
LEMMA FileIsParentAndName ==
  ASSUME NEW f \in Files \ {MF}
  PROVE  /\ f = Append(Parent(f), Name(f)) /\ Name(f) \in STRING
         /\ Parent(f) \in Dirs(f) /\ Dirs(f) = Dirs(Parent(f)) \cup {Parent(f)}
<1>1. f \in Seq(STRING) /\ Len(f) \in Nat /\ Len(f) >= 1 /\ Len(MF) = 1 /\ Prefix(f, 1) = MF
  BY TreeShape
<1>2. Len(f) >= 2
  <2>1. Prefix(f, Len(f)) = f
    BY <1>1, PrefixFacts
  <2> QED BY <1>1, <2>1
<1> DEFINE n == Len(f) - 1
<1>3. n \in 1..Len(f) /\ Parent(f) = Prefix(f, n) /\ n + 1 = Len(f)
  BY <1>1, <1>2 DEF Parent
<1>4. f = Append(Parent(f), Name(f)) /\ Name(f) \in STRING
  BY <1>1, <1>2, <1>3 DEF Prefix, Name
<1> HIDE DEF n
<1>5. Len(Prefix(f, n)) = n /\ \A m \in 1..n : Prefix(Prefix(f, n), m) = Prefix(f, m)
  BY <1>1, <1>3, PrefixFacts
<1>6. Dirs(f) = {Prefix(f, m) : m \in 1..n}
  BY <1>3 DEF Dirs, n
<1>7. Dirs(Parent(f)) = {Prefix(f, m) : m \in 1..(n - 1)}
  BY <1>3, <1>5 DEF Dirs
<1>8. 1..n = 1..(n - 1) \cup {n}
  BY <1>3
<1>9. Parent(f) \in Dirs(f) /\ Dirs(f) = Dirs(Parent(f)) \cup {Parent(f)}
  BY <1>3, <1>6, <1>7, <1>8
<1> QED BY <1>4, <1>9

\* A tree to which a child of one of its directories is added is a tree.
LEMMA TreeGrows ==
  ASSUME NEW T, IsTree(T), NEW g \in Files \ {MF}, Parent(g) \in T
  PROVE  IsTree(T \cup {g})
BY FileIsParentAndName DEF IsTree

\* An application lies below the MF, and no file lies in one without files.
LEMMA ApplicationFacts ==
  ASSUME NEW a \in ADFs
  PROVE  /\ Dirs(a) = {MF} /\ a # MF /\ a \notin EFs
         /\ \A f \in Files \ {MF} : Parent(f) = a => a \in FsADFs
         /\ \A b \in ADFs : Name(a) = Name(b) => a = b
<1>1. /\ a \in Files \ {MF} /\ ADFs \subseteq Files \ {MF} /\ a \notin EFs
      /\ \A b \in ADFs : b \in Seq(STRING) /\ Len(b) = 2 /\ Prefix(b, 1) = MF
  BY TreeShape
<1>2. \A b \in ADFs : Parent(b) = MF /\ Dirs(b) = {MF}
  <2>1. ASSUME NEW b \in ADFs PROVE Parent(b) = MF /\ Dirs(b) = {MF}
    <3>0. b # MF /\ Len(b) - 1 = 1
      BY <1>1
    <3>1. Parent(b) = Prefix(b, 1)
      BY <3>0 DEF Parent
    <3>2. 1..(Len(b) - 1) = {1}
      <4>1. 1..1 = {1}
        OBVIOUS
      <4> QED BY <3>0, <4>1, Zenon
    <3>3. Dirs(b) = {Prefix(b, 1)}
      BY <3>2 DEF Dirs
    <3> QED BY <3>1, <3>3, <1>1
  <2> QED BY <2>1
<1>3. \A b \in ADFs : Name(a) = Name(b) => a = b
  BY <1>1, <1>2, FileIsParentAndName
<1>4. ASSUME NEW f \in Files \ {MF}, Parent(f) = a PROVE a \in FsADFs
  <2>1. a \in Dirs(f)
    BY <1>4, FileIsParentAndName
  <2> QED BY <2>1, TreeShape
<1> QED BY <1>1, <1>2, <1>3, <1>4

\* From an application without a file system, the name of an application
\* stands for that application alone.
LEMMA LookupOfApplication ==
  ASSUME NEW T, IsTree(T), ADFs \subseteq T, NEW here \in ADFs \ FsADFs, NEW a \in ADFs
  PROVE  Lookup(T, here, Name(a)) = {a}
<1>1. Dirs(here) = {MF} /\ Cwd(here) = here
  BY ApplicationFacts DEF Cwd
<1>2. Selectables(T, here) \subseteq {MF} \cup ADFs
  <2>1. \A f \in T : f # MF /\ Parent(f) = here => FALSE
    BY ApplicationFacts DEF IsTree
  <2> QED BY <1>1, <2>1 DEF Selectables
<1>3. Name(a) \notin Ids(MF)
  BY TreeShape
<1>4. \A b \in ADFs : Name(a) \in Ids(b) <=> b = a
  BY ApplicationFacts DEF Ids
<1>5. a \in Selectables(T, here)
  BY DEF Selectables
<1> QED BY <1>2, <1>3, <1>4, <1>5 DEF Lookup

\* A file that a blind FID reaches and no name stands for is a new file in the
\* current directory; it is there under its FID.
LEMMA ProbeFindsANewFile ==
  ASSUME NEW T, IsTree(T), Profile \subseteq T, NEW here \in T \cap OnCard,
         NEW fid, NEW g \in CardFind(here, fid), g \in Selectables(OnCard, here),
         Lookup(T, here, fid) = {}
  PROVE  /\ g \in OnCard \ (T \cup ADFs \cup {MF}) /\ fid \in Ids(g)
         /\ Parent(g) = Cwd(here) /\ g = Append(Cwd(here), fid)
<1>1. g \in Files \ ADFs /\ g \in OnCard /\ Fid[g] = fid /\ fid \in Ids(g)
  BY DEF CardFind, FidScope, Ids
<1>2. g \notin T
  BY <1>1 DEF Lookup, Selectables
<1>3. MF \in T /\ ADFs \subseteq T /\ Dirs(here) \subseteq T
  BY KnownShape DEF IsTree
<1>4. g # MF /\ Parent(g) = Cwd(here)
  BY <1>2, <1>3 DEF Selectables
<1>5. Name(g) = fid
  BY <1>1, <1>2, KnownShape
<1> QED BY <1>1, <1>2, <1>3, <1>4, <1>5, FileIsParentAndName
-----------------------------------------------------------------------------
(***************************************************************************)
(* The invariant of the channel.                                           *)
(***************************************************************************)

Frames  == [op : Ops, file : Files \cup {NoFile}, ids : Seq(STRING)]
FileOps == {"select_file", "goto", "hop"}
Known   == Profile \cup OnCard

\* What the calls on the stack depend on (x below stands for such a context),
\* and the promise a request is measured by: the last name asked for.
Ctx       == [tree |-> tree, live |-> alive, call |-> call]
Sound(x)  == x.live /\ CanLeave
Wanted(x) == x.call.ids[Len(x.call.ids)]
IsTop(s, op) == s # <<>> /\ Head(s).op = op

\* select(): nobody, or the loop over a path, which remembers where it began.
Caller(s, x) ==
  /\ x.call.kind = "select" /\ x.call.ids \in Paths
  /\ s # <<>> =>
       /\ IsTop(s, "path") /\ Tail(s) = <<>> /\ Head(s).file \in x.tree \cap OnCard
       /\ x.live => Head(s).file = x.call.from
       /\ Head(s).ids # <<>> => Head(s).ids[Len(Head(s).ids)] = Wanted(x)

\* f carries the last name, if the caller s has no further name to select;
\* f is where the card was, if s is nobody.
LastName(s)     == s = <<>> \/ Head(s).ids = <<>>
Serves(s, f, x) == LastName(s) => Wanted(x) \in Ids(f)
Home(s, f, x)   == x.live /\ s = <<>> => f = x.call.from

\* select() of one name, and its except clause.
Trying(s, x) == /\ IsTop(s, "try") /\ Head(s).file \in x.tree \cap OnCard
                /\ Caller(Tail(s), x) /\ Home(Tail(s), Head(s).file, x)
GoingBack(s, x) == IsTop(s, "reraise") /\ Caller(Tail(s), x)

\* select_file(): what was asked for, what one name stands for, or the way back.
Filing(s, x) ==
  /\ s # <<>> /\ Head(s).op \in FileOps /\ Head(s).file \in x.tree
  /\ \/ Tail(s) = <<>> /\ x.call.kind = "select_file" /\ Head(s).file = x.call.file
     \/ Trying(Tail(s), x) /\ Serves(Tail(Tail(s)), Head(s).file, x)
     \/ /\ GoingBack(Tail(s), x) /\ Head(s).file \in OnCard
        /\ Home(Tail(Tail(s)), Head(s).file, x)

\* select_file() that leaves an application, and the calls it makes for that.
Leaving(s, x)     == /\ Filing(s, x) /\ Head(s).op = "goto"
                     /\ Head(s).file \notin ADFs /\ FirstFsADF \in FsADFs
                     /\ Sound(x) => FirstFsADF \in OnCard
InnerTry(s, x)    == IsTop(s, "try") /\ Leaving(Tail(s), x) /\ Head(s).file \in ADFs \cap OnCard
InnerReraise(s, x) == IsTop(s, "reraise") /\ Leaving(Tail(s), x) /\ ~Sound(x)
InnerFiling(s, x) ==
  /\ s # <<>> /\ Head(s).op \in FileOps /\ Head(s).file \in ADFs
  /\ \/ InnerTry(Tail(s), x) /\ Head(s).file = FirstFsADF
     \/ InnerReraise(Tail(s), x) /\ Head(s).file \in OnCard
-----------------------------------------------------------------------------
\* A blind FID may have moved the card next to the selected EF, which cannot
\* hold the file: then the except clause is under way.
Beside(f, g) == g \in EFs /\ f \in OnCard \ (ADFs \cup {MF}) /\ Parent(f) = Parent(g)
Astray ==
  /\ Beside(cur, sel)
  /\ \/ Trying(stack, Ctx) /\ raised /\ Head(stack).file = sel
     \/ /\ Filing(stack, Ctx) /\ Head(stack).file = sel /\ ~raised
        /\ GoingBack(Tail(stack), Ctx)

Basics ==
  /\ Profile \subseteq tree /\ tree \subseteq Known /\ IsTree(tree)
  /\ sel \in tree \cap OnCard /\ fcp = sel
  /\ adf \in ADFs \cup {NoFile} /\ (Trapped => sel = adf) /\ (sel \in ADFs => adf = sel)
  /\ cur \in OnCard /\ alive \in BOOLEAN /\ raised \in BOOLEAN
  /\ stack \in Seq(Frames) /\ hops \in Seq(tree)
  /\ at \in Files \cup {NoFile} /\ data \in Files \cup {NoFile}
  /\ call \in [kind : {"none", "select", "select_file", "reset"}, ids : Seq(STRING),
               file : Files \cup {NoFile}, from : Files]
  /\ call.kind = "select_file" /\ stack # <<>> /\ Sound(Ctx) =>
       sel \in {call.from} \cup FsADFs

\* What holds while no hop loop runs, by the call that is on top of the stack.
Resting ==
  /\ stack = <<>>
  /\ call.kind = "select" =>
       IF raised THEN Sound(Ctx) => sel = call.from ELSE Wanted(Ctx) \in Ids(sel)
  /\ Sound(Ctx) /\ call.kind = "select_file" =>
       IF raised THEN sel \in {call.from} \cup Dirs(call.from) \cup Dirs(call.file) \cup FsADFs
                 ELSE sel = call.file
AtPath  == /\ stack # <<>> /\ Caller(stack, Ctx)
           /\ ~raised /\ Head(stack).ids = <<>> => Wanted(Ctx) \in Ids(sel)
Asking  == /\ IsTop(stack, "select") /\ ~raised /\ Len(Head(stack).ids) = 1
           /\ Caller(Tail(stack), Ctx) /\ Home(Tail(stack), sel, Ctx)
           /\ LastName(Tail(stack)) => Head(stack).ids[1] = Wanted(Ctx)
Probing == /\ IsTop(stack, "probe") /\ ~raised /\ Len(Head(stack).ids) = 1
           /\ Head(stack).ids[1] \in HexIds /\ Lookup(tree, sel, Head(stack).ids[1]) = {}
           /\ Trying(Tail(stack), Ctx) /\ Head(Tail(stack)).file = sel
           /\ LastName(Tail(Tail(stack))) => Head(stack).ids[1] = Wanted(Ctx)
AtTry   == Trying(stack, Ctx) /\ (~raised => Serves(Tail(stack), sel, Ctx))
AtReraise    == GoingBack(stack, Ctx) /\ (Sound(Ctx) => ~raised /\ Home(Tail(stack), sel, Ctx))
AtSelectFile == Filing(stack, Ctx) /\ Head(stack).op = "select_file" /\ ~raised
AtGoto       == /\ Filing(stack, Ctx) /\ Head(stack).op = "goto"
                /\ ~raised /\ Head(stack).file \notin ADFs => ~Trapped
                /\ Sound(Ctx) => ~raised

LeaveAsking  == /\ IsTop(stack, "select") /\ Head(stack).ids = <<Name(FirstFsADF)>>
                /\ Leaving(Tail(stack), Ctx) /\ ~raised /\ Trapped
LeaveTry     == InnerTry(stack, Ctx) /\ (~raised => ~Trapped) /\ (Sound(Ctx) => ~raised)
LeaveReraise == InnerReraise(stack, Ctx)
LeaveFiling  == InnerFiling(stack, Ctx) /\ Head(stack).op # "hop" /\ ~raised

Still == /\ hops = <<>> /\ (alive => cur = sel \/ Astray)
         /\ \/ Resting \/ AtPath \/ Asking \/ Probing \/ AtTry \/ AtReraise
            \/ AtSelectFile \/ AtGoto
            \/ LeaveAsking \/ LeaveTry \/ LeaveReraise \/ LeaveFiling

\* The hop loop: where the card is, and what is left of the way to the file.
Way == {call.from} \cup Dirs(call.from) \cup Dirs(Head(stack).file) \cup FsADFs
OnTheWay == /\ raised \/ hops # <<>> => at \in Way
            /\ \A i \in 1..(Len(hops) - 1) : hops[i] \in Way
CanHop ==   \* nothing on the way stops a sound card
  /\ \A i \in 1..(Len(hops) - 1) : hops[i] \notin ADFs \ FsADFs
  /\ CanLeave /\ hops # <<>> => at \notin ADFs \ FsADFs \/ Head(hops) \in ADFs
  /\ Head(stack).file \in OnCard => \A i \in 1..Len(hops) : hops[i] \in OnCard
HopBasics ==
  /\ IsTop(stack, "hop")
  /\ at \in tree \cap OnCard /\ data = at /\ IsChainFrom(at, hops)
  /\ raised => hops = <<>>
  /\ ~raised => Head(stack).file = IF hops = <<>> THEN at ELSE hops[Len(hops)]
  /\ Trapped => at \in ADFs /\ \A i \in 1..Len(hops) : hops[i] \in ADFs
  /\ alive => cur = at \/ (Beside(cur, at) /\ hops # <<>> /\ Head(hops) = Parent(at))
  /\ CanHop
Hopping ==
  /\ Filing(stack, Ctx)
  /\ Sound(Ctx) /\ GoingBack(Tail(stack), Ctx) => ~raised
  /\ Sound(Ctx) /\ Tail(stack) = <<>> => OnTheWay
LeaveHopping == /\ InnerFiling(stack, Ctx) /\ (Sound(Ctx) => ~raised)
                /\ Len(hops) <= 1 /\ at \in {sel, Head(stack).file}

IInv == Basics /\ (Still \/ (HopBasics /\ (Hopping \/ LeaveHopping)))
-----------------------------------------------------------------------------
(* Sequences, and what a context that knows more or promises less keeps.   *)

LEMMA StackFacts ==
  ASSUME NEW S, NEW s \in Seq(S), s # <<>>
  PROVE  Head(s) \in S /\ Tail(s) \in Seq(S) /\ Len(s) > 0 /\ Head(s) = s[1]
OBVIOUS

LEMMA PushFacts ==
  ASSUME NEW S, NEW t \in Seq(S), NEW a \in S, NEW b \in S
  PROVE  /\ <<a>> \o t \in Seq(S) /\ <<a>> \o t # <<>>
         /\ Head(<<a>> \o t) = a /\ Tail(<<a>> \o t) = t
         /\ <<a, b>> \o t \in Seq(S) /\ <<a, b>> \o t # <<>>
         /\ Head(<<a, b>> \o t) = a /\ Tail(<<a, b>> \o t) = <<b>> \o t
<1>1. <<a>> \o t \in Seq(S) /\ <<a>> \o t # <<>> /\ Head(<<a>> \o t) = a /\ Tail(<<a>> \o t) = t
  OBVIOUS
<1>2. <<a, b>> \o t \in Seq(S) /\ <<a, b>> \o t # <<>> /\ Head(<<a, b>> \o t) = a
  OBVIOUS
<1>3. Tail(<<a, b>> \o t) = <<b>> \o t
  OBVIOUS
<1> QED BY <1>1, <1>2, <1>3

\* A call leaves the caller's frame below the frame of the callee.
Called(callee, frame, t) == <<callee, frame>> \o t

LEMMA CallFacts ==
  ASSUME NEW t \in Seq(Frames), NEW a \in Frames, NEW b \in Frames
  PROVE  /\ Called(a, b, t) \in Seq(Frames) /\ Called(a, b, t) # <<>> /\ Head(Called(a, b, t)) = a
         /\ Tail(Called(a, b, t)) # <<>> /\ Head(Tail(Called(a, b, t))) = b
         /\ Tail(Tail(Called(a, b, t))) = t
<1>1. <<b>> \o t # <<>> /\ Head(<<b>> \o t) = b /\ Tail(<<b>> \o t) = t
  OBVIOUS
<1>2. <<a, b>> \o t \in Seq(Frames) /\ <<a, b>> \o t # <<>> /\ Head(<<a, b>> \o t) = a
  OBVIOUS
<1>3. Tail(<<a, b>> \o t) = <<b>> \o t
  OBVIOUS
<1> DEFINE s == <<a, b>> \o t
           u == <<b>> \o t
<1> HIDE DEF s, u
<1>4. s \in Seq(Frames) /\ s # <<>> /\ Head(s) = a /\ Tail(s) = u /\ u # <<>> /\ Head(u) = b /\ Tail(u) = t
  BY <1>1, <1>2, <1>3 DEF s, u
<1>5. Called(a, b, t) = s
  BY DEF Called, s
<1> QED BY <1>4, <1>5

LEMMA ContextKeeps ==
  ASSUME NEW x, NEW y, y.call = x.call, x.tree \subseteq y.tree, y.live => x.live, NEW s
  PROVE  /\ Caller(s, x) => Caller(s, y)
         /\ Trying(s, x) => Trying(s, y)
         /\ GoingBack(s, x) => GoingBack(s, y)
         /\ Filing(s, x) => Filing(s, y)
         /\ Leaving(s, x) => Leaving(s, y)
         /\ InnerTry(s, x) => InnerTry(s, y)
         /\ InnerReraise(s, x) => InnerReraise(s, y)
         /\ InnerFiling(s, x) => InnerFiling(s, y)
<1>1. \A t : Caller(t, x) => Caller(t, y)
  BY DEF Caller, Wanted
<1>2. \A t, f : (Serves(t, f, x) => Serves(t, f, y)) /\ (Home(t, f, x) => Home(t, f, y))
  BY DEF Serves, Wanted, Home
<1>3. \A t : (Trying(t, x) => Trying(t, y)) /\ (GoingBack(t, x) => GoingBack(t, y))
  BY <1>1, <1>2 DEF Trying, GoingBack
<1>4. \A t : Filing(t, x) => Filing(t, y)
  BY <1>2, <1>3 DEF Filing
<1>5. \A t : Leaving(t, x) => Leaving(t, y)
  BY <1>4 DEF Leaving, Sound
<1>6. \A t : (InnerTry(t, x) => InnerTry(t, y)) /\ (InnerReraise(t, x) => InnerReraise(t, y))
  BY <1>5 DEF InnerTry, InnerReraise, Sound
<1>7. InnerFiling(s, x) => InnerFiling(s, y)
  BY <1>6 DEF InnerFiling
<1> QED BY <1>1, <1>3, <1>4, <1>5, <1>6, <1>7

\* What is left of a chain after its first step is a chain from there.
LEMMA ChainTail ==
  ASSUME NEW f, NEW S, NEW path \in Seq(S), path # <<>>, IsChainFrom(f, path)
  PROVE  Near(f, Head(path)) /\ IsChainFrom(Head(path), Tail(path))
<1>1. Len(path) > 0 /\ Head(path) = path[1] /\ Tail(path) \in Seq(S) /\ Len(Tail(path)) = Len(path) - 1
  OBVIOUS
<1>2. \A i \in 1..Len(Tail(path)) : Tail(path)[i] = path[i + 1]
  OBVIOUS
<1>3. Near(f, path[1])
  BY <1>1 DEF IsChainFrom
<1>4. ASSUME NEW i \in 1..Len(Tail(path))
      PROVE  Near(IF i = 1 THEN path[1] ELSE Tail(path)[i - 1], Tail(path)[i])
  <2> DEFINE j == i + 1
  <2>1. j \in 1..Len(path) /\ j # 1 /\ j - 1 = i
    BY <1>1
  <2>2. Near(path[j - 1], path[j])
    <3> HIDE DEF j
    <3> QED BY <2>1 DEF IsChainFrom
  <2>3. Near(path[i], path[i + 1])
    BY <2>1, <2>2
  <2>4. CASE i = 1
    BY <1>2, <2>3, <2>4
  <2>5. CASE i # 1
    <3>1. Tail(path)[i - 1] = path[i]
      <4> DEFINE k == i - 1
      <4>1. k \in 1..Len(Tail(path)) /\ k + 1 = i
        BY <1>1, <2>5
      <4>2. Tail(path)[k] = path[k + 1]
        <5> HIDE DEF k
        <5> QED BY <4>1, <1>2
      <4> QED BY <4>1, <4>2
    <3> QED BY <1>2, <2>3, <2>5, <3>1
  <2> QED BY <2>4, <2>5
<1> QED BY <1>1, <1>3, <1>4 DEF IsChainFrom

LEMMA EmptyIsZero ==
  ASSUME NEW S, NEW s \in Seq(S)
  PROVE  s = <<>> <=> Len(s) = 0
OBVIOUS

\* The elements of what is left, by their place in the whole.
LEMMA TailElements ==
  ASSUME NEW S, NEW path \in Seq(S), path # <<>>
  PROVE  /\ Tail(path) \in Seq(S) /\ Len(Tail(path)) = Len(path) - 1 /\ Head(path) = path[1]
         /\ \A i \in 1..Len(Tail(path)) : i + 1 \in 1..Len(path) /\ Tail(path)[i] = path[i + 1]
         /\ Tail(path) = <<>> <=> Len(path) = 1
         /\ Len(path) \in Nat /\ Len(path) >= 1
<1>1. /\ Tail(path) \in Seq(S) /\ Len(Tail(path)) = Len(path) - 1 /\ Head(path) = path[1]
      /\ Len(path) \in Nat /\ Len(path) >= 1
  OBVIOUS
<1>2. \A i \in 1..Len(Tail(path)) : i + 1 \in 1..Len(path) /\ Tail(path)[i] = path[i + 1]
  OBVIOUS
<1>3. Tail(path) = <<>> <=> Len(path) = 1
  <2>1. Tail(path) = <<>> <=> Len(Tail(path)) = 0
    BY <1>1, EmptyIsZero
  <2> QED BY <1>1, <2>1
<1> QED BY <1>1, <1>2, <1>3

LEMMA InitIInv == Init => IInv
<1> SUFFICES ASSUME Init PROVE IInv
  OBVIOUS
<1>1. MF \in Profile /\ MF \in OnCard /\ MF \in Files /\ MF \notin ADFs
  BY TreeShape, KnownShape
<1>2. <<>> \in Seq(Frames) /\ <<>> \in Seq(STRING) /\ <<>> \in Seq(tree)
  OBVIOUS
<1>3. IsTree(Profile) /\ Profile \subseteq Known
  BY KnownShape DEF IsTree, Known
<1>4. Basics
  BY <1>1, <1>2, <1>3 DEF Init, Basics, NoCall, NoFile, Trapped
<1>5. Still
  BY DEF Init, Still, Resting, NoCall
<1> QED BY <1>4, <1>5 DEF IInv

\* Which phase a state is in can be read off the top of the stack.
LEMMA Phases ==
  ASSUME IInv
  PROVE  /\ stack = <<>> => Still /\ Resting
         /\ IsTop(stack, "path") => Still /\ AtPath
         /\ IsTop(stack, "select") => Still /\ (Asking \/ LeaveAsking)
         /\ IsTop(stack, "probe") => Still /\ Probing
         /\ IsTop(stack, "try") => Still /\ (AtTry \/ LeaveTry)
         /\ IsTop(stack, "reraise") => Still /\ (AtReraise \/ LeaveReraise)
         /\ IsTop(stack, "select_file") => Still /\ (AtSelectFile \/ LeaveFiling)
         /\ IsTop(stack, "goto") => Still /\ (AtGoto \/ LeaveFiling)
         /\ IsTop(stack, "hop") => HopBasics /\ (Hopping \/ LeaveHopping)
<1>1. HopBasics => IsTop(stack, "hop")
  BY DEF HopBasics
<1>2. /\ Resting => stack = <<>>
      /\ AtPath => IsTop(stack, "path")
      /\ Asking \/ LeaveAsking => IsTop(stack, "select")
      /\ Probing => IsTop(stack, "probe")
      /\ AtTry \/ LeaveTry => IsTop(stack, "try")
      /\ AtReraise \/ LeaveReraise => IsTop(stack, "reraise")
      /\ AtSelectFile => IsTop(stack, "select_file")
      /\ AtGoto => IsTop(stack, "goto")
      /\ LeaveFiling => IsTop(stack, "select_file") \/ IsTop(stack, "goto")
  BY DEF Resting, AtPath, Asking, LeaveAsking, Probing, AtTry, LeaveTry, AtReraise, LeaveReraise,
         AtSelectFile, AtGoto, LeaveFiling, Caller, Trying, InnerTry, GoingBack, InnerReraise,
         Filing, InnerFiling, FileOps, IsTop
<1>3. \A o, p : IsTop(stack, o) /\ IsTop(stack, p) => o = p
  BY DEF IsTop
<1>4. \A o : IsTop(stack, o) => stack # <<>>
  BY DEF IsTop
<1> QED BY <1>1, <1>2, <1>3, <1>4 DEF IInv, Still

\* The card is astray only in an except clause and in what it selects.
LEMMA AstrayWhere ==
  ASSUME Astray
  PROVE  stack # <<>> /\ ((Head(stack).op = "try" /\ raised) \/ Head(stack).op \in FileOps)
BY DEF Astray, Trying, IsTop, Filing

\* A step that moves nothing but the stack.
LEMMA StackStep ==
  ASSUME Basics, hops = <<>>, stack # <<>>, UNCHANGED <<lchan, card, loop, call>>,
         raised' \in BOOLEAN, stack' \in Seq(Frames)
  PROVE  /\ Basics' /\ hops' = <<>> /\ Ctx' = Ctx /\ (Trapped' <=> Trapped)
         /\ UNCHANGED <<tree, sel, adf, fcp, cur, alive, at, data, call>>
<1>1. UNCHANGED <<tree, sel, adf, fcp, cur, alive, hops, at, data, call>>
  BY DEF lchan, card, loop
<1>2. Ctx' = Ctx /\ (Trapped' <=> Trapped) /\ hops' = <<>>
  BY <1>1 DEF Ctx, Trapped
<1>3. Basics'
  BY <1>1, <1>2 DEF Basics
<1> QED BY <1>1, <1>2, <1>3

\* The frames the calls push, and the stacks they make.
LEMMA FrameFacts ==
  ASSUME NEW op \in Ops, NEW f \in Files \cup {NoFile}, NEW ids \in Seq(STRING)
  PROVE  /\ Frame(op, f, ids) \in Frames /\ Frame(op, f, ids).op = op
         /\ Frame(op, f, ids).file = f /\ Frame(op, f, ids).ids = ids
BY DEF Frame, Frames

LEMMA NoIds == <<>> \in Seq(STRING)
OBVIOUS

LEMMA OneId ==
  ASSUME NEW S, NEW id \in S
  PROVE  <<id>> \in Seq(S) /\ Len(<<id>>) = 1 /\ <<id>>[1] = id
OBVIOUS

LEMMA PlainFrame ==
  ASSUME NEW op \in Ops, NEW f \in Files \cup {NoFile}
  PROVE  /\ Frame(op, f, <<>>) \in Frames /\ Frame(op, f, <<>>).op = op
         /\ Frame(op, f, <<>>).file = f /\ Frame(op, f, <<>>).ids = <<>>
<1>1. <<>> \in Seq(STRING)
  BY NoIds
<1> QED BY <1>1 DEF Frame, Frames

LEMMA LastOfTail ==
  ASSUME NEW ids \in Seq(STRING), ids # <<>>
  PROVE  /\ Head(ids) \in STRING /\ Tail(ids) \in Seq(STRING)
         /\ Tail(ids) # <<>> => Tail(ids)[Len(Tail(ids))] = ids[Len(ids)]
         /\ Tail(ids) = <<>> => Head(ids) = ids[Len(ids)]
<1>1. /\ Tail(ids) \in Seq(STRING) /\ Len(Tail(ids)) = Len(ids) - 1 /\ Head(ids) = ids[1]
      /\ \A i \in 1..Len(Tail(ids)) : i + 1 \in 1..Len(ids) /\ Tail(ids)[i] = ids[i + 1]
      /\ Tail(ids) = <<>> <=> Len(ids) = 1
      /\ Len(ids) \in Nat /\ Len(ids) >= 1
  BY TailElements
<1>2. Tail(ids) # <<>> => Len(Tail(ids)) \in 1..Len(Tail(ids)) /\ Len(Tail(ids)) + 1 = Len(ids)
  BY <1>1
<1>3. Head(ids) \in STRING
  OBVIOUS
<1> QED BY <1>1, <1>2, <1>3

-----------------------------------------------------------------------------
(* The requests.                                                           *)

LEMMA CallSelectKeepsIInv ==
  ASSUME IInv, NEW ids \in Paths, CallSelect(ids)
  PROVE  IInv'
<1>1. Basics /\ Still /\ Resting /\ stack = <<>> /\ hops = <<>>
  BY Phases DEF CallSelect, IInv, Still
<1>2. alive => cur = sel
  BY <1>1, AstrayWhere DEF Still
<1>3. ids \in Seq(STRING) /\ ids # <<>> /\ Len(ids) \in Nat /\ Len(ids) >= 1
  BY PathsShape
<1>4. /\ sel \in tree \cap OnCard /\ sel \in Files /\ cur \in Files
      /\ UNCHANGED <<tree, sel, adf, fcp, cur, alive, hops, at, data>>
      /\ raised' = FALSE
  BY <1>1, KnownShape DEF Basics, IsTree, CallSelect, lchan, card, loop
<1>5. /\ call'.kind = "select" /\ call'.ids = ids /\ call'.from = cur
      /\ call' \in [kind : {"none", "select", "select_file", "reset"}, ids : Seq(STRING),
                    file : Files \cup {NoFile}, from : Files]
  BY <1>3, <1>4 DEF CallSelect
<1>6. Ctx'.call = call' /\ Ctx'.live = alive /\ Ctx'.tree = tree /\ Wanted(Ctx') = ids[Len(ids)]
  BY <1>4, <1>5 DEF Ctx, Wanted
<1>7. CASE Len(ids) > 1
  <2> DEFINE a == Frame("path", sel, ids)
  <2>1. a \in Frames /\ a.op = "path" /\ a.file = sel /\ a.ids = ids
    BY <1>3, <1>4, FrameFacts DEF Ops
  <2>2. stack' = <<a>>
    BY <1>7 DEF CallSelect
  <2> HIDE DEF a
  <2>3. stack' \in Seq(Frames) /\ stack' # <<>> /\ Head(stack') = a /\ Tail(stack') = <<>>
    BY <2>1, <2>2
  <2>4. Caller(stack', Ctx')
    BY <1>2, <1>4, <1>5, <1>6, <2>1, <2>3 DEF Caller, IsTop
  <2>5. Basics'
    BY <1>1, <1>4, <1>5, <2>3 DEF Basics, Trapped
  <2>6. Still' /\ AtPath'
    BY <1>1, <1>2, <1>3, <1>4, <2>1, <2>3, <2>4 DEF Still, AtPath
  <2> QED BY <2>5, <2>6 DEF IInv
<1>8. CASE ~(Len(ids) > 1)
  <2> DEFINE a == Frame("select", NoFile, ids)
  <2>1. a \in Frames /\ a.op = "select" /\ a.ids = ids
    BY <1>3, FrameFacts DEF Ops
  <2>2. stack' = <<a>>
    BY <1>8 DEF CallSelect
  <2> HIDE DEF a
  <2>3. stack' \in Seq(Frames) /\ stack' # <<>> /\ Head(stack') = a /\ Tail(stack') = <<>>
    BY <2>1, <2>2
  <2>4. Caller(Tail(stack'), Ctx') /\ Home(Tail(stack'), sel, Ctx')
    BY <1>2, <1>5, <1>6, <2>3 DEF Caller, Home
  <2>5. Len(ids) = 1
    <3> DEFINE n == Len(ids)
    <3>1. n \in Nat /\ n >= 1 /\ ~(n > 1)
      BY <1>3, <1>8
    <3> HIDE DEF n
    <3>2. n = 1
      BY <3>1
    <3> QED BY <3>2 DEF n
  <2>6. Basics'
    BY <1>1, <1>4, <1>5, <2>3 DEF Basics, Trapped
  <2>7. Asking'
    BY <1>4, <1>6, <2>1, <2>3, <2>4, <2>5 DEF Asking, IsTop
  <2>8. Still'
    BY <1>1, <1>2, <1>4, <2>7 DEF Still
  <2> QED BY <2>6, <2>8 DEF IInv
<1> QED BY <1>7, <1>8

LEMMA CallSelectFileKeepsIInv ==
  ASSUME IInv, NEW file \in tree, CallSelectFile(file)
  PROVE  IInv'
<1>1. Basics /\ Still /\ Resting /\ stack = <<>> /\ hops = <<>>
  BY Phases DEF CallSelectFile, IInv, Still
<1>2. alive => cur = sel
  BY <1>1, AstrayWhere DEF Still
<1>4. /\ sel \in tree \cap OnCard /\ file \in Files /\ cur \in Files
      /\ UNCHANGED <<tree, sel, adf, fcp, cur, alive, hops, at, data>>
      /\ raised' = FALSE
  BY <1>1, KnownShape DEF Basics, IsTree, CallSelectFile, lchan, card, loop
<1>5. /\ call'.kind = "select_file" /\ call'.file = file /\ call'.from = cur
      /\ call' \in [kind : {"none", "select", "select_file", "reset"}, ids : Seq(STRING),
                    file : Files \cup {NoFile}, from : Files]
  BY <1>4, NoIds DEF CallSelectFile
<1>6. Ctx'.call = call' /\ Ctx'.live = alive /\ Ctx'.tree = tree
  BY <1>4 DEF Ctx
<1> DEFINE a == Frame("select_file", file, <<>>)
<1>7. a \in Frames /\ a.op = "select_file" /\ a.file = file
  BY <1>4, PlainFrame DEF Ops
<1>8. stack' = <<a>>
  BY DEF CallSelectFile
<1> HIDE DEF a
<1>9. stack' \in Seq(Frames) /\ stack' # <<>> /\ Head(stack') = a /\ Tail(stack') = <<>>
  BY <1>7, <1>8
<1>10. Basics'
  BY <1>1, <1>2, <1>4, <1>5, <1>6, <1>9 DEF Basics, Trapped, Sound
<1>11. Filing(stack', Ctx')
  BY <1>5, <1>6, <1>7, <1>9 DEF Filing, FileOps
<1>12. Still' /\ AtSelectFile'
  BY <1>1, <1>2, <1>4, <1>7, <1>9, <1>11 DEF Still, AtSelectFile
<1> QED BY <1>10, <1>12 DEF IInv

LEMMA ResetKeepsIInv ==
  ASSUME IInv, Reset PROVE IInv'
<1>1. Basics /\ Still /\ stack = <<>> /\ hops = <<>>
  BY Phases DEF Reset, IInv, Still
<1>2. MF \in Profile /\ MF \in OnCard /\ OnCard \subseteq Files /\ Profile \subseteq Files /\ MF \notin ADFs
  BY KnownShape, TreeShape
<1>3. Trapped => FirstFsADF \in FsADFs /\ FirstFsADF \in ADFs /\ FirstFsADF \in Profile
  BY TreeShape, KnownShape DEF Trapped
<1>4. /\ call'.kind = "reset"
      /\ call' \in [kind : {"none", "select", "select_file", "reset"}, ids : Seq(STRING),
                    file : Files \cup {NoFile}, from : Files]
  <2>1. cur \in Files
    BY <1>1, <1>2 DEF Basics
  <2> QED BY <2>1, NoIds DEF Reset
<1>5. UNCHANGED <<tree, stack, hops, at, data>>
  BY DEF Reset, loop
<1>6. (alive' => cur' = sel') /\ alive' \in BOOLEAN /\ raised' \in BOOLEAN
  BY DEF Reset
<1>7. sel' \in tree \cap OnCard /\ fcp' = sel' /\ cur' \in OnCard
  BY <1>1, <1>2, <1>3 DEF Reset, Basics
<1>8. adf' \in ADFs \cup {NoFile} /\ (Trapped' => sel' = adf') /\ (sel' \in ADFs => adf' = sel')
  BY <1>1, <1>2, <1>3 DEF Reset, Basics, Trapped
<1>9. Basics'
  BY <1>1, <1>4, <1>5, <1>6, <1>7, <1>8 DEF Basics
<1>10. Still' /\ Resting'
  BY <1>1, <1>4, <1>5, <1>6 DEF Still, Resting
<1> QED BY <1>9, <1>10 DEF IInv

-----------------------------------------------------------------------------
(* The calls.                                                              *)

LEMMA LinkLostKeepsIInv ==
  ASSUME IInv, LinkLost PROVE IInv'
<1>1. /\ UNCHANGED <<tree, sel, adf, fcp, cur, stack, hops, at, data, raised, call>>
      /\ ~alive' /\ alive' \in BOOLEAN
  BY DEF LinkLost, lchan, loop
<1>2. Ctx'.call = Ctx.call /\ Ctx.tree \subseteq Ctx'.tree /\ ~Ctx'.live
  BY <1>1 DEF Ctx
<1>3. ~Sound(Ctx') /\ (Trapped' <=> Trapped) /\ Wanted(Ctx') = Wanted(Ctx)
  BY <1>1, <1>2 DEF Sound, Trapped, Wanted
<1>4. \A s : /\ Caller(s, Ctx) => Caller(s, Ctx')
             /\ Trying(s, Ctx) => Trying(s, Ctx')
             /\ GoingBack(s, Ctx) => GoingBack(s, Ctx')
             /\ Filing(s, Ctx) => Filing(s, Ctx')
             /\ Leaving(s, Ctx) => Leaving(s, Ctx')
             /\ InnerTry(s, Ctx) => InnerTry(s, Ctx')
             /\ InnerReraise(s, Ctx) => InnerReraise(s, Ctx')
             /\ InnerFiling(s, Ctx) => InnerFiling(s, Ctx')
  BY <1>2, ContextKeeps
<1>5. \A s, f : Home(s, f, Ctx') /\ (Serves(s, f, Ctx) => Serves(s, f, Ctx'))
  BY <1>2, <1>3 DEF Home, Serves
<1>6. Basics'
  BY <1>1, <1>3 DEF IInv, Basics
<1>7. CASE Still
  <2>1. /\ Resting => Resting'
        /\ AtPath => AtPath'
        /\ Asking => Asking'
        /\ Probing => Probing'
    BY <1>1, <1>3, <1>4, <1>5 DEF Resting, AtPath, Asking, Probing
  <2>2. /\ AtTry => AtTry'
        /\ AtReraise => AtReraise'
        /\ AtSelectFile => AtSelectFile'
        /\ AtGoto => AtGoto'
    BY <1>1, <1>3, <1>4, <1>5 DEF AtTry, AtReraise, AtSelectFile, AtGoto
  <2>3. /\ LeaveAsking => LeaveAsking'
        /\ LeaveTry => LeaveTry'
        /\ LeaveReraise => LeaveReraise'
        /\ LeaveFiling => LeaveFiling'
    BY <1>1, <1>3, <1>4 DEF LeaveAsking, LeaveTry, LeaveReraise, LeaveFiling
  <2>4. Still'
    BY <1>1, <1>7, <2>1, <2>2, <2>3 DEF Still
  <2> QED BY <1>6, <2>4 DEF IInv
<1>8. CASE HopBasics /\ (Hopping \/ LeaveHopping)
  <2>1. HopBasics'
    BY <1>1, <1>3, <1>8 DEF HopBasics, CanHop
  <2>2. Hopping => Hopping'
    BY <1>1, <1>3, <1>4 DEF Hopping
  <2>3. LeaveHopping => LeaveHopping'
    BY <1>1, <1>3, <1>4 DEF LeaveHopping
  <2> QED BY <1>6, <1>8, <2>1, <2>2, <2>3 DEF IInv
<1> QED BY <1>7, <1>8 DEF IInv

LEMMA StackTyping ==
  ASSUME Basics, stack # <<>>
  PROVE  /\ Head(stack) \in Frames /\ Tail(stack) \in Seq(Frames)
         /\ Head(stack).ids \in Seq(STRING) /\ Head(stack).file \in Files \cup {NoFile}
<1>1. Head(stack) \in Frames /\ Tail(stack) \in Seq(Frames)
  BY StackFacts DEF Basics
<1> QED BY <1>1 DEF Frames

\* In the calls that leave an application the card is where the software is.
LEMMA LeavingIsNotAstray ==
  ASSUME Astray PROVE ~LeaveAsking /\ ~LeaveTry /\ ~LeaveReraise /\ ~LeaveFiling
<1>1. \A s, x : Leaving(s, x) => IsTop(s, "goto")
  BY DEF Leaving, Filing, IsTop
<1>2. \A s, x : Caller(s, x) => ~IsTop(s, "goto")
  BY DEF Caller, IsTop
<1>3. ~LeaveAsking /\ ~LeaveReraise
  BY AstrayWhere DEF LeaveAsking, LeaveReraise, InnerReraise, IsTop, FileOps
<1>4. \A s, x : ~(Trying(s, x) /\ InnerTry(s, x)) /\ ~(GoingBack(s, x) /\ InnerReraise(s, x))
  BY <1>1, <1>2 DEF Trying, InnerTry, GoingBack, InnerReraise
<1>5. ~LeaveTry
  BY <1>4 DEF LeaveTry, Astray, InnerTry, IsTop, Filing, FileOps
<1>6. \A s, x : GoingBack(s, x) => ~InnerTry(s, x)
  BY DEF GoingBack, InnerTry, IsTop
<1>7. ~LeaveFiling
  BY <1>4, <1>6 DEF LeaveFiling, InnerFiling, Astray, Trying, IsTop, FileOps
<1> QED BY <1>3, <1>5, <1>7

LEMMA PathStepKeepsIInv ==
  ASSUME IInv, PathStep PROVE IInv'
<1>1. Basics /\ Still /\ AtPath /\ hops = <<>> /\ stack # <<>> /\ Head(stack).op = "path"
  BY Phases DEF PathStep, Top, IsTop, IInv, Still
<1>2. /\ UNCHANGED <<lchan, card, loop, call>> /\ raised' = FALSE /\ raised = FALSE
      /\ alive => cur = sel
  BY <1>1, AstrayWhere DEF PathStep, Basics, Still, FileOps
<1> DEFINE f == Head(stack)
<1>3. /\ f \in Frames /\ f.ids \in Seq(STRING) /\ f.file \in tree \cap OnCard /\ f.file \in Files
      /\ Tail(stack) = <<>> /\ Ctx.call.kind = "select" /\ Ctx.call.ids \in Paths
      /\ Ctx.live => f.file = Ctx.call.from
      /\ f.ids # <<>> => f.ids[Len(f.ids)] = Wanted(Ctx)
  BY <1>1, StackTyping, KnownShape DEF AtPath, Caller, Ctx, IsTop
<1>4. CASE f.ids = <<>>
  <2>1. stack' = <<>> /\ stack' \in Seq(Frames)
    <3>1. Tail(stack) \in Seq(Frames)
      BY <1>1, StackTyping
    <3> QED BY <1>3, <1>4, <3>1 DEF PathStep, Return
  <2>2. Basics' /\ hops' = <<>> /\ UNCHANGED <<cur, sel, alive>>
    BY <1>1, <1>2, <2>1, StackStep
  <2>3. Wanted(Ctx) \in Ids(sel) /\ call'.kind = "select"
    BY <1>1, <1>2, <1>3, <1>4 DEF AtPath, Ctx
  <2>4. Ctx' = Ctx
    BY <1>2, <2>2 DEF Ctx, lchan
  <2>5. Resting'
    BY <1>2, <2>1, <2>2, <2>3, <2>4 DEF Resting
  <2>6. Still'
    BY <1>2, <2>2, <2>5 DEF Still
  <2> QED BY <2>2, <2>6 DEF IInv
<1>5. CASE f.ids # <<>>
  <2> DEFINE b == [f EXCEPT !.ids = Tail(@)]
             a == Frame("select", NoFile, <<Head(f.ids)>>)
  <2>1. /\ Head(f.ids) \in STRING /\ Tail(f.ids) \in Seq(STRING)
        /\ Tail(f.ids) # <<>> => Tail(f.ids)[Len(Tail(f.ids))] = Wanted(Ctx)
        /\ Tail(f.ids) = <<>> => Head(f.ids) = Wanted(Ctx)
    BY <1>3, <1>5, LastOfTail
  <2>2. b \in Frames /\ b.op = "path" /\ b.file = f.file /\ b.ids = Tail(f.ids)
    BY <1>1, <1>3, <2>1 DEF Frames
  <2>3. <<Head(f.ids)>> \in Seq(STRING) /\ Len(<<Head(f.ids)>>) = 1 /\ <<Head(f.ids)>>[1] = Head(f.ids)
    BY <2>1, OneId
  <2>4. a \in Frames /\ a.op = "select" /\ a.ids = <<Head(f.ids)>>
    <3> DEFINE one == <<Head(f.ids)>>
    <3>1. one \in Seq(STRING)
      BY <2>3
    <3> HIDE DEF one
    <3>2. Frame("select", NoFile, one) \in Frames /\ Frame("select", NoFile, one).op = "select" /\ Frame("select", NoFile, one).ids = one
      BY <3>1, FrameFacts DEF Ops
    <3> QED BY <3>2 DEF one
  <2>5. stack' = Called(a, b, Tail(stack))
    BY <1>5 DEF PathStep, Call, Called
  <2> HIDE DEF a, b, f
  <2>6. /\ stack' \in Seq(Frames) /\ stack' # <<>> /\ Head(stack') = a
        /\ Tail(stack') # <<>> /\ Head(Tail(stack')) = b /\ Tail(Tail(stack')) = <<>>
    <3>1. Tail(stack) \in Seq(Frames)
      BY <1>1, StackTyping
    <3> QED BY <1>3, <2>2, <2>4, <2>5, <3>1, CallFacts
  <2>7. /\ Basics' /\ hops' = <<>> /\ Ctx' = Ctx /\ UNCHANGED <<cur, sel, alive>>
    BY <1>1, <1>2, <2>6, StackStep
  <2>8. Caller(Tail(stack'), Ctx)
    BY <1>3, <2>1, <2>2, <2>6 DEF Caller, IsTop, Ctx
  <2>9. Home(Tail(stack'), sel, Ctx) /\ (LastName(Tail(stack')) => Head(stack').ids[1] = Wanted(Ctx))
    BY <2>1, <2>2, <2>3, <2>4, <2>6 DEF Home, LastName
  <2>10. Asking'
    BY <1>2, <2>3, <2>4, <2>6, <2>7, <2>8, <2>9 DEF Asking, IsTop
  <2>11. Still'
    BY <1>2, <2>7, <2>10 DEF Still
  <2> QED BY <2>7, <2>11 DEF IInv
<1> QED BY <1>4, <1>5

LEMMA SelectKnownKeepsIInv ==
  ASSUME IInv, SelectKnown PROVE IInv'
<1>1. Basics /\ Still /\ (Asking \/ LeaveAsking) /\ hops = <<>> /\ stack # <<>> /\ Head(stack).op = "select"
  BY Phases DEF SelectKnown, Top, IsTop, IInv, Still
<1> DEFINE id == Head(stack).ids[1]
<1>2. PICK target \in Lookup(tree, sel, id) : Call(Frame("try", sel, <<>>), Frame("select_file", target, <<>>))
  BY DEF SelectKnown
<1>3. /\ UNCHANGED <<lchan, card, loop, call>> /\ raised' = raised /\ raised = FALSE
      /\ alive => cur = sel
  BY <1>1, AstrayWhere DEF SelectKnown, Basics, Still, FileOps, Asking, LeaveAsking
<1>4. target \in tree /\ target \in Files /\ id \in Ids(target) /\ sel \in tree \cap OnCard /\ sel \in Files
  BY <1>1, <1>2 DEF Lookup, Selectables, Basics, IsTree
<1> DEFINE b == Frame("try", sel, <<>>)
           a == Frame("select_file", target, <<>>)
<1>5. b \in Frames /\ b.op = "try" /\ b.file = sel
  BY <1>4, PlainFrame DEF Ops
<1>6. a \in Frames /\ a.op = "select_file" /\ a.file = target
  BY <1>4, PlainFrame DEF Ops
<1>7. stack' = Called(a, b, Tail(stack)) /\ Tail(stack) \in Seq(Frames)
  BY <1>1, <1>2, StackTyping DEF Call, Called
<1> HIDE DEF a, b, id
<1>8. /\ stack' \in Seq(Frames) /\ stack' # <<>> /\ Head(stack') = a
      /\ Tail(stack') # <<>> /\ Head(Tail(stack')) = b /\ Tail(Tail(stack')) = Tail(stack)
  <2>1. a \in Frames /\ b \in Frames /\ Tail(stack) \in Seq(Frames) /\ stack' = Called(a, b, Tail(stack))
    BY <1>5, <1>6, <1>7
  <2> DEFINE c == Called(a, b, Tail(stack))
  <2>2. /\ c \in Seq(Frames) /\ c # <<>> /\ Head(c) = a
        /\ Tail(c) # <<>> /\ Head(Tail(c)) = b /\ Tail(Tail(c)) = Tail(stack)
    BY <2>1, CallFacts
  <2> HIDE DEF c
  <2>3. stack' = c
    BY <2>1 DEF c
  <2> QED BY <2>2, <2>3
<1>9. /\ Basics' /\ hops' = <<>> /\ Ctx' = Ctx /\ UNCHANGED <<cur, sel, alive>>
  BY <1>1, <1>3, <1>8, StackStep
<1>10. Ctx.tree = tree
  BY DEF Ctx
<1>11. CASE Asking
  <2>1. Trying(Tail(stack'), Ctx)
    BY <1>4, <1>5, <1>8, <1>10, <1>11 DEF Trying, IsTop, Asking
  <2>2. Serves(Tail(Tail(stack')), target, Ctx)
    BY <1>4, <1>8, <1>11 DEF Serves, Asking, id
  <2>3. Filing(stack', Ctx)
    BY <1>4, <1>6, <1>8, <1>10, <2>1, <2>2 DEF Filing, FileOps
  <2>4. AtSelectFile'
    BY <1>3, <1>6, <1>8, <1>9, <2>3 DEF AtSelectFile
  <2>5. Still'
    BY <1>3, <1>9, <2>4 DEF Still
  <2> QED BY <1>9, <2>5 DEF IInv
<1>12. CASE LeaveAsking
  <2>1. /\ Head(stack).ids = <<Name(FirstFsADF)>> /\ Leaving(Tail(stack), Ctx) /\ Trapped
    BY <1>12 DEF LeaveAsking
  <2>2. id = Name(FirstFsADF) /\ FirstFsADF \in FsADFs /\ FirstFsADF \in ADFs /\ sel \in ADFs \ FsADFs
    BY <1>1, <2>1, TreeShape DEF Leaving, Basics, Trapped, id
  <2>3. IsTree(tree) /\ ADFs \subseteq tree
    BY <1>1, KnownShape DEF Basics
  <2>4. target = FirstFsADF
    <3>1. Lookup(tree, sel, id) = {FirstFsADF}
      BY <2>2, <2>3, LookupOfApplication
    <3> QED BY <1>2, <3>1
  <2>5. InnerTry(Tail(stack'), Ctx)
    BY <1>4, <1>5, <1>8, <2>1, <2>2 DEF InnerTry, IsTop
  <2>6. InnerFiling(stack', Ctx)
    BY <1>6, <1>8, <2>2, <2>4, <2>5 DEF InnerFiling, FileOps
  <2>7. LeaveFiling'
    BY <1>3, <1>6, <1>8, <1>9, <2>6 DEF LeaveFiling
  <2>8. Still'
    BY <1>3, <1>9, <2>7 DEF Still
  <2> QED BY <1>9, <2>8 DEF IInv
<1> QED BY <1>1, <1>11, <1>12

LEMMA SelectUnknownKeepsIInv ==
  ASSUME IInv, SelectUnknown PROVE IInv'
<1>1. Basics /\ Still /\ (Asking \/ LeaveAsking) /\ hops = <<>> /\ stack # <<>> /\ Head(stack).op = "select"
  BY Phases DEF SelectUnknown, Top, IsTop, IInv, Still
<1> DEFINE id == Head(stack).ids[1]
<1>2. Lookup(tree, sel, id) = {}
  BY DEF SelectUnknown
<1>3. /\ UNCHANGED <<lchan, card, loop, call>> /\ raised = FALSE
      /\ alive => cur = sel
  BY <1>1, AstrayWhere DEF SelectUnknown, Basics, Still, FileOps, Asking, LeaveAsking
<1>4. sel \in tree \cap OnCard /\ sel \in Files /\ IsTree(tree) /\ ADFs \subseteq tree
  BY <1>1, KnownShape DEF Basics, IsTree
<1>5. Asking
  <2>1. CASE LeaveAsking
    <3>1. /\ Head(stack).ids = <<Name(FirstFsADF)>> /\ Leaving(Tail(stack), Ctx) /\ Trapped
      BY <2>1 DEF LeaveAsking
    <3>2. id = Name(FirstFsADF) /\ FirstFsADF \in ADFs /\ sel \in ADFs \ FsADFs
      BY <1>1, <3>1, TreeShape DEF Leaving, Basics, Trapped
    <3> HIDE DEF id
    <3>3. Lookup(tree, sel, id) = {FirstFsADF}
      BY <1>4, <3>2, LookupOfApplication
    <3> QED BY <1>2, <3>3
  <2> QED BY <1>1, <2>1
<1>6. Len(Head(stack).ids) = 1 /\ Head(stack).ids \in Seq(STRING) /\ id \in STRING
  <2>1. Len(Head(stack).ids) = 1 /\ Head(stack).ids \in Seq(STRING)
    BY <1>1, <1>5, StackTyping DEF Asking
  <2> QED BY <2>1
<1> DEFINE b == Frame("try", sel, <<>>)
           a == Frame("probe", NoFile, <<id>>)
<1>7. b \in Frames /\ b.op = "try" /\ b.file = sel
  BY <1>4, PlainFrame DEF Ops
<1>8. a \in Frames /\ a.op = "probe" /\ Len(a.ids) = 1 /\ a.ids[1] = id
  <2> HIDE DEF id
  <2>1. <<id>> \in Seq(STRING) /\ Len(<<id>>) = 1 /\ <<id>>[1] = id
    BY <1>6, OneId
  <2>2. a \in Frames /\ a.op = "probe" /\ a.ids = <<id>>
    <3> DEFINE one == <<id>>
    <3>1. one \in Seq(STRING)
      BY <2>1
    <3> HIDE DEF one
    <3>2. Frame("probe", NoFile, one) \in Frames /\ Frame("probe", NoFile, one).op = "probe" /\ Frame("probe", NoFile, one).ids = one
      BY <3>1, FrameFacts DEF Ops
    <3> QED BY <3>2 DEF one
  <2> QED BY <2>1, <2>2
<1>9. Tail(stack) \in Seq(Frames) /\ Ctx.tree = tree
  BY <1>1, StackTyping DEF Ctx
<1>10. CASE id \in HexIds
  <2>1. stack' = Called(a, b, Tail(stack)) /\ raised' = FALSE
    BY <1>3, <1>10 DEF SelectUnknown, Call, Called
  <2> HIDE DEF a, b, id
  <2>2. /\ stack' \in Seq(Frames) /\ stack' # <<>> /\ Head(stack') = a
        /\ Tail(stack') # <<>> /\ Head(Tail(stack')) = b /\ Tail(Tail(stack')) = Tail(stack)
    BY <1>7, <1>8, <1>9, <2>1, CallFacts, ZenonT(40)
  <2>3. /\ Basics' /\ hops' = <<>> /\ Ctx' = Ctx /\ UNCHANGED <<tree, cur, sel, alive>>
    BY <1>1, <1>3, <2>1, <2>2, StackStep
  <2>4. Trying(Tail(stack'), Ctx)
    BY <1>4, <1>5, <1>7, <1>9, <2>2 DEF Trying, IsTop, Asking
  <2>5. LastName(Tail(Tail(stack'))) => id = Wanted(Ctx)
    BY <1>5, <2>2 DEF Asking, id
  <2>6. Probing'
    BY <1>2, <1>7, <1>8, <1>10, <2>1, <2>2, <2>3, <2>4, <2>5 DEF Probing, IsTop
  <2>7. Still'
    BY <1>3, <2>3, <2>6 DEF Still
  <2> QED BY <2>3, <2>7 DEF IInv
<1>11. CASE id \notin HexIds
  <2>1. stack' = <<b>> \o Tail(stack) /\ raised' = TRUE
    BY <1>11 DEF SelectUnknown, Become
  <2> HIDE DEF a, b, id
  <2>2. stack' \in Seq(Frames) /\ stack' # <<>> /\ Head(stack') = b /\ Tail(stack') = Tail(stack)
    BY <1>7, <1>9, <2>1, PushFacts
  <2>3. /\ Basics' /\ hops' = <<>> /\ Ctx' = Ctx /\ UNCHANGED <<tree, cur, sel, alive>>
    BY <1>1, <1>3, <2>1, <2>2, StackStep
  <2>4. Trying(stack', Ctx)
    BY <1>4, <1>5, <1>7, <1>9, <2>2 DEF Trying, IsTop, Asking
  <2>5. AtTry'
    BY <2>1, <2>3, <2>4 DEF AtTry
  <2>6. Still'
    BY <1>3, <2>3, <2>5 DEF Still
  <2> QED BY <2>3, <2>6 DEF IInv
<1> QED BY <1>10, <1>11

LEMMA TryReturnKeepsIInv ==
  ASSUME IInv, TryReturn PROVE IInv'
<1>1. Basics /\ Still /\ (AtTry \/ LeaveTry) /\ hops = <<>> /\ stack # <<>> /\ Head(stack).op = "try"
  BY Phases DEF TryReturn, Top, IsTop, IInv, Still
<1>2. /\ UNCHANGED <<lchan, card, loop, call>> /\ raised' = FALSE /\ raised = FALSE
      /\ stack' = Tail(stack) /\ stack' \in Seq(Frames)
      /\ alive => cur = sel
  BY <1>1, AstrayWhere, StackTyping DEF TryReturn, Return, Basics, Still, FileOps
<1>3. /\ Basics' /\ hops' = <<>> /\ Ctx' = Ctx /\ (Trapped' <=> Trapped) /\ UNCHANGED <<cur, sel, alive, call>>
  BY <1>1, <1>2, StackStep
<1>4. CASE AtTry
  <2>1. Caller(stack', Ctx) /\ Serves(stack', sel, Ctx)
    BY <1>2, <1>4 DEF AtTry, Trying
  <2>2. Resting' \/ AtPath'
    <3>1. call'.kind = "select" /\ (LastName(stack') => Wanted(Ctx) \in Ids(sel))
      BY <1>3, <2>1 DEF Caller, Serves, Ctx
    <3>2. CASE stack' = <<>>
      BY <1>2, <1>3, <3>1, <3>2 DEF Resting, LastName
    <3>3. CASE stack' # <<>>
      BY <1>2, <1>3, <2>1, <3>1, <3>3 DEF AtPath, LastName
    <3> QED BY <3>2, <3>3
  <2>3. Still'
    BY <1>2, <1>3, <2>2 DEF Still
  <2> QED BY <1>3, <2>3 DEF IInv
<1>5. CASE LeaveTry
  <2>1. Leaving(stack', Ctx) /\ ~Trapped
    BY <1>2, <1>5 DEF LeaveTry, InnerTry
  <2>2. AtGoto'
    BY <1>2, <1>3, <2>1 DEF AtGoto, Leaving
  <2>3. Still'
    BY <1>2, <1>3, <2>2 DEF Still
  <2> QED BY <1>3, <2>3 DEF IInv
<1> QED BY <1>1, <1>4, <1>5

LEMMA GoBackKeepsIInv ==
  ASSUME IInv, GoBack PROVE IInv'
<1>1. /\ Basics /\ Still /\ hops = <<>> /\ stack # <<>>
      /\ \/ AtPath /\ Head(stack).op = "path"
         \/ (AtTry \/ LeaveTry) /\ Head(stack).op = "try"
  BY Phases DEF GoBack, Top, IsTop, IInv, Still
<1>2. /\ UNCHANGED <<lchan, card, loop, call>> /\ raised' = FALSE /\ raised = TRUE
      /\ alive => cur = sel \/ Astray
  BY <1>1 DEF GoBack, Still, Basics
<1> DEFINE file == Head(stack).file
           a == Frame("select_file", file, <<>>)
           b == Frame("reraise", NoFile, <<>>)
<1>3. b \in Frames /\ b.op = "reraise"
  BY PlainFrame DEF Ops
<1>4. file \in tree \cap OnCard
  <2>1. CASE AtPath
    BY <2>1 DEF AtPath, Caller, Ctx
  <2>2. CASE AtTry
    BY <2>2 DEF AtTry, Trying, Ctx
  <2>3. CASE LeaveTry
    BY <1>1, <2>3, KnownShape DEF LeaveTry, InnerTry, Basics
  <2> QED BY <1>1, <2>1, <2>2, <2>3
<1>5. file \in Files
  BY <1>4, KnownShape
<1>6. a \in Frames /\ a.op = "select_file" /\ a.file = file
  <2> HIDE DEF file
  <2> QED BY <1>5, PlainFrame DEF Ops
<1>7. stack' = Called(a, b, Tail(stack)) /\ Tail(stack) \in Seq(Frames) /\ Ctx.tree = tree
  BY <1>1, StackTyping DEF GoBack, Call, Called, Ctx
<1> HIDE DEF a, b, file
<1>8. /\ stack' \in Seq(Frames) /\ stack' # <<>> /\ Head(stack') = a
      /\ Tail(stack') # <<>> /\ Head(Tail(stack')) = b /\ Tail(Tail(stack')) = Tail(stack)
  <2> DEFINE c == Called(a, b, Tail(stack))
  <2>1. /\ c \in Seq(Frames) /\ c # <<>> /\ Head(c) = a
        /\ Tail(c) # <<>> /\ Head(Tail(c)) = b /\ Tail(Tail(c)) = Tail(stack)
    BY <1>3, <1>6, <1>7, CallFacts
  <2> HIDE DEF c
  <2>2. stack' = c
    BY <1>3, <1>6, <1>7 DEF c
  <2> QED BY <2>1, <2>2
<1>9. /\ Basics' /\ hops' = <<>> /\ Ctx' = Ctx /\ UNCHANGED <<cur, sel, alive>>
  BY <1>1, <1>2, <1>8, StackStep
<1>10. CASE AtPath \/ AtTry
  <2>1. Caller(Tail(stack), Ctx) /\ Home(Tail(stack), file, Ctx)
    <3>1. CASE AtPath
      BY <3>1 DEF AtPath, Caller, Home, IsTop, file, Wanted
    <3>2. CASE AtTry
      BY <3>2 DEF AtTry, Trying, file
    <3> QED BY <1>10, <3>1, <3>2
  <2>2. GoingBack(Tail(stack'), Ctx)
    BY <1>3, <1>8, <2>1 DEF GoingBack, IsTop
  <2>3. Filing(stack', Ctx)
    BY <1>4, <1>6, <1>7, <1>8, <2>1, <2>2 DEF Filing, FileOps
  <2>4. AtSelectFile'
    BY <1>2, <1>6, <1>8, <1>9, <2>3 DEF AtSelectFile
  <2>5. ASSUME Astray PROVE Astray'
    <3>1. Beside(cur, sel) /\ file = sel
      BY <1>1, <1>2, <2>5 DEF Astray, Filing, FileOps, file
    <3> QED BY <1>2, <1>6, <1>8, <1>9, <2>2, <2>3, <3>1 DEF Astray
  <2>6. Still'
    BY <1>2, <1>9, <2>4, <2>5 DEF Still
  <2> QED BY <1>9, <2>6 DEF IInv
<1>11. CASE LeaveTry
  <2>1. /\ Leaving(Tail(stack), Ctx) /\ ~Sound(Ctx) /\ file \in ADFs /\ (alive => cur = sel)
    BY <1>2, <1>11, LeavingIsNotAstray DEF LeaveTry, InnerTry, file
  <2>2. InnerReraise(Tail(stack'), Ctx)
    BY <1>3, <1>8, <2>1 DEF InnerReraise, IsTop
  <2>3. InnerFiling(stack', Ctx)
    BY <1>4, <1>6, <1>8, <2>1, <2>2 DEF InnerFiling, FileOps
  <2>4. LeaveFiling'
    BY <1>2, <1>6, <1>8, <1>9, <2>3 DEF LeaveFiling
  <2>5. Still'
    BY <1>9, <2>1, <2>4 DEF Still
  <2> QED BY <1>9, <2>5 DEF IInv
<1> QED BY <1>1, <1>10, <1>11

LEMMA ReraiseKeepsIInv ==
  ASSUME IInv, Reraise PROVE IInv'
<1>1. Basics /\ Still /\ (AtReraise \/ LeaveReraise) /\ hops = <<>> /\ stack # <<>> /\ Head(stack).op = "reraise"
  BY Phases DEF Reraise, Top, IsTop, IInv, Still
<1>2. /\ UNCHANGED <<lchan, card, loop, call>> /\ raised' = TRUE
      /\ stack' = Tail(stack) /\ stack' \in Seq(Frames)
      /\ alive => cur = sel
  BY <1>1, AstrayWhere, StackTyping DEF Reraise, Return, Still, FileOps
<1>3. /\ Basics' /\ hops' = <<>> /\ Ctx' = Ctx /\ UNCHANGED <<cur, sel, alive, call>>
  BY <1>1, <1>2, StackStep
<1>4. CASE AtReraise
  <2>1. Caller(stack', Ctx) /\ (Sound(Ctx) => Home(stack', sel, Ctx))
    BY <1>2, <1>4 DEF AtReraise, GoingBack
  <2>2. CASE stack' = <<>>
    <3>1. Sound(Ctx) => sel = call.from
      BY <2>1, <2>2 DEF Home, Sound, Ctx
    <3>2. Still'
      BY <1>2, <1>3, <2>2, <3>1 DEF Still, Resting
    <3> QED BY <1>3, <3>2 DEF IInv
  <2>3. CASE stack' # <<>>
    <3>1. AtPath'
      BY <1>2, <1>3, <2>1, <2>3 DEF AtPath
    <3>2. Still'
      BY <1>2, <1>3, <3>1 DEF Still
    <3> QED BY <1>3, <3>2 DEF IInv
  <2> QED BY <2>2, <2>3
<1>5. CASE LeaveReraise
  <2>1. Leaving(stack', Ctx) /\ ~Sound(Ctx)
    BY <1>2, <1>5 DEF LeaveReraise, InnerReraise
  <2>2. AtGoto'
    BY <1>2, <1>3, <2>1 DEF AtGoto, Leaving
  <2>3. Still'
    BY <1>2, <1>3, <2>2 DEF Still
  <2> QED BY <1>3, <2>3 DEF IInv
<1> QED BY <1>1, <1>4, <1>5

\* One select_file() frame gives way to another for the same file.
LEMMA NextFrame ==
  ASSUME NEW s, NEW r, NEW x, s # <<>>, r # <<>>, Head(r).op \in FileOps,
         Head(r).file = Head(s).file, Tail(r) = Tail(s)
  PROVE  /\ Filing(s, x) => Filing(r, x)
         /\ InnerFiling(s, x) => InnerFiling(r, x)
BY DEF Filing, InnerFiling

LEMMA EscapeKeepsIInv ==
  ASSUME IInv, Escape PROVE IInv'
<1>1. /\ Basics /\ Still /\ (AtSelectFile \/ LeaveFiling) /\ hops = <<>>
      /\ stack # <<>> /\ Head(stack).op = "select_file"
  BY Phases DEF Escape, Top, IsTop, IInv, Still
<1>2. /\ UNCHANGED <<lchan, card, loop, call>> /\ raised' = raised /\ raised = FALSE
      /\ alive => cur = sel \/ Astray
  BY <1>1 DEF Escape, Still, Basics, AtSelectFile, LeaveFiling
<1> DEFINE file == Head(stack).file
           a == Frame("goto", file, <<>>)
<1>3. Tail(stack) \in Seq(Frames) /\ file \in Files \cup {NoFile}
  BY <1>1, StackTyping
<1>4. a \in Frames /\ a.op = "goto" /\ a.file = file
  <2> HIDE DEF file
  <2> QED BY <1>3, PlainFrame DEF Ops
<1>5. CASE file \notin ADFs /\ Trapped
  <2> DEFINE s == Frame("select", NoFile, <<Name(FirstFsADF)>>)
             one == <<Name(FirstFsADF)>>
  <2>1. FirstFsADF \in FsADFs /\ FirstFsADF \in ADFs /\ FirstFsADF \in Files
    BY <1>5, TreeShape DEF Trapped
  <2>2. one \in Seq(STRING)
    <3>1. Name(FirstFsADF) \in STRING
      BY <2>1, TreeShape, FileIsParentAndName
    <3> QED BY <3>1, OneId
  <2>3. s \in Frames /\ s.op = "select" /\ s.ids = one
    <3> HIDE DEF one
    <3>1. /\ Frame("select", NoFile, one) \in Frames /\ Frame("select", NoFile, one).op = "select"
          /\ Frame("select", NoFile, one).ids = one
      BY <2>2, FrameFacts DEF Ops
    <3> QED BY <3>1 DEF one
  <2>4. stack' = Called(s, a, Tail(stack))
    BY <1>5 DEF Escape, Call, Called
  <2> HIDE DEF s, a, file
  <2>5. /\ stack' \in Seq(Frames) /\ stack' # <<>> /\ Head(stack') = s
        /\ Tail(stack') # <<>> /\ Head(Tail(stack')) = a /\ Tail(Tail(stack')) = Tail(stack)
    <3> DEFINE c == Called(s, a, Tail(stack))
    <3>1. /\ c \in Seq(Frames) /\ c # <<>> /\ Head(c) = s
          /\ Tail(c) # <<>> /\ Head(Tail(c)) = a /\ Tail(Tail(c)) = Tail(stack)
      BY <1>3, <1>4, <2>3, <2>4, CallFacts
    <3> HIDE DEF c
    <3>2. stack' = c
      BY <1>3, <1>4, <2>3, <2>4 DEF c
    <3> QED BY <3>1, <3>2
  <2>6. /\ Basics' /\ hops' = <<>> /\ Ctx' = Ctx /\ (Trapped' <=> Trapped) /\ UNCHANGED <<cur, sel, alive>>
    BY <1>1, <1>2, <2>5, StackStep
  <2>7. sel \in ADFs \ FsADFs /\ sel \notin EFs
    BY <1>1, <1>5, TreeShape DEF Basics, Trapped
  <2>8. alive => cur = sel
    BY <1>2, <2>7 DEF Astray, Beside
  <2>9. Filing(stack, Ctx)
    BY <1>1, <1>5 DEF AtSelectFile, LeaveFiling, InnerFiling, file
  <2>10. Filing(Tail(stack'), Ctx)
    BY <1>1, <1>4, <2>5, <2>9, NextFrame DEF FileOps, file
  <2>11. Sound(Ctx) => FirstFsADF \in OnCard
    BY <2>7 DEF Sound, CanLeave
  <2>12. Leaving(Tail(stack'), Ctx)
    BY <1>4, <1>5, <2>1, <2>5, <2>10, <2>11 DEF Leaving
  <2>13. LeaveAsking'
    BY <1>2, <1>5, <2>3, <2>5, <2>6, <2>12 DEF LeaveAsking, IsTop, one
  <2>14. Still'
    BY <2>6, <2>8, <2>13 DEF Still
  <2> QED BY <2>6, <2>14 DEF IInv
<1>6. CASE ~(file \notin ADFs /\ Trapped)
  <2>1. stack' = <<a>> \o Tail(stack)
    BY <1>6 DEF Escape, Become
  <2> HIDE DEF a, file
  <2>2. stack' \in Seq(Frames) /\ stack' # <<>> /\ Head(stack') = a /\ Tail(stack') = Tail(stack)
    BY <1>3, <1>4, <2>1, PushFacts
  <2>3. /\ Basics' /\ hops' = <<>> /\ Ctx' = Ctx /\ (Trapped' <=> Trapped) /\ UNCHANGED <<cur, sel, alive>>
    BY <1>1, <1>2, <2>2, StackStep
  <2>4. /\ Filing(stack, Ctx) => Filing(stack', Ctx)
        /\ InnerFiling(stack, Ctx) => InnerFiling(stack', Ctx)
    BY <1>1, <1>4, <2>2, NextFrame DEF FileOps, file
  <2>5. Astray => Astray'
    <3>1. ASSUME Astray PROVE Beside(cur, sel) /\ Filing(stack, Ctx) /\ file = sel /\ GoingBack(Tail(stack), Ctx)
      BY <1>1, <3>1 DEF Astray, Trying, IsTop, file
    <3> QED BY <1>2, <1>4, <2>2, <2>3, <2>4, <3>1 DEF Astray
  <2>6. AtSelectFile => AtGoto'
    BY <1>2, <1>4, <1>6, <2>2, <2>3, <2>4 DEF AtSelectFile, AtGoto, file
  <2>7. LeaveFiling => LeaveFiling'
    BY <1>2, <1>4, <2>2, <2>3, <2>4 DEF LeaveFiling
  <2>8. Still'
    BY <1>1, <1>2, <2>3, <2>5, <2>6, <2>7 DEF Still
  <2> QED BY <2>3, <2>8 DEF IInv
<1> QED BY <1>5, <1>6

LEMMA ProbeFailedKeepsIInv ==
  ASSUME IInv, ProbeFailed PROVE IInv'
<1>1. Basics /\ Still /\ Probing /\ hops = <<>> /\ stack # <<>> /\ Head(stack).op = "probe"
  BY Phases DEF ProbeFailed, Top, IsTop, IInv, Still
<1>2. /\ UNCHANGED <<lchan, card, loop, call>> /\ raised' = TRUE
      /\ stack' = Tail(stack) /\ stack' \in Seq(Frames)
      /\ alive => cur = sel
  BY <1>1, AstrayWhere, StackTyping DEF ProbeFailed, Return, Still, FileOps
<1>3. /\ Basics' /\ hops' = <<>> /\ Ctx' = Ctx /\ UNCHANGED <<cur, sel, alive, call>>
  BY <1>1, <1>2, StackStep
<1>4. AtTry'
  BY <1>1, <1>2, <1>3 DEF Probing, AtTry
<1>5. Still'
  BY <1>2, <1>3, <1>4 DEF Still
<1> QED BY <1>3, <1>5 DEF IInv

\* A probe that succeeds adds a file of the card at its place, or is made in an
\* EF and moves the card next to it.
LEMMA ProbeOkKeepsIInv ==
  ASSUME IInv, ProbeOk, NoBlindSiblings PROVE IInv'
<1>1. Basics /\ Still /\ Probing /\ hops = <<>> /\ stack # <<>> /\ Head(stack).op = "probe"
  BY Phases DEF ProbeOk, Top, IsTop, IInv, Still
<1> DEFINE fid == Head(stack).ids[1]
           new == Append(sel, fid)
<1>2. PICK g \in CardFind(cur, fid) : cur' = g
  BY DEF ProbeOk
<1>3. /\ UNCHANGED <<alive, hops, at, data, call>> /\ alive /\ cur = sel
      /\ stack' = Tail(stack) /\ stack' \in Seq(Frames)
  BY <1>1, AstrayWhere, StackTyping DEF ProbeOk, Return, Still, FileOps, loop
<1>4. /\ IsTree(tree) /\ Profile \subseteq tree /\ tree \subseteq Known /\ sel \in tree \cap OnCard
      /\ fid \in HexIds /\ Lookup(tree, sel, fid) = {}
      /\ Trying(stack', Ctx) /\ Head(stack').file = sel
      /\ LastName(Tail(stack')) => fid = Wanted(Ctx)
  BY <1>1, <1>3 DEF Basics, Probing
<1> HIDE DEF fid, new
<1>5. g \in Selectables(OnCard, sel)
  BY <1>2, <1>3, <1>4 DEF NoBlindSiblings
<1>6. /\ g \in OnCard \ (tree \cup ADFs \cup {MF}) /\ fid \in Ids(g)
      /\ Parent(g) = Cwd(sel) /\ g = Append(Cwd(sel), fid)
  BY <1>2, <1>3, <1>4, <1>5, ProbeFindsANewFile
<1>7. g \in Files \ {MF} /\ ~Trapped /\ Ctx.call.kind = "select" /\ Ctx.call = call /\ Ctx.tree = tree
  <2>1. sel \notin ADFs \ FsADFs
    BY <1>2, <1>3 DEF CardFind, FidScope
  <2> QED BY <1>1, <1>4, <1>6, <2>1, KnownShape DEF Basics, Trapped, Ctx, Trying, Caller
<1>8. CASE sel \in EFs
  <2>1. raised' = TRUE /\ UNCHANGED <<tree, sel, adf, fcp>>
    BY <1>8 DEF ProbeOk, lchan
  <2>2. Ctx' = Ctx
    BY <1>3, <2>1 DEF Ctx
  <2>3. Beside(cur', sel)
    BY <1>2, <1>6, <1>8 DEF Beside, Cwd
  <2>4. Basics'
    BY <1>1, <1>2, <1>3, <1>6, <1>7, <2>1, <2>2 DEF Basics, Trapped
  <2>5. AtTry' /\ Astray'
    BY <1>4, <2>1, <2>2, <2>3 DEF AtTry, Astray
  <2>6. Still'
    BY <1>1, <1>3, <2>5 DEF Still
  <2> QED BY <2>4, <2>6 DEF IInv
<1>9. CASE sel \notin EFs
  <2>1. /\ new = g /\ tree' = tree \cup {g} /\ sel' = g /\ fcp' = g /\ UNCHANGED <<adf, raised>>
    BY <1>6, <1>9 DEF ProbeOk, new, fid, Cwd
  <2>2. Ctx'.call = Ctx.call /\ Ctx.tree \subseteq Ctx'.tree /\ (Ctx'.live => Ctx.live)
    BY <1>3, <2>1 DEF Ctx
  <2>3. Trying(stack', Ctx') /\ Wanted(Ctx') = Wanted(Ctx)
    BY <1>4, <2>2, ContextKeeps DEF Wanted
  <2>4. IsTree(tree')
    <3>1. Parent(g) \in tree
      BY <1>4, <1>6, <1>9 DEF Cwd
    <3> QED BY <1>4, <1>7, <2>1, <3>1, TreeGrows
  <2>5. tree' \subseteq Known /\ Profile \subseteq tree' /\ sel' \in tree' \cap OnCard /\ sel' \notin ADFs
    BY <1>4, <1>6, <2>1 DEF Known
  <2>6. <<>> \in Seq(tree')
    OBVIOUS
  <2>7. Basics'
    BY <1>1, <1>2, <1>3, <1>6, <1>7, <2>1, <2>4, <2>5, <2>6 DEF Basics, Trapped
  <2>8. AtTry'
    BY <1>4, <1>6, <2>1, <2>3 DEF AtTry, Serves
  <2>9. Still'
    BY <1>1, <1>2, <1>3, <2>1, <2>8 DEF Still
  <2> QED BY <2>7, <2>9 DEF IInv
<1> QED BY <1>8, <1>9
-----------------------------------------------------------------------------
(* The hop loop.                                                           *)

\* select_file() returns to its caller: the state its frame leaves behind.
LEMMA FilingReturns ==
  ASSUME Basics, Basics', Filing(stack, Ctx), stack' = Tail(stack), Ctx' = Ctx,
         hops' = <<>>, alive' => cur' = sel',
         raised' \/ sel' = Head(stack).file,
         Sound(Ctx) /\ GoingBack(Tail(stack), Ctx) => ~raised',
         Sound(Ctx) /\ Tail(stack) = <<>> /\ raised' => sel' \in Way
  PROVE  Still'
<1>1. Head(stack) \in Frames /\ call' = call /\ raised' \in BOOLEAN
  BY StackFacts DEF Basics, Filing, Ctx
<1>2. CASE Tail(stack) = <<>> /\ Ctx.call.kind = "select_file"
  <2>1. call'.kind = "select_file" /\ Head(stack).file = call.file
    BY <1>1, <1>2 DEF Ctx, Filing, Trying, GoingBack, IsTop
  <2>2. Sound(Ctx') /\ raised' =>
          sel' \in {call.from} \cup Dirs(call.from) \cup Dirs(call.file) \cup FsADFs
    BY <1>2, <2>1 DEF Way
  <2>3. Resting'
    BY <1>1, <1>2, <2>1, <2>2 DEF Resting
  <2> QED BY <2>3 DEF Still
<1>3. CASE Trying(Tail(stack), Ctx) /\ Serves(Tail(Tail(stack)), Head(stack).file, Ctx)
  <2>1. AtTry'
    BY <1>3 DEF AtTry
  <2> QED BY <2>1 DEF Still
<1>4. CASE GoingBack(Tail(stack), Ctx) /\ Home(Tail(Tail(stack)), Head(stack).file, Ctx)
  <2>1. AtReraise'
    BY <1>4 DEF AtReraise
  <2> QED BY <2>1 DEF Still
<1> QED BY <1>2, <1>3, <1>4 DEF Filing

LEMMA MFIsAbove ==
  ASSUME NEW f \in Files PROVE MF \in {f} \cup Dirs(f)
<1>1. f \in Seq(STRING) /\ Len(f) \in Nat /\ Len(f) >= 1 /\ Prefix(f, 1) = MF
  BY TreeShape
<1>2. CASE Len(f) = 1
  BY <1>1, <1>2, PrefixFacts
<1>3. CASE Len(f) # 1
  <2> DEFINE n == Len(f)
  <2>1. 1 \in 1..(n - 1)
    <3> HIDE DEF n
    <3>1. n \in Nat /\ n >= 1 /\ n # 1
      BY <1>1, <1>3 DEF n
    <3> QED BY <3>1
  <2> QED BY <1>1, <2>1 DEF Dirs
<1> QED BY <1>2, <1>3

LEMMA StartHopsKeepsIInv ==
  ASSUME IInv, StartHops PROVE IInv'
<1>1. /\ Basics /\ Still /\ (AtGoto \/ LeaveFiling) /\ hops = <<>>
      /\ stack # <<>> /\ Head(stack).op = "goto"
  BY Phases DEF StartHops, Top, IsTop, IInv, Still
<1>2. /\ UNCHANGED <<tree, sel, adf, fcp, cur, alive, raised, call>> /\ raised \in BOOLEAN
      /\ Ctx' = Ctx /\ (Trapped' <=> Trapped)
  BY <1>1 DEF StartHops, lchan, card, Ctx, Trapped, Basics
<1>3. Tail(stack) \in Seq(Frames)
  BY <1>1, StackTyping
<1>4. CASE raised
  <2>1. AtGoto /\ ~Sound(Ctx) /\ (alive => cur = sel)
    <3>1. AtGoto
      BY <1>1, <1>4 DEF LeaveFiling
    <3>2. ~Astray
      BY <1>1, <1>4 DEF Astray, Trying, IsTop
    <3> QED BY <1>1, <1>4, <3>1, <3>2 DEF AtGoto, Still
  <2>2. stack' = Tail(stack) /\ stack' \in Seq(Frames) /\ UNCHANGED <<hops, at, data>>
    BY <1>3, <1>4 DEF StartHops, Return, loop
  <2>3. Basics'
    BY <1>1, <1>2, <2>2 DEF Basics
  <2>4. Still'
    BY <1>1, <1>2, <1>4, <2>1, <2>2, <2>3, FilingReturns DEF AtGoto
  <2> QED BY <2>3, <2>4 DEF IInv
<1>5. CASE ~raised
  <2> DEFINE file == Head(stack).file
             path == BuildSelectPathTo(sel, file)
             a == Frame("hop", file, <<>>)
  <2>1. hops' = path /\ at' = sel /\ data' = sel
    BY <1>1, <1>5 DEF StartHops, Basics
  <2>2. \/ Filing(stack, Ctx) /\ (file \notin ADFs => ~Trapped)
        \/ InnerFiling(stack, Ctx) /\ file \in ADFs
    BY <1>1, <1>5 DEF AtGoto, LeaveFiling, InnerFiling
  <2>3. /\ IsTree(tree) /\ sel \in tree \cap OnCard /\ sel \in Files /\ call.from \in Files
        /\ file \in tree /\ file \in Files
    <3>1. ADFs \subseteq tree /\ Ctx.tree = tree
      BY <1>1, KnownShape DEF Basics, Ctx
    <3> QED BY <1>1, <2>2, <3>1 DEF Basics, IsTree, Filing, InnerFiling
  <2>4. stack' = <<a>> \o Tail(stack)
    BY <1>5 DEF StartHops, Become
  <2>5. a \in Frames /\ a.op = "hop" /\ a.file = file
    <3> HIDE DEF file
    <3> QED BY <2>3, PlainFrame DEF Ops
  <2> HIDE DEF a, file
  <2>6. stack' \in Seq(Frames) /\ stack' # <<>> /\ Head(stack') = a /\ Tail(stack') = Tail(stack)
    BY <1>3, <2>4, <2>5, PushFacts
  <2>7. /\ path \in Seq(tree) /\ Len(path) > 0 /\ path # <<>> /\ path[Len(path)] = file
        /\ IsChainFrom(sel, path)
        /\ \A i \in 1..(Len(path) - 1) : path[i] \in Dirs(sel) \cup Dirs(file)
        /\ file \in ADFs => path = <<file>>
    BY <2>3, SelectPathIsChain
  <2>8. file \in OnCard => path \in Seq(OnCard)
    <3>1. IsTree(OnCard)
      BY KnownShape DEF IsTree
    <3> QED BY <2>3, <3>1, SelectPathIsChain
  <2>9. sel \in EFs /\ file = sel => Head(path) = Parent(sel)
    BY <2>3, <2>7, SelectPathToItself
  <2> HIDE DEF path
  <2>10. Basics'
    BY <1>1, <1>2, <2>1, <2>3, <2>6, <2>7 DEF Basics
  <2>11. \A i \in 1..(Len(path) - 1) : path[i] \notin ADFs \ FsADFs
    BY <2>3, <2>7, TreeShape
  <2>12. CanLeave /\ sel \in ADFs \ FsADFs => Trapped
    <3>1. ASSUME NEW f \in ADFs PROVE f # NoFile
      <4>1. Len(f) = 2 /\ Len(<<>>) = 0
        BY TreeShape
      <4> QED BY <4>1 DEF NoFile
    <3> QED BY <1>1, <3>1 DEF Basics, Trapped, CanLeave
  <2>13. file \in ADFs => Len(path) = 1 /\ Head(path) = file /\ path[1] = file
    BY <2>7
  <2>14. CanHop'
    BY <1>2, <2>1, <2>2, <2>5, <2>6, <2>7, <2>8, <2>11, <2>12, <2>13 DEF CanHop
  <2>15. Trapped => sel \in ADFs /\ file \in ADFs
    BY <1>1, <2>2 DEF Basics, Trapped
  <2>16. alive => cur = sel \/ (Beside(cur, sel) /\ Head(path) = Parent(sel))
    <3>1. ASSUME Astray PROVE Beside(cur, sel) /\ sel \in EFs /\ file = sel
      BY <1>1, <3>1 DEF Astray, Trying, IsTop, Beside, file
    <3> QED BY <1>1, <2>9, <3>1 DEF Still
  <2>17. HopBasics'
    BY <1>2, <1>5, <2>1, <2>3, <2>5, <2>6, <2>7, <2>13, <2>14, <2>15, <2>16 DEF HopBasics, IsTop
  <2>18. /\ Filing(stack, Ctx) => Filing(stack', Ctx)
         /\ InnerFiling(stack, Ctx) => InnerFiling(stack', Ctx)
    BY <1>1, <2>5, <2>6, NextFrame DEF FileOps, file
  <2>19. CASE Filing(stack, Ctx)
    <3>1. ASSUME Sound(Ctx), Tail(stack) = <<>> PROVE OnTheWay'
      <4>1. call.kind = "select_file"
        BY <2>19, <3>1 DEF Filing, Trying, GoingBack, IsTop, Ctx
      <4>2. sel \in {call.from} \cup FsADFs
        BY <1>1, <3>1, <4>1 DEF Basics
      <4>3. sel \in FsADFs => Dirs(sel) = {MF}
        BY TreeShape, ApplicationFacts
      <4>4. MF \in {call.from} \cup Dirs(call.from)
        BY <2>3, MFIsAbove
      <4>5. Dirs(sel) \subseteq {call.from} \cup Dirs(call.from)
        BY <4>2, <4>3, <4>4, TreeShape
      <4>6. Way' = {call.from} \cup Dirs(call.from) \cup Dirs(file) \cup FsADFs
        BY <1>2, <2>5, <2>6 DEF Way
      <4> QED BY <2>1, <2>7, <4>2, <4>5, <4>6 DEF OnTheWay
    <3>2. Hopping'
      BY <1>2, <1>5, <2>6, <2>18, <2>19, <3>1 DEF Hopping
    <3> QED BY <2>10, <2>17, <3>2 DEF IInv
  <2>20. CASE InnerFiling(stack, Ctx)
    <3>1. file \in ADFs
      BY <2>20 DEF InnerFiling, file
    <3>2. Len(hops') <= 1
      <4> DEFINE n == Len(path)
      <4>1. n = 1 /\ Len(hops') = n
        BY <2>1, <2>13, <3>1
      <4> HIDE DEF n
      <4> QED BY <4>1
    <3>3. at' = sel' /\ ~raised' /\ InnerFiling(stack', Ctx')
      BY <1>2, <1>5, <2>1, <2>18, <2>20
    <3>4. LeaveHopping'
      BY <3>2, <3>3 DEF LeaveHopping
    <3> QED BY <2>10, <2>17, <3>4 DEF IInv
  <2> QED BY <2>2, <2>19, <2>20
<1> QED BY <1>4, <1>5

\* A SELECT the card answers reaches the file the loop means; a sound card
\* answers when it has the file.
LEMMA AnswersTheHop ==
  ASSUME Basics, HopBasics, alive, hops # <<>>
  PROVE  /\ Answers(Head(hops)) \subseteq {Head(hops)} \cap OnCard /\ Head(hops) \in tree
         /\ CanLeave /\ Head(stack).file \in OnCard => Answers(Head(hops)) # {}
<1> DEFINE f == Head(hops)
<1>1. /\ f \in tree /\ f \in Known /\ Near(at, f) /\ at \in OnCard
      /\ f = hops[1] /\ 1 \in 1..Len(hops)
  BY StackFacts, ChainTail DEF Basics, HopBasics
<1>2. /\ CanLeave => at \notin ADFs \ FsADFs \/ f \in ADFs
      /\ Head(stack).file \in OnCard => f \in OnCard
  BY <1>1 DEF HopBasics, CanHop
<1> HIDE DEF f
<1>3. CASE f \in ADFs
  BY <1>1, <1>2, <1>3 DEF Answers, f
<1>4. CASE f \notin ADFs
  <2>1. Answers(f) = CardFind(cur, Fid[f])
    BY <1>4 DEF Answers
  <2>2. CASE cur = at
    <3>1. CardFind(at, Fid[f]) \subseteq {f}
      BY <1>1, <1>4, CardFindsTheHop DEF Known
    <3>2. f \in OnCard /\ at \notin ADFs \ FsADFs => CardFind(at, Fid[f]) = {f}
      BY <1>1, <1>4, CardFindsTheHop DEF Known
    <3>3. CardFind(cur, Fid[f]) \subseteq OnCard
      BY DEF CardFind
    <3> QED BY <1>1, <1>2, <1>4, <2>1, <2>2, <3>1, <3>2, <3>3 DEF f
  <2>3. CASE Beside(cur, at) /\ f = Parent(at)
    <3>1. cur \in OnCard \ (ADFs \cup {MF}) /\ Parent(cur) = f /\ at \in Files \ {MF}
      BY <1>1, <2>3, TreeShape, KnownShape DEF Beside
    <3>2. f \in OnCard
      BY <1>1, <2>3, <3>1, FileIsParentAndName, KnownShape
    <3>3. CardFind(cur, Fid[f]) = {f}
      BY <1>4, <3>1, <3>2, CardFindsTheParent
    <3> QED BY <1>1, <2>1, <3>2, <3>3 DEF f
  <2> QED BY <2>2, <2>3 DEF HopBasics, f
<1> QED BY <1>3, <1>4

LEMMA LastOfHops ==
  ASSUME NEW S, NEW s \in Seq(S), s # <<>>, NEW file, file = s[Len(s)]
  PROVE  file = IF Tail(s) = <<>> THEN Head(s) ELSE Tail(s)[Len(Tail(s))]
<1>1. /\ Tail(s) \in Seq(S) /\ Len(Tail(s)) = Len(s) - 1 /\ Head(s) = s[1]
      /\ \A i \in 1..Len(Tail(s)) : i + 1 \in 1..Len(s) /\ Tail(s)[i] = s[i + 1]
      /\ Tail(s) = <<>> <=> Len(s) = 1
      /\ Len(s) \in Nat /\ Len(s) >= 1
  BY TailElements
<1>2. Tail(s) # <<>> => Len(Tail(s)) \in 1..Len(Tail(s)) /\ Len(Tail(s)) + 1 = Len(s)
  BY <1>1
<1> QED BY <1>1, <1>2

LEMMA HopOkKeepsIInv ==
  ASSUME IInv, HopOk PROVE IInv'
<1>1. /\ Basics /\ HopBasics /\ (Hopping \/ LeaveHopping) /\ alive /\ hops # <<>>
      /\ hops \in Seq(tree) /\ ~raised
  BY Phases DEF HopOk, Top, IsTop, IInv, HopBasics, Basics
<1> DEFINE f == Head(hops)
<1>2. f \in tree \cap OnCard /\ cur' = f
  <2>1. PICK g \in Answers(f) : cur' = g
    BY DEF HopOk
  <2> QED BY <1>1, <2>1, AnswersTheHop
<1>3. /\ hops' = Tail(hops) /\ at' = f /\ data' = f
      /\ UNCHANGED <<tree, sel, adf, fcp, alive, stack, raised, call>>
  BY DEF HopOk, lchan
<1>4. Ctx' = Ctx /\ (Trapped' <=> Trapped) /\ (Way' = Way)
  BY <1>3 DEF Ctx, Trapped, Way
<1>5. /\ hops' \in Seq(tree) /\ Len(hops') = Len(hops) - 1 /\ f = hops[1]
      /\ \A i \in 1..Len(hops') : i + 1 \in 1..Len(hops) /\ hops'[i] = hops[i + 1]
      /\ hops' = <<>> <=> Len(hops) = 1
      /\ Len(hops) \in Nat /\ Len(hops) >= 1
  BY <1>1, <1>3, TailElements
<1>6. Near(at, f) /\ IsChainFrom(f, hops')
  BY <1>1, <1>3, ChainTail DEF HopBasics
<1>7. Head(stack).file = IF hops' = <<>> THEN f ELSE hops'[Len(hops')]
  <2>1. Head(stack).file = hops[Len(hops)]
    BY <1>1 DEF HopBasics
  <2> DEFINE file == Head(stack).file
  <2> HIDE DEF file
  <2>2. file = hops[Len(hops)]
    BY <2>1 DEF file
  <2>3. file = IF Tail(hops) = <<>> THEN Head(hops) ELSE Tail(hops)[Len(Tail(hops))]
    BY <1>1, <2>2, LastOfHops
  <2> QED BY <1>3, <2>3 DEF file
<1> HIDE DEF f
<1>8. \A i \in 1..(Len(hops') - 1) : i + 1 \in 1..(Len(hops) - 1) /\ hops'[i] = hops[i + 1]
  BY <1>5
<1>9. hops' # <<>> => 1 \in 1..(Len(hops) - 1)
  BY <1>5
<1>10. 1 \in 1..Len(hops)
  BY <1>5
<1>11. CanHop'
  <2>1. \A i \in 1..(Len(hops') - 1) : hops'[i] \notin ADFs \ FsADFs
    BY <1>1, <1>8 DEF HopBasics, CanHop
  <2>2. hops' # <<>> => f \notin ADFs \ FsADFs
    BY <1>1, <1>5, <1>9 DEF HopBasics, CanHop
  <2>3. Head(stack).file \in OnCard => \A i \in 1..Len(hops') : hops'[i] \in OnCard
    BY <1>1, <1>5 DEF HopBasics, CanHop
  <2> QED BY <1>3, <2>1, <2>2, <2>3 DEF CanHop
<1>12. Trapped => f \in ADFs /\ \A i \in 1..Len(hops') : hops'[i] \in ADFs
  BY <1>1, <1>5, <1>10 DEF HopBasics
<1>13. HopBasics'
  BY <1>1, <1>2, <1>3, <1>4, <1>6, <1>7, <1>11, <1>12 DEF HopBasics
<1>14. Basics'
  BY <1>1, <1>2, <1>3, <1>4, <1>5, KnownShape DEF Basics
<1>15. OnTheWay => OnTheWay'
  <2>1. ASSUME OnTheWay PROVE hops' # <<>> => f \in Way
    BY <1>5, <1>9, <2>1 DEF OnTheWay
  <2>2. ASSUME OnTheWay PROVE \A i \in 1..(Len(hops') - 1) : hops'[i] \in Way
    BY <1>8, <2>2 DEF OnTheWay
  <2> QED BY <1>1, <1>3, <1>4, <2>1, <2>2 DEF OnTheWay
<1>16. Hopping => Hopping'
  BY <1>1, <1>3, <1>4, <1>15 DEF Hopping
<1>17. LeaveHopping => LeaveHopping'
  <2>1. ASSUME LeaveHopping PROVE Len(hops') <= 1 /\ f = Head(stack).file
    <3>1. Len(hops) = 1
      BY <1>5, <2>1 DEF LeaveHopping
    <3>2. hops' = <<>> /\ Len(hops') = 0
      BY <1>5, <3>1
    <3> QED BY <1>7, <3>2
  <2> QED BY <1>1, <1>3, <1>4, <2>1 DEF LeaveHopping
<1> QED BY <1>1, <1>13, <1>14, <1>16, <1>17 DEF IInv

\* A sound card refuses no SELECT of the way back, nor the application through
\* which another is left.
LEMMA SoundIsNotRefused ==
  ASSUME Basics, HopBasics, HopRefused, Sound(Ctx)
  PROVE  ~(Filing(stack, Ctx) /\ GoingBack(Tail(stack), Ctx)) /\ ~InnerFiling(stack, Ctx)
<1>1. alive /\ hops # <<>> /\ CanLeave /\ Answers(Head(hops)) = {}
  BY DEF HopRefused, Sound, Ctx
<1>2. Head(stack).file \notin OnCard
  BY <1>1, AnswersTheHop
<1>3. ~(Filing(stack, Ctx) /\ GoingBack(Tail(stack), Ctx))
  BY <1>2 DEF Filing, GoingBack, Trying, IsTop
<1>4. ~InnerFiling(stack, Ctx)
  BY <1>2 DEF InnerFiling, InnerTry, Leaving, InnerReraise
<1> QED BY <1>3, <1>4

LEMMA HopRefusedKeepsIInv ==
  ASSUME IInv, HopRefused PROVE IInv'
<1>1. /\ Basics /\ HopBasics /\ (Hopping \/ LeaveHopping) /\ alive /\ hops # <<>>
      /\ hops \in Seq(tree) /\ ~raised
  BY Phases DEF HopRefused, Top, IsTop, IInv, HopBasics, Basics
<1>2. /\ hops' = <<>> /\ raised' = TRUE
      /\ UNCHANGED <<tree, sel, adf, fcp, cur, alive, stack, at, data, call>>
  BY DEF HopRefused, lchan, card
<1>3. Ctx' = Ctx /\ (Trapped' <=> Trapped) /\ (Way' = Way)
  BY <1>2 DEF Ctx, Trapped, Way
<1>4. hops' \in Seq(tree) /\ Len(hops') = 0
  BY <1>2
<1>5. Basics'
  BY <1>1, <1>2, <1>3, <1>4 DEF Basics
<1>6. CanHop' /\ IsChainFrom(at, hops')
  BY <1>2, <1>4 DEF CanHop, IsChainFrom
<1>7. alive => cur = at
  <2>1. CASE cur = at
    BY <2>1
  <2>2. CASE Beside(cur, at) /\ Head(hops) = Parent(at)
    <3>1. /\ Filing(stack, Ctx) \/ InnerFiling(stack, Ctx)
      BY <1>1 DEF Hopping, LeaveHopping
    <3>2. Answers(Head(hops)) = {}
      BY DEF HopRefused
    <3>3. CASE Head(hops) \in ADFs
      <4>1. Head(hops) \in OnCard
        BY <1>1, <2>2, FileIsParentAndName, TreeShape, KnownShape DEF Beside, HopBasics
      <4> QED BY <3>2, <3>3, <4>1 DEF Answers
    <3>4. CASE Head(hops) \notin ADFs
      <4>1. cur \in OnCard \ (ADFs \cup {MF}) /\ Parent(cur) = Head(hops) /\ at \in OnCard /\ at \in Files \ {MF}
        BY <1>1, <2>2, TreeShape, KnownShape DEF Beside, HopBasics
      <4>2. Head(hops) \in OnCard
        BY <2>2, <4>1, FileIsParentAndName, KnownShape
      <4>3. CardFind(cur, Fid[Head(hops)]) = {Head(hops)}
        BY <3>4, <4>1, <4>2, CardFindsTheParent
      <4> QED BY <3>2, <3>4, <4>3 DEF Answers
    <3> QED BY <3>3, <3>4
  <2> QED BY <1>1, <2>1, <2>2 DEF HopBasics
<1>8. HopBasics'
  BY <1>1, <1>2, <1>3, <1>4, <1>6, <1>7 DEF HopBasics
<1>9. Hopping => Hopping'
  <2>1. ASSUME OnTheWay PROVE OnTheWay'
    BY <1>1, <1>2, <1>3, <1>4, <2>1 DEF OnTheWay
  <2> QED BY <1>1, <1>2, <1>3, <2>1, SoundIsNotRefused DEF Hopping
<1>10. LeaveHopping => LeaveHopping'
  BY <1>1, <1>2, <1>3, <1>4, SoundIsNotRefused DEF LeaveHopping
<1> QED BY <1>1, <1>5, <1>8, <1>9, <1>10 DEF IInv

LEMMA HopsDoneKeepsIInv ==
  ASSUME IInv, HopsDone PROVE IInv'
<1>1. /\ Basics /\ HopBasics /\ (Hopping \/ LeaveHopping) /\ hops = <<>> /\ stack # <<>>
  BY Phases DEF HopsDone, Top, IsTop, IInv, HopBasics
<1>2. /\ sel' = at /\ fcp' = at /\ adf' = (IF at \in ADFs THEN at ELSE adf)
      /\ hops' = <<>> /\ at' = NoFile /\ data' = NoFile /\ stack' = Tail(stack)
      /\ UNCHANGED <<tree, cur, alive, raised, call>>
  BY <1>1 DEF HopsDone, SelectPost, Return, card, HopBasics
<1>3. Ctx' = Ctx /\ Tail(stack) \in Seq(Frames)
  BY <1>1, <1>2, StackTyping DEF Ctx
<1>4. /\ at \in tree \cap OnCard /\ (raised \/ at = Head(stack).file) /\ (alive => cur = at)
      /\ (Trapped => at \in ADFs)
  BY <1>1 DEF HopBasics, Basics
<1>5. adf' \in ADFs \cup {NoFile} /\ (Trapped' => sel' = adf') /\ (sel' \in ADFs => adf' = sel')
  BY <1>1, <1>2, <1>4 DEF Basics, Trapped
<1>6. CASE Hopping
  <2>1. call.kind = "select_file" => Tail(stack) = <<>>
    BY <1>6 DEF Hopping, Filing, Trying, GoingBack, Caller, Ctx
  <2>4. Sound(Ctx) /\ Tail(stack) = <<>> /\ raised' => sel' \in Way
    BY <1>2, <1>6 DEF Hopping, OnTheWay
  <2>2. Basics'
    BY <1>1, <1>2, <1>3, <1>4, <1>5, <2>1 DEF Basics
  <2>3. Still'
    BY <1>1, <1>2, <1>3, <1>4, <1>6, <2>2, <2>4, FilingReturns DEF Hopping
  <2> QED BY <2>2, <2>3 DEF IInv
<1>7. CASE LeaveHopping
  <2>1. /\ Sound(Ctx) => at \in {sel} \cup FsADFs
    BY <1>7 DEF LeaveHopping, InnerFiling, InnerTry, InnerReraise, Leaving
  <2>2. Basics'
    BY <1>1, <1>2, <1>3, <1>4, <1>5, <2>1 DEF Basics
  <2>3. CASE InnerTry(Tail(stack), Ctx) /\ Head(stack).file = FirstFsADF
    <3>1. FirstFsADF \in FsADFs /\ FirstFsADF \in ADFs
      BY <2>3, TreeShape DEF InnerTry, Leaving
    <3>2. ~raised => ~Trapped'
      BY <1>2, <1>4, <2>3, <3>1 DEF Trapped
    <3>3. LeaveTry'
      BY <1>2, <1>3, <1>7, <2>3, <3>2 DEF LeaveTry, LeaveHopping
    <3>4. Still'
      BY <1>2, <1>4, <3>3 DEF Still
    <3> QED BY <2>2, <3>4 DEF IInv
  <2>4. CASE InnerReraise(Tail(stack), Ctx)
    <3>1. LeaveReraise'
      BY <1>2, <1>3, <2>4 DEF LeaveReraise
    <3>2. Still'
      BY <1>2, <1>4, <3>1 DEF Still
    <3> QED BY <2>2, <3>2 DEF IInv
  <2> QED BY <1>7, <2>3, <2>4 DEF LeaveHopping, InnerFiling
<1> QED BY <1>1, <1>6, <1>7

LEMMA HopLostKeepsIInv ==
  ASSUME IInv, HopLost PROVE IInv'
<1>1. /\ Basics /\ HopBasics /\ (Hopping \/ LeaveHopping) /\ stack # <<>>
  BY Phases DEF HopLost, Top, IsTop, IInv, HopBasics
<1>2. /\ hops' = <<>> /\ at' = NoFile /\ data' = NoFile /\ stack' = Tail(stack) /\ raised' = TRUE
      /\ UNCHANGED <<tree, sel, adf, fcp, cur, alive, call>> /\ ~alive
  BY DEF HopLost, Return, lchan, card
<1>3. Ctx' = Ctx /\ Tail(stack) \in Seq(Frames) /\ ~Sound(Ctx) /\ (Trapped' <=> Trapped)
  BY <1>1, <1>2, StackTyping DEF Ctx, Sound, Trapped
<1>4. Basics'
  <2>1. <<>> \in Seq(tree)
    OBVIOUS
  <2> QED BY <1>1, <1>2, <1>3, <2>1 DEF Basics
<1>5. CASE Hopping
  <2>1. Still'
    BY <1>1, <1>2, <1>3, <1>4, <1>5, FilingReturns DEF Hopping
  <2> QED BY <1>4, <2>1 DEF IInv
<1>6. CASE LeaveHopping
  <2>1. LeaveTry' \/ LeaveReraise'
    BY <1>2, <1>3, <1>6 DEF LeaveHopping, InnerFiling, LeaveTry, LeaveReraise
  <2>2. Still'
    BY <1>2, <2>1 DEF Still
  <2> QED BY <1>4, <2>2 DEF IInv
<1> QED BY <1>1, <1>5, <1>6
-----------------------------------------------------------------------------
LEMMA StutterKeepsIInv ==
  ASSUME IInv, UNCHANGED vars PROVE IInv'
<1>1. /\ UNCHANGED <<tree, sel, adf, fcp, cur, alive, stack, hops, at, data, raised, call>>
      /\ Ctx' = Ctx /\ (Trapped' <=> Trapped) /\ Way' = Way
  BY DEF vars, Ctx, Trapped, Way
<1>2. Basics'
  BY <1>1 DEF IInv, Basics
<1>3. Astray' <=> Astray
  BY <1>1 DEF Astray
<1>4. Still => Still'
  BY <1>1, <1>3
  DEF Still, Resting, AtPath, Asking, Probing, AtTry, AtReraise, AtSelectFile, AtGoto,
      LeaveAsking, LeaveTry, LeaveReraise, LeaveFiling
<1>5. HopBasics => HopBasics'
  BY <1>1 DEF HopBasics, CanHop
<1>6. Hopping \/ LeaveHopping => Hopping' \/ LeaveHopping'
  BY <1>1 DEF Hopping, LeaveHopping, OnTheWay
<1> QED BY <1>2, <1>4, <1>5, <1>6 DEF IInv

LEMMA StepKeepsIInv ==
  ASSUME NoBlindSiblings, IInv, [Next]_vars PROVE IInv'
<1>1. CASE UNCHANGED vars
  BY <1>1, StutterKeepsIInv
<1>2. CASE \E ids \in Paths : CallSelect(ids)
  BY <1>2, CallSelectKeepsIInv
<1>3. CASE \E file \in tree : CallSelectFile(file)
  BY <1>3, CallSelectFileKeepsIInv
<1>4. CASE Reset
  BY <1>4, ResetKeepsIInv
<1>5. CASE LinkLost
  BY <1>5, LinkLostKeepsIInv
<1>6. CASE PathStep \/ SelectKnown \/ SelectUnknown
  BY <1>6, PathStepKeepsIInv, SelectKnownKeepsIInv, SelectUnknownKeepsIInv
<1>7. CASE TryReturn \/ GoBack \/ Reraise
  BY <1>7, TryReturnKeepsIInv, GoBackKeepsIInv, ReraiseKeepsIInv
<1>8. CASE Escape \/ StartHops
  BY <1>8, EscapeKeepsIInv, StartHopsKeepsIInv
<1>9. CASE HopOk \/ HopRefused
  BY <1>9, HopOkKeepsIInv, HopRefusedKeepsIInv
<1>10. CASE HopsDone \/ HopLost
  BY <1>10, HopsDoneKeepsIInv, HopLostKeepsIInv
<1>11. CASE ProbeOk \/ ProbeFailed
  BY <1>11, ProbeOkKeepsIInv, ProbeFailedKeepsIInv
<1> QED BY <1>1, <1>2, <1>3, <1>4, <1>5, <1>6, <1>7, <1>8, <1>9, <1>10, <1>11 DEF Next, Step

\* The invariant holds in every reachable state, for every card that a blind
\* SELECT takes only to files the software can name from there.
THEOREM InvariantHolds ==
  ASSUME NoBlindSiblings PROVE Spec => []IInv
<1>1. IInv /\ [Next]_vars => IInv'
  BY StepKeepsIInv
<1> QED BY InitIInv, <1>1, PTL DEF Spec

\* Type correctness of the channel, the calls and the hop loop (runtime.py).
THEOREM Typing ==
  ASSUME NoBlindSiblings PROVE Spec => []TypeOK
<1>1. IInv => TypeOK
  <2> SUFFICES ASSUME IInv PROVE TypeOK
    OBVIOUS
  <2>1. Basics /\ tree \subseteq Files /\ OnCard \subseteq Files
    BY KnownShape DEF IInv, Basics, Known
  <2>2. hops \in Seq(Files)
    <3>1. hops \in Seq(tree)
      BY <2>1 DEF Basics
    <3> QED BY <2>1, <3>1, SeqMonotonic
  <2>3. stack \in Seq([op : Ops, file : Files \cup {NoFile}, ids : Seq(STRING)])
    BY <2>1 DEF Basics, Frames
  <2> QED BY <2>1, <2>2, <2>3 DEF Basics, TypeOK
<1> QED BY <1>1, InvariantHolds, PTL

LEMMA AtRest ==
  ASSUME IInv, stack = <<>>
  PROVE  Resting /\ fcp = sel /\ sel \in OnCard /\ (alive => cur = sel)
<1>1. Resting /\ Still /\ Basics
  BY Phases DEF IInv
<1>2. ~Astray
  BY DEF Astray, Trying, Filing, IsTop
<1> QED BY <1>1, <1>2 DEF Still, Basics

\* runtime.py:414-420: between two requests the card is at selected_file and
\* the cached FCP is that file's, whatever failed on the way there: a refused
\* hop, a lost link, a blind FID the software had no place for.
THEOREM Coherence ==
  ASSUME NoBlindSiblings PROVE Spec => []Coherent
<1>1. IInv => Coherent
  BY AtRest DEF Coherent
<1> QED BY <1>1, InvariantHolds, PTL

\* runtime.py:341-354: every file probe_file() adds to the model is one the
\* card has, under the directory it was added to.
THEOREM Truth ==
  ASSUME NoBlindSiblings PROVE Spec => []LearnsTheTruth
<1>1. IInv => LearnsTheTruth
  BY DEF IInv, Basics, Known, LearnsTheTruth
<1> QED BY <1>1, InvariantHolds, PTL

\* runtime.py:436-441: when select() raises, the card and the software are
\* where they were when it was called, on a card whose applications can be left.
THEOREM GoesBack ==
  ASSUME NoBlindSiblings, CanLeave PROVE Spec => []FailedSelectGoesBack
<1>1. IInv => FailedSelectGoesBack
  BY AtRest DEF FailedSelectGoesBack, Resting, Sound, Ctx
<1> QED BY <1>1, InvariantHolds, PTL
-----------------------------------------------------------------------------
(* A request that did not fail left the card at the selected file, also if *)
(* the link was lost before the answer: between the last SELECT and the    *)
(* return nothing is sent, and every select_file() sends at least one.     *)

Settled == \/ stack = <<>> \/ IsTop(stack, "try")
           \/ IsTop(stack, "path") /\ Head(stack).ids = <<>>
Reached == /\ Settled /\ ~raised => cur = sel
           /\ IsTop(stack, "hop") /\ hops = <<>> /\ ~raised => cur = at

LEMMA RequestReaches ==
  ASSUME IInv, (\E ids \in Paths : CallSelect(ids)) \/ (\E file \in tree : CallSelectFile(file))
  PROVE  Reached'
<1>1. CASE \E file \in tree : CallSelectFile(file)
  BY <1>1 DEF CallSelectFile, Frame, Reached, Settled, IsTop
<1>2. CASE \E ids \in Paths : CallSelect(ids)
  <2>1. PICK ids \in Paths : CallSelect(ids)
    BY <1>2
  <2>2. ids # <<>>
    BY PathsShape
  <2> QED BY <2>1, <2>2 DEF CallSelect, Frame, Reached, Settled, IsTop
<1> QED BY <1>1, <1>2

LEMMA CallReaches ==
  ASSUME NoBlindSiblings, IInv, Reached, Step,
         PathStep \/ SelectKnown \/ SelectUnknown \/ TryReturn \/ GoBack \/ Reraise
  PROVE  Reached'
<1>1. CASE PathStep
  <2>1. AtPath /\ stack # <<>>
    BY <1>1, Phases DEF PathStep, Top, IsTop
  <2>2. CASE Head(stack).ids = <<>>
    <3>1. stack' = <<>> /\ cur' = sel'
      BY <1>1, <2>1, <2>2 DEF PathStep, Return, AtPath, Caller, Reached, Settled, lchan, card, IsTop
    <3> QED BY <3>1 DEF Reached, IsTop
  <2>3. CASE Head(stack).ids # <<>>
    <3>1. stack' # <<>> /\ Head(stack').op = "select"
      BY <1>1, <2>3 DEF PathStep, Call, Frame
    <3> QED BY <3>1 DEF Reached, Settled, IsTop
  <2> QED BY <2>2, <2>3
<1>2. CASE SelectKnown
  <2>1. stack' # <<>> /\ Head(stack').op = "select_file"
    BY <1>2 DEF SelectKnown, Call, Frame
  <2> QED BY <2>1 DEF Reached, Settled, IsTop
<1>3. CASE SelectUnknown
  <2>1. raised' \/ (stack' # <<>> /\ Head(stack').op = "probe")
    BY <1>3 DEF SelectUnknown, Call, Frame
  <2> QED BY <2>1 DEF Reached, Settled, IsTop
<1>4. CASE TryReturn
  <2>1. AtTry \/ LeaveTry
    BY <1>4, Phases DEF TryReturn, Top, IsTop
  <2>2. ~IsTop(Tail(stack), "hop")
    BY <2>1 DEF AtTry, LeaveTry, Trying, InnerTry, Caller, Leaving, IsTop
  <2>3. cur' = sel' /\ stack' = Tail(stack)
    BY <1>4 DEF TryReturn, Top, Return, Reached, Settled, IsTop, lchan, card
  <2> QED BY <2>2, <2>3 DEF Reached
<1>5. CASE GoBack
  <2>1. stack' # <<>> /\ Head(stack').op = "select_file"
    BY <1>5 DEF GoBack, Call, Frame
  <2> QED BY <2>1 DEF Reached, Settled, IsTop
<1>6. CASE Reraise
  BY <1>6 DEF Reraise, Reached
<1> QED BY <1>1, <1>2, <1>3, <1>4, <1>5, <1>6

LEMMA WhereItIs ==
  /\ IInv /\ IsTop(stack, "hop") => HopBasics
  /\ IInv /\ alive /\ IsTop(stack, "try") /\ ~raised => cur = sel
<1>1. ASSUME IInv, IsTop(stack, "hop") PROVE HopBasics
  BY <1>1, Phases
<1>2. ASSUME IInv, alive, IsTop(stack, "try"), ~raised PROVE cur = sel
  <2>1. Still
    BY <1>2, Phases
  <2>2. ~Astray
    BY <1>2, AstrayWhere DEF IsTop, FileOps
  <2> QED BY <1>2, <2>1, <2>2 DEF Still
<1> QED BY <1>1, <1>2

LEMMA WhereItGoes ==
  /\ IInv' /\ IsTop(stack', "hop") => HopBasics'
  /\ IInv' /\ alive' /\ IsTop(stack', "try") /\ ~raised' => cur' = sel'
<1>1. (/\ IInv /\ IsTop(stack, "hop") => HopBasics
       /\ IInv /\ alive /\ IsTop(stack, "try") /\ ~raised => cur = sel)'
  BY WhereItIs, PTL
<1> QED BY <1>1 DEF IsTop

LEMMA HopReaches ==
  ASSUME NoBlindSiblings, IInv, IInv', Reached,
         Escape \/ StartHops \/ HopOk \/ HopRefused \/ HopsDone \/ HopLost \/ ProbeOk \/ ProbeFailed
  PROVE  Reached'
<1>1. CASE Escape
  <2>1. stack' # <<>> /\ Head(stack').op \in {"select", "goto"}
    BY <1>1 DEF Escape, Call, Become, Frame
  <2> QED BY <2>1 DEF Reached, Settled, IsTop
<1>2. CASE StartHops
  <2>1. CASE raised
    BY <1>2, <2>1 DEF StartHops, Reached
  <2>2. CASE ~raised
    <3>1. /\ IsTree(tree) /\ sel \in tree /\ Head(stack).file \in tree
          /\ stack # <<>>
      <4>1. Basics /\ (AtGoto \/ LeaveFiling) /\ stack # <<>>
        BY <1>2, Phases DEF StartHops, Top, IsTop, IInv
      <4>2. ADFs \subseteq tree /\ Ctx.tree = tree
        BY <4>1, KnownShape DEF Basics, Ctx
      <4> QED BY <4>1, <4>2 DEF Basics, AtGoto, LeaveFiling, Filing, InnerFiling
    <3>2. hops' = BuildSelectPathTo(sel, Head(stack).file)
      BY <1>2, <2>2 DEF StartHops
    <3>3. hops' # <<>>
      <4>1. Len(hops') > 0
        BY <3>1, <3>2, SelectPathIsChain
      <4> QED BY <4>1
    <3>4. stack' # <<>> /\ Head(stack').op = "hop"
      BY <1>2, <2>2 DEF StartHops, Become, Frame
    <3> QED BY <3>3, <3>4 DEF Reached, Settled, IsTop
  <2> QED BY <2>1, <2>2
<1>3. CASE HopOk
  <2>1. IsTop(stack', "hop") /\ alive'
    BY <1>3 DEF HopOk, Top, IsTop
  <2>2. HopBasics'
    BY <2>1, WhereItGoes
  <2>3. hops' = <<>> => cur' = at'
    BY <2>1, <2>2 DEF HopBasics
  <2> QED BY <2>1, <2>3 DEF Reached, Settled, IsTop
<1>4. CASE HopRefused \/ HopLost \/ ProbeFailed
  BY <1>4 DEF HopRefused, HopLost, ProbeFailed, Reached
<1>5. CASE HopsDone
  <2>1. raised' = raised /\ sel' = at /\ cur' = cur /\ stack' = Tail(stack)
    BY <1>5 DEF HopsDone, SelectPost, card, Return
  <2>2. Hopping \/ LeaveHopping
    BY <1>5, Phases DEF HopsDone, Top, IsTop
  <2>3. ~IsTop(Tail(stack), "hop")
    BY <2>2 DEF Hopping, LeaveHopping, Filing, InnerFiling, InnerTry, InnerReraise, Trying, GoingBack, IsTop
  <2>4. ~raised => cur = at
    BY <1>5 DEF HopsDone, Top, Reached, IsTop
  <2> QED BY <2>1, <2>3, <2>4 DEF Reached
<1>6. CASE ProbeOk
  <2>1. alive' /\ stack' = Tail(stack)
    BY <1>6 DEF ProbeOk, Return
  <2>2. IsTop(stack', "try")
    BY <1>6, <2>1, Phases DEF ProbeOk, Top, IsTop, Probing, Trying
  <2>4. raised' \/ cur' = sel'
    BY <2>1, <2>2, WhereItGoes
  <2> QED BY <2>2, <2>4 DEF Reached, IsTop
<1> QED BY <1>1, <1>2, <1>3, <1>4, <1>5, <1>6

LEMMA StepReaches ==
  ASSUME NoBlindSiblings, IInv, Reached, [Next]_vars
  PROVE  Reached'
<1>1. CASE UNCHANGED vars
  BY <1>1 DEF vars, Reached, Settled
<1>2. CASE Reset
  BY <1>2 DEF Reset, Reached, IsTop
<1>3. CASE LinkLost
  BY <1>3 DEF LinkLost, lchan, loop, Reached, Settled
<1>4. CASE Step
  BY <1>4, StepKeepsIInv, CallReaches, HopReaches DEF Step, Next
<1> QED BY <1>1, <1>2, <1>3, <1>4, RequestReaches DEF Next

(* The same as formulas, for the modules that use a channel.               *)

Channel == IInv /\ Reached

LEMMA ChannelBegins == Init => Channel
<1>1. Init => Reached
  BY DEF Init, Reached, Settled, IsTop
<1> QED BY <1>1, InitIInv DEF Channel

LEMMA ChannelKeeps == NoBlindSiblings /\ Channel /\ [Next]_vars => Channel'
<1> SUFFICES ASSUME NoBlindSiblings, Channel, [Next]_vars PROVE Channel'
  OBVIOUS
<1>1. IInv /\ Reached
  BY DEF Channel
<1>2. IInv' /\ Reached'
  BY <1>1, StepKeepsIInv, StepReaches
<1> QED BY <1>2 DEF Channel

\* Between two requests; `last` is the name that was asked for.
LEMMA ChannelRests ==
  Channel /\ stack = <<>> =>
    /\ sel \in tree \cap OnCard /\ fcp = sel /\ Parent(sel) \in tree /\ (alive \/ ~raised => cur = sel)
    /\ \A last : call.kind = "select" /\ ~raised /\ call.ids = <<last>> => last \in Ids(sel)
<1> SUFFICES ASSUME Channel, stack = <<>>
             PROVE  /\ sel \in tree \cap OnCard /\ fcp = sel /\ Parent(sel) \in tree /\ (alive \/ ~raised => cur = sel)
                    /\ \A last : call.kind = "select" /\ ~raised /\ call.ids = <<last>> => last \in Ids(sel)
  OBVIOUS
<1>1. IInv /\ Reached /\ Basics
  BY DEF Channel, IInv
<1>2. Resting /\ (alive => cur = sel)
  BY <1>1, AtRest
<1>3. ASSUME NEW last, call.kind = "select", ~raised, call.ids = <<last>> PROVE last \in Ids(sel)
  <2>1. Wanted(Ctx) = last
    BY <1>3, SMTT(30) DEF Wanted, Ctx
  <2> QED BY <1>2, <1>3, <2>1 DEF Resting
<1>4. Parent(sel) \in tree
  <2>1. sel \in tree /\ sel \in Files /\ IsTree(tree)
    BY <1>1, <1>2, KnownShape DEF Basics, Resting
  <2>2. CASE sel = MF
    BY <2>1, <2>2 DEF Parent
  <2>3. CASE sel # MF
    BY <2>1, <2>3, FileIsParentAndName DEF IsTree
  <2> QED BY <2>2, <2>3
<1> QED BY <1>1, <1>2, <1>3, <1>4 DEF Basics, Reached, Settled

(* What the hop loop relies on, for a channel that is in step or not.      *)

LEMMA ProfileIsTree == IsTree(Profile)
BY KnownShape DEF IsTree

\* The paths below the MF, one name at a time.
LEMMA NameByName ==
  \A f \in Profile :
    /\ f \in Seq(STRING) /\ Len(f) >= 1 /\ Prefix(f, 1) = MF /\ Prefix(f, Len(f)) = f
    /\ \A n \in 1..Len(f) : Prefix(f, n) \in Profile /\ Name(Prefix(f, n)) = f[n]
    /\ \A n \in 2..Len(f) : Parent(Prefix(f, n)) = Prefix(f, n - 1) /\ Prefix(f, n) # MF
<1> SUFFICES ASSUME NEW f \in Profile
             PROVE  /\ f \in Seq(STRING) /\ Len(f) >= 1 /\ Prefix(f, 1) = MF /\ Prefix(f, Len(f)) = f
                    /\ \A n \in 1..Len(f) : Prefix(f, n) \in Profile /\ Name(Prefix(f, n)) = f[n]
                    /\ \A n \in 2..Len(f) : Parent(Prefix(f, n)) = Prefix(f, n - 1) /\ Prefix(f, n) # MF
  OBVIOUS
<1>1. f \in Files /\ f \in Seq(STRING) /\ Len(f) >= 1 /\ Len(f) \in 1..Len(f) /\ Prefix(f, 1) = MF
  BY TreeShape, KnownShape
<1>2. Prefix(f, Len(f)) = f
  BY <1>1, PrefixFacts
<1>3. ASSUME NEW n \in 1..Len(f) PROVE Prefix(f, n) \in Profile /\ Name(Prefix(f, n)) = f[n]
  <2>1. Prefix(f, n) \in Profile
    BY ProfileIsTree, PrefixIsFile
  <2>2. Len(Prefix(f, n)) = n /\ Prefix(f, n)[n] = f[n]
    BY <1>1 DEF Prefix
  <2> QED BY <2>1, <2>2 DEF Name
<1>4. \A n \in 2..Len(f) : Parent(Prefix(f, n)) = Prefix(f, n - 1) /\ Prefix(f, n) # MF
  BY <1>1, ParentOfPrefix
<1> QED BY <1>1, <1>2, <1>3, <1>4

LEMMA PathLeads ==
  \A here, target \in Profile :
    /\ BuildSelectPathTo(here, target) \in Seq(Profile) /\ BuildSelectPathTo(here, target) # <<>>
    /\ BuildSelectPathTo(here, target)[Len(BuildSelectPathTo(here, target))] = target
    /\ IsChainFrom(here, BuildSelectPathTo(here, target))
<1> SUFFICES ASSUME NEW here \in Profile, NEW target \in Profile
             PROVE  /\ BuildSelectPathTo(here, target) \in Seq(Profile) /\ BuildSelectPathTo(here, target) # <<>>
                    /\ BuildSelectPathTo(here, target)[Len(BuildSelectPathTo(here, target))] = target
                    /\ IsChainFrom(here, BuildSelectPathTo(here, target))
  OBVIOUS
<1> DEFINE path == BuildSelectPathTo(here, target)
<1>1. path \in Seq(Profile) /\ Len(path) > 0 /\ path[Len(path)] = target /\ IsChainFrom(here, path)
  BY ProfileIsTree, SelectPathIsChain
<1> HIDE DEF path
<1>2. path # <<>>
  BY <1>1
<1> QED BY <1>1, <1>2 DEF path

LEMMA WayGoesOn ==
  \A f : \A path \in Seq(Profile) : path # <<>> =>
    /\ Head(path) \in Profile /\ Tail(path) \in Seq(Profile)
    /\ path[Len(path)] = IF Tail(path) = <<>> THEN Head(path) ELSE Tail(path)[Len(Tail(path))]
    /\ IsChainFrom(f, path) => Near(f, Head(path)) /\ IsChainFrom(Head(path), Tail(path))
<1> SUFFICES ASSUME NEW f, NEW path \in Seq(Profile), path # <<>>
             PROVE  /\ Head(path) \in Profile /\ Tail(path) \in Seq(Profile)
                    /\ path[Len(path)] = IF Tail(path) = <<>> THEN Head(path) ELSE Tail(path)[Len(Tail(path))]
                    /\ IsChainFrom(f, path) => Near(f, Head(path)) /\ IsChainFrom(Head(path), Tail(path))
  OBVIOUS
<1>1. Head(path) \in Profile /\ Tail(path) \in Seq(Profile)
  OBVIOUS
<1> QED BY <1>1, ChainTail, LastOfHops

LEMMA HopFinds ==
  \A f \in OnCard : \A g \in Profile \ ADFs : Near(f, g) => CardFind(f, Fid[g]) \subseteq {g}
BY CardFindsTheHop

\* runtime.py:383-460: a select that did not fail left the card at
\* selected_file, also if the link was lost before it returned.
THEOREM Reaching ==
  ASSUME NoBlindSiblings PROVE Spec => [](stack = <<>> /\ ~raised => cur = sel)
<1>1. Channel => (stack = <<>> /\ ~raised => cur = sel)
  BY ChannelRests
<1> QED BY <1>1, ChannelBegins, ChannelKeeps, PTL DEF Spec
-----------------------------------------------------------------------------
(* What a walk from directory to directory relies on: a request for one    *)
(* name that stands for f alone ends on f or fails, and fails only if f is *)
(* not there or the link is lost; and so does a request for a given file.  *)

\* The n-th frame from the bottom.
Up(s, n) == s[Len(s) + 1 - n]

Aims(f) ==
  \/ stack = <<>> /\ (raised \/ sel = f)
  \/ Len(stack) = 1 /\ Up(stack, 1).op = "select" /\ Lookup(tree, sel, Up(stack, 1).ids[1]) = {f}
  \/ Len(stack) = 1 /\ Up(stack, 1).op = "try" /\ (raised \/ sel = f)
  \/ Len(stack) > 1 /\ Up(stack, 1).op = "try" /\ Up(stack, 2).op \in FileOps /\ Up(stack, 2).file = f
  \/ Len(stack) > 0 /\ Up(stack, 1).op = "reraise"

Unrefused(f) == Sound(Ctx) /\ f \in OnCard => ~raised /\ (stack # <<>> => Up(stack, 1).op # "reraise")

\* With the link lost before it began.
Doomed ==
  /\ ~alive
  /\ IsTop(stack, "hop") => hops # <<>>
  /\ stack = <<>> \/ IsTop(stack, "try") \/ IsTop(stack, "path") => raised

FileUnrefused == call.kind = "select_file" /\ call.file \in OnCard /\ Sound(Ctx) => ~raised

LEMMA ByTop ==
  ASSUME Step
  PROVE  /\ stack # <<>> /\ alive' = alive /\ call' = call
         /\ \/ IsTop(stack, "path") /\ PathStep
            \/ IsTop(stack, "select") /\ (SelectKnown \/ SelectUnknown)
            \/ IsTop(stack, "try") /\ (TryReturn \/ GoBack)
            \/ IsTop(stack, "reraise") /\ Reraise
            \/ IsTop(stack, "select_file") /\ Escape
            \/ IsTop(stack, "goto") /\ StartHops
            \/ IsTop(stack, "hop") /\ (HopOk \/ HopRefused \/ HopsDone \/ HopLost)
            \/ IsTop(stack, "probe") /\ (ProbeOk \/ ProbeFailed)
            \/ IsTop(stack, "path") /\ GoBack
<1>1. stack # <<>> /\ alive' = alive /\ call' = call
  BY DEF Step, PathStep, SelectKnown, SelectUnknown, TryReturn, GoBack, Reraise, Escape, StartHops,
         HopOk, HopRefused, HopsDone, HopLost, ProbeOk, ProbeFailed, Top, lchan, card, loop
<1>2. \A op : Top(op) <=> IsTop(stack, op)
  BY DEF Top, IsTop
<1>3. CASE PathStep \/ SelectKnown \/ SelectUnknown \/ TryReturn \/ GoBack \/ Reraise
  BY <1>1, <1>2, <1>3 DEF PathStep, SelectKnown, SelectUnknown, TryReturn, GoBack, Reraise
<1>4. CASE Escape \/ StartHops \/ HopOk \/ HopRefused \/ HopsDone \/ HopLost \/ ProbeOk \/ ProbeFailed
  BY <1>1, <1>2, <1>4 DEF Escape, StartHops, HopOk, HopRefused, HopsDone, HopLost, ProbeOk, ProbeFailed
<1> QED BY <1>3, <1>4 DEF Step

\* A step works on the frame on top: it stays, returns, gives way to another,
\* or calls.
LEMMA Moves ==
  ASSUME Step
  PROVE  \/ stack' = stack \/ stack' = Tail(stack)
         \/ \E a : stack' = <<a>> \o Tail(stack)
         \/ \E a, b : stack' = <<a, b>> \o Tail(stack)
<1>1. CASE PathStep \/ SelectKnown \/ SelectUnknown \/ TryReturn \/ GoBack \/ Reraise
  BY <1>1 DEF PathStep, SelectKnown, SelectUnknown, TryReturn, GoBack, Reraise, Return, Become, Call
<1>2. CASE Escape \/ StartHops \/ HopOk \/ HopRefused \/ HopsDone \/ HopLost \/ ProbeOk \/ ProbeFailed
  BY <1>2 DEF Escape, StartHops, HopOk, HopRefused, HopsDone, HopLost, ProbeOk, ProbeFailed, Return, Become, Call
<1> QED BY <1>1, <1>2 DEF Step

LEMMA UpStays ==
  ASSUME NEW S, NEW t \in Seq(S), NEW a
  PROVE  /\ Len(<<a>> \o t) = Len(t) + 1
         /\ Len(t) >= 1 => Up(<<a>> \o t, 1) = Up(t, 1)
         /\ Len(t) >= 2 => Up(<<a>> \o t, 2) = Up(t, 2)
<1> DEFINE T == S \cup {a}
<1>1. t \in Seq(T) /\ a \in T
  OBVIOUS
<1> HIDE DEF T
<1>2. Len(t) \in Nat /\ Len(<<a>> \o t) = Len(t) + 1
  BY <1>1
<1>3. ASSUME NEW m \in 1..Len(t) PROVE (<<a>> \o t)[m + 1] = t[m]
  BY <1>1, <1>2
<1>4. ASSUME Len(t) >= 1 PROVE Up(<<a>> \o t, 1) = Up(t, 1)
  <2>1. Len(t) \in 1..Len(t) /\ Len(t) + 1 - 1 = Len(t) /\ Len(t) + 1 + 1 - 1 = Len(t) + 1
    BY <1>2, <1>4
  <2> QED BY <1>2, <1>3, <2>1 DEF Up
<1>5. ASSUME Len(t) >= 2 PROVE Up(<<a>> \o t, 2) = Up(t, 2)
  <2>1. Len(t) - 1 \in 1..Len(t) /\ Len(t) + 1 - 2 = Len(t) - 1 /\ Len(t) + 1 + 1 - 2 = Len(t) - 1 + 1
    BY <1>2, <1>5
  <2> QED BY <1>2, <1>3, <2>1 DEF Up
<1> QED BY <1>2, <1>4, <1>5

LEMMA UpStaysUnderTwo ==
  ASSUME NEW S, NEW t \in Seq(S), NEW a, NEW b
  PROVE  /\ Len(<<a, b>> \o t) = Len(t) + 2
         /\ Len(t) >= 1 => Up(<<a, b>> \o t, 1) = Up(t, 1)
         /\ Len(t) >= 2 => Up(<<a, b>> \o t, 2) = Up(t, 2)
<1> DEFINE T == S \cup {a, b}
<1>1. t \in Seq(T) /\ a \in T /\ b \in T
  OBVIOUS
<1> HIDE DEF T
<1>2. Len(t) \in Nat /\ Len(<<a, b>> \o t) = Len(t) + 2
  BY <1>1
<1>3. ASSUME NEW m \in 1..Len(t) PROVE (<<a, b>> \o t)[m + 2] = t[m]
  BY <1>1, <1>2
<1>4. ASSUME Len(t) >= 1 PROVE Up(<<a, b>> \o t, 1) = Up(t, 1)
  <2>1. Len(t) \in 1..Len(t) /\ Len(t) + 1 - 1 = Len(t) /\ Len(t) + 2 + 1 - 1 = Len(t) + 2
    BY <1>2, <1>4
  <2> QED BY <1>2, <1>3, <2>1 DEF Up
<1>5. ASSUME Len(t) >= 2 PROVE Up(<<a, b>> \o t, 2) = Up(t, 2)
  <2>1. Len(t) - 1 \in 1..Len(t) /\ Len(t) + 1 - 2 = Len(t) - 1 /\ Len(t) + 2 + 1 - 2 = Len(t) - 1 + 2
    BY <1>2, <1>5
  <2> QED BY <1>2, <1>3, <2>1 DEF Up
<1> QED BY <1>2, <1>4, <1>5

\* What lies below the frame a step works on stays.
LEMMA BelowStays ==
  ASSUME Basics, Step, NEW n \in {1, 2}, Len(stack) > n
  PROVE  Len(stack') >= n /\ stack' # <<>> /\ Up(stack', n) = Up(stack, n)
<1> DEFINE t == Tail(stack)
<1>1. stack \in Seq(Frames) /\ stack # <<>> /\ Len(stack) \in Nat
  BY DEF Basics
<1>2. t \in Seq(Frames) /\ Len(t) = Len(stack) - 1 /\ \A i \in 1..Len(t) : t[i] = stack[i + 1]
  BY <1>1, TailElements
<1> HIDE DEF t
<1>3. Len(t) >= n /\ Up(t, n) = Up(stack, n)
  <2>1. Len(t) \in Nat /\ Len(t) + 1 - n \in 1..Len(t) /\ Len(t) + 1 - n + 1 = Len(stack) + 1 - n
    BY <1>1, <1>2
  <2> QED BY <1>2, <2>1 DEF Up
<1>4. stack' = stack \/ stack' = t \/ (\E a : stack' = <<a>> \o t) \/ (\E a, b : stack' = <<a, b>> \o t)
  BY Moves DEF t
<1>5. Len(stack') >= n /\ Up(stack', n) = Up(stack, n)
  <2>1. ASSUME NEW a, stack' = <<a>> \o t PROVE Len(stack') >= n /\ Up(stack', n) = Up(stack, n)
    <3>1. Up(<<a>> \o t, n) = Up(t, n) /\ Len(<<a>> \o t) = Len(t) + 1
      <4>1. /\ Len(<<a>> \o t) = Len(t) + 1
            /\ Len(t) >= 1 => Up(<<a>> \o t, 1) = Up(t, 1)
            /\ Len(t) >= 2 => Up(<<a>> \o t, 2) = Up(t, 2)
        BY <1>2, UpStays
      <4> QED BY <1>3, <4>1
    <3> QED BY <1>1, <1>2, <1>3, <2>1, <3>1
  <2>2. ASSUME NEW a, NEW b, stack' = <<a, b>> \o t PROVE Len(stack') >= n /\ Up(stack', n) = Up(stack, n)
    <3>1. Up(<<a, b>> \o t, n) = Up(t, n) /\ Len(<<a, b>> \o t) = Len(t) + 2
      <4>1. /\ Len(<<a, b>> \o t) = Len(t) + 2
            /\ Len(t) >= 1 => Up(<<a, b>> \o t, 1) = Up(t, 1)
            /\ Len(t) >= 2 => Up(<<a, b>> \o t, 2) = Up(t, 2)
        BY <1>2, UpStaysUnderTwo
      <4> QED BY <1>3, <4>1
    <3> QED BY <1>1, <1>2, <1>3, <2>2, <3>1
  <2>3. CASE stack' = stack
    BY <1>1, <2>3
  <2>4. CASE stack' = t
    BY <1>3, <2>4
  <2> QED BY <1>4, <2>1, <2>2, <2>3, <2>4
<1>6. stack' # <<>>
  BY <1>5
<1> QED BY <1>5, <1>6

LEMMA FewFrames ==
  ASSUME NEW S, NEW s \in Seq(S), s # <<>>
  PROVE  /\ Len(s) \in Nat /\ Len(s) >= 1 /\ Tail(s) \in Seq(S)
         /\ Len(s) = 1 => Tail(s) = <<>> /\ Up(s, 1) = Head(s)
         /\ Len(s) = 2 => Len(Tail(s)) = 1 /\ Up(Tail(s), 1) = Up(s, 1) /\ Up(s, 2) = Head(s)
<1> DEFINE t == Tail(s)
<1>1. Len(s) \in Nat /\ Len(s) >= 1 /\ t \in Seq(S) /\ Len(t) = Len(s) - 1 /\ Head(s) = s[1]
      /\ (\A i \in 1..Len(t) : t[i] = s[i + 1]) /\ (t = <<>> <=> Len(s) = 1)
  BY TailElements
<1> HIDE DEF t
<1>2. Len(s) = 1 => t = <<>> /\ Up(s, 1) = Head(s)
  BY <1>1 DEF Up
<1>3. Len(s) = 2 => Len(t) = 1 /\ Up(t, 1) = Up(s, 1) /\ Up(s, 2) = Head(s)
  BY <1>1 DEF Up
<1> QED BY <1>1, <1>2, <1>3 DEF t

\* One frame in the place of the one on top.
LEMMA OneInPlace ==
  ASSUME NEW S, NEW s \in Seq(S), s # <<>>, Len(s) = 2, NEW a
  PROVE  /\ Up(<<a>> \o Tail(s), 1) = Up(s, 1) /\ Up(<<a>> \o Tail(s), 2) = a
         /\ Len(<<a>> \o Tail(s)) = 2
<1> DEFINE t == Tail(s)
<1>1. t \in Seq(S) /\ Len(t) = 1 /\ Up(t, 1) = Up(s, 1)
  BY FewFrames
<1> HIDE DEF t
<1>2. Up(<<a>> \o t, 1) = Up(t, 1) /\ Len(<<a>> \o t) = 2
  <2>1. Len(<<a>> \o t) = Len(t) + 1 /\ (Len(t) >= 1 => Up(<<a>> \o t, 1) = Up(t, 1))
    BY <1>1, UpStays
  <2> QED BY <1>1, <2>1
<1>3. (<<a>> \o t)[1] = a
  <2>1. t \in Seq(S \cup {a})
    BY <1>1
  <2> QED BY <2>1
<1>4. Up(<<a>> \o t, 2) = a
  BY <1>2, <1>3 DEF Up
<1> QED BY <1>1, <1>2, <1>4 DEF t

\* Two frames in the place of the only one.
LEMMA TwoInPlace ==
  ASSUME NEW S, NEW s \in Seq(S), s # <<>>, Len(s) = 1, NEW a, NEW b
  PROVE  Len(<<a, b>> \o Tail(s)) = 2 /\ Up(<<a, b>> \o Tail(s), 1) = b /\ Up(<<a, b>> \o Tail(s), 2) = a
<1> DEFINE t == Tail(s)
<1>1. t = <<>>
  BY FewFrames
<1> HIDE DEF t
<1>2. <<a, b>> \o t = <<a, b>>
  BY <1>1
<1> QED BY <1>2 DEF Up, t

LEMMA AimsKeeps ==
  ASSUME IInv, Step, NEW f, Aims(f)
  PROVE  Aims(f)'
<1>1. Basics /\ stack # <<>> /\ stack \in Seq(Frames) /\ Len(stack) \in Nat /\ Len(stack) >= 1
  BY ByTop, EmptyIsZero DEF IInv, Basics
<1> DEFINE t == Tail(stack)
<1>2. CASE Len(stack) = 1 /\ Up(stack, 1).op = "select" /\ Lookup(tree, sel, Up(stack, 1).ids[1]) = {f}
  <2>1. Up(stack, 1) = Head(stack) /\ IsTop(stack, "select")
    BY <1>1, <1>2, FewFrames DEF IsTop
  <2>2. CASE SelectKnown
    <3>1. stack' = <<Frame("select_file", f, <<>>), Frame("try", sel, <<>>)>> \o t
      BY <1>2, <2>1, <2>2 DEF SelectKnown, Call
    <3>2. Len(stack') = 2 /\ Up(stack', 1) = Frame("try", sel, <<>>) /\ Up(stack', 2) = Frame("select_file", f, <<>>)
      BY <1>1, <1>2, <3>1, TwoInPlace
    <3> QED BY <3>2 DEF Aims, Frame, FileOps
  <2>3. ~SelectUnknown
    BY <1>2, <2>1 DEF SelectUnknown
  <2> QED BY <2>1, <2>2, <2>3, ByTop DEF IsTop
<1>3. CASE Len(stack) = 1 /\ Up(stack, 1).op = "try" /\ (raised \/ sel = f)
  <2>1. Up(stack, 1) = Head(stack) /\ IsTop(stack, "try") /\ t = <<>>
    BY <1>1, <1>3, FewFrames DEF IsTop
  <2>2. CASE TryReturn
    BY <1>3, <2>1, <2>2 DEF TryReturn, Return, Aims, lchan
  <2>3. CASE GoBack
    <3>1. PICK a : stack' = <<a, Frame("reraise", NoFile, <<>>)>> \o t
      BY <2>3 DEF GoBack, Call
    <3>2. Len(stack') = 2 /\ Up(stack', 1) = Frame("reraise", NoFile, <<>>)
      BY <1>1, <1>3, <3>1, TwoInPlace
    <3> QED BY <3>2 DEF Aims, Frame
  <2> QED BY <2>1, <2>2, <2>3, ByTop DEF IsTop
<1>4. CASE Len(stack) = 2 /\ Up(stack, 1).op = "try" /\ Up(stack, 2).op \in FileOps /\ Up(stack, 2).file = f
  <2>1. Up(stack, 2) = Head(stack) /\ Len(t) = 1 /\ Up(t, 1) = Up(stack, 1) /\ Head(stack).op \in FileOps /\ Head(stack).file = f
    BY <1>1, <1>4, FewFrames
  <2>2. ASSUME NEW op \in FileOps, stack' = <<Frame(op, f, <<>>)>> \o t
        PROVE  Aims(f)'
    <3>1. Len(stack') = 2 /\ Up(stack', 1) = Up(stack, 1) /\ Up(stack', 2) = Frame(op, f, <<>>)
      BY <1>1, <1>4, <2>2, OneInPlace
    <3> QED BY <1>4, <3>1 DEF Aims, Frame
  <2>3. CASE Escape
    <3>1. CASE stack' = <<Frame("goto", f, <<>>)>> \o t
      BY <2>2, <3>1 DEF FileOps
    <3>2. CASE \E a : stack' = <<a, Frame("goto", f, <<>>)>> \o t
      <4>1. PICK a : stack' = <<a, Frame("goto", f, <<>>)>> \o t
        BY <3>2
      <4> DEFINE u == <<Frame("goto", f, <<>>)>> \o t
      <4>2. Len(u) = 2 /\ Up(u, 1) = Up(stack, 1) /\ Up(u, 2) = Frame("goto", f, <<>>)
        BY <1>1, <1>4, OneInPlace
      <4>3. stack' = <<a>> \o u
        BY <1>1, <4>1
      <4>4. u \in Seq(Frames \cup {Frame("goto", f, <<>>)})
        BY <1>1
      <4> HIDE DEF u
      <4>5. /\ Len(<<a>> \o u) = Len(u) + 1
            /\ Len(u) >= 1 => Up(<<a>> \o u, 1) = Up(u, 1)
            /\ Len(u) >= 2 => Up(<<a>> \o u, 2) = Up(u, 2)
        BY <4>4, UpStays
      <4>6. Len(stack') = 3 /\ Up(stack', 1) = Up(u, 1) /\ Up(stack', 2) = Up(u, 2)
        BY <4>2, <4>3, <4>5
      <4> QED BY <1>4, <4>2, <4>6 DEF Aims, Frame, FileOps
    <3> QED BY <2>1, <2>3, <3>1, <3>2 DEF Escape, Become, Call
  <2>4. CASE StartHops
    <3>1. CASE raised
      BY <1>4, <2>1, <2>4, <3>1 DEF StartHops, Return, Aims
    <3>2. CASE ~raised
      BY <2>1, <2>2, <2>4, <3>2 DEF StartHops, Become, FileOps
    <3> QED BY <3>1, <3>2
  <2>5. CASE HopOk \/ HopRefused
    BY <1>4, <2>5 DEF HopOk, HopRefused, Aims, lchan
  <2>6. CASE HopsDone
    <3>1. HopBasics /\ hops = <<>>
      BY <2>6, Phases DEF HopsDone, Top, IsTop
    <3>2. raised \/ at = f
      BY <2>1, <3>1 DEF HopBasics
    <3>3. stack' = t /\ sel' = at /\ raised' = raised
      BY <2>6 DEF HopsDone, Return, SelectPost
    <3> QED BY <1>4, <2>1, <3>2, <3>3 DEF Aims
  <2>7. CASE HopLost
    BY <1>4, <2>1, <2>7 DEF HopLost, Return, Aims
  <2> QED BY <2>1, <2>3, <2>4, <2>5, <2>6, <2>7, ByTop DEF IsTop, FileOps
<1>5. CASE Len(stack) > 2 /\ Up(stack, 1).op = "try" /\ Up(stack, 2).op \in FileOps /\ Up(stack, 2).file = f
  <2>1. Len(stack') >= 2 /\ Up(stack', 1) = Up(stack, 1) /\ Up(stack', 2) = Up(stack, 2)
    BY <1>1, <1>5, BelowStays
  <2> QED BY <1>5, <2>1 DEF Aims
<1>6. CASE Up(stack, 1).op = "reraise"
  <2>1. CASE Len(stack) = 1
    <3>1. IsTop(stack, "reraise") /\ t = <<>>
      BY <1>1, <1>6, <2>1, FewFrames DEF IsTop
    <3>2. Reraise
      BY <3>1, ByTop DEF IsTop
    <3> QED BY <3>1, <3>2 DEF Reraise, Return, Aims
  <2>2. CASE Len(stack) > 1
    <3>1. Len(stack') >= 1 /\ Up(stack', 1) = Up(stack, 1)
      BY <1>1, <2>2, BelowStays
    <3> QED BY <1>6, <3>1 DEF Aims
  <2> QED BY <1>1, <2>1, <2>2
<1>7. \/ Len(stack) = 1 /\ Up(stack, 1).op = "select" /\ Lookup(tree, sel, Up(stack, 1).ids[1]) = {f}
      \/ Len(stack) = 1 /\ Up(stack, 1).op = "try" /\ (raised \/ sel = f)
      \/ Len(stack) > 1 /\ Up(stack, 1).op = "try" /\ Up(stack, 2).op \in FileOps /\ Up(stack, 2).file = f
      \/ Up(stack, 1).op = "reraise"
  BY <1>1 DEF Aims
<1>8. Len(stack) > 1 => Len(stack) = 2 \/ Len(stack) > 2
  <2> DEFINE n == Len(stack)
  <2>1. n \in Nat
    BY <1>1
  <2> HIDE DEF n
  <2>2. n > 1 => n = 2 \/ n > 2
    BY <2>1
  <2> QED BY <2>2 DEF n
<1> QED BY <1>2, <1>3, <1>4, <1>5, <1>6, <1>7, <1>8

\* No path is being followed: every call has its place.
LEMMA NoPathBelow ==
  ASSUME Basics, stack # <<>>, Up(stack, 1).op # "path", NEW x
  PROVE  /\ ~Caller(stack, x)
         /\ Caller(Tail(stack), x) => Len(stack) = 1
         /\ Tail(stack) # <<>> /\ Caller(Tail(Tail(stack)), x) => Len(stack) = 2
<1>1. stack \in Seq(Frames)
  BY DEF Basics
<1>2. ASSUME NEW s \in Seq(Frames), s # <<>>, Up(s, 1).op # "path"
      PROVE  /\ ~Caller(s, x) /\ Tail(s) \in Seq(Frames)
             /\ Tail(s) # <<>> => Up(Tail(s), 1).op # "path" /\ Len(s) = Len(Tail(s)) + 1
             /\ Tail(s) = <<>> => Len(s) = 1
  <2>1. /\ Tail(s) \in Seq(Frames) /\ Len(Tail(s)) = Len(s) - 1 /\ Len(s) \in Nat /\ Len(s) >= 1
        /\ (\A i \in 1..Len(Tail(s)) : Tail(s)[i] = s[i + 1]) /\ (Tail(s) = <<>> <=> Len(s) = 1)
    BY <1>2, TailElements
  <2>2. Tail(s) # <<>> => Up(Tail(s), 1) = Up(s, 1)
    BY <2>1 DEF Up
  <2>3. Tail(s) = <<>> => Up(s, 1) = Head(s)
    BY <1>2, <2>1, FewFrames
  <2>4. ~Caller(s, x)
    BY <1>2, <2>3 DEF Caller, IsTop
  <2> QED BY <1>2, <2>1, <2>2, <2>4
<1>3. ~Caller(stack, x) /\ (Tail(stack) = <<>> => Len(stack) = 1)
  BY <1>1, <1>2
<1>4. Tail(stack) # <<>> => ~Caller(Tail(stack), x) /\ Len(stack) = Len(Tail(stack)) + 1
                            /\ (Tail(Tail(stack)) = <<>> => Len(Tail(stack)) = 1)
  <2>1. Tail(stack) # <<>> => Tail(stack) \in Seq(Frames) /\ Up(Tail(stack), 1).op # "path" /\ Len(stack) = Len(Tail(stack)) + 1
    BY <1>1, <1>2
  <2> QED BY <2>1, <1>2
<1>5. Tail(stack) # <<>> /\ Tail(Tail(stack)) # <<>> => ~Caller(Tail(Tail(stack)), x)
  <2>1. Tail(stack) # <<>> => Tail(stack) \in Seq(Frames) /\ Up(Tail(stack), 1).op # "path"
    BY <1>1, <1>2
  <2>2. Tail(stack) # <<>> /\ Tail(Tail(stack)) # <<>> => Tail(Tail(stack)) \in Seq(Frames) /\ Up(Tail(Tail(stack)), 1).op # "path"
    BY <2>1, <1>2
  <2> QED BY <2>2, <1>2
<1> QED BY <1>3, <1>4, <1>5

\* A sound card has the application through which another is left.
LEMMA LeavesThrough ==
  ASSUME IInv, LeaveAsking PROVE ~SelectUnknown
<1>1. Basics /\ IsTop(stack, "select") /\ Head(stack).ids = <<Name(FirstFsADF)>> /\ Trapped /\ FirstFsADF \in FsADFs
  BY DEF LeaveAsking, IInv, Leaving
<1>2. sel \in ADFs \ FsADFs /\ IsTree(tree) /\ ADFs \subseteq tree /\ FirstFsADF \in ADFs
  BY <1>1, TreeShape, KnownShape DEF Basics, Trapped
<1>3. Lookup(tree, sel, Name(FirstFsADF)) # {}
  BY <1>2, LookupOfApplication
<1>4. Head(stack).ids[1] = Name(FirstFsADF)
  BY <1>1
<1> QED BY <1>3, <1>4 DEF SelectUnknown

LEMMA UnrefusedKeeps ==
  ASSUME IInv, Step, NEW f, Aims(f), Unrefused(f)
  PROVE  Unrefused(f)'
<1> SUFFICES ASSUME Sound(Ctx)', f \in OnCard PROVE ~raised' /\ (stack' # <<>> => Up(stack', 1).op # "reraise")
  BY DEF Unrefused
<1>1. Basics /\ stack # <<>> /\ stack \in Seq(Frames) /\ Len(stack) \in Nat /\ Len(stack) >= 1
  BY ByTop, EmptyIsZero DEF IInv, Basics
<1>2. Sound(Ctx) /\ alive /\ CanLeave
  BY ByTop DEF Sound, Ctx
<1>3. ~raised /\ Up(stack, 1).op # "reraise"
  BY <1>1, <1>2 DEF Unrefused
<1>4. /\ Up(stack, 1).op \in {"select", "try"}
      /\ Len(stack) = 1 => Up(stack, 1) = Head(stack) /\ Tail(stack) = <<>>
      /\ Len(stack) = 2 => Up(stack, 2) = Head(stack) /\ Head(stack).op \in FileOps /\ Head(stack).file = f
      /\ IsTop(stack, "select") /\ Len(stack) = 1 => Lookup(tree, sel, Head(stack).ids[1]) = {f}
  <2>1. Up(stack, 1).op \in {"select", "try"}
    BY <1>1, <1>3 DEF Aims
  <2>2. Len(stack) = 1 => Up(stack, 1) = Head(stack) /\ Tail(stack) = <<>>
    BY <1>1, FewFrames
  <2>3. Len(stack) = 2 => Up(stack, 2) = Head(stack)
    BY <1>1, FewFrames
  <2> QED BY <1>1, <1>3, <2>1, <2>2, <2>3 DEF Aims, IsTop
<1>5. /\ ~Caller(stack, Ctx)
      /\ Caller(Tail(stack), Ctx) => Len(stack) = 1
      /\ Tail(stack) # <<>> /\ Caller(Tail(Tail(stack)), Ctx) => Len(stack) = 2
  BY <1>1, <1>4, NoPathBelow
<1>6. \A s : (Trying(s, Ctx) \/ GoingBack(s, Ctx)) => s # <<>> /\ Caller(Tail(s), Ctx)
  BY DEF Trying, GoingBack, IsTop
<1>7. ~SelectUnknown
  <2>1. SUFFICES ASSUME SelectUnknown PROVE FALSE
    OBVIOUS
  <2>2. IsTop(stack, "select") /\ Lookup(tree, sel, Head(stack).ids[1]) = {}
    BY <2>1 DEF SelectUnknown, Top, IsTop
  <2>3. ~Asking
    BY <1>4, <1>5, <2>2 DEF Asking
  <2> QED BY <2>1, <2>2, <2>3, Phases, LeavesThrough
<1>8. ~Reraise
  <2>1. SUFFICES ASSUME IsTop(stack, "reraise") PROVE FALSE
    BY DEF Reraise, Top, IsTop
  <2>2. ~GoingBack(stack, Ctx)
    BY <1>4, <1>5, <1>6, <2>1 DEF IsTop
  <2> QED BY <1>2, <2>1, <2>2, Phases DEF AtReraise, LeaveReraise, InnerReraise
<1>9. ~HopRefused
  <2>1. SUFFICES ASSUME HopRefused PROVE FALSE
    OBVIOUS
  <2>2. IsTop(stack, "hop") /\ hops # <<>> /\ Answers(Head(hops)) = {} /\ HopBasics /\ (Hopping \/ LeaveHopping)
    BY <2>1, Phases DEF HopRefused, Top, IsTop
  <2>3. Head(stack).file \notin OnCard
    BY <1>1, <1>2, <2>2, AnswersTheHop
  <2>4. Filing(stack, Ctx)
    BY <1>1, <1>2, <2>1, <2>2, SoundIsNotRefused DEF Hopping, LeaveHopping
  <2>5. Tail(stack) = <<>> \/ Trying(Tail(stack), Ctx)
    BY <1>1, <1>2, <2>1, <2>2, <2>4, SoundIsNotRefused DEF Filing
  <2>6. CASE Tail(stack) = <<>>
    <3>1. Len(stack) = 1
      BY <1>1, <2>6, TailElements
    <3> QED BY <1>4, <2>2, <3>1 DEF IsTop
  <2>7. CASE Trying(Tail(stack), Ctx)
    BY <1>4, <1>5, <1>6, <2>3, <2>7
  <2> QED BY <2>5, <2>6, <2>7
<1>10. ~ProbeOk /\ ~ProbeFailed
  <2>1. SUFFICES ASSUME IsTop(stack, "probe") PROVE FALSE
    BY DEF ProbeOk, ProbeFailed, Top, IsTop
  <2>2. Trying(Tail(stack), Ctx)
    BY <2>1, Phases DEF Probing
  <2>3. Len(stack) = 2
    BY <1>5, <1>6, <2>2
  <2> QED BY <1>4, <2>1, <2>3 DEF IsTop, FileOps
<1>11. ~raised'
  <2>1. CASE PathStep \/ SelectKnown \/ TryReturn \/ GoBack
    BY <1>3, <2>1 DEF PathStep, SelectKnown, TryReturn, GoBack
  <2>2. CASE Escape \/ StartHops \/ HopOk \/ HopsDone
    BY <1>3, <2>2 DEF Escape, StartHops, HopOk, HopsDone
  <2>3. ~HopLost
    BY <1>2 DEF HopLost
  <2> QED BY <1>7, <1>8, <1>9, <1>10, <2>1, <2>2, <2>3 DEF Step
<1>12. stack' # <<>> => Up(stack', 1).op # "reraise"
  <2>1. CASE Len(stack) > 1
    BY <1>1, <1>3, <2>1, BelowStays
  <2>2. CASE Len(stack) = 1
    <3>1. Up(stack, 1) = Head(stack) /\ Tail(stack) = <<>> /\ Head(stack).op \in {"select", "try"}
      BY <1>4, <2>2
    <3>2. ~GoBack
      BY <1>3 DEF GoBack
    <3>3. CASE SelectKnown
      <4>1. PICK a : stack' = <<a, Frame("try", sel, <<>>)>> \o Tail(stack)
        BY <3>3 DEF SelectKnown, Call
      <4>2. Up(stack', 1) = Frame("try", sel, <<>>)
        BY <1>1, <2>2, <4>1, TwoInPlace
      <4> QED BY <4>2 DEF Frame
    <3>4. CASE TryReturn
      BY <3>1, <3>4 DEF TryReturn, Return
    <3> QED BY <1>7, <3>1, <3>2, <3>3, <3>4, ByTop DEF IsTop
  <2>3. Len(stack) = 1 \/ Len(stack) > 1
    <3> DEFINE n == Len(stack)
    <3>1. n \in Nat /\ n >= 1
      BY <1>1
    <3> HIDE DEF n
    <3>2. n = 1 \/ n > 1
      BY <3>1
    <3> QED BY <3>2 DEF n
  <2> QED BY <2>1, <2>2, <2>3
<1> QED BY <1>11, <1>12

LEMMA UnderACall ==
  ASSUME IInv, stack # <<>>, Head(stack).op \in {"reraise", "goto", "hop", "probe"}
  PROVE  ~IsTop(Tail(stack), "hop")
<1>1. \A s, x : Caller(s, x) => ~IsTop(s, "hop")
  BY DEF Caller, IsTop
<1>2. \A s, x : Trying(s, x) \/ GoingBack(s, x) \/ Leaving(s, x) => ~IsTop(s, "hop")
  BY DEF Trying, GoingBack, Leaving, IsTop
<1>3. \A s, x : InnerTry(s, x) \/ InnerReraise(s, x) => ~IsTop(s, "hop")
  BY DEF InnerTry, InnerReraise, IsTop
<1>4. \A s, x : Filing(s, x) \/ InnerFiling(s, x) => ~IsTop(Tail(s), "hop")
  BY <1>2, <1>3 DEF Filing, InnerFiling, IsTop
<1>5. CASE Head(stack).op = "reraise"
  <2>1. AtReraise \/ LeaveReraise
    BY <1>5, Phases DEF IsTop
  <2>2. GoingBack(stack, Ctx) => Caller(Tail(stack), Ctx)
    BY DEF GoingBack
  <2>3. InnerReraise(stack, Ctx) => Leaving(Tail(stack), Ctx)
    BY DEF InnerReraise
  <2> QED BY <1>1, <1>2, <2>1, <2>2, <2>3 DEF AtReraise, LeaveReraise
<1>6. CASE Head(stack).op = "goto"
  BY <1>4, <1>6, Phases DEF IsTop, AtGoto, LeaveFiling
<1>7. CASE Head(stack).op = "hop"
  BY <1>4, <1>7, Phases DEF IsTop, Hopping, LeaveHopping
<1>8. CASE Head(stack).op = "probe"
  BY <1>2, <1>8, Phases DEF IsTop, Probing
<1> QED BY <1>5, <1>6, <1>7, <1>8

LEMMA DoomedKeeps ==
  ASSUME IInv, Step, Doomed
  PROVE  Doomed'
<1> DEFINE t == Tail(stack)
<1>1. stack # <<>> /\ t \in Seq(Frames) /\ ~alive /\ alive' = alive /\ Basics
  BY ByTop, StackFacts DEF IInv, Basics, Doomed
<1>2. \A a : <<a>> \o t # <<>> /\ Head(<<a>> \o t) = a
  <2> SUFFICES ASSUME NEW a PROVE <<a>> \o t # <<>> /\ Head(<<a>> \o t) = a
    OBVIOUS
  <2>1. t \in Seq(Frames \cup {a})
    BY <1>1
  <2> HIDE DEF t
  <2> QED BY <2>1, PushFacts
<1>3. \A a, b : <<a, b>> \o t # <<>> /\ Head(<<a, b>> \o t) = a
  <2> SUFFICES ASSUME NEW a, NEW b PROVE <<a, b>> \o t # <<>> /\ Head(<<a, b>> \o t) = a
    OBVIOUS
  <2>1. t \in Seq(Frames \cup {a, b})
    BY <1>1
  <2> HIDE DEF t
  <2> QED BY <2>1, PushFacts
<1>4. ASSUME stack' # <<>>, Head(stack').op \notin {"hop", "try", "path"}
      PROVE  Doomed'
  BY <1>1, <1>4 DEF Doomed, IsTop
<1>5. ASSUME Head(stack).op \in {"reraise", "goto", "hop", "probe"}, stack' = t, raised'
      PROVE  Doomed'
  BY <1>1, <1>5, UnderACall DEF Doomed, IsTop
<1>6. CASE IsTop(stack, "path") \/ IsTop(stack, "try")
  <2>1. GoBack
    BY <1>6, ByTop DEF Doomed, IsTop, PathStep, TryReturn
  <2>2. PICK b : stack' = <<Frame("select_file", Head(stack).file, <<>>), b>> \o t
    BY <2>1 DEF GoBack, Call
  <2>3. stack' # <<>> /\ Head(stack').op = "select_file"
    BY <1>3, <2>2 DEF Frame
  <2> QED BY <1>4, <2>3
<1>7. CASE IsTop(stack, "select")
  <2>1. CASE SelectKnown
    <3>1. PICK target : stack' = <<Frame("select_file", target, <<>>), Frame("try", sel, <<>>)>> \o t
      BY <2>1 DEF SelectKnown, Call
    <3>2. stack' # <<>> /\ Head(stack').op = "select_file"
      BY <1>3, <3>1 DEF Frame
    <3> QED BY <1>4, <3>2
  <2>2. CASE SelectUnknown
    <3>1. CASE Head(stack).ids[1] \in HexIds
      <4>1. PICK b : stack' = <<Frame("probe", NoFile, <<Head(stack).ids[1]>>), b>> \o t
        BY <2>2, <3>1 DEF SelectUnknown, Call
      <4>2. stack' # <<>> /\ Head(stack').op = "probe"
        BY <1>3, <4>1 DEF Frame
      <4> QED BY <1>4, <4>2
    <3>2. CASE Head(stack).ids[1] \notin HexIds
      <4>1. stack' = <<Frame("try", sel, <<>>)>> \o t /\ raised'
        BY <2>2, <3>2 DEF SelectUnknown, Become
      <4>2. Head(stack').op = "try"
        BY <1>2, <4>1 DEF Frame
      <4> QED BY <1>1, <4>1, <4>2 DEF Doomed, IsTop
    <3> QED BY <3>1, <3>2
  <2> QED BY <1>7, <2>1, <2>2, ByTop DEF IsTop
<1>8. CASE IsTop(stack, "reraise")
  BY <1>5, <1>8, ByTop DEF IsTop, Reraise, Return
<1>9. CASE IsTop(stack, "select_file")
  <2>1. Escape
    BY <1>9, ByTop DEF IsTop
  <2>2. CASE stack' = <<Frame("goto", Head(stack).file, <<>>)>> \o t
    <3>1. stack' # <<>> /\ Head(stack').op = "goto"
      BY <1>2, <2>2 DEF Frame
    <3> QED BY <1>4, <3>1
  <2>3. CASE \E b : stack' = <<Frame("select", NoFile, <<Name(FirstFsADF)>>), b>> \o t
    <3>1. PICK b : stack' = <<Frame("select", NoFile, <<Name(FirstFsADF)>>), b>> \o t
      BY <2>3
    <3>2. stack' # <<>> /\ Head(stack').op = "select"
      BY <1>3, <3>1 DEF Frame
    <3> QED BY <1>4, <3>2
  <2> QED BY <2>1, <2>2, <2>3 DEF Escape, Become, Call
<1>10. CASE IsTop(stack, "goto")
  <2>1. StartHops
    BY <1>10, ByTop DEF IsTop
  <2>2. CASE raised
    BY <1>5, <1>10, <2>1, <2>2 DEF StartHops, Return, IsTop
  <2>3. CASE ~raised
    <3>1. sel \in tree /\ Head(stack).file \in tree /\ IsTree(tree)
      <4>1. AtGoto \/ LeaveFiling
        BY <1>10, Phases
      <4>2. ADFs \subseteq tree /\ sel \in tree /\ IsTree(tree)
        BY <1>1, KnownShape DEF Basics
      <4>3. \A s : Filing(s, Ctx) => Head(s).file \in tree
        BY DEF Filing, Ctx
      <4>4. \A s : InnerFiling(s, Ctx) => Head(s).file \in ADFs
        BY DEF InnerFiling
      <4> QED BY <4>1, <4>2, <4>3, <4>4 DEF AtGoto, LeaveFiling
    <3>2. hops' = BuildSelectPathTo(sel, Head(stack).file)
      BY <2>1, <2>3 DEF StartHops
    <3>3. hops' # <<>>
      <4>1. Len(hops') > 0
        BY <3>1, <3>2, SelectPathIsChain
      <4> QED BY <4>1
    <3>4. stack' = <<Frame("hop", Head(stack).file, <<>>)>> \o t
      BY <2>1, <2>3 DEF StartHops, Become
    <3>5. stack' # <<>> /\ Head(stack').op = "hop"
      BY <1>2, <3>4 DEF Frame
    <3> QED BY <1>1, <3>3, <3>5 DEF Doomed, IsTop
  <2> QED BY <2>2, <2>3
<1>11. CASE IsTop(stack, "hop")
  <2>1. HopLost
    BY <1>1, <1>11, ByTop DEF IsTop, Doomed, HopOk, HopRefused, HopsDone
  <2> QED BY <1>5, <1>11, <2>1 DEF HopLost, Return, IsTop
<1>12. CASE IsTop(stack, "probe")
  <2>1. ProbeFailed
    BY <1>1, <1>12, ByTop DEF IsTop, ProbeOk
  <2> QED BY <1>5, <1>12, <2>1 DEF ProbeFailed, Return, IsTop
<1> QED BY <1>6, <1>7, <1>8, <1>9, <1>10, <1>11, <1>12, ByTop

LEMMA FileUnrefusedKeeps ==
  ASSUME IInv, Step, FileUnrefused
  PROVE  FileUnrefused'
<1> SUFFICES ASSUME Sound(Ctx)', call'.kind = "select_file", call'.file \in OnCard PROVE ~raised'
  BY DEF FileUnrefused
<1>1. /\ Basics /\ stack # <<>> /\ call.kind = "select_file" /\ call.file \in OnCard
      /\ Sound(Ctx) /\ alive /\ CanLeave
  BY ByTop DEF IInv, Sound, Ctx
<1>2. ~raised
  BY <1>1 DEF FileUnrefused
<1>3. \A s : ~Caller(s, Ctx) /\ ~Trying(s, Ctx) /\ ~GoingBack(s, Ctx)
  BY <1>1 DEF Caller, Trying, GoingBack, Ctx
<1>4. ~SelectUnknown
  <2>1. SelectUnknown => IsTop(stack, "select")
    BY DEF SelectUnknown, Top, IsTop
  <2> QED BY <1>3, <2>1, Phases, LeavesThrough DEF Asking
<1>5. ~Reraise
  <2>1. Reraise => IsTop(stack, "reraise")
    BY DEF Reraise, Top, IsTop
  <2> QED BY <1>1, <1>3, <2>1, Phases DEF AtReraise, LeaveReraise, InnerReraise
<1>6. ~HopRefused
  <2>1. SUFFICES ASSUME HopRefused PROVE FALSE
    OBVIOUS
  <2>2. IsTop(stack, "hop") /\ hops # <<>> /\ Answers(Head(hops)) = {} /\ HopBasics /\ (Hopping \/ LeaveHopping)
    BY <2>1, Phases DEF HopRefused, Top, IsTop
  <2>3. Head(stack).file \notin OnCard
    BY <1>1, <2>2, AnswersTheHop
  <2>4. Filing(stack, Ctx)
    BY <1>1, <2>1, <2>2, SoundIsNotRefused DEF Hopping, LeaveHopping
  <2> QED BY <1>1, <1>3, <2>3, <2>4 DEF Filing, Ctx
<1>7. ~ProbeOk /\ ~ProbeFailed /\ ~HopLost
  <2>1. ProbeOk \/ ProbeFailed => IsTop(stack, "probe")
    BY DEF ProbeOk, ProbeFailed, Top, IsTop
  <2> QED BY <1>1, <1>3, <2>1, Phases DEF Probing, HopLost
<1>8. CASE PathStep \/ SelectKnown \/ TryReturn \/ GoBack
  BY <1>2, <1>8 DEF PathStep, SelectKnown, TryReturn, GoBack
<1>9. CASE Escape \/ StartHops \/ HopOk \/ HopsDone
  BY <1>2, <1>9 DEF Escape, StartHops, HopOk, HopsDone
<1> QED BY <1>4, <1>5, <1>6, <1>7, <1>8, <1>9 DEF Step

\* Only a blind FID adds to the tree.
LEMMA TreeStays ==
  ASSUME IInv, Step, HexIds = {} PROVE tree' = tree
<1>1. ~ProbeOk
  <2>1. ProbeOk => IsTop(stack, "probe")
    BY DEF ProbeOk, Top, IsTop
  <2> QED BY <2>1, Phases DEF Probing
<1> QED BY <1>1 DEF Step, PathStep, SelectKnown, SelectUnknown, TryReturn, GoBack, Reraise, Escape, StartHops,
        HopOk, HopRefused, HopsDone, HopLost, ProbeFailed, lchan

(* The same as formulas, for the modules that walk on a channel.           *)

LEMMA WalkAsks ==
  \A id, f :
    /\ Channel /\ CallSelect(<<id>>) /\ Lookup(tree, sel, id) = {f} => Aims(f)' /\ Unrefused(f)'
    /\ Channel /\ CallSelect(<<id>>) /\ ~alive => Doomed'
    /\ CallSelectFile(f) => FileUnrefused'
<1> SUFFICES ASSUME NEW id, NEW f
             PROVE  /\ Channel /\ CallSelect(<<id>>) /\ Lookup(tree, sel, id) = {f} => Aims(f)' /\ Unrefused(f)'
                    /\ Channel /\ CallSelect(<<id>>) /\ ~alive => Doomed'
                    /\ CallSelectFile(f) => FileUnrefused'
  OBVIOUS
<1>1. ASSUME Channel, CallSelect(<<id>>)
      PROVE  /\ UNCHANGED <<tree, sel, alive>> /\ raised' = FALSE
             /\ Len(stack') = 1 /\ Up(stack', 1) = Frame("select", NoFile, <<id>>)
             /\ Head(stack') = Up(stack', 1) /\ stack' # <<>>
  <2>1. UNCHANGED <<tree, sel, alive>> /\ raised' = FALSE
    BY <1>1 DEF CallSelect, lchan, card
  <2>2. stack' = <<Frame("select", NoFile, <<id>>)>>
    <3>1. ~(Len(<<id>>) > 1)
      OBVIOUS
    <3> QED BY <1>1, <3>1 DEF CallSelect
  <2> QED BY <2>1, <2>2 DEF Up
<1>2. ASSUME Channel, CallSelect(<<id>>), Lookup(tree, sel, id) = {f} PROVE Aims(f)' /\ Unrefused(f)'
  <2>1. Up(stack', 1).op = "select" /\ Up(stack', 1).ids[1] = id
    BY <1>1, <1>2 DEF Frame
  <2> QED BY <1>1, <1>2, <2>1 DEF Aims, Unrefused
<1>3. ASSUME Channel, CallSelect(<<id>>), ~alive PROVE Doomed'
  BY <1>1, <1>3 DEF Doomed, IsTop, Frame
<1>4. CallSelectFile(f) => FileUnrefused'
  BY DEF CallSelectFile, FileUnrefused
<1> QED BY <1>2, <1>3, <1>4

LEMMA WalkSteps ==
  Channel /\ Step /\ HexIds = {} =>
    /\ tree' = tree /\ alive' = alive
    /\ \A f : /\ Aims(f) => Aims(f)'
              /\ Aims(f) /\ Unrefused(f) => Unrefused(f)'
    /\ Doomed => Doomed'
    /\ FileUnrefused => FileUnrefused'
<1> SUFFICES ASSUME Channel, Step, HexIds = {}
             PROVE  /\ tree' = tree /\ alive' = alive
                    /\ \A f : /\ Aims(f) => Aims(f)'
                              /\ Aims(f) /\ Unrefused(f) => Unrefused(f)'
                    /\ Doomed => Doomed'
                    /\ FileUnrefused => FileUnrefused'
  OBVIOUS
<1>1. IInv
  BY DEF Channel
<1>2. tree' = tree /\ alive' = alive
  BY <1>1, TreeStays, ByTop
<1>3. ASSUME NEW f, Aims(f) PROVE Aims(f)' /\ (Unrefused(f) => Unrefused(f)')
  BY <1>1, <1>3, AimsKeeps, UnrefusedKeeps
<1>4. (Doomed => Doomed') /\ (FileUnrefused => FileUnrefused')
  BY <1>1, DoomedKeeps, FileUnrefusedKeeps
<1> QED BY <1>2, <1>3, <1>4

\* The link is lost while a request is served.
LEMMA WalkIsCut ==
  LinkLost => /\ \A f : Aims(f) => Aims(f)' /\ Unrefused(f)'
              /\ FileUnrefused'
<1> SUFFICES ASSUME LinkLost
             PROVE  (\A f : Aims(f) => Aims(f)' /\ Unrefused(f)') /\ FileUnrefused'
  OBVIOUS
<1>1. UNCHANGED <<tree, sel, stack, raised>> /\ alive' = FALSE
  BY DEF LinkLost, lchan
<1>2. ~Sound(Ctx)'
  BY <1>1 DEF Sound, Ctx
<1>3. ASSUME NEW f, Aims(f) PROVE Aims(f)' /\ Unrefused(f)'
  BY <1>1, <1>2, <1>3 DEF Aims, Unrefused
<1>4. FileUnrefused'
  BY <1>2 DEF FileUnrefused
<1> QED BY <1>3, <1>4

LEMMA WalkReturns ==
  Channel /\ stack = <<>> =>
    /\ \A f : Aims(f) => raised \/ sel = f
    /\ Doomed => ~alive /\ raised
    /\ alive /\ CanLeave =>
         /\ \A f : Unrefused(f) /\ f \in OnCard => ~raised
         /\ call.kind = "select" /\ raised => sel = call.from
         /\ call.kind = "select_file" /\ call.file \in OnCard /\ FileUnrefused => sel = call.file
<1> SUFFICES ASSUME Channel, stack = <<>>
             PROVE  /\ \A f : Aims(f) => raised \/ sel = f
                    /\ Doomed => ~alive /\ raised
                    /\ alive /\ CanLeave =>
                         /\ \A f : Unrefused(f) /\ f \in OnCard => ~raised
                         /\ call.kind = "select" /\ raised => sel = call.from
                         /\ call.kind = "select_file" /\ call.file \in OnCard /\ FileUnrefused => sel = call.file
  OBVIOUS
<1>1. Resting
  BY AtRest DEF Channel
<1>2. ASSUME NEW f, Aims(f) PROVE raised \/ sel = f
  <2>1. ~(Len(stack) = 1) /\ ~(Len(stack) > 1) /\ ~(Len(stack) > 0)
    OBVIOUS
  <2> QED BY <1>2, <2>1 DEF Aims
<1>3. Doomed => ~alive /\ raised
  BY DEF Doomed
<1>4. ASSUME alive, CanLeave
      PROVE  /\ \A f : Unrefused(f) /\ f \in OnCard => ~raised
             /\ call.kind = "select" /\ raised => sel = call.from
             /\ call.kind = "select_file" /\ call.file \in OnCard /\ FileUnrefused => sel = call.file
  <2>1. Sound(Ctx)
    BY <1>4 DEF Sound, Ctx
  <2> QED BY <1>1, <2>1 DEF Resting, Unrefused, FileUnrefused
<1> QED BY <1>2, <1>3, <1>4
-----------------------------------------------------------------------------
(* The channel implements LchanSpec: a request is asked, what the calls on *)
(* the stack do is not seen, and the return of the last one answers.       *)

Rested == stack = <<>> => /\ Resting /\ sel \in OnCard /\ cur \in OnCard
                          /\ (alive => cur = sel) /\ alive \in BOOLEAN /\ raised \in BOOLEAN

LEMMA RestedAtRest == ASSUME IInv PROVE Rested
BY AtRest DEF Rested, IInv, Basics

\* LchanSpec names the files as the channel does.
LEMMA SameTree ==
  /\ Promise!NoFile = NoFile
  /\ \A f : Promise!Ids(f) = Ids(f) /\ Promise!Dirs(f) = Dirs(f)
<1>1. Promise!NoFile = NoFile
  BY DEF NoFile, Promise!NoFile
<1>2. \A f, n : Promise!Prefix(f, n) = Prefix(f, n)
  BY DEF Prefix, Promise!Prefix
<1>3. \A f : Promise!Dirs(f) = Dirs(f)
  BY <1>2 DEF Dirs, Promise!Dirs
<1>4. \A f : Promise!Name(f) = Name(f)
  BY DEF Name, Promise!Name
<1>5. \A f : Promise!Ids(f) = Ids(f)
  BY <1>4 DEF Ids, Promise!Ids
<1> QED BY <1>1, <1>3, <1>5

LEMMA WhatIsServed ==
  ASSUME IInv, stack # <<>> PROVE call.kind \in {"select", "select_file"}
<1>1. \A s : Caller(s, Ctx) => call.kind = "select"
  BY DEF Caller, Ctx
<1>2. \A s : Trying(s, Ctx) \/ GoingBack(s, Ctx) => call.kind = "select"
  BY <1>1 DEF Trying, GoingBack
<1>3. \A s : Filing(s, Ctx) => call.kind \in {"select", "select_file"}
  BY <1>2 DEF Filing, Ctx
<1>4. \A s : InnerTry(s, Ctx) \/ InnerReraise(s, Ctx) \/ InnerFiling(s, Ctx)
             => call.kind \in {"select", "select_file"}
  BY <1>3 DEF InnerTry, InnerReraise, InnerFiling, Leaving
<1>5. CASE Still
  BY <1>1, <1>2, <1>3, <1>4, <1>5
  DEF Still, Resting, AtPath, Asking, Probing, AtTry, AtReraise, AtSelectFile, AtGoto,
      LeaveAsking, LeaveTry, LeaveReraise, LeaveFiling, Leaving
<1>6. CASE Hopping \/ LeaveHopping
  BY <1>3, <1>4, <1>6 DEF Hopping, LeaveHopping
<1> QED BY <1>5, <1>6 DEF IInv

LEMMA StepServes ==
  ASSUME Step
  PROVE  stack # <<>> /\ UNCHANGED <<call, alive>>
BY DEF Step, PathStep, SelectKnown, SelectUnknown, TryReturn, GoBack, Reraise, Escape, StartHops,
       HopOk, HopRefused, HopsDone, HopLost, ProbeOk, ProbeFailed, Top, lchan, card, loop

LEMMA InitIsPromised == Init => Promise!SpecInit
BY SameTree DEF Init, NoCall, Promise!SpecInit, Promise!NoReq

LEMMA RequestIsAsked ==
  ASSUME IInv, (\E ids \in Paths : CallSelect(ids)) \/ (\E file \in tree : CallSelectFile(file))
  PROVE  Promise!Ask
<1>1. stack = <<>> /\ stack' # <<>> /\ alive' = alive /\ call'.from = cur
  BY DEF CallSelect, CallSelectFile, card
<1>2. [kind |-> call'.kind, ids |-> call'.ids, file |-> call'.file] \in Promise!Request
  <2>1. CASE \E ids \in Paths : CallSelect(ids)
    BY <2>1, SameTree DEF CallSelect, Promise!Request
  <2>2. CASE \E file \in tree : CallSelectFile(file)
    <3>1. tree \subseteq Files
      BY KnownShape DEF IInv, Basics, Known
    <3> QED BY <2>2, <3>1, SameTree DEF CallSelectFile, Promise!Request
  <2> QED BY <2>1, <2>2
<1> QED BY <1>1, <1>2, SameTree DEF Promise!Ask, Promise!NoReq

\* The last call returns: what the invariant says of a channel at rest is
\* what its caller was promised.
LEMMA ReturnAnswers ==
  ASSUME CanLeave, IInv, Rested', Step, stack' = <<>>
  PROVE  Promise!Answer
<1>1. stack # <<>> /\ call' = call /\ alive' = alive /\ call.kind \in {"select", "select_file"}
  BY StepServes, WhatIsServed
<1>2. /\ Resting' /\ sel' \in OnCard /\ (alive' => cur' = sel')
      /\ cur' \in OnCard /\ raised' \in BOOLEAN /\ alive' \in BOOLEAN
  BY DEF Rested
<1>3. Sound(Ctx') <=> alive'
  BY DEF Sound, Ctx
<1>4. CASE ~alive
  BY <1>1, <1>2, <1>4, SameTree DEF Promise!Answer, Promise!NoReq
<1>5. CASE alive /\ call.kind = "select"
  <2>1. raised' => cur' = call.from
    BY <1>1, <1>2, <1>3, <1>5 DEF Resting
  <2>2. ~raised' => call.ids[Len(call.ids)] \in Ids(cur')
    BY <1>1, <1>2, <1>5 DEF Resting, Wanted, Ctx
  <2> QED BY <1>1, <1>2, <1>5, <2>1, <2>2, SameTree
      DEF Promise!Answer, Promise!NoReq, Promise!Succeed, Promise!Fail
<1>6. CASE alive /\ call.kind = "select_file"
  <2>1. raised' => cur' \in {call.from} \cup Dirs(call.from) \cup Dirs(call.file) \cup FsADFs
    BY <1>1, <1>2, <1>3, <1>6 DEF Resting
  <2>2. ~raised' => cur' = call.file
    BY <1>1, <1>2, <1>3, <1>6 DEF Resting
  <2> QED BY <1>1, <1>2, <1>6, <2>1, <2>2, SameTree
      DEF Promise!Answer, Promise!NoReq, Promise!Succeed, Promise!Fail, Promise!OnTheWay
<1> QED BY <1>1, <1>2, <1>4, <1>5, <1>6

LEMMA ResetIsPromised ==
  ASSUME CanLeave, IInv, Reset PROVE Promise!Reset
<1>1. Trapped => FirstFsADF \in OnCard
  BY DEF CanLeave, Trapped, IInv, Basics
<1>2. stack = <<>> /\ stack' = <<>> /\ cur \in OnCard
  BY DEF Reset, IInv, Basics
<1> QED BY <1>1, <1>2, SameTree DEF Reset, Promise!Reset, Promise!NoReq

LEMMA StepIsPromised ==
  ASSUME CanLeave, IInv, Rested', [Next]_vars
  PROVE  [Promise!SpecNext]_(Promise!specVars)
<1>1. CASE UNCHANGED vars
  BY <1>1 DEF vars, Promise!specVars
<1>2. CASE (\E ids \in Paths : CallSelect(ids)) \/ (\E file \in tree : CallSelectFile(file))
  BY <1>2, RequestIsAsked DEF Promise!SpecNext
<1>3. CASE Reset
  BY <1>3, ResetIsPromised DEF Promise!SpecNext
<1>4. CASE LinkLost
  BY <1>4 DEF LinkLost, Promise!SpecNext, Promise!Lose
<1>5. CASE Step /\ stack' = <<>>
  BY <1>5, ReturnAnswers DEF Promise!SpecNext
<1>6. CASE Step /\ stack' # <<>>
  BY <1>6, StepServes DEF Promise!specVars
<1> QED BY <1>1, <1>2, <1>3, <1>4, <1>5, <1>6 DEF Next

\* What pysim_wrapper.py and the shell rely on: select(), select_file() and
\* reset() of runtime.py do what LchanSpec promises, step by step, on a card
\* whose applications can be left and that answers a blind SELECT with a file
\* the software can name.
THEOREM Refinement ==
  ASSUME NoBlindSiblings, CanLeave PROVE Spec => ImplementsPromise
<1>1. IInv => Rested
  BY RestedAtRest
<1>2. IInv /\ Rested' /\ [Next]_vars => [Promise!SpecNext]_(Promise!specVars)
  BY StepIsPromised
<1> QED BY <1>1, <1>2, InitIsPromised, InvariantHolds, PTL DEF Spec, ImplementsPromise, Promise!Spec
=============================================================================
