------------------------------- MODULE CardFs -------------------------------
(***************************************************************************)
(* The file tree of a card as pySim/filesystem.py describes it, and the    *)
(* way a UICC resolves a file identifier.                                  *)
(*                                                                         *)
(* A file is its fully qualified path, a sequence of names that starts at  *)
(* the MF: <<"MF", "ADF.USIM", "EF.IMSI">>.  The parent of a file is its   *)
(* path without the last element; the MF is its own parent.                *)
(***************************************************************************)
EXTENDS Naturals, Sequences

CONSTANTS
  Files,     \* every file the software or the card may know
  MF,        \* the root
  ADFs,      \* the application DFs (children of the MF, selected by AID)
  FsADFs,    \* those with has_fs = True
  FirstFsADF,\* the first ADF with has_fs in the order of mf.applications
  EFs,       \* the elementary files
  Fid,       \* Fid[f]: the file identifier of f (an ADF has none)
  Profile,   \* the files of the card profile and of its applications
  OnCard     \* the files that exist on the card

NoFile == <<>>

Prefix(f, n) == [i \in 1..n |-> f[i]]
Name(f)      == f[Len(f)]
Parent(f)    == IF f = MF THEN MF ELSE Prefix(f, Len(f) - 1)
Dirs(f)      == {Prefix(f, n) : n \in 1..(Len(f) - 1)}
IsDF(f)      == f \notin EFs
Cwd(f)       == IF f \in EFs THEN Parent(f) ELSE f
Ids(f)       == {Name(f)} \cup (IF f \in ADFs THEN {} ELSE {Fid[f]})

(***************************************************************************)
(* The files a name is looked up among when `cur` is selected and the      *)
(* software's model of the card is `tree`: the file itself, its ancestors, *)
(* the MF, the applications, and the children of the current directory.    *)
(***************************************************************************)
Selectables(tree, cur) ==
  {f \in tree : \/ f \in {cur, MF} \cup ADFs \cup Dirs(cur)
                \/ f # MF /\ Parent(f) = Cwd(cur)}

Lookup(tree, cur, id) == {f \in Selectables(tree, cur) : id \in Ids(f)}

(***************************************************************************)
(* The files to select in turn to get from `cur` to `target`: up to the    *)
(* deepest directory of `cur`'s path that is a proper ancestor of          *)
(* `target`, then down.  Everything before the last ADF is dropped, since  *)
(* an ADF is selected by its AID from anywhere.                            *)
(***************************************************************************)
CommonDepth(cur, target) ==
  CHOOSE k \in 1..(Len(target) - 1) :
    /\ k <= Len(cur)
    /\ Prefix(cur, k) = Prefix(target, k)
    /\ \A n \in 1..(Len(target) - 1) :
         n <= Len(cur) /\ Prefix(cur, n) = Prefix(target, n) => n <= k

UpDown(cur, target) ==
  LET k  == CommonDepth(cur, target)
      up == Len(cur) - k
  IN  [i \in 1..(up + Len(target) - k) |->
         IF i <= up THEN Prefix(cur, Len(cur) - i) ELSE Prefix(target, k + i - up)]

ClipPath(path) ==
  LET adfAt == {i \in 1..Len(path) : path[i] \in ADFs}
      last  == CHOOSE i \in adfAt : \A j \in adfAt : j <= i
  IN  IF adfAt = {} THEN path ELSE SubSeq(path, last, Len(path))

BuildSelectPathTo(cur, target) ==
  IF target = MF THEN <<MF>> ELSE ClipPath(UpDown(cur, target))

(***************************************************************************)
(* The card (external): ETSI TS 102 221, 8.4.1.  From a current file, a    *)
(* SELECT by FID reaches the MF, the current directory, its parent, the    *)
(* files in it and the directories next to it; inside an application       *)
(* without a file system it reaches nothing.                               *)
(***************************************************************************)
FidScope(cur) ==
  LET d == Cwd(cur)
  IN  IF cur \in ADFs \ FsADFs THEN {}
      ELSE {f \in Files \ ADFs :
              \/ f \in {MF, d, Parent(d)}
              \/ f # MF /\ Parent(f) = d
              \/ f # MF /\ f \notin EFs /\ Parent(f) = Parent(d)}

CardFind(cur, fid) == {f \in FidScope(cur) \cap OnCard : Fid[f] = fid}

(***************************************************************************)
(* What the code relies on: every directory on the path of a file is there *)
(* too, an application sits below the MF, its name is not one of the MF's, *)
(* without a file system it has no files, a file the profile does not know *)
(* is named by its FID, and a FID is unique among what the card reaches    *)
(* from one place.                                                         *)
(***************************************************************************)
ASSUME TreeShape ==
  /\ Files \subseteq Seq(STRING) /\ MF \in Files /\ Len(MF) = 1
  /\ \A f \in Files : Len(f) >= 1 /\ Prefix(f, 1) = MF /\ Dirs(f) \subseteq Files \ EFs
  /\ EFs \subseteq Files \ {MF} /\ ADFs \subseteq Files \ (EFs \cup {MF})
  /\ FsADFs \subseteq ADFs /\ (FsADFs # {} => FirstFsADF \in FsADFs)
  /\ \A a \in ADFs : Len(a) = 2 /\ Name(a) \notin Ids(MF)
  /\ \A f \in Files : Dirs(f) \cap ADFs \subseteq FsADFs

ASSUME KnownShape ==
  /\ Profile \subseteq Files /\ MF \in Profile /\ ADFs \subseteq Profile
  /\ OnCard \subseteq Files /\ MF \in OnCard
  /\ \A f \in Profile : Dirs(f) \subseteq Profile
  /\ \A f \in OnCard : Dirs(f) \subseteq OnCard
  /\ \A f \in OnCard \ Profile : Name(f) = Fid[f]

ASSUME FidUnique ==
  \A cur \in OnCard : \A f \in FidScope(cur) \cap (Profile \cup OnCard) :
    \A g \in FidScope(cur) \cap OnCard : Fid[f] = Fid[g] => f = g
=============================================================================
