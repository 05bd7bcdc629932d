------------------------------ MODULE ApduTrace ------------------------------
(***************************************************************************)
(* pySim-trace: what a terminal and a card say to each other is captured   *)
(* and followed.  TpduFilter (pySim/apdu/__init__.py) makes APDUs of the   *)
(* TPDUs of T=0, the commands of pySim/apdu/ts_102_221.py keep a           *)
(* RuntimeState where the card is.  One step is one exchange on the wire   *)
(* with everything the tracer makes of it.                                 *)
(***************************************************************************)
EXTENDS CardFs

CONSTANTS
  Channels,   \* the logical channels
  KnownTree,  \* the files of the tracer's applications
  AssumedADF, \* ADF.USIM, assumed when no application was selected
  SfiOf,      \* SfiOf[f]: the short identifier of an EF, "" if it has none
  Selects,    \* the SELECTs of the terminal: [mode, ids]
  Sfis,       \* the short identifiers it reads by, "" for the current EF
  Sources,    \* "tpdu" (rspro) or "apdu" (GSMTAP)
  MaxTpdus    \* bound on the exchanges

(* ETSI TS 102 221: the numbers of the channels (7.3); the identifiers of  *)
(* files, which differ between a file and every directory above it, and    *)
(* 7fff, which stands for the application where a path begins (8.3, 8.4);  *)
(* a short identifier is one file's of its directory.  The tracer knows    *)
(* the directories of every file it knows.                                 *)
ASSUME TraceAssumption ==
  /\ Channels \subseteq 0..19 /\ 0 \in Channels
  /\ KnownTree \subseteq Profile /\ MF \in KnownTree /\ AssumedADF \in ADFs \cap KnownTree
  /\ \A f \in KnownTree : Dirs(f) \subseteq KnownTree
  /\ Selects \subseteq [mode : {"fid", "from_mf", "from_df", "aid"}, ids : Seq(STRING) \ {<<>>}]
  /\ \A s \in Selects : \A i \in 2..Len(s.ids) : s.mode \in {"from_mf", "from_df"} /\ s.ids[i] # "7fff"
  /\ \A f \in (Profile \cup OnCard) \ ADFs : Fid[f] # "7fff" /\ \A g \in Dirs(f) \ ADFs : Fid[f] # Fid[g]
  /\ \A f, g \in EFs \cap (KnownTree \cup OnCard) :
       Parent(f) = Parent(g) /\ SfiOf[f] = SfiOf[g] /\ SfiOf[f] # "" => f = g

VARIABLES
  chip,     \* the card's channels: [open, cur, app], cur being the file
            \* selected last (external)
  ef,       \* ef[n]: the current EF of a channel of the card (external)
  due,      \* the command whose answer the card holds back (external)
  source,   \* what the capture consists of
  last_cmd, \* TpduFilter.last_cmd
  lchans,   \* RuntimeState.lchan: [open, sel, adf]
  dead,     \* an exception has ended the tracer
  shown,    \* history: the last APDU handed on: [right, file, read, skipped, sure]
  orphan,   \* history: an answer that was due went with a reset
  lost,     \* history: the channels on which something happened that
            \* cannot be followed, since the last SELECT from the top
  astray,   \* history: the same of their application, since the last by AID
  provoked, \* history: something happened that may end the tracer
  tpdus     \* the exchanges so far

traceVars == <<chip, ef, due, source, last_cmd, lchans, dead, shown, orphan, lost, astray, provoked, tpdus>>

None     == [ins |-> "none", cla |-> 0, mode |-> "", ids |-> <<>>, nr |-> 0]
NoDue    == [kind |-> "none", cmd |-> None]
NotShown == [right |-> TRUE, file |-> NoFile, read |-> NoFile, skipped |-> FALSE, sure |-> TRUE]
Fresh    == [open |-> TRUE, cur |-> MF, app |-> NoFile]
Shut     == [open |-> FALSE, cur |-> MF, app |-> NoFile]
-----------------------------------------------------------------------------
(* The terminal and its card (external): ETSI TS 102 221, 8.4, 8.7, 10.1.1,*)
(* 11.1.                                                                   *)

ClaOf(n)   == IF n < 4 THEN n ELSE 64 + (n - 4)
Cmd(ins, n, mode, ids, nr) == [ins |-> ins, cla |-> ClaOf(n), mode |-> mode, ids |-> ids, nr |-> nr]
Open       == {n \in Channels : chip[n].open}

The(set) == IF set = {} THEN NoFile ELSE CHOOSE f \in set : TRUE
FidsUsed == UNION {{s.ids[i] : i \in DOMAIN s.ids} : s \in {t \in Selects : t.mode # "aid"}}
Found    == [f \in OnCard |-> [id \in FidsUsed |-> The(CardFind(f, id))]]
Children == [f \in OnCard |-> [id \in FidsUsed |-> The({g \in OnCard \ ADFs : g # MF /\ Parent(g) = f /\ Fid[g] = id})]]

\* an element of a path: a file below, or the current application
Below(f, id, app) == IF id = "7fff" THEN app ELSE Children[f][id]
Along(f, ids, app) ==
  LET r[i \in 0..Len(ids)] == IF i = 0 THEN f ELSE IF r[i - 1] = NoFile THEN NoFile ELSE Below(r[i - 1], ids[i], app) IN r[Len(ids)]

\* where a SELECT leads, NoFile if the card refuses it
Target(at, mode, ids) ==
  CASE mode = "fid"      -> Found[at.cur][ids[1]]
    [] mode = "from_mf"  -> Along(MF, ids, at.app)
    [] mode = "from_df"  -> Along(Cwd(at.cur), ids, at.app)
    [] mode = "aid"      -> The({a \in ADFs \cap OnCard : Name(a) = ids[1]})
Standing(at, mode, f) == [at EXCEPT !.cur = f, !.app = IF mode = "aid" THEN f ELSE @]

\* the EF a READ BINARY reads; by a short identifier it becomes the current EF,
\* the file selected last stays where a path begins
ReadFrom(n, sfi) ==
  IF sfi = "" THEN ef[n] ELSE The({f \in EFs \cap OnCard : Parent(f) = Cwd(chip[n].cur) /\ SfiOf[f] = sfi})
EfOf(f)       == IF f \in EFs THEN f ELSE NoFile
BySfi(n)      == ef[n] # EfOf(chip[n].cur)
Current(n, f) == [ef EXCEPT ![n] = f]

\* nr = 0: the card assigns a channel
Opened(from)   == [open |-> TRUE, cur |-> IF from = 0 THEN MF ELSE Cwd(chip[from].cur), app |-> IF from = 0 THEN NoFile ELSE chip[from].app]
Assigned(nr)   == IF nr # 0 THEN nr ELSE CHOOSE k \in Channels \ Open : \A j \in Channels \ Open : k <= j
-----------------------------------------------------------------------------
(* What the tracer makes of an APDU: [lchans, dead, file].                 *)

\* lchan_nr_from_cla
LchanNrFromCla(cla) == IF (cla \div 16) \in {0, 8, 10} THEN (cla % 4) ELSE 4 + (cla % 16)

\* get_selectables(['FIDS','MF','PARENT','SELF']): the children come last
ByFid ==
  [sel \in KnownTree |-> [id \in FidsUsed |->
     LET m == {f \in Selectables(KnownTree, sel) \ ADFs : Fid[f] = id}
         c == {f \in m : f # MF /\ Parent(f) = Cwd(sel)} IN
     IF c # {} THEN The(c) ELSE The(m)]]

\* UiccSelect: one element of a path
PathElement(l, id, ok) ==
  IF id = "7fff" THEN LET a == IF l.adf = NoFile THEN AssumedADF ELSE l.adf IN [l EXCEPT !.adf = a, !.sel = a]
  ELSE IF ok /\ ByFid[l.sel][id] # NoFile THEN [l EXCEPT !.sel = ByFid[l.sel][id]] ELSE l
Path(l, ids, ok) == LET r[i \in 0..Len(ids)] == IF i = 0 THEN l ELSE PathElement(r[i - 1], ids[i], ok) IN r[Len(ids)]

\* UiccSelect.process_on_lchan: a path from the MF and an AID move the tracer
\* even if the card refused them
UiccSelect(l, c, ok) ==
  CASE c.mode = "fid"     -> IF c.ids[1] = "7fff" THEN l ELSE PathElement(l, c.ids[1], ok)
    [] c.mode = "from_mf" -> Path([l EXCEPT !.sel = MF], c.ids, ok)
    [] c.mode = "from_df" -> Path(l, c.ids, ok)
    [] c.mode = "aid"     -> LET a == The({b \in ADFs \cap KnownTree : Name(b) = c.ids[1]}) IN
                             IF a = NoFile THEN l ELSE [l EXCEPT !.adf = a, !.sel = a]

\* _determine_file
DetermineFile(l, sfi) ==
  IF sfi = "" THEN l.sel
  ELSE The({f \in EFs \cap KnownTree : Parent(f) = Cwd(l.sel) /\ SfiOf[f] = sfi})

NewLchan == [open |-> TRUE, sel |-> MF, adf |-> NoFile]
Closed   == [open |-> FALSE, sel |-> MF, adf |-> NoFile]

\* Mutant: a channel always starts at the MF.
AddLchan_AtMF(from) == NewLchan

\* RuntimeLchan.add_lchan
AddLchan(from) == IF from = 0 THEN NewLchan ELSE [open |-> TRUE, sel |-> Cwd(lchans[from].sel), adf |-> lchans[from].adf]

\* RuntimeState.del_lchan
DelLchan(n) == [lchans EXCEPT ![n] = Closed]

Fails == [lchans |-> lchans, dead |-> TRUE, file |-> NoFile]

\* ManageChannel.process_global: nr is the channel the card assigned
ManageChannel(c, ok, nr) ==
  LET from == LchanNrFromCla(c.cla) IN
  IF ~ok THEN [lchans |-> lchans, dead |-> FALSE, file |-> NoFile]
  ELSE IF c.mode = "close" THEN [lchans |-> DelLchan(c.nr), dead |-> FALSE, file |-> NoFile]
  ELSE IF lchans[from].open /\ ~lchans[nr].open THEN [lchans |-> [lchans EXCEPT ![nr] = AddLchan(from)], dead |-> FALSE, file |-> NoFile]
  ELSE Fails

\* ApduDecoder.input and ApduCommand.process: a command the sets do not know, a
\* channel there is none of, a STATUS without the data asked for
Process(c, ok, nr) ==
  LET n == LchanNrFromCla(c.cla)  l == lchans[n] IN
  CASE c.ins = "unknown" -> Fails
    [] c.ins = "MANAGE"  -> ManageChannel(c, ok, nr)
    [] c.ins = "STATUS"  -> IF l.open /\ ok THEN [lchans |-> lchans, dead |-> FALSE, file |-> NoFile] ELSE Fails
    [] c.ins = "SELECT"  -> IF l.open THEN [lchans |-> [lchans EXCEPT ![n] = UiccSelect(l, c, ok)], dead |-> FALSE, file |-> NoFile] ELSE Fails
    [] c.ins = "READ"    -> IF l.open THEN [lchans |-> lchans, dead |-> FALSE, file |-> DetermineFile(l, c.ids[1])] ELSE Fails
-----------------------------------------------------------------------------
(* An exchange: the command c of the terminal, the status sw of the card,  *)
(* which answers the command `own`; nr is a channel it assigned, `read`    *)
(* the EF it read.                                                         *)

\* TpduFilter.input_tpdu
Filter(c, sw) == IF sw \in {"61", "6C"} THEN [pass |-> FALSE, cmd |-> None, last |-> IF c.ins = "GET RESPONSE" THEN last_cmd ELSE c]
                 ELSE [pass |-> TRUE, cmd |-> IF last_cmd = None THEN c ELSE last_cmd, last |-> None]

\* what the tracer follows: not the current EF that a READ by SFI has set
Sure(own) == LET n == LchanNrFromCla(own.cla) IN n \notin lost /\ ~(own.ids = <<"">> /\ BySfi(n))

\* ApduSource.read and Tracer.main
Capture(c, sw, own, nr, read) ==
  LET f == Filter(c, sw)  p == Process(f.cmd, sw = "ok", nr) IN
  /\ last_cmd' = f.last /\ orphan' = FALSE
  /\ IF f.pass
     THEN /\ lchans' = p.lchans /\ dead' = p.dead
          /\ shown' = [right |-> f.cmd = own, file |-> p.file, read |-> read, skipped |-> orphan \/ (due # NoDue /\ own # due.cmd),
                     sure |-> Sure(own)]
     ELSE UNCHANGED <<lchans, dead, shown>>

Exchange == ~dead /\ tpdus < MaxTpdus /\ tpdus' = tpdus + 1 /\ UNCHANGED source
Skipping == due # NoDue \/ orphan

\* An answer that was not asked for hides what came next.
Unfollowed(n) == IF Skipping THEN {n} \cup {k \in Channels : due # NoDue /\ ClaOf(k) = due.cmd.cla} ELSE {}

\* What happened that the tracer cannot follow: a SELECT of a file unknown to it
\* or not seen from where it starts, and a refused one that it follows in part.
ByApp(c)         == c.mode = "aid" \/ c.ids[1] = "7fff"
FromTop(c, f)    == c.mode \in {"aid", "from_mf"} \/ ByApp(c) \/ f = MF
Seen(at, c, f)   == c.mode = "fid" => f \in {MF, at.cur} \cup Dirs(at.cur) \/ Parent(f) = Cwd(at.cur)
AstrayBy(n, c, f) ==
  IF Skipping THEN astray \cup Unfollowed(n)
  ELSE IF f = NoFile THEN (IF ByApp(c) THEN astray \cup {n} ELSE astray)
  ELSE IF c.mode = "aid" THEN (IF f \in KnownTree THEN astray \ {n} ELSE astray \cup {n}) ELSE astray
LostBy(n, c, f) ==
  IF Skipping THEN lost \cup Unfollowed(n)
  ELSE IF f = NoFile THEN (IF FromTop(c, f) THEN lost \cup {n} ELSE lost)
  ELSE IF f \notin KnownTree \/ ~Seen(chip[n], c, f) \/ (c.ids[1] = "7fff" /\ n \in astray) THEN lost \cup {n}
  ELSE IF FromTop(c, f) THEN lost \ {n} ELSE lost

Held(kind, c) == due' = [kind |-> kind, cmd |-> c]

\* with an answer: T=0 has the terminal ask for it
TerminalSelects(n, s, fcp, granted) ==
  LET c == Cmd("SELECT", n, s.mode, s.ids, 0)  f == IF granted THEN Target(chip[n], s.mode, s.ids) ELSE NoFile
      sw == IF f = NoFile THEN "bad" ELSE IF fcp THEN "61" ELSE "ok" IN
  /\ Exchange /\ chip[n].open /\ (fcp => granted /\ source = "tpdu")
  /\ chip' = IF f = NoFile THEN chip ELSE [chip EXCEPT ![n] = Standing(@, s.mode, f)]
  /\ ef' = IF f = NoFile THEN ef ELSE Current(n, EfOf(f))
  /\ Capture(c, sw, c, 0, NoFile) /\ IF sw = "61" THEN Held("61", c) ELSE due' = NoDue
  /\ lost' = LostBy(n, c, f) /\ astray' = AstrayBy(n, c, f) /\ provoked' = (provoked \/ Skipping)

TerminalReads(n, sfi, wrongLe) ==
  LET c == Cmd("READ", n, "", <<sfi>>, 0)  f == ReadFrom(n, sfi)
      sw == IF f = NoFile THEN "bad" ELSE IF wrongLe THEN "6C" ELSE "ok" IN
  /\ Exchange /\ chip[n].open /\ (wrongLe => source = "tpdu") /\ UNCHANGED chip
  /\ ef' = (IF sw = "ok" THEN Current(n, f) ELSE ef)
  /\ Capture(c, sw, c, 0, f) /\ IF sw = "6C" THEN Held("6C", c) ELSE due' = NoDue
  /\ lost' = lost \cup Unfollowed(n) /\ astray' = astray \cup Unfollowed(n) /\ provoked' = (provoked \/ Skipping)

\* GET RESPONSE after 61, the command once more after 6C
TerminalFetches ==
  /\ Exchange /\ due # NoDue /\ UNCHANGED <<chip, lost, astray, provoked>> /\ due' = NoDue
  /\ LET n == CHOOSE k \in Channels : ClaOf(k) = due.cmd.cla
         read == IF due.cmd.ins = "READ" THEN ReadFrom(n, due.cmd.ids[1]) ELSE NoFile IN
     /\ ef' = (IF due.cmd.ins = "READ" THEN Current(n, read) ELSE ef)
     /\ Capture(IF due.kind = "61" THEN [due.cmd EXCEPT !.ins = "GET RESPONSE"] ELSE due.cmd, "ok", due.cmd, 0, read)

Inherited(set, n, k, ok) ==
  IF Skipping THEN set \cup Unfollowed(n) \cup {k} ELSE IF ~ok THEN set ELSE IF n # 0 /\ n \in set THEN set \cup {k} ELSE set \ {k}
TerminalOpens(n, nr) ==
  LET c == Cmd("MANAGE", n, "open", <<>>, nr)  ok == (nr = 0 \/ nr \notin Open) /\ Channels # Open
      k == IF ok THEN Assigned(nr) ELSE 0 IN
  /\ Exchange /\ chip[n].open /\ due' = NoDue
  /\ chip' = IF ok THEN [chip EXCEPT ![k] = Opened(n)] ELSE chip
  /\ ef' = IF ok THEN Current(k, NoFile) ELSE ef
  /\ Capture(c, IF ok THEN "ok" ELSE "bad", c, k, NoFile)
  /\ lost' = Inherited(lost, n, k, ok) /\ astray' = Inherited(astray, n, k, ok)
  /\ provoked' = (provoked \/ Skipping)

TerminalCloses(n, nr) ==
  LET c == Cmd("MANAGE", n, "close", <<>>, nr) IN
  /\ Exchange /\ chip[n].open /\ chip[nr].open /\ nr # 0 /\ due' = NoDue
  /\ chip' = [chip EXCEPT ![nr] = Shut] /\ ef' = Current(nr, NoFile)
  /\ Capture(c, "ok", c, 0, NoFile)
  /\ lost' = lost \cup Unfollowed(n) /\ astray' = astray \cup Unfollowed(n) /\ provoked' = (provoked \/ Skipping)

\* STATUS; and what no command set of the tracer has
TerminalAsks(n, ins, ok) ==
  LET c == Cmd(ins, n, "", <<>>, 0) IN
  /\ Exchange /\ chip[n].open /\ due' = NoDue /\ UNCHANGED <<chip, ef>>
  /\ Capture(c, IF ok THEN "ok" ELSE "bad", c, 0, NoFile)
  /\ lost' = lost \cup Unfollowed(n) /\ astray' = astray \cup Unfollowed(n) /\ provoked' = (provoked \/ Skipping \/ ~ok \/ ins = "unknown")

\* rs.reset(); the filter is not told
CardReset ==
  /\ Exchange /\ chip' = [n \in Channels |-> IF n = 0 THEN Fresh ELSE Shut] /\ due' = NoDue
  /\ ef' = [n \in Channels |-> NoFile]
  /\ lchans' = [n \in Channels |-> IF n = 0 THEN NewLchan ELSE Closed]
  /\ orphan' = Skipping
  /\ lost' = (IF Skipping THEN Channels ELSE {})
  /\ astray' = (IF Skipping THEN Channels ELSE {})
  /\ provoked' = (provoked \/ Skipping)
  /\ shown' = NotShown /\ UNCHANGED <<last_cmd, dead>>

TraceInit ==
  /\ chip = [n \in Channels |-> IF n = 0 THEN Fresh ELSE Shut] /\ ef = [n \in Channels |-> NoFile]
  /\ due = NoDue /\ source \in Sources
  /\ last_cmd = None /\ lchans = [n \in Channels |-> IF n = 0 THEN NewLchan ELSE Closed] /\ dead = FALSE
  /\ shown = NotShown /\ orphan = FALSE /\ lost = {} /\ astray = {} /\ provoked = FALSE /\ tpdus = 0

TraceNext ==
  \/ \E n \in Channels : \/ \E s \in Selects, fcp, granted \in BOOLEAN : TerminalSelects(n, s, fcp, granted)
                         \/ \E sfi \in Sfis, w \in BOOLEAN : TerminalReads(n, sfi, w)
                         \/ \E nr \in Channels : TerminalOpens(n, nr) \/ TerminalCloses(n, nr)
                         \/ \E ok \in BOOLEAN : TerminalAsks(n, "STATUS", ok)
                         \/ TerminalAsks(n, "unknown", FALSE)
  \/ TerminalFetches \/ CardReset

TraceSpec == TraceInit /\ [][TraceNext]_traceVars
-----------------------------------------------------------------------------
(* Properties.                                                             *)

\* An APDU is handed on with the answer to its own command; a terminal that
\* does not ask for an answer spoils one APDU only, the next
\* (pySim/apdu/__init__.py:424-441).
PairedRight == shown.right \/ shown.skipped

\* On every channel on which nothing happened since the last SELECT from the
\* top that cannot be followed, the tracer's file is the one the card selected
\* last.  A READ by its short identifier makes an EF current and leaves the
\* tracer where it was (pySim/apdu/__init__.py:341-348); every other READ is
\* shown with the file it read, a READ of the current EF until the next SELECT
\* after one by SFI excepted (pySim/apdu/ts_102_221.py:56-160, 386-405,
\* runtime.py:137-230).
FollowsTheCard ==
  /\ ~dead => \A n \in Open \ lost :
                /\ lchans[n].open \/ provoked
                /\ lchans[n].open /\ (due = NoDue \/ due.cmd.cla # ClaOf(n)) => lchans[n].sel = chip[n].cur
  /\ shown.right /\ shown.read # NoFile /\ shown.sure => shown.file \in {shown.read, NoFile}

\* Only a command no set has, a refused STATUS or an answer that was not
\* fetched ends the tracer (pySim-trace.py:112-141).
GoesOn == dead => provoked

\* What pySim-trace shows is what went over the line.
TraceIsRight == PairedRight /\ FollowsTheCard /\ GoesOn
=============================================================================
