----------------------------- MODULE ShellFiles -----------------------------
(***************************************************************************)
(* The files of a card from pySim-shell: the commands of the file classes  *)
(* of pySim/filesystem.py, `export`, which walks the tree and prints a     *)
(* script, `fsdump`, which walks it and collects a result, and the script  *)
(* run on the card again.                                                  *)
(*                                                                         *)
(* A SELECT is one step here (RuntimeLchan has its details), and so is the *)
(* reading of one file; the link may be lost between any two.              *)
(***************************************************************************)
EXTENDS Integers, Sequences, FiniteSets, SequencesExt

CONSTANTS
  Tree,        \* Tree[d]: the names below directory d, in get_selectables order
  Top,         \* the MF
  EFs,         \* the EFs
  Cards,       \* the cards: what each EF is on it and in the profile, and holds
  Blank,       \* directories without an FCP
  RecLen,      \* the length of a record
  Pad,         \* the byte ff
  MaxFragment, \* max_cmd_len
  WideTags,    \* the tags of two bytes
  Denials,     \* what the card may refuse: file |-> {"select", "read", "update"}
  Commands,    \* the commands a user may type
  MaxTyped     \* bound on their number

Dirs  == DOMAIN Tree
Names == Dirs \cup EFs

Inside(d) == {Tree[d][i] : i \in DOMAIN Tree[d]}

\* Below[x]: x and all that is below it
ClosedBelow == {S \in SUBSET Names : \A d \in S \cap Dirs : Inside(d) \subseteq S}
Below == [x \in Names |-> {y \in Names : \A S \in ClosedBelow : x \in S => y \in S}]

\* What a file may be, and hold.
Byte       == 0..255
Structures == {"transparent", "linear_fixed", "ber_tlv"}
IsKind(k)  == /\ k.structure \in Structures /\ k.class \in Structures
              /\ k.codec \in {"plain", "tlv", "records", "none", "bad"}
              /\ k.codec = "records" => k.class = "transparent"
              /\ k.codec = "tlv" => ~k.leftpad
IsContent(k, b) ==
  CASE k.structure = "transparent"  -> b \in Seq(Byte)
    [] k.structure = "linear_fixed" -> b \in Seq([1..RecLen -> Byte])
    [] OTHER -> IsFiniteSet(DOMAIN b) /\ DOMAIN b \subseteq Nat /\ b \in [DOMAIN b -> Seq(Byte)]

ASSUME CardAssumption ==
  /\ RecLen \in Nat \ {0} /\ Pad \in Byte
  /\ \A c \in Cards : /\ c.kind = [f \in EFs |-> c.kind[f]] /\ c.body = [f \in EFs |-> c.body[f]]
                      /\ \A f \in EFs : IsKind(c.kind[f]) /\ IsContent(c.kind[f], c.body[f])
ASSUME CommandAssumption ==
  \A c \in Commands :
    c.cmd # "select" => c.n \in Nat /\ c.data \in Seq(Byte) /\ c.parts \in Seq(Seq(Byte))
ASSUME TreeAssumption ==
  /\ Top \in Dirs /\ Dirs \cap EFs = {} /\ Blank \subseteq Dirs
  /\ \A d \in Dirs : Tree[d] \in Seq(Names)
  /\ EFs \subseteq Below[Top]

VARIABLES
  kind,     \* kind[f]: [structure, class, codec, counted, ends9402, leftpad, lenient]
  body,     \* body[f]: what the EF f holds (external)
  denied,   \* what the card refuses now (external)
  linked,   \* the link to the card works (external)
  sel,      \* selected_file
  conserve_write, \* conserve_write
  job,      \* "idle", "export", "dump", "custom" (fsdump_custom) or "restore"
  at,       \* where the job is
  asJson,
  single,   \* --filename was given
  home,     \* the directory the job began in
  frames,   \* the calls of __walk: [dir, todo]
  visit,    \* the file __walk_action works on
  bad, skipped, stopped, \* what went wrong: BAD, DF_SKIP_REASON, an exception
  script,   \* the lines printed
  exported, \* history: what the exported files held
  dumped,   \* result['files']
  line,     \* the next line of the script
  failed,   \* a line of the script failed
  misled,  \* history: a SELECT of the script failed
  outset,   \* history: what the files held when the script began
  last,     \* the last job or command, and how it ended
  typed     \* how many commands were typed

walking   == <<home, frames, visit>>
troubles  == <<bad, skipped, stopped>>
printed   == <<script, exported, dumped>>
running   == <<line, failed, misled, outset>>
cardVars  == <<kind, body, denied, linked>>
shellVars == <<cardVars, sel, conserve_write, job, at, asJson, single, walking, troubles, printed, running, last, typed>>

Nothing   == [f \in {} |-> 0]
With(f, x, v) == [y \in DOMAIN f \cup {x} |-> IF y = x THEN v ELSE f[y]]
NoCommand == [op |-> "none", status |-> "none"]
Denied(f, what) == what \in denied[f]
Reaches(f)      == linked /\ ~Denied(f, "select")

ShellInit ==
  /\ \E c \in Cards : kind = c.kind /\ body = c.body
  /\ denied \in Denials /\ linked = TRUE /\ sel = Top /\ conserve_write \in BOOLEAN
  /\ job = "idle" /\ at = "idle" /\ asJson = FALSE /\ single = FALSE
  /\ home = Top /\ frames = <<>> /\ visit = Top /\ bad = {} /\ skipped = {} /\ stopped = FALSE
  /\ script = <<>> /\ exported = Nothing /\ dumped = Nothing
  /\ line = 0 /\ failed = FALSE /\ misled = FALSE /\ outset = Nothing
  /\ last = NoCommand /\ typed = 0
-----------------------------------------------------------------------------
(* Decoding and encoding: which of the methods of a class is called, and   *)
(* what becomes of the padding.                                            *)

\* a TLV decoder leaves the padding behind its last object
LastByte(s)  == CHOOSE n \in 0..Len(s) : /\ \A i \in (n + 1)..Len(s) : s[i] = Pad
                                         /\ n > 0 => s[n] # Pad
Trimmed(s)   == SubSeq(s, 1, LastByte(s))
Padded(s, n) == s \o [i \in 1..(n - Len(s)) |-> Pad]
LeftPadded(s, n) == [i \in 1..(n - Len(s)) |-> Pad] \o s

\* TransRecEF: the records of a transparent file, the last of which may be short
Split(s) == [i \in 1..((Len(s) + RecLen - 1) \div RecLen) |->
               SubSeq(s, (i - 1) * RecLen + 1, IF i * RecLen < Len(s) THEN i * RecLen ELSE Len(s))]
Joined(rs) == [i \in 1..(Len(rs) * RecLen) |-> rs[((i - 1) \div RecLen) + 1][((i - 1) % RecLen) + 1]]

Decode(codec, s) == CASE codec = "tlv" -> <<Trimmed(s)>> [] codec = "records" -> Split(s) [] OTHER -> <<s>>

\* no encoder, (TransRecEF) a record too short to have been decoded, or a list of
\* records given to another encoder
Unencodable(codec, d) == \/ codec \in {"none", "bad"}
                         \/ codec = "records" /\ \E i \in DOMAIN d : Len(d[i]) # RecLen
                         \/ codec # "records" /\ Len(d) # 1

\* a construct fills the length it is given, a TLV encoder does not, and
\* TransRecEF joins the records it has
Encode(codec, d, size) == CASE codec = "records" -> Joined(d) [] codec = "plain" -> Padded(d[1], size) [] OTHER -> d[1]
-----------------------------------------------------------------------------
(* What reading a file comes to.  "sw": the card refuses (SwMatchError).   *)

Mismatched(f) == kind[f].class # kind[f].structure
Undecodable(f) == asJson /\ kind[f].codec = "bad"
HasWideTag(f) == \E t \in DOMAIN body[f] : t \in WideTags

\* Without a number of records LinFixedEF.export reads until it is refused;
\* its first success raises `e`, which is unbound, and a first refusal other
\* than 9402 is passed over until no record number is left.
ExportOutcome(f) ==
  CASE ~linked \/ Mismatched(f) -> "raise"
    [] kind[f].structure = "ber_tlv" /\ asJson -> "raise"
    [] Denied(f, "read") -> "sw"
    [] kind[f].structure = "linear_fixed" /\ ~kind[f].counted -> "raise"
    [] kind[f].structure = "ber_tlv" /\ HasWideTag(f) -> "raise"
    [] Undecodable(f) -> "raise"
    [] OTHER -> "ok"

\* fsdump reads on to the first record refused, which must be with 9402
DumpOutcome(f) ==
  CASE ~linked \/ Mismatched(f) -> "raise"
    [] Denied(f, "read") -> "sw"
    [] kind[f].structure = "linear_fixed" /\ ~kind[f].counted /\ ~kind[f].ends9402 -> "sw"
    [] kind[f].structure = "ber_tlv" /\ HasWideTag(f) -> "raise"
    [] Undecodable(f) -> "raise"
    [] OTHER -> "ok"

\* fsdump_custom: a value that cannot be decoded is told beside the raw one,
\* and any other exception makes an entry
CustomOutcome(f) ==
  IF \/ DumpOutcome(f) = "ok"
     \/ Undecodable(f) /\ linked /\ ~Mismatched(f) /\ ~Denied(f, "read") /\ (kind[f].counted \/ kind[f].ends9402)
  THEN "ok" ELSE "sw"
Outcome(f) == IF job = "custom" THEN CustomOutcome(f) ELSE DumpOutcome(f)

\* a line of the script; decoded data is a sequence of parts
Cmd(name, f, n, data)       == [cmd |-> name, from |-> f, n |-> n, data |-> data, parts |-> <<>>]
Decoded_(name, f, n, parts) == [Cmd(name, f, n, <<>>) EXCEPT !.parts = parts]
Select_(f) == Cmd("select", f, 0, <<>>)
Update_(raw, decoded, f, n, s) == IF asJson THEN Decoded_(decoded, f, n, Decode(kind[f].codec, s)) ELSE Cmd(raw, f, n, s)
UpdateBinary(f, s)    == Update_("update_binary", "update_binary_decoded", f, 0, s)
UpdateRecord(f, r, s) == Update_("update_record", "update_record_decoded", f, r, s)

TagList(f) == SetToSeq(DOMAIN body[f])
SetLines(f) == [i \in DOMAIN TagList(f) |-> Cmd("set_data", f, TagList(f)[i], body[f][TagList(f)[i]])]

TlvLines(f) == IF body[f] = Nothing THEN <<>> ELSE <<Cmd("delete_all", f, 0, <<>>)>> \o SetLines(f)

\* TransparentEF.export, LinFixedEF.export, BerTlvEF.export
Lines(f) ==
  CASE kind[f].structure = "transparent"  -> <<UpdateBinary(f, body[f])>>
    [] kind[f].structure = "linear_fixed" -> [r \in DOMAIN body[f] |-> UpdateRecord(f, r, body[f][r])]
    [] OTHER -> TlvLines(f)
-----------------------------------------------------------------------------
(* __walk and __walk_action, with __export_file and __dump_file.           *)

Here == frames[1].dir

EndJob(status) == /\ job' = "idle" /\ at' = "idle" /\ last' = [op |-> job, status |-> status] /\ frames' = <<>>
\* do_export raises for a bad file or a skipped directory; do_fsdump never does
Status    == IF job = "export" /\ (bad # {} \/ skipped # {}) THEN "error" ELSE "ok"
StopEarly == stopped' = TRUE /\ EndJob(IF single THEN "error" ELSE Status)
Onward(a) == at' = a /\ UNCHANGED <<job, last, frames, stopped>>

StartWalk(j) ==
  /\ job = "idle" /\ sel \in Dirs /\ linked
  /\ job' = j /\ at' = "select" /\ asJson' \in BOOLEAN /\ home' = sel
  /\ \/ single' = FALSE /\ frames' = <<[dir |-> sel, todo |-> Tree[sel]]>> /\ visit' = sel
     \/ single' = TRUE /\ frames' = <<[dir |-> sel, todo |-> <<>>]>>
        /\ \E i \in DOMAIN Tree[sel] : visit' = Tree[sel][i]
  /\ bad' = {} /\ skipped' = {} /\ stopped' = FALSE
  /\ script' = <<>> /\ exported' = Nothing /\ dumped' = Nothing /\ last' = NoCommand
  /\ line' = 0 /\ failed' = FALSE /\ misled' = FALSE /\ outset' = Nothing
  /\ UNCHANGED <<cardVars, sel, conserve_write, typed>>

DoExport == StartWalk("export")
DoFsdump == StartWalk("dump")
DoFsdumpCustom == StartWalk("custom")

Entry(error, content) == With(dumped, visit, [error |-> error, content |-> content])

\* only a refusal makes an entry of the dump; any other exception ends it
VisitSelect ==
  /\ at = "select"
  /\ IF Reaches(visit)
     THEN /\ sel' = visit /\ Onward(IF job # "export" /\ visit \in Blank THEN "back" ELSE "read")
          /\ UNCHANGED <<bad, dumped>>
     ELSE /\ UNCHANGED sel
          /\ CASE job = "export" -> bad' = bad \cup {visit} /\ Onward("back") /\ UNCHANGED dumped
               [] job = "custom" \/ (job = "dump" /\ linked) -> dumped' = Entry(TRUE, <<>>) /\ Onward("back") /\ UNCHANGED bad
               [] OTHER -> StopEarly /\ UNCHANGED <<bad, dumped>>
  /\ UNCHANGED <<cardVars, conserve_write, asJson, single, home, visit, skipped, script, exported, running, typed>>

\* Mutant: only the contents are printed.
ExportRead_NoSelect ==
  /\ at = "read" /\ job = "export"
  /\ CASE visit \in Dirs -> script' = Append(script, Select_(visit)) /\ UNCHANGED <<exported, bad>>
       [] visit \in EFs /\ ExportOutcome(visit) = "ok" ->
            /\ script' = script \o Lines(visit)
            /\ exported' = With(exported, visit, body[visit]) /\ UNCHANGED bad
       [] OTHER -> script' = Append(script, Select_(visit)) /\ bad' = bad \cup {visit} /\ UNCHANGED exported
  /\ Onward("back")
  /\ UNCHANGED <<cardVars, sel, conserve_write, asJson, single, home, visit, skipped, dumped, running, typed>>

\* the select line is printed before the contents are read
ExportRead ==
  /\ at = "read" /\ job = "export"
  /\ CASE visit \in Dirs -> script' = Append(script, Select_(visit)) /\ UNCHANGED <<exported, bad>>
       [] visit \in EFs /\ ExportOutcome(visit) = "ok" ->
            /\ script' = Append(script, Select_(visit)) \o Lines(visit)
            /\ exported' = With(exported, visit, body[visit]) /\ UNCHANGED bad
       [] OTHER -> script' = Append(script, Select_(visit)) /\ bad' = bad \cup {visit} /\ UNCHANGED exported
  /\ Onward("back")
  /\ UNCHANGED <<cardVars, sel, conserve_write, asJson, single, home, visit, skipped, dumped, running, typed>>

DumpRead ==
  /\ at = "read" /\ job \in {"dump", "custom"}
  /\ CASE visit \in Dirs -> dumped' = Entry(FALSE, <<>>) /\ Onward("back")
       [] visit \in EFs /\ Outcome(visit) = "ok" -> dumped' = Entry(FALSE, body[visit]) /\ Onward("back")
       [] visit \in EFs /\ Outcome(visit) = "sw" -> dumped' = Entry(TRUE, <<>>) /\ Onward("back")
       [] OTHER -> StopEarly /\ UNCHANGED dumped
  /\ UNCHANGED <<cardVars, sel, conserve_write, asJson, single, home, visit, bad, skipped, script, exported, running, typed>>

\* Mutant: the file stays selected.
VisitBack_Stays ==
  /\ at = "back" /\ Onward("next")
  /\ UNCHANGED <<cardVars, sel, conserve_write, asJson, single, home, visit, bad, skipped, printed, running, typed>>

\* the file selected before the visit is selected again
VisitBack ==
  /\ at = "back"
  /\ IF sel = Here \/ linked THEN sel' = Here /\ Onward("next") ELSE StopEarly /\ UNCHANGED sel
  /\ UNCHANGED <<cardVars, conserve_write, asJson, single, home, visit, bad, skipped, printed, running, typed>>

\* a directory that cannot be selected is skipped, with all that is below it
NextName ==
  LET f == Head(frames[1].todo) IN
  /\ at = "next" /\ frames[1].todo # <<>>
  /\ IF f \in Dirs /\ ~Reaches(f)
     THEN skipped' = skipped \cup {f} /\ frames' = [frames EXCEPT ![1].todo = Tail(@)] /\ UNCHANGED <<at, visit, sel>>
     ELSE /\ at' = "select" /\ visit' = f /\ UNCHANGED skipped
          /\ IF f \in Dirs
             THEN sel' = f /\ frames' = <<[dir |-> f, todo |-> Tree[f]], [frames[1] EXCEPT !.todo = Tail(@)]>> \o Tail(frames)
             ELSE frames' = [frames EXCEPT ![1].todo = Tail(@)] /\ UNCHANGED sel
  /\ UNCHANGED <<cardVars, conserve_write, job, asJson, single, home, bad, stopped, printed, running, last, typed>>

\* __walk returns; its caller selects the parent directory
DirDone ==
  /\ at = "next" /\ frames[1].todo = <<>> /\ Len(frames) > 1
  /\ IF linked THEN /\ sel' = frames[2].dir /\ frames' = Tail(frames) /\ UNCHANGED <<at, job, last, stopped>>
               ELSE StopEarly /\ UNCHANGED sel
  /\ UNCHANGED <<cardVars, conserve_write, asJson, single, home, visit, bad, skipped, printed, running, typed>>

WalkDone ==
  /\ at = "next" /\ frames[1].todo = <<>> /\ Len(frames) = 1
  /\ EndJob(Status)
  /\ UNCHANGED <<cardVars, sel, conserve_write, asJson, single, home, visit, troubles, printed, running, typed>>
-----------------------------------------------------------------------------
(* The commands that write, on the file f.                                 *)

TransparentCommands == {"update_binary", "update_binary_decoded"}
LinFixedCommands    == {"update_record", "update_record_decoded"}
BerTlvCommands      == {"set_data", "delete_data", "delete_all"}
CommandsOf(class) == CASE class = "transparent"  -> TransparentCommands
                       [] class = "linear_fixed" -> LinFixedCommands
                       [] OTHER                  -> BerTlvCommands
Available(c, f) == f \in EFs /\ c.cmd \in CommandsOf(kind[f].class)

\* what is there already need not be written (conserve_write)
Granted(f, same) == linked /\ ~Mismatched(f) /\ (~Denied(f, "update") \/ (conserve_write /\ ~Denied(f, "read") /\ same))

BinaryWith(f, d) == d \o SubSeq(body[f], Len(d) + 1, Len(body[f]))
BinaryFits(f, d) == d # <<>> /\ Len(d) <= Len(body[f]) /\ Granted(f, BinaryWith(f, d) = body[f])

RecordOf(f, n, d) == IF kind[f].leftpad THEN LeftPadded(d, RecLen) ELSE Padded(d, RecLen)
RecordFits(f, n, d) == Len(d) <= RecLen /\ n \in DOMAIN body[f] /\ Granted(f, RecordOf(f, n, d) = body[f][n])

\* a value that needs more than one SET DATA: the card answers 63F1 to the
\* first, which the code takes for an error
Size_(tag, v)  == 2 + Len(v) + IF tag \in WideTags THEN 1 ELSE 0
DataFits(f, tag, v) == v # <<>> /\ Granted(f, FALSE) /\ (Size_(tag, v) <= MaxFragment \/ kind[f].lenient)
Without(f, tags) == [t \in DOMAIN body[f] \ tags |-> body[f][t]]

Coded(c, f) == Encode(kind[f].codec, c.parts, IF kind[f].class = "linear_fixed" THEN RecLen ELSE Len(body[f]))
CanCode(c, f) == ~Unencodable(kind[f].codec, c.parts)

Succeeds(c, f) ==
  /\ Available(c, f)
  /\ CASE c.cmd = "update_binary"         -> BinaryFits(f, c.data)
       [] c.cmd = "update_binary_decoded" -> CanCode(c, f) /\ BinaryFits(f, Coded(c, f))
       [] c.cmd = "update_record"         -> RecordFits(f, c.n, c.data)
       [] c.cmd = "update_record_decoded" -> CanCode(c, f) /\ RecordFits(f, c.n, Coded(c, f))
       [] c.cmd = "set_data"              -> DataFits(f, c.n, c.data)
       [] c.cmd = "delete_data"           -> Granted(f, FALSE) /\ c.n \in DOMAIN body[f]
       [] c.cmd = "delete_all"            -> Granted(f, FALSE) /\ ~Denied(f, "read") /\ ~HasWideTag(f)

Content(c, f) ==
  CASE c.cmd = "update_binary"         -> BinaryWith(f, c.data)
    [] c.cmd = "update_binary_decoded" -> BinaryWith(f, Coded(c, f))
    [] c.cmd = "update_record"         -> [body[f] EXCEPT ![c.n] = RecordOf(f, c.n, c.data)]
    [] c.cmd = "update_record_decoded" -> [body[f] EXCEPT ![c.n] = RecordOf(f, c.n, Coded(c, f))]
    [] c.cmd = "set_data"              -> With(body[f], c.n, c.data)
    [] c.cmd = "delete_data"           -> Without(f, {c.n})
    [] c.cmd = "delete_all"            -> Nothing

\* delete_all takes every byte of the tag list for a tag: it fails at one of
\* two bytes, when it has deleted those before it
Partial(c, f) ==
  IF Available(c, f) /\ c.cmd = "delete_all" /\ Granted(f, FALSE) /\ ~Denied(f, "read") /\ HasWideTag(f)
  THEN {Without(f, gone) : gone \in SUBSET (DOMAIN body[f] \ WideTags)} ELSE IF f \in EFs THEN {body[f]} ELSE {}

Perform(c, f) ==
  IF Succeeds(c, f) THEN body' = [body EXCEPT ![f] = Content(c, f)]
  ELSE IF f \in EFs THEN \E b \in Partial(c, f) : body' = [body EXCEPT ![f] = b] ELSE UNCHANGED body
-----------------------------------------------------------------------------
(* The script, run line by line; a line that fails does not end it.        *)

RunScript ==
  /\ job = "idle" /\ script # <<>> /\ last.op # "restore"
  /\ job' = "restore" /\ at' = "line" /\ line' = 1 /\ failed' = FALSE /\ misled' = FALSE
  /\ outset' = body /\ last' = NoCommand
  /\ UNCHANGED <<cardVars, sel, conserve_write, asJson, single, walking, troubles, printed, typed>>

RunLine ==
  LET l == script[line] IN
  /\ at = "line" /\ line <= Len(script) /\ line' = line + 1
  /\ IF l.cmd = "select"
     THEN /\ sel' = IF Reaches(l.from) THEN l.from ELSE sel
          /\ failed' = (failed \/ ~Reaches(l.from)) /\ misled' = (misled \/ ~Reaches(l.from))
          /\ UNCHANGED body
     ELSE /\ Perform(l, sel) /\ failed' = (failed \/ ~Succeeds(l, sel)) /\ UNCHANGED <<sel, misled>>
  /\ UNCHANGED <<kind, denied, linked, conserve_write, job, at, asJson, single, walking, troubles, printed, outset, last, typed>>

ScriptDone ==
  /\ at = "line" /\ line > Len(script)
  /\ job' = "idle" /\ at' = "idle" /\ last' = [op |-> "restore", status |-> IF failed THEN "error" ELSE "ok"]
  /\ UNCHANGED <<cardVars, sel, conserve_write, asJson, single, walking, troubles, printed, running, typed>>
-----------------------------------------------------------------------------
(* The user, the card and its reader.                                      *)

\* select goes back to the file that was selected when it is refused.  Decoded
\* data is typed for a file (c.from), other commands for any.
Type(c) ==
  /\ job = "idle" /\ typed < MaxTyped /\ typed' = typed + 1 /\ linked
  /\ IF c.cmd = "select"
     THEN sel' = (IF Reaches(c.from) THEN c.from ELSE sel) /\ last' = NoCommand /\ UNCHANGED body
     ELSE /\ sel \in EFs /\ c.from \in {sel, Top} /\ Perform(c, sel) /\ UNCHANGED sel
          /\ last' = [op |-> "typed", status |-> IF Succeeds(c, sel) THEN "ok" ELSE "error", cmd |-> c, file |-> sel]
  /\ UNCHANGED <<kind, denied, linked, conserve_write, job, at, asJson, single, walking, troubles, printed, running>>

\* a key is verified, or the card is reset
AccessChanges ==
  /\ job = "idle" /\ denied' \in Denials \ {denied} /\ typed < MaxTyped /\ typed' = typed + 1
  /\ UNCHANGED <<kind, body, linked, sel, conserve_write, job, at, asJson, single, walking, troubles, printed, running, last>>
Pull ==
  /\ job # "idle" /\ linked /\ linked' = FALSE
  /\ UNCHANGED <<kind, body, denied, sel, conserve_write, job, at, asJson, single, walking, troubles, printed, running, last, typed>>
Equip ==
  /\ job = "idle" /\ ~linked /\ linked' = TRUE /\ sel' = Top /\ last' = NoCommand
  /\ UNCHANGED <<kind, body, denied, conserve_write, job, at, asJson, single, walking, troubles, printed, running, typed>>

Working   == VisitSelect \/ ExportRead \/ DumpRead \/ VisitBack \/ NextName \/ DirDone \/ WalkDone \/ RunLine \/ ScriptDone
ShellNext == \/ DoExport \/ DoFsdump \/ DoFsdumpCustom \/ RunScript \/ Working \/ AccessChanges \/ Pull \/ Equip
             \/ \E c \in Commands : Type(c)
ShellSpec == ShellInit /\ [][ShellNext]_shellVars
-----------------------------------------------------------------------------
(* Properties.                                                             *)

\* An export that ended without an error and was not stopped printed every
\* file of the card (pySim-shell.py:677-714).
ExportIsComplete ==
  last.op = "export" /\ last.status = "ok" /\ ~stopped /\ ~single /\ home = Top => DOMAIN exported = EFs

\* A script that ran without an error left every exported file as it was when
\* it was exported, whatever was written in between; a decoded file at least as
\* far as its decoder understood it.  The script says nothing of a BER-TLV file
\* that was empty (filesystem.py:830-846, 1146-1191, 1460-1484).
SameTo(codec, was, is) == IF asJson /\ codec = "tlv" THEN IsPrefix(Trimmed(was), is) ELSE was = is
RestoreGivesBack ==
  last.op = "restore" /\ last.status = "ok" =>
    \A f \in DOMAIN exported :
      CASE kind[f].structure = "transparent"  -> SameTo(kind[f].codec, exported[f], body[f])
        [] kind[f].structure = "linear_fixed" -> \A r \in DOMAIN exported[f] : SameTo(kind[f].codec, exported[f][r], body[f][r])
        [] OTHER -> exported[f] # Nothing => body[f] = exported[f]

\* As long as no SELECT of it failed, a script writes to no file but those it
\* was exported from (pySim-shell.py:639-668).
RestoreStaysHome ==
  (job = "restore" \/ last.op = "restore") /\ ~misled =>
    \A f \in EFs \ DOMAIN exported : body[f] = outset[f]

\* What a decoded update reported as written is what decoding gives back, up to
\* what the file holds behind it (filesystem.py:652-662, 954-965, 1365-1373).
DecodedReadsBack ==
  last.op = "typed" /\ last.status = "ok" =>
    LET f == last.file  c == last.cmd IN
    CASE c.cmd = "update_binary_decoded" -> IF kind[f].codec = "records" THEN IsPrefix(c.parts, Split(body[f]))
                                            ELSE IsPrefix(c.parts[1], body[f])
      [] c.cmd = "update_record_decoded" /\ ~kind[f].leftpad -> Trimmed(body[f][c.n]) = Trimmed(c.parts[1])
      [] OTHER -> TRUE

\* A dump that was not stopped has every file that is not below a directory it
\* could not enter, with what the card holds or the error of a refusal
\* (pySim-shell.py:591-633, 716-870).
DumpCoversTheCard ==
  last.op \in {"dump", "custom"} /\ ~stopped /\ ~single /\ home = Top =>
    \A f \in EFs : (\A d \in skipped : f \notin Below[d]) =>
      f \in DOMAIN dumped /\ (~dumped[f].error => dumped[f].content = body[f])

\* A walk that was not stopped ends in the directory it began in
\* (pySim-shell.py:578-633).
WalkComesHome == job = "idle" /\ last.op \in {"export", "dump", "custom"} /\ ~stopped => sel = home

\* What the shell wrote, typed or from a script it exported, can be read back.
WrittenIsThere == DecodedReadsBack /\ RestoreGivesBack /\ RestoreStaysHome

\* Export and fsdump leave nothing out and come back to where they began.
WalkIsWhole == ExportIsComplete /\ DumpCoversTheCard /\ WalkComesHome
=============================================================================
