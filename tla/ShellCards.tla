----------------------------- MODULE ShellCards -----------------------------
(***************************************************************************)
(* pySim-shell and the cards put into its reader: equip and reset, the     *)
(* commands that present a PIN or an ADM key, typed or looked up by the    *)
(* ICCID, and bulk_script, which runs a script on one card after another.  *)
(* Cards are exchanged by hand or by a machine.  The ADM keys come from    *)
(* the registered providers of card-individual keys (card_key_provider.py),*)
(* CSV files and databases.                                                *)
(***************************************************************************)
EXTENDS Integers, Sequences, FiniteSets

CONSTANTS
  Providers,    \* card_key_providers, in the order of their registration
  Groups,       \* __CRYPT_GROUPS: group |-> columns
  Stock,        \* the cards
  CardTypes,    \* what a card may be: [iccid, uicc, profile, code]
  MaxLeft,      \* the tries a code has
  Typed,        \* what a user may type for a code; Ask: nothing
  Scripts,      \* the scripts: sequences of "verify_adm", "write", "typo"
  Queries,      \* the fields query_card_key may be asked for
  MaxCommands,  \* bound on the commands typed
  MaxFails      \* bound on the failures of a bulk run

Ask  == "ask"
Nothing == "none"

\* a CSV file is one table; the rows of a table have an order
ASSUME ProvidersShape ==
  /\ DOMAIN Providers \subseteq Nat
  /\ \A i \in DOMAIN Providers :
       /\ DOMAIN Providers[i].tables \subseteq Nat
       /\ Providers[i].type = "csv" => 1 \in DOMAIN Providers[i].tables
       /\ \A j \in DOMAIN Providers[i].tables :
            Len(Providers[i].tables[j].rows) \in Nat
            /\ DOMAIN Providers[i].tables[j].rows = 1..Len(Providers[i].tables[j].rows)

ASSUME DeskAssumption ==
  /\ Nothing \notin Stock /\ MaxCommands \in Nat
  /\ Scripts \subseteq Seq({"verify_adm", "write", "typo"})
-----------------------------------------------------------------------------
(* Card-individual keys.  A provider is [type, tables, sealed, given]: its *)
(* tables are [cols, rows], a row a function from columns to values; the   *)
(* columns in `sealed` are stored encrypted, and `given` names the         *)
(* transport keys it was given.                                            *)

NoAnswer  == [status |-> "none"]
Refusal   == [status |-> "raise"]

\* __process_transport_keys: a key given for a group is the key of its columns
TransportKeys(p) == UNION {IF n \in DOMAIN Groups THEN Groups[n] ELSE {n} : n \in p.given}

\* what the user has to see to: just the encrypted columns have a transport key
KeysAreGiven ==
  \A i \in DOMAIN Providers : \A j \in DOMAIN Providers[i].tables :
    \A f \in Providers[i].tables[j].cols : f \in Providers[i].sealed <=> f \in TransportKeys(Providers[i])

\* decrypt_field: encrypted with a key or none, decrypted with the key or not;
\* what is decrypted once too often is as bad as what is not decrypted
DecryptField(p, f, v) == [value |-> v, plain |-> (f \in p.sealed) = (f \in TransportKeys(p))]

Given(p, fields, row) == [status |-> "found", fields |-> [f \in fields |-> DecryptField(p, f, row[f])]]
Matching(t, key, value) == {i \in DOMAIN t.rows : t.rows[i][key] = value}
Last(s)                 == CHOOSE n \in s : \A m \in s : m <= n

\* CardKeyProviderCsv.get: the last of the rows that match
CsvGet(p, fields, key, value) ==
  LET t == p.tables[1]  m == Matching(t, key, value) IN
  IF key \notin t.cols \/ m = {} THEN {NoAnswer}
  ELSE IF ~(fields \subseteq t.cols) THEN {Refusal}
  ELSE {Given(p, fields, t.rows[Last(m)])}

\* CardKeyProviderPgsql.get: tables without the key's column are passed over; a
\* missing column makes the query fail; any one of the rows of the first table
\* that has some
PgsqlGet(p, fields, key, value) ==
  LET keyed == {i \in DOMAIN p.tables : key \in p.tables[i].cols}
      hit   == {i \in keyed : ~(fields \subseteq p.tables[i].cols) \/ Matching(p.tables[i], key, value) # {}} IN
  IF hit = {} THEN {NoAnswer}
  ELSE LET t == p.tables[CHOOSE i \in hit : \A j \in hit : i <= j] IN
       IF ~(fields \subseteq t.cols) THEN {Refusal} ELSE {Given(p, fields, t.rows[i]) : i \in Matching(t, key, value)}

Get(p, fields, key, value) == IF p.type = "csv" THEN CsvGet(p, fields, key, value) ELSE PgsqlGet(p, fields, key, value)

\* card_key_provider_get: the first provider that answers; ValueError if none does
CardKeyProviderGet(fields, key, value) ==
  LET answering == {i \in DOMAIN Providers : Get(Providers[i], fields, key, value) # {NoAnswer}} IN
  IF answering = {} THEN {Refusal} ELSE Get(Providers[CHOOSE i \in answering : \A j \in answering : i <= j], fields, key, value)

\* card_key_provider_get_field
CardKeyProviderGetField(field, key, value) ==
  {IF a.status = "found" THEN [status |-> "found", value |-> a.fields[field].value, plain |-> a.fields[field].plain]
   ELSE a : a \in CardKeyProviderGet({field}, key, value)}
-----------------------------------------------------------------------------
VARIABLES
  type,    \* the cards' types (external)
  code, left, on, \* CHVs: code, tries left; PIN1 is enabled (external)
  opened,  \* opened[c]: the CHVs verified (external)
  tray,    \* the card in the reader (external)
  powered, \* the reader's link to it stands (external)
  rs,      \* there is a runtime state
  equipped,\* the commands for cards are registered
  object,  \* self.card: Nothing, a "sim" (SimCardBase) or a "uicc"
  iccid,   \* rs.identity['ICCID']
  adm_verified,
  owner,   \* history: the card equip last succeeded on
  earned,  \* history: an ADM key was verified since the last reset
  shown,   \* history: the codes the last command looked up and presented
  asked,   \* history: the last answer of query_card_key
  commands,\* how many commands were typed
  stage,   \* where bulk_script is
  bulk,    \* its arguments: [tries, halt, script]
  try, first, rc, lineno, logged,
  success_count, fail_count,
  good, bad, \* the done and the error bin (external)
  did      \* history: the lines of the script that succeeded on a card

chips    == <<type, code, left, on>>
shell    == <<rs, equipped, object, iccid, adm_verified, owner, earned>>
records  == <<shown, asked>>
loop     == <<stage, bulk, try, first, rc, lineno, logged, success_count, fail_count, good, bad, did>>
deskVars == <<chips, opened, tray, powered, shell, records, commands, loop>>

CHVs    == {"ADM1", "PIN1", "PUK1"}
NoBulk  == [tries |-> 1, halt |-> FALSE, script |-> <<>>]

DeskInit ==
  /\ type \in [Stock -> CardTypes]
  /\ code = [c \in Stock |-> type[c].code] /\ left = [c \in Stock |-> [v \in CHVs |-> MaxLeft]] /\ on = [c \in Stock |-> TRUE]
  /\ opened = [c \in Stock |-> {}] /\ tray = Nothing /\ powered = FALSE
  /\ rs = FALSE /\ equipped = FALSE /\ object = Nothing /\ iccid = Nothing /\ adm_verified = FALSE /\ owner = Nothing /\ earned = FALSE
  /\ shown = {} /\ asked = NoAnswer /\ commands = 0
  /\ stage = "idle" /\ bulk = NoBulk /\ try = 1 /\ first = TRUE /\ rc = 0 /\ lineno = 1 /\ logged = FALSE
  /\ success_count = 0 /\ fail_count = 0 /\ good = {} /\ bad = {} /\ did = [c \in Stock |-> {}]
-----------------------------------------------------------------------------
(* What the card makes of a code.                                          *)

Right(chv, x)   == left[tray][chv] > 0 /\ code[tray][chv] = x
LeftAfter(chv, x) == [left[tray] EXCEPT ![chv] = IF @ = 0 THEN 0 ELSE IF code[tray][chv] = x THEN MaxLeft ELSE @ - 1]
\* a wrong code takes back what the right one had opened
OpenAfter(chv, x) == IF Right(chv, x) THEN opened[tray] \cup {chv} ELSE opened[tray] \ {chv}
-----------------------------------------------------------------------------
(* equip                                                                   *)

\* Mutant: an ICCID that cannot be read leaves the one before.
Identity_Kept(c) == IF type[c].iccid = Nothing THEN iccid ELSE type[c].iccid

Identity(c) == type[c].iccid
ClassOf(c)  == IF type[c].uicc THEN "uicc" ELSE "sim"

\* init_card raises: everything stays as it was, but the card was reset.
InitFails == UNCHANGED <<rs, equipped, object, iccid, adm_verified>> /\ owner' = Nothing

\* no profile: there is no runtime state
Unsupported == rs' = FALSE /\ object' = ClassOf(tray) /\ equipped' = FALSE /\ iccid' = Nothing /\ adm_verified' = FALSE /\ owner' = Nothing
\* rs.reset raises within equip, after the commands were unregistered
ResetFails == rs' = TRUE /\ object' = ClassOf(tray) /\ equipped' = FALSE /\ iccid' = Nothing /\ adm_verified' = FALSE /\ owner' = Nothing
\* the last SELECT of equip may raise as well
EquipOk == rs' = TRUE /\ object' = ClassOf(tray) /\ equipped' = TRUE /\ iccid' = Identity(tray) /\ adm_verified' = FALSE /\ owner' = tray

EquipCard(ok) ==
  /\ powered' = TRUE /\ opened' = [opened EXCEPT ![tray] = {}] /\ earned' = FALSE
  /\ IF ok THEN type[tray].profile /\ EquipOk ELSE IF type[tray].profile THEN InitFails \/ ResetFails \/ EquipOk ELSE InitFails \/ Unsupported
-----------------------------------------------------------------------------
(* Commands.                                                               *)

\* get_code, and the same in do_verify_adm: an exception is Refusal
Code(typed, field) ==
  IF typed # Ask THEN {[status |-> "found", value |-> typed]}
  ELSE {IF a.status = "found" /\ a.plain THEN [status |-> "found", value |-> a.value] ELSE Refusal :
          a \in CardKeyProviderGetField(field, "ICCID", iccid)}

Looked(typed, x) == IF typed = Ask THEN {[key |-> x, card |-> tray, owner |-> owner, in |-> stage]} ELSE {}

\* A command that presents the code a for chv: it runs as `Then` if the card
\* takes the code, and raises an exception otherwise.
Presented(chv, a, looked, Then) ==
  IF a.status = "found" /\ powered
  THEN /\ left' = [left EXCEPT ![tray] = LeftAfter(chv, a.value)] /\ shown' = looked
       /\ IF Right(chv, a.value) THEN Then /\ opened' = [opened EXCEPT ![tray] = OpenAfter(chv, a.value)]
          ELSE /\ opened' = [opened EXCEPT ![tray] = OpenAfter(chv, a.value)] /\ UNCHANGED <<code, on, adm_verified, earned>>
  ELSE UNCHANGED <<code, left, on, opened, adm_verified, earned, shown>>

\* SimCardBase has no _adm_chv_num
AdmOf(typed) == IF object = "uicc" THEN Code(typed, "ADM1") ELSE {Refusal}
Verified     == adm_verified' = TRUE /\ earned' = TRUE /\ UNCHANGED <<code, on>>
VerifyAdm(typed, a)   == Presented("ADM1", a, Looked(typed, a.value), Verified)
Kept         == UNCHANGED <<adm_verified, earned>>
VerifyChv(typed, a)   == Presented("PIN1", a, Looked(typed, a.value), Kept /\ UNCHANGED <<code, on>>)
DisableChv(typed, a)  == Presented("PIN1", a, Looked(typed, a.value), Kept /\ on' = [on EXCEPT ![tray] = FALSE] /\ UNCHANGED code)
EnableChv(typed, a)   == Presented("PIN1", a, Looked(typed, a.value), Kept /\ on' = [on EXCEPT ![tray] = TRUE] /\ UNCHANGED code)
ChangeChv(typed, fresh, a, new) ==
  Presented("PIN1", a, Looked(typed, a.value) \cup Looked(fresh, new.value), Kept /\ code' = [code EXCEPT ![tray].PIN1 = new.value] /\ UNCHANGED on)

\* the card gives PIN1 its tries back
UnblockChv(typed, fresh, puk, new) ==
  IF puk.status = "found" /\ powered
  THEN LET ok == Right("PUK1", puk.value)  l == LeftAfter("PUK1", puk.value) IN
       /\ left' = [left EXCEPT ![tray] = IF ok THEN [l EXCEPT !.PIN1 = MaxLeft] ELSE l]
       /\ code' = IF ok THEN [code EXCEPT ![tray].PIN1 = new.value] ELSE code
       /\ shown' = Looked(typed, puk.value) \cup Looked(fresh, new.value) /\ Kept /\ UNCHANGED <<on, opened>>
  ELSE UNCHANGED <<code, left, on, opened, adm_verified, earned, shown>>

Command == stage = "idle" /\ commands < MaxCommands /\ commands' = commands + 1
Settled == UNCHANGED <<type, tray, powered, rs, equipped, object, iccid, owner, asked, loop>>

DoVerifyAdm(typed) == Command /\ equipped /\ (\E a \in AdmOf(typed) : VerifyAdm(typed, a)) /\ Settled
DoVerifyChv(typed) == Command /\ equipped /\ (\E a \in Code(typed, "PIN1") : VerifyChv(typed, a)) /\ Settled
DoDisableChv(typed) == Command /\ equipped /\ (\E a \in Code(typed, "PIN1") : DisableChv(typed, a)) /\ Settled
DoEnableChv(typed) == Command /\ equipped /\ (\E a \in Code(typed, "PIN1") : EnableChv(typed, a)) /\ Settled
DoChangeChv(new, typed) ==
  /\ Command /\ equipped /\ Settled
  /\ \E n \in Code(new, "PIN1"), a \in Code(typed, "PIN1") : ChangeChv(typed, new, IF n.status = "found" THEN a ELSE n, n)
DoUnblockChv(typed, new) ==
  /\ Command /\ equipped /\ Settled
  /\ \E n \in Code(new, "PIN1"), a \in Code(typed, "PUK1") : UnblockChv(typed, new, IF n.status = "found" THEN a ELSE n, n)

DoQuery(fields, key) ==
  /\ Command /\ \E a \in CardKeyProviderGet(fields, "ICCID", key) : asked' = a
  /\ UNCHANGED <<chips, opened, tray, powered, shell, shown, loop>>

\* do_reset: the identity of the card before stays
ResetCard ==
  /\ Command /\ object # Nothing /\ tray # Nothing /\ powered' = TRUE /\ opened' = [opened EXCEPT ![tray] = {}]
  /\ adm_verified' = FALSE /\ earned' = FALSE
  /\ UNCHANGED <<chips, tray, rs, equipped, object, iccid, owner, records, loop>>

DoEquip ==
  /\ Command /\ tray # Nothing /\ \E ok \in BOOLEAN : EquipCard(ok)
  /\ UNCHANGED <<chips, tray, records, loop>>

\* another card, or the same again: the link has to be made anew
Insert(c) ==
  /\ stage = "idle" /\ c \notin good \cup bad /\ commands < MaxCommands
  /\ tray' = c /\ powered' = FALSE /\ opened' = [opened EXCEPT ![c] = {}]
  /\ UNCHANGED <<chips, shell, records, commands, loop>>
-----------------------------------------------------------------------------
(* do_bulk_script and _process_card.                                       *)

DoBulkScript ==
  /\ stage = "idle" /\ commands < MaxCommands /\ commands' = MaxCommands
  /\ \E tries \in 1..2, halt \in BOOLEAN, s \in Scripts : bulk' = [tries |-> tries, halt |-> halt, script |-> s]
  /\ stage' = "get" /\ first' = TRUE /\ try' = 1 /\ success_count' = 0 /\ fail_count' = 0
  /\ UNCHANGED <<chips, opened, tray, powered, shell, records, rc, lineno, logged, good, bad, did>>

\* the first card may be in the reader already; later ones, and those of a
\* second try, have to be inserted: this may be another one
GetCard(c) ==
  /\ stage = "get" /\ c \notin good \cup bad /\ (first /\ tray # Nothing => c = tray)
  /\ tray' = c /\ powered' = FALSE /\ opened' = [opened EXCEPT ![c] = {}] /\ stage' = "process"
  /\ did' = [did EXCEPT ![c] = {}]
  /\ UNCHANGED <<chips, shell, records, commands, bulk, try, first, rc, lineno, logged, success_count, fail_count, good, bad>>

\* CTRL-C, or the machine has no more cards
GetStops ==
  /\ stage = "get" /\ stage' = "idle"
  /\ UNCHANGED <<chips, opened, tray, powered, shell, records, commands, bulk, try, first, rc, lineno, logged, success_count, fail_count, good, bad, did>>

\* any other exception: the next card
GetFails ==
  /\ stage = "get" /\ fail_count < MaxFails /\ fail_count' = fail_count + 1 /\ first' = FALSE /\ try' = 1
  /\ UNCHANGED <<chips, opened, tray, powered, shell, records, commands, stage, bulk, rc, lineno, logged, success_count, good, bad, did>>

Process ==
  /\ stage = "process"
  /\ \E ok \in BOOLEAN :
       EquipCard(ok) /\ IF ok THEN stage' = "script" /\ rc' = 0 ELSE stage' = "judge" /\ rc' = -1
  /\ lineno' = 1 /\ logged' = FALSE
  /\ UNCHANGED <<chips, tray, records, commands, bulk, try, first, success_count, fail_count, good, bad, did>>

Line(n) == bulk.script[n]

\* Mutant: only what the last line wrote to stderr is looked at.
Outcome_Last(fine) == /\ logged' = ~fine /\ lineno' = lineno + 1
                      /\ did' = IF fine THEN [did EXCEPT ![tray] = @ \cup {lineno}] ELSE did

\* an exception of a line is told on stderr
Outcome(fine) == /\ logged' = (logged \/ ~fine) /\ lineno' = lineno + 1
                 /\ did' = IF fine THEN [did EXCEPT ![tray] = @ \cup {lineno}] ELSE did

\* a line that raises does not end the script; one the shell does not know, or
\* whose arguments it cannot parse, raises nothing
ScriptLine ==
  /\ stage = "script" /\ lineno <= Len(bulk.script)
  /\ CASE Line(lineno) = "verify_adm" ->
            \E a \in AdmOf(Ask) : VerifyAdm(Ask, a) /\ Outcome(a.status = "found" /\ powered /\ Right("ADM1", a.value))
       [] Line(lineno) = "write" ->
            Outcome(powered /\ "ADM1" \in opened[tray]) /\ UNCHANGED <<code, left, on, opened, adm_verified, earned, shown>>
       [] OTHER -> lineno' = lineno + 1 /\ UNCHANGED <<logged, did, code, left, on, opened, adm_verified, earned, shown>>
  /\ UNCHANGED <<type, tray, powered, rs, equipped, object, iccid, owner, asked, commands, stage, bulk, try, first, rc, success_count, fail_count, good, bad>>

CardLost ==
  /\ stage = "script" /\ powered /\ powered' = FALSE
  /\ UNCHANGED <<chips, opened, tray, shell, records, commands, loop>>

ScriptEnds ==
  /\ stage = "script" /\ lineno > Len(bulk.script)
  /\ stage' = "judge" /\ rc' = IF logged THEN -1 ELSE 0
  /\ UNCHANGED <<chips, opened, tray, powered, shell, records, commands, bulk, try, first, lineno, logged, success_count, fail_count, good, bad, did>>

Judge ==
  /\ stage = "judge"
  /\ IF rc = 0 THEN success_count' = success_count + 1 /\ stage' = "bin" /\ UNCHANGED <<fail_count, try>>
     ELSE /\ fail_count' = fail_count + 1 /\ UNCHANGED success_count
          /\ IF try < bulk.tries THEN stage' = "get" /\ try' = try + 1 ELSE stage' = "bin" /\ UNCHANGED try
  /\ UNCHANGED <<chips, opened, tray, powered, shell, records, commands, bulk, first, rc, lineno, logged, good, bad, did>>

\* ch.error or ch.done, of which SystemExit ends the run
Bin ==
  /\ stage = "bin"
  /\ IF rc < 0 THEN bad' = bad \cup {tray} /\ UNCHANGED good ELSE good' = good \cup {tray} /\ UNCHANGED bad
  /\ tray' = Nothing /\ powered' = FALSE /\ first' = FALSE /\ try' = 1
  /\ stage' \in (IF bulk.halt /\ rc < 0 THEN {"idle"} ELSE {"idle", "get"})
  /\ UNCHANGED <<chips, opened, shell, records, commands, bulk, rc, lineno, logged, success_count, fail_count, did>>

BulkWork == Process \/ ScriptLine \/ ScriptEnds \/ Judge \/ Bin
DeskNext ==
  \/ \E t \in Typed : DoVerifyAdm(t) \/ DoVerifyChv(t) \/ DoDisableChv(t) \/ DoEnableChv(t)
  \/ \E t, n \in Typed : DoChangeChv(n, t) \/ DoUnblockChv(t, n)
  \/ \E q \in Queries, c \in Stock : type[c].iccid # Nothing /\ DoQuery(q, type[c].iccid)
  \/ ResetCard \/ DoEquip \/ DoBulkScript \/ GetStops \/ GetFails \/ CardLost \/ BulkWork
  \/ \E c \in Stock : Insert(c) \/ GetCard(c)

DeskSpec == DeskInit /\ [][DeskNext]_deskVars
-----------------------------------------------------------------------------
(* Properties.                                                             *)

\* A code that was looked up goes only to the card whose ICCID it was looked up
\* under: always in a bulk run, and on the card the shell was equipped with
\* (pySim-shell.py:147-198, 983-1017, 1058-1069).
KeysOf(id) == UNION {UNION {{t.rows[i][f] : f \in CHVs \cap t.cols} : i \in {j \in DOMAIN t.rows : "ICCID" \in t.cols /\ t.rows[j]["ICCID"] = id}} :
                       t \in UNION {{p.tables[j] : j \in DOMAIN p.tables} : p \in {Providers[i] : i \in DOMAIN Providers}}}
KeyGoesHome ==
  \A s \in shown : s.in = "script" \/ s.owner = s.card => s.key \in KeysOf(type[s.card].iccid)

\* A card in the done bin took every line of the script that the shell
\* understood, all of them since it was put into the reader
\* (pySim-shell.py:362-401, 432-464).
DoneIsDone == \A c \in good : \A n \in DOMAIN bulk.script : bulk.script[n] # "typo" => n \in did[c]

\* The statistics count the cards of the done bin, and every card of the error
\* bin as a failure at least once (pySim-shell.py:416-494).
CountsAgree == stage # "bin" => success_count = Cardinality(good) /\ fail_count >= Cardinality(bad)

\* The mark of a verified ADM key is there only if one was verified since the
\* card was reset, as long as the card is the one equipped
\* (pySim-shell.py:983-1017, runtime.py:137-160).
MarkIsEarned == adm_verified /\ owner = tray /\ powered => earned

\* What query_card_key finds is a value of the row asked for, in the clear: its
\* column is encrypted just if a transport key was given for it, by name or by
\* group (card_key_provider.py:44-145).
QueriedIsPlain == asked.status = "found" => \A f \in DOMAIN asked.fields : asked.fields[f].plain

\* A code from the card key provider is the right one, and goes to its card.
CodesAreTheCards == KeyGoesHome /\ MarkIsEarned /\ QueriedIsPlain

\* bulk_script's bins and statistics are what was done to the cards.
BulkIsRight == DoneIsDone /\ CountsAgree
=============================================================================
