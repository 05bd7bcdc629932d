------------------------------ MODULE SaipTool ------------------------------
(***************************************************************************)
(* Work on an eSIM profile: the commands of contrib/saip-tool.py, each of  *)
(* which reads the file, edits and writes it, and a program that opens the *)
(* file, personalises it (pySim/esim/saip/personalization.py), edits it    *)
(* with the calls of ProfileElementSequence, and writes it.                *)
(***************************************************************************)
EXTENDS SaipSequence

CONSTANTS
  UserFiles,     \* the files the user may start from
  Parameters,   \* the parameters the program applies
  Commands,     \* the saip-tool commands the user gives
  Edits,        \* the calls that edit the open sequence
  NewTypes,     \* the PEs the program constructs
  AppAid,       \* AID of the applet the user has
  InstAids,     \* AIDs of instances
  MaxCommands,  \* bound on commands
  MaxCalls      \* bound on the calls of a program between open and write

ASSUME SaipAssumption ==
  /\ MaxCommands \in Nat /\ MaxCalls \in Nat
  /\ \A p \in UserFiles : Loads(p)

VARIABLES
  upp,      \* the profile file
  ses,      \* the sequence the program holds
  open,     \* does it hold one?
  source,   \* history: the file as the program opened it
  applied,  \* history: parameters applied since, and whether without an error
  edited,   \* history: edits made since, in order
  did,      \* history: what the last to write did, unless the file is open
  verdict,  \* what check said last, of which file
  used      \* commands given, and calls made since the file was opened

vars == <<upp, ses, open, source, applied, edited, did, verdict, used>>

NoDeed == [op |-> None, arg |-> None]
NoVerdict == [said |-> None, of |-> <<>>]

Init ==
  /\ upp \in UserFiles /\ ses = NewSequence /\ open = FALSE /\ source = <<>>
  /\ applied = {} /\ edited = <<>> /\ did = NoDeed /\ verdict = NoVerdict
  /\ used = [commands |-> 0, calls |-> 0]

(***************************************************************************)
(* saip-tool: a file that cannot be decoded ends the command, and so does  *)
(* an exception before write_pes                                           *)
(***************************************************************************)
Command(c) ==
  /\ ~open /\ c \in Commands /\ used.commands < MaxCommands
  /\ used' = [used EXCEPT !.commands = @ + 1]
  /\ UNCHANGED <<ses, open, source, applied, edited>>
Written(op, arg, s) == upp' = ToDer(s) /\ did' = [op |-> op, arg |-> arg] /\ UNCHANGED verdict
NotWritten == UNCHANGED <<upp, did, verdict>>

\* do_remove_pe
RemovePe ==
  /\ Command("remove-pe")
  /\ \E t \in {upp[i].t : i \in DOMAIN upp} \cap {"rfm", "gsm-access", "pukCodes"} :
       IF Loads(upp) THEN Written("remove-pe", t, RemovePes(Load(upp), {}, {t})) ELSE NotWritten
\* do_remove_naa
RemoveNaa ==
  /\ Command("remove-naa")
  /\ \E n \in {"usim", "isim", "csim"} :
       IF Loads(upp) THEN Written("remove-naa", n, RemoveNaas(Load(upp), n)) ELSE NotWritten
\* do_add_app: with exactly one security domain
NewApp == [Pe("application") EXCEPT !.aid = AppAid]
AddApp ==
  /\ Command("add-app")
  /\ LET s == Load(upp)
         sds == PesOfType(s, "securityDomain")
     IN IF s.tree.ok /\ Len(sds) = 1 THEN Written("add-app", AppAid, InsertAfter(s, sds[1], NewApp)) ELSE NotWritten
\* do_remove_app: the first with that AID, by its identification
AppsNamed(s) == SelectSeq(PesOfType(s, "application"), LAMBDA k : s.obj[k].aid = AppAid)
RemoveApp ==
  /\ Command("remove-app")
  /\ LET s == Load(upp)
     IN IF s.tree.ok /\ AppsNamed(s) # <<>>
        THEN Written("remove-app", AppAid, RemovePes(s, {s.obj[AppsNamed(s)[1]].id} \ {0}, {}))
        ELSE NotWritten
\* do_add_app_inst
AddAppInst ==
  /\ Command("add-app-inst")
  /\ LET s == Load(upp)
     IN \E a \in InstAids :
          IF s.tree.ok /\ AppsNamed(s) # <<>> /\ Len(s.obj[AppsNamed(s)[1]].insts) < 2
          THEN Written("add-app-inst", a, [s EXCEPT !.obj[AppsNamed(s)[1]].insts = Append(@, a)])
          ELSE NotWritten
\* do_remove_app_inst: the first that matches; none to be found is an error
RemoveInst(insts, a) ==
  LET i == CHOOSE j \in DOMAIN insts : insts[j] = a /\ \A k \in 1..j - 1 : insts[k] # a
  IN [j \in 1..Len(insts) - 1 |-> IF j < i THEN insts[j] ELSE insts[j + 1]]
RemoveAppInst ==
  /\ Command("remove-app-inst")
  /\ LET s == Load(upp)
     IN \E a \in InstAids :
          IF s.tree.ok /\ AppsNamed(s) # <<>> /\ a \in Range(s.obj[AppsNamed(s)[1]].insts)
          THEN Written("remove-app-inst", a, [s EXCEPT !.obj[AppsNamed(s)[1]].insts = RemoveInst(@, a)])
          ELSE NotWritten
\* do_edit_mand_srv_list
EditMandSrv ==
  /\ Command("edit-mand-srv-list")
  /\ LET s == Load(upp)
         hdrs == PesOfType(s, "header")
     IN \E add \in SUBSET {"usim"}, remove \in SUBSET {"isim"} :
          IF s.tree.ok /\ hdrs # <<>>
          THEN Written("edit-mand-srv-list", add, [s EXCEPT !.obj[hdrs[1]].svcs = (@ \cup add) \ remove])
          ELSE NotWritten

(***************************************************************************)
(* check: the check_* of CheckBasicStructure in the order of their names;  *)
(* the first that does not hold ends it.  get_pe_for_type asserts that     *)
(* there is no second.                                                     *)
(***************************************************************************)
Unique(s, types) == \A t \in types : Count(s, t) <= 1
Identified(s) == {i \in DOMAIN s.list : HasHeader(s.obj[s.list[i]])}
IdsUnique(s)  == \A i, j \in Identified(s) : i # j => s.obj[s.list[i]].id # s.obj[s.list[j]].id
Svcs(s) == s.obj[PesOfType(s, "header")[1]].svcs
MandatoryServices(s) ==
  /\ \A n \in {"usim", "isim", "csim"} : n \in Svcs(s) => Count(s, n) > 0
  /\ "gba-usim" \in Svcs(s) => "usim" \in Svcs(s)
  /\ "multiple-usim" \in Svcs(s) => "usim" \in Svcs(s)
  /\ "get-identity" \in Svcs(s) => {"usim", "isim"} \cap Svcs(s) # {}
\* it looks for the algorithm in every akaParameter, and a mapping has none
AkaServices(s) ==
  LET algos == {s.obj[k].algo : k \in Range(PesOfType(s, "akaParameter"))}
  IN /\ "mapping" \notin algos
     /\ \A a \in {"milenage", "tuak128", "usim-test-algorithm"} \cap Svcs(s) : a \in algos
     /\ "tuak256" \in Svcs(s) => "tuak256" \notin algos
     /\ "cave" \in Svcs(s) => Count(s, "cdmaParameter") > 0
NumberOfOccurrence(s) ==
  Unique(s, {"end", "cd", "telecom", "usim", "isim", "csim", "opt-usim", "opt-isim", "opt-csim", "df-saip", "df-5gs"})
Follows == {<<"opt-usim", "usim">>, <<"opt-isim", "isim">>, <<"gsm-access", "usim">>, <<"phonebook", "usim">>,
            <<"df-5gs", "usim">>, <<"df-saip", "usim">>, <<"opt-csim", "csim">>}
OptionalOrdering(s) == \A f \in Follows : Count(s, f[1]) = 0 \/ (Count(s, f[1]) = 1 /\ Count(s, f[2]) = 1)
StartAndEnd(s) ==
  /\ Len(s.list) > 1 /\ s.obj[s.list[1]].t = "header" /\ s.obj[s.list[2]].t = "mf"
  /\ s.obj[s.list[Len(s.list)]].t = "end"
\* those that speak of the structure only
SoundStructure(s) == IdsUnique(s) /\ Count(s, "header") = 1 /\ Count(s, "mf") = 1 /\ NumberOfOccurrence(s)
                     /\ OptionalOrdering(s) /\ StartAndEnd(s)
Good(s) == SoundStructure(s) /\ MandatoryServices(s) /\ AkaServices(s)

DoCheck ==
  /\ ~open /\ "check" \in Commands /\ used.commands < MaxCommands /\ Loads(upp)
  /\ verdict' = [said |-> IF Good(Load(upp)) THEN "All good!" ELSE "error", of |-> upp]
  /\ used' = [used EXCEPT !.commands = @ + 1]
  /\ UNCHANGED <<upp, ses, open, source, applied, edited, did>>

(***************************************************************************)
(* The program                                                             *)
(***************************************************************************)
Open ==
  /\ ~open /\ used.commands < MaxCommands /\ Loads(upp)
  /\ open' = TRUE /\ ses' = Load(upp) /\ source' = upp /\ applied' = {} /\ edited' = <<>> /\ did' = NoDeed
  /\ used' = [commands |-> used.commands + 1, calls |-> 0]
  /\ UNCHANGED <<upp, verdict>>

Call == open /\ used.calls < MaxCalls /\ used' = [used EXCEPT !.calls = @ + 1]

(***************************************************************************)
(* apply_val of the parameters: places(s) are the values it sets, as pairs *)
(* (object, slot), in order; complete, if it raises no ValueError after    *)
(* them.  "new" is the value the program brings.                           *)
(***************************************************************************)
Pairs(ks, slot) == [i \in DOMAIN ks |-> <<ks[i], slot>>]
Place(ks, k) == CHOOSE i \in DOMAIN ks : ks[i] = k
\* as far as all have it: the loop ends at the first that has not
Until(s, ks, slot) == SelectSeq(ks, LAMBDA k : \A i \in 1..Place(ks, k) : slot \in DOMAIN s.obj[ks[i]].vals)
\* pes_by_naa[n], and the NAAs it has in the order they were first seen
InstancesOf(s, n) == SelectSeq(s.byNaa, LAMBDA g : g.naa = n)
NaasIn(s) == Fold(LAMBDA seen, g : IF Contains(seen, g.naa) THEN seen ELSE Append(seen, g.naa), <<>>, s.byNaa)
\* _apply_pinvalue: the first PIN of that reference
PinPlace(s, pes, slot) ==
  LET ks == SelectSeq(pes, LAMBDA k : s.obj[k].t = "pinCodes" /\ slot \in DOMAIN s.obj[k].vals)
  IN IF ks = <<>> THEN <<>> ELSE << <<ks[1], slot>> >>
Done(places) == [places |-> places, complete |-> TRUE, crash |-> FALSE]
Fails == [places |-> <<>>, complete |-> FALSE, crash |-> FALSE]
\* an AssertionError or AttributeError: apply does not make a ValueError of it
Crashes == [Fails EXCEPT !.crash = TRUE]

\* get_pe_for_type gives None if there is none, and asserts that there is no second
ApplyIccid(s) ==
  LET ks == <<PesOfType(s, "header"), PesOfType(s, "mf")>>
  IN IF Len(ks[1]) = 1 /\ Len(ks[2]) = 1 THEN Done(Pairs(ks[1], "iccid") \o Pairs(ks[2], "ef-iccid")) ELSE Crashes
ApplyImsi(s)  == Done(Pairs(PesOfType(s, "usim"), "imsi") \o Pairs(PesOfType(s, "usim"), "acc"))
ApplySmsp(s) ==
  LET usims == PesOfType(s, "usim")
      done == Until(s, usims, "smsp")
  IN [Done(Pairs(done, "smsp")) EXCEPT !.complete = Len(done) = Len(usims)]
ApplyPuk(s, slot) ==
  LET mfs == InstancesOf(s, "mf")
      puks == SelectSeq(mfs[1].pes, LAMBDA k : s.obj[k].t = "pukCodes")
  IN IF mfs = <<>> THEN Fails
     ELSE IF Len(puks) # 1 THEN Crashes
     ELSE IF slot \in DOMAIN s.obj[puks[1]].vals THEN Done(Pairs(puks, slot))
     ELSE Fails
ApplyPin(s, slot) ==
  LET mfs == InstancesOf(s, "mf")
      place == PinPlace(s, mfs[1].pes, slot)
  IN IF mfs # <<>> /\ place # <<>> THEN Done(place) ELSE Fails
ApplyPin2_First(s) ==
  LET insts == SelectSeq(s.byNaa, LAMBDA g : g.naa \in {"usim", "isim", "csim"})
  IN IF insts = <<>> THEN Fails ELSE Done(PinPlace(s, insts[1].pes, "pin2"))
ApplyPin2(s) ==
  LET naas == SelectSeq(NaasIn(s), LAMBDA n : n \in {"usim", "isim", "csim"})
      insts == FlattenSeq([i \in DOMAIN naas |-> InstancesOf(s, naas[i])])
      Misses(i) == PinPlace(s, insts[i].pes, "pin2") = <<>>
      upto == {i \in DOMAIN insts : \A j \in 1..i : ~Misses(j)}
  IN [Done(FlattenSeq([i \in 1..Cardinality(upto) |-> PinPlace(s, insts[i].pes, "pin2")]))
        EXCEPT !.complete = Cardinality(upto) = Len(insts)]
ApplyAlgoConfig(s, slot) ==
  LET akas == SelectSeq(PesOfType(s, "akaParameter"), LAMBDA k : s.obj[k].algo # "mapping")
  IN IF akas = <<>> THEN Fails ELSE Done(Pairs(akas, slot))
\* SdKey._apply_sd: in every security domain, a key it has or a new one
ApplySdKey(s, slot) == Done(Pairs(PesOfType(s, "securityDomain"), slot))

Applied(s, p) ==
  CASE p = "Iccid" -> ApplyIccid(s)
    [] p = "Imsi" -> ApplyImsi(s)
    [] p = "SmspTpScAddr" -> ApplySmsp(s)
    [] p = "Puk1" -> ApplyPuk(s, "puk1")
    [] p = "Pin1" -> ApplyPin(s, "pin1")
    [] p = "Adm1" -> ApplyPin(s, "adm1")
    [] p = "Pin2" -> ApplyPin2(s)
    [] p = "K" -> ApplyAlgoConfig(s, "key")
    [] p = "SdKeyScp80_01Kic" -> ApplySdKey(s, "kic")

\* the value at a place is replaced, or added
SetVal(s, place) == [s EXCEPT !.obj[place[1]].vals = [x \in DOMAIN @ \cup {place[2]} |-> IF x = place[2] THEN "new" ELSE @[x]]]

\* ConfigurableParameter.apply: a ValueError leaves what was set before it
Apply ==
  /\ Call
  /\ \E p \in Parameters :
       LET r == Applied(ses, p)
       IN /\ ses' = IF r.crash THEN NewSequence ELSE Fold(SetVal, ses, r.places)
          /\ open' = ~r.crash
          /\ applied' = applied \cup {[of |-> p, complete |-> r.complete]}
  /\ UNCHANGED <<upp, source, edited, did, verdict>>

\* SecurityDomain add_key: in the list of keys, and from there in the decoded
AddKey ==
  /\ Call /\ "add_key" \in Edits
  /\ \E k \in Range(PesOfType(ses, "securityDomain")) :
       LET keys == ses.obj[k].keys
           more == [x \in DOMAIN keys \cup {"enc"} |-> IF x = "enc" THEN "new" ELSE keys[x]]
       IN "enc" \notin DOMAIN keys /\ ses' = [ses EXCEPT !.obj[k].keys = more, !.obj[k].vals = more]
  /\ edited' = Append(edited, "add_key")
  /\ UNCHANGED <<upp, open, source, applied, did, verdict>>

\* add_hdr_and_end, of an empty sequence
Create ==
  /\ ~open /\ "create" \in Edits /\ used.commands < MaxCommands
  /\ open' = TRUE /\ ses' = AppendPe(AppendPe(NewSequence, NewHeader), NewEnd) /\ source' = <<>>
  /\ applied' = {} /\ edited' = <<"create">> /\ did' = NoDeed
  /\ used' = [commands |-> used.commands + 1, calls |-> 0]
  /\ UNCHANGED <<upp, verdict>>

\* a PE constructed from scratch, inserted before the last
AddPe ==
  /\ Call /\ "add_pe" \in Edits
  /\ \E pe \in NewPes : pe.t \in NewTypes /\ ses' = InsertPe(ses, Len(ses.list), pe)
  /\ edited' = Append(edited, "add_pe")
  /\ UNCHANGED <<upp, open, source, applied, did, verdict>>

\* add_ssd: after the first security domain
AddSsd ==
  /\ Call /\ "add_ssd" \in Edits /\ "add_ssd" \notin Range(edited)
  /\ PesOfType(ses, "securityDomain") # <<>>
  /\ ses' = InsertAfter(ses, PesOfType(ses, "securityDomain")[1], NewSsd)
  /\ edited' = Append(edited, "add_ssd")
  /\ UNCHANGED <<upp, open, source, applied, did, verdict>>

\* remove_naas_of_type, rebuild_mandatory_services, rebuild_mandatory_gfstelist
Edit ==
  /\ Call
  /\ \E e \in Edits \cap {"remove_usim", "rebuild_services", "rebuild_gfste"} :
       /\ CASE e = "remove_usim" -> ses' = RemoveNaas(ses, "usim")
            [] e = "rebuild_services" -> ses' = IF CanRebuild(ses) THEN RebuildServices(ses) ELSE ses
            [] e = "rebuild_gfste" -> ses' = RebuildGfste(ses)
       /\ edited' = Append(edited, e)
  /\ UNCHANGED <<upp, open, source, applied, did, verdict>>

Write ==
  /\ open /\ open' = FALSE /\ ses' = NewSequence
  /\ upp' = ToDer(ses) /\ did' = [op |-> "program", arg |-> None]
  /\ UNCHANGED <<source, applied, edited, verdict, used>>

Next ==
  \/ RemovePe \/ RemoveNaa \/ AddApp \/ RemoveApp \/ AddAppInst \/ RemoveAppInst \/ EditMandSrv \/ DoCheck
  \/ Open \/ Create \/ Apply \/ AddKey \/ AddPe \/ AddSsd \/ Edit \/ Write

Spec == Init /\ [][Next]_vars

(***************************************************************************)
(* Properties.  They speak of files: positions in a sequence of PEs.       *)
(***************************************************************************)
HeadsAt(f) == {i \in DOMAIN f : f[i].t \in Heads}
\* the NAA in whose part of the file position i lies
PartOf(f, i) ==
  LET before == {h \in HeadsAt(f) : h <= i}
  IN IF before = {} THEN None ELSE f[CHOOSE h \in before : \A g \in before : g <= h].t
SamePart(f, i, j) == {h \in HeadsAt(f) : h <= i} = {h \in HeadsAt(f) : h <= j}
FirstOf(f, is) == {i \in is : \A j \in is : SamePart(f, i, j) => i <= j}
At_(f, t, slot) == {i \in DOMAIN f : f[i].t = t /\ slot \in DOMAIN f[i].vals}

(* The positions whose value of a slot a parameter stands for.  The PIN2   *)
(* of the telecom PE is none: a comment (personalization.py:566) names it,  *)
(* but pes_by_naa has no such group, and the PIN2 there is never changed.   *)
Meant(f, p) ==
  CASE p = "Iccid" -> {<<i, "iccid">> : i \in At_(f, "header", "iccid")} \cup {<<i, "ef-iccid">> : i \in At_(f, "mf", "ef-iccid")}
    [] p = "Imsi" -> {<<i, x>> : i \in At_(f, "usim", "imsi"), x \in {"imsi", "acc"}}
    [] p = "SmspTpScAddr" -> {<<i, "smsp">> : i \in At_(f, "usim", "smsp")}
    [] p = "Puk1" -> {<<i, "puk1">> : i \in {j \in At_(f, "pukCodes", "puk1") : PartOf(f, j) = "mf"}}
    [] p = "Pin1" -> {<<i, "pin1">> : i \in FirstOf(f, {j \in At_(f, "pinCodes", "pin1") : PartOf(f, j) = "mf"})}
    [] p = "Adm1" -> {<<i, "adm1">> : i \in FirstOf(f, {j \in At_(f, "pinCodes", "adm1") : PartOf(f, j) = "mf"})}
    [] p = "Pin2" -> {<<i, "pin2">> : i \in FirstOf(f, {j \in At_(f, "pinCodes", "pin2") : PartOf(f, j) # "mf"})}
    [] p = "K" -> {<<i, "key">> : i \in At_(f, "akaParameter", "key")}
    [] p = "SdKeyScp80_01Kic" -> {<<i, "kic">> : i \in At_(f, "securityDomain", "kic")}

(* Every parameter that was applied without an error is in the file the    *)
(* program writes: no place it stands for keeps what the file had          *)
(* ("changed_der = pes.to_der()").  Not so a key of a security domain:     *)
(* apply_val puts it into decoded["keyList"], and _pre_encode makes that   *)
(* list anew of the keys the PE was decoded with.                          *)
Lost == {"SdKeyScp80_01Kic"}
PersonalisedIsWritten ==
  did.op = "program" =>
    \A p \in {a.of : a \in {b \in applied : b.complete}} \ Lost :
      \A place \in Meant(upp, p) : upp[place[1]].vals[place[2]] # "old"

(* A program that only personalises changes nothing else: no PE comes,     *)
(* goes or moves, and a value is new only where a parameter it tried, even *)
(* one that failed half way, stands for it.                                *)
Bare(pe) == [pe EXCEPT !.vals = NoVals]
PersonalisesOnlyThat ==
  did.op = "program" /\ edited = <<>> =>
    /\ Len(upp) = Len(source)
    /\ \A i \in DOMAIN upp :
         /\ Bare(upp[i]) = Bare(source[i])
         /\ \A x \in DOMAIN upp[i].vals :
              upp[i].vals[x] # (IF x \in DOMAIN source[i].vals THEN source[i].vals[x] ELSE None)
                => \E a \in applied : <<i, x>> \in Meant(source, a.of)

(* The PEs of an NAA stand in its part of the file, and those of the card   *)
(* in the MF's (get it wrong, and an NAA goes with what is not its own).     *)
Grouped(f) ==
  \A i \in DOMAIN f :
    /\ f[i].t \in {"pukCodes", "cd", "telecom"} => PartOf(f, i) = "mf"
    /\ \A n \in {"usim", "isim", "csim"} : f[i].t \in NaaOf(n).types => PartOf(f, i) = n
NaaRemoved == did'.op = "remove-naa" /\ upp' # upp /\ Grouped(upp)

(* What remove-naa wrote holds no PE of the NAA, no remote file management *)
(* of its ADFs, and asks for neither its service nor its templates; and it *)
(* took nothing that belongs to the card or to another NAA.                *)
Belongs(f, n, i) ==
  \/ f[i].t \in NaaOf(n).types \/ (f[i].t = "rfm" /\ f[i].aid = n)
  \/ f[i].t \in {"pinCodes", "akaParameter", "genericFileManagement"} /\ PartOf(f, i) = n
Headless(f) == [i \in DOMAIN f |-> [f[i] EXCEPT !.svcs = {}, !.gfste = {}]]
Others(f, n) == LET is == SelectSeq([i \in DOMAIN f |-> i], LAMBDA i : ~Belongs(f, n, i)) IN [j \in DOMAIN is |-> f[is[j]]]
IsGone(f, n) ==
  \A i \in DOMAIN f :
    /\ f[i].t \notin NaaOf(n).types /\ ~(f[i].t = "rfm" /\ f[i].aid = n)
    /\ n \notin f[i].svcs
    /\ \A o \in f[i].gfste : ~\E b \in NaaOf(n).templates : PrefixMatch(b, o)
JustTheNaaGoes ==
  [][NaaRemoved => LET n == did'.arg
                   IN  IsGone(upp', n) /\ Headless(upp') = Headless(Others(upp, n))]_vars

(* The commands on applications leave every other PE as it was and where   *)
(* it was, up to its number.                                               *)
WithoutApps(f) == LET g == SelectSeq(f, LAMBDA pe : pe.t # "application") IN [i \in DOMAIN g |-> [g[i] EXCEPT !.id = 0]]
AppCommands == {"add-app", "remove-app", "add-app-inst", "remove-app-inst"}
OnlyApplications == [][did'.op \in AppCommands /\ upp' # upp => WithoutApps(upp') = WithoutApps(upp)]_vars

Decoded(f) == [list |-> [i \in DOMAIN f |-> i], obj |-> f]

(* A profile of sound structure, as check wants it, stays so under the     *)
(* commands on applications and NAAs: the PEs are numbered apart, optional *)
(* files do not outlive the NAA they belong to, and it ends with its end.  *)
Edited == did'.op \in AppCommands \cup {"remove-naa"} /\ upp' # upp /\ Grouped(upp)
StaysSound == [][Edited /\ SoundStructure(Decoded(upp)) => SoundStructure(Decoded(upp'))]_vars

(* What such a command wrote can be read by the next.                       *)
CanBeReadAgain == [][Edited \/ (did'.op = "edit-mand-srv-list" /\ upp' # upp) => Loads(upp')]_vars

(* The profile saip-tool wrote stays one the library can work on           *)
(* (pySim/esim/saip/__init__.py:1599-1770).                                *)
StaysAProfile == StaysSound /\ CanBeReadAgain /\ OnlyApplications

(* What personalising changes is what was asked for, all of it and nothing *)
(* else (pySim/esim/saip/personalization.py).                              *)
PersonalisedExactly == PersonalisedIsWritten /\ PersonalisesOnlyThat
=============================================================================
