---------------------------- MODULE SaipSequence ----------------------------
(***************************************************************************)
(* ProfileElementSequence of pySim/esim/saip/__init__.py: the profile      *)
(* elements (PEs) of an eSIM profile in memory, decoded from a DER file    *)
(* and encoded to one, and the edits programs make; CheckBasicStructure of *)
(* pySim/esim/saip/validation.py.                                          *)
(*                                                                         *)
(* A PE object has an identity: the index by NAA refers to objects, also   *)
(* to those no longer in the list.  In a file there are only contents.     *)
(***************************************************************************)
EXTENDS SaipTemplates, SequencesExt

(***************************************************************************)
(* A PE: its type; the header's mandated and identification (0: absent);   *)
(* its template and files; aid, the AID it is named by or refers to; vals, *)
(* the values a program may personalise (of a security domain, its decoded *)
(* keyList) and keys, the SecurityDomainKey objects made of it; algo;      *)
(* insts, an application's instances; svcs and gfste of the header; gfm,   *)
(* the files that generic file management creates.                         *)
(***************************************************************************)
NoVals == [s \in {} |-> None]
Pe(t) == [t |-> t, m |-> TRUE, id |-> 0, tpl |-> <<>>, files |-> <<>>, aid |-> None, vals |-> NoVals, keys |-> NoVals,
          algo |-> None, insts |-> <<>>, svcs |-> {}, gfste |-> {}, gfm |-> <<>>]

(* What the constructors make of each PE; which files, names the template   *)
Made(t, tpl, files) == [Pe(t) EXCEPT !.tpl = tpl.oid, !.files = files]
NewHeader == [Pe("header") EXCEPT !.m = FALSE, !.vals = [x \in {"iccid"} |-> "default"]]
NewEnd    == Pe("end")
NewSd     == [Pe("securityDomain") EXCEPT !.aid = "isd-p"]
NewSsd    == [Pe("securityDomain") EXCEPT !.aid = "ssd"]
NewAka    == [Pe("akaParameter") EXCEPT !.algo = "milenage", !.vals = [x \in {"key"} |-> "default"]]
NewPuk    == [Pe("pukCodes") EXCEPT !.vals = [x \in {"puk1"} |-> "default"]]
NewPin    == [Pe("pinCodes") EXCEPT !.vals = [x \in {"pin1"} |-> "default"]]
NewMf     == [Made("mf", FilesAtMF, <<"MF", "EF.ICCID", "EF.DIR", "EF.ARR">>) EXCEPT !.vals = [x \in {"ef-iccid"} |-> "default"]]
NewUsim   == [Made("usim", FilesUsimMandatoryV2, <<"ADF.USIM", "EF.IMSI", "EF.ARR", "EF.UST", "EF.SPN", "EF.EST", "EF.ACC", "EF.ECC">>)
                EXCEPT !.vals = [x \in {"imsi", "acc"} |-> "default"]]
NewIsim   == Made("isim", FilesIsimMandatory, <<"ADF.ISIM", "EF.IMPI", "EF.IMPU", "EF.DOMAIN", "EF.IST", "EF.ARR">>)
NewOptUsim == Made("opt-usim", FilesUsimOptionalV2, <<>>)
NewOptIsim == Made("opt-isim", FilesIsimOptionalv2, <<>>)
NewTelecom == Made("telecom", FilesTelecomV2, <<"DF.TELECOM", "EF.ARR">>)
NewCD      == Made("cd", FilesCD, <<"DF.CD">>)
NewPhonebook == Made("phonebook", FilesUsimDfPhonebook, <<"DF.PHONEBOOK">>)
NewGsmAccess == Made("gsm-access", FilesUsimDfGsmAccess, <<"DF.GSM-ACCESS">>)
NewEap       == Made("eap", FilesEap, <<"DF.EAP", "EF.EAPSTATUS">>)
NewDf5GS     == Made("df-5gs", FilesUsimDf5GSv3, <<"DF.5GS">>)
NewDfSaip    == Made("df-saip", FilesUsimDfSaip, <<"DF.SAIP">>)
NewDfSnpn    == Made("df-snpn", FilesDfSnpn, <<"DF.SNPN">>)
NewDf5GProSe == Made("df-5gprose", FilesDf5GProSe, <<"DF.5G_ProSe">>)
NewPes == {NewSd, NewAka, NewPuk, NewPin, NewMf, NewUsim, NewIsim, NewOptUsim, NewOptIsim, NewTelecom, NewCD, NewPhonebook,
           NewGsmAccess, NewEap, NewDf5GS, NewDfSaip, NewDfSnpn, NewDf5GProSe}

(* header_name: only the PE of type header has none                         *)
HasHeader(pe) == pe.t # "header"

(* Naa*: pe_types, templates, mandatory_services and adf_name               *)
NaaOf(n) ==
  CASE n = "csim" -> [types |-> {"csim", "opt-csim", "cdmaParameter"}, templates |-> {<<10>>, <<11>>}]
    [] n = "usim" -> [types |-> {"usim", "opt-usim", "phonebook", "gsm-access", "eap", "df-5gs", "df-saip", "df-snpn", "df-5gprose"},
                      templates |-> {<<4>>, <<5>>, <<6>>, <<7>>, <<12>>, <<13>>, <<14>>, <<15>>, <<16>>}]
    [] n = "isim" -> [types |-> {"isim", "opt-isim"}, templates |-> {<<8>>, <<9>>}]

(***************************************************************************)
(* The sequence in memory: list, of objects; obj, the objects; byNaa,      *)
(* pes_by_naa as a list of (naa, instance) in the order they were added;   *)
(* tree, built while decoding.                                             *)
(***************************************************************************)
NewSequence == [list |-> <<>>, obj |-> <<>>, byNaa |-> <<>>, tree |-> NoTree]

PesOfType(s, t) == SelectSeq(s.list, LAMBDA k : s.obj[k].t = t)
Count(s, t) == Len(PesOfType(s, t))

(* _rebuild_pes_by_naa: a group is an NAA's PE and what follows it up to    *)
(* the next; the index is added to, never emptied                           *)
NotNaaRelated_Rfm == {"securityDomain", "application", "end"}
NotNaaRelated == {"securityDomain", "rfm", "application", "end"}
Heads == {"mf", "usim", "isim", "csim"}
Groups(list, obj) ==
  LET related == SelectSeq(list, LAMBDA k : obj[k].t \notin NotNaaRelated)
      Add(g, k) == IF obj[k].t \in Heads THEN Append(g, [naa |-> obj[k].t, pes |-> <<k>>])
                   ELSE IF g = <<>> THEN g
                   ELSE [g EXCEPT ![Len(g)].pes = Append(@, k)]
  IN Fold(Add, <<>>, related)
Process(s) == [s EXCEPT !.byNaa = @ \o Groups(s.list, s.obj)]

(* renumber_identification                                                  *)
Renumber(s) ==
  LET numbered == SelectSeq(s.list, LAMBDA k : HasHeader(s.obj[k]))
      Number(k) == CHOOSE i \in DOMAIN numbered : numbered[i] = k
  IN [s EXCEPT !.obj = [k \in DOMAIN @ |-> IF Contains(numbered, k) THEN [@[k] EXCEPT !.id = Number(k)] ELSE @[k]]]

(* append, insert_at_index, insert_after_pe, add_ssd                        *)
InsertPe_NoRenumber(s, i, pe) == Process([s EXCEPT !.obj = Append(@, pe), !.list = InsertAt(@, i, Len(s.obj) + 1)])
InsertPe(s, i, pe) ==
  Renumber(Process([s EXCEPT !.obj = Append(@, pe), !.list = InsertAt(@, i, Len(s.obj) + 1)]))
AppendPe(s, pe) == InsertPe(s, Len(s.list) + 1, pe)
IndexOf(s, k) == CHOOSE i \in DOMAIN s.list : s.list[i] = k
InsertAfter(s, k, pe) == InsertPe(s, IndexOf(s, k) + 1, pe)

(***************************************************************************)
(* from_der: decode the PEs of a file, one after the other, placing their  *)
(* files in the tree (pe2files)                                            *)
(***************************************************************************)
ParentsOf(s, i, t) ==
  IF t.parent = None THEN <<>>
  ELSE SelectSeq([j \in 1..i - 1 |-> j], LAMBDA j : s.obj[j].tpl # <<>> /\ PrefixMatch(t.parent, s.obj[j].tpl))

\* ProfileElementGFM.pe2files: cd to the path, then the file below it
GfmFile(tr, c) ==
  LET at == Cd(tr, c.path) IN IF ~at.ok THEN at ELSE AddNode(at, at.cur, c.file)

DecodePe(s, pe) ==
  LET i == Len(s.list) + 1
      new == [pe EXCEPT !.keys = IF pe.t = "securityDomain" THEN pe.vals ELSE NoVals]
      t == GetByOid(pe.tpl)
      File(tr, n) == AddFile(tr, i, t, ParentsOf(s, i, t), n)
      tree == IF ~s.tree.ok THEN s.tree
              ELSE IF pe.gfm # <<>> THEN Fold(GfmFile, s.tree, pe.gfm)
              ELSE IF pe.files = <<>> THEN s.tree
              ELSE IF ~Registered(pe.tpl) THEN Broken(s.tree)
              ELSE Fold(File, s.tree, pe.files)
  IN [s EXCEPT !.list = Append(@, i), !.obj = Append(@, new), !.tree = tree]

Load(file) == Process(Fold(DecodePe, NewSequence, file))
Loads(file) == Load(file).tree.ok

(* to_der: a security domain encodes the keys it made when it was decoded   *)
PreEncode(pe) == IF pe.t = "securityDomain" THEN [pe EXCEPT !.vals = pe.keys, !.keys = NoVals] ELSE pe
ToDer(s) == [i \in DOMAIN s.list |-> PreEncode(s.obj[s.list[i]])]

(***************************************************************************)
(* Edits                                                                   *)
(***************************************************************************)
\* remove-pe: by identification or type
RemovePes(s, ids, types) ==
  Process([s EXCEPT !.list = SelectSeq(@, LAMBDA k : s.obj[k].id \notin ids /\ s.obj[k].t \notin types)])

\* remove_naas_of_type
StripHeader(s, n) ==
  LET h == PesOfType(s, "header")[1]
  IN [s EXCEPT !.obj[h].svcs = @ \ {n},
               !.obj[h].gfste = {o \in @ : ~\E b \in NaaOf(n).templates : PrefixMatch(b, o)}]
GroupPes(s, n) == UNION {Range(s.byNaa[i].pes) : i \in {j \in DOMAIN s.byNaa : s.byNaa[j].naa = n}}
RemoveNaas(s, n) ==
  LET aids == {s.obj[k].aid : k \in Range(PesOfType(s, n))} \ {None}
      without == Process([StripHeader(s, n) EXCEPT !.list = SelectSeq(@, LAMBDA k : k \notin GroupPes(s, n))])
  IN Process([without EXCEPT !.list = SelectSeq(@, LAMBDA k : ~(s.obj[k].t = "rfm" /\ s.obj[k].aid \in aids))])

(* rebuild_mandatory_services: the services it can tell, and those of the   *)
(* old list that only a person can                                          *)
ManualServices == {"contactless", "mbms", "cat-tp", "dns-resolution"}
NaaServices(s) == {s.byNaa[i].naa : i \in {j \in DOMAIN s.byNaa : s.byNaa[j].naa # "mf" /\ s.obj[s.byNaa[j].pes[1]].m}}
PeServices(s) ==
  LET svc(pe) == CASE pe.t = "akaParameter" -> IF pe.algo = "mapping" THEN {} ELSE {pe.algo}
                   [] pe.t = "cdmaParameter" -> {"cave"}
                   [] pe.t = "eap" -> {"eap"}
                   [] pe.t = "application" -> {"javacard"}
                   [] OTHER -> {}
  IN UNION {svc(s.obj[k]) : k \in {j \in Range(s.list) : s.obj[j].m}}
RebuildServices(s) ==
  LET h == PesOfType(s, "header")[1]
  IN [s EXCEPT !.obj[h].svcs = NaaServices(s) \cup PeServices(s) \cup (@ \cap ManualServices)
                                 \cup IF HasBerTlv(s.tree) THEN {"ber-tlv"} ELSE {}]
\* it needs the MF's node, an NAA in the index and the one header
CanRebuild(s) == Mf \in s.tree.nodes /\ s.byNaa # <<>> /\ Count(s, "header") = 1

(* rebuild_mandatory_gfstelist                                              *)
RebuildGfste(s) ==
  LET h == PesOfType(s, "header")[1]
  IN [s EXCEPT !.obj[h].gfste = {s.obj[k].tpl : k \in {j \in Range(s.list) : HasHeader(s.obj[j]) /\ s.obj[j].m
                                                                             /\ s.obj[j].tpl # <<>>}}]
=============================================================================
