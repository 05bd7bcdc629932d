--------------------------- MODULE SaipTemplates ---------------------------
(***************************************************************************)
(* The file templates of eSIM profiles (pySim/esim/saip/templates.py) and  *)
(* the tree of files that a profile describes: FsNode* and the add_file,   *)
(* cd and lookup of pySim/esim/saip/__init__.py.                           *)
(*                                                                         *)
(* Of each template the DFs are listed, the files that programs name, and  *)
(* one EF per DF.  A node is its path, a sequence of names from the MF.    *)
(***************************************************************************)
EXTENDS Sequences, Naturals, FiniteSets

None == "none"

(* for x in seq: acc = op(acc, x)                                           *)
Fold(op(_, _), start, seq) ==
  LET acc[i \in 0..Len(seq)] == IF i = 0 THEN start ELSE op(acc[i - 1], seq[i]) IN acc[Len(seq)]

DFs  == {"DF.CD", "DF.TELECOM", "DF.GRAPHICS", "DF.PHONEBOOK", "DF.MULTIMEDIA", "DF.MMSS", "DF.MCS", "DF.V2X",
         "DF.GSM-ACCESS", "DF.5GS", "DF.SAIP", "DF.SNPN", "DF.5G_ProSe", "DF.EAP"}
ADFs == {"ADF.USIM", "ADF.ISIM"}
BerTlv == {"EF.ICE_GRAPHICS", "EF.MML", "EF.MCSCONFIG", "EF.V2X_CONFIG"}

(* FileTemplate: name, and ppath, the path below the base DF               *)
F(n) == [name |-> n, ppath |-> <<>>]
In(df, names) == [i \in DOMAIN names |-> [name |-> names[i], ppath |-> IF i = 1 THEN <<>> ELSE <<df>>]]
At(names) == [i \in DOMAIN names |-> F(names[i])]

(* ProfileTemplate: its OID, files, and the templates it extends or is      *)
(* placed below; the base_path that some declare is read by nobody          *)
T(oid, files) == [oid |-> oid, files |-> files, extends |-> None, parent |-> None]
Below(t, p)   == [t EXCEPT !.parent = p]
Extending(t, p) == [t EXCEPT !.extends = p]

PbFiles == In("DF.PHONEBOOK", <<"DF.PHONEBOOK", "EF.PBR">>)
TelecomFiles == At(<<"DF.TELECOM", "EF.ARR", "EF.RMA">>)
                  \o In("DF.GRAPHICS", <<"DF.GRAPHICS", "EF.IMG", "EF.ICE_GRAPHICS">>) \o PbFiles
                  \o In("DF.MULTIMEDIA", <<"DF.MULTIMEDIA", "EF.MML">>) \o In("DF.MMSS", <<"DF.MMSS", "EF.MLPL">>)
UsimFiles == At(<<"ADF.USIM", "EF.IMSI", "EF.ARR", "EF.UST", "EF.SMSP", "EF.SPN", "EF.EST", "EF.ACC", "EF.ECC">>)
IsimFiles == At(<<"ADF.ISIM", "EF.IMPI", "EF.IMPU", "EF.DOMAIN", "EF.IST", "EF.ARR">>)
FivegFiles == At(<<"DF.5GS", "EF.5GS3GPPLOCI", "EF.SUCI_CALC_INFO">>)

(* ProfileTemplateRegistry                                                  *)
FilesAtMF      == T(<<1>>, At(<<"MF", "EF.PL", "EF.ICCID", "EF.DIR", "EF.ARR", "EF.UMPC">>))
FilesCD        == T(<<2>>, At(<<"DF.CD", "EF.LAUNCHPAD">>))
FilesTelecom   == T(<<3>>, TelecomFiles)
FilesTelecomV2 == T(<<3, 2>>, TelecomFiles \o In("DF.MCS", <<"DF.MCS", "EF.MST", "EF.MCSCONFIG">>)
                                \o In("DF.V2X", <<"DF.V2X", "EF.VST", "EF.V2X_CONFIG">>))
FilesUsimMandatory   == T(<<4>>, UsimFiles)
FilesUsimMandatoryV2 == T(<<4, 2>>, UsimFiles)
FilesUsimOptional    == Extending(T(<<5>>, At(<<"EF.LI", "EF.GID1", "EF.MSISDN">>)), <<4>>)
FilesUsimOptionalV2  == Extending(T(<<5, 2>>, At(<<"EF.LI", "EF.GID1", "EF.MSISDN">>)), <<4, 2>>)
FilesUsimOptionalV3  == Extending(T(<<5, 3>>, At(<<"EF.LI", "EF.GID1", "EF.MSISDN">>)), <<4, 2>>)
FilesUsimDfPhonebook == T(<<6>>, PbFiles)
FilesUsimDfGsmAccess == Below(T(<<7>>, At(<<"DF.GSM-ACCESS", "EF.Kc">>)), <<4>>)
FilesIsimMandatory   == T(<<8>>, IsimFiles)
FilesIsimOptional    == Extending(T(<<9>>, At(<<"EF.PCSCF", "EF.SMSP">>)), <<8>>)
FilesIsimOptionalv2  == Extending(T(<<9, 2>>, At(<<"EF.PCSCF", "EF.SMSP">>)), <<8>>)
FilesEap             == T(<<12>>, At(<<"DF.EAP", "EF.EAPKEYS", "EF.EAPSTATUS">>))
FilesUsimDf5GS       == Below(T(<<13>>, FivegFiles), <<4>>)
FilesUsimDf5GSv2     == Below(T(<<13, 2>>, FivegFiles), <<4>>)
FilesUsimDf5GSv3     == Below(T(<<13, 3>>, FivegFiles), <<4>>)
FilesUsimDf5GSv4     == Below(T(<<13, 4>>, FivegFiles), <<4>>)
FilesUsimDfSaip      == Below(T(<<14>>, At(<<"DF.SAIP", "EF.SUCI_CALC_INFO_USIM">>)), <<4>>)
FilesDfSnpn          == Below(T(<<15>>, At(<<"DF.SNPN", "EF.PWS_SNPN">>)), <<4>>)
FilesDf5GProSe       == Below(T(<<16>>, At(<<"DF.5G_ProSe", "EF.5G_PROSE_ST">>)), <<4>>)

Registry == {FilesAtMF, FilesCD, FilesTelecom, FilesTelecomV2, FilesUsimMandatory, FilesUsimMandatoryV2,
             FilesUsimOptional, FilesUsimOptionalV2, FilesUsimOptionalV3, FilesUsimDfPhonebook, FilesUsimDfGsmAccess,
             FilesIsimMandatory, FilesIsimOptional, FilesIsimOptionalv2, FilesEap, FilesUsimDf5GS, FilesUsimDf5GSv2,
             FilesUsimDf5GSv3, FilesUsimDf5GSv4, FilesUsimDfSaip, FilesDfSnpn, FilesDf5GProSe}
Registered(oid) == \E t \in Registry : t.oid = oid
GetByOid(oid)   == CHOOSE t \in Registry : t.oid = oid

(* OID.prefix_match, over the components of the OID (the code compares the *)
(* dotted strings: 2.1 would match 2.12 too, but nothing asks for 2.1)      *)
PrefixMatch(base, oid) == Len(base) <= Len(oid) /\ SubSeq(oid, 1, Len(base)) = base

(* base_df(): of a template that extends another it is that other's method  *)
BaseDf(t) == t.files[1].name
FileOf(t, n) == CHOOSE i \in DOMAIN t.files : t.files[i].name = n

(***************************************************************************)
(* The tree: nodes, the MF among them once it is there, the current DF     *)
(* of the sequence, and where each PE's first DF went (File.node).          *)
(***************************************************************************)
Mf == <<"MF">>
NoTree == [nodes |-> {}, dfs |-> {}, cur |-> <<>>, home |-> <<>>, ok |-> TRUE]
Broken(tr) == [tr EXCEPT !.ok = FALSE]

(* FsNodeDF.add_file: a DF becomes the current one, an ADF goes to the MF   *)
AddNode(tr, df, name) ==
  IF df = <<>> THEN Broken(tr)
  ELSE LET node == IF name \in ADFs THEN Append(Mf, name) ELSE Append(df, name)
           isDf == name \in DFs \cup ADFs
       IN [tr EXCEPT !.nodes = @ \cup {node}, !.dfs = IF isDf THEN @ \cup {node} ELSE @, !.cur = IF isDf THEN node ELSE df]

(* ProfileElementSequence.cd: from the MF                                   *)
Cd(tr, path) == IF Mf \in tr.nodes /\ (Mf \o path) \in tr.dfs THEN [tr EXCEPT !.cur = Mf \o path] ELSE Broken(tr)

(* FsProfileElement.add_file, of the PE in place i; parents are the places  *)
(* before it that hold a template below which its own belongs, in order     *)
\* where the file goes; the nowhere that no DF is
Placed(tr, i, t, parents, n) ==
  LET below == tr.home[i] \o t.files[FileOf(t, n)].ppath
  IN IF t.extends = None /\ n # BaseDf(t)
     THEN IF i \in DOMAIN tr.home /\ below \in tr.dfs THEN below ELSE <<>>
     ELSE IF t.parent = None THEN tr.cur
     ELSE IF parents = <<>> \/ parents[Len(parents)] \notin DOMAIN tr.home THEN <<>>
     ELSE tr.home[parents[Len(parents)]]

AddFile(tr, i, t, parents, n) ==
  LET added == AddNode(tr, Placed(tr, i, t, parents, n), n)
      first == [j \in DOMAIN tr.home \cup {i} |-> IF j = i THEN added.cur ELSE tr.home[j]]
  IN IF ~tr.ok THEN tr
     ELSE IF n = "MF" THEN IF Mf \in tr.nodes THEN Broken(tr)
                           ELSE [tr EXCEPT !.nodes = {Mf}, !.dfs = {Mf}, !.cur = Mf, !.home = [j \in {i} |-> Mf]]
     ELSE IF n = BaseDf(t) /\ t.extends = None /\ added.ok THEN [added EXCEPT !.home = first]
     ELSE added

(* walk(): is a file of BER-TLV structure anywhere in the tree?             *)
HasBerTlv(tr) == \E p \in tr.nodes : p[Len(p)] \in BerTlv
=============================================================================
