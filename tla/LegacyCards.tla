---------------------------- MODULE LegacyCards ----------------------------
(***************************************************************************)
(* The card classes of pySim-prog: how each is recognised, and its program *)
(* as a sequence of steps (SELECT, VERIFY, writes of items to files named  *)
(* by a path that starts wherever the card stands).  How an item is coded  *)
(* is left out; that some steps are not checked, need an item or a file, or*)
(* always raise is not.                                                    *)
(***************************************************************************)
EXTENDS Integers, Sequences

(* "of" names the application without which adf_present skips the step.    *)
Step(op, path, items, when) == [op |-> op, path |-> path, items |-> items, when |-> when, of |-> "any"]
Sel(path)         == Step("select", path, {}, "must")
App(a)            == Step("app", <<a>>, {}, "must")
Pin               == Step("pin", <<>>, {"pin_adm"}, "must")         \* raises without a key
DefaultPin        == Step("pin", <<>>, {}, "must")
Put(path, items)  == Step("put", path, items, "must")
Opt(path, item)   == Step("put", path, {item}, "given")
PutIf(path, item) == Step("put", path, {item}, "exists")            \* behind file_exists
Fill(path, item)  == Step("put", path, {item}, "filled")            \* its value, or emptied
Raw(item)         == Step("raw", <<"key">>, {item}, "must")         \* send_apdu: the status is not looked at
Cmd(items)        == Step("cmd", <<"key">>, items, "must")
Raises            == Step("raise", <<>>, {}, "must")
Within(app, steps) == [i \in DOMAIN steps |-> [steps[i] EXCEPT !.of = app]]

GSM == <<"3f00", "7f20">>
TEL == <<"3f00", "7f10">>

(* ------------------------------------------------------- update_... *)
Plmn(fid) == <<Opt(GSM \o <<fid>>, "plmn")>>
UpdateAd(path) == <<Step("put", path, {"plmn"}, "given")>>
UpdateSmsp == <<Opt(TEL \o <<"6f42">>, "smsp")>>
UpdateAcc  == <<Opt(GSM \o <<"6f78">>, "acc")>>
SmspRecord == <<Step("select", TEL, {"smsp"}, "given"), Opt(<<"6f42">>, "smsp")>>
Msisdn     == <<Step("select", TEL, {"msisdn"}, "given"), Opt(<<"6f40">>, "msisdn")>>

(* ------------------------------------------------------- program() *)
(* The name reaches b2h as a str and raises.                               *)
MagicProgram == <<Sel(<<"3f00", "7f4d">>), Raises>>

FakeMagicProgram ==
  << Sel(GSM \o <<"6f30">>), Put(<<"6f30">>, {"plmn"}), Sel(<<"3f00", "000c">>),
     Put(<<"000c">>, {"name", "iccid", "imsi", "ki", "smsp"}) >>

GrcardProgram ==
  << DefaultPin, Sel(<<"3f00", "2fe2">>), Put(<<"2fe2">>, {"iccid"}),
     Sel(GSM \o <<"6f07">>), Put(<<"6f07">>, {"imsi"}), Opt(<<"6f78">>, "acc"),
     Step("select", TEL \o <<"6f42">>, {"smsp"}, "given"), Opt(<<"6f42">>, "smsp"), Raw("ki"),
     Sel(GSM \o <<"6f30">>), Put(<<"6f30">>, {"plmn"}), Sel(GSM \o <<"6f30">>) >>

UsimGr1Program == << DefaultPin, Cmd({"ki", "opc", "iccid", "imsi"}) >>

Gr2Program ==
  << Sel(<<"3f00">>), DefaultPin, Raw("new_pin"), DefaultPin, Put(<<"2fe2">>, {"iccid"}),
     Sel(<<"7f20">>), Put(<<"6f07">>, {"imsi"}), Opt(<<"6f78">>, "acc"), Sel(<<"6f30">>), Put(<<"6f30">>, {"plmn"}),
     Put(<<"0001">>, {}), Put(<<"0001">>, {"ki"}), Sel(TEL), Opt(<<"6f42">>, "smsp") >>

Sjs1Program ==
  << Pin, Sel(<<"3f00">>), Put(<<"2fe2">>, {"iccid"}), Sel(<<"7f20">>), Put(<<"00ff">>, {"ki"}), Opt(<<"00f7">>, "opc"),
     Opt(GSM \o <<"6f46">>, "name") >> \o UpdateAcc \o << Put(<<"6f07">>, {"imsi"}) >> \o
  Plmn("6f30") \o Plmn("6f60") \o Plmn("6f61") \o Plmn("6f62") \o UpdateAd(GSM \o <<"6fad">>) \o SmspRecord \o Msisdn

FairwavesProgram ==
  << Pin >> \o UpdateSmsp \o Plmn("6f62") \o
  << Opt(GSM \o <<"6f07">>, "imsi"), Opt(GSM \o <<"ff02">>, "ki"), Opt(GSM \o <<"ff01">>, "opc") >> \o UpdateAcc

OpenCellsProgram ==
  << Pin, Sel(<<"3f00">>), Put(<<"2fe2">>, {"iccid"}), Sel(<<"7ff0">>), Put(<<"ff02">>, {"ki"}), Put(<<"ff01">>, {"opc"}),
     Sel(<<"7f20">>), Put(<<"6f07">>, {"imsi"}) >>

WavemobileProgram ==
  << Pin >> \o UpdateSmsp \o << Opt(GSM \o <<"6f07">>, "imsi") >> \o UpdateAcc \o
  Plmn("6f30") \o Plmn("6f60") \o Plmn("6f61") \o UpdateAd(GSM \o <<"6fad">>)

(* read_aids selects EF.DIR from wherever the card stands, and knows no    *)
(* application when that fails.                                            *)
ReadAids == Step("aids", <<"2f00">>, {}, "must")
IsimPart == << App("isim"), Opt(<<"af20">>, "ki"), Opt(<<"af20">>, "opc"), Fill(<<"6f09">>, "pcscf"), Fill(<<"6f03">>, "ims_hdomain"),
               Fill(<<"6f02">>, "impi"), Fill(<<"6f04">>, "impu") >>
UsimPart == << App("usim"), Put(<<"6fad">>, {"plmn"}), Opt(<<"af20">>, "ki"), Opt(<<"af20">>, "opc"), PutIf(<<"6fd9">>, "plmn"),
               Fill(<<"6ff3">>, "epdgid"), Fill(<<"6ff4">>, "epdgSelection"), Fill(<<"6f38">>, "services") >>
Sja2Common ==
  << Pin, ReadAids, Sel(<<"7f20">>), Opt(GSM \o <<"6f46">>, "name"), Opt(<<"6f07">>, "imsi") >> \o
  Plmn("6f30") \o Plmn("6f60") \o Plmn("6f61") \o Plmn("6f62") \o UpdateAd(GSM \o <<"6fad">>) \o
  SmspRecord \o Msisdn \o UpdateAcc \o
  << Sel(<<"3f00">>), Sel(<<"a515">>), Opt(<<"6f20">>, "ki"), Opt(<<"6f20">>, "opc") >>
Sja2Program_UnderIsim == Sja2Common \o Within("isim", IsimPart \o UsimPart)
Sja2Program == Sja2Common \o Within("isim", IsimPart) \o Within("usim", UsimPart)

GialerProgram ==
  << DefaultPin, Opt(<<"3f00", "2fe2">>, "iccid"), Opt(GSM \o <<"6f07">>, "imsi") >> \o UpdateAcc \o UpdateSmsp \o
  << Step("select", <<"3f00", "0001">>, {"ki"}, "given"), Opt(<<"0001">>, "ki"),
     Step("select", <<"3f00", "6002">>, {"opc"}, "given"), Opt(<<"6002">>, "opc"),
     Step("app", <<"usim">>, {"fplmn"}, "given"), Opt(<<"6f7b">>, "fplmn") >> \o
  Plmn("6f62") \o UpdateAd(GSM \o <<"6fad">>)

Magic == {"supersim", "magicsim"}
Program(class) ==
  CASE class \in Magic        -> MagicProgram
    [] class = "fakemagicsim" -> FakeMagicProgram
    [] class \in {"grcardsim", "sysmosim-gr1"} -> GrcardProgram
    [] class = "sysmoUSIM-GR1"  -> UsimGr1Program
    [] class = "sysmoSIM-GR2"   -> Gr2Program
    [] class = "sysmoUSIM-SJS1" -> Sjs1Program
    [] class = "Fairwaves-SIM"  -> FairwavesProgram
    [] class = "OpenCells-SIM"  -> OpenCellsProgram
    [] class = "Wavemobile-SIM" -> WavemobileProgram
    [] class \in {"sysmoISIM-SJA2", "sysmoISIM-SJA5"} -> Sja2Program
    [] OTHER -> GialerProgram

(* ------------------------------------------------------- card_detect *)
(* In the order of _cards_classes; the Magic cards are known by a record   *)
(* size, read with the class byte the last card left behind, the others by *)
(* their ATR, two of them not at all.                                      *)
ByFile       == {"fakemagicsim"} \cup Magic
Undetectable == {"grcardsim", "sysmoUSIM-GR1"}
SimClasses   == ByFile \cup {"grcardsim", "sysmosim-gr1", "sysmoSIM-GR2", "OpenCells-SIM"}
ClassByte(class) == IF class \in SimClasses THEN "a0" ELSE "00"
(* FairwavesSIM switches to the class byte of a SIM while it programs.     *)
ProgramByte(class) == IF class = "Fairwaves-SIM" THEN "a0" ELSE ClassByte(class)
Erasable == ByFile
=============================================================================
