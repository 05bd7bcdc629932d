----------------------------- MODULE MCCardTree -----------------------------
(***************************************************************************)
(* A small card tree for TLC: two DFs side by side, a nested DF, two       *)
(* applications with a file system that share an EF identifier (6f07 is    *)
(* EF.IMSI in the USIM and EF.IST in the ISIM), one without, a profile     *)
(* file the card lacks, and card files the profile does not know.          *)
(***************************************************************************)
EXTENDS Sequences

mf     == <<"MF">>
tel    == <<"MF", "DF.TELECOM">>
telArr == <<"MF", "DF.TELECOM", "EF.ARR">>
pb     == <<"MF", "DF.TELECOM", "DF.PHONEBOOK">>
pbr    == <<"MF", "DF.TELECOM", "DF.PHONEBOOK", "EF.PBR">>
gsm    == <<"MF", "7f20">>
usim   == <<"MF", "ADF.USIM">>
imsi   == <<"MF", "ADF.USIM", "EF.IMSI">>
uArr   == <<"MF", "ADF.USIM", "EF.ARR">>
isim   == <<"MF", "ADF.ISIM">>
ist    == <<"MF", "ADF.ISIM", "EF.IST">>
isdr   == <<"MF", "ADF.ISD-R">>
extra  == <<"MF", "DF.TELECOM", "6f3a">>
ghost  == <<"MF", "DF.TELECOM", "7f20">>

MCMF      == mf
MCADFs    == {usim, isim, isdr}
MCFsADFs  == {usim, isim}
MCFirst   == usim
MCEFs     == {telArr, pbr, imsi, uArr, ist, extra}
MCFiles   == {mf, tel, telArr, pb, pbr, gsm, extra, ghost} \cup MCADFs \cup MCEFs
MCProfile == MCFiles \ {gsm, extra, ghost}
MCOnCard  == MCFiles \ {uArr, ghost}

MCFid == [f \in MCFiles \ MCADFs |->
            CASE f = mf -> "3f00" [] f = tel -> "7f10" [] f = telArr -> "6f06"
              [] f = pb -> "5f3a" [] f = pbr -> "4f30" [] f \in {imsi, ist} -> "6f07"
              [] f = uArr -> "6f06" [] OTHER -> f[Len(f)]]
=============================================================================
