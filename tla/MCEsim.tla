------------------------------- MODULE MCEsim -------------------------------
(***************************************************************************)
(* eSIM profiles: delivered by the SM-DP+ (RspSession), and made and       *)
(* edited with saip-tool (SaipTool).  They share no state; every behaviour *)
(* is one of either.                                                       *)
(***************************************************************************)
EXTENDS RspSession, SaipTool
VARIABLE part

(* RspSession: three eUICCs, one with a certificate that does not verify   *)
(* and one that shares no CI with the SM-DP+.  Sections of one and of two  *)
(* segments, the last one full or not.                                     *)
MCEuiccs == {"good", "untrusted", "foreign"}
MCEuiccCert == [e \in MCEuiccs |-> [aki |-> "eum", signer |-> "eum", ein |-> "89049032"]]
MCEumCert == [e \in MCEuiccs |->
  [ski |-> "eum", aki |-> "ci", signer |-> "ci", keyCertSign |-> TRUE,
   permittedEins |-> IF e = "untrusted" THEN {"89049044"} ELSE {"89049032", "89049044"}]]
MCSigningCis == [e \in MCEuiccs |-> IF e = "foreign" THEN {"ci2"} ELSE {"ci", "ci2"}]
MCVerificationCis == [e \in MCEuiccs |-> IF e = "good" THEN {"ci"} ELSE {}]
MCServerCis == {"ci"}
MCProfiles == {"A", "B"}
MCTransactionIds == {"1234", "12AB"}
MCDigitIds == {"1234"}
MCMaxRequests == [e \in MCEuiccs |-> IF e = "foreign" THEN 1 ELSE 4]
MCSize == [s \in Sections |->
  CASE s = "configureISDP" -> 1 [] s = "storeMetadata" -> 3
    [] s = "replaceSessionKeys" -> 2 [] s = "upp" -> 4]
MCKeys == {SessionKey(e, n) : e \in MCEuiccs, n \in 1..4}

(* SaipTool: whole profiles, each with its peculiarities.                  *)
Old(slots) == [x \in slots |-> "old"]
Numbered(f) == LET s == Renumber([list |-> [i \in DOMAIN f |-> i], obj |-> f]) IN s.obj
With(t, slots) == [Pe(t) EXCEPT !.vals = Old(slots)]
Fs(t, tpl, slots) == [With(t, slots) EXCEPT !.tpl = tpl.oid, !.files = [i \in DOMAIN tpl.files |-> tpl.files[i].name]]
Header(svcs, gfste) == [With("header", {"iccid"}) EXCEPT !.svcs = svcs, !.gfste = gfste, !.m = FALSE]
Aka(a) == IF a = "mapping" THEN [Pe("akaParameter") EXCEPT !.algo = a] ELSE [With("akaParameter", {"key"}) EXCEPT !.algo = a]
Gfm(path, file) == [Pe("genericFileManagement") EXCEPT !.gfm = <<[path |-> path, file |-> file]>>]
Rfm(n) == [Pe("rfm") EXCEPT !.aid = n]
Naa(pe, n) == [pe EXCEPT !.aid = n]
Sd(slots) == [With("securityDomain", slots) EXCEPT !.aid = "isd-p"]
Card == << Fs("mf", FilesAtMF, {"ef-iccid"}), With("pukCodes", {"puk1"}), With("pinCodes", {"pin1", "adm1"}) >>
Usim(slots) == Naa(Fs("usim", FilesUsimMandatoryV2, slots), "usim")
Isim == Naa(Fs("isim", FilesIsimMandatory, {}), "isim")
End == <<Pe("end")>>

\* the order of tests/unittests/test_esim_saip.py
Full == Numbered(
  <<Header({"usim", "isim", "milenage", "mbms"}, {<<4, 2>>, <<8>>, <<13, 4>>})>> \o Card
  \o <<Fs("telecom", FilesTelecomV2, {}), With("pinCodes", {"pin2"}), Gfm(<<>>, "EF.A")>>
  \o <<Usim({"imsi", "acc", "smsp"}), Fs("opt-usim", FilesUsimOptionalV3, {}), With("pinCodes", {"pin2"}), Aka("milenage"),
       Fs("gsm-access", FilesUsimDfGsmAccess, {}), Fs("df-5gs", FilesUsimDf5GSv4, {}), Fs("df-saip", FilesUsimDfSaip, {}),
       Gfm(<<"ADF.USIM", "DF.5GS">>, "EF.B")>>
  \o <<Naa(Pe("csim"), "csim"), Pe("opt-csim"), With("pinCodes", {"pin2"}), Pe("cdmaParameter")>>
  \o <<Isim, Fs("opt-isim", FilesIsimOptionalv2, {}), With("pinCodes", {"pin2"}), Aka("milenage"), Gfm(<<"ADF.ISIM">>, "EF.C")>>
  \o <<Sd({"kic"}), Rfm("usim"), Rfm("isim"), Rfm(None)>> \o End)
\* an ISIM that maps to the USIM and has no PIN2, and no application may be added
Mapped == Numbered(
  <<Header({"usim", "isim", "milenage"}, {<<4>>})>> \o Card
  \o <<[Usim({"imsi", "acc"}) EXCEPT !.tpl = FilesUsimMandatory.oid], With("pinCodes", {"pin2"}), Aka("milenage")>>
  \o <<Isim, Aka("mapping")>> \o <<Sd({"kic"}), Sd({})>> \o End)
\* an application, and a card without PUKs
Small == Numbered(
  <<Header({"usim", "tuak128"}, {}), Card[1], Card[3], Usim({"imsi", "acc", "smsp"}), With("pinCodes", {}), Aka("tuak128"), Sd({}),
    [NewApp EXCEPT !.insts = <<"i1">>]>> \o End)

MCUserFiles == {Full, Mapped, Small}
AllParameters == {"Iccid", "Imsi", "SmspTpScAddr", "Puk1", "Pin1", "Adm1", "Pin2", "K", "SdKeyScp80_01Kic"}
AllCommands == {"remove-pe", "remove-naa", "add-app", "remove-app", "add-app-inst", "remove-app-inst", "edit-mand-srv-list", "check"}
AllEdits == {"add_key", "add_ssd", "remove_usim", "rebuild_services", "rebuild_gfste", "create", "add_pe"}
Constructed == {"mf", "pukCodes", "usim", "df-5gs", "akaParameter"}

(* The other part rests in one of its initial states.                      *)
MCInit ==
  /\ RspInit /\ Init
  /\ part \in {"delivered", "edited"}
  /\ part = "delivered" => upp = Small
MCNext ==
  \/ part = "delivered" /\ RspNext /\ UNCHANGED <<part, vars>>
  \/ part = "edited" /\ Next /\ UNCHANGED <<part, rspVars>>
MCSpec == MCInit /\ [][MCNext]_<<part, vars, rspVars>>
=============================================================================
