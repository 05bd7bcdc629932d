----------------------------- MODULE MCCardInit -----------------------------
EXTENDS ServiceTable

(* SIMs, UICCs, cards that are both; EF.DIR missing, not activated or with *)
(* no, one, two or twin applications; unlisted applications, eUICCs, a     *)
(* card model with files of its own; and every set of optional directories.*)
MCCards ==
  {c \in [uicc : BOOLEAN, sim : BOOLEAN, dir : {"none", "active", "initialisation"},
          dfs : SUBSET {"DF.GSM", "DF.EIRENE", "DF.CDMA"},
          listed : {<<>>, <<"USIM">>, <<"USIM", "ISIM">>, <<"USIM", "USIM">>},
          hidden : {{}, {"ISD"}, {"ISD", "ISD-R", "ECASD"}}, euicc : {"no", "sgp32", "sgp22", "sgp02"}, sja : BOOLEAN] :
     /\ ~c.uicc => c.dir = "none" /\ c.listed = <<>> /\ c.hidden = {}
     /\ c.euicc # "no" => c.uicc /\ "ISD-R" \in c.hidden
     /\ c.sja => c.uicc /\ c.hidden = {"ISD"}}

MCServices    == {2, 39, 46, 95, 132}
MCSstServices == {4, 65}
MCMissing  == {{}, {"DF.GSM-ACCESS"}, {"EF.CPBCCH", "EF.FDN", "EF.OPL"}}

(* The tables are used on one of the cards.                                *)
Chosen == card.sim /\ card.dir = "active" /\ card.sja /\ card.dfs = {"DF.GSM"} /\ card.listed = <<"USIM", "ISIM">>

MCInit == Init /\ TablesInit /\ (Chosen \/ (absent = {} /\ ustBytes = 1))
Next == \/ Step /\ UNCHANGED tables
        \/ Pulled /\ UNCHANGED tables
        \/ Chosen /\ TableStep
MCSpec == MCInit /\ [][Next]_<<vars, tables>>
=============================================================================
