----------------------------- MODULE MCGpShell -----------------------------
(***************************************************************************)
(* pySim-shell: two logical channels with both secure channels (GpShell),  *)
(* and the cards put into its reader (ShellCards).  They share no state;   *)
(* every behaviour is one of either.                                       *)
(***************************************************************************)
EXTENDS GpShell, ShellCards
VARIABLE part
CONSTANTS c1, c2

T(id, uicc, profile, adm, pin, puk) == [iccid |-> id, uicc |-> uicc, profile |-> profile, code |-> [ADM1 |-> adm, PIN1 |-> pin, PUK1 |-> puk]]

(* GpShell: each kind of secure channel has keys of one version.           *)
MCCardKvns == [k \in {"scp02", "scp03"} |-> IF k = "scp02" THEN {32} ELSE {48}]

ASSUME CapsAreSmall /\ KeysAreGiven

(* ShellCards: two cards; what they are, and what the providers know.      *)
One  == T("i1", TRUE, TRUE, "a1", "p1", "u1")
Two  == T("i2", TRUE, TRUE, "a2", "p2", "u2")
Mute == T(Nothing, TRUE, TRUE, "a1", "p1", "u1")
Sim  == T("i2", FALSE, TRUE, "a2", "p2", "u2")
Off  == T("i3", TRUE, TRUE, "a9", "p9", "u9")   \* the last row of the table has other codes
Odd  == T("i1", TRUE, FALSE, "a1", "p1", "u1")
MCTypes == {One, Two, Mute, Sim, Off, Odd}
Pairs   == {<<One, Two>>, <<One, Mute>>, <<Two, Sim>>, <<Off, One>>, <<Odd, Two>>}
MCGroups == [UICC_SCP02 |-> {"KIC1", "KID1"}]
R(id, adm, pin, puk, kic) == [ICCID |-> id, ADM1 |-> adm, PIN1 |-> pin, PUK1 |-> puk, KIC1 |-> kic]
Columns == {"ICCID", "ADM1", "PIN1", "PUK1", "KIC1"}
Few(r)  == [f \in {"ICCID", "ADM1", "PIN1"} |-> r[f]]
MCProviders ==
  << [type |-> "csv", sealed |-> {"KIC1"}, given |-> {"UICC_SCP02"},
      tables |-> <<[cols |-> Columns, rows |-> <<R("i1", "a1", "p1", "u1", "k1"), R("i3", "a9", "p9", "u9", "k3"), R("i3", "a3", "p3", "u3", "k3")>>]>>],
     [type |-> "pgsql", sealed |-> {"KIC1"}, given |-> {"KIC1"},
      tables |-> <<[cols |-> {"EID"}, rows |-> <<>>], [cols |-> {"ICCID", "ADM1", "PIN1"}, rows |-> <<Few(R("i2", "a2", "p2", "u2", "k2"))>>],
                   [cols |-> Columns, rows |-> <<R("i2", "a2", "p2", "u2", "k2")>>]>>] >>
MCScripts == {<<"verify_adm", "write">>, <<"write", "verify_adm">>, <<"typo", "verify_adm", "write">>}
MCQueries == {{"KIC1"}, {"ADM1", "KIC1"}, {"KID1"}}

(* The other part rests in one of its initial states.                      *)
MCInit == /\ Init /\ DeskInit /\ <<type[c1], type[c2]>> \in Pairs
          /\ part \in {"channels", "cards"}
          /\ part = "channels" => type[c1] = One /\ type[c2] = Two
          /\ part = "cards" => protocol = 0
MCNext == \/ part = "channels" /\ Next /\ UNCHANGED <<part, deskVars>>
          \/ part = "cards" /\ DeskNext /\ UNCHANGED <<part, vars>>
MCSpec == MCInit /\ [][MCNext]_<<part, vars, deskVars>>
=============================================================================
