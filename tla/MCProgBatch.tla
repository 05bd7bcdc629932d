---------------------------- MODULE MCProgBatch ----------------------------
EXTENDS ReadCard

K(class_, uicc, apps, lacks, row) == [class |-> class_, uicc |-> uicc, sim |-> TRUE, apps |-> apps, lacks |-> lacks, row |-> row]
Both == {"usim", "isim"}
Small == {K("Wavemobile-SIM", TRUE, {"usim"}, {}, 101), K("fakemagicsim", FALSE, {}, {}, 102), K("Fairwaves-SIM", TRUE, {"usim"}, {}, 0),
          K("magicsim", FALSE, {}, {}, 101)}
Large == {K("grcardsim", FALSE, {}, {}, 101), K("sysmosim-gr1", FALSE, {}, {"6f42"}, 101), K("sysmoUSIM-GR1", TRUE, {"usim"}, {}, 101),
          K("sysmoSIM-GR2", FALSE, {}, {}, 101), K("sysmoUSIM-SJS1", TRUE, {"usim"}, {}, 101), K("OpenCells-SIM", FALSE, {}, {}, 101),
          K("gialersim", TRUE, {"usim"}, {}, 101), K("unknown", TRUE, {"usim"}, {}, 101)} \cup
         {K("sysmoISIM-SJA2", TRUE, apps, lacks, 102) : apps \in {{}, {"usim"}, Both}, lacks \in {{}, {"6f78"}, {"6ff3", "6ff4", "6fd9"}}}
MCKinds == Small \cup Large

AllItems == {"pin_adm", "name", "smsp", "iccid", "imsi", "ki", "opc", "plmn", "acc", "msisdn", "epdgid", "epdgSelection", "pcscf", "fplmn",
             "ims_hdomain", "impi", "impu", "services"}
Base == [type |-> "auto", probe |-> FALSE, erase |-> FALSE, dry_run |-> FALSE, source |-> "cmdline", given |-> AllItems,
         write_csv |-> FALSE, write_hlr |-> FALSE, batch |-> FALSE, batch_state |-> FALSE]
Least == {"pin_adm", "iccid", "imsi", "ki", "opc", "plmn"}
BatchOptions == {[Base EXCEPT !.batch = TRUE, !.batch_state = TRUE, !.write_csv = TRUE, !.given = Least \cup {"name", "smsp"}],
                 [Base EXCEPT !.batch = TRUE, !.source = "iccid", !.given = Least],
                 [Base EXCEPT !.batch = TRUE, !.dry_run = TRUE, !.write_csv = TRUE],
                 [Base EXCEPT !.batch = TRUE, !.write_hlr = TRUE, !.given = Least]}
SingleOptions == {Base, [Base EXCEPT !.given = Least], [Base EXCEPT !.given = @ \ {"ki", "opc"}, !.write_csv = TRUE], [Base EXCEPT !.source = "imsi"],
                  [Base EXCEPT !.probe = TRUE], [Base EXCEPT !.erase = TRUE], [Base EXCEPT !.type = "grcardsim"],
                  [Base EXCEPT !.type = "sysmoUSIM-GR1", !.given = Least], [Base EXCEPT !.given = @ \ {"pin_adm"}],
                  [Base EXCEPT !.given = @ \ {"smsp", "acc"}, !.write_csv = TRUE]}
MCOptions == BatchOptions \cup SingleOptions

(* A card is read after it was probed.                                     *)
(* Batches of two cards are of the classes with short programs.            *)
MCInit == Init /\ ReadInit /\ IF opts.batch THEN \A c \in Cards : kind[c] \in Small ELSE \A c, d \in Cards : kind[c] = kind[d]
Next == \/ ProgNext /\ UNCHANGED readVars
        \/ opts.probe /\ (ReadWork \/ ReadRefused)
MCSpec == MCInit /\ [][Next]_<<vars, readVars>>
=============================================================================
