------------------------------ MODULE ReadCard ------------------------------
(***************************************************************************)
(* pySim-read, started on the card pySim-prog has left in the reader: it   *)
(* tests whether the card is a UICC, recognises it, and reads files, those *)
(* of the applications relatively to the application it has selected.      *)
(***************************************************************************)
EXTENDS ProgBatch

VARIABLES shown,   \* what was printed, and where it was read
          quiet    \* what the card refused to tell
readVars == <<shown, quiet>>
CONSTANT MaxRefusals   \* bound on what a card refuses to tell

R(what, path, fatal) == [op |-> "read", what |-> what, path |-> path, fatal |-> fatal, exists |-> FALSE]
App_(app)            == [op |-> "app", what |-> app, path |-> <<app>>, fatal |-> FALSE, exists |-> FALSE]
E_(what, fid, fatal) == [R(what, <<fid>>, fatal) EXCEPT !.exists = TRUE]
Aids                 == [R("aids", <<"2f00">>, FALSE) EXCEPT !.op = "aids"]

SimReads ==
  << Aids, R("iccid", <<"3f00", "2fe2">>, TRUE), R("imsi", GSM \o <<"6f07">>, TRUE), R("gid1", GSM \o <<"6f3e">>, FALSE),
     R("smsp", TEL \o <<"6f42">>, TRUE), R("spn", GSM \o <<"6f46">>, FALSE), R("plmn", GSM \o <<"6f30">>, FALSE), R("oplmn", GSM \o <<"6f61">>, FALSE),
     R("acc", GSM \o <<"6f78">>, TRUE), R("msisdn", TEL \o <<"6f40">>, FALSE), R("ad", GSM \o <<"6fad">>, TRUE), R("sst", GSM \o <<"6f38">>, TRUE) >>
UsimReads == << App_("usim"), E_("ehplmn", "6fd9", TRUE), E_("fplmn", "6f7b", TRUE), E_("ust", "6f38", FALSE), E_("epdgid", "6ff3", FALSE),
                E_("epdgSelection", "6ff4", FALSE) >>
IsimReads == << App_("isim"), E_("pcscf", "6f09", FALSE), E_("domain", "6f03", FALSE), E_("impi", "6f02", FALSE), E_("impu", "6f04", FALSE), E_("iari", "6fe7", FALSE),
                R("ist", <<"6f07">>, TRUE) >>
Reading == SimReads \o UsimReads \o IsimReads
InUsim(n) == n > Len(SimReads) /\ n <= Len(SimReads) + Len(UsimReads)

ReadInit == shown = {} /\ quiet = {}

(* The class byte after the test for a UICC and card_detect, whose SimCard,*)
(* the class of every card it does not recognise, is a SIM's.              *)
StartByte(k) == LET cls == Detected(k, IF k.uicc THEN "00" ELSE "a0") IN IF cls = None THEN "a0" ELSE ClassByte(cls)
StartRead(c) ==
  /\ pc = "exit"
  /\ pc' = "read" /\ step' = 1 /\ bay' = c /\ at' = "3f00" /\ aids' = {}
  /\ cla' = StartByte(kind[c]) /\ class' = Detected(kind[c], IF kind[c].uicc THEN "00" ELSE "a0")
  /\ shown' = {} /\ quiet' = {}
  /\ UNCHANGED <<setup, first, mem, deaf, books>>

Doing == Reading[step]
Onward(n) == IF n > Len(Reading) THEN pc' = "read_done" /\ step' = 0 ELSE pc' = "read" /\ step' = n
Leave == pc' = "crashed" /\ step' = 0
(* The steps of an application that was not selected are left out.         *)
AfterApp_Next == step + 1
AfterApp == IF InUsim(step) THEN Len(SimReads) + Len(UsimReads) + 1 ELSE Len(Reading) + 1
ReadStep ==
  LET there == Walk(Mine, at, Doing.path)
      told  == Understands(Mine, cla) /\ there # None
  IN  /\ pc = "read"
      /\ CASE Doing.op = "aids" -> /\ aids' = IF cla = "00" /\ told THEN Mine.apps ELSE {}
                                   /\ Onward(step + 1) /\ UNCHANGED <<at, cla, shown>>
           [] Doing.op = "app"  -> IF cla = "00" /\ Doing.what \in Mine.apps
                                   THEN at' = Doing.what /\ Onward(step + 1) /\ UNCHANGED <<aids, cla, shown>>
                                   ELSE Onward(AfterApp) /\ UNCHANGED <<at, aids, cla, shown>>
           [] OTHER             -> IF told THEN /\ at' = there /\ Onward(step + 1)
                                                /\ shown' = shown \cup {<<Doing.what, there, Last(Doing.path)>>}
                                                /\ UNCHANGED <<aids, cla>>
                                   ELSE /\ IF Doing.fatal /\ ~Doing.exists THEN Leave ELSE Onward(step + 1)
                                        /\ UNCHANGED <<at, aids, cla, shown>>
      /\ UNCHANGED <<setup, bay, first, class, mem, deaf, quiet, books>>

(* The card refuses; a status other than 9000 raises, which is caught for  *)
(* some of the files only.                                                 *)
ReadRefused ==
  /\ pc = "read" /\ Understands(Mine, cla) /\ Cardinality(quiet) < MaxRefusals
  /\ quiet' = quiet \cup {Doing.what}
  /\ CASE Doing.op = "app" -> Onward(AfterApp)
       [] Doing.fatal      -> Leave
       [] OTHER            -> Onward(step + 1)
  /\ UNCHANGED <<setup, bay, first, class, cla, card, shown, books>>

ReadWork == (\E c \in Cards : StartRead(c)) \/ ReadStep

-----------------------------------------------------------------------------
Home(what) ==
  CASE what = "iccid" -> {"3f00"}
    [] what \in {"smsp", "msisdn"} -> {"7f10"}
    [] what \in {"ehplmn", "fplmn", "ust", "epdgid", "epdgSelection"} -> {"usim"}
    [] what \in {"pcscf", "domain", "impi", "impu", "iari", "ist"} -> {"isim"}
    [] OTHER -> {"7f20"}

(* What pySim-read prints was read from the file it is printed as: 6f07 is *)
(* the IMSI in two directories and the service table in a third.           *)
ShownFromItsHome == \A s \in shown : s[2] \in Home(s[1])

(* The service tables of the applications of a card whose class is known   *)
(* are shown, unless the card refused something.                           *)
ApplicationsShown == pc = "read_done" /\ class # None /\ class \notin SimClasses /\ quiet = {} =>
  /\ "usim" \in Mine.apps => <<"ust", "usim", "6f38">> \in shown
  /\ "isim" \in Mine.apps => <<"ist", "isim", "6f07">> \in shown

\* What pySim-read prints is the card's, and all of its applications'.
ShownIsRight == ShownFromItsHome /\ ApplicationsShown
=============================================================================
