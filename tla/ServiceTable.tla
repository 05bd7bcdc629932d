---------------------------- MODULE ServiceTable ----------------------------
(***************************************************************************)
(* The service tables of an initialised card and the shell's commands on   *)
(* them: EF.UST (one bit per service, the whole file is read and written)  *)
(* and EF.SST (two bits per service, one byte is read and written), and    *)
(* the check of EF.UST against the files the card really has.              *)
(***************************************************************************)
EXTENDS CardInit

CONSTANTS Services,   \* the services the user names of EF.UST
          SstServices,\* and of EF.SST
          UstBytes,   \* possible sizes of EF.UST
          Missing     \* sets of names of files the card lacks

VARIABLES ust,        \* services active in EF.UST
          ustBytes,   \* its size
          sst,        \* EF.SST: services allocated and activated
          absent,     \* names of files the card lacks
          found,      \* what the last check reported
          checked     \* that the last command was a check that ended
tables == <<ust, ustBytes, sst, absent, found, checked>>

TablesInit == /\ ust = {} /\ ustBytes \in UstBytes
              /\ sst = [allocated |-> {}, activated |-> {}]
              /\ absent \in Missing
              /\ found = {} /\ checked = FALSE

UsimReady == pc = "done" /\ "USIM" \in ToSet(apps)
Keeps == UNCHANGED <<vars, ustBytes, absent>>

(* Beyond the end of the file the Python code raises, at the index or in   *)
(* the computation of the missing bytes, before anything is written.       *)
UstByte(s) == (s - 1) \div 8

UstUpdate(s, active) ==
  /\ UsimReady
  /\ ust' = IF UstByte(s) >= ustBytes THEN ust ELSE IF active THEN ust \cup {s} ELSE ust \ {s}
  /\ found' = {} /\ checked' = FALSE
  /\ UNCHANGED sst /\ Keeps

SstByte(s) == (s - 1) \div 4
SstBytes == 16
SstAdjust(s, bit, on) ==
  /\ UsimReady /\ "DF.GSM" \in card.dfs
  /\ sst' = IF SstByte(s) >= SstBytes THEN sst
            ELSE [sst EXCEPT ![bit] = IF on THEN @ \cup {s} ELSE @ \ {s}]
  /\ found' = {} /\ checked' = FALSE
  /\ UNCHANGED ust /\ Keeps

(* --------------------------------------------------------------- check *)
Children == ChildrenOf("USIM")

ShouldExist(service, active) == IF service.rule = "all" THEN service.of \subseteq active
                                ELSE service.of \cap active # {}
(* A SELECT walks down from the application.                               *)
Selectable(path) == ToSet(path) \cap absent = {}

UstTable == FilesByService(Children)
FileProblems == {e \in UstTable : ShouldExist(e.service, ust) # Selectable(e.path)}

(* get_app_names returns the ADF objects, not their names.                 *)
AppNames == {"<ADF " \o AdfClass(a) \o ">" : a \in ToSet(apps)}
RuleProblems ==
  {r \in {46, 125} : r \in ust /\ r - 1 \notin ust} \cup
  {r \in {95, 99, 115} : "ADF.ISIM" \in AppNames /\ r \in ust}

UstCheck == /\ UsimReady
            /\ found' = {e.path : e \in FileProblems} \cup {<<"service", r>> : r \in RuleProblems}
            /\ checked' = TRUE
            /\ UNCHANGED <<ust, sst>> /\ Keeps

TableStep == \/ \E s \in Services, on \in BOOLEAN : UstUpdate(s, on)
             \/ \E s \in SstServices, b \in {"allocated", "activated"}, on \in BOOLEAN : SstAdjust(s, b, on)
             \/ UstCheck

-----------------------------------------------------------------------------
(* The check misses no file: every file below the USIM, in its directories *)
(* too, that has a service and is selectable against it, or missing in     *)
(* spite of it, is reported.                                               *)
Below == {[path |-> <<Children[i].name>>, service |-> Children[i].service] : i \in DOMAIN Children} \cup
         UNION {LET sub == Contents(Children[i].class)
                IN  {[path |-> <<Children[i].name, sub[j].name>>, service |-> sub[j].service] : j \in DOMAIN sub} :
                  i \in DOMAIN Children}
CheckMissesNoFile == checked => \A f \in Below : f.service.of # {} =>
  ((ShouldExist(f.service, ust) # Selectable(f.path)) <=> f.path \in found)
=============================================================================
