------------------------------ MODULE CardInit ------------------------------
(***************************************************************************)
(* init_card: from a card in the reader to a runtime state with a file     *)
(* tree.  The class of the card object and the profile are found by        *)
(* probing, each with its own class byte and each moving the card; then    *)
(* the add-ons, the applications (from EF.DIR, or selected one by one) and *)
(* the card model decide which of the lists of CardProfiles are added.     *)
(* The card may be pulled out before any answer, and a single answer may   *)
(* be lost where the code goes on without it.                              *)
(***************************************************************************)
EXTENDS CardProfiles, FiniteSets, SequencesExt

CONSTANTS Cards,    \* the cards that may be inserted
          MaxCuts   \* bound: how many probes get no answer

VARIABLES card,     \* the card in the reader
          pc,       \* how far init_card is
          kind,     \* the class of the card object: SIM or UICC
          generic,  \* neither class could be detected
          cla,      \* cla_byte of the card object's SimCardCommands
          lcla,     \* that of the basic channel, which is a copy of it
          profile,  \* the profile that matched
          todo,     \* profiles, add-ons or applications not probed yet
          apps,     \* applications found on the card
          files,    \* the MF's children
          missed,   \* history: applications whose probe got no answer
          extra,    \* files a card model adds to an application
          at,       \* where the card stands
          cwd       \* where the basic channel believes it stands
vars == <<card, pc, kind, generic, cla, lcla, profile, todo, apps, missed, files, extra, at, cwd>>

(* ---------------------------------------------------------------- tree *)
Reserved == {"..", ".", "/", "MF"}

Clash(old, f) == \E i \in DOMAIN old :
  old[i].fid = f.fid \/ (f.sfid # 0 /\ old[i].sfid = f.sfid) \/ old[i].name = f.name

(* Services of a directory's children are entered in the parent's table    *)
(* too, but not those of their children.                                   *)
RECURSIVE HasService(_)
HasService(f) == \/ f.service.of # {}
                 \/ \E i \in DOMAIN Contents(f.class) :
                      Contents(f.class)[i].class # "EF" /\ HasService(Contents(f.class)[i])
TooDeep(f) == \E i \in DOMAIN Contents(f.class) :
  LET sub == Contents(Contents(f.class)[i].class)
  IN  \E j \in DOMAIN sub : sub[j].class # "EF" /\ HasService(sub[j])

Refused(old, f) == f.name \in Reserved \/ f.fid = "3f00" \/ Clash(old, f) \/ TooDeep(f)
AddFiles(old, new) == old \o new
Refuses(old, new) == \E i \in DOMAIN new : Refused(old \o SubSeq(new, 1, i - 1), new[i])

ChildServices_Own(f) == {[no |-> s, path |-> <<f.name>>, service |-> f.service] : s \in f.service.of}
ChildServices(f) ==
  {[no |-> s, path |-> <<f.name>>, service |-> f.service] : s \in f.service.of} \cup
  UNION {LET g == Contents(f.class)[i]
         IN  {[no |-> s, path |-> <<f.name, g.name>>, service |-> g.service] : s \in g.service.of} :
           i \in DOMAIN Contents(f.class)}
FilesByService(children) == UNION {ChildServices(children[i]) : i \in DOMAIN children}

(* ---------------------------------------------------------------- apps *)
(* In the order in which _match_applications probes for them.              *)
AllApps == <<"ECASD", "ISD", "ISD-R", "ARA-M", "HPSIM", "ISIM", "USIM", "USIM-non-IMSI">>
AdfClass(a) == CASE a = "USIM" -> "ADF_USIM" [] a = "USIM-non-IMSI" -> "ADF_USIM_nonIMSI"
                 [] a = "ISIM" -> "ADF_ISIM" [] a = "HPSIM" -> "ADF_HPSIM" [] OTHER -> "ADF_SD"

RECURSIVE Constructs(_)
Constructs(class) ==
  /\ ~Refuses(<<>>, Contents(class))
  /\ \A i \in DOMAIN Contents(class) : Contents(class)[i].class = "EF" \/ Constructs(Contents(class)[i].class)
AppsConstruct == \A i \in DOMAIN AllApps : Constructs(AdfClass(AllApps[i]))

(* ------------------------------------------------------------ profiles *)
ByOrder == <<"SGP32", "SGP22", "SGP02", "UICC", "RUIM", "SIM">>
UiccProfiles == {"SGP32", "SGP22", "SGP02", "UICC"}
ClaOf(p)    == IF p \in UiccProfiles THEN "00" ELSE "a0"
AddonsOf(p) == IF p \in UiccProfiles THEN <<"SIM", "GSM-R", "RUIM">>
               ELSE IF p = "SIM" THEN <<"GSM-R">> ELSE <<>>
FilesInMf(p) == CASE p = "SIM" -> SimFiles [] p = "RUIM" -> RuimFiles [] OTHER -> UiccFiles
AddonFiles(d) == CASE d = "SIM" -> AddonSimFiles [] d = "GSM-R" -> AddonGsmrFiles [] OTHER -> AddonRuimFiles

(* ------------------------------------------------------------ the card *)
Accepts(c) == IF c = "00" THEN card.uicc ELSE card.sim
OnCard == ToSet(card.listed) \cup card.hidden
Matches(p) ==
  CASE p = "SGP32" -> card.euicc = "sgp32"
    [] p = "SGP22" -> card.euicc \in {"sgp22", "sgp32"}
    [] p = "SGP02" -> card.euicc = "sgp02"
    [] p = "UICC"  -> Accepts("00")
    [] p = "RUIM"  -> Accepts("a0") /\ "DF.CDMA" \in card.dfs
    [] OTHER       -> Accepts("a0")

Init == /\ card \in Cards
        /\ pc = "off" /\ kind = "SIM" /\ generic = FALSE /\ cla = "00" /\ lcla = "00"
        /\ profile = "none" /\ todo = <<>> /\ apps = <<>> /\ missed = {} /\ files = <<>> /\ at = "MF" /\ cwd = "none"
        /\ extra = [a \in {"USIM", "ISIM"} |-> <<>>]

StartInit == /\ pc = "off"
             /\ pc' = "detect_uicc"
             /\ UNCHANGED <<card, kind, generic, cla, lcla, profile, todo, apps, missed, files, extra, at, cwd>>

(* EF.DIR must be selectable and, by its FCP, activated.                   *)
DetectUicc == /\ pc = "detect_uicc"
              /\ cla' = "00"
              /\ IF Accepts("00") /\ card.dir = "active"
                 THEN kind' = "UICC" /\ pc' = "pick" /\ todo' = ByOrder
                 ELSE pc' = "detect_sim" /\ UNCHANGED <<kind, todo>>
              /\ at' = IF Accepts("00") /\ card.dir # "none" THEN "EF.DIR" ELSE "MF"
              /\ UNCHANGED <<card, generic, lcla, profile, apps, missed, files, extra, cwd>>

DetectSim == /\ pc = "detect_sim"
             /\ cla' = "a0" /\ kind' = "SIM"
             /\ LET found == Accepts("a0") /\ "DF.GSM" \in card.dfs
                IN  /\ generic' = ~found
                    /\ at' = IF found THEN "DF.GSM" ELSE at
             /\ pc' = "pick" /\ todo' = ByOrder
             /\ UNCHANGED <<card, lcla, profile, apps, missed, files, extra, cwd>>

(* match_with_card restores the class byte and resets the card whatever    *)
(* the outcome.                                                            *)
TryMatch == /\ pc = "pick" /\ todo # <<>>
            /\ at' = "MF"
            /\ IF Matches(Head(todo))
               THEN profile' = Head(todo) /\ pc' = "profile" /\ todo' = <<>>
               ELSE todo' = Tail(todo) /\ UNCHANGED <<profile, pc>>
            /\ UNCHANGED <<card, kind, generic, cla, lcla, apps, missed, files, extra, cwd>>

NoProfile == /\ pc = "pick" /\ todo = <<>>
             /\ pc' = "unsupported"
             /\ UNCHANGED <<card, kind, generic, cla, lcla, profile, todo, apps, missed, files, extra, at, cwd>>

(* A UICC profile gets all applications; a card of unknown class is then   *)
(* taken for a UICC.                                                       *)
AddApplications ==
  /\ pc = "profile"
  /\ IF profile \in UiccProfiles /\ generic
     THEN kind' = "UICC" /\ cla' = "00"
     ELSE UNCHANGED <<kind, cla>>
  /\ pc' = IF profile \notin UiccProfiles \/ AppsConstruct THEN "runtime" ELSE "raised"
  /\ UNCHANGED <<card, generic, lcla, profile, todo, apps, missed, files, extra, at, cwd>>

(* RuntimeState.__init__, up to the first SELECT of the MF.  The basic     *)
(* channel copies the class byte before the profile sets that of the card  *)
(* object; on a card found to be a SIM that has a UICC profile it keeps    *)
(* a0, and pyosmocom's FCP decoder may take the SIM's answer or refuse it. *)
StartRuntime == /\ pc = "runtime"
                /\ lcla' = cla /\ cla' = ClaOf(profile)
                /\ \/ /\ Accepts(lcla')
                      /\ pc' = "addons" /\ todo' = AddonsOf(profile) /\ at' = "MF" /\ cwd' = "MF"
                   \/ /\ ~Accepts(lcla') \/ lcla' # cla'
                      /\ pc' = "raised" /\ UNCHANGED <<todo, at, cwd>>
                /\ UNCHANGED <<card, kind, generic, profile, apps, missed, files, extra>>

ProbeAddon ==
  /\ pc = "addons" /\ todo # <<>>
  /\ todo' = Tail(todo)
  /\ LET new == AddonFiles(Head(todo))
     IN  IF new[1].name \notin card.dfs THEN UNCHANGED <<pc, files, at>>
         ELSE IF Refuses(files, new) THEN pc' = "raised" /\ UNCHANGED <<files, at>>
         ELSE files' = AddFiles(files, new) /\ at' = new[1].name /\ UNCHANGED pc
  /\ UNCHANGED <<card, kind, generic, cla, lcla, profile, apps, missed, extra, cwd>>

(* EF.DIR is read when the card object is a UICC; every AID found there    *)
(* takes the application it contains, once per AID.                        *)
Listed == IF kind = "UICC" /\ card.dir # "none" THEN card.listed ELSE <<>>
Unlisted == SelectSeq(AllApps, LAMBDA a : a \notin ToSet(Listed))

ReadDir == /\ pc = "addons" /\ todo = <<>>
           /\ at' = IF kind = "UICC" /\ profile \in UiccProfiles /\ card.dir # "none" THEN "EF.DIR" ELSE "MF"
           /\ cwd' = "MF" /\ pc' = "probe"
           /\ IF profile \in UiccProfiles
              THEN apps' = Listed /\ todo' = Unlisted
              ELSE UNCHANGED <<apps, todo>>
           /\ UNCHANGED <<card, kind, generic, cla, lcla, profile, missed, files, extra>>

(* read_aids swallows whatever goes wrong, and then has found nothing.     *)
ListingFails ==
  /\ pc = "addons" /\ todo = <<>> /\ kind = "UICC" /\ profile \in UiccProfiles
  /\ at' \in {"MF", "EF.DIR"} /\ cwd' = "MF" /\ pc' = "probe"
  /\ apps' = <<>> /\ todo' = AllApps
  /\ UNCHANGED <<card, kind, generic, cla, lcla, profile, missed, files, extra>>

ProbeApp_AnyAnswer ==
  /\ pc = "probe" /\ todo # <<>>
  /\ todo' = Tail(todo) /\ apps' = Append(apps, Head(todo))
  /\ at' = IF Head(todo) \in OnCard THEN Head(todo) ELSE at
  /\ UNCHANGED <<card, pc, kind, generic, cla, lcla, profile, missed, files, extra, cwd>>

(* A card object that is not a UICC answers (None, None).                  *)
ProbeApp == /\ pc = "probe" /\ todo # <<>>
            /\ todo' = Tail(todo)
            /\ IF kind = "UICC" /\ Head(todo) \in OnCard
               THEN apps' = Append(apps, Head(todo)) /\ at' = Head(todo)
               ELSE UNCHANGED <<apps, at>>
            /\ UNCHANGED <<card, pc, kind, generic, cla, lcla, profile, missed, files, extra, cwd>>

(* The answer to a probe is lost (ProtocolError, of the serial, modem and  *)
(* calypso links): the application counts as missing, wherever the card    *)
(* went.                                                                   *)
ProbeCut == /\ pc = "probe" /\ todo # <<>> /\ kind = "UICC" /\ Cardinality(missed) < MaxCuts
            /\ todo' = Tail(todo) /\ missed' = missed \cup {Head(todo)}
            /\ at' \in {at} \cup ({Head(todo)} \cap OnCard)
            /\ UNCHANGED <<card, pc, kind, generic, cla, lcla, profile, apps, files, extra, cwd>>

(* add_application_df raises on an AID it has; the files of the profile    *)
(* follow, and the reset that ends the constructor.                        *)
Build == /\ pc = "probe" /\ todo = <<>>
         /\ IF IsInjective(apps) /\ ~Refuses(files, FilesInMf(profile))
            THEN /\ files' = AddFiles(files, FilesInMf(profile))
                 /\ pc' = "model" /\ at' = "MF" /\ cwd' = "MF"
            ELSE pc' = "raised" /\ UNCHANGED <<files, at, cwd>>
         /\ UNCHANGED <<card, kind, generic, cla, lcla, profile, todo, apps, missed, extra>>

(* Children of an application: its constructor's, then a model's.          *)
ChildrenOf(a) == Contents(AdfClass(a)) \o (IF a \in DOMAIN extra THEN extra[a] ELSE <<>>)
ModelFiles == [a \in {"USIM", "ISIM"} |-> IF a \notin ToSet(apps) THEN <<>>
                                          ELSE IF a = "USIM" THEN SjaUsimFiles ELSE SjaIsimFiles]

ApplyModel ==
  /\ pc = "model"
  /\ IF ~card.sja THEN pc' = "eid" /\ UNCHANGED <<files, extra>>
     ELSE IF Refuses(files, SjaFiles) \/ \E a \in {"USIM", "ISIM"} : Refuses(ChildrenOf(a), ModelFiles[a])
     THEN pc' = "raised" /\ UNCHANGED <<files, extra>>
     ELSE files' = AddFiles(files, SjaFiles) /\ extra' = ModelFiles /\ pc' = "eid"
  /\ UNCHANGED <<card, kind, generic, cla, lcla, profile, todo, apps, missed, at, cwd>>

(* The EID is read from the ISD-R if there is one; then a reset.           *)
ReadEid == /\ pc = "eid"
           /\ pc' = "done"
           /\ IF "ISD-R" \in ToSet(apps) THEN at' = "MF" /\ cwd' = "MF" ELSE UNCHANGED <<at, cwd>>
           /\ UNCHANGED <<card, kind, generic, cla, lcla, profile, todo, apps, missed, files, extra>>

Step == \/ StartInit \/ DetectUicc \/ DetectSim \/ TryMatch \/ NoProfile \/ AddApplications
        \/ StartRuntime \/ ProbeAddon \/ ReadDir \/ ListingFails \/ ProbeApp \/ ProbeCut
        \/ Build \/ ApplyModel \/ ReadEid

(* The card stops answering: ProtocolError or NoCardError leaves init_card.*)
Working == {"detect_uicc", "detect_sim", "pick", "runtime", "addons", "probe", "eid"}
Pulled == /\ pc \in Working
          /\ pc' = "lost"
          /\ UNCHANGED <<card, kind, generic, cla, lcla, profile, todo, apps, missed, files, extra, at, cwd>>

-----------------------------------------------------------------------------
(* Add-ons, applications and the EID are probed behind the runtime state's *)
(* back: when init_card returns, the card stands where the basic channel   *)
(* believes it does, which is the MF.                                      *)
StandsAtMF == pc = "done" => at = "MF" /\ cwd = "MF"

(* Whatever was probed with whatever class byte, from the moment add-ons   *)
(* are probed for the card object speaks the class of the profile, and     *)
(* both it and the basic channel one the card understands; theirs differ   *)
(* only when a card that was found to be a SIM has a UICC profile.         *)
SpeaksItsClass == pc \in {"addons", "probe", "model", "eid", "done"} =>
  /\ cla = ClaOf(profile) /\ Accepts(cla) /\ Accepts(lcla)
  /\ lcla # cla => kind = "SIM" /\ ~generic /\ profile \in UiccProfiles

(* The tree has the applications and optional directories of this card: no *)
(* others, and, when the card object is a UICC, all pySim knows, whether   *)
(* EF.DIR could be read or not, but those whose probe got no answer; and   *)
(* each FID once in a directory.                                           *)
Optional == {"DF.GSM", "DF.EIRENE", "DF.CDMA"}
TreeIsTheCards == pc = "done" =>
  /\ ToSet(apps) \subseteq OnCard
  /\ kind = "UICC" => ToSet(apps) = OnCard \ missed
  /\ profile \in UiccProfiles => {files[i].name : i \in DOMAIN files} \cap Optional = card.dfs \cap Optional
  /\ \A d \in {"MF"} \cup ToSet(apps) : LET here == IF d = "MF" THEN files ELSE ChildrenOf(d)
                                       IN  IsInjective([i \in DOMAIN here |-> here[i].fid])

(* No combination of profile, add-ons, applications and card model is      *)
(* refused for two files of one directory that clash: a card that answers  *)
(* is given up only when EF.DIR lists two instances of one application, or *)
(* when the basic channel does not speak the class of the profile.         *)
OnlyTwinsRefused == pc = "raised" => ~IsInjective(card.listed) \/ lcla # cla

(* What init_card leaves behind, or refuses, is right about the card       *)
(* (pySim/app.py:40-137).                                                  *)
InitIsRight == StandsAtMF /\ SpeaksItsClass /\ TreeIsTheCards /\ OnlyTwinsRefused
=============================================================================
