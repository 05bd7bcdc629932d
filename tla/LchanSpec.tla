------------------------------ MODULE LchanSpec ------------------------------
(***************************************************************************)
(* What the callers of a logical channel rely on (pysim_wrapper.py, the    *)
(* commands of pySim-shell), whatever SELECTs it takes: a request to       *)
(* select by name makes the card's current file one that carries the last  *)
(* name asked for, or leaves the card where it was; a request to select a  *)
(* given file ends on it, or fails on the way to it; a reset ends on the   *)
(* MF.  When the link to the card is lost nothing is promised until a      *)
(* reset succeeds.  (That the application select_file() leaves through can *)
(* be selected is an assumption on the card: see the README, Bounds.)      *)
(***************************************************************************)
EXTENDS CardFs

CONSTANTS Paths    \* the name sequences callers ask for

VARIABLES at,      \* the card's current file, as a caller may rely on it
          lost,    \* the link to the card is gone
          req,     \* the request being served
          failed   \* the last request raised an exception

Request == [kind : {"select"}, ids : Paths, file : {NoFile}]
             \cup [kind : {"select_file"}, ids : {<<>>}, file : Files]
NoReq   == [kind |-> "none", ids |-> <<>>, file |-> NoFile]

specVars == <<at, lost, req, failed>>

SpecInit == at = MF /\ lost = FALSE /\ req = NoReq /\ failed = FALSE

Ask == /\ req = NoReq /\ req' \in Request
       /\ failed' = FALSE /\ UNCHANGED <<at, lost>>

Succeed == \/ /\ req.kind = "select"
              /\ \E f \in OnCard : req.ids[Len(req.ids)] \in Ids(f) /\ at' = f
           \/ req.kind = "select_file" /\ at' = req.file

OnTheWay(from, to) == {from} \cup Dirs(from) \cup Dirs(to) \cup FsADFs

Fail == \/ req.kind = "select" /\ at' = at
        \/ req.kind = "select_file" /\ at' \in OnTheWay(at, req.file)

Answer ==
  /\ req # NoReq /\ req' = NoReq /\ UNCHANGED lost
  /\ \/ lost /\ at' \in OnCard /\ failed' \in BOOLEAN
     \/ ~lost /\ Succeed /\ failed' = FALSE
     \/ ~lost /\ Fail /\ failed' = TRUE

Reset ==
  /\ req = NoReq /\ UNCHANGED req
  /\ \/ lost' = FALSE /\ failed' = FALSE /\ at' = MF
     \/ lost' = TRUE /\ failed' = TRUE /\ at' \in OnCard

Lose == lost' = TRUE /\ UNCHANGED <<at, req, failed>>

SpecNext == Ask \/ Answer \/ Reset \/ Lose

Spec == SpecInit /\ [][SpecNext]_specVars
=============================================================================
