---------------------------- MODULE CatTransport ----------------------------
(***************************************************************************)
(* pySim/transport/__init__.py: one APDU through send_apdu_checksw over a  *)
(* T=0 link, with GET RESPONSE below it and the proactive commands of the  *)
(* card (FETCH, handler, TERMINAL RESPONSE) above it.                      *)
(*                                                                         *)
(* A TPDU and the card's reply are one step.  A status word is [c, n]: SW1 *)
(* and, where it counts something, SW2.  The card is external: `out` is    *)
(* the response it holds for GET RESPONSE, `queue` its proactive commands, *)
(* `fetched` the one that has no TERMINAL RESPONSE yet.                    *)
(***************************************************************************)
EXTENDS Integers, Sequences, SequencesExt

VARIABLES
  alive,   \* the link works (external)
  out, queue, fetched,
  stage,   \* what send_apdu_checksw is at: idle, command, fetch, handle, answer
  data, sw, \* what the running APDU has returned so far
  rv,      \* the data of the command, kept over its proactive commands
  result   \* how the last call ended: none, ok, or raised

cardvars == <<alive, out, queue, fetched>>
linkvars == <<stage, data, sw, rv, result>>

Nothing == [none |-> TRUE]
Sw(c, n) == [c |-> c, n |-> n]
NoSw == Sw("none", 0)
Final(q) == Sw(IF q = <<>> THEN "90" ELSE "91", 0)

LinkInit ==
  /\ alive = TRUE /\ out = <<>> /\ queue = <<>> /\ fetched = Nothing
  /\ stage = "idle" /\ data = <<>> /\ sw = NoSw /\ rv = <<>> /\ result = "none"

Finish(r, d) == stage' = "idle" /\ result' = r /\ rv' = d /\ data' = <<>> /\ sw' = NoSw
Raises == Finish("raised", <<>>)

\* The APDU `a` of stage s is sent and the card replies with w; `o` is what
\* it has for GET RESPONSE and q its proactive commands from now on.
Exchange(s, w, o, q) ==
  /\ stage' = s /\ data' = <<>> /\ sw' = w /\ out' = o /\ queue' = q /\ UNCHANGED <<alive, result>>

\* the link is lost: whatever is sent next raises
Lost == alive /\ alive' = FALSE /\ UNCHANGED <<out, queue, fetched, linkvars>>
-----------------------------------------------------------------------------
(* T=0.                                                                    *)

Again == {"9f", "61", "62", "63"}

\* GET RESPONSE for n octets, 0 for as many as there are: what the card
\* (external) may reply
Replies(n) ==
  IF out = <<>> THEN {[d |-> <<>>, o |-> <<>>, w |-> Sw("6f", 0)]}
  ELSE IF n \in {0, Len(out)}
  THEN {[d |-> out, o |-> <<>>, w |-> Final(queue)]}
       \cup IF Len(out) = 1 THEN {}
            ELSE {[d |-> <<Head(out)>>, o |-> Tail(out), w |-> Sw("61", Len(out) - 1)]}
  ELSE {[d |-> <<>>, o |-> out, w |-> Sw("6c", Len(out))]}

\* Mutant: only the last part of the response is kept.
GetResponse_LastPart ==
  /\ stage \in {"command", "fetch", "answer"} /\ sw.c \in Again
  /\ IF ~alive THEN Raises /\ UNCHANGED out
     ELSE \E r \in Replies(sw.n) :
            /\ data' = r.d /\ out' = r.o /\ sw' = r.w
            /\ UNCHANGED <<stage, rv, result>>
  /\ UNCHANGED <<alive, queue, fetched>>

GetResponse ==
  /\ stage \in {"command", "fetch", "answer"} /\ sw.c \in Again
  /\ IF ~alive THEN Raises /\ UNCHANGED out
     ELSE \E r \in Replies(sw.n) :
            /\ data' = data \o r.d /\ out' = r.o /\ sw' = r.w
            /\ UNCHANGED <<stage, rv, result>>
  /\ UNCHANGED <<alive, queue, fetched>>

\* a wrong length: once more with the one the card names; the data of the
\* loop before is replaced
WrongLength ==
  /\ stage \in {"command", "fetch", "answer"} /\ sw.c = "6c"
  /\ IF ~alive THEN Raises /\ UNCHANGED out
     ELSE \E r \in Replies(sw.n) :
            /\ r.o = <<>>     \* asked for what it offered, the card gives all of it
            /\ data' = r.d /\ out' = r.o /\ sw' = r.w
            /\ UNCHANGED <<stage, rv, result>>
  /\ UNCHANGED <<alive, queue, fetched>>
-----------------------------------------------------------------------------
(* send_apdu_checksw.                                                      *)

Returned == sw.c \notin Again \cup {"6c", "none"}

\* FETCH: the head of the queue, which may not be had
Fetch(kept) ==
  IF ~alive THEN Raises /\ UNCHANGED <<out, queue, fetched>>
  ELSE \/ /\ stage' = "fetch" /\ sw' = Sw("90", 0) /\ data' = <<Head(queue)>>
          /\ fetched' = Head(queue) /\ queue' = Tail(queue)
          /\ rv' = kept /\ UNCHANGED <<out, result>>
       \/ /\ stage' = "fetch" /\ sw' = Sw("6f", 0) /\ data' = <<>>
          /\ rv' = kept /\ UNCHANGED <<out, queue, fetched, result>>

CommandReturned ==
  /\ stage = "command" /\ Returned
  /\ IF sw.c = "91" THEN Fetch(data)
     ELSE /\ IF sw.c = "90" THEN Finish("ok", data) ELSE Raises
          /\ UNCHANGED <<out, queue, fetched>>
  /\ UNCHANGED alive

\* the FETCH has its own check; its data goes to the handler
FetchReturned ==
  /\ stage = "fetch" /\ Returned
  /\ IF sw.c = "90" THEN stage' = "handle" /\ UNCHANGED <<data, sw, rv, result>> ELSE Raises
  /\ UNCHANGED cardvars

\* the handler's answer is sent as TERMINAL RESPONSE; the card's status for
\* it only matters when it says that there is more
Respond(q) ==
  IF alive
  THEN /\ fetched' = Nothing /\ UNCHANGED rv
       /\ \E w \in {Final(q), Sw("6f", 0)} : Exchange("answer", w, <<>>, q)
  ELSE Raises /\ UNCHANGED cardvars

AnswerReturned ==
  /\ stage = "answer" /\ Returned
  /\ IF sw.c = "91" THEN Fetch(rv)
     ELSE Finish("ok", rv) /\ UNCHANGED <<out, queue, fetched>>
  /\ UNCHANGED alive

LinkStep == GetResponse \/ WrongLength \/ CommandReturned \/ FetchReturned \/ AnswerReturned
=============================================================================
