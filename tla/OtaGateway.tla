----------------------------- MODULE OtaGateway -----------------------------
(***************************************************************************)
(* OTA commands by SMS: contrib/smpp-ota-tool.py processes (the tools),    *)
(* pySim-smpp2sim.py (the gateway, with the card's proactive commands) and *)
(* the card's OTA application (external), over CatTransport.               *)
(*                                                                         *)
(* The gateway is one thread: while it waits for the card it handles no    *)
(* other PDU, but the tools' clocks run and the link may be lost.          *)
(***************************************************************************)
EXTENDS CatTransport, SmsPdu, Ota

CONSTANTS
  Tools, NoTool,
  Configs,       \* the options a tool may be started with
  CardKeys,      \* key index -> key set of the card
  CardTars,      \* the applications on the card
  Unrelated,     \* the proactive commands it issues of its own accord
  MaxProactive,  \* bound: how many of them
  MaxChannel     \* 8: channels the gateway keeps

ASSUME ToolsShape == NoTool \notin Tools

\* What the parser of the tool's options makes of them.  A character of an
\* address that is no digit is a number outside 0..Filler.
ASSUME ConfigsShape ==
  \A c \in Configs :
    /\ c.len \in Nat /\ c.src \in Seq(Int)
    /\ DOMAIN c.spi = {"ciphering", "rc_cc_ds", "por_in_submit", "por_shall_be_ciphered", "por_rc_cc_ds", "por"}

\* A message the card sends of its own accord is no response packet.
ASSUME UnrelatedShape ==
  \A u \in Unrelated : u.kind = "SendShortMessage" => ~SubmitFromBytes(u.tpdu).ud.rpi

\* The user gave each tool the KID of the card's key set, or the card looks at
\* what the tool signs with it: a command that is not both ciphered and signed
\* is run without.  No assumption of the module.
KidsAreGiven ==
  \A c \in Configs : \/ c.spi.ciphering /\ c.spi.rc_cc_ds = "cc"
                     \/ CardKeys[c.ks.kic_idx].kid = c.ks.kid

VARIABLES
  conf,     \* tool -> its options
  tool,     \* tool -> start, wait, done, failed
  answer,   \* tool -> the decoded response, or Nothing
  submits,  \* tool -> PDUs on their way to the gateway
  inbox,    \* tool -> PDUs on their way to the tool
  gw,       \* starting, serving, dead
  job,      \* the submit_sm being handled, or none
  smpp,     \* hackish_global_smpp: the session of the last PDU, or NoTool
  channels, \* the numbers ProactChannels has given out
  later,    \* PoRs the card has still to submit (external)
  left,     \* bound: how many unrelated commands are left
  ran,      \* history: commands the card has run, [id, over]
  heard,    \* history: the SMS-DELIVER the card parsed last
  por,      \* history: tool -> what the card answered to its ENVELOPE
  accepted  \* history: tools whose ENVELOPE the card has accepted

toolvars == <<conf, tool, answer>>
netvars  == <<submits, inbox>>
gwvars   == <<gw, job, smpp, channels>>
history  == <<ran, heard, por, accepted>>
vars == <<cardvars, linkvars, toolvars, netvars, gwvars, later, left, history>>

NoJob == [owner |-> NoTool]

Init ==
  /\ LinkInit
  /\ conf \in [Tools -> Configs]
  /\ tool = [t \in Tools |-> "start"] /\ answer = [t \in Tools |-> Nothing]
  /\ submits = [t \in Tools |-> <<>>] /\ inbox = [t \in Tools |-> <<>>]
  /\ gw = "starting" /\ job = NoJob /\ smpp = NoTool /\ channels = {}
  /\ later = <<>> /\ left = MaxProactive
  /\ ran = {} /\ heard = Nothing /\ por = [t \in Tools |-> Nothing] /\ accepted = {}
-----------------------------------------------------------------------------
(* The tool.                                                               *)

\* its connection is gone once it has ended: nothing reaches it any more
Listening(t) == tool[t] = "wait"
Put(box, t, p) == IF Listening(t) THEN [box EXCEPT ![t] = Append(@, p)] ELSE box

\* transceive_apdu up to send_message
Submit(t) ==
  LET c == conf[t]
      p == EncodeCmd(c.ks, c.tar, c.spi, [id |-> t, len |-> c.len])
  IN /\ tool[t] = "start"
     /\ IF Raised(p) THEN tool' = [tool EXCEPT ![t] = "failed"] /\ UNCHANGED submits
        ELSE /\ tool' = [tool EXCEPT ![t] = "wait"]
             /\ submits' = [submits EXCEPT ![t] = Append(@,
                  [owner |-> t, id |-> c.pdu, src |-> [digits |-> c.src, ton |-> "INTERNATIONAL", npi |-> "UNKNOWN"],
                   dst |-> [digits |-> <<2, 3>>, ton |-> "INTERNATIONAL", npi |-> "UNKNOWN"],
                   dcs |-> c.dcs, pid |-> c.pid, udhi |-> TRUE, ud |-> p, udl |-> 3 + p.len])]
     /\ UNCHANGED <<cardvars, linkvars, conf, answer, inbox, gwvars, later, left, history>>

\* message_received_handler: once as the tool expects the response, once as
\* a card that could not read the command would have sent it
Received(t, m) ==
  LET c   == conf[t]
      dec == DecodeResp(c.ks, c.spi, m)
      plain == [c.spi EXCEPT !.por_shall_be_ciphered = FALSE, !.por_rc_cc_ds = "no_rc_cc_ds"]
  IN IF Raised(dec) /\ dec.error = "ValueError" THEN DecodeResp(c.ks, plain, m) ELSE dec

\* poll takes the next PDU.  An error status, or an exception of the handler,
\* ends the tool; an empty message is not looked at.
Poll(t) ==
  LET p == Head(inbox[t]) IN
  /\ Listening(t) /\ inbox[t] # <<>>
  /\ inbox' = [inbox EXCEPT ![t] = Tail(@)]
  /\ IF p.kind = "resp"
     THEN /\ tool' = [tool EXCEPT ![t] = IF p.status = "ESME_ROK" THEN @ ELSE "failed"]
          /\ UNCHANGED answer
     ELSE IF p.ud = Nothing THEN UNCHANGED <<tool, answer>>
     ELSE LET r == Received(t, p.ud) IN
          IF Raised(r) THEN tool' = [tool EXCEPT ![t] = "failed"] /\ UNCHANGED answer
          ELSE answer' = [answer EXCEPT ![t] = r] /\ UNCHANGED tool
  /\ UNCHANGED <<cardvars, linkvars, conf, submits, gwvars, later, left, history>>

\* the last response data and status word are taken from the response, if it
\* has any
Finished(t) ==
  /\ Listening(t) /\ answer[t] # Nothing
  /\ tool' = [tool EXCEPT ![t] = IF answer[t].dec = "none" THEN "failed" ELSE "done"]
  /\ inbox' = [inbox EXCEPT ![t] = <<>>]
  /\ UNCHANGED <<cardvars, linkvars, conf, answer, submits, gwvars, later, left, history>>

\* looked at after every poll, also after the one that brought the response
TimeUp(t) ==
  /\ Listening(t)
  /\ tool' = [tool EXCEPT ![t] = "failed"] /\ inbox' = [inbox EXCEPT ![t] = <<>>]
  /\ UNCHANGED <<cardvars, linkvars, conf, answer, submits, gwvars, later, left, history>>
-----------------------------------------------------------------------------
(* The card's OTA application (external).                                  *)

CardStatus(p) ==
  LET ks == CardKeys[p.head.kic.key]
      d  == DecodeCmd(ks, p)
  IN IF p.head.spi.ciphering /\ p.head.spi.rc_cc_ds # "rc" /\ Raised(d) THEN "rc_cc_ds_failed"
     ELSE IF p.head.tar \notin CardTars THEN "tar_unknown" ELSE "por_ok"

Over(p) == IF p.head.spi.ciphering /\ p.head.spi.rc_cc_ds # "rc"
           THEN DecodeCmd(CardKeys[p.head.kic.key], p).over ELSE 0

\* An error is told in the clear, without checksum and data.
Response(p, status) ==
  LET ks  == CardKeys[p.head.kic.key]
      spi == p.head.spi
      sig == IF spi.por_rc_cc_ds = "cc" THEN 8 ELSE 0
      n   == 7 + sig + 5
      pad == IF spi.por_shall_be_ciphered THEN Padding(n, CryptBlock[ks.algo_crypt]) ELSE 0
      dat == [id |-> p.body.plain.data.id, len |-> 5]
      sum == [tar |-> p.head.tar, rhl |-> 10 + sig, cntr |-> 0, status |-> status, data |-> dat, pcntr |-> pad]
      b   == [cntr |-> 0, pcntr |-> pad, status |-> status, data |-> dat,
              check |-> IF sig = 0 THEN [of |-> 0] ELSE Sign(ks, sum, 3 + 6 + n + pad)]
      none == [b EXCEPT !.pcntr = 0, !.data = [id |-> "none", len |-> 0], !.check = [of |-> 0]]
  IN IF status # "por_ok"
     THEN [udhl |-> 2, rpi |-> TRUE, tar |-> p.head.tar, rhl |-> 10, body |-> Clear(none), len |-> 7]
     ELSE [udhl |-> 2, rpi |-> TRUE, tar |-> p.head.tar, rhl |-> 10 + sig, len |-> n + pad,
           body |-> IF spi.por_shall_be_ciphered THEN Encrypt(ks, b, n) ELSE Clear(b)]

Wanted(p, status) == p.head.spi.por = "por_required"
                       \/ (p.head.spi.por = "por_only_when_error" /\ status # "por_ok")

\* a response in two parts; what the receiver makes of the parts it got
Parts(m) == <<[of |-> m, part |-> 1], [of |-> m, part |-> 2]>>
Garbage == [udhl |-> 0, rpi |-> FALSE, tar |-> "none", rhl |-> 0, len |-> 0, body |-> Clear(0)]
Joined(d) == IF d = <<>> THEN Nothing
             ELSE IF d = Parts(d[1].of) THEN d[1].of ELSE Garbage

Command(kind) == [kind |-> kind]
SendSms(m)    == [kind |-> "SendShortMessage", tpdu |->
  SubmitToBytes([rd |-> FALSE, vpf |-> "none", rp |-> FALSE, udhi |-> TRUE, srr |-> FALSE, mr |-> 0,
    da |-> [digits |-> <<1, 2, 7>>, ton |-> "international", npi |-> "isdn_e164"],
    pid |-> 127, dcs |-> BinaryDcs, vp |-> <<>>, udl |-> 3 + m.len, ud |-> m])]

\* what the card may add to its proactive commands while it handles an APDU
Adds == {<<>>} \cup (IF left > 0 THEN {<<u>> : u \in Unrelated} ELSE {})
             \cup (IF later # <<>> THEN {<<SendSms(Head(later))>>} ELSE {})
Added(q) == /\ left'  = IF q # <<>> /\ q[1] \in Unrelated THEN left - 1 ELSE left
            /\ later' = IF q # <<>> /\ q[1] \notin Unrelated THEN Tail(later) ELSE later
-----------------------------------------------------------------------------
(* The gateway.                                                            *)

\* connect_to_card: TERMINAL PROFILE, before the reactor runs
StartUp ==
  /\ gw = "starting" /\ stage = "idle" /\ result = "none"
  /\ IF ~alive THEN Raises /\ UNCHANGED <<out, queue, left, later>>
     ELSE \E q \in Adds : Exchange("command", Final(q), <<>>, q) /\ Added(q) /\ UNCHANGED rv
  /\ UNCHANGED <<alive, fetched, toolvars, netvars, gwvars, history>>

Started ==
  /\ gw = "starting" /\ stage = "idle" /\ result # "none"
  /\ gw' = IF result = "ok" THEN "serving" ELSE "dead"
  /\ result' = "none"
  /\ UNCHANGED <<cardvars, stage, data, sw, rv, toolvars, netvars, job, smpp, channels, later, left, history>>

Reply(box, t, status) == Put(box, t, [kind |-> "resp", status |-> status])

\* handle_submit_sm before the card is asked: "" when it is to be asked.  An
\* address that is no number cannot be encoded: an exception.
Refusal(p) ==
  IF p.id # "submit_sm" THEN "ESME_RINVCMDID"
  ELSE IF p.dcs \notin Eightbit \/ p.pid # 127 THEN "ESME_RINVDCS"
  ELSE IF ~IsDigits(p.src.digits) THEN "exception" ELSE ""

Deliver(p) == DeliverToBytes(DeliverFromSmpp(p))

\* the ENVELOPE reaches the card: busy, an error, or run with its response
Run(p, q) ==
  LET s == CardStatus(p.ud)
      m == Response(p.ud, s)
      direct == Wanted(p.ud, s) /\ ~p.ud.head.spi.por_in_submit
      bysms  == Wanted(p.ud, s) /\ p.ud.head.spi.por_in_submit
  IN /\ ran' = IF s = "por_ok" THEN ran \cup {[id |-> p.ud.body.plain.data.id, over |-> Over(p.ud)]} ELSE ran
     /\ accepted' = accepted \cup {p.owner}
     /\ por' = [por EXCEPT ![p.owner] = IF direct THEN m ELSE Nothing]
     /\ left' = IF q # <<>> THEN left - 1 ELSE left
     /\ IF direct
        THEN /\ later' = later
             /\ \E w \in {Sw("61", 2), Sw("9f", 2), Sw("62", 0), Sw("62", 131)} :
                  Exchange("command", w, Parts(m), q)
        ELSE \/ bysms /\ later' = Append(later, m) /\ Exchange("command", Final(q), <<>>, q)
             \/ later' = later
                /\ LET n == IF bysms THEN Append(q, SendSms(m)) ELSE q
                   IN Exchange("command", Final(n), <<>>, n)

Handle(t) ==
  LET p == Head(submits[t])
      r == Refusal(p)
  IN /\ gw = "serving" /\ job = NoJob /\ submits[t] # <<>>
     /\ submits' = [submits EXCEPT ![t] = Tail(@)] /\ smpp' = t
     /\ IF r # ""
        THEN /\ inbox' = Reply(inbox, t, r)
             /\ UNCHANGED <<cardvars, linkvars, later, left, history, job>>
        ELSE /\ job' = p /\ heard' = DeliverFromBytes(Deliver(p)) /\ UNCHANGED <<inbox, rv>>
             /\ \/ /\ ~alive /\ stage' = "idle" /\ result' = "raised"
                   /\ UNCHANGED <<data, sw, out, queue, later, left, ran, por, accepted>>
                \/ /\ alive
                   /\ \E w \in {Sw("93", 0), Sw("6f", 0), Sw("63", 0)} : Exchange("command", w, <<>>, queue)
                   /\ UNCHANGED <<later, left, ran, por, accepted>>
                \/ /\ alive
                   /\ \E q \in {<<>>} \cup (IF left > 0 THEN {<<u>> : u \in Unrelated} ELSE {}) : Run(p, q)
             /\ fetched' = Nothing    \* the card gives up on one that was not answered
             /\ UNCHANGED alive
     /\ UNCHANGED <<toolvars, gw, channels>>

\* The card's answer goes back as a message, then the submit_sm_resp.  The
\* status word is 9000 here, for anything else has raised; an exception is
\* answered with an error by the SMPP library (external).
Done ==
  LET t == job.owner
      m == Joined(rv)
  IN /\ gw = "serving" /\ job # NoJob /\ stage = "idle" /\ result # "none"
     /\ job' = NoJob /\ result' = "none" /\ rv' = <<>>
     /\ inbox' = IF result = "ok"
                 THEN Reply(Put(inbox, t, [kind |-> "report", ud |-> m]), t, "ESME_ROK")
                 ELSE Reply(inbox, t, "exception")
     /\ UNCHANGED <<cardvars, stage, data, sw, toolvars, submits, gw, smpp, channels, later, left, history>>
-----------------------------------------------------------------------------
(* Its proactive commands: handle_<command>, by the name of its class.     *)

Answered == {"SetUpEventList", "SendData", "ReceiveData"}

\* the card takes the answer, and may have more
Answer == \E q \in Adds : Respond(queue \o q) /\ IF alive THEN Added(q) ELSE UNCHANGED <<left, later>>

HandleAnswered ==
  /\ stage = "handle" /\ fetched.kind \in Answered
  /\ Answer
  /\ UNCHANGED <<alive, toolvars, netvars, gwvars, history>>

\* no free number is a ValueError; a channel is never deleted
HandleOpenChannel ==
  LET free == 1..MaxChannel \ channels IN
  /\ stage = "handle" /\ fetched.kind = "OpenChannel"
  /\ IF free = {} THEN Raises /\ UNCHANGED <<cardvars, channels, left, later>>
     ELSE channels' = channels \cup {CHOOSE n \in free : \A m \in free : n <= m} /\ Answer
  /\ UNCHANGED <<alive, toolvars, netvars, gw, job, smpp, history>>

\* The message goes to whoever spoke to the gateway last; at start-up there
\* is nobody, an exception.  The handler returns nothing, and the answer
\* that is made up for it cannot be built: an exception, too.
HandleSendShortMessage ==
  LET s == SubmitFromBytes(fetched.tpdu)
      m == DeliverToSmpp(DeliverFromSubmit(s))
  IN /\ stage = "handle" /\ fetched.kind = "SendShortMessage"
     /\ inbox' = IF s.dcs = BinaryDcs /\ smpp # NoTool
                 THEN Put(inbox, smpp, [kind |-> "mo", ud |-> m.ud, pid |-> m.pid]) ELSE inbox
     /\ Raises
     /\ UNCHANGED <<cardvars, toolvars, submits, gwvars, later, left, history>>

\* CloseChannel has a handler that returns nothing; the others have none:
\* the method for GET CHANNEL STATUS is not called handle_GetChannelStatus
HandleNot ==
  /\ stage = "handle"
  /\ fetched.kind \notin Answered \cup {"OpenChannel", "SendShortMessage"}
  /\ Raises
  /\ UNCHANGED <<cardvars, toolvars, netvars, gwvars, later, left, history>>
-----------------------------------------------------------------------------
Link == LinkStep /\ UNCHANGED <<toolvars, netvars, gwvars, later, left, history>>
LinkLost == Lost /\ UNCHANGED <<toolvars, netvars, gwvars, later, left, history>>

GatewayStep == \/ StartUp \/ Started \/ Done \/ Link
               \/ HandleAnswered \/ HandleOpenChannel \/ HandleSendShortMessage \/ HandleNot

Next == \/ GatewayStep \/ LinkLost
        \/ \E t \in Tools : Submit(t) \/ Poll(t) \/ Finished(t) \/ TimeUp(t) \/ Handle(t)

Spec == Init /\ [][Next]_vars
-----------------------------------------------------------------------------
(* Properties.                                                             *)

\* A command the card has run is the one a tool was given, with every octet
\* of padding taken off again, whatever its length, ciphering and checksum:
\* encode_cmd counts the padding, encrypt pads, PCNTR says how much.
CardRunsWhatWasSent == \A r \in ran : r.id \in Tools /\ r.over = 0

\* When both tools ask for a signed PoR with keys of their own, a tool that
\* prints a response prints the one to its own command, also when PoRs come
\* by SMS, late, and to the tool that spoke to the gateway last.
SignedAnswerIsMine ==
  (/\ \A t \in Tools : conf[t].spi.por_rc_cc_ds = "cc"
   /\ \A t, u \in Tools : t # u => conf[t].ks.kid # conf[u].ks.kid)
  => \A t \in Tools : tool[t] = "done" => answer[t].dec = t

\* The message a tool gets for its ENVELOPE is all of what the card answered
\* to it: the parts GET RESPONSE had to be sent for, and nothing of the
\* proactive commands that were handled before the call returned.
RelayedIsWhole ==
  \A t \in Tools : \A i \in DOMAIN inbox[t] :
    inbox[t][i].kind = "report" => inbox[t][i].ud = por[t]

\* ESME_ROK means the card has accepted the message: busy and errors are
\* reported as such.
OkMeansAccepted ==
  \A t \in Tools : \A i \in DOMAIN inbox[t] :
    inbox[t][i] = [kind |-> "resp", status |-> "ESME_ROK"] => t \in accepted

\* What the card finds in the SMS-DELIVER is what the ESME submitted:
\* originator, protocol, UDH flag and user data.
MessageArrives ==
  stage = "command" /\ job # NoJob =>
    /\ heard.oa = FromSmpp(job.src.digits, job.src.ton, job.src.npi)
    /\ heard.pid = job.pid /\ heard.udhi = job.udhi /\ heard.ud = job.ud /\ heard.udl = job.udl

\* A command gets to the card as it was submitted and runs as it was given.
CommandArrives == MessageArrives /\ CardRunsWhatWasSent

\* A tool is told what the card answered, and OK only when it accepted.
AnswerArrives == RelayedIsWhole /\ OkMeansAccepted
=============================================================================
