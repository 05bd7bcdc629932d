------------------------- MODULE RspSession_proofs -------------------------
(***************************************************************************)
(* Proofs about RspSession, for any eUICCs, profiles, transaction ids and  *)
(* number of requests and incidents: what is in a session is what one      *)
(* authentication put there, a package is for what its eUICC confirmed,    *)
(* a session that was closed does not come back, and a client installs the *)
(* profile it asked for last.                                              *)
(***************************************************************************)
EXTENDS RspSession, TLAPS

Session ==
  [known : {TRUE}, serverChallenge : TransactionIds, euicc_cert : Euiccs \cup {Unset},
   matchingId : Profiles \cup {Unset}, profileMetadata : Nat, smdpSignature2 : Nat, euicc_otpk : Nat]

ClientStates ==
  {Idle, "initiated", "authenticated", "received", "installing", "installed", "failed"}

Client ==
  [state : ClientStates, awaits : Nat, txn : TransactionIds \cup {Unset},
   want : Profiles \cup {Unset}, sig2 : Nat, otpk : Nat, got : Profiles \cup {Unset}]

Signature == [txn : TransactionIds, euicc : Euiccs, matchingId : Profiles, contents : Nat]

\* A request as a client sends it.
Asked(r) ==
  /\ r.euicc \in Euiccs /\ r.nr \in Nat
  /\ r.kind = "authenticate" => r.matchingId \in Profiles
  /\ r.kind = "getbpp" => r.over \in Nat /\ r.otpk \in Nat

StoreOK ==
  /\ rss \in [TransactionIds -> Session \cup {NoSession}]
  /\ upps \subseteq Profiles /\ fresh \subseteq TransactionIds
  /\ closed \subseteq TransactionIds
  /\ signed2 \in Seq(Signature)
  /\ incidents \in 0..MaxIncidents
  /\ version \in [Profiles -> Nat]

\* Nobody has confirmed what is not in the directory yet.
NotAhead == \A i \in 1..Len(signed2) : signed2[i].contents <= version[signed2[i].matchingId]

ClientsOK ==
  /\ sent \in Nat
  /\ lpa \in [Euiccs -> Client]
  /\ \A e \in Euiccs : lpa[e].awaits <= sent
  /\ \A r \in net : Asked(r)

\* smdpSignature2 was made for the request, and for what it will be given.
Confirmed(b) ==
  /\ b.req.over \in 1..Len(signed2)
  /\ signed2[b.req.over] = [txn |-> b.req.txn, euicc |-> b.req.euicc, matchingId |-> b.matchingId, contents |-> b.metadata]
  /\ b.contents \in b.metadata..version[b.matchingId]

\* What is about to be handed out was confirmed already.
PackageOK ==
  enc.state # Idle =>
    /\ Confirmed(parcel)
    /\ parcel.req.euicc \in Euiccs /\ parcel.matchingId \in Profiles

\* Every id is in one of three conditions: not yielded yet, open, closed.
IdsOK ==
  /\ \A t \in fresh : ~ Known(t) /\ t \notin closed
  /\ ClosedStaysClosed

SessionOK(t) ==
  \/ rss[t].euicc_cert = Unset /\ rss[t].matchingId = Unset /\ rss[t].smdpSignature2 = 0
  \/ /\ rss[t].smdpSignature2 \in 1..Len(signed2)
     /\ signed2[rss[t].smdpSignature2] =
          [txn |-> t, euicc |-> rss[t].euicc_cert, matchingId |-> rss[t].matchingId, contents |-> rss[t].profileMetadata]
SessionsOK == \A t \in TransactionIds : Known(t) => SessionOK(t)

IInv ==
  /\ StoreOK /\ ClientsOK /\ PackageOK /\ IdsOK /\ SessionsOK /\ NotAhead
  /\ ConfirmedProfile

-----------------------------------------------------------------------------
\* The initial states satisfy the invariant.
LEMMA InitIInv == RspInit => IInv
<1> SUFFICES ASSUME RspInit PROVE IInv
  OBVIOUS
<1>1. StoreOK
  BY RspAssumption DEF RspInit, StoreOK, Session
<1>2. ClientsOK
  <2> NoClient \in Client /\ NoClient.awaits = 0
    BY DEF NoClient, Client, ClientStates, Idle
  <2> QED  BY DEF RspInit, ClientsOK
<1>3. PackageOK /\ ConfirmedProfile
  BY DEF RspInit, BspInit, PackageOK, ConfirmedProfile, NoEncoder
<1>4. IdsOK /\ SessionsOK /\ NotAhead
  BY DEF RspInit, IdsOK, ClosedStaysClosed, SessionsOK, NotAhead, Known, NoSession
<1> QED  BY <1>1, <1>2, <1>3, <1>4 DEF IInv

\* What does not touch the server's books keeps what is said of them.
LEMMA BooksStay ==
  IInv /\ UNCHANGED <<rss, upps, version, fresh, signed2, closed>> /\ incidents' \in 0..MaxIncidents
  => StoreOK' /\ IdsOK' /\ SessionsOK' /\ NotAhead'
BY DEF IInv, StoreOK, IdsOK, ClosedStaysClosed, SessionsOK, SessionOK, NotAhead, Known

\* Nothing was handed out, and no package begun.
LEMMA PackagesStay ==
  IInv /\ UNCHANGED <<signed2, version, enc, parcel, issued>> => PackageOK' /\ ConfirmedProfile'
BY DEF IInv, PackageOK, Confirmed, ConfirmedProfile

-----------------------------------------------------------------------------
(* The clients.                                                            *)

\* A client with other values in some of its fields is a client.
LEMMA ClientFields ==
  ASSUME NEW c \in Client, NEW s \in ClientStates, NEW n \in Nat, NEW m \in Nat,
         NEW t \in TransactionIds, NEW p \in Profiles
  PROVE  /\ [c EXCEPT !.awaits = n] \in Client
         /\ [c EXCEPT !.state = s] \in Client
         /\ [[c EXCEPT !.state = s, !.want = p] EXCEPT !.awaits = n] \in Client
         /\ [[c EXCEPT !.otpk = m] EXCEPT !.awaits = n] \in Client
         /\ [[c EXCEPT !.state = s, !.txn = t] EXCEPT !.awaits = n] \in Client
         /\ [[c EXCEPT !.state = s, !.sig2 = m] EXCEPT !.awaits = n] \in Client
         /\ [[c EXCEPT !.state = s, !.got = p] EXCEPT !.awaits = n] \in Client
         /\ [[NoClient EXCEPT !.want = p] EXCEPT !.awaits = n] \in Client
         /\ [NoClient EXCEPT !.awaits = n] \in Client
         /\ [c EXCEPT !.state = s].awaits = c.awaits
BY DEF Client, ClientStates, NoClient, Idle

\* One client changes, and waits for no later request than was sent.
LEMMA OneClient ==
  ASSUME ClientsOK, NEW e \in Euiccs, NEW c \in Client, c.awaits <= sent',
         lpa' = [lpa EXCEPT ![e] = c], sent' \in Nat, sent <= sent',
         \A r \in net' : Asked(r)
  PROVE  ClientsOK'
<1> \A x \in Euiccs : lpa[x].awaits \in Nat
  BY DEF ClientsOK, Client
<1> QED  BY DEF ClientsOK, Asked

\* A request that is sent is one a client sends.
LEMMA SendStep ==
  ASSUME IInv, NEW e \in Euiccs, NEW req, NEW after,
         Send(req, e, after), Asked(req),
         [after EXCEPT !.awaits = sent + 1] \in Client,
         [after EXCEPT !.awaits = sent + 1].awaits = sent + 1
  PROVE  IInv'
<1>1. ClientsOK'
  <2> DEFINE c == [after EXCEPT !.awaits = sent + 1]
  <2>1. /\ ClientsOK /\ sent \in Nat /\ sent' \in Nat /\ sent <= sent' /\ sent' = sent + 1
        /\ lpa' = [lpa EXCEPT ![e] = c]
    BY DEF IInv, ClientsOK, Send
  <2>2. \A r \in net' : Asked(r)
    BY DEF IInv, ClientsOK, Send
  <2>3. c \in Client /\ c.awaits <= sent'
    BY <2>1
  <2> HIDE DEF c
  <2> QED  BY <2>1, <2>2, <2>3, OneClient
<1>2. StoreOK' /\ IdsOK' /\ SessionsOK' /\ NotAhead'
  BY BooksStay DEF Send, server, IInv, StoreOK
<1>3. PackageOK' /\ ConfirmedProfile'
  BY PackagesStay DEF Send, server, bspVars
<1> QED  BY <1>1, <1>2, <1>3 DEF IInv

\* Asking changes the client and the net, as one request is sent.
LEMMA AskStep ==
  ASSUME IInv, NEW e \in Euiccs,
         AskInitiate(e) \/ AskAuthenticate(e) \/ AskGetBpp(e) \/ AskCancel(e) \/ AskNotify(e)
  PROVE  IInv'
<1>0. /\ lpa[e] \in Client /\ sent + 1 \in Nat
      /\ lpa[e].sig2 \in Nat
  BY DEF IInv, ClientsOK, Client
<1>1. CASE AskInitiate(e)
  <2>1. PICK p \in Profiles :
          Send([kind |-> "initiate", euicc |-> e, nr |-> sent + 1], e, [NoClient EXCEPT !.want = p])
    BY <1>1 DEF AskInitiate
  <2>2. [[NoClient EXCEPT !.want = p] EXCEPT !.awaits = sent + 1] \in Client
    BY <1>0 DEF Client, ClientStates, NoClient, Idle
  <2>3. [[NoClient EXCEPT !.want = p] EXCEPT !.awaits = sent + 1].awaits = sent + 1
    BY DEF NoClient
  <2>4. Asked([kind |-> "initiate", euicc |-> e, nr |-> sent + 1])
    BY <1>0 DEF Asked
  <2> QED  BY <2>1, <2>2, <2>3, <2>4, SendStep
<1>2. CASE AskAuthenticate(e)
  <2>1. PICK p \in Profiles :
          Send([kind |-> "authenticate", euicc |-> e, nr |-> sent + 1, txn |-> lpa[e].txn,
                serverChallenge |-> lpa[e].txn, matchingId |-> p], e,
               [lpa[e] EXCEPT !.state = "initiated", !.want = p])
    BY <1>2 DEF AskAuthenticate
  <2>2. [[lpa[e] EXCEPT !.state = "initiated", !.want = p] EXCEPT !.awaits = sent + 1] \in Client
    BY <1>0 DEF Client, ClientStates
  <2>3. [[lpa[e] EXCEPT !.state = "initiated", !.want = p] EXCEPT !.awaits = sent + 1].awaits = sent + 1
    BY <1>0 DEF Client
  <2>4. Asked([kind |-> "authenticate", euicc |-> e, nr |-> sent + 1, txn |-> lpa[e].txn,
               serverChallenge |-> lpa[e].txn, matchingId |-> p])
    BY <1>0 DEF Asked
  <2> QED  BY <2>1, <2>2, <2>3, <2>4, SendStep
<1>3. CASE AskGetBpp(e)
  <2>1. Send([kind |-> "getbpp", euicc |-> e, nr |-> sent + 1, txn |-> lpa[e].txn,
              over |-> lpa[e].sig2, otpk |-> sent + 1], e, [lpa[e] EXCEPT !.otpk = sent + 1])
    BY <1>3 DEF AskGetBpp
  <2>2. [[lpa[e] EXCEPT !.otpk = sent + 1] EXCEPT !.awaits = sent + 1] \in Client
    BY <1>0 DEF Client, ClientStates
  <2>3. [[lpa[e] EXCEPT !.otpk = sent + 1] EXCEPT !.awaits = sent + 1].awaits = sent + 1
    BY <1>0 DEF Client
  <2>4. Asked([kind |-> "getbpp", euicc |-> e, nr |-> sent + 1, txn |-> lpa[e].txn,
               over |-> lpa[e].sig2, otpk |-> sent + 1])
    BY <1>0 DEF Asked
  <2> QED  BY <2>1, <2>2, <2>3, <2>4, SendStep
<1>4. CASE AskCancel(e) \/ AskNotify(e)
  <2> DEFINE req(kind) == [kind |-> kind, euicc |-> e, nr |-> sent + 1, txn |-> lpa[e].txn]
  <2>1. Send(req("cancel"), e, lpa[e]) \/ Send(req("notify"), e, lpa[e])
    BY <1>4 DEF AskCancel, AskNotify
  <2>2. [lpa[e] EXCEPT !.awaits = sent + 1] \in Client
    BY <1>0 DEF Client
  <2>3. [lpa[e] EXCEPT !.awaits = sent + 1].awaits = sent + 1
    BY <1>0 DEF Client
  <2>4. Asked(req("cancel")) /\ Asked(req("notify"))
    BY <1>0 DEF Asked
  <2> QED  BY <2>1, <2>2, <2>3, <2>4, SendStep
<1> QED  BY <1>1, <1>2, <1>3, <1>4

\* The client's own steps send nothing and leave the SM-DP+ alone; only the
\* end of an installation lets go of a package.
LEMMA OwnStep ==
  ASSUME IInv, NEW e \in Euiccs, GiveUp(e) \/ Install(e) \/ Installed(e)
  PROVE  IInv'
<1>0. lpa[e] \in Client /\ sent \in Nat /\ lpa[e].awaits <= sent /\ lpa[e].awaits \in Nat
  BY DEF IInv, ClientsOK, Client
<1>1. PICK c \in Client : lpa' = [lpa EXCEPT ![e] = c] /\ c.awaits <= sent
  <2>1. CASE GiveUp(e)
    <3> DEFINE c == [lpa[e] EXCEPT !.awaits = 0]
    <3>1. lpa' = [lpa EXCEPT ![e] = c]
      BY <2>1 DEF GiveUp
    <3>2. c \in Client /\ c.awaits <= sent
      BY <1>0 DEF Client
    <3> HIDE DEF c
    <3> QED  BY <3>1, <3>2, <1>0
  <2>2. CASE Install(e)
    <3> [lpa[e] EXCEPT !.state = "installing"] \in Client
        /\ [lpa[e] EXCEPT !.state = "installing"].awaits = lpa[e].awaits
      BY <1>0 DEF Client, ClientStates
    <3> QED  BY <2>2, <1>0 DEF Install
  <2>3. CASE Installed(e)
    <3> DEFINE s == IF dec.state = "done" THEN "installed" ELSE "failed"
    <3>1. s \in ClientStates
      BY DEF ClientStates
    <3>2. lpa' = [lpa EXCEPT ![e] = [lpa[e] EXCEPT !.state = s]]
      BY <2>3 DEF Installed
    <3> HIDE DEF s
    <3>3. [lpa[e] EXCEPT !.state = s] \in Client
          /\ [lpa[e] EXCEPT !.state = s].awaits = lpa[e].awaits
      BY <1>0, <3>1 DEF Client
    <3> QED  BY <3>2, <3>3, <1>0
  <2> QED  BY <2>1, <2>2, <2>3
<1>2. UNCHANGED <<server, net, sent, incidents, issued>>
  BY DEF GiveUp, Install, Installed
<1>3. ClientsOK'
  <2> ClientsOK /\ sent' \in Nat /\ sent <= sent' /\ c.awaits <= sent' /\ \A r \in net' : Asked(r)
    BY <1>0, <1>1, <1>2 DEF IInv, ClientsOK
  <2> QED  BY <1>1, OneClient
<1>4. StoreOK' /\ IdsOK' /\ SessionsOK' /\ NotAhead'
  BY <1>2, BooksStay DEF server, IInv, StoreOK
<1>5. PackageOK' /\ ConfirmedProfile'
  <2>1. CASE UNCHANGED <<enc, parcel>>
    BY <2>1, <1>2, PackagesStay DEF server
  <2>2. CASE Installed(e)
    BY <2>2, <1>2 DEF Installed, NoEncoder, PackageOK, IInv, ConfirmedProfile, server
  <2> QED  BY <2>1, <2>2 DEF GiveUp, Install, bspVars
<1> QED  BY <1>2, <1>3, <1>4, <1>5 DEF IInv

-----------------------------------------------------------------------------
(* The SM-DP+.                                                             *)

\* A request served reaches its client, if it still waits for it, and nobody
\* else.
LEMMA ServeClients ==
  ASSUME IInv, NEW req \in net, NEW after,
         lpa' = Answered(req, after), net' \subseteq net, sent' = sent,
         \/ after = lpa[req.euicc]
         \/ [after EXCEPT !.awaits = 0] \in Client /\ [after EXCEPT !.awaits = 0].awaits = 0
  PROVE  ClientsOK'
<1>0. ClientsOK /\ Asked(req) /\ req.euicc \in Euiccs /\ sent \in Nat /\ sent' \in Nat /\ sent <= sent'
      /\ \A r \in net' : Asked(r)
  BY DEF IInv, ClientsOK, Asked
<1>1. CASE lpa[req.euicc].awaits = req.nr
  <2> DEFINE c == [after EXCEPT !.awaits = 0]
  <2>1. lpa' = [lpa EXCEPT ![req.euicc] = c]
    BY <1>1 DEF Answered
  <2>2. lpa[req.euicc] \in Client
    BY <1>0 DEF ClientsOK
  <2>3. [lpa[req.euicc] EXCEPT !.awaits = 0] \in Client /\ [lpa[req.euicc] EXCEPT !.awaits = 0].awaits = 0
    BY <2>2 DEF Client
  <2>4. c \in Client /\ c.awaits = 0
    BY <2>3
  <2> HIDE DEF c
  <2>5. c.awaits <= sent'
    BY <2>4, <1>0
  <2> QED  BY <1>0, <2>1, <2>4, <2>5, OneClient
<1>2. CASE lpa[req.euicc].awaits # req.nr
  BY <1>0, <1>2 DEF Answered, ClientsOK, Asked
<1> QED  BY <1>1, <1>2

\* A refusal changes nothing but the client that hears it.
LEMMA RefuseStep ==
  ASSUME IInv, NEW req \in net, Refuse(req)
  PROVE  IInv'
<1>1. ClientsOK'
  <2> lpa' = Answered(req, lpa[req.euicc]) /\ net' \subseteq net /\ sent' = sent
    BY DEF Refuse, Serve
  <2> QED  BY ServeClients
<1>2. StoreOK' /\ IdsOK' /\ SessionsOK' /\ NotAhead'
  BY BooksStay DEF Refuse, Serve, IInv, StoreOK
<1>3. PackageOK' /\ ConfirmedProfile'
  BY PackagesStay DEF Refuse, NoPackage, bspVars, Serve
<1> QED  BY <1>1, <1>2, <1>3 DEF IInv

\* A new session has an id of its own, and nothing in it.
LEMMA InitiateStep ==
  ASSUME IInv, NEW req \in net, InitiateAuthentication(req)
  PROVE  IInv'
<1>1. CASE Refuse(req)
  BY <1>1, RefuseStep
<1>2. CASE ~ Refuse(req)
  <2> DEFINE after(t) == [lpa[req.euicc] EXCEPT !.state = "initiated", !.txn = t]
  <2>1. PICK t \in fresh :
          /\ fresh' = fresh \ {t} /\ rss' = [rss EXCEPT ![t] = NewSession(t)]
          /\ Serve(req, after(t)) /\ NoPackage /\ UNCHANGED <<signed2, closed>>
    BY <1>2 DEF InitiateAuthentication
  <2>2. t \in TransactionIds /\ t \notin closed /\ ~ Known(t)
    BY DEF IInv, StoreOK, IdsOK
  <2>3. ClientsOK'
    <3>1. lpa[req.euicc] \in Client
      BY DEF IInv, ClientsOK, Asked
    <3>2. [after(t) EXCEPT !.awaits = 0] \in Client /\ [after(t) EXCEPT !.awaits = 0].awaits = 0
      BY <3>1, <2>2 DEF Client, ClientStates
    <3>3. lpa' = Answered(req, after(t)) /\ net' \subseteq net /\ sent' = sent
      BY <2>1 DEF Serve
    <3> HIDE DEF after
    <3> QED  BY <3>2, <3>3, ServeClients
  <2>4. NewSession(t) \in Session /\ NewSession(t).known /\ NewSession(t).euicc_cert = Unset
        /\ NewSession(t).matchingId = Unset /\ NewSession(t).smdpSignature2 = 0
    BY <2>2 DEF NewSession, Session
  <2>5. StoreOK'
    BY <2>1, <2>2, <2>4 DEF IInv, StoreOK, Serve
  <2>6. rss \in [TransactionIds -> Session \cup {NoSession}]
    BY DEF IInv, StoreOK
  <2>7. IdsOK' /\ SessionsOK'
    BY <2>1, <2>2, <2>4, <2>6 DEF IInv, IdsOK, ClosedStaysClosed, SessionsOK, SessionOK, Known
  <2>9. NotAhead'
    BY <2>1 DEF IInv, NotAhead, Serve
  <2>8. PackageOK' /\ ConfirmedProfile'
    BY <2>1, PackagesStay DEF NoPackage, bspVars, Serve
  <2> QED  BY <2>3, <2>5, <2>7, <2>8, <2>9 DEF IInv
<1> QED  BY <1>1, <1>2

\* What was confirmed stays so when another signature is made.
LEMMA SignaturesGrow ==
  ASSUME signed2 \in Seq(Signature), NEW g \in Signature, signed2' = Append(signed2, g)
  PROVE  /\ signed2' \in Seq(Signature) /\ Len(signed2') = Len(signed2) + 1
         /\ signed2'[Len(signed2) + 1] = g
         /\ \A i \in 1..Len(signed2) : i \in 1..Len(signed2') /\ signed2'[i] = signed2[i]
         /\ Len(signed2) \in Nat
OBVIOUS

\* Certificate, profile and signature of a session are replaced together, and
\* the signature is a new one: what earlier ones say stays.
LEMMA AuthenticateStep ==
  ASSUME IInv, NEW req \in net, AuthenticateClient(req)
  PROVE  IInv'
<1>1. CASE Refuse(req)
  BY <1>1, RefuseStep
<1>2. CASE ~ Refuse(req)
  <2> DEFINE g == [txn |-> req.txn, euicc |-> req.euicc, matchingId |-> req.matchingId,
                   contents |-> version[req.matchingId]]
             n == Len(signed2) + 1
             after == [lpa[req.euicc] EXCEPT !.state = "authenticated", !.sig2 = n]
             ss == Authenticated(rss[req.txn], req, n)
  <2>1. /\ Known(req.txn) /\ signed2' = Append(signed2, g)
        /\ rss' = [rss EXCEPT ![req.txn] = ss]
        /\ Serve(req, after) /\ NoPackage /\ UNCHANGED <<fresh, closed>>
        /\ req.kind = "authenticate"
    BY <1>2 DEF AuthenticateClient, MayAuthenticate, Serving
  <2>2. /\ req.txn \in TransactionIds /\ req.euicc \in Euiccs /\ req.matchingId \in Profiles
        /\ signed2 \in Seq(Signature) /\ rss \in [TransactionIds -> Session \cup {NoSession}]
        /\ lpa[req.euicc] \in Client /\ req.txn \notin fresh /\ req.txn \notin closed
        /\ version[req.matchingId] \in Nat /\ version' = version
    BY <2>1 DEF IInv, StoreOK, ClientsOK, IdsOK, ClosedStaysClosed, Asked, Known, Serve
  <2>3. g \in Signature
    BY <2>2 DEF Signature
  <2>4. /\ signed2' \in Seq(Signature) /\ Len(signed2') = n /\ signed2'[n] = g
        /\ \A i \in 1..Len(signed2) : i \in 1..Len(signed2') /\ signed2'[i] = signed2[i]
        /\ n \in Nat /\ Len(signed2) \in Nat
    <3> HIDE DEF g
    <3> QED  BY <2>1, <2>2, <2>3, SignaturesGrow
  <2>5. rss[req.txn] \in Session
    BY <2>1, <2>2 DEF Known, NoSession
  <2>6. /\ ss \in Session /\ ss.known /\ ss.euicc_cert = req.euicc
        /\ ss.matchingId = req.matchingId /\ ss.smdpSignature2 = n
        /\ ss.profileMetadata = version[req.matchingId]
    BY <2>2, <2>4, <2>5 DEF Authenticated, Session
  <2>7. ClientsOK'
    <3>1. [after EXCEPT !.awaits = 0] \in Client /\ [after EXCEPT !.awaits = 0].awaits = 0
      BY <2>2, <2>4 DEF Client, ClientStates
    <3>2. lpa' = Answered(req, after) /\ net' \subseteq net /\ sent' = sent
      BY <2>1 DEF Serve
    <3> HIDE DEF after
    <3> QED  BY <3>1, <3>2, ServeClients
  <2> HIDE DEF ss
  <2>8. StoreOK'
    BY <2>1, <2>2, <2>4, <2>6 DEF IInv, StoreOK, Serve
  <2>9. IdsOK'
    BY <2>1, <2>2, <2>6 DEF IInv, IdsOK, ClosedStaysClosed, Known
  <2>10. SessionsOK'
    <3> SUFFICES ASSUME NEW t \in TransactionIds, Known(t)' PROVE SessionOK(t)'
      BY DEF SessionsOK
    <3>1. CASE t = req.txn
      <4> rss'[t] = ss /\ n \in 1..Len(signed2')
        BY <3>1, <2>1, <2>2, <2>4
      <4> QED  BY <3>1, <2>4, <2>6 DEF SessionOK
    <3>2. CASE t # req.txn
      <4>1. rss'[t] = rss[t]
        BY <3>2, <2>1, <2>2
      <4>2. SessionOK(t)
        BY <4>1 DEF IInv, SessionsOK, Known
      <4> QED  BY <4>1, <4>2, <2>4 DEF SessionOK
    <3> QED  BY <3>1, <3>2
  <2>11. PackageOK' /\ ConfirmedProfile'
    <3> parcel' = parcel /\ issued' = issued /\ enc' = enc
      BY <2>1 DEF NoPackage, bspVars
    <3> QED  BY <2>2, <2>4 DEF IInv, PackageOK, Confirmed, ConfirmedProfile
  <2>12. NotAhead'
    <3> SUFFICES ASSUME NEW i \in 1..Len(signed2') PROVE signed2'[i].contents <= version[signed2'[i].matchingId]
      BY <2>2 DEF NotAhead
    <3>1. CASE i = n
      <4> g.contents = version[req.matchingId] /\ g.matchingId = req.matchingId
        OBVIOUS
      <4> HIDE DEF g
      <4> QED  BY <3>1, <2>2, <2>4
    <3>2. CASE i # n
      <4>1. i \in 1..Len(signed2)
        BY <3>2, <2>4
      <4> QED  BY <4>1, <2>4 DEF IInv, NotAhead
    <3> QED  BY <3>1, <3>2
  <2> QED  BY <2>7, <2>8, <2>9, <2>10, <2>11, <2>12 DEF IInv
<1> QED  BY <1>1, <1>2

\* A package is begun for the profile of the session whose signature the
\* request is over: the one that signature was made for.
LEMMA GetBppStep ==
  ASSUME IInv, NEW req \in net, GetBoundProfilePackage(req)
  PROVE  IInv'
<1>1. CASE Refuse(req)
  BY <1>1, RefuseStep
<1>2. CASE ~ Refuse(req)
  <2> DEFINE ss == [rss[req.txn] EXCEPT !.euicc_otpk = req.otpk]
  <2>1. /\ MayGetBpp(req) /\ rss' = [rss EXCEPT ![req.txn] = ss]
        /\ parcel' = [req |-> req, matchingId |-> rss[req.txn].matchingId,
                      contents |-> version[rss[req.txn].matchingId], metadata |-> rss[req.txn].profileMetadata]
        /\ net' = net \ {req} /\ req.kind = "getbpp"
        /\ UNCHANGED <<upps, version, fresh, lpa, sent, incidents, signed2, issued, closed>>
    BY <1>2 DEF GetBoundProfilePackage, Serving
  <2>2. /\ req.txn \in TransactionIds /\ req.euicc \in Euiccs /\ req.otpk \in Nat
        /\ rss \in [TransactionIds -> Session \cup {NoSession}]
    BY <2>1 DEF IInv, StoreOK, ClientsOK, Asked, MayGetBpp, Known
  <2>3. rss[req.txn] \in Session /\ rss[req.txn].matchingId \in Profiles
        /\ rss[req.txn].matchingId # Unset
    BY <2>1, <2>2, RspAssumption DEF MayGetBpp, Known, NoSession, IInv, StoreOK, Unset
  <2>4. Confirmed(parcel)'
    <3>1. SessionOK(req.txn)
      BY <2>1, <2>2 DEF IInv, SessionsOK, MayGetBpp
    <3>2. /\ rss[req.txn].smdpSignature2 \in 1..Len(signed2) /\ req.over = rss[req.txn].smdpSignature2
          /\ signed2[req.over] = [txn |-> req.txn, euicc |-> req.euicc,
                                  matchingId |-> rss[req.txn].matchingId, contents |-> rss[req.txn].profileMetadata]
      BY <3>1, <2>1, <2>3 DEF SessionOK, MayGetBpp
    <3>3. /\ parcel'.req = req /\ parcel'.matchingId = rss[req.txn].matchingId /\ signed2' = signed2 /\ version' = version
          /\ parcel'.contents = version[rss[req.txn].matchingId] /\ parcel'.metadata = rss[req.txn].profileMetadata
      BY <2>1
    <3>4. version[rss[req.txn].matchingId] \in rss[req.txn].profileMetadata..version[rss[req.txn].matchingId]
      <4>1. version[rss[req.txn].matchingId] \in Nat /\ rss[req.txn].profileMetadata \in Nat
        BY <2>3 DEF IInv, StoreOK, Session
      <4>2. signed2[req.over].contents <= version[signed2[req.over].matchingId]
        BY <3>2 DEF IInv, NotAhead
      <4> QED  BY <3>2, <4>1, <4>2
    <3> QED  BY <3>2, <3>3, <3>4 DEF Confirmed
  <2>5. PackageOK' /\ ConfirmedProfile'
    <3>1. parcel'.req.euicc \in Euiccs /\ parcel'.matchingId \in Profiles
      BY <2>1, <2>2, <2>3
    <3>2. signed2' = signed2 /\ issued' = issued /\ version' = version
      BY <2>1
    <3> QED  BY <2>4, <3>1, <3>2 DEF IInv, PackageOK, ConfirmedProfile
  <2>6. /\ ss \in Session /\ ss.known = rss[req.txn].known /\ ss.euicc_cert = rss[req.txn].euicc_cert
        /\ ss.matchingId = rss[req.txn].matchingId /\ ss.smdpSignature2 = rss[req.txn].smdpSignature2
        /\ ss.profileMetadata = rss[req.txn].profileMetadata
    BY <2>2, <2>3 DEF Session
  <2> HIDE DEF ss
  <2>7. StoreOK' /\ ClientsOK'
    BY <2>1, <2>2, <2>6 DEF IInv, StoreOK, ClientsOK, Asked
  <2>8. \A t \in TransactionIds :
          /\ rss'[t].known = rss[t].known /\ rss'[t].euicc_cert = rss[t].euicc_cert
          /\ rss'[t].matchingId = rss[t].matchingId
          /\ rss'[t].smdpSignature2 = rss[t].smdpSignature2
          /\ rss'[t].profileMetadata = rss[t].profileMetadata
    BY <2>1, <2>2, <2>6
  <2>9. IdsOK' /\ SessionsOK' /\ NotAhead'
    BY <2>1, <2>8 DEF IInv, IdsOK, ClosedStaysClosed, SessionsOK, SessionOK, NotAhead, Known
  <2> QED  BY <2>5, <2>7, <2>9 DEF IInv
<1> QED  BY <1>1, <1>2

\* The package handed out is the one under way.
LEMMA AnswerStep == IInv /\ AnswerGetBpp => IInv'
<1> SUFFICES ASSUME IInv, AnswerGetBpp PROVE IInv'
  OBVIOUS
<1> DEFINE e == parcel.req.euicc
           after == [lpa[e] EXCEPT !.state = "received", !.got = parcel.matchingId]
<1>1. /\ enc.state = "done" /\ lpa' = Answered(parcel.req, after) /\ issued' = issued \cup {parcel}
      /\ UNCHANGED <<server, net, sent, incidents>>
      /\ UNCHANGED <<parcel, enc>> \/ enc' = NoEncoder
  BY DEF AnswerGetBpp, bspVars
<1>2. Confirmed(parcel) /\ e \in Euiccs /\ parcel.matchingId \in Profiles
  BY <1>1 DEF IInv, PackageOK, Idle
<1>3. ClientsOK'
  <2>1. ClientsOK /\ sent \in Nat /\ sent' \in Nat /\ sent <= sent' /\ \A r \in net' : Asked(r)
    BY <1>1 DEF IInv, ClientsOK
  <2>2. CASE lpa[e].awaits = parcel.req.nr
    <3> DEFINE c == [after EXCEPT !.awaits = 0]
    <3>1. lpa' = [lpa EXCEPT ![e] = c]
      BY <2>2, <1>1 DEF Answered
    <3>2. lpa[e] \in Client
      BY <2>1, <1>2 DEF ClientsOK
    <3>3. c \in Client /\ c.awaits = 0
      BY <3>2, <1>2 DEF Client, ClientStates
    <3> HIDE DEF c
    <3>4. c.awaits <= sent'
      BY <3>3, <2>1
    <3> QED  BY <1>2, <2>1, <3>1, <3>3, <3>4, OneClient
  <2>3. CASE lpa[e].awaits # parcel.req.nr
    BY <2>1, <2>3, <1>1 DEF Answered, ClientsOK, Asked
  <2> QED  BY <2>2, <2>3
<1>4. StoreOK' /\ IdsOK' /\ SessionsOK' /\ NotAhead'
  BY <1>1, BooksStay DEF server, IInv, StoreOK
<1>5. PackageOK'
  <2>1. CASE UNCHANGED <<parcel, enc>>
    BY <2>1, <1>1 DEF IInv, PackageOK, Confirmed, server
  <2>2. CASE enc' = NoEncoder
    BY <2>2 DEF PackageOK, NoEncoder
  <2> QED  BY <1>1, <2>1, <2>2
<1>6. ConfirmedProfile'
  BY <1>1, <1>2 DEF IInv, ConfirmedProfile, Confirmed, server
<1> QED  BY <1>3, <1>4, <1>5, <1>6 DEF IInv

\* A session that is closed is in nobody's hands any more.
LEMMA CloseStep ==
  ASSUME IInv, NEW req \in net, Known(req.txn), Close(req)
  PROVE  IInv'
<1>1. /\ rss' = [rss EXCEPT ![req.txn] = NoSession] /\ closed' = closed \cup {req.txn}
      /\ Serve(req, NoClient) /\ NoPackage /\ UNCHANGED <<fresh, signed2>>
      /\ req.txn \in TransactionIds
  BY DEF Close, ClosedSession, Known
<1>2. rss \in [TransactionIds -> Session \cup {NoSession}] /\ ~ NoSession.known
  BY DEF IInv, StoreOK, NoSession
<1>3. ClientsOK'
  <2>1. [NoClient EXCEPT !.awaits = 0] \in Client /\ [NoClient EXCEPT !.awaits = 0].awaits = 0
    BY DEF Client, ClientStates, NoClient, Idle
  <2>2. lpa' = Answered(req, NoClient) /\ net' \subseteq net /\ sent' = sent
    BY <1>1 DEF Serve
  <2> QED  BY <2>1, <2>2, ServeClients
<1>4. StoreOK'
  BY <1>1, <1>2 DEF IInv, StoreOK, Serve
<1>5. IdsOK' /\ SessionsOK' /\ NotAhead'
  BY <1>1, <1>2 DEF IInv, IdsOK, ClosedStaysClosed, SessionsOK, SessionOK, NotAhead, Known, Serve
<1>6. PackageOK' /\ ConfirmedProfile'
  BY <1>1, PackagesStay DEF NoPackage, bspVars, Serve
<1> QED  BY <1>3, <1>4, <1>5, <1>6 DEF IInv

\* cancelSession, and a notification that finds its session or does not.
LEMMA EndStep ==
  ASSUME IInv, NEW req \in net, CancelSession(req) \/ HandleNotification(req)
  PROVE  IInv'
<1>1. CASE Refuse(req)
  BY <1>1, RefuseStep
<1>2. CASE Known(req.txn) /\ Close(req)
  BY <1>2, CloseStep
<1>3. CASE Serve(req, NoClient) /\ NoPackage /\ UNCHANGED <<rss, fresh, signed2, closed>>
  <2>1. ClientsOK'
    <3>1. [NoClient EXCEPT !.awaits = 0] \in Client /\ [NoClient EXCEPT !.awaits = 0].awaits = 0
      BY DEF Client, ClientStates, NoClient, Idle
    <3>2. lpa' = Answered(req, NoClient) /\ net' \subseteq net /\ sent' = sent
      BY <1>3 DEF Serve
    <3> QED  BY <3>1, <3>2, ServeClients
  <2>2. StoreOK' /\ IdsOK' /\ SessionsOK' /\ NotAhead'
    BY <1>3, BooksStay DEF Serve, IInv, StoreOK
  <2>3. PackageOK' /\ ConfirmedProfile'
    BY <1>3, PackagesStay DEF NoPackage, bspVars, Serve
  <2> QED  BY <2>1, <2>2, <2>3 DEF IInv
<1> QED  BY <1>1, <1>2, <1>3 DEF CancelSession, HandleNotification, Found

\* Neither a restart nor the operator writes to the store, and a segment more
\* or less is no other package.
LEMMA OtherStep ==
  ASSUME IInv, Encode \/ Decode \/ Restart \/ (\E p \in Profiles : Operator(p))
  PROVE  IInv'
<1>1. /\ UNCHANGED <<rss, fresh, signed2, closed, lpa, sent, issued>>
      /\ net' \subseteq net /\ upps' \subseteq Profiles /\ incidents' \in 0..MaxIncidents
  BY RspAssumption DEF IInv, StoreOK, Encode, Decode, Restart, Operator, StoreAfterRestart, server, client
<1>5. version' \in [Profiles -> Nat] /\ \A p \in Profiles : version[p] \in Nat /\ version'[p] \in Nat /\ version[p] <= version'[p]
  <2>1. version \in [Profiles -> Nat]
    BY DEF IInv, StoreOK
  <2>2. version' = version \/ \E p \in Profiles : version' = [version EXCEPT ![p] = @ + 1]
    BY DEF Encode, Decode, Restart, Operator, server
  <2> QED  BY <2>1, <2>2
<1>6. \A i \in 1..Len(signed2) : signed2[i] \in Signature
  BY DEF IInv, StoreOK
<1>7. ASSUME NEW b, Confirmed(b) PROVE Confirmed(b)'
  <2>1. signed2[b.req.over].matchingId \in Profiles /\ signed2[b.req.over].contents \in Nat
    BY <1>6, <1>7 DEF Confirmed, Signature
  <2>2. b.matchingId \in Profiles /\ b.metadata \in Nat
    BY <1>7, <2>1 DEF Confirmed
  <2>3. b.contents \in b.metadata..version'[b.matchingId]
    BY <1>5, <1>7, <2>2 DEF Confirmed
  <2> QED  BY <1>1, <1>7, <2>3 DEF Confirmed
<1>8. NotAhead'
  <2> SUFFICES ASSUME NEW i \in 1..Len(signed2) PROVE signed2[i].contents <= version'[signed2[i].matchingId]
    BY <1>1 DEF NotAhead
  <2>1. signed2[i].matchingId \in Profiles /\ signed2[i].contents \in Nat
    BY <1>6 DEF Signature
  <2>2. signed2[i].contents <= version[signed2[i].matchingId]
    BY DEF IInv, NotAhead
  <2> QED  BY <1>5, <2>1, <2>2
<1>2. StoreOK' /\ ClientsOK' /\ IdsOK' /\ SessionsOK'
  BY <1>1, <1>5 DEF IInv, StoreOK, ClientsOK, Asked, IdsOK, ClosedStaysClosed, SessionsOK, SessionOK, Known
<1>3. PackageOK'
  <2>4. ASSUME UNCHANGED parcel, Confirmed(parcel) PROVE Confirmed(parcel)'
    <3>1. PICK b : b = parcel
      OBVIOUS
    <3>2. Confirmed(b)'
      BY <1>7, <2>4, <3>1
    <3> QED  BY <2>4, <3>1, <3>2 DEF Confirmed
  <2>1. CASE UNCHANGED <<enc, parcel>>
    BY <1>1, <2>1, <2>4 DEF IInv, PackageOK
  <2>2. CASE enc.state = "busy" /\ UNCHANGED parcel
    BY <1>1, <2>2, <2>4 DEF IInv, PackageOK, Idle
  <2>3. CASE enc' = NoEncoder
    BY <2>3 DEF PackageOK, NoEncoder
  <2> QED  BY <2>1, <2>2, <2>3
        DEF Encode, Decode, EncodeSegment, DecodeSegment, Restart, Operator, bspVars
<1>4. ConfirmedProfile'
  <2>1. ASSUME NEW b \in issued PROVE Confirmed(b)'
    BY <1>7 DEF IInv, ConfirmedProfile, Confirmed
  <2> QED  BY <1>1, <2>1 DEF ConfirmedProfile, Confirmed
<1> QED  BY <1>1, <1>2, <1>3, <1>4, <1>8 DEF IInv

-----------------------------------------------------------------------------
\* Every step of the session, or none at all, preserves the invariant.
LEMMA NextIInv == IInv /\ [RspNext]_rspVars => IInv'
<1> SUFFICES ASSUME IInv, [RspNext]_rspVars PROVE IInv'
  OBVIOUS
<1>1. CASE ClientNext
  BY <1>1, AskStep, OwnStep DEF ClientNext
<1>2. CASE ServerNext
  BY <1>2, InitiateStep, AuthenticateStep, GetBppStep, EndStep, AnswerStep, OtherStep DEF ServerNext
<1>3. CASE Decode \/ Restart \/ \E p \in Profiles : Operator(p)
  BY <1>3, OtherStep
<1>4. CASE UNCHANGED rspVars
  BY <1>4 DEF rspVars, server, client, bspVars, IInv, StoreOK, ClientsOK, Asked, PackageOK, Confirmed,
              IdsOK, ClosedStaysClosed, SessionsOK, SessionOK, NotAhead, Known, ConfirmedProfile
<1> QED  BY <1>1, <1>2, <1>3, <1>4 DEF RspNext

LEMMA Invariance == RspSpec => []IInv
BY InitIInv, NextIInv, PTL DEF RspSpec

\* The state of the store, the clients and the net has its types for any
\* eUICCs, profiles and transaction ids (RspSessionState, the LPA's requests).
THEOREM Typing == RspSpec => []RspTypeOK
<1>1. IInv => RspTypeOK
  <2> SUFFICES ASSUME IInv PROVE RspTypeOK
    OBVIOUS
  <2>1. \A t \in TransactionIds : Known(t) => rss[t] \in Session /\ SessionOK(t)
    BY DEF IInv, StoreOK, SessionsOK, Known, NoSession
  <2>2. Len(signed2) \in Nat
    BY DEF IInv, StoreOK
  <2>3. ASSUME NEW t \in TransactionIds, Known(t)
        PROVE  /\ rss[t].euicc_cert \in Euiccs \cup {Unset}
               /\ rss[t].matchingId \in Profiles \cup {Unset}
               /\ rss[t].profileMetadata \in Nat
               /\ rss[t].smdpSignature2 \in 0..Len(signed2)
    <3>1. rss[t] \in Session /\ SessionOK(t)
      BY <2>1, <2>3
    <3>2. rss[t].euicc_cert \in Euiccs \cup {Unset} /\ rss[t].matchingId \in Profiles \cup {Unset} /\ rss[t].profileMetadata \in Nat
      BY <3>1 DEF Session
    <3>3. rss[t].smdpSignature2 = 0 \/ rss[t].smdpSignature2 \in 1..Len(signed2)
      BY <3>1 DEF SessionOK
    <3> QED  BY <2>2, <3>2, <3>3
  <2>4. \A e \in Euiccs : lpa[e].awaits \in 0..sent /\ lpa[e].txn \in TransactionIds \cup {Unset}
    BY DEF IInv, ClientsOK, Client
  <2> QED  BY <2>3, <2>4 DEF IInv, StoreOK, ClientsOK, RspTypeOK
<1> QED  BY <1>1, Invariance, PTL

\* However requests are given up, repeated and reordered, and profiles replaced,
\* a package is for the profile and the eUICC its confirmation was made for and
\* has the metadata confirmed; its contents may be newer than those, since the
\* file is read again (getBoundProfilePackage, osmo-smdpp.py:686-758).
THEOREM Confirmation == RspSpec => []ConfirmedProfile
<1>1. IInv => ConfirmedProfile
  BY DEF IInv
<1> QED  BY <1>1, Invariance, PTL

\* No step, restart or late request brings a closed session back
\* (cancelSession, handleNotification).
THEOREM Closing == RspSpec => []ClosedStaysClosed
<1>1. IInv => ClosedStaysClosed
  BY DEF IInv, IdsOK
<1> QED  BY <1>1, Invariance, PTL

\* What is in a session is what one authentication put there, whatever was
\* refused in between (authenticateClient).
THEOREM OneAuthentication == RspSpec => []SessionIsOneAuthentication
<1>1. IInv => SessionIsOneAuthentication
  BY DEF IInv, StoreOK, SessionsOK, SessionOK, SessionIsOneAuthentication
<1> QED  BY <1>1, Invariance, PTL

\* A session goes only by being closed (del self.rss[transactionId]).
THEOREM OnlyClosing == RspSpec => OnlyClosedSessionsGo
<1> DEFINE A == \A t \in TransactionIds : Known(t) => rss'[t].known \/ t \in closed'
<1>1. IInv /\ [RspNext]_rspVars => [A]_rspVars
  <2> SUFFICES ASSUME IInv, RspNext, NEW t \in TransactionIds, Known(t), t \notin closed'
               PROVE  rss'[t].known
    BY DEF IInv
  <2>0. rss \in [TransactionIds -> Session \cup {NoSession}] /\ rss[t].known
    BY DEF IInv, StoreOK, Known
  <2>1. CASE rss' = rss
    BY <2>0, <2>1
  <2>2. ASSUME NEW req \in net, InitiateAuthentication(req) PROVE rss'[t].known
    <3>1. CASE rss' = rss
      BY <2>0, <3>1
    <3>2. ASSUME NEW s \in fresh, rss' = [rss EXCEPT ![s] = NewSession(s)] PROVE rss'[t].known
      BY <2>0, <3>2 DEF NewSession
    <3> QED  BY <2>2, <3>1, <3>2 DEF InitiateAuthentication, Refuse
  <2>3. ASSUME NEW req \in net, AuthenticateClient(req) PROVE rss'[t].known
    <3>1. CASE rss' = rss
      BY <2>0, <3>1
    <3>2. CASE /\ Known(req.txn)
               /\ rss' = [rss EXCEPT ![req.txn] = Authenticated(@, req, Len(signed2) + 1)]
      <4>1. rss[req.txn] \in Session
        BY <2>0, <3>2 DEF Known, NoSession
      <4>2. Authenticated(rss[req.txn], req, Len(signed2) + 1).known
        BY <4>1 DEF Authenticated, Session
      <4> QED  BY <2>0, <3>2, <4>2
    <3> QED  BY <2>3, <3>1, <3>2 DEF AuthenticateClient, MayAuthenticate, Refuse
  <2>4. ASSUME NEW req \in net, GetBoundProfilePackage(req) PROVE rss'[t].known
    <3>1. CASE rss' = rss
      BY <2>0, <3>1
    <3>2. CASE Known(req.txn) /\ rss' = [rss EXCEPT ![req.txn].euicc_otpk = req.otpk]
      <4> DEFINE ss == [rss[req.txn] EXCEPT !.euicc_otpk = req.otpk]
      <4>1. rss[req.txn] \in Session /\ rss' = [rss EXCEPT ![req.txn] = ss]
        BY <2>0, <3>2 DEF Known, NoSession
      <4>2. ss.known
        BY <4>1 DEF Session
      <4> HIDE DEF ss
      <4> QED  BY <2>0, <4>1, <4>2
    <3> QED  BY <2>4, <3>1, <3>2 DEF GetBoundProfilePackage, MayGetBpp, Refuse
  <2>5. ASSUME NEW req \in net, CancelSession(req) \/ HandleNotification(req) PROVE rss'[t].known
    BY <2>0, <2>5 DEF CancelSession, HandleNotification, Close, Refuse
  <2> QED
    BY <2>1, <2>2, <2>3, <2>4, <2>5
    DEF RspNext, ClientNext, ServerNext, AskInitiate, AskAuthenticate, AskGetBpp, AskCancel, AskNotify,
        Send, GiveUp, Install, Installed, Encode, Decode, AnswerGetBpp, Restart, StoreAfterRestart,
        Operator, server
<1> QED  BY <1>1, Invariance, PTL DEF RspSpec, OnlyClosedSessionsGo

-----------------------------------------------------------------------------
(* What a client installs.  Answers come late and requests are repeated,   *)
(* but a client takes in the answer to its last request only, and a        *)
(* confirmation it signs was made for the profile it wants.                *)

\* If the client c still waits for the request r, r asks for what c wants.
Fits(r, c) ==
  c.awaits = r.nr =>
    /\ r.kind = "authenticate" => c.want = r.matchingId
    /\ r.kind = "getbpp" => c.state = "authenticated" /\ r.over = c.sig2

GetsWanted(c) == c.state \in {"received", "installing", "installed"} => c.got = c.want
SignsWanted(c, sigs) ==
  c.state = "authenticated" => c.sig2 \in 1..Len(sigs) /\ sigs[c.sig2].matchingId = c.want

WantedInv ==
  /\ \A r \in net : r.nr \in 1..sent /\ Fits(r, lpa[r.euicc])
  /\ enc.state # Idle => /\ parcel.req.kind = "getbpp" /\ parcel.req.nr \in 1..sent
                         /\ Fits(parcel.req, lpa[parcel.req.euicc])
  /\ \A e \in Euiccs : GetsWanted(lpa[e]) /\ SignsWanted(lpa[e], signed2)

LEMMA InitWanted == RspInit => WantedInv
BY DEF RspInit, WantedInv, BspInit, NoEncoder, NoClient, Idle, GetsWanted, SignsWanted

\* One client changes, and no request it gave up becomes awaited again.
LEMMA WantedClient ==
  ASSUME IInv, WantedInv, NEW e \in Euiccs, NEW c, lpa' = [lpa EXCEPT ![e] = c],
         sent' \in Nat, sent <= sent',
         \A s : SignsWanted(s, signed2) => SignsWanted(s, signed2'),
         GetsWanted(c), SignsWanted(c, signed2'),
         \A r : r.nr \in 1..sent /\ Fits(r, lpa[e]) => Fits(r, c),
         \A r \in net' : r \in net \/ (r.euicc = e /\ r.nr \in 1..sent' /\ Fits(r, c)),
         enc'.state = Idle \/ (enc.state # Idle /\ parcel' = parcel)
  PROVE  WantedInv'
<1>1. sent \in Nat /\ lpa \in [Euiccs -> Client] /\ \A r \in net : r.euicc \in Euiccs
  BY DEF IInv, ClientsOK, Asked
<1>2. \A n \in 1..sent : n \in 1..sent'
  BY <1>1
<1>3. \A x \in Euiccs : lpa'[x] = IF x = e THEN c ELSE lpa[x]
  BY <1>1
<1>4. ASSUME NEW r \in net' PROVE r.nr \in 1..sent' /\ Fits(r, lpa'[r.euicc])
  <2>1. CASE r \in net
    <3>1. r.nr \in 1..sent /\ Fits(r, lpa[r.euicc]) /\ r.euicc \in Euiccs
      BY <1>1, <2>1 DEF WantedInv
    <3> QED BY <1>2, <1>3, <3>1
  <2>2. CASE r.euicc = e /\ r.nr \in 1..sent' /\ Fits(r, c)
    BY <1>3, <2>2
  <2> QED BY <2>1, <2>2
<1>5. ASSUME enc'.state # Idle
      PROVE  /\ parcel'.req.kind = "getbpp" /\ parcel'.req.nr \in 1..sent'
             /\ Fits(parcel'.req, lpa'[parcel'.req.euicc])
  <2>1. /\ parcel' = parcel /\ parcel.req.kind = "getbpp" /\ parcel.req.nr \in 1..sent
        /\ Fits(parcel.req, lpa[parcel.req.euicc]) /\ parcel.req.euicc \in Euiccs
    BY <1>5 DEF WantedInv, IInv, PackageOK
  <2> QED BY <1>2, <1>3, <2>1
<1>6. ASSUME NEW x \in Euiccs PROVE GetsWanted(lpa'[x]) /\ SignsWanted(lpa'[x], signed2')
  BY <1>3 DEF WantedInv
<1> QED BY <1>4, <1>5, <1>6 DEF WantedInv

\* No client changes.
LEMMA WantedStays ==
  ASSUME IInv, WantedInv, net' \subseteq net, UNCHANGED <<lpa, sent>>,
         \A s : SignsWanted(s, signed2) => SignsWanted(s, signed2'),
         \/ enc'.state = Idle \/ (enc.state # Idle /\ parcel' = parcel)
         \/ parcel'.req \in net /\ parcel'.req.kind = "getbpp"
  PROVE  WantedInv'
BY DEF WantedInv

\* A request is sent: the client waits for this one, and for no other.
LEMMA WantedSend ==
  ASSUME IInv, WantedInv, NEW e \in Euiccs, NEW req, NEW after, NEW c, Send(req, e, after),
         c = [after EXCEPT !.awaits = sent + 1], c.awaits = sent + 1,
         req.euicc = e, req.nr = sent + 1, Fits(req, c), GetsWanted(c), SignsWanted(c, signed2)
  PROVE  WantedInv'
<1>1. /\ lpa' = [lpa EXCEPT ![e] = c] /\ net' = net \cup {req} /\ sent' = sent + 1
      /\ UNCHANGED <<signed2, parcel, enc>> /\ sent \in Nat
  BY DEF Send, server, bspVars, IInv, ClientsOK
<1>2. ASSUME NEW r, r.nr \in 1..sent PROVE Fits(r, c)
  <2>1. r.nr # sent + 1
    BY <1>1, <1>2
  <2> QED BY <2>1 DEF Fits
<1>3. sent + 1 \in 1..(sent + 1) /\ sent <= sent + 1 /\ sent + 1 \in Nat
  BY <1>1
<1> QED BY <1>1, <1>2, <1>3, WantedClient

LEMMA WantedAsk ==
  ASSUME IInv, WantedInv, NEW e \in Euiccs,
         AskInitiate(e) \/ AskAuthenticate(e) \/ AskGetBpp(e) \/ AskCancel(e) \/ AskNotify(e)
  PROVE  WantedInv'
<1> DEFINE n == sent + 1
<1>0. lpa[e] \in Client /\ GetsWanted(lpa[e]) /\ SignsWanted(lpa[e], signed2)
  BY DEF IInv, ClientsOK, WantedInv
<1>1. CASE AskInitiate(e)
  <2>1. PICK p \in Profiles :
          Send([kind |-> "initiate", euicc |-> e, nr |-> n], e, [NoClient EXCEPT !.want = p])
    BY <1>1 DEF AskInitiate
  <2> DEFINE req == [kind |-> "initiate", euicc |-> e, nr |-> n]
             c   == [[NoClient EXCEPT !.want = p] EXCEPT !.awaits = n]
  <2>2. c.awaits = n /\ c.state = Idle
    BY DEF NoClient
  <2>3. req.euicc = e /\ req.nr = n /\ req.kind = "initiate"
    OBVIOUS
  <2>4. Send(req, e, [NoClient EXCEPT !.want = p]) /\ c = [[NoClient EXCEPT !.want = p] EXCEPT !.awaits = sent + 1]
    BY <2>1
  <2> HIDE DEF c, req
  <2>5. Fits(req, c) /\ GetsWanted(c) /\ SignsWanted(c, signed2)
    BY <2>2, <2>3 DEF Fits, GetsWanted, SignsWanted, Idle
  <2> QED BY <2>2, <2>3, <2>4, <2>5, WantedSend
<1>2. CASE AskAuthenticate(e)
  <2>1. PICK p \in Profiles :
          Send([kind |-> "authenticate", euicc |-> e, nr |-> n, txn |-> lpa[e].txn,
                serverChallenge |-> lpa[e].txn, matchingId |-> p], e,
               [lpa[e] EXCEPT !.state = "initiated", !.want = p])
    BY <1>2 DEF AskAuthenticate
  <2> DEFINE req == [kind |-> "authenticate", euicc |-> e, nr |-> n, txn |-> lpa[e].txn,
                     serverChallenge |-> lpa[e].txn, matchingId |-> p]
             after == [lpa[e] EXCEPT !.state = "initiated", !.want = p]
             c   == [after EXCEPT !.awaits = n]
  <2>2. c.awaits = n /\ c.state = "initiated" /\ c.want = p
    BY <1>0 DEF Client
  <2>3. req.euicc = e /\ req.nr = n /\ req.kind = "authenticate" /\ req.matchingId = p
    OBVIOUS
  <2>4. Send(req, e, after) /\ c = [after EXCEPT !.awaits = sent + 1]
    BY <2>1
  <2> HIDE DEF c, req, after
  <2>5. Fits(req, c) /\ GetsWanted(c) /\ SignsWanted(c, signed2)
    BY <2>2, <2>3 DEF Fits, GetsWanted, SignsWanted
  <2> QED BY <2>2, <2>3, <2>4, <2>5, WantedSend
<1>3. CASE AskGetBpp(e)
  <2> DEFINE req == [kind |-> "getbpp", euicc |-> e, nr |-> n, txn |-> lpa[e].txn,
                     over |-> lpa[e].sig2, otpk |-> n]
             after == [lpa[e] EXCEPT !.otpk = n]
             c   == [after EXCEPT !.awaits = n]
  <2>1. lpa[e].state = "authenticated" /\ Send(req, e, after) /\ c = [after EXCEPT !.awaits = sent + 1]
    BY <1>3 DEF AskGetBpp
  <2>2. c.awaits = n /\ c.state = "authenticated" /\ c.want = lpa[e].want /\ c.sig2 = lpa[e].sig2
    BY <1>0, <2>1 DEF Client
  <2>3. req.euicc = e /\ req.nr = n /\ req.kind = "getbpp" /\ req.over = lpa[e].sig2
    OBVIOUS
  <2> HIDE DEF c, req, after
  <2>5. Fits(req, c) /\ GetsWanted(c) /\ SignsWanted(c, signed2)
    BY <1>0, <2>1, <2>2, <2>3 DEF Fits, GetsWanted, SignsWanted
  <2> QED BY <2>1, <2>2, <2>3, <2>5, WantedSend
<1>4. CASE AskCancel(e) \/ AskNotify(e)
  <2> DEFINE c == [lpa[e] EXCEPT !.awaits = n]
  <2>1. PICK kind \in {"cancel", "notify"} :
          Send([kind |-> kind, euicc |-> e, nr |-> n, txn |-> lpa[e].txn], e, lpa[e])
    BY <1>4 DEF AskCancel, AskNotify
  <2> DEFINE req == [kind |-> kind, euicc |-> e, nr |-> n, txn |-> lpa[e].txn]
  <2>2. /\ c.awaits = n /\ c.state = lpa[e].state /\ c.want = lpa[e].want
        /\ c.sig2 = lpa[e].sig2 /\ c.got = lpa[e].got
    BY <1>0 DEF Client
  <2>3. req.euicc = e /\ req.nr = n /\ req.kind = kind
    OBVIOUS
  <2>4. Send(req, e, lpa[e]) /\ c = [lpa[e] EXCEPT !.awaits = sent + 1]
    BY <2>1
  <2> HIDE DEF c, req
  <2>5. Fits(req, c) /\ GetsWanted(c) /\ SignsWanted(c, signed2)
    BY <1>0, <2>2, <2>3 DEF Fits, GetsWanted, SignsWanted
  <2> QED BY <2>2, <2>3, <2>4, <2>5, WantedSend
<1> QED BY <1>1, <1>2, <1>3, <1>4

\* Giving up, and the steps of an installation.
LEMMA WantedOwn ==
  ASSUME IInv, WantedInv, NEW e \in Euiccs, GiveUp(e) \/ Install(e) \/ Installed(e)
  PROVE  WantedInv'
<1>0. /\ lpa[e] \in Client /\ GetsWanted(lpa[e]) /\ SignsWanted(lpa[e], signed2)
      /\ sent \in Nat /\ sent' = sent /\ net' = net /\ signed2' = signed2
      /\ enc'.state = Idle \/ (enc'.state = enc.state /\ parcel' = parcel)
  BY DEF IInv, ClientsOK, WantedInv, GiveUp, Install, Installed, server, bspVars, NoEncoder
<1>1. CASE GiveUp(e)
  <2> DEFINE c == [lpa[e] EXCEPT !.awaits = 0]
  <2>1. lpa' = [lpa EXCEPT ![e] = c]
    BY <1>1 DEF GiveUp
  <2>2. /\ c.awaits = 0 /\ c.state = lpa[e].state /\ c.want = lpa[e].want
        /\ c.sig2 = lpa[e].sig2 /\ c.got = lpa[e].got
    BY <1>0 DEF Client
  <2> HIDE DEF c
  <2>3. GetsWanted(c) /\ SignsWanted(c, signed2')
    BY <1>0, <2>2 DEF GetsWanted, SignsWanted
  <2>4. ASSUME NEW r, r.nr \in 1..sent PROVE Fits(r, c)
    <3>1. r.nr # 0
      BY <1>0, <2>4
    <3> QED BY <2>2, <3>1 DEF Fits
  <2>5. sent <= sent' /\ sent' \in Nat
    BY <1>0
  <2> QED BY <1>0, <2>1, <2>3, <2>4, <2>5, WantedClient
<1>2. CASE Install(e) \/ Installed(e)
  <2>1. PICK s \in {"installing", "installed", "failed"} : lpa' = [lpa EXCEPT ![e].state = s]
    BY <1>2 DEF Install, Installed
  <2> DEFINE c == [lpa[e] EXCEPT !.state = s]
  <2>2. lpa' = [lpa EXCEPT ![e] = c] /\ lpa[e].state \in {"received", "installing"}
    BY <1>2, <2>1 DEF Install, Installed
  <2>3. /\ c.awaits = lpa[e].awaits /\ c.state = s /\ c.want = lpa[e].want
        /\ c.sig2 = lpa[e].sig2 /\ c.got = lpa[e].got
    BY <1>0 DEF Client
  <2> HIDE DEF c
  <2>4. GetsWanted(c) /\ SignsWanted(c, signed2')
    BY <1>0, <2>2, <2>3 DEF GetsWanted, SignsWanted
  <2>5. ASSUME NEW r, Fits(r, lpa[e]) PROVE Fits(r, c)
    BY <2>2, <2>3, <2>5 DEF Fits
  <2>6. sent <= sent' /\ sent' \in Nat
    BY <1>0
  <2> QED BY <1>0, <2>2, <2>4, <2>5, <2>6, WantedClient
<1> QED BY <1>1, <1>2

\* A request is served: what its client makes of the answer, if it waits.
LEMMA WantedServe ==
  ASSUME IInv, WantedInv, NEW req, req.euicc \in Euiccs, NEW c, NEW after,
         lpa' = Answered(req, after), c = [after EXCEPT !.awaits = 0], c.awaits = 0,
         net' \subseteq net, sent' = sent,
         \A s : SignsWanted(s, signed2) => SignsWanted(s, signed2'),
         lpa[req.euicc].awaits = req.nr => GetsWanted(c) /\ SignsWanted(c, signed2'),
         enc'.state = Idle \/ (enc.state # Idle /\ parcel' = parcel)
  PROVE  WantedInv'
<1>0. sent \in Nat /\ sent' \in Nat /\ sent <= sent'
  BY DEF IInv, ClientsOK
<1>1. CASE lpa[req.euicc].awaits = req.nr
  <2>1. lpa' = [lpa EXCEPT ![req.euicc] = c]
    BY <1>1 DEF Answered
  <2>2. ASSUME NEW r, r.nr \in 1..sent PROVE Fits(r, c)
    <3>1. r.nr # 0
      BY <1>0, <2>2
    <3> QED BY <3>1 DEF Fits
  <2> QED BY <1>0, <1>1, <2>1, <2>2, WantedClient
<1>2. CASE lpa[req.euicc].awaits # req.nr
  <2>1. lpa' = lpa
    BY <1>2 DEF Answered
  <2> QED BY <2>1, WantedStays
<1> QED BY <1>1, <1>2

LEMMA WantedRefuse ==
  ASSUME IInv, WantedInv, NEW req \in net, Refuse(req)
  PROVE  WantedInv'
<1> DEFINE c == [lpa[req.euicc] EXCEPT !.awaits = 0]
<1>1. /\ lpa' = Answered(req, lpa[req.euicc]) /\ net' \subseteq net /\ sent' = sent
      /\ signed2' = signed2 /\ enc' = enc /\ parcel' = parcel
  BY DEF Refuse, Serve, NoPackage, bspVars
<1>2. req.euicc \in Euiccs /\ lpa[req.euicc] \in Client
  BY DEF IInv, ClientsOK, Asked
<1>3. GetsWanted(lpa[req.euicc]) /\ SignsWanted(lpa[req.euicc], signed2)
  BY <1>2 DEF WantedInv
<1>4. /\ c.awaits = 0 /\ c.state = lpa[req.euicc].state /\ c.want = lpa[req.euicc].want
      /\ c.sig2 = lpa[req.euicc].sig2 /\ c.got = lpa[req.euicc].got
  BY <1>2 DEF Client
<1>5. GetsWanted(c) /\ SignsWanted(c, signed2')
  BY <1>1, <1>3, <1>4 DEF GetsWanted, SignsWanted
<1> HIDE DEF c
<1>6. c = [lpa[req.euicc] EXCEPT !.awaits = 0]
  BY DEF c
<1> QED BY <1>1, <1>2, <1>4, <1>5, <1>6, WantedServe

\* What the handlers answer: a new session is no confirmation, and nothing to
\* install; the end of a session ends the download.
LEMMA WantedInitiate ==
  ASSUME IInv, WantedInv, NEW req \in net, InitiateAuthentication(req)
  PROVE  WantedInv'
<1>1. CASE Refuse(req)
  BY <1>1, WantedRefuse
<1>2. CASE ~ Refuse(req)
  <2> DEFINE after(t) == [lpa[req.euicc] EXCEPT !.state = "initiated", !.txn = t]
  <2>1. PICK t \in fresh : Serve(req, after(t)) /\ NoPackage /\ UNCHANGED <<signed2, closed>>
    BY <1>2 DEF InitiateAuthentication
  <2> DEFINE a == after(t)
             c == [a EXCEPT !.awaits = 0]
  <2>2. req.euicc \in Euiccs /\ lpa[req.euicc] \in Client
    BY DEF IInv, ClientsOK, Asked
  <2>3. c.awaits = 0 /\ c.state = "initiated"
    BY <2>2 DEF Client
  <2>4. /\ lpa' = Answered(req, a) /\ net' \subseteq net /\ sent' = sent
        /\ signed2' = signed2 /\ enc' = enc /\ parcel' = parcel /\ c = [a EXCEPT !.awaits = 0]
    BY <2>1 DEF Serve, NoPackage, bspVars
  <2> HIDE DEF a, c
  <2>5. GetsWanted(c) /\ SignsWanted(c, signed2')
    BY <2>3 DEF GetsWanted, SignsWanted
  <2> QED BY <2>2, <2>3, <2>4, <2>5, WantedServe
<1> QED BY <1>1, <1>2

LEMMA WantedEnds ==
  ASSUME IInv, WantedInv, NEW req \in net, CancelSession(req) \/ HandleNotification(req)
  PROVE  WantedInv'
<1>1. CASE Refuse(req)
  BY <1>1, WantedRefuse
<1>2. CASE ~ Refuse(req)
  <2> DEFINE c == [NoClient EXCEPT !.awaits = 0]
  <2>1. Serve(req, NoClient) /\ NoPackage /\ signed2' = signed2
    BY <1>2 DEF CancelSession, HandleNotification, Close
  <2>2. c.awaits = 0 /\ c.state = Idle /\ c = [NoClient EXCEPT !.awaits = 0]
    BY DEF NoClient
  <2>3. /\ lpa' = Answered(req, NoClient) /\ net' \subseteq net /\ sent' = sent
        /\ enc' = enc /\ parcel' = parcel
    BY <2>1 DEF Serve, NoPackage, bspVars
  <2>4. req.euicc \in Euiccs
    BY DEF IInv, ClientsOK, Asked
  <2> HIDE DEF c
  <2>5. GetsWanted(c) /\ SignsWanted(c, signed2')
    BY <2>2 DEF GetsWanted, SignsWanted, Idle
  <2> QED BY <2>1, <2>2, <2>3, <2>4, <2>5, WantedServe
<1> QED BY <1>1, <1>2

\* smdpSignature2 is made for the matching id of the request, and that is
\* what the client wants if it still waits for the answer.
LEMMA WantedAuthenticate ==
  ASSUME IInv, WantedInv, NEW req \in net, AuthenticateClient(req)
  PROVE  WantedInv'
<1>1. CASE Refuse(req)
  BY <1>1, WantedRefuse
<1>2. CASE ~ Refuse(req)
  <2> DEFINE n == Len(signed2) + 1
             after == [lpa[req.euicc] EXCEPT !.state = "authenticated", !.sig2 = n]
             c == [after EXCEPT !.awaits = 0]
             sig == [txn |-> req.txn, euicc |-> req.euicc, matchingId |-> req.matchingId,
                   contents |-> version[req.matchingId]]
  <2>1. /\ signed2' = Append(signed2, sig) /\ Serve(req, after) /\ NoPackage
        /\ req.kind = "authenticate" /\ req.txn \in TransactionIds
    BY <1>2 DEF AuthenticateClient, Serving, MayAuthenticate, Known
  <2>2. /\ req.euicc \in Euiccs /\ lpa[req.euicc] \in Client
        /\ signed2 \in Seq(Signature) /\ sig \in Signature /\ sig.matchingId = req.matchingId
    BY <2>1 DEF IInv, ClientsOK, StoreOK, Asked, Signature
  <2> HIDE DEF sig
  <2>3. /\ n \in 1..Len(signed2') /\ signed2'[n] = sig
        /\ \A i \in 1..Len(signed2) : i \in 1..Len(signed2') /\ signed2'[i] = signed2[i]
    BY <2>1, <2>2
  <2>4. /\ c.awaits = 0 /\ c.state = "authenticated" /\ c.sig2 = n /\ c.want = lpa[req.euicc].want
        /\ c = [after EXCEPT !.awaits = 0]
    BY <2>2 DEF Client
  <2>5. /\ lpa' = Answered(req, after) /\ net' \subseteq net /\ sent' = sent
        /\ enc' = enc /\ parcel' = parcel
    BY <2>1 DEF Serve, NoPackage, bspVars
  <2> HIDE DEF after, c, n
  <2>6. \A s : SignsWanted(s, signed2) => SignsWanted(s, signed2')
    BY <2>3 DEF SignsWanted
  <2>7. ASSUME lpa[req.euicc].awaits = req.nr PROVE GetsWanted(c) /\ SignsWanted(c, signed2')
    <3>1. lpa[req.euicc].want = req.matchingId
      BY <2>1, <2>7 DEF WantedInv, Fits
    <3> QED BY <2>2, <2>3, <2>4, <3>1 DEF GetsWanted, SignsWanted
  <2> QED BY <2>2, <2>4, <2>5, <2>6, <2>7, WantedServe
<1> QED BY <1>1, <1>2

LEMMA WantedGetBpp ==
  ASSUME IInv, WantedInv, NEW req \in net, GetBoundProfilePackage(req)
  PROVE  WantedInv'
<1>1. CASE Refuse(req)
  BY <1>1, WantedRefuse
<1>2. CASE ~ Refuse(req)
  <2>1. /\ req.kind = "getbpp" /\ net' = net \ {req} /\ UNCHANGED <<lpa, sent, signed2>>
        /\ parcel' = [req |-> req, matchingId |-> rss[req.txn].matchingId,
                      contents |-> version[rss[req.txn].matchingId], metadata |-> rss[req.txn].profileMetadata]
    BY <1>2 DEF GetBoundProfilePackage, Serving
  <2>2. parcel'.req = req /\ net' \subseteq net
    BY <2>1
  <2> QED BY <2>1, <2>2, WantedStays
<1> QED BY <1>1, <1>2

\* The package a client takes in is for the profile of the confirmation it
\* has signed.
LEMMA WantedAnswer ==
  ASSUME IInv, WantedInv, AnswerGetBpp
  PROVE  WantedInv'
<1> DEFINE req == parcel.req
           e == req.euicc
           after == [lpa[e] EXCEPT !.state = "received", !.got = parcel.matchingId]
           c == [after EXCEPT !.awaits = 0]
<1>1. /\ enc.state = "done" /\ lpa' = Answered(req, after)
      /\ UNCHANGED <<server, net, sent, incidents>>
      /\ UNCHANGED <<parcel, enc>> \/ enc' = NoEncoder
  BY DEF AnswerGetBpp, bspVars
<1>2. /\ enc.state # Idle /\ Confirmed(parcel) /\ e \in Euiccs /\ req.kind = "getbpp"
      /\ Fits(req, lpa[e])
  BY <1>1 DEF IInv, PackageOK, WantedInv, Idle
<1>3. lpa[e] \in Client /\ SignsWanted(lpa[e], signed2)
  BY <1>2 DEF IInv, ClientsOK, WantedInv
<1>4. /\ c.awaits = 0 /\ c.state = "received" /\ c.got = parcel.matchingId /\ c.want = lpa[e].want
      /\ c = [after EXCEPT !.awaits = 0]
  BY <1>3 DEF Client
<1>5. net' \subseteq net /\ sent' = sent /\ signed2' = signed2
      /\ (enc'.state = Idle \/ (enc.state # Idle /\ parcel' = parcel))
  BY <1>1, <1>2 DEF server, NoEncoder
<1> HIDE DEF after, c
<1>6. ASSUME lpa[e].awaits = req.nr PROVE GetsWanted(c) /\ SignsWanted(c, signed2')
  <2>1. lpa[e].state = "authenticated" /\ req.over = lpa[e].sig2
    BY <1>2, <1>6 DEF Fits
  <2>2. signed2[req.over].matchingId = lpa[e].want
    BY <1>3, <2>1 DEF SignsWanted
  <2>3. signed2[req.over].matchingId = parcel.matchingId
    BY <1>2 DEF Confirmed
  <2> QED BY <1>4, <2>2, <2>3 DEF GetsWanted, SignsWanted
<1> QED BY <1>1, <1>2, <1>4, <1>5, <1>6, WantedServe

LEMMA WantedOther ==
  ASSUME IInv, WantedInv,
         Encode \/ Decode \/ Restart \/ (\E p \in Profiles : Operator(p)) \/ UNCHANGED rspVars
  PROVE  WantedInv'
<1>1. net' \subseteq net /\ UNCHANGED <<lpa, sent, signed2>>
  BY DEF Encode, Decode, Restart, Operator, server, client, rspVars
<1>2. CASE UNCHANGED <<enc, parcel>>
  <2>1. enc.state = Idle \/ enc.state # Idle
    OBVIOUS
  <2> QED BY <1>1, <1>2, WantedStays
<1>3. CASE enc.state = "busy" /\ UNCHANGED parcel
  BY <1>1, <1>3, WantedStays DEF Idle
<1>4. CASE enc' = NoEncoder
  BY <1>1, <1>4, WantedStays DEF NoEncoder
<1> QED BY <1>2, <1>3, <1>4
    DEF Encode, Decode, EncodeSegment, DecodeSegment, Restart, Operator, rspVars, bspVars

LEMMA NextWanted == IInv /\ WantedInv /\ [RspNext]_rspVars => WantedInv'
<1> SUFFICES ASSUME IInv, WantedInv, [RspNext]_rspVars PROVE WantedInv'
  OBVIOUS
<1>1. CASE ClientNext
  BY <1>1, WantedAsk, WantedOwn DEF ClientNext
<1>2. CASE ServerNext
  BY <1>2, WantedInitiate, WantedAuthenticate, WantedGetBpp, WantedEnds, WantedAnswer, WantedOther
  DEF ServerNext
<1>3. CASE Decode \/ Restart \/ (\E p \in Profiles : Operator(p)) \/ UNCHANGED rspVars
  BY <1>3, WantedOther
<1> QED BY <1>1, <1>2, <1>3 DEF RspNext

\* A session is one download: it stays closed, its parts are those of one
\* authentication, and what its client installs is the profile it asked for
\* last, whatever was given up, repeated or answered too late
\* (authenticateClient, getBoundProfilePackage, es9p_client.py do_download).
THEOREM OneDownload == RspSpec => []SessionsAreRight
<1>1. WantedInv => InstalledIsWanted
  BY DEF WantedInv, GetsWanted, InstalledIsWanted
<1>2. RspSpec => []WantedInv
  BY InitWanted, NextWanted, Invariance, PTL DEF RspSpec
<1> QED BY <1>1, <1>2, Closing, OneAuthentication, PTL DEF SessionsAreRight
-----------------------------------------------------------------------------
(* Packages, for sections and segments of any size: the eUICC that holds   *)
(* the keys of the session gets through every package and has the whole of *)
(* it then.  The argument follows enc.seen, the instances the encoder went *)
(* through: each segment is what the instance before it makes, so the      *)
(* decoder, who begins with the same keys, goes through the same           *)
(* instances.                                                              *)


Order == EncodeOrder(enc.replace)

IsSequence(q) == \E S : q \in Seq(S)

\* How far the first i segments of q reach.
ReachOf(q, i) == IF i = 0 THEN 0 ELSE q[i].body.span.upto
Reached(s, i) == ReachOf(bpp[s], i)

\* Segment i of q is what instance i made, and begins where the one before it
\* ends; the next instance is the one after it.
Link(q, in, s, i) ==
  /\ q[i] = Protect(in[i], s, q[i].body.span)
  /\ in[i + 1] = AfterProtect(in[i], s, q[i].body.span)
  /\ q[i].body.span.from = ReachOf(q, i - 1)
  /\ q[i].body.span.upto \in Nat

Chain(q, in, s) ==
  /\ Len(in) = Len(q) + 1
  /\ \A i \in 1..Len(q) : Link(q, in, s, i)

Chained(s) == Chain(bpp[s], enc.seen[s], s)

Whole(s) ==
  /\ Chained(s)
  /\ bpp[s] # <<>>
  /\ Reached(s, Len(bpp[s])) = Size[s]

\* The instance section s ends with, and the one the k-th section begins with.
EndOf(s) == enc.seen[s][Len(bpp[s]) + 1]
BeginAt(k) ==
  IF k = 1 THEN NewBsp(IF enc.replace THEN PpkKey ELSE enc.key)
  ELSE IF enc.replace /\ k = 2 THEN NewBsp(enc.key)
  ELSE EndOf(Order[k - 1])

EncShape ==
  /\ enc.state \in {Idle, "busy", "done"}
  /\ enc.state # Idle =>
       /\ enc = [state |-> enc.state, replace |-> enc.replace, nr |-> enc.nr, from |-> enc.from,
                 key |-> enc.key, bsp |-> enc.bsp, seen |-> enc.seen]
       /\ enc.replace \in BOOLEAN /\ enc.nr \in 1..Len(Order)
       /\ enc.seen = [s \in Sections |-> enc.seen[s]]
       /\ \A s \in Sections : IsSequence(enc.seen[s])
  /\ bpp = [s \in Sections |-> bpp[s]]
  /\ \A s \in Sections : IsSequence(bpp[s])

\* Sections before the one under way are whole, those after it not begun.
SectionsOK ==
  enc.state # Idle =>
    /\ \A k \in 1..Len(Order) :
         /\ k < enc.nr \/ enc.state = "done" => Whole(Order[k])
         /\ k > enc.nr => bpp[Order[k]] = <<>>
         /\ k <= enc.nr => enc.seen[Order[k]][1] = BeginAt(k)
    /\ ~ enc.replace => bpp["replaceSessionKeys"] = <<>>
    /\ enc.state = "done" => enc.nr = Len(Order)

\* The section under way.
UnderWayOK ==
  enc.state = "busy" =>
    LET s == Order[enc.nr]
    IN /\ Chained(s)
       /\ enc.bsp = EndOf(s)
       /\ enc.from = Reached(s, Len(bpp[s]))
       /\ enc.from \in Nat /\ enc.from < Size[s]

\* The sections that come before section s on the wire.
Before(s, replace) ==
  CASE s = "configureISDP" -> {}
    [] s = "storeMetadata" -> {"configureISDP"}
    [] s = "replaceSessionKeys" -> {"configureISDP", "storeMetadata"}
    [] s = "upp" -> {"configureISDP", "storeMetadata"}
                    \cup (IF replace THEN {"replaceSessionKeys"} ELSE {})

DecShape ==
  /\ dec = [state |-> dec.state, section |-> dec.section, done |-> dec.done, bsp |-> dec.bsp,
            got |-> dec.got, whole |-> dec.whole]
  /\ dec.got = [s \in Sections |-> dec.got[s]]

DecOK ==
  /\ dec.state \in {Idle, "busy", "done"}
  /\ dec.state # Idle =>
       /\ DecShape
       /\ enc.state = "done" /\ dec.whole
       /\ dec.section \in Sections /\ (dec.section = "replaceSessionKeys" => enc.replace)
       /\ \A s \in Before(dec.section, enc.replace) : dec.got[s] = Size[s]
  /\ dec.state = "busy" =>
       /\ dec.done \in Nat /\ dec.done < Len(bpp[dec.section])
       /\ dec.bsp = enc.seen[dec.section][dec.done + 1]
       /\ dec.got[dec.section] = Reached(dec.section, dec.done)
       /\ \A s \in Sections \ (Before(dec.section, enc.replace) \cup {dec.section}) : dec.got[s] = 0
  /\ dec.state = "done" => dec.section = "upp" /\ dec.got["upp"] = Size["upp"]

BspInv == EncShape /\ SectionsOK /\ UnderWayOK /\ DecOK
-----------------------------------------------------------------------------
\* Sequence r is q and x after it.
Extended(r, q, x) ==
  /\ IsSequence(r) /\ Len(q) \in Nat
  /\ Len(r) = Len(q) + 1 /\ r[Len(q) + 1] = x
  /\ \A i \in 1..Len(q) : r[i] = q[i]
  /\ r # <<>>

\* What appending does to a sequence.
LEMMA AppendIs ==
  ASSUME NEW q, IsSequence(q), NEW x
  PROVE  Extended(Append(q, x), q, x)
<1>1. PICK S : q \in Seq(S)
  BY DEF IsSequence
<1>2. q \in Seq(S \cup {x}) /\ x \in S \cup {x}
  BY <1>1
<1>3. Append(q, x) \in Seq(S \cup {x})
  BY <1>2
<1> QED  BY <1>2, <1>3 DEF IsSequence, Extended

\* The order of the sections has no section twice.
LEMMA OrderIs ==
  ASSUME NEW r \in BOOLEAN
  PROVE  /\ Len(EncodeOrder(r)) = (IF r THEN 4 ELSE 3)
         /\ \A k \in 1..Len(EncodeOrder(r)) : EncodeOrder(r)[k] \in Sections
         /\ \A i, j \in 1..Len(EncodeOrder(r)) : EncodeOrder(r)[i] = EncodeOrder(r)[j] => i = j
         /\ r => /\ EncodeOrder(r)[1] = "upp" /\ EncodeOrder(r)[2] = "configureISDP"
                 /\ EncodeOrder(r)[3] = "storeMetadata" /\ EncodeOrder(r)[4] = "replaceSessionKeys"
         /\ ~ r => /\ EncodeOrder(r)[1] = "configureISDP" /\ EncodeOrder(r)[2] = "storeMetadata"
                   /\ EncodeOrder(r)[3] = "upp"
<1>1. CASE r = TRUE
  BY <1>1 DEF EncodeOrder, Sections
<1>2. CASE r = FALSE
  BY <1>2 DEF EncodeOrder, Sections
<1> QED  BY <1>1, <1>2

\* A piece is not empty, and ends within its section.
LEMMA SpanIs ==
  ASSUME NEW s \in Sections, NEW n \in Nat, n < Size[s]
  PROVE  /\ NextSpan(s, n).from = n /\ NextSpan(s, n).upto \in Nat
         /\ n < NextSpan(s, n).upto /\ NextSpan(s, n).upto <= Size[s]
BY BspAssumption DEF NextSpan

LEMMA InitBspInv == BspInit => BspInv
<1> SUFFICES ASSUME BspInit PROVE BspInv
  OBVIOUS
<1>1. <<>> \in Seq({})
  OBVIOUS
<1>2. EncShape
  BY <1>1 DEF BspInit, NoEncoder, NoSegments, EncShape, IsSequence, Idle
<1> QED  BY <1>2 DEF BspInit, NoEncoder, NoDecoder, Idle, BspInv, SectionsOK, UnderWayOK, DecOK
-----------------------------------------------------------------------------
(* Encoding.                                                               *)

\* A chain grows by a segment that its last instance makes.
Grows(s, q, in, r, out, span, n) ==
  /\ n \in Nat /\ Len(q) = n
  /\ Chain(q, in, s)
  /\ Extended(r, q, Protect(in[n + 1], s, span))
  /\ Extended(out, in, AfterProtect(in[n + 1], s, span))
  /\ span.from = ReachOf(q, n) /\ span.upto \in Nat

LEMMA ChainGrows ==
  ASSUME NEW s, NEW q, NEW in, NEW r, NEW out, NEW span, NEW n,
         Grows(s, q, in, r, out, span, n)
  PROVE  /\ Chain(r, out, s) /\ Len(r) = n + 1
         /\ out[n + 2] = AfterProtect(in[n + 1], s, span)
         /\ ReachOf(r, n + 1) = span.upto
         /\ out[1] = in[1]
<1>0. /\ n \in Nat /\ Len(q) = n
      /\ Chain(q, in, s)
      /\ Extended(r, q, Protect(in[n + 1], s, span))
      /\ Extended(out, in, AfterProtect(in[n + 1], s, span))
      /\ span.from = ReachOf(q, n) /\ span.upto \in Nat
  BY DEF Grows
<1> USE <1>0
<1> DEFINE seg == Protect(in[n + 1], s, span)
           after == AfterProtect(in[n + 1], s, span)
<1>1. seg.body.span = span
  BY DEF Protect, Body
<1> HIDE DEF seg, after
<1>2. Len(r) = n + 1 /\ r[n + 1] = seg /\ \A i \in 1..n : r[i] = q[i]
  BY DEF Extended, seg
<1>3. Len(in) = n + 1
  BY DEF Chain
<1>4. Len(out) = (n + 1) + 1 /\ out[(n + 1) + 1] = after /\ \A i \in 1..(n + 1) : out[i] = in[i]
  BY <1>3 DEF Extended, after
<1>5. \A i \in 0..n : ReachOf(r, i) = ReachOf(q, i)
  BY <1>2 DEF ReachOf
<1>6. ASSUME NEW i \in 1..(n + 1) PROVE Link(r, out, s, i)
  <2>1. CASE i = n + 1
    <3>1. r[i] = seg /\ out[i] = in[n + 1] /\ out[i + 1] = after /\ ReachOf(r, i - 1) = ReachOf(q, n)
      BY <2>1, <1>2, <1>4, <1>5
    <3> QED  BY <3>1, <1>1 DEF Link, seg, after
  <2>2. CASE i # n + 1
    <3>1. i \in 1..n /\ i - 1 \in 0..n /\ i + 1 \in 1..(n + 1)
      BY <2>2
    <3>2. r[i] = q[i] /\ out[i] = in[i] /\ out[i + 1] = in[i + 1] /\ ReachOf(r, i - 1) = ReachOf(q, i - 1)
      BY <3>1, <1>2, <1>4, <1>5
    <3>3. Link(q, in, s, i)
      BY <3>1 DEF Chain
    <3> QED  BY <3>2, <3>3 DEF Link
  <2> QED  BY <2>1, <2>2
<1>7. Chain(r, out, s)
  BY <1>2, <1>4, <1>6 DEF Chain
<1> QED  BY <1>1, <1>2, <1>4, <1>7 DEF ReachOf, after

\* A section that is not touched stays as it is.
LEMMA Untouched ==
  ASSUME NEW s \in Sections, bpp'[s] = bpp[s], enc'.seen[s] = enc.seen[s]
  PROVE  /\ Chained(s)' <=> Chained(s)
         /\ Whole(s)' <=> Whole(s)
         /\ EndOf(s)' = EndOf(s)
BY DEF Chained, Whole, Reached, EndOf

\* The section under way gets its next segment from the instance it has, and
\* goes on with the one after.
LEMMA SegmentIs ==
  ASSUME BspInv, enc.state = "busy", NEW s \in Sections, s = Order[enc.nr],
         NEW span, span = NextSpan(s, enc.from),
         NEW after, after = AfterProtect(enc.bsp, s, span),
         NEW r, Extended(r, bpp[s], Protect(enc.bsp, s, span)),
         NEW out, Extended(out, enc.seen[s], after),
         bpp'[s] = r, enc'.seen[s] = out
  PROVE  /\ Chained(s)' /\ EndOf(s)' = after /\ bpp'[s] # <<>>
         /\ ReachOf(bpp'[s], Len(bpp'[s])) = span.upto
         /\ enc'.seen[s][1] = enc.seen[s][1]
         /\ IsSequence(bpp'[s]) /\ IsSequence(enc'.seen[s])
<1>1. PICK q : q = bpp[s]
  OBVIOUS
<1>2. PICK in : in = enc.seen[s]
  OBVIOUS
<1>3. PICK b : b = enc.bsp
  OBVIOUS
<1>4. /\ IsSequence(q) /\ IsSequence(in) /\ Chain(q, in, s)
      /\ b = in[Len(q) + 1] /\ enc.from = ReachOf(q, Len(q))
      /\ enc.from \in Nat /\ enc.from < Size[s]
  BY <1>1, <1>2, <1>3 DEF BspInv, UnderWayOK, EncShape, EndOf, Idle, Chained, Reached
<1>5. Extended(r, q, Protect(b, s, span)) /\ Extended(out, in, after)
  BY <1>1, <1>2, <1>3, Zenon
<1>6. PICK n \in Nat : n = Len(q)
  BY <1>5 DEF Extended
<1>7. span.from = enc.from /\ span.upto \in Nat
  BY <1>4, SpanIs
<1>8. /\ Chain(r, out, s) /\ Len(r) = n + 1
      /\ out[n + 2] = after /\ ReachOf(r, n + 1) = span.upto /\ out[1] = in[1]
  <2>1. Extended(r, q, Protect(in[n + 1], s, span))
        /\ Extended(out, in, AfterProtect(in[n + 1], s, span))
        /\ after = AfterProtect(in[n + 1], s, span)
    BY <1>3, <1>4, <1>5, <1>6, Zenon
  <2>2. Len(q) = n /\ span.from = ReachOf(q, n)
    BY <1>4, <1>6, <1>7
  <2>3. /\ Chain(r, out, s) /\ Len(r) = n + 1
        /\ out[n + 2] = AfterProtect(in[n + 1], s, span)
        /\ ReachOf(r, n + 1) = span.upto /\ out[1] = in[1]
    <3>1. Grows(s, q, in, r, out, span, n)
      BY <2>1, <2>2, <1>4, <1>6, <1>7, Zenon DEF Grows
    <3> QED  BY <3>1, ChainGrows
  <2> QED  BY <2>1, <2>3, Zenon
<1>9. EndOf(s)' = after
  <2> n + 2 = (n + 1) + 1
    OBVIOUS
  <2> QED  BY <1>8, Zenon DEF EndOf
<1>10. bpp'[s] # <<>> /\ IsSequence(r) /\ IsSequence(out)
  BY <1>5 DEF Extended
<1>11. ReachOf(bpp'[s], Len(bpp'[s])) = span.upto
  BY <1>8 DEF Reached
<1> QED  BY <1>2, <1>8, <1>9, <1>10, <1>11, Zenon DEF Chained

\* A package is begun with its first section.
LEMMA StartStep ==
  ASSUME BspInv, NEW key, NEW replace \in BOOLEAN, enc.state = Idle, StartEncode(key, replace),
         dec' = dec
  PROVE  BspInv'
<1> DEFINE o == EncodeOrder(replace)
           first == NewBsp(IF replace THEN PpkKey ELSE key)
<1>1. /\ enc'.state = "busy" /\ enc'.replace = replace /\ enc'.nr = 1 /\ enc'.from = 0
      /\ enc'.key = key /\ enc'.bsp = first
      /\ enc'.seen = [s \in Sections |-> IF s = o[1] THEN <<first>> ELSE <<>>]
      /\ bpp' = NoSegments
  BY DEF StartEncode
<1>2. enc' = [state |-> enc'.state, replace |-> enc'.replace, nr |-> enc'.nr, from |-> enc'.from,
              key |-> enc'.key, bsp |-> enc'.bsp, seen |-> enc'.seen]
  BY DEF StartEncode
<1>3. /\ Len(o) \in 3..4 /\ o[1] \in Sections /\ 1 \in 1..Len(o)
      /\ \A k \in 1..Len(o) : o[k] \in Sections
  BY OrderIs
<1>4. Order' = o
  BY <1>1 DEF Order
<1>5. <<>> \in Seq({}) /\ <<first>> \in Seq({first}) /\ Len(<<>>) = 0 /\ Len(<<first>>) = 1
      /\ <<first>>[1] = first
  OBVIOUS
<1> HIDE DEF o, first
<1>6. \A s \in Sections : IsSequence(bpp'[s]) /\ IsSequence(enc'.seen[s]) /\ bpp'[s] = <<>>
  BY <1>1, <1>5 DEF NoSegments, IsSequence
<1>7. EncShape'
  BY <1>1, <1>2, <1>3, <1>4, <1>6 DEF EncShape, NoSegments, Idle
<1>8. SectionsOK'
  <2>1. enc'.seen[o[1]][1] = first
    BY <1>1, <1>3, <1>5
  <2>2. BeginAt(1)' = first
    BY <1>1 DEF BeginAt, first
  <2>3. ASSUME NEW k \in 1..Len(o)
        PROVE  /\ ~ (k < enc'.nr \/ enc'.state = "done")
               /\ bpp'[o[k]] = <<>>
               /\ k <= enc'.nr => k = 1
    BY <1>1, <1>3, <1>6
  <2> QED  BY <1>1, <1>4, <1>6, <2>1, <2>2, <2>3 DEF SectionsOK, Sections
<1>9. UnderWayOK'
  <2>1. Order'[enc'.nr] = o[1] /\ Len(bpp'[o[1]]) = 0 /\ enc'.seen[o[1]] = <<first>>
    BY <1>1, <1>3, <1>4, <1>5, <1>6
  <2>2. Chained(o[1])'
    BY <2>1, <1>5 DEF Chained, Chain, o
  <2>3. EndOf(o[1])' = enc'.bsp /\ Reached(o[1], Len(bpp[o[1]]))' = 0
    BY <2>1, <1>1, <1>5 DEF EndOf, Reached, ReachOf, o
  <2>4. 0 < Size[o[1]]
    BY <1>3, BspAssumption
  <2> QED  BY <1>1, <2>1, <2>2, <2>3, <2>4 DEF UnderWayOK, o
<1>10. DecOK'
  BY <1>1 DEF BspInv, DecOK, Idle
<1> QED  BY <1>7, <1>8, <1>9, <1>10 DEF BspInv

\* A segment more: the section under way grows, or is whole and the next one
\* begins with the instance it ended with.
LEMMA EncodeStep == BspInv /\ EncodeSegment => BspInv'
<1> SUFFICES ASSUME BspInv, EncodeSegment PROVE BspInv'
  OBVIOUS
<1>1. enc.state = "busy" /\ dec' = dec /\ enc.state # Idle
  BY DEF EncodeSegment, Idle
<1>2. /\ enc.replace \in BOOLEAN /\ enc.nr \in 1..Len(Order)
      /\ enc = [state |-> enc.state, replace |-> enc.replace, nr |-> enc.nr, from |-> enc.from,
                key |-> enc.key, bsp |-> enc.bsp, seen |-> enc.seen]
      /\ enc.seen = [t \in Sections |-> enc.seen[t]] /\ bpp = [t \in Sections |-> bpp[t]]
      /\ \A t \in Sections : IsSequence(enc.seen[t]) /\ IsSequence(bpp[t])
  BY <1>1 DEF BspInv, EncShape
<1>3. /\ \A i \in 1..Len(Order) : Order[i] \in Sections
      /\ \A i, j \in 1..Len(Order) : Order[i] = Order[j] => i = j
      /\ Len(Order) \in 3..4
  BY <1>2, OrderIs DEF Order
<1>4. PICK s \in Sections : s = Order[enc.nr]
  BY <1>2, <1>3
<1>5. PICK span : span = NextSpan(s, enc.from)
  OBVIOUS
<1>6. PICK after : after = AfterProtect(enc.bsp, s, span)
  OBVIOUS
<1>7. PICK r : r = Append(bpp[s], Protect(enc.bsp, s, span))
  OBVIOUS
<1>8. PICK out : out = Append(enc.seen[s], after)
  OBVIOUS
<1>9. PICK seen : seen = [enc.seen EXCEPT ![s] = out]
  OBVIOUS
<1>10. Extended(r, bpp[s], Protect(enc.bsp, s, span)) /\ Extended(out, enc.seen[s], after)
  BY <1>2, <1>7, <1>8, AppendIs, Zenon
<1>11. /\ bpp' = [bpp EXCEPT ![s] = r]
       /\ \/ /\ span.upto < Size[s]
             /\ enc' = [enc EXCEPT !.from = span.upto, !.bsp = after, !.seen = seen]
          \/ /\ span.upto = Size[s] /\ enc.nr < Len(Order)
             /\ enc' = [enc EXCEPT !.nr = enc.nr + 1, !.from = 0, !.bsp = BspAfter(enc, after),
                          !.seen = [seen EXCEPT ![Order[enc.nr + 1]] = <<BspAfter(enc, after)>>]]
          \/ /\ span.upto = Size[s] /\ enc.nr = Len(Order)
             /\ enc' = [enc EXCEPT !.state = "done", !.bsp = after, !.seen = seen]
  BY <1>4, <1>5, <1>6, <1>7, <1>8, <1>9, Zenon DEF EncodeSegment, Order
<1> DEFINE Same == span.upto < Size[s]
                   /\ enc' = [enc EXCEPT !.from = span.upto, !.bsp = after, !.seen = seen]
           Over == /\ span.upto = Size[s] /\ enc.nr < Len(Order)
                   /\ enc' = [enc EXCEPT !.nr = enc.nr + 1, !.from = 0, !.bsp = BspAfter(enc, after),
                                !.seen = [seen EXCEPT ![Order[enc.nr + 1]] = <<BspAfter(enc, after)>>]]
           Done == /\ span.upto = Size[s] /\ enc.nr = Len(Order)
                   /\ enc' = [enc EXCEPT !.state = "done", !.bsp = after, !.seen = seen]
<1>12. /\ seen[s] = out /\ seen = [t \in Sections |-> seen[t]]
       /\ \A t \in Sections : t # s => seen[t] = enc.seen[t]
       /\ \A t \in Sections : IsSequence(seen[t])
  BY <1>2, <1>9, <1>10 DEF Extended
\* What all three do.
<1>13. /\ enc'.replace = enc.replace /\ enc'.key = enc.key /\ enc'.state \in {"busy", "done"}
       /\ enc'.nr \in 1..Len(Order) /\ enc.nr <= enc'.nr
       /\ enc' = [state |-> enc'.state, replace |-> enc'.replace, nr |-> enc'.nr, from |-> enc'.from,
                  key |-> enc'.key, bsp |-> enc'.bsp, seen |-> enc'.seen]
       /\ enc'.seen = [t \in Sections |-> enc'.seen[t]]
       /\ enc'.seen[s] = out
       /\ \A j \in 1..Len(Order) : j < enc.nr => enc'.seen[Order[j]] = enc.seen[Order[j]]
       /\ \A t \in Sections : IsSequence(enc'.seen[t])
  <2>1. CASE Same \/ Done
    <3>1. /\ enc'.state \in {"busy", "done"} /\ enc'.replace = enc.replace /\ enc'.nr = enc.nr
          /\ enc'.key = enc.key /\ enc'.seen = seen
          /\ enc' = [state |-> enc'.state, replace |-> enc'.replace, nr |-> enc'.nr, from |-> enc'.from,
                     key |-> enc'.key, bsp |-> enc'.bsp, seen |-> enc'.seen]
      BY <1>1, <1>2, <2>1
    <3> HIDE DEF Same, Over, Done
    <3> QED  BY <3>1, <1>2, <1>3, <1>4, <1>12
  <2>2. CASE Over
    <3>1. PICK one : one = <<BspAfter(enc, after)>>
      OBVIOUS
    <3>2. IsSequence(one)
      <4> one \in Seq({BspAfter(enc, after)})
        BY <3>1
      <4> QED  BY DEF IsSequence
    <3>3. /\ enc'.state = "busy" /\ enc'.replace = enc.replace /\ enc'.nr = enc.nr + 1
          /\ enc'.key = enc.key
          /\ enc'.seen = [seen EXCEPT ![Order[enc.nr + 1]] = one]
          /\ enc' = [state |-> enc'.state, replace |-> enc'.replace, nr |-> enc'.nr, from |-> enc'.from,
                     key |-> enc'.key, bsp |-> enc'.bsp, seen |-> enc'.seen]
      BY <1>1, <1>2, <2>2, <3>1
    <3>4. enc.nr + 1 \in 1..Len(Order) /\ enc.nr < Len(Order)
      BY <1>2, <1>3, <2>2
    <3> HIDE DEF Same, Over, Done
    <3>5. \A j \in 1..Len(Order) : j <= enc.nr => Order[j] # Order[enc.nr + 1]
      BY <1>2, <1>3, <3>4
    <3>6. /\ enc'.seen = [t \in Sections |-> enc'.seen[t]]
          /\ \A t \in Sections : enc'.seen[t] = IF t = Order[enc.nr + 1] THEN one ELSE seen[t]
      BY <1>3, <1>12, <3>3, <3>4
    <3>7. enc'.seen[s] = out
      BY <1>2, <1>4, <1>12, <3>5, <3>6
    <3>8. \A j \in 1..Len(Order) : j < enc.nr => enc'.seen[Order[j]] = enc.seen[Order[j]]
      BY <1>2, <1>3, <1>4, <1>12, <3>5, <3>6
    <3> QED  BY <1>2, <1>12, <3>2, <3>3, <3>4, <3>6, <3>7, <3>8
  <2> QED  BY <2>1, <2>2, <1>11
<1>14. Order' = Order
  BY <1>13 DEF Order
<1>15. bpp'[s] = r /\ (\A t \in Sections : t # s => bpp'[t] = bpp[t])
       /\ bpp' = [t \in Sections |-> bpp'[t]]
  BY <1>2, <1>11
<1>16. /\ Chained(s)' /\ EndOf(s)' = after /\ bpp'[s] # <<>>
       /\ ReachOf(bpp'[s], Len(bpp'[s])) = span.upto
       /\ enc'.seen[s][1] = enc.seen[s][1]
       /\ IsSequence(bpp'[s]) /\ IsSequence(enc'.seen[s])
  BY <1>1, <1>4, <1>5, <1>6, <1>10, <1>13, <1>15, SegmentIs
<1>17. EncShape'
  BY <1>2, <1>13, <1>14, <1>15, <1>16, Zenon DEF EncShape
<1>18. ASSUME NEW j \in 1..Len(Order), j < enc.nr
       PROVE  Whole(Order[j])' /\ EndOf(Order[j])' = EndOf(Order[j])
              /\ enc'.seen[Order[j]][1] = enc.seen[Order[j]][1]
  <2>1. Order[j] \in Sections /\ Order[j] # s
    BY <1>2, <1>3, <1>4, <1>18
  <2>2. bpp'[Order[j]] = bpp[Order[j]] /\ enc'.seen[Order[j]] = enc.seen[Order[j]]
    BY <1>13, <1>15, <1>18, <2>1
  <2>3. Whole(Order[j])
    BY <1>1, <1>18 DEF BspInv, SectionsOK
  <2>4. PICK t \in Sections : t = Order[j]
    BY <2>1
  <2> QED  BY <2>2, <2>3, <2>4, <1>14, Untouched
<1>19. ASSUME NEW j \in 1..Len(Order), j <= enc.nr
       PROVE  enc'.seen[Order[j]][1] = BeginAt(j)'
  <2>1. enc'.seen[Order[j]][1] = enc.seen[Order[j]][1]
    BY <1>2, <1>3, <1>4, <1>16, <1>18, <1>19
  <2>2. enc.seen[Order[j]][1] = BeginAt(j)
    BY <1>1, <1>19 DEF BspInv, SectionsOK
  <2>3. CASE j = 1 \/ (enc.replace /\ j = 2)
    BY <1>13, <2>1, <2>2, <2>3 DEF BeginAt
  <2>4. CASE ~ (j = 1 \/ (enc.replace /\ j = 2))
    <3>1. j - 1 \in 1..Len(Order) /\ j - 1 < enc.nr
      BY <1>2, <1>3, <1>19, <2>4
    <3>2. EndOf(Order[j - 1])' = EndOf(Order[j - 1])
      BY <1>18, <3>1
    <3> QED  BY <1>13, <1>14, <2>1, <2>2, <2>4, <3>2 DEF BeginAt
  <2> QED  BY <2>3, <2>4
<1>20. /\ \A k \in 1..Len(Order) : k > enc.nr => bpp'[Order[k]] = <<>>
       /\ ~ enc'.replace => bpp'["replaceSessionKeys"] = <<>>
  <2>1. ASSUME NEW k \in 1..Len(Order), k > enc.nr PROVE bpp'[Order[k]] = <<>>
    <3> Order[k] # s /\ Order[k] \in Sections /\ bpp[Order[k]] = <<>>
      BY <1>1, <1>2, <1>3, <1>4, <2>1, SMTT(30) DEF BspInv, SectionsOK
    <3> QED  BY <1>15
  <2>2. ASSUME ~ enc.replace PROVE bpp'["replaceSessionKeys"] = <<>>
    <3>1. s # "replaceSessionKeys" /\ "replaceSessionKeys" \in Sections
      BY <1>2, <1>4, <2>2, OrderIs DEF Order, Sections
    <3>2. bpp["replaceSessionKeys"] = <<>>
      BY <1>1, <2>2 DEF BspInv, SectionsOK
    <3> QED  BY <1>15, <3>1, <3>2
  <2> QED  BY <1>13, <2>1, <2>2
<1>21. DecOK'
  <2> dec.state = Idle
    BY <1>1 DEF BspInv, DecOK
  <2> QED  BY <1>1 DEF DecOK, Idle
<1>22. ASSUME span.upto = Size[s], NEW k \in 1..Len(Order), k = enc.nr
       PROVE  Whole(Order[k])'
  <2>1. Order'[k] = s
    BY <1>4, <1>14, <1>22
  <2> QED  BY <1>16, <1>22, <2>1 DEF Whole, Reached, Chained
<1>23. CASE Same
  <2>1. enc'.state = "busy" /\ enc'.nr = enc.nr /\ enc'.from = span.upto /\ enc'.bsp = after
        /\ span.upto < Size[s]
    BY <1>1, <1>2, <1>23
  <2> HIDE DEF Same, Over, Done
  <2>2. SectionsOK'
    BY <1>14, <1>18, <1>19, <1>20, <2>1 DEF SectionsOK
  <2>3. span.upto \in Nat
    <3> enc.from \in Nat /\ enc.from < Size[s]
      BY <1>1, <1>4 DEF BspInv, UnderWayOK
    <3> QED  BY <1>5, SpanIs
  <2>4. UnderWayOK'
    BY <1>4, <1>14, <1>16, <2>1, <2>3 DEF UnderWayOK, Reached
  <2> QED  BY <1>17, <1>21, <2>2, <2>4 DEF BspInv
<1>24. CASE Done
  <2>1. enc'.state = "done" /\ enc'.nr = enc.nr /\ span.upto = Size[s] /\ enc.nr = Len(Order)
    BY <1>1, <1>2, <1>24
  <2> HIDE DEF Same, Over, Done
  <2>2. \A k \in 1..Len(Order) : Whole(Order[k])'
    BY <1>2, <1>3, <1>18, <1>22, <2>1
  <2>3. SectionsOK'
    BY <1>14, <1>19, <1>20, <2>1, <2>2 DEF SectionsOK
  <2>4. UnderWayOK'
    BY <2>1 DEF UnderWayOK
  <2> QED  BY <1>17, <1>21, <2>3, <2>4 DEF BspInv
<1>25. CASE Over
  <2>1. PICK one : one = <<BspAfter(enc, after)>>
    OBVIOUS
  <2>2. one[1] = BspAfter(enc, after) /\ Len(one) = 1
    BY <2>1
  <2>3. /\ enc'.state = "busy" /\ enc'.nr = enc.nr + 1 /\ enc'.from = 0 /\ enc'.bsp = BspAfter(enc, after)
        /\ enc'.seen = [seen EXCEPT ![Order[enc.nr + 1]] = one]
        /\ span.upto = Size[s] /\ enc.nr < Len(Order)
    BY <1>1, <1>2, <1>25, <2>1
  <2> HIDE DEF Same, Over, Done
  <2>4. PICK n \in 1..Len(Order) : n = enc.nr + 1
    BY <1>2, <1>3, <2>3
  <2>5. PICK t \in Sections : t = Order[n]
    BY <1>3
  <2>6. enc'.seen[t] = one /\ bpp'[t] = <<>>
    BY <1>2, <1>12, <1>20, <2>3, <2>4, <2>5
  <2>7. BeginAt(n)' = BspAfter(enc, after)
    <3>1. n # 1 /\ n - 1 = enc.nr /\ (enc.replace /\ n = 2 <=> enc.replace /\ enc.nr = 1)
      BY <1>2, <1>3, <2>4
    <3>2. EndOf(Order[n - 1])' = after
      BY <1>4, <1>14, <1>16, <3>1
    <3> QED  BY <1>13, <1>14, <3>1, <3>2 DEF BeginAt, BspAfter
  <2>8. \A k \in 1..Len(Order) :
          /\ k < n => Whole(Order[k])'
          /\ k <= n => enc'.seen[Order[k]][1] = BeginAt(k)'
    <3>1. ASSUME NEW k \in 1..Len(Order), k < n PROVE Whole(Order[k])'
      BY <1>2, <1>3, <1>18, <1>22, <2>3, <2>4, <3>1
    <3>2. ASSUME NEW k \in 1..Len(Order), k <= n PROVE enc'.seen[Order[k]][1] = BeginAt(k)'
      <4>1. CASE k = n
        BY <2>2, <2>5, <2>6, <2>7, <4>1
      <4>2. CASE k # n
        BY <1>2, <1>3, <1>19, <2>4, <3>2, <4>2
      <4> QED  BY <4>1, <4>2
    <3> QED  BY <3>1, <3>2
  <2>9. \A k \in 1..Len(Order) : k > n => bpp'[Order[k]] = <<>>
    BY <1>2, <1>3, <1>20, <2>4
  <2>10. SectionsOK'
    BY <1>14, <1>20, <2>3, <2>4, <2>8, <2>9 DEF SectionsOK
  <2>11. Chained(t)' /\ EndOf(t)' = BspAfter(enc, after) /\ Reached(t, Len(bpp[t]))' = 0 /\ 0 < Size[t]
    <3>1. Len(<<>>) = 0
      OBVIOUS
    <3> QED  BY <2>2, <2>6, <3>1, BspAssumption DEF Chained, Chain, EndOf, Reached, ReachOf
  <2>12. UnderWayOK'
    BY <1>14, <2>3, <2>4, <2>5, <2>11 DEF UnderWayOK
  <2> QED  BY <1>17, <1>21, <2>10, <2>12 DEF BspInv
<1> QED  BY <1>11, <1>23, <1>24, <1>25

-----------------------------------------------------------------------------
(* Decoding.                                                               *)

\* A segment opens with the instance that made it, and leaves the next one.
LEMMA LinkOpens ==
  ASSUME NEW q, NEW in, NEW t, NEW i, Link(q, in, t, i)
  PROVE  /\ Verified(in[i], q[i]) /\ Readable(in[i], q[i])
         /\ AfterUnprotect(in[i], q[i]) = in[i + 1]
<1>1. PICK b : b = in[i]
  OBVIOUS
<1>2. PICK span : span = q[i].body.span
  OBVIOUS
<1>3. q[i] = Protect(b, t, span) /\ in[i + 1] = AfterProtect(b, t, span)
  BY <1>1, <1>2 DEF Link
<1>4. PICK seg : seg = Protect(b, t, span)
  OBVIOUS
<1>5. seg.body = Body(b, t, span) /\ seg.mac = Mac(b, seg.body) /\ seg.body.section = t
      /\ (Encrypted(t) => seg.body.icv = <<b.key, b.block_nr>>)
  BY <1>4 DEF Protect, Body
<1>6. Verified(b, seg) /\ Readable(b, seg)
  BY <1>5 DEF Verified, Readable
<1>7. AfterUnprotect(b, seg) = AfterProtect(b, t, span)
  BY <1>5 DEF AfterUnprotect, AfterProtect
<1> QED  BY <1>1, <1>3, <1>4, <1>6, <1>7, Zenon

\* On the wire every section is whole, and begins with the instance with
\* which the one before it ended, or with keys of its own.
LEMMA WireIs ==
  ASSUME BspInv, enc.state = "done"
  PROVE  /\ Whole("configureISDP") /\ Whole("storeMetadata") /\ Whole("upp")
         /\ enc.replace => Whole("replaceSessionKeys")
         /\ bpp["replaceSessionKeys"] # <<>> <=> enc.replace
         /\ enc.seen["configureISDP"][1] = NewBsp(enc.key)
         /\ enc.seen["storeMetadata"][1] = EndOf("configureISDP")
         /\ enc.replace => /\ enc.seen["replaceSessionKeys"][1] = EndOf("storeMetadata")
                           /\ enc.seen["upp"][1] = NewBsp(PpkKey)
         /\ ~ enc.replace => enc.seen["upp"][1] = EndOf("storeMetadata")
<1>1. /\ enc.replace \in BOOLEAN /\ enc.nr = Len(Order)
      /\ \A k \in 1..Len(Order) : Whole(Order[k]) /\ enc.seen[Order[k]][1] = BeginAt(k)
      /\ ~ enc.replace => bpp["replaceSessionKeys"] = <<>>
  <2>1. enc.nr = Len(Order) /\ enc.nr \in 1..Len(Order) /\ enc.replace \in BOOLEAN
    BY DEF BspInv, EncShape, SectionsOK, Idle
  <2>2. Len(Order) \in Nat
    BY <2>1, OrderIs DEF Order
  <2> QED  BY <2>1, <2>2 DEF BspInv, SectionsOK, Idle
<1>2. CASE enc.replace
  <2>1. /\ Len(Order) = 4 /\ Order[1] = "upp" /\ Order[2] = "configureISDP"
        /\ Order[3] = "storeMetadata" /\ Order[4] = "replaceSessionKeys"
    BY <1>1, <1>2, OrderIs DEF Order
  <2>2. /\ 1 \in 1..4 /\ 2 \in 1..4 /\ 3 \in 1..4 /\ 4 \in 1..4
        /\ BeginAt(1) = NewBsp(PpkKey) /\ BeginAt(2) = NewBsp(enc.key)
        /\ BeginAt(3) = EndOf("configureISDP") /\ BeginAt(4) = EndOf("storeMetadata")
    BY <1>2, <2>1 DEF BeginAt
  <2> QED  BY <1>1, <1>2, <2>1, <2>2 DEF Whole
<1>3. CASE ~ enc.replace
  <2>1. /\ Len(Order) = 3 /\ Order[1] = "configureISDP" /\ Order[2] = "storeMetadata"
        /\ Order[3] = "upp"
    BY <1>1, <1>3, OrderIs DEF Order
  <2>2. /\ 1 \in 1..3 /\ 2 \in 1..3 /\ 3 \in 1..3
        /\ BeginAt(1) = NewBsp(enc.key) /\ BeginAt(2) = EndOf("configureISDP")
        /\ BeginAt(3) = EndOf("storeMetadata")
    BY <1>3, <2>1 DEF BeginAt
  <2> QED  BY <1>1, <1>3, <2>1, <2>2
<1> QED  BY <1>2, <1>3

\* A section that is not empty has a first segment.
LEMMA NotEmpty ==
  ASSUME NEW q, IsSequence(q), q # <<>>
  PROVE  Len(q) \in Nat /\ 0 < Len(q)
BY DEF IsSequence

\* The decoder begins where the session's keys begin.
LEMMA StartDecodeStep ==
  ASSUME BspInv, enc.state = "done", dec.state = Idle, StartDecode(enc.key), enc' = enc, bpp' = bpp
  PROVE  BspInv'
<1>1. EncShape' /\ SectionsOK' /\ UnderWayOK'
  BY DEF BspInv, EncShape, SectionsOK, UnderWayOK, Order, BeginAt, EndOf, Whole, Chained, Reached
<1>2. /\ dec' = [state |-> dec'.state, section |-> dec'.section, done |-> dec'.done, bsp |-> dec'.bsp,
                 got |-> dec'.got, whole |-> dec'.whole]
      /\ dec'.state = "busy" /\ dec'.section = "configureISDP" /\ dec'.done = 0
      /\ dec'.bsp = NewBsp(enc.key) /\ dec'.got = [s \in Sections |-> 0] /\ dec'.whole = TRUE
  BY DEF StartDecode
<1>3. bpp["configureISDP"] # <<>> /\ IsSequence(bpp["configureISDP"])
  BY WireIs DEF Whole, BspInv, EncShape, Sections
<1>4. Len(bpp["configureISDP"]) \in Nat /\ 0 < Len(bpp["configureISDP"])
  BY <1>3, NotEmpty
<1>5. enc.seen["configureISDP"][1] = NewBsp(enc.key)
  BY WireIs
<1>6. DecOK'
  <2>1. DecShape'
    BY <1>2 DEF DecShape
  <2> QED  BY <1>2, <1>4, <1>5, <2>1 DEF DecOK, Sections, Before, Reached, ReachOf, Idle
<1> QED  BY <1>1, <1>6 DEF BspInv

\* A segment opens, and what was got reaches as far as it does.
LEMMA DecodeStep == BspInv /\ DecodeSegment => BspInv'
<1> SUFFICES ASSUME BspInv, DecodeSegment PROVE BspInv'
  OBVIOUS
<1>1. /\ dec.state = "busy" /\ dec.state # Idle /\ enc.state = "done" /\ enc' = enc /\ bpp' = bpp
      /\ dec = [state |-> dec.state, section |-> dec.section, done |-> dec.done, bsp |-> dec.bsp,
                got |-> dec.got, whole |-> dec.whole]
      /\ dec.got = [s \in Sections |-> dec.got[s]] /\ dec.whole
      /\ dec.section \in Sections /\ (dec.section = "replaceSessionKeys" => enc.replace)
      /\ \A s \in Before(dec.section, enc.replace) : dec.got[s] = Size[s]
      /\ dec.done \in Nat /\ dec.done < Len(bpp[dec.section])
      /\ dec.bsp = enc.seen[dec.section][dec.done + 1]
      /\ dec.got[dec.section] = Reached(dec.section, dec.done)
      /\ \A s \in Sections \ (Before(dec.section, enc.replace) \cup {dec.section}) : dec.got[s] = 0
  BY DEF DecodeSegment, BspInv, DecOK, DecShape, Idle
<1>2. PICK t \in Sections : t = dec.section
  BY <1>1
<1>3. PICK q : q = bpp[t]
  OBVIOUS
<1>4. PICK i : i = dec.done + 1
  OBVIOUS
<1>5. PICK seg : seg = q[i]
  OBVIOUS
<1>6. Whole(t)
  BY <1>1, <1>2, WireIs DEF Sections
<1>7. Len(q) \in Nat /\ i \in 1..Len(q) /\ i - 1 = dec.done
  <2>1. IsSequence(q) /\ q # <<>>
    BY <1>2, <1>3, <1>6 DEF BspInv, EncShape, Whole
  <2>2. Len(q) \in Nat
    BY <2>1, NotEmpty
  <2> QED  BY <1>1, <1>2, <1>3, <1>4, <2>2
<1>8. PICK in : in = enc.seen[t]
  OBVIOUS
<1>9. Link(q, in, t, i)
  BY <1>3, <1>6, <1>7, <1>8 DEF Whole, Chained, Chain
<1>10. PICK after : after = AfterUnprotect(dec.bsp, seg)
  OBVIOUS
<1>11. Verified(dec.bsp, seg) /\ Readable(dec.bsp, seg) /\ after = in[i + 1]
  <2>1. dec.bsp = in[i]
    BY <1>1, <1>2, <1>4, <1>8
  <2>2. Verified(in[i], q[i]) /\ Readable(in[i], q[i]) /\ AfterUnprotect(in[i], q[i]) = in[i + 1]
    BY <1>9, LinkOpens
  <2> QED  BY <1>5, <1>10, <2>1, <2>2, Zenon
<1>12. seg.body.span.from = dec.got[t] /\ seg.body.span.upto = Reached(t, i)
  BY <1>1, <1>2, <1>3, <1>5, <1>7, <1>9 DEF Link, Reached, ReachOf
<1>13. PICK upto : upto = seg.body.span.upto
  OBVIOUS
<1>14. PICK joined : joined = [dec EXCEPT !.got[t] = upto, !.whole = dec.whole /\ seg.body.span.from = dec.got[t]]
  OBVIOUS
<1>15. /\ joined.got = [dec.got EXCEPT ![t] = upto] /\ joined.whole = TRUE
       /\ joined.state = "busy" /\ joined.section = t /\ joined.done = dec.done /\ joined.bsp = dec.bsp
       /\ joined = [state |-> joined.state, section |-> joined.section, done |-> joined.done,
                    bsp |-> joined.bsp, got |-> joined.got, whole |-> joined.whole]
  BY <1>1, <1>2, <1>12, <1>14
<1>16. PICK got : got = joined.got
  OBVIOUS
<1> DEFINE Joined(state, section, done, bsp) ==
             [state |-> state, section |-> section, done |-> done, bsp |-> bsp,
              got |-> got, whole |-> TRUE]
<1>23. joined = Joined("busy", t, dec.done, dec.bsp)
  BY <1>15, <1>16
<1>17. /\ got = [s \in Sections |-> got[s]] /\ got[t] = upto
       /\ \A s \in Sections : s # t => got[s] = dec.got[s]
  BY <1>1, <1>15, <1>16
<1>24. /\ i # Len(q) => dec' = [joined EXCEPT !.done = i, !.bsp = after]
       /\ i = Len(q) /\ t # "upp" =>
            dec' = [joined EXCEPT !.done = 0, !.bsp = BspAfterSection(t, after),
                      !.section = SectionAfter(t, bpp["replaceSessionKeys"] # <<>>)]
       /\ i = Len(q) /\ t = "upp" => dec' = [joined EXCEPT !.state = "done", !.bsp = after]
  BY <1>2, <1>3, <1>4, <1>5, <1>10, <1>11, <1>13, <1>14, Zenon DEF DecodeSegment
<1>25. PICK next : next = SectionAfter(t, bpp["replaceSessionKeys"] # <<>>)
  OBVIOUS
<1>26. PICK begun : begun = BspAfterSection(t, after)
  OBVIOUS
<1>18. /\ i # Len(q) => dec' = Joined("busy", t, i, after)
       /\ i = Len(q) /\ t # "upp" => dec' = Joined("busy", next, 0, begun)
       /\ i = Len(q) /\ t = "upp" => dec' = Joined("done", t, dec.done, after)
  BY <1>23, <1>24, <1>25, <1>26, ZenonT(40)
<1>19. EncShape' /\ SectionsOK' /\ UnderWayOK'
  BY <1>1, ZenonT(40) DEF BspInv, EncShape, SectionsOK, UnderWayOK, Order, BeginAt, EndOf, Whole, Chained, Reached
\* The sections before this one stay as they are.
<1>20. \A s \in Before(t, enc.replace) : s \in Sections /\ s # t /\ got[s] = Size[s]
  <2>1. \A s \in Before(t, enc.replace) : s \in Sections /\ s # t
    BY DEF Before, Sections
  <2> QED  BY <1>1, <1>2, <1>17, <2>1
<1>21. CASE i # Len(q)
  <2>1. /\ dec'.state = "busy" /\ dec'.section = t /\ dec'.done = i /\ dec'.bsp = after
        /\ dec'.got = got /\ dec'.whole = TRUE
        /\ DecShape'
    BY <1>17, <1>18, <1>21 DEF DecShape
  <2>2. i \in Nat /\ i < Len(q)
    BY <1>7, <1>21
  <2>4. dec'.got[t] = Reached(t, i)'
    BY <1>1, <1>12, <1>13, <1>17, <2>1 DEF Reached
  <2>5. DecOK'
    <3>1. \A s \in Sections \ (Before(t, enc.replace) \cup {t}) : got[s] = 0
      BY <1>1, <1>2, <1>17
    <3> QED  BY <1>1, <1>2, <1>3, <1>8, <1>11, <1>17, <1>20, <2>1, <2>2, <2>4, <3>1, ZenonT(40)
      DEF DecOK, Idle
  <2> QED  BY <1>19, <2>5 DEF BspInv
<1>22. CASE i = Len(q)
  <2>1. upto = Size[t] /\ after = EndOf(t)
    BY <1>3, <1>6, <1>7, <1>8, <1>11, <1>12, <1>13, <1>22 DEF Whole, EndOf
  <2>2. CASE t = "upp"
    <3>1. /\ dec'.state = "done" /\ dec'.section = t /\ dec'.got = got /\ dec'.whole = TRUE
          /\ DecShape'
      BY <1>17, <1>18, <1>22, <2>2 DEF DecShape
    <3>2. dec'.section = "upp" /\ dec'.got["upp"] = Size["upp"]
      BY <1>17, <2>1, <2>2, <3>1
    <3>3. \A s \in Before(dec'.section, enc'.replace) : dec'.got[s] = Size[s]
      BY <1>1, <1>20, <3>1
    <3>4. DecOK'
      BY <1>1, <3>1, <3>2, <3>3 DEF DecOK, Idle, Sections
    <3> QED  BY <1>19, <3>4 DEF BspInv
  <2>3. CASE t # "upp"
    <3>2. /\ next \in Sections /\ next # t /\ (next = "replaceSessionKeys" => enc.replace)
          /\ Before(next, enc.replace) = Before(t, enc.replace) \cup {t} /\ next \notin Before(t, enc.replace)
          /\ Whole(next)
      <4>0. /\ (t = "configureISDP" => next = "storeMetadata")
            /\ (t = "storeMetadata" /\ enc.replace => next = "replaceSessionKeys")
            /\ (t = "storeMetadata" /\ ~ enc.replace => next = "upp")
            /\ (t = "replaceSessionKeys" => next = "upp" /\ enc.replace)
        BY <1>1, <1>2, <1>25, WireIs DEF SectionAfter
      <4>1. t \in {"configureISDP", "storeMetadata", "replaceSessionKeys"}
        BY <2>3 DEF Sections
      <4>2. next \in Sections /\ next # t /\ (next = "replaceSessionKeys" => enc.replace)
        BY <4>0, <4>1 DEF Sections
      <4>3. Before(next, enc.replace) = Before(t, enc.replace) \cup {t} /\ next \notin Before(t, enc.replace)
        BY <4>0, <4>1 DEF Before
      <4>4. Whole(next)
        BY <1>1, <4>0, <4>1, WireIs
      <4> QED  BY <4>2, <4>3, <4>4
    <3>3. enc.seen[next][1] = begun
      BY <1>1, <1>2, <2>1, <2>3, <1>25, <1>26, WireIs DEF SectionAfter, BspAfterSection, Sections
    <3>4. /\ dec'.state = "busy" /\ dec'.section = next /\ dec'.done = 0
          /\ dec'.bsp = begun /\ dec'.got = got /\ dec'.whole = TRUE
          /\ DecShape'
      BY <1>17, <1>18, <1>22, <2>3 DEF DecShape
    <3>5. Len(bpp[next]) \in Nat /\ 0 < Len(bpp[next])
      BY <3>2, NotEmpty DEF Whole, BspInv, EncShape
    <3>6. \A s \in Before(next, enc.replace) : got[s] = Size[s]
      BY <1>13, <1>17, <1>20, <2>1, <3>2
    <3>7. \A s \in Sections \ (Before(next, enc.replace) \cup {next}) : got[s] = 0
      BY <1>1, <1>2, <1>17, <3>2
    <3>8. got[next] = 0
      <4>1. next \notin Before(t, enc.replace) \cup {t}
        BY <3>2
      <4> QED  BY <1>1, <1>2, <1>17, <3>2, <4>1
    <3>11. dec'.got[next] = Reached(next, 0)'
      BY <3>4, <3>8 DEF Reached, ReachOf
    <3>12. /\ \A s \in Before(dec'.section, enc'.replace) : dec'.got[s] = Size[s]
           /\ \A s \in Sections \ (Before(dec'.section, enc'.replace) \cup {dec'.section}) : dec'.got[s] = 0
      BY <1>1, <3>4, <3>6, <3>7
    <3>13. /\ dec'.done \in Nat /\ dec'.done < Len(bpp'[dec'.section])
           /\ dec'.bsp = enc'.seen[dec'.section][dec'.done + 1]
           /\ dec'.got[dec'.section] = Reached(dec.section, dec.done)'
      <4>1. Len(bpp'[next]) = Len(bpp[next]) /\ enc'.seen[next][0 + 1] = enc.seen[next][1]
        BY <1>1
      <4>2. Reached(dec.section, dec.done)' = Reached(next, 0)'
        BY <3>4 DEF Reached
      <4> QED  BY <3>3, <3>4, <3>5, <3>11, <4>1, <4>2
    <3>14. DecOK'
      BY <1>1, <3>2, <3>4, <3>12, <3>13 DEF DecOK, Idle
    <3> QED  BY <1>19, <3>14 DEF BspInv
  <2> QED  BY <2>2, <2>3
<1> QED  BY <1>21, <1>22-----------------------------------------------------------------------------
(* The theorems.                                                           *)

LEMMA NextBspInv == BspInv /\ [BspNext]_bspVars => BspInv'
<1> SUFFICES ASSUME BspInv, [BspNext]_bspVars PROVE BspInv'
  OBVIOUS
<1>1. CASE enc.state = Idle /\ dec' = dec /\ \E key \in Keys, replace \in BOOLEAN : StartEncode(key, replace)
  <2>1. PICK key \in Keys, replace \in BOOLEAN : StartEncode(key, replace)
    BY <1>1
  <2> QED  BY <1>1, <2>1, StartStep
<1>2. CASE EncodeSegment
  BY <1>2, EncodeStep
<1>3. CASE enc.state = "done" /\ dec.state = Idle /\ StartDecode(enc.key) /\ UNCHANGED <<enc, bpp>>
  BY <1>3, StartDecodeStep
<1>4. CASE DecodeSegment
  BY <1>4, DecodeStep
<1>5. CASE UNCHANGED bspVars
  BY <1>5, ZenonT(40) DEF bspVars, BspInv, EncShape, SectionsOK, UnderWayOK, DecOK, DecShape, Order, BeginAt,
              EndOf, Whole, Chained, Reached
<1> QED  BY <1>1, <1>2, <1>3, <1>4, <1>5 DEF BspNext

LEMMA BspInvariance == BspSpec => []BspInv
<1>1. BspInit => BspInv
  BY InitBspInv
<1>2. BspInv /\ [BspNext]_bspVars => BspInv'
  BY NextBspInv
<1> QED  BY <1>1, <1>2, PTL DEF BspSpec

\* The eUICC that holds the keys of the session gets through every package,
\* whatever the sizes of its sections and of a segment (BspInstance).
THEOREM NeverFails == BspSpec => []DecodeNeverFails
<1>1. BspInv => DecodeNeverFails
  BY DEF BspInv, DecOK, DecodeNeverFails, Idle
<1> QED  BY <1>1, BspInvariance, PTL

\* What it has then is the whole of each section the package has.
THEOREM IsWhole == BspSpec => []DecodedIsWhole
<1>1. ASSUME BspInv, dec.state = "done"
      PROVE  dec.whole /\ \A s \in Sections : bpp[s] # <<>> => dec.got[s] = Size[s]
  <2>1. /\ dec.whole /\ enc.state = "done" /\ dec.section = "upp" /\ dec.got["upp"] = Size["upp"]
        /\ \A s \in Before("upp", enc.replace) : dec.got[s] = Size[s]
    BY <1>1 DEF BspInv, DecOK, Idle
  <2>2. ~ enc.replace => bpp["replaceSessionKeys"] = <<>>
    BY <1>1, <2>1, WireIs
  <2>3. ASSUME NEW s \in Sections, bpp[s] # <<>> PROVE s \in Before("upp", enc.replace) \cup {"upp"}
    BY <2>2, <2>3 DEF Before, Sections
  <2> QED  BY <2>1, <2>3
<1>2. BspInv => DecodedIsWhole
  BY <1>1 DEF DecodedIsWhole
<1> QED  BY <1>2, BspInvariance, PTL
=============================================================================
