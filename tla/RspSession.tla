----------------------------- MODULE RspSession -----------------------------
(***************************************************************************)
(* The remote SIM provisioning session of osmo-smdpp.py and a download     *)
(* client such as contrib/es9p_client.py, over the ES9+ requests of        *)
(* pySim/esim/es9p.py.                                                     *)
(*                                                                         *)
(* A handler of the SM-DP+ runs to its end before the next begins; the     *)
(* encoding of a package, its last and longest part, is Bsp's.  A refusal, *)
(* wherever in the handler, leaves the store alone: the handler works on a *)
(* copy the shelf unpickled, and puts it back at its end.  A client gives  *)
(* up a request that is not answered in time while the request may still   *)
(* be under way; then it asks again, or begins anew.                       *)
(***************************************************************************)
EXTENDS Bsp

CONSTANTS
  Euiccs,          \* each with the client that talks for it
  EuiccCert,       \* its certificate: authority key id, signer, issuer number
  EumCert,         \* and its manufacturer's
  SigningCis, VerificationCis,  \* key ids of the CIs its EUICCInfo1 lists
  ServerCis, DpCi, \* CIs whose certificate the SM-DP+ has; the one above DPauth
  Profiles,        \* matching ids
  TransactionIds,  \* what uuid4 may yield
  DigitIds,        \* those without a letter among their hex digits
  MaxRequests,     \* bound: e sends as long as fewer than MaxRequests[e] were sent
  MaxIncidents     \* bound on restarts of the SM-DP+ and changes of its profiles

ASSUME RspAssumption ==
  /\ DpCi \in ServerCis
  /\ DigitIds \subseteq TransactionIds
  /\ "none" \notin Profiles
  /\ MaxRequests \in [Euiccs -> Nat] /\ MaxIncidents \in Nat

VARIABLES
  rss,       \* the session store, by transaction id
  upps,      \* the profile files in the SM-DP+'s upp directory
  version,   \* version[p]: how often the contents of p's file were replaced
  fresh,     \* transaction ids not yielded yet
  net,       \* requests sent and not yet served
  lpa,       \* the client of each eUICC
  parcel,    \* what the package under way was made for
  sent,      \* requests sent so far
  incidents, \* restarts and changes of upps so far
  signed2,   \* history: what each smdpSignature2 was made for
  issued,    \* history: the packages handed out
  closed     \* history: the sessions cancelled or notified

server == <<rss, upps, version, fresh, signed2, closed>>
client == <<net, lpa, sent>>
rspVars == <<server, client, parcel, incidents, issued, bspVars>>

Unset == "none"
NoParcel == [req |-> [kind |-> Unset], matchingId |-> Unset, contents |-> 0, metadata |-> 0]
NoSession == [known |-> FALSE]
NoClient == [state |-> Idle, awaits |-> 0, txn |-> Unset, want |-> Unset, sig2 |-> 0,
             otpk |-> 0, got |-> Unset]

(* RspSessionState.__init__: the challenge is as unique as the id.         *)
NewSession(t) ==
  [known |-> TRUE, serverChallenge |-> t, euicc_cert |-> Unset, matchingId |-> Unset,
   profileMetadata |-> 0, smdpSignature2 |-> 0, euicc_otpk |-> 0]

(* self.rss.get(transactionId, None)                                       *)
Known(t) == t \in TransactionIds /\ rss[t].known

(* Sessions are stored under the upper case form of their id, and          *)
(* handleNotification looks for the lower case form that b2h makes.        *)
Found(t) == Known(t) /\ t \in DigitIds

(* What otPK and otSK of both sides, and the EID, make of a session.       *)
SessionKey(euicc, otpk) == [euicc |-> euicc, otpk |-> otpk]

RspInit ==
  /\ BspInit
  /\ rss = [t \in TransactionIds |-> NoSession]
  /\ upps = Profiles /\ version = [p \in Profiles |-> 0]
  /\ fresh = TransactionIds
  /\ net = {}
  /\ lpa = [e \in Euiccs |-> NoClient]
  /\ parcel = NoParcel
  /\ sent = 0 /\ incidents = 0
  /\ signed2 = <<>> /\ issued = {} /\ closed = {}

----------------------------------------------------------------------------
(* The client *)

Send(req, e, after) ==
  /\ lpa[e].awaits = 0
  /\ sent < MaxRequests[e]
  /\ sent' = sent + 1
  /\ net' = net \cup {req}
  /\ lpa' = [lpa EXCEPT ![e] = [after EXCEPT !.awaits = sent + 1]]
  /\ UNCHANGED <<server, parcel, incidents, issued, bspVars>>

(* do_download, step 1 *)
AskInitiate(e) ==
  /\ lpa[e].state \in {Idle, "initiated", "authenticated", "failed"}
  /\ \E p \in Profiles :
       Send([kind |-> "initiate", euicc |-> e, nr |-> sent + 1], e, [NoClient EXCEPT !.want = p])

(* Step 2; an LPA may come back to it with another matching id.            *)
AskAuthenticate(e) ==
  /\ lpa[e].state \in {"initiated", "authenticated"}
  /\ \E p \in Profiles :
       Send([kind |-> "authenticate", euicc |-> e, nr |-> sent + 1, txn |-> lpa[e].txn,
             serverChallenge |-> lpa[e].txn, matchingId |-> p], e,
            [lpa[e] EXCEPT !.state = "initiated", !.want = p])

(* Step 3: every request has a new key pair, and signs what was answered   *)
(* to step 2.                                                              *)
AskGetBpp(e) ==
  /\ lpa[e].state = "authenticated"
  /\ Send([kind |-> "getbpp", euicc |-> e, nr |-> sent + 1, txn |-> lpa[e].txn,
           over |-> lpa[e].sig2, otpk |-> sent + 1], e,
          [lpa[e] EXCEPT !.otpk = sent + 1])

AskCancel(e) ==
  /\ lpa[e].state \in {"initiated", "authenticated"}
  /\ Send([kind |-> "cancel", euicc |-> e, nr |-> sent + 1, txn |-> lpa[e].txn], e, lpa[e])

(* do_notification for an installation *)
AskNotify(e) ==
  /\ lpa[e].state = "installed"
  /\ Send([kind |-> "notify", euicc |-> e, nr |-> sent + 1, txn |-> lpa[e].txn], e, lpa[e])

(* Ten seconds have passed, or the connection broke.                       *)
GiveUp(e) ==
  /\ lpa[e].awaits # 0
  /\ lpa' = [lpa EXCEPT ![e].awaits = 0]
  /\ UNCHANGED <<server, net, sent, parcel, incidents, issued, bspVars>>

(* BoundProfilePackage.decode begins, with the key pair of the request.    *)
Install(e) ==
  /\ lpa[e].state = "received" /\ dec.state = Idle
  /\ StartDecode(SessionKey(e, lpa[e].otpk))
  /\ lpa' = [lpa EXCEPT ![e].state = "installing"]
  /\ UNCHANGED <<server, net, sent, parcel, incidents, issued, enc, bpp>>

Installed(e) ==
  /\ lpa[e].state = "installing" /\ dec.state \in {"done", "error"}
  /\ lpa' = [lpa EXCEPT ![e].state = IF dec.state = "done" THEN "installed" ELSE "failed"]
  /\ enc' = NoEncoder /\ dec' = NoDecoder /\ bpp' = NoSegments /\ parcel' = NoParcel
  /\ UNCHANGED <<server, net, sent, incidents, issued>>

----------------------------------------------------------------------------
(* The SM-DP+ *)

LateAnswered(req, after) ==
  IF lpa[req.euicc].awaits = req.nr \/ req.kind = "getbpp"
  THEN [lpa EXCEPT ![req.euicc] = [after EXCEPT !.awaits = 0]] ELSE lpa

(* The answer reaches the client if it still waits for this one.           *)
Answered(req, after) ==
  IF lpa[req.euicc].awaits = req.nr
  THEN [lpa EXCEPT ![req.euicc] = [after EXCEPT !.awaits = 0]] ELSE lpa

Serving(req, kind) == enc.state # "busy" /\ req \in net /\ req.kind = kind

Serve(req, after) ==
  /\ net' = net \ {req}
  /\ lpa' = Answered(req, after)
  /\ UNCHANGED <<upps, version, sent, incidents>>

NoPackage == UNCHANGED <<parcel, issued, bspVars>>

(* An ApiError, or any other exception a handler raises.                   *)
Refuse(req) ==
  Serve(req, lpa[req.euicc]) /\ NoPackage /\ UNCHANGED <<rss, fresh, signed2, closed>>

(* A CI both sides know, and DPauth's own CI among those the eUICC signs   *)
(* with; an empty list of verification keys is not looked at.              *)
MayInitiate(req) ==
  /\ VerificationCis[req.euicc] # {} => DpCi \in VerificationCis[req.euicc]
  /\ DpCi \in SigningCis[req.euicc] \cap ServerCis

InitiateAuthentication(req) ==
  /\ Serving(req, "initiate")
  /\ \/ /\ ~ MayInitiate(req)
        /\ Refuse(req)
     \/ /\ MayInitiate(req)
        /\ \E t \in fresh :
             /\ fresh' = fresh \ {t}
             /\ rss' = [rss EXCEPT ![t] = NewSession(t)]
             /\ Serve(req, [lpa[req.euicc] EXCEPT !.state = "initiated", !.txn = t])
        /\ NoPackage /\ UNCHANGED <<signed2, closed>>

(* CertificateSet.verify_cert_chain with the CI as the root and the        *)
(* manufacturer's certificate as the only one in between.                  *)
ChainVerifies(e) ==
  LET cert == EuiccCert[e]
      eum == EumCert[e]
  IN /\ eum.aki = DpCi /\ eum.keyCertSign /\ eum.aki # eum.ski
     /\ \/ cert.aki = DpCi /\ cert.signer = DpCi
        \/ cert.aki # DpCi /\ cert.aki = eum.ski /\ cert.signer = eum.ski /\ eum.signer = DpCi

(* validate_eid_range: a certificate that permits nothing permits nobody.  *)
EidInRange(e) == EuiccCert[e].ein \in EumCert[e].permittedEins

(* The chain of the eUICC's certificate, its signature, the EID range, the *)
(* challenge of the session, and a profile file for the matching id.       *)
MayAuthenticate(req) ==
  /\ Known(req.txn)
  /\ ChainVerifies(req.euicc)
  /\ EidInRange(req.euicc)
  /\ req.serverChallenge = rss[req.txn].serverChallenge
  /\ req.matchingId \in upps

(* What the handler has put into its copy when it stores it; the metadata  *)
(* are of what the file holds now.                                         *)
Authenticated(ss, req, signature) ==
  [ss EXCEPT !.euicc_cert = req.euicc, !.matchingId = req.matchingId,
             !.profileMetadata = version[req.matchingId], !.smdpSignature2 = signature]

AuthenticateClient(req) ==
  /\ Serving(req, "authenticate")
  /\ \/ ~ MayAuthenticate(req) /\ Refuse(req)
     \/ /\ MayAuthenticate(req)
        /\ signed2' = Append(signed2, [txn |-> req.txn, euicc |-> req.euicc,
                                       matchingId |-> req.matchingId,
                                       contents |-> version[req.matchingId]])
        /\ rss' = [rss EXCEPT ![req.txn] = Authenticated(@, req, Len(signed2) + 1)]
        /\ Serve(req, [lpa[req.euicc] EXCEPT !.state = "authenticated",
                                            !.sig2 = Len(signed2) + 1])
        /\ NoPackage /\ UNCHANGED <<fresh, closed>>

MayGetBppUnsigned(req) ==
  /\ Known(req.txn)
  /\ rss[req.txn].euicc_cert = req.euicc
  /\ rss[req.txn].matchingId \in upps

(* euiccSignature2 is checked with the certificate of the session, over    *)
(* euiccSigned2 and the session's smdpSignature2.                          *)
MayGetBpp(req) ==
  /\ Known(req.txn)
  /\ rss[req.txn].euicc_cert = req.euicc
  /\ req.over = rss[req.txn].smdpSignature2
  /\ rss[req.txn].matchingId \in upps

(* The file is read once more, for the package; the metadata are those of  *)
(* the session.  (One package is under way at a time: the next waits for   *)
(* Installed.)                                                             *)
GetBoundProfilePackage(req) ==
  /\ Serving(req, "getbpp")
  /\ \/ ~ MayGetBpp(req) /\ Refuse(req)
     \/ /\ MayGetBpp(req)
        /\ enc.state = Idle
        /\ rss' = [rss EXCEPT ![req.txn].euicc_otpk = req.otpk]
        /\ parcel' = [req |-> req, matchingId |-> rss[req.txn].matchingId,
                      contents |-> version[rss[req.txn].matchingId], metadata |-> rss[req.txn].profileMetadata]
        /\ StartEncode(SessionKey(rss[req.txn].euicc_cert, req.otpk), TRUE)
        /\ net' = net \ {req}
        /\ UNCHANGED <<upps, version, fresh, lpa, sent, incidents, signed2, issued, closed, dec>>

Encode == EncodeSegment /\ UNCHANGED <<server, client, parcel, incidents, issued>>
Decode == DecodeSegment /\ UNCHANGED <<server, client, parcel, incidents, issued>>

(* getBoundProfilePackage returns; a package nobody waits for is dropped.  *)
AnswerGetBpp ==
  /\ enc.state = "done" /\ dec.state = Idle /\ parcel.req \notin {b.req : b \in issued}
  /\ LET e == parcel.req.euicc
         waited == lpa[e].awaits = parcel.req.nr
     IN /\ lpa' = Answered(parcel.req, [lpa[e] EXCEPT !.state = "received",
                                                     !.got = parcel.matchingId])
        /\ issued' = issued \cup {parcel}
        /\ \/ waited /\ UNCHANGED <<parcel, bspVars>>
           \/ /\ ~ waited
              /\ parcel' = NoParcel
              /\ enc' = NoEncoder /\ bpp' = NoSegments /\ UNCHANGED dec
  /\ UNCHANGED <<server, net, sent, incidents>>

(* del self.rss[transactionId] *)
ClosedSession(t) == NoSession

Close(req) ==
  /\ rss' = [rss EXCEPT ![req.txn] = ClosedSession(req.txn)]
  /\ closed' = closed \cup {req.txn}
  /\ Serve(req, NoClient)
  /\ NoPackage /\ UNCHANGED <<fresh, signed2>>

(* The signature is checked with the certificate of the session; a session *)
(* nobody has authenticated for has none, and cannot be cancelled.         *)
CancelSession(req) ==
  /\ Serving(req, "cancel")
  /\ LET allowed == Known(req.txn) /\ rss[req.txn].euicc_cert = req.euicc
     IN \/ allowed /\ Close(req)
        \/ ~ allowed /\ Refuse(req)

(* A notification whose session is not found is answered like any other.   *)
HandleNotification(req) ==
  /\ Serving(req, "notify")
  /\ \/ /\ Found(req.txn)
        /\ IF rss[req.txn].euicc_cert = req.euicc THEN Close(req) ELSE Refuse(req)
     \/ /\ ~ Found(req.txn)
        /\ Serve(req, NoClient)
        /\ NoPackage /\ UNCHANGED <<rss, fresh, signed2, closed>>

(* The sessions are in a file; the requests it had accepted are gone.      *)
StoreAfterRestart == rss

Restart ==
  /\ incidents < MaxIncidents
  /\ incidents' = incidents + 1
  /\ rss' = StoreAfterRestart
  /\ net' = {}
  /\ \/ /\ enc.state = "busy"
        /\ enc' = NoEncoder /\ bpp' = NoSegments /\ parcel' = NoParcel /\ UNCHANGED dec
     \/ enc.state # "busy" /\ UNCHANGED <<parcel, bspVars>>
  /\ UNCHANGED <<upps, version, fresh, signed2, closed, lpa, sent, issued>>

(* The operator takes a profile out of the directory, or puts one into it, *)
(* in the place of what was there.  (Nobody reads the directory while a    *)
(* package is encoded: a change made then is one made after it.)           *)
Operator(p) ==
  /\ \/ p \in upps /\ upps' = upps \ {p} /\ UNCHANGED version
     \/ upps' = upps \cup {p} /\ version' = [version EXCEPT ![p] = @ + 1]
  /\ enc.state # "busy"
  /\ incidents < MaxIncidents
  /\ incidents' = incidents + 1
  /\ UNCHANGED <<rss, fresh, signed2, closed, client, parcel, issued, bspVars>>

----------------------------------------------------------------------------
ClientNext ==
  \E e \in Euiccs :
    \/ AskInitiate(e) \/ AskAuthenticate(e) \/ AskGetBpp(e) \/ AskCancel(e) \/ AskNotify(e)
    \/ GiveUp(e) \/ Install(e) \/ Installed(e)

ServerNext ==
  \/ \E req \in net :
       \/ InitiateAuthentication(req) \/ AuthenticateClient(req) \/ GetBoundProfilePackage(req)
       \/ CancelSession(req) \/ HandleNotification(req)
  \/ Encode \/ AnswerGetBpp

RspNext ==
  \/ ClientNext \/ ServerNext \/ Decode \/ Restart \/ \E p \in Profiles : Operator(p)

RspSpec == RspInit /\ [][RspNext]_rspVars
----------------------------------------------------------------------------
RspTypeOK ==
  /\ \A t \in TransactionIds : Known(t) =>
       /\ rss[t].euicc_cert \in Euiccs \cup {Unset}
       /\ rss[t].matchingId \in Profiles \cup {Unset}
       /\ rss[t].profileMetadata \in Nat
       /\ rss[t].smdpSignature2 \in 0..Len(signed2)
  /\ upps \subseteq Profiles /\ version \in [Profiles -> Nat]
  /\ fresh \subseteq TransactionIds /\ closed \subseteq TransactionIds
  /\ sent \in Nat /\ incidents \in 0..MaxIncidents
  /\ \A e \in Euiccs : lpa[e].awaits \in 0..sent /\ lpa[e].txn \in TransactionIds \cup {Unset}

(* A package is for the profile, and for the eUICC, to which the           *)
(* smdpSignature2 belongs that the eUICC has signed, and has the metadata  *)
(* it was shown: a late or repeated authenticateClient cannot put another  *)
(* profile under a confirmation given before.  The file is read twice      *)
(* (osmo-smdpp.py:648 and :740): the contents are those of the             *)
(* confirmation, or what the operator put in their place since.            *)
ConfirmedProfile ==
  \A b \in issued :
    /\ b.req.over \in 1..Len(signed2)
    /\ signed2[b.req.over] = [txn |-> b.req.txn, euicc |-> b.req.euicc, matchingId |-> b.matchingId, contents |-> b.metadata]
    /\ b.contents \in b.metadata..version[b.matchingId]

(* What a client installs is the profile it asked for last, however many   *)
(* answers of earlier requests came too late.                              *)
InstalledIsWanted ==
  \A e \in Euiccs :
    lpa[e].state \in {"received", "installing", "installed"} => lpa[e].got = lpa[e].want

(* A session that was cancelled or notified is not known again: nothing    *)
(* that was under way brings it back (del self.rss).                       *)
ClosedStaysClosed == \A t \in closed : ~ Known(t)

(* "The session state is removed either after cancelSession or after       *)
(* notification" (rsp.py): not by a refusal, a restart or a give-up.       *)
OnlyClosedSessionsGo ==
  [][\A t \in TransactionIds : Known(t) => rss'[t].known \/ t \in closed']_rspVars

(* What a refusal leaves behind: a session keeps its certificate, profile, *)
(* metadata and signature together, and they are those of one              *)
(* authentication.                                                         *)
SessionIsOneAuthentication ==
  \A t \in TransactionIds : Known(t) =>
    \/ rss[t].euicc_cert = Unset /\ rss[t].matchingId = Unset /\ rss[t].smdpSignature2 = 0
    \/ /\ rss[t].smdpSignature2 # 0
       /\ signed2[rss[t].smdpSignature2] =
            [txn |-> t, euicc |-> rss[t].euicc_cert, matchingId |-> rss[t].matchingId,
             contents |-> rss[t].profileMetadata]

\* A session is one download of one eUICC, from its authentication to the
\* notification or cancellation that closes it for good.
SessionsAreRight == ClosedStaysClosed /\ SessionIsOneAuthentication /\ InstalledIsWanted
=============================================================================
