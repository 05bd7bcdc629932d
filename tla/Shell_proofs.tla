---------------------------- MODULE Shell_proofs ----------------------------
(***************************************************************************)
(* pySim-shell: both ends of a secure channel stay in step, and what the   *)
(* shell reports as done is done, for any channels, keys, levels, lengths  *)
(* and number of APDUs lost (GpShell).  And for any cards put into the     *)
(* reader, with any providers, scripts, tries and failures, a code that is *)
(* looked up is the card's, and the bins of a bulk run are what was done   *)
(* to the cards in them (ShellCards).                                      *)
(***************************************************************************)
EXTENDS GpShell, ShellCards, SequenceTheorems, FiniteSetTheorems, WellFoundedInduction, TLAPS

Bulk      == {"install_load", "load", "install_install", "store_data"}
Unsecured == {"select", "open", "close", "init_update", "ext_auth"}

ScpShape(scp) ==
  /\ scp = [kind |-> scp.kind, level |-> scp.level, sid |-> scp.sid, chain |-> scp.chain, ctr |-> scp.ctr]
  /\ scp.sid \in Nat
  /\ scp.kind = None => scp = NoScp

LchanShape(l) == l = [nr |-> l.nr, sel |-> l.sel, scp |-> l.scp] /\ l.nr \in Channels /\ ScpShape(l.scp)

\* An APDU, with all its fields.
IsApdu(a) ==
  a = [ins |-> a.ins, case |-> a.case, len |-> a.len, block |-> a.block, last |-> a.last, arg |-> a.arg]
-----------------------------------------------------------------------------
(* Secure messaging, at the shell's end.                                   *)

\* Wrapping keeps the session and its level.
SameSession(scp, was) == ScpShape(scp) /\ scp.kind = was.kind /\ scp.sid = was.sid /\ scp.level = was.level

\* w is what a session makes of the APDU of number nr: it goes to the basic
\* channel, and the shell's end has moved along.
Secured(w, scp, nr) ==
  /\ w.ch = 0 /\ w.sid = scp.sid /\ w.mac = Append(scp.chain, nr)
  /\ w.scp.chain = w.mac /\ w.ctr = w.scp.ctr
  /\ w.scp.ctr = IF Cenc(scp) THEN scp.ctr + 1 ELSE scp.ctr

LEMMA Sending ==
  ASSUME NEW scp, ScpShape(scp), scp.kind # None, NEW nr
  PROVE  LET w == Sent(scp, 0, nr)
         IN  /\ w.ok = TRUE /\ w.ch = 0 /\ w.sid = scp.sid /\ w.ctr = scp.ctr
             /\ SameSession(w.scp, scp) /\ w.scp.ctr = scp.ctr
             /\ w.mac = Append(scp.chain, nr) /\ w.scp.chain = w.mac
<1>1. PICK x : x = [scp EXCEPT !.chain = Append(@, nr)]
  OBVIOUS
<1>2. x = [kind |-> scp.kind, level |-> scp.level, sid |-> scp.sid, chain |-> Append(scp.chain, nr), ctr |-> scp.ctr]
  BY <1>1 DEF ScpShape
<1>3. /\ x.kind = scp.kind /\ x.level = scp.level /\ x.sid = scp.sid
      /\ x.chain = Append(scp.chain, nr) /\ x.ctr = scp.ctr
  BY <1>2
<1>4. SameSession(x, scp)
  BY <1>2, <1>3 DEF SameSession, ScpShape
<1>5. Sent(scp, 0, nr) =
        [ok |-> TRUE, scp |-> x, ch |-> 0, sid |-> scp.sid, mac |-> Append(scp.chain, nr), ctr |-> scp.ctr]
  BY <1>1 DEF Sent
<1>6. PICK w : w = Sent(scp, 0, nr)
  OBVIOUS
<1>7. /\ w.ok = TRUE /\ w.ch = 0 /\ w.sid = scp.sid /\ w.ctr = scp.ctr
      /\ w.mac = Append(scp.chain, nr) /\ w.scp = x
  BY <1>5, <1>6
<1> QED  BY <1>3, <1>4, <1>6, <1>7

LEMMA Counting ==
  ASSUME NEW scp, ScpShape(scp), scp.kind # None, NEW x, x = [scp EXCEPT !.ctr = @ + 1]
  PROVE  SameSession(x, scp) /\ x.chain = scp.chain /\ x.ctr = scp.ctr + 1
<1>1. x = [kind |-> scp.kind, level |-> scp.level, sid |-> scp.sid, chain |-> scp.chain, ctr |-> scp.ctr + 1]
  BY DEF ScpShape
<1> QED  BY <1>1 DEF SameSession, ScpShape

LEMMA Moving ==
  ASSUME NEW scp, ScpShape(scp), scp.kind # None, NEW nr
  PROVE  SameSession(Moved(scp, nr), scp)
<1>1. PICK x : x = Moved(scp, nr)
  OBVIOUS
<1>2. x = [kind |-> scp.kind, level |-> scp.level, sid |-> scp.sid, chain |-> Append(scp.chain, nr), ctr |-> scp.ctr]
  BY <1>1 DEF ScpShape, Moved
<1> QED  BY <1>1, <1>2 DEF SameSession, ScpShape

LEMMA Raising ==
  ASSUME NEW scp
  PROVE  Raise(scp).ok = FALSE /\ Raise(scp).scp = scp
  BY DEF Raise

\* Both kinds count every command of a session that encrypts.
LEMMA SessionWraps ==
  ASSUME NEW scp, ScpShape(scp), scp.kind # None, NEW nr, NEW apdu, NEW channel,
         NEW w, w = Wrap02(scp, nr, apdu, channel) \/ w = Wrap03(scp, nr, apdu, channel)
  PROVE  SameSession(w.scp, scp) /\ w.ok \in BOOLEAN /\ (w.ok => Secured(w, scp, nr))
<1>1. PICK counted : counted = IF Cenc(scp) THEN [scp EXCEPT !.ctr = @ + 1] ELSE scp
  OBVIOUS
<1>2. /\ SameSession(counted, scp) /\ counted.chain = scp.chain
      /\ counted.ctr = IF Cenc(scp) THEN scp.ctr + 1 ELSE scp.ctr
  BY <1>1, Counting DEF SameSession
<1>3. w \in {Raise(scp), Raise(Moved(scp, nr)), Raise(counted), Sent(counted, 0, nr)}
  BY <1>1 DEF Wrap02, Wrap03
<1>4. CASE w \in {Raise(scp), Raise(Moved(scp, nr)), Raise(counted)}
  <2>1. SameSession(scp, scp) /\ SameSession(Moved(scp, nr), scp)
    BY Moving DEF SameSession
  <2>2. PICK x : w = Raise(x) /\ SameSession(x, scp)
    BY <1>2, <1>4, <2>1
  <2> QED  BY <2>2, Raising
<1>5. CASE w = Sent(counted, 0, nr)
  <2>1. ScpShape(counted) /\ counted.kind # None
    BY <1>2 DEF SameSession
  <2>2. /\ w.ok = TRUE /\ w.ch = 0 /\ w.sid = counted.sid /\ w.ctr = counted.ctr
        /\ SameSession(w.scp, counted) /\ w.scp.ctr = counted.ctr
        /\ w.mac = Append(counted.chain, nr) /\ w.scp.chain = w.mac
    BY <1>5, <2>1, Sending
  <2> QED  BY <1>2, <2>2 DEF Secured, SameSession
<1> QED  BY <1>3, <1>4, <1>5

\* An APDU without a session goes as it is, to the lchan's own channel.
Bare(w, l) == w.ok = TRUE /\ w.ch = l.nr /\ w.sid = 0 /\ w.mac = <<>> /\ w.scp = l.scp

LEMMA Wrapping ==
  ASSUME NEW l, LchanShape(l), NEW nr, NEW apdu, NEW w, w = Wrap(l, nr, apdu)
  PROVE  /\ SameSession(w.scp, l.scp) /\ w.ok \in BOOLEAN
         /\ l.scp.kind = None \/ ~IsGp(apdu) => Bare(w, l)
         /\ l.scp.kind # None /\ IsGp(apdu) /\ w.ok => Secured(w, l.scp, nr)
<1>1. CASE l.scp.kind = None \/ ~IsGp(apdu)
  <2>1. w = [Plain(l.nr) EXCEPT !.scp = l.scp]
    BY <1>1 DEF Wrap
  <2>2. w = [ok |-> TRUE, scp |-> l.scp, ch |-> l.nr, sid |-> 0, mac |-> <<>>, ctr |-> 0]
    BY <2>1 DEF Plain
  <2> QED  BY <1>1, <2>2 DEF Bare, SameSession, LchanShape
<1>2. CASE l.scp.kind # None /\ IsGp(apdu)
  <2>1. w = Wrap02(l.scp, nr, apdu, l.nr) \/ w = Wrap03(l.scp, nr, apdu, l.nr)
    BY <1>2 DEF Wrap
  <2> QED  BY <1>2, <2>1, SessionWraps DEF LchanShape
<1> QED  BY <1>1, <1>2
-----------------------------------------------------------------------------
(* The card.                                                               *)

SessionShape(s) ==
  /\ s = [kind |-> s.kind, level |-> s.level, sid |-> s.sid, chain |-> s.chain, ctr |-> s.ctr, on |-> s.on]
  /\ s.sid \in Nat /\ s.on \in BOOLEAN
  /\ s.on => s.sid # 0
  /\ ~s.on => s.ctr = 0

CardShape(c) ==
  /\ c = [open |-> c.open, sel |-> c.sel, sess |-> c.sess, sids |-> c.sids, key |-> c.key,
          load |-> c.load, caps |-> c.caps, page |-> c.page]
  /\ c.open \subseteq Channels /\ 0 \in c.open /\ c.sids \in Nat
  /\ c.sess = [x \in Channels |-> c.sess[x]]

\* A session is on one channel, and on an open one.
OnePlace(c) ==
  /\ \A x \in Channels : SessionShape(c.sess[x]) /\ c.sess[x].sid <= c.sids
  /\ \A x \in Channels \ c.open : c.sess[x] = NoSession
  /\ \A x, y \in Channels : c.sess[x].sid = c.sess[y].sid /\ c.sess[x].sid # 0 => x = y

\* What an APDU may do to the session of a channel: begin one, authenticate it,
\* or move it along.
Begins(c, d, x, apdu) ==
  /\ apdu.ins = "init_update" /\ d.sids = c.sids + 1
  /\ d.sess[x] = [NoSession EXCEPT !.kind = apdu.arg[1], !.sid = c.sids + 1]
Authenticates(c, d, x, apdu, nr) ==
  /\ apdu.ins = "ext_auth" /\ c.sess[x].sid = apdu.arg[3] /\ ~c.sess[x].on
  /\ d.sess[x] = [c.sess[x] EXCEPT !.level = apdu.arg[2], !.on = TRUE, !.chain = <<nr>>]
MovesAlong(c, d, x, apdu, w, nr) ==
  /\ apdu.ins \notin Unsecured /\ Authentic(c.sess[x], w, nr)
  /\ d.sess[x] = [c.sess[x] EXCEPT !.chain = w.mac, !.ctr = IF Cenc(c.sess[x]) THEN @ + 1 ELSE @]

Steps(c, d, w, apdu, nr) ==
  /\ CardShape(d) /\ d.sids >= c.sids
  /\ \A x \in Channels \ d.open : d.sess[x] = NoSession
  /\ \A x \in Channels :
       \/ d.sess[x] = c.sess[x] \/ d.sess[x] = NoSession
       \/ x = w.ch /\ (Begins(c, d, x, apdu) \/ Authenticates(c, d, x, apdu, nr)
                        \/ MovesAlong(c, d, x, apdu, w, nr))

\* the rest of the card
Stays(c, d) == d.key = c.key /\ d.load = c.load /\ d.caps = c.caps /\ d.page = c.page

NamesAChannel(apdu) == apdu.ins \in {"open", "close"} => apdu.arg[1] \in Channels \ {0}

LEMMA Answering == \A c, sw : Answer(c, sw).card = c /\ Answer(c, sw).sw = sw
  BY DEF Answer

LEMMA SetSession ==
  ASSUME NEW c, CardShape(c), NEW x \in Channels, NEW s
  PROVE  LET d == [c EXCEPT !.sess[x] = s]
         IN  /\ CardShape(d) /\ Stays(c, d) /\ d.open = c.open /\ d.sids = c.sids /\ d.sel = c.sel
             /\ d.sess[x] = s /\ \A y \in Channels : y # x => d.sess[y] = c.sess[y]
<1>1. PICK d : d = [c EXCEPT !.sess[x] = s]
  OBVIOUS
<1>2. d = [open |-> c.open, sel |-> c.sel, sess |-> [c.sess EXCEPT ![x] = s], sids |-> c.sids, key |-> c.key,
           load |-> c.load, caps |-> c.caps, page |-> c.page]
  BY <1>1 DEF CardShape
<1>3. /\ d.open = c.open /\ d.sel = c.sel /\ d.sess = [c.sess EXCEPT ![x] = s] /\ d.sids = c.sids
      /\ d.key = c.key /\ d.load = c.load /\ d.caps = c.caps /\ d.page = c.page
  BY <1>2
<1>4. /\ d.sess = [y \in Channels |-> d.sess[y]]
      /\ d.sess[x] = s /\ \A y \in Channels : y # x => d.sess[y] = c.sess[y]
  BY <1>3 DEF CardShape
<1>5. CardShape(d)
  BY <1>2, <1>3, <1>4 DEF CardShape
<1> QED  BY <1>1, <1>3, <1>4, <1>5 DEF Stays

LEMMA Dropping ==
  ASSUME NEW c, CardShape(c), NEW x \in Channels
  PROVE  LET d == Drop(c, x)
         IN  /\ CardShape(d) /\ Stays(c, d) /\ d.open = c.open /\ d.sids = c.sids /\ d.sel = c.sel
             /\ d.sess[x] = NoSession /\ \A y \in Channels : y # x => d.sess[y] = c.sess[y]
<1>1. Drop(c, x) = [c EXCEPT !.sess[x] = NoSession]
  BY DEF Drop
<1> QED  BY <1>1, SetSession

LEMMA NothingSteps ==
  ASSUME NEW c, CardShape(c), OnePlace(c), NEW w, NEW apdu, NEW nr
  PROVE  Steps(c, c, w, apdu, nr) /\ Stays(c, c)
  BY DEF Steps, Stays, CardShape, OnePlace

LEMMA DropSteps ==
  ASSUME NEW c, CardShape(c), OnePlace(c), NEW x \in Channels, NEW w, NEW apdu, NEW nr
  PROVE  Steps(c, Drop(c, x), w, apdu, nr) /\ Stays(c, Drop(c, x)) /\ Drop(c, x).open = c.open
<1>1. PICK d : d = Drop(c, x)
  OBVIOUS
<1>2. /\ CardShape(d) /\ Stays(c, d) /\ d.open = c.open /\ d.sids = c.sids
      /\ d.sess[x] = NoSession /\ \A y \in Channels : y # x => d.sess[y] = c.sess[y]
  BY <1>1, Dropping
<1>3. Steps(c, d, w, apdu, nr)
  BY <1>2 DEF Steps, OnePlace, CardShape
<1> QED  BY <1>1, <1>2, <1>3

\* What the shell may conclude from an answer of 9000.
Tells(c, d, w, apdu, nr, sw) ==
  /\ sw # "6310"
  /\ sw = "9000" =>
       /\ d.open = CASE apdu.ins = "open"  -> c.open \cup {apdu.arg[1]}
                     [] apdu.ins = "close" -> c.open \ {apdu.arg[1]}
                     [] OTHER -> c.open
       /\ apdu.ins = "init_update" => Begins(c, d, w.ch, apdu)
       /\ apdu.ins = "ext_auth" => Authenticates(c, d, w.ch, apdu, nr)

LEMMA SelectOnCard ==
  ASSUME NEW c, CardShape(c), OnePlace(c), NEW w, w.ch \in c.open, NEW nr,
         NEW apdu, apdu.ins = "select", NEW a, a = CardPlain(c, w.ch, apdu, nr)
  PROVE  Steps(c, a.card, w, apdu, nr) /\ Stays(c, a.card) /\ Tells(c, a.card, w, apdu, nr, a.sw)
<1>1. a = IF c.sel[w.ch] = apdu.arg[1] THEN Answer(c, "9000")
          ELSE Answer([Drop(c, w.ch) EXCEPT !.sel[w.ch] = apdu.arg[1]], "9000")
  BY DEF CardPlain
<1>2. CASE a = Answer(c, "9000")
  BY <1>2, Answering, NothingSteps DEF Tells
<1>3. CASE a = Answer([Drop(c, w.ch) EXCEPT !.sel[w.ch] = apdu.arg[1]], "9000")
  <2>1. PICK e, d : e = Drop(c, w.ch) /\ d = [e EXCEPT !.sel[w.ch] = apdu.arg[1]]
    OBVIOUS
  <2>2. a.card = d /\ a.sw = "9000"
    BY <1>3, <2>1, Answering
  <2>3. CardShape(e) /\ Steps(c, e, w, apdu, nr) /\ Stays(c, e) /\ e.open = c.open
    BY <2>1, Dropping, DropSteps DEF CardShape
  <2>4. d = [open |-> e.open, sel |-> [e.sel EXCEPT ![w.ch] = apdu.arg[1]], sess |-> e.sess, sids |-> e.sids,
             key |-> e.key, load |-> e.load, caps |-> e.caps, page |-> e.page]
    BY <2>1, <2>3 DEF CardShape
  <2>5. /\ d.open = e.open /\ d.sess = e.sess /\ d.sids = e.sids
        /\ d.key = e.key /\ d.load = e.load /\ d.caps = e.caps /\ d.page = e.page
        /\ d = [open |-> d.open, sel |-> d.sel, sess |-> d.sess, sids |-> d.sids, key |-> d.key,
                load |-> d.load, caps |-> d.caps, page |-> d.page]
    BY <2>4
  <2>6. CardShape(d)
    BY <2>3, <2>5 DEF CardShape
  <2>7. Steps(c, d, w, apdu, nr)
    BY <2>3, <2>5, <2>6 DEF Steps, Begins, Authenticates, MovesAlong
  <2> QED  BY <2>2, <2>3, <2>5, <2>7 DEF Stays, Tells
<1> QED  BY <1>1, <1>2, <1>3

LEMMA OpenOnCard ==
  ASSUME NEW c, CardShape(c), OnePlace(c), NEW w, w.ch \in c.open, NEW nr,
         NEW apdu, apdu.ins = "open", NamesAChannel(apdu), NEW a, a = CardPlain(c, w.ch, apdu, nr)
  PROVE  Steps(c, a.card, w, apdu, nr) /\ Stays(c, a.card) /\ Tells(c, a.card, w, apdu, nr, a.sw)
<1> DEFINE n == apdu.arg[1]
           sel == IF w.ch = 0 THEN "MF" ELSE c.sel[w.ch]
<1>1. a = IF n \in c.open THEN Answer(c, "6a86")
          ELSE Answer([c EXCEPT !.open = @ \cup {n}, !.sel[n] = sel], "9000")
  BY DEF CardPlain
<1>2. CASE a = Answer(c, "6a86")
  BY <1>2, Answering, NothingSteps DEF Tells
<1>3. CASE a = Answer([c EXCEPT !.open = @ \cup {n}, !.sel[n] = sel], "9000")
  <2> HIDE DEF sel
  <2>1. PICK d : d = [c EXCEPT !.open = @ \cup {n}, !.sel[n] = sel]
    OBVIOUS
  <2>2. a.card = d /\ a.sw = "9000"
    BY <1>3, <2>1, Answering
  <2>3. d = [open |-> c.open \cup {n}, sel |-> [c.sel EXCEPT ![n] = sel], sess |-> c.sess, sids |-> c.sids,
             key |-> c.key, load |-> c.load, caps |-> c.caps, page |-> c.page]
    BY <2>1 DEF CardShape
  <2>4. /\ d.open = c.open \cup {n} /\ d.sess = c.sess /\ d.sids = c.sids
        /\ d.key = c.key /\ d.load = c.load /\ d.caps = c.caps /\ d.page = c.page
        /\ d = [open |-> d.open, sel |-> d.sel, sess |-> d.sess, sids |-> d.sids, key |-> d.key,
                load |-> d.load, caps |-> d.caps, page |-> d.page]
    BY <2>3
  <2>5. CardShape(d)
    BY <2>4 DEF CardShape, NamesAChannel
  <2>6. Steps(c, d, w, apdu, nr)
    BY <2>4, <2>5 DEF Steps, OnePlace, CardShape
  <2> QED  BY <2>2, <2>4, <2>6 DEF Stays, Tells
<1> QED  BY <1>1, <1>2, <1>3

LEMMA CloseOnCard ==
  ASSUME NEW c, CardShape(c), OnePlace(c), NEW w, w.ch \in c.open, NEW nr,
         NEW apdu, apdu.ins = "close", NamesAChannel(apdu), NEW a, a = CardPlain(c, w.ch, apdu, nr)
  PROVE  Steps(c, a.card, w, apdu, nr) /\ Stays(c, a.card) /\ Tells(c, a.card, w, apdu, nr, a.sw)
<1> DEFINE n == apdu.arg[1]
<1>1. a = IF n \notin c.open \ {0} THEN Answer(c, "6a86")
          ELSE Answer([Drop(c, n) EXCEPT !.open = @ \ {n}], "9000")
  BY DEF CardPlain
<1>2. CASE a = Answer(c, "6a86")
  BY <1>2, Answering, NothingSteps DEF Tells
<1>3. CASE a = Answer([Drop(c, n) EXCEPT !.open = @ \ {n}], "9000")
  <2>1. PICK e, d : e = Drop(c, n) /\ d = [e EXCEPT !.open = @ \ {n}]
    OBVIOUS
  <2>2. a.card = d /\ a.sw = "9000" /\ n \in Channels \ {0}
    BY <1>3, <2>1, Answering DEF NamesAChannel
  <2>3. /\ CardShape(e) /\ Steps(c, e, w, apdu, nr) /\ Stays(c, e) /\ e.open = c.open
        /\ e.sess[n] = NoSession
    BY <2>1, <2>2, Dropping, DropSteps, SMTT(30)
  <2>4. d = [open |-> e.open \ {n}, sel |-> e.sel, sess |-> e.sess, sids |-> e.sids,
             key |-> e.key, load |-> e.load, caps |-> e.caps, page |-> e.page]
    BY <2>1, <2>3 DEF CardShape
  <2>5. /\ d.open = e.open \ {n} /\ d.sess = e.sess /\ d.sids = e.sids
        /\ d.key = e.key /\ d.load = e.load /\ d.caps = e.caps /\ d.page = e.page
        /\ d = [open |-> d.open, sel |-> d.sel, sess |-> d.sess, sids |-> d.sids, key |-> d.key,
                load |-> d.load, caps |-> d.caps, page |-> d.page]
    BY <2>4
  <2>6. CardShape(d)
    BY <2>2, <2>3, <2>5, SMTT(30) DEF CardShape
  <2>7. Steps(c, d, w, apdu, nr)
    BY <2>3, <2>5, <2>6, ZenonT(40) DEF Steps, Begins, Authenticates, MovesAlong
  <2> QED  BY <2>2, <2>3, <2>5, <2>7 DEF Stays, Tells
<1> QED  BY <1>1, <1>2, <1>3

LEMMA BeginOnCard ==
  ASSUME NEW c, CardShape(c), OnePlace(c), NEW w, w.ch \in c.open, NEW nr,
         NEW apdu, apdu.ins = "init_update", NEW a, a = CardPlain(c, w.ch, apdu, nr)
  PROVE  Steps(c, a.card, w, apdu, nr) /\ Stays(c, a.card) /\ Tells(c, a.card, w, apdu, nr, a.sw)
<1> DEFINE s == [NoSession EXCEPT !.kind = apdu.arg[1], !.sid = c.sids + 1]
<1>1. a = IF c.sel[w.ch] # "SD" \/ apdu.arg[2] \notin CardKvns[apdu.arg[1]] THEN Answer(c, "6a88")
          ELSE Answer([c EXCEPT !.sids = @ + 1, !.sess[w.ch] = s], "9000")
  BY DEF CardPlain
<1>2. CASE a = Answer(c, "6a88")
  BY <1>2, Answering, NothingSteps DEF Tells
<1>3. CASE a = Answer([c EXCEPT !.sids = @ + 1, !.sess[w.ch] = s], "9000")
  <2>1. PICK t : t = s
    OBVIOUS
  <2> HIDE DEF s
  <2>2. PICK d : d = [c EXCEPT !.sids = @ + 1, !.sess[w.ch] = t]
    OBVIOUS
  <2>3. a.card = d /\ a.sw = "9000"
    BY <1>3, <2>1, <2>2, Answering
  <2>4. d = [open |-> c.open, sel |-> c.sel, sess |-> [c.sess EXCEPT ![w.ch] = t], sids |-> c.sids + 1,
             key |-> c.key, load |-> c.load, caps |-> c.caps, page |-> c.page]
    BY <2>2 DEF CardShape
  <2>5. /\ d.open = c.open /\ d.sess = [c.sess EXCEPT ![w.ch] = t] /\ d.sids = c.sids + 1
        /\ d.key = c.key /\ d.load = c.load /\ d.caps = c.caps /\ d.page = c.page
        /\ d = [open |-> d.open, sel |-> d.sel, sess |-> d.sess, sids |-> d.sids, key |-> d.key,
                load |-> d.load, caps |-> d.caps, page |-> d.page]
    BY <2>4
  <2>6. /\ d.sess = [x \in Channels |-> d.sess[x]] /\ d.sess[w.ch] = t
        /\ \A x \in Channels : x # w.ch => d.sess[x] = c.sess[x]
    BY <2>5 DEF CardShape
  <2>7. CardShape(d)
    BY <2>5, <2>6 DEF CardShape
  <2>8. Begins(c, d, w.ch, apdu)
    BY <2>1, <2>5, <2>6 DEF Begins, s
  <2>9. Steps(c, d, w, apdu, nr)
    BY <2>5, <2>6, <2>7, <2>8 DEF Steps, OnePlace, CardShape
  <2> QED  BY <2>3, <2>5, <2>8, <2>9 DEF Stays, Tells
<1> QED  BY <1>1, <1>2, <1>3

LEMMA AuthenticateOnCard ==
  ASSUME NEW c, CardShape(c), OnePlace(c), NEW w, w.ch \in c.open, NEW nr,
         NEW apdu, apdu.ins = "ext_auth", NEW a, a = CardPlain(c, w.ch, apdu, nr)
  PROVE  Steps(c, a.card, w, apdu, nr) /\ Stays(c, a.card) /\ Tells(c, a.card, w, apdu, nr, a.sw)
<1> DEFINE s == [c.sess[w.ch] EXCEPT !.level = apdu.arg[2], !.on = TRUE, !.chain = <<nr>>]
<1>1. a = IF c.sess[w.ch].sid = apdu.arg[3] /\ ~c.sess[w.ch].on
          THEN Answer([c EXCEPT !.sess[w.ch] = s], "9000")
          ELSE Answer(Drop(c, w.ch), "6300")
  BY DEF CardPlain
<1>2. w.ch \in Channels
  BY DEF CardShape
<1>3. CASE a = Answer(Drop(c, w.ch), "6300")
  BY <1>2, <1>3, Answering, DropSteps DEF Tells
<1>4. CASE /\ c.sess[w.ch].sid = apdu.arg[3] /\ ~c.sess[w.ch].on
           /\ a = Answer([c EXCEPT !.sess[w.ch] = s], "9000")
  <2>1. PICK t : t = s
    OBVIOUS
  <2> HIDE DEF s
  <2>2. PICK d : d = [c EXCEPT !.sess[w.ch] = t]
    OBVIOUS
  <2>3. a.card = d /\ a.sw = "9000"
    BY <1>4, <2>1, <2>2, Answering
  <2>4. /\ CardShape(d) /\ Stays(c, d) /\ d.open = c.open /\ d.sids = c.sids
        /\ d.sess[w.ch] = t /\ \A y \in Channels : y # w.ch => d.sess[y] = c.sess[y]
    BY <1>2, <2>2, SetSession
  <2>5. Authenticates(c, d, w.ch, apdu, nr)
    BY <1>4, <2>1, <2>4 DEF Authenticates, s
  <2>6. Steps(c, d, w, apdu, nr)
    BY <2>4, <2>5 DEF Steps, OnePlace, CardShape
  <2> QED  BY <2>3, <2>4, <2>5, <2>6 DEF Tells
<1> QED  BY <1>1, <1>3, <1>4

LEMMA Unsecuredly ==
  ASSUME NEW c, CardShape(c), OnePlace(c), NEW w, NEW nr,
         NEW apdu, apdu.ins \in Unsecured, NamesAChannel(apdu), NEW a, a = CardStep(c, w, apdu, nr)
  PROVE  /\ Steps(c, a.card, w, apdu, nr) /\ Stays(c, a.card) /\ Tells(c, a.card, w, apdu, nr, a.sw)
         /\ w.ch \notin c.open => a.card = c /\ a.sw = "6881"
<1>1. CASE w.ch \notin c.open
  <2>1. a = Answer(c, "6881")
    BY <1>1 DEF CardStep
  <2>2. a.card = c /\ a.sw = "6881"
    BY <2>1, Answering
  <2> QED  BY <2>2, NothingSteps DEF Tells
<1>2. CASE w.ch \in c.open
  <2>1. a = CardPlain(c, w.ch, apdu, nr)
    BY <1>2 DEF CardStep, Unsecured
  <2> QED
    BY <1>2, <2>1, SelectOnCard, OpenOnCard, CloseOnCard, BeginOnCard, AuthenticateOnCard DEF Unsecured
<1> QED  BY <1>1, <1>2

\* The rest of the card after a secured command.
Remains(c, d) == CardShape(d) /\ d.sess = c.sess /\ d.open = c.open /\ d.sids = c.sids

LEMMA SetRest ==
  ASSUME NEW c, CardShape(c), NEW key, NEW load, NEW caps, NEW page, NEW d,
         d = [open |-> c.open, sel |-> c.sel, sess |-> c.sess, sids |-> c.sids, key |-> key,
              load |-> load, caps |-> caps, page |-> page]
  PROVE  Remains(c, d) /\ d.key = key /\ d.load = load /\ d.caps = caps /\ d.page = page
<1>1. /\ d.open = c.open /\ d.sess = c.sess /\ d.sids = c.sids
      /\ d.key = key /\ d.load = load /\ d.caps = caps /\ d.page = page
      /\ d = [open |-> d.open, sel |-> d.sel, sess |-> d.sess, sids |-> d.sids, key |-> d.key,
              load |-> d.load, caps |-> d.caps, page |-> d.page]
  OBVIOUS
<1> QED  BY <1>1 DEF CardShape, Remains

LEMMA SetKey ==
  ASSUME NEW c, CardShape(c), NEW key, NEW d, d = [c EXCEPT !.key = key]
  PROVE  Remains(c, d) /\ d.key = key /\ d.load = c.load /\ d.caps = c.caps /\ d.page = c.page
<1>1. d = [open |-> c.open, sel |-> c.sel, sess |-> c.sess, sids |-> c.sids, key |-> key,
           load |-> c.load, caps |-> c.caps, page |-> c.page]
  BY DEF CardShape
<1> QED  BY <1>1, SetRest, ZenonT(40)

LEMMA SetLoad ==
  ASSUME NEW c, CardShape(c), NEW load, NEW d, d = [c EXCEPT !.load = load]
  PROVE  Remains(c, d) /\ d.key = c.key /\ d.load = load /\ d.caps = c.caps /\ d.page = c.page
<1>1. d = [open |-> c.open, sel |-> c.sel, sess |-> c.sess, sids |-> c.sids, key |-> c.key,
           load |-> load, caps |-> c.caps, page |-> c.page]
  BY DEF CardShape
<1> QED  BY <1>1, SetRest, ZenonT(40)

LEMMA SetPage ==
  ASSUME NEW c, CardShape(c), NEW page, NEW d, d = [c EXCEPT !.page = page]
  PROVE  Remains(c, d) /\ d.key = c.key /\ d.load = c.load /\ d.caps = c.caps /\ d.page = page
<1>1. d = [open |-> c.open, sel |-> c.sel, sess |-> c.sess, sids |-> c.sids, key |-> c.key,
           load |-> c.load, caps |-> c.caps, page |-> page]
  BY DEF CardShape
<1> QED  BY <1>1, SetRest, ZenonT(40)

LEMMA KeptSteps ==
  ASSUME NEW c, NEW w, NEW apdu, NEW nr, NEW e, Steps(c, e, w, apdu, nr), NEW d, Remains(e, d)
  PROVE  Steps(c, d, w, apdu, nr)
<1>1. CardShape(d) /\ d.sess = e.sess /\ d.open = e.open /\ d.sids = e.sids
  BY DEF Remains
<1> QED  BY <1>1, Zenon DEF Steps, Begins, Authenticates, MovesAlong

\* What a command does to the load file that is coming in.
Grown(load, apdu) ==
  [load EXCEPT !.total = apdu.arg[1], !.got = @ + apdu.len, !.next = (@ + 1) % 256]
Loads(c, d, apdu) ==
  \/ d.load = c.load /\ d.caps = c.caps
  \/ d.load \in {NoLoad, [NoLoad EXCEPT !.on = TRUE]} /\ d.caps = c.caps
  \/ /\ apdu.ins = "load" /\ apdu.block = c.load.next
     /\ IF apdu.last THEN d.load = NoLoad /\ d.caps = c.caps \cup {Grown(c.load, apdu)}
        ELSE d.load = Grown(c.load, apdu) /\ d.caps = c.caps

\* What the card does with a command whose MAC it has verified.
Carries(c, d, x, apdu, sw) ==
  /\ Remains(c, d) /\ sw \in {"9000", "6310", "6a80"}
  /\ IF apdu.ins = "put_key" THEN d.key = <<CardKey(c.sess[x], apdu.arg[1])[1], apdu.arg[2]>> ELSE d.key = c.key
  /\ IF apdu.ins = "get_status"
     THEN /\ d.page = IF apdu.block % 2 = 0 THEN 1 ELSE c.page + 1
          /\ sw = IF d.page < Pages THEN "6310" ELSE "9000"
     ELSE d.page = c.page /\ sw # "6310"
  /\ Loads(c, d, apdu)

LEMMA Carrying ==
  ASSUME NEW c, CardShape(c), NEW x \in Channels, NEW apdu, NEW a, a = Carry(c, x, apdu)
  PROVE  Carries(c, a.card, x, apdu, a.sw)
<1>1. CASE apdu.ins = "put_key"
  <2>1. PICK k, d : k = <<CardKey(c.sess[x], apdu.arg[1])[1], apdu.arg[2]>> /\ d = [c EXCEPT !.key = k]
    OBVIOUS
  <2>2. a = Answer(d, "9000")
    BY <1>1, <2>1 DEF Carry
  <2>3. Remains(c, d) /\ d.key = k /\ d.load = c.load /\ d.caps = c.caps /\ d.page = c.page
    BY <2>1, SetKey
  <2>4. a.card = d /\ a.sw = "9000" /\ Loads(c, d, apdu)
    BY <2>2, <2>3, Answering DEF Loads
  <2> QED  BY <1>1, <2>1, <2>3, <2>4 DEF Carries
<1>2. CASE apdu.ins = "install_load"
  <2>1. PICK l, d : l = [NoLoad EXCEPT !.on = TRUE] /\ d = [c EXCEPT !.load = l]
    OBVIOUS
  <2>2. a = Answer(d, "9000")
    BY <1>2, <2>1 DEF Carry
  <2>3. Remains(c, d) /\ d.key = c.key /\ d.load = l /\ d.caps = c.caps /\ d.page = c.page
    BY <2>1, SetLoad
  <2>4. a.card = d /\ a.sw = "9000" /\ Loads(c, d, apdu)
    BY <2>1, <2>2, <2>3, Answering DEF Loads
  <2> QED  BY <1>2, <2>3, <2>4 DEF Carries
<1>3. CASE apdu.ins = "load"
  <2>1. PICK l : l = Grown(c.load, apdu)
    OBVIOUS
  <2>2. a = IF ~c.load.on \/ apdu.block # c.load.next THEN Answer([c EXCEPT !.load = NoLoad], "6a80")
            ELSE Answer([c EXCEPT !.load = IF apdu.last THEN NoLoad ELSE l,
                                  !.caps = IF apdu.last THEN @ \cup {l} ELSE @], "9000")
    BY <1>3, <2>1 DEF Carry, Grown
  <2>3. CASE a = Answer([c EXCEPT !.load = NoLoad], "6a80")
    <3>1. PICK d : d = [c EXCEPT !.load = NoLoad]
      OBVIOUS
    <3>2. Remains(c, d) /\ d.key = c.key /\ d.load = NoLoad /\ d.caps = c.caps /\ d.page = c.page
      BY <3>1, SetLoad
    <3>3. a.card = d /\ a.sw = "6a80" /\ Loads(c, d, apdu)
      BY <2>3, <3>1, <3>2, Answering DEF Loads
    <3> QED  BY <1>3, <3>2, <3>3 DEF Carries
  <2>4. CASE /\ c.load.on /\ apdu.block = c.load.next
             /\ a = Answer([c EXCEPT !.load = IF apdu.last THEN NoLoad ELSE l,
                                     !.caps = IF apdu.last THEN @ \cup {l} ELSE @], "9000")
    <3>1. PICK k, m : k = (IF apdu.last THEN NoLoad ELSE l) /\ m = (IF apdu.last THEN c.caps \cup {l} ELSE c.caps)
      OBVIOUS
    <3>2. PICK d : d = [c EXCEPT !.load = k, !.caps = m]
      OBVIOUS
    <3>3. a = Answer(d, "9000")
      BY <2>4, <3>1, <3>2
    <3>4. Remains(c, d) /\ d.key = c.key /\ d.load = k /\ d.caps = m /\ d.page = c.page
      <4>1. d = [open |-> c.open, sel |-> c.sel, sess |-> c.sess, sids |-> c.sids, key |-> c.key,
                 load |-> k, caps |-> m, page |-> c.page]
        BY <3>2 DEF CardShape
      <4> QED  BY <4>1, SetRest
    <3>5. a.card = d /\ a.sw = "9000"
      BY <3>3, Answering
    <3>6. IF apdu.last THEN d.load = NoLoad /\ d.caps = c.caps \cup {l} ELSE d.load = l /\ d.caps = c.caps
      BY <3>1, <3>4
    <3>7. Loads(c, d, apdu)
      BY <1>3, <2>1, <2>4, <3>6 DEF Loads
    <3> QED  BY <1>3, <3>4, <3>5, <3>7 DEF Carries
  <2> QED  BY <2>2, <2>3, <2>4
<1>4. CASE apdu.ins = "get_status"
  <2>1. PICK p : p = IF apdu.block % 2 = 0 THEN 1 ELSE c.page + 1
    OBVIOUS
  <2>2. PICK d : d = [c EXCEPT !.page = p]
    OBVIOUS
  <2>3. a = Answer(d, IF p < Pages THEN "6310" ELSE "9000")
    BY <1>4, <2>1, <2>2 DEF Carry
  <2>4. Remains(c, d) /\ d.key = c.key /\ d.load = c.load /\ d.caps = c.caps /\ d.page = p
    BY <2>2, SetPage
  <2>5. a.card = d /\ a.sw = (IF p < Pages THEN "6310" ELSE "9000") /\ Loads(c, d, apdu)
    BY <2>3, <2>4, Answering DEF Loads
  <2> QED  BY <1>4, <2>1, <2>4, <2>5 DEF Carries
<1>5. CASE apdu.ins \notin {"put_key", "install_load", "load", "get_status"}
  <2>1. a = Answer(c, "9000")
    BY <1>5 DEF Carry
  <2>2. Remains(c, c) /\ Loads(c, c, apdu)
    BY DEF Remains, Loads
  <2> QED  BY <1>5, <2>1, <2>2, Answering DEF Carries
<1> QED  BY <1>1, <1>2, <1>3, <1>4, <1>5

\* A secured command: refused, or its session moves along and it is carried out.
LEMMA Securedly ==
  ASSUME NEW c, CardShape(c), OnePlace(c), NEW w, NEW nr, NEW apdu, apdu.ins \notin Unsecured,
         NEW a, a = CardStep(c, w, apdu, nr)
  PROVE  /\ Steps(c, a.card, w, apdu, nr) /\ a.card.open = c.open
         /\ w.ch \in c.open =>
              \/ a.card.sess[w.ch] = NoSession /\ ~Authentic(c.sess[w.ch], w, nr)
              \/ MovesAlong(c, a.card, w.ch, apdu, w, nr)
         /\ \/ Stays(c, a.card) /\ a.sw \in {"6881", "6982", "6a80"}
            \/ /\ w.ch \in c.open /\ Authentic(c.sess[w.ch], w, nr)
               /\ \E e : /\ Stays(c, e) /\ e.sess[w.ch].kind = c.sess[w.ch].kind
                         /\ e.sess[w.ch].sid = c.sess[w.ch].sid
                         /\ Carries(e, a.card, w.ch, apdu, a.sw)
<1>1. CASE w.ch \notin c.open
  <2>1. a = Answer(c, "6881")
    BY <1>1 DEF CardStep
  <2>2. a.card = c /\ a.sw = "6881"
    BY <2>1, Answering
  <2> QED  BY <1>1, <2>2, NothingSteps
<1>2. CASE w.ch \in c.open /\ ~Authentic(c.sess[w.ch], w, nr)
  <2>1. a = Answer(Drop(c, w.ch), "6982")
    BY <1>2 DEF CardStep, Unsecured
  <2>2. a.card = Drop(c, w.ch) /\ a.sw = "6982" /\ w.ch \in Channels
    BY <1>2, <2>1, Answering DEF CardShape
  <2>3. Drop(c, w.ch).sess[w.ch] = NoSession
    BY <2>2, Dropping
  <2> QED  BY <1>2, <2>2, <2>3, DropSteps
<1>3. CASE w.ch \in c.open /\ Authentic(c.sess[w.ch], w, nr)
  <2> DEFINE s == c.sess[w.ch]
  <2>1. PICK t : t = [s EXCEPT !.chain = w.mac, !.ctr = IF Cenc(s) THEN @ + 1 ELSE @]
    OBVIOUS
  <2>2. PICK e : e = [c EXCEPT !.sess[w.ch] = t]
    OBVIOUS
  <2>3. w.ch \in Channels
    BY <1>3 DEF CardShape
  <2>4. /\ CardShape(e) /\ Stays(c, e) /\ e.open = c.open /\ e.sids = c.sids
        /\ e.sess[w.ch] = t /\ \A y \in Channels : y # w.ch => e.sess[y] = c.sess[y]
    BY <2>2, <2>3, SetSession, SMTT(20)
  <2>5. MovesAlong(c, e, w.ch, apdu, w, nr)
    BY <1>3, <2>1, <2>4 DEF MovesAlong
  <2>6. Steps(c, e, w, apdu, nr)
    BY <1>3, <2>4, <2>5 DEF Steps, OnePlace, CardShape
  <2>7. t.kind = s.kind /\ t.sid = s.sid
    BY <2>1, <2>3 DEF OnePlace, SessionShape
  <2>8. a = Answer(e, "6a80") \/ a = Carry(e, w.ch, apdu)
    BY <1>3, <2>1, <2>2 DEF CardStep, Unsecured
  <2>9. CASE a = Answer(e, "6a80")
    BY <2>4, <2>5, <2>6, <2>9, Answering
  <2>10. CASE a = Carry(e, w.ch, apdu)
    <3>1. Carries(e, a.card, w.ch, apdu, a.sw)
      BY <2>3, <2>4, <2>10, Carrying
    <3>2. Steps(c, a.card, w, apdu, nr)
      BY <2>6, <3>1, KeptSteps DEF Carries
    <3>3. a.card.sess = e.sess /\ a.card.open = c.open
      BY <2>4, <3>1 DEF Carries, Remains
    <3>4. MovesAlong(c, a.card, w.ch, apdu, w, nr)
      BY <2>5, <3>3 DEF MovesAlong
    <3> QED  BY <1>3, <2>4, <2>7, <3>1, <3>2, <3>3, <3>4
  <2> QED  BY <2>8, <2>9, <2>10
<1> QED  BY <1>1, <1>2, <1>3
-----------------------------------------------------------------------------
(* Whose session is whose.                                                 *)

\* A session of the card that an lchan takes for its own is on that lchan's
\* channel, authenticated, of the same kind and level; and in step with it,
\* unless it is one of b, the sessions that have lost an APDU.
Owns(c, b, l) ==
  /\ l.scp.sid <= c.sids
  /\ \A x \in Channels : l.scp.sid # 0 /\ c.sess[x].sid = l.scp.sid =>
       /\ x = l.nr /\ c.sess[x].on /\ c.sess[x].kind = l.scp.kind /\ c.sess[x].level = l.scp.level
       /\ l.scp.sid \notin b => c.sess[x].chain = l.scp.chain /\ c.sess[x].ctr = l.scp.ctr

NamesASession(apdu, c) == apdu.ins = "ext_auth" => apdu.arg[3] \in 1..c.sids

\* The card's sessions stay one to a channel.
LEMMA StaysOnePlace ==
  ASSUME NEW c, CardShape(c), OnePlace(c), NEW w, NEW apdu, NamesASession(apdu, c), NEW nr,
         NEW d, Steps(c, d, w, apdu, nr)
  PROVE  CardShape(d) /\ OnePlace(d)
<1>1. CardShape(d) /\ d.sids >= c.sids /\ c.sids \in Nat /\ d.sids \in Nat
  BY DEF Steps, CardShape
<1>2. ASSUME NEW x \in Channels
      PROVE  /\ SessionShape(d.sess[x]) /\ d.sess[x].sid <= d.sids
             /\ d.sess[x].sid \in {c.sess[x].sid, 0, c.sids + 1}
             /\ d.sess[x].sid = c.sids + 1 => x = w.ch
  <2> DEFINE s == c.sess[x]
  <2>1. SessionShape(s) /\ s.sid <= c.sids /\ s.sid \in Nat
    BY DEF OnePlace, SessionShape
  <2>2. CASE d.sess[x] = s
    BY <1>1, <2>1, <2>2
  <2>3. CASE d.sess[x] = NoSession
    BY <1>1, <2>3 DEF NoSession, SessionShape
  <2>4. CASE x = w.ch /\ Begins(c, d, x, apdu)
    <3>1. PICK t : t = d.sess[x]
      OBVIOUS
    <3>2. t = [kind |-> apdu.arg[1], level |-> None, sid |-> c.sids + 1, chain |-> <<>>, ctr |-> 0, on |-> FALSE]
      BY <2>4, <3>1 DEF Begins, NoSession
    <3>3. /\ t = [kind |-> t.kind, level |-> t.level, sid |-> t.sid, chain |-> t.chain, ctr |-> t.ctr, on |-> t.on]
          /\ t.sid = c.sids + 1 /\ t.ctr = 0 /\ t.on = FALSE
      BY <3>2
    <3>4. SessionShape(t) /\ d.sids = c.sids + 1
      BY <1>1, <2>4, <3>3 DEF SessionShape, Begins
    <3> QED  BY <1>1, <2>4, <3>1, <3>3, <3>4
  <2>5. CASE x = w.ch /\ Authenticates(c, d, x, apdu, nr)
    <3>1. d.sess[x] = [kind |-> s.kind, level |-> apdu.arg[2], sid |-> s.sid, chain |-> <<nr>>, ctr |-> s.ctr, on |-> TRUE]
      BY <2>1, <2>5 DEF Authenticates, SessionShape
    <3>2. s.sid # 0
      BY <2>5 DEF Authenticates, NamesASession
    <3> QED  BY <1>1, <2>1, <2>5, <3>1, <3>2 DEF SessionShape
  <2>6. CASE x = w.ch /\ MovesAlong(c, d, x, apdu, w, nr)
    <3>1. PICK n : n = IF Cenc(s) THEN s.ctr + 1 ELSE s.ctr
      OBVIOUS
    <3>2. d.sess[x] = [kind |-> s.kind, level |-> s.level, sid |-> s.sid, chain |-> w.mac, ctr |-> n, on |-> s.on]
      BY <2>1, <2>6, <3>1 DEF MovesAlong, SessionShape
    <3>3. s.on
      BY <2>6 DEF MovesAlong, Authentic
    <3> QED  BY <1>1, <2>1, <2>6, <3>2, <3>3 DEF SessionShape
  <2> QED  BY <2>2, <2>3, <2>4, <2>5, <2>6 DEF Steps
<1>3. ASSUME NEW x \in Channels, NEW y \in Channels, d.sess[x].sid = d.sess[y].sid, d.sess[x].sid # 0
      PROVE  x = y
  <2>1. /\ d.sess[x].sid = c.sids + 1 => x = w.ch
        /\ d.sess[y].sid = c.sids + 1 => y = w.ch
        /\ d.sess[x].sid # c.sids + 1 => d.sess[x].sid = c.sess[x].sid
        /\ d.sess[y].sid # c.sids + 1 => d.sess[y].sid = c.sess[y].sid
    BY <1>2, <1>3
  <2> QED  BY <1>3, <2>1 DEF OnePlace
<1> QED  BY <1>1, <1>2, <1>3 DEF OnePlace, Steps

\* An lchan other than the one that sends, h, stays in step with its session.
LEMMA OthersKeep ==
  ASSUME NEW c, CardShape(c), OnePlace(c), NEW w, NEW apdu, NEW nr, NEW d, Steps(c, d, w, apdu, nr),
         NEW b, NEW bb, b \subseteq bb,
         NEW h, Owns(c, b, h), w.sid # 0 => w.ch = 0 /\ w.sid = h.scp.sid,
         NEW k, ScpShape(k.scp), Owns(c, b, k), k.nr # h.nr \/ h.nr # 0 \/ w.sid = 0
  PROVE  Owns(d, bb, k)
<1>1. c.sids \in Nat /\ d.sids \in Nat /\ d.sids >= c.sids /\ k.scp.sid \in Nat /\ k.scp.sid <= c.sids
  BY DEF CardShape, Steps, Owns, ScpShape
<1>2. ASSUME NEW x \in Channels, k.scp.sid # 0, d.sess[x].sid = k.scp.sid
      PROVE  d.sess[x] = c.sess[x]
  <2>1. d.sess[x] # NoSession
    BY <1>2 DEF NoSession
  <2>2. ~Begins(c, d, x, apdu)
    <3>1. SUFFICES ASSUME Begins(c, d, x, apdu) PROVE FALSE
      OBVIOUS
    <3>2. d.sess[x].sid = c.sids + 1
      BY <3>1 DEF Begins, NoSession
    <3> QED  BY <1>1, <1>2, <3>2
  <2>3. ~Authenticates(c, d, x, apdu, nr)
    <3>1. SUFFICES ASSUME Authenticates(c, d, x, apdu, nr) PROVE FALSE
      OBVIOUS
    <3>2. d.sess[x].sid = c.sess[x].sid /\ ~c.sess[x].on
      BY <3>1 DEF Authenticates, OnePlace, SessionShape
    <3> QED  BY <1>2, <3>2 DEF Owns
  <2>4. ~(x = w.ch /\ MovesAlong(c, d, x, apdu, w, nr))
    <3>1. SUFFICES ASSUME x = w.ch, MovesAlong(c, d, x, apdu, w, nr) PROVE FALSE
      OBVIOUS
    <3>2. d.sess[x].sid = c.sess[x].sid /\ c.sess[x].on /\ w.sid = c.sess[x].sid
      BY <3>1 DEF MovesAlong, OnePlace, SessionShape, Authentic
    <3>3. w.sid # 0
      BY <1>2, <3>2
    <3>4. x = 0 /\ c.sess[x].sid = h.scp.sid /\ h.scp.sid # 0
      BY <3>1, <3>2, <3>3
    <3>5. x = h.nr
      BY <3>4 DEF Owns
    <3>6. x = k.nr
      BY <1>2, <3>2 DEF Owns
    <3> QED  BY <3>3, <3>4, <3>5, <3>6
  <2> QED  BY <2>1, <2>2, <2>3, <2>4 DEF Steps
<1> QED  BY <1>1, <1>2 DEF Owns

\* The lchan that sends, once its secure channel has wrapped the APDU and the
\* card has had it.
LEMMA SenderKeeps ==
  ASSUME NEW c, CardShape(c), OnePlace(c), NEW b, NEW h, LchanShape(h), Owns(c, b, h), NEW nr, NEW apdu,
         NEW w, w = Wrap(h, nr, apdu), w.ok, h.scp.kind # None /\ IsGp(apdu) => apdu.ins \notin Unsecured,
         NamesAChannel(apdu), NEW a, a = CardStep(c, w, apdu, nr),
         NEW l, l.nr = h.nr, l.scp = w.scp
  PROVE  Owns(a.card, b \cup Broken(w, l), l)
<1>1. Steps(c, a.card, w, apdu, nr)
  BY Unsecuredly, Securedly
<1>2. SameSession(w.scp, h.scp)
  BY Wrapping
<1>3. CASE h.scp.kind = None \/ ~IsGp(apdu)
  <2>1. w.sid = 0 /\ w.scp = h.scp
    BY <1>3, Wrapping DEF Bare
  <2>2. Owns(a.card, b \cup Broken(w, l), h)
    <3>1. ScpShape(h.scp) /\ b \subseteq b \cup Broken(w, l)
      BY DEF LchanShape
    <3> QED  BY <1>1, <2>1, <3>1, OthersKeep
  <2> QED  BY <2>1, <2>2 DEF Owns
<1>4. CASE h.scp.kind # None /\ IsGp(apdu)
  <2>1. Secured(w, h.scp, nr) /\ apdu.ins \notin Unsecured
    BY <1>4, Wrapping
  <2> DEFINE sid == h.scp.sid
             d == a.card
  <2>2. (d.sess[0] = NoSession /\ ~Authentic(c.sess[0], w, nr)) \/ MovesAlong(c, d, 0, apdu, w, nr)
    BY <2>1, Securedly DEF Secured, CardShape
  <2>3. /\ w.ch = 0 /\ w.sid = sid /\ l.scp.sid = sid /\ l.scp.kind = h.scp.kind /\ l.scp.level = h.scp.level
        /\ w.mac = Append(h.scp.chain, nr) /\ l.scp.chain = w.mac
        /\ l.scp.ctr = IF Cenc(h.scp) THEN h.scp.ctr + 1 ELSE h.scp.ctr
    BY <1>2, <2>1 DEF Secured, SameSession
  <2>4. c.sids \in Nat /\ d.sids \in Nat /\ d.sids >= c.sids /\ sid \in Nat /\ sid <= c.sids
    BY <1>1 DEF CardShape, Steps, Owns, LchanShape, ScpShape
  <2> HIDE DEF d
  <2>5. ASSUME NEW x \in Channels, sid # 0, d.sess[x].sid = sid
        PROVE  /\ x = h.nr /\ d.sess[x].on /\ d.sess[x].kind = h.scp.kind /\ d.sess[x].level = h.scp.level
               /\ sid \notin b \cup Broken(w, l) => d.sess[x].chain = l.scp.chain /\ d.sess[x].ctr = l.scp.ctr
    <3>1. CASE x # 0
      <4>1. d.sess[x] = c.sess[x]
        <5>1. d.sess[x] # NoSession /\ x # w.ch
          BY <2>3, <2>5, <3>1 DEF NoSession
        <5> QED  BY <1>1, <5>1 DEF Steps, d
      <4>2. /\ x = h.nr /\ c.sess[x].on /\ c.sess[x].kind = h.scp.kind /\ c.sess[x].level = h.scp.level
        BY <2>5, <4>1 DEF Owns
      <4>3. sid \in Broken(w, l)
        BY <2>3, <2>5, <3>1, <4>2 DEF Broken
      <4> QED  BY <4>1, <4>2, <4>3
    <3>2. CASE x = 0
      <4> DEFINE s == c.sess[0]
      <4>1. d.sess[0] # NoSession
        BY <2>5, <3>2 DEF NoSession
      <4>2. s.on /\ w.sid = s.sid /\ d.sess[0] = [s EXCEPT !.chain = w.mac, !.ctr = IF Cenc(s) THEN @ + 1 ELSE @]
        BY <2>2, <4>1 DEF MovesAlong, Authentic
      <4>3. PICK n : n = IF Cenc(s) THEN s.ctr + 1 ELSE s.ctr
        OBVIOUS
      <4>4. d.sess[0] = [kind |-> s.kind, level |-> s.level, sid |-> s.sid, chain |-> w.mac, ctr |-> n, on |-> s.on]
        BY <4>2, <4>3, <3>2 DEF OnePlace, SessionShape
      <4>5. /\ 0 = h.nr /\ s.kind = h.scp.kind /\ s.level = h.scp.level
            /\ sid \notin b => s.ctr = h.scp.ctr
        BY <2>3, <2>5, <3>2, <4>2 DEF Owns
      <4>6. sid \notin b => n = l.scp.ctr
        BY <2>3, <4>3, <4>5 DEF Cenc
      <4>7. /\ d.sess[x].on = s.on /\ d.sess[x].kind = s.kind /\ d.sess[x].level = s.level
            /\ d.sess[x].chain = w.mac /\ d.sess[x].ctr = n
        BY <3>2, <4>4
      <4> QED  BY <2>3, <3>2, <4>2, <4>5, <4>6, <4>7
    <3> QED  BY <3>1, <3>2
  <2>6. l.scp.sid <= d.sids
    BY <2>3, <2>4
  <2>7. ASSUME NEW x \in Channels, l.scp.sid # 0, d.sess[x].sid = l.scp.sid
        PROVE  /\ x = l.nr /\ d.sess[x].on /\ d.sess[x].kind = l.scp.kind /\ d.sess[x].level = l.scp.level
               /\ l.scp.sid \notin b \cup Broken(w, l) => d.sess[x].chain = l.scp.chain /\ d.sess[x].ctr = l.scp.ctr
    BY <2>3, <2>5, <2>7
  <2> QED  BY <2>6, <2>7, Zenon DEF Owns, d
<1> QED  BY <1>3, <1>4
-----------------------------------------------------------------------------
(* The shell.                                                              *)

ChannelsInv ==
  /\ \A n \in DOMAIN lchan : lchan[n].nr = n /\ LchanShape(lchan[n])
  /\ stray = NoStray => cur \in DOMAIN lchan
  /\ stray # NoStray => LchanShape(stray) /\ stray.nr \notin card.open

OwnInv == \A l \in Lchans : Owns(card, broken, l)

\* The i-th chunk of total bytes, in chunks of most bytes.
Chunk(apdu, ins, total, most, i) ==
  /\ apdu.ins = ins /\ apdu.len = Least(most, total - (i - 1) * most)
  /\ apdu.block = (i - 1) % 256 /\ apdu.last = (i = Blocks(total, most)) /\ apdu.arg = <<total>>

\* An APDU of a command: a block of a load file, which the last one completes;
\* a key encrypted for the secure channel of the lchan.
IsBlock(apdu) ==
  \E size \in Caps : \E i \in 1..Blocks(LoadTotal(size), 240) : Chunk(apdu, "load", LoadTotal(size), 240, i)
KeyFits(cmd, scp, apdu) ==
  /\ apdu.ins = "load" => IsBlock(apdu)
  /\ apdu.ins = "put_key" => apdu.arg[1].dek = Dek(scp) /\ apdu.arg[1].key = apdu.arg[2]
  /\ apdu.ins = "close" => cmd = "close"
  /\ apdu.ins = "get_status" <=> cmd = "get_status"

\* An APDU the command under way has yet to send.  A session is established on
\* an lchan without a secure channel, and the second of its two APDUs is about
\* the session the card has begun.
Announced(apdu) ==
  \A x \in Channels : card.sess[x].sid = apdu.arg[3] => x = Held.nr /\ card.sess[x].kind = apdu.arg[1]
Meant(apdu) ==
  /\ KeyFits(job.cmd, Held.scp, apdu)
  /\ NamesAChannel(apdu) /\ NamesASession(apdu, card)
  /\ apdu.ins \in {"init_update", "ext_auth"} => Held.scp = NoScp /\ apdu.arg[1] # None
  /\ apdu.ins = "ext_auth" =>
       job.scp = [NoScp EXCEPT !.kind = apdu.arg[1], !.sid = apdu.arg[3]] /\ Announced(apdu)

JobInv ==
  job # Idle =>
    /\ job = [cmd |-> job.cmd, rest |-> job.rest, sent |-> job.sent, done |-> job.done,
              pages |-> job.pages, scp |-> job.scp]
    /\ job.rest # <<>>
    /\ \E S : /\ job.rest \in Seq(S) /\ \A apdu \in S : Meant(apdu)
              /\ Len(job.rest) = 1 \/ \A apdu \in S : apdu.ins \in Bulk

SessionsInv == CardShape(card) /\ OnePlace(card) /\ ChannelsInv /\ OwnInv
StepInv == SessionsInv /\ JobInv

LEMMA InStepFollows ==
  ASSUME SessionsInv
  PROVE  InStep
<1>1. SUFFICES ASSUME NEW l \in Lchans, card.sess[l.nr].on, card.sess[l.nr].sid = l.scp.sid,
                      card.sess[l.nr].sid \notin broken
               PROVE  card.sess[l.nr].chain = l.scp.chain /\ card.sess[l.nr].ctr = l.scp.ctr
  BY DEF InStep
<1>2. l.nr \in Channels
  BY DEF SessionsInv, ChannelsInv, Lchans, LchanShape
<1>3. l.scp.sid # 0
  BY <1>1, <1>2, ZenonT(40) DEF SessionsInv, OnePlace, SessionShape
<1> QED  BY <1>1, <1>2, <1>3 DEF SessionsInv, OwnInv, Owns

LEMMA HeldIsKnown ==
  ASSUME ChannelsInv
  PROVE  Held \in Lchans /\ LchanShape(Held) /\ (stray # NoStray => Held = stray)
<1>1. CASE stray = NoStray
  BY <1>1 DEF ChannelsInv, Held, Lchans
<1>2. CASE stray # NoStray
  BY <1>2 DEF ChannelsInv, Held, Lchans
<1> QED  BY <1>1, <1>2

\* The lchan the shell holds gets a new content.
LEMMA Holding ==
  ASSUME ChannelsInv, CardShape(card), NEW l, LchanShape(l), l.nr = Held.nr, WithHeld(l), UNCHANGED cur,
         stray # NoStray => stray.nr \notin card'.open
  PROVE  /\ ChannelsInv' /\ Held' = l
         /\ \A k \in Lchans' : k = l \/ (k \in Lchans /\ (k.nr # Held.nr \/ Held.nr # 0))
<1>1. CASE stray = NoStray
  <2>1. lchan' = [lchan EXCEPT ![cur] = l] /\ stray' = stray /\ cur' = cur /\ cur \in DOMAIN lchan
    BY <1>1 DEF WithHeld, ChannelsInv
  <2>2. Held = lchan[cur] /\ Held.nr = cur
    BY <1>1, <2>1 DEF Held, ChannelsInv
  <2>3. /\ DOMAIN lchan' = DOMAIN lchan /\ lchan'[cur] = l
        /\ \A n \in DOMAIN lchan : n # cur => lchan'[n] = lchan[n]
    BY <2>1
  <2>4. ChannelsInv'
    BY <1>1, <2>1, <2>2, <2>3 DEF ChannelsInv
  <2>5. Held' = l
    BY <1>1, <2>1, <2>3 DEF Held
  <2>6. ASSUME NEW k \in Lchans' PROVE k = l \/ (k \in Lchans /\ k.nr # Held.nr)
    <3>1. PICK n \in DOMAIN lchan : k = lchan'[n]
      BY <1>1, <2>1, <2>3 DEF Lchans
    <3> QED  BY <2>2, <2>3, <3>1 DEF Lchans, ChannelsInv
  <2> QED  BY <2>4, <2>5, <2>6
<1>2. CASE stray # NoStray
  <2>1. stray' = l /\ lchan' = lchan /\ Held = stray /\ Held.nr \notin card.open
    BY <1>2 DEF WithHeld, Held, ChannelsInv
  <2>2. Held.nr # 0 /\ l # NoStray
    BY <2>1 DEF CardShape, NoStray, NewLchan
  <2>3. ChannelsInv' /\ Held' = l
    BY <1>2, <2>1, <2>2 DEF ChannelsInv, Held
  <2>4. \A k \in Lchans' : k = l \/ k \in Lchans
    BY <2>1 DEF Lchans
  <2> QED  BY <2>2, <2>3, <2>4
<1> QED  BY <1>1, <1>2

\* What every exchange leaves the lchans in, unless it opens or closes one.
LEMMA HeldSteps ==
  ASSUME SessionsInv, NEW w, NEW apdu, NamesASession(apdu, card), NEW nr, Steps(card, card', w, apdu, nr),
         w.sid # 0 => w.ch = 0 /\ w.sid = Held.scp.sid, broken \subseteq broken',
         NEW l, LchanShape(l), l.nr = Held.nr, Owns(card', broken', l), WithHeld(l), UNCHANGED cur,
         stray # NoStray => stray.nr \notin card'.open
  PROVE  SessionsInv' /\ Held' = l
<1>1. CardShape(card') /\ OnePlace(card')
  BY StaysOnePlace DEF SessionsInv
<1>2. /\ ChannelsInv' /\ Held' = l
      /\ \A k \in Lchans' : k = l \/ (k \in Lchans /\ (k.nr # Held.nr \/ Held.nr # 0))
  BY Holding DEF SessionsInv
<1>3. ASSUME NEW k \in Lchans, k.nr # Held.nr \/ Held.nr # 0
      PROVE  Owns(card', broken', k)
  <2>1. Owns(card, broken, k) /\ Owns(card, broken, Held)
    BY HeldIsKnown DEF SessionsInv, OwnInv
  <2>2. ScpShape(k.scp)
    BY DEF SessionsInv, ChannelsInv, Lchans, LchanShape
  <2> QED  BY <1>3, <2>1, <2>2, OthersKeep DEF SessionsInv
<1>4. OwnInv'
  BY <1>2, <1>3 DEF OwnInv
<1> QED  BY <1>1, <1>2, <1>4 DEF SessionsInv

\* The next APDU and what the secure channel of the lchan makes of it.
Wraps(apdu, nr, w, l) ==
  /\ Meant(apdu)
  /\ w = Wrap(Held, nr, apdu)
  /\ l = [Held EXCEPT !.scp = w.scp]

LEMMA Wrapped ==
  ASSUME SessionsInv, NEW apdu, NEW nr, NEW w, NEW l, Wraps(apdu, nr, w, l)
  PROVE  /\ LchanShape(l) /\ l.nr = Held.nr /\ l.scp = w.scp /\ l.scp.sid = Held.scp.sid
         /\ LchanShape(Held) /\ Owns(card, broken, Held) /\ w.ok \in BOOLEAN
         /\ w.ok => /\ w.sid \in {0, Held.scp.sid}
                    /\ w.sid # 0 => w.ch = 0
         /\ Held.scp.kind = None \/ ~IsGp(apdu) => Bare(w, Held) /\ l = Held
         /\ Held.scp.kind # None /\ IsGp(apdu) => apdu.ins \notin Unsecured /\ (w.ok => Secured(w, Held.scp, nr))
<1>1. LchanShape(Held) /\ Owns(card, broken, Held)
  BY HeldIsKnown DEF SessionsInv, OwnInv
<1>2. l = [nr |-> Held.nr, sel |-> Held.sel, scp |-> w.scp]
  BY <1>1 DEF Wraps, LchanShape
<1>3. /\ SameSession(w.scp, Held.scp) /\ w.ok \in BOOLEAN
      /\ Held.scp.kind = None \/ ~IsGp(apdu) => Bare(w, Held)
      /\ Held.scp.kind # None /\ IsGp(apdu) /\ w.ok => Secured(w, Held.scp, nr)
  BY <1>1, Wrapping DEF Wraps
<1>4. LchanShape(l) /\ l.nr = Held.nr /\ l.scp = w.scp /\ l.scp.sid = Held.scp.sid
  BY <1>1, <1>2, <1>3 DEF LchanShape, SameSession
<1>5. Held.scp.kind # None /\ IsGp(apdu) => apdu.ins \notin Unsecured
  BY DEF Wraps, Meant, IsGp, Unsecured, NoScp
<1>6. Held.scp.kind = None \/ ~IsGp(apdu) => l = Held
  BY <1>1, <1>2, <1>3 DEF LchanShape, Bare
<1>7. w.ok => w.sid \in {0, Held.scp.sid} /\ (w.sid # 0 => w.ch = 0)
  BY <1>3 DEF Bare, Secured
<1> QED  BY <1>1, <1>3, <1>4, <1>5, <1>6, <1>7

\* The channel of a stray lchan stays closed.
LEMMA StrayStays ==
  ASSUME SessionsInv, stray # NoStray, NEW apdu, NEW nr, NEW w, NEW l, Wraps(apdu, nr, w, l), w.ok,
         NEW a, a = CardStep(card, w, apdu, nr)
  PROVE  stray.nr \notin a.card.open
<1>1. stray.nr \notin card.open /\ Held = stray /\ CardShape(card) /\ OnePlace(card)
  BY HeldIsKnown DEF SessionsInv, ChannelsInv
<1>2. CASE apdu.ins \in Unsecured
  <2>1. w.ch = stray.nr
    BY <1>1, <1>2, Wrapped DEF Bare
  <2>2. NamesAChannel(apdu)
    BY DEF Wraps, Meant
  <2> QED  BY <1>1, <1>2, <2>1, <2>2, Unsecuredly
<1>3. CASE apdu.ins \notin Unsecured
  BY <1>1, <1>3, Securedly
<1> QED  BY <1>2, <1>3

LEMMA CardSteps ==
  ASSUME SessionsInv, NEW apdu, Meant(apdu), NEW w, NEW nr, NEW a, a = CardStep(card, w, apdu, nr)
  PROVE  Steps(card, a.card, w, apdu, nr)
BY Unsecuredly, Securedly DEF SessionsInv, Meant

\* The wrapping failed, or the APDU never reached the card.
LEMMA LostKeeps ==
  ASSUME SessionsInv, NEW apdu, NEW nr, NEW w, NEW l, Wraps(apdu, nr, w, l), UNCHANGED <<card, cur>>,
         WithHeld(l), broken \subseteq broken', l = Held \/ l.scp.sid \in broken' \cup {0}
  PROVE  SessionsInv' /\ Held' = l
<1>1. /\ LchanShape(l) /\ l.nr = Held.nr /\ l.scp.sid = Held.scp.sid
      /\ LchanShape(Held) /\ Owns(card, broken, Held)
  BY Wrapped
<1>2. Owns(card', broken', l)
  <2>1. SameSession(l.scp, Held.scp)
    BY <1>1, Wrapping DEF Wraps, LchanShape
  <2> QED  BY <1>1, <2>1 DEF Owns, SameSession
<1>3. PICK v : v.sid = 0
  <2>1. NoScp.sid = 0
    BY DEF NoScp
  <2> QED  BY <2>1
<1>4. Steps(card, card', v, apdu, nr)
  BY NothingSteps DEF SessionsInv
<1>5. stray # NoStray => stray.nr \notin card'.open
  BY DEF SessionsInv, ChannelsInv
<1> QED  BY <1>1, <1>2, <1>3, <1>4, <1>5, HeldSteps DEF Wraps, Meant

\* The card has had the APDU.
LEMMA HadKeeps ==
  ASSUME SessionsInv, NEW apdu, NEW nr, NEW w, NEW l, Wraps(apdu, nr, w, l), w.ok,
         NEW a, a = CardStep(card, w, apdu, nr), card' = a.card, UNCHANGED cur,
         broken' = broken \cup Broken(w, l), NEW k, LchanShape(k), k.nr = l.nr, k.scp = l.scp, WithHeld(k)
  PROVE  SessionsInv' /\ Held' = k
<1>1. /\ l.nr = Held.nr /\ l.scp = w.scp /\ LchanShape(Held) /\ Owns(card, broken, Held)
      /\ w.sid # 0 => w.ch = 0 /\ w.sid = Held.scp.sid
      /\ Held.scp.kind # None /\ IsGp(apdu) => apdu.ins \notin Unsecured
  BY Wrapped
<1>2. Owns(a.card, broken \cup Broken(w, k), k)
  BY <1>1, SenderKeeps DEF SessionsInv, Wraps, Meant
<1>3. Broken(w, k) = Broken(w, l)
  BY DEF Broken
<1>4. Steps(card, card', w, apdu, nr)
  BY CardSteps DEF Wraps
<1>5. stray # NoStray => stray.nr \notin card'.open
  BY StrayStays
<1> QED  BY <1>1, <1>2, <1>3, <1>4, <1>5, HeldSteps DEF Wraps, Meant

\* EXTERNAL AUTHENTICATE succeeded: the lchan has the session both ends know.
LEMMA AuthenticatedKeeps ==
  ASSUME StepInv, NEW apdu, apdu.ins = "ext_auth", NEW nr, NEW w, NEW l, Wraps(apdu, nr, w, l), w.ok,
         NEW a, a = CardStep(card, w, apdu, nr), a.sw = "9000", card' = a.card, UNCHANGED cur,
         broken' = broken \cup Broken(w, l), WithHeld(HeldAfter(l, apdu, nr))
  PROVE  SessionsInv'
<1>1. Held.scp.kind = None /\ l = Held /\ w.ch = Held.nr /\ w.sid = 0 /\ Owns(card, broken, Held)
      /\ LchanShape(Held) /\ Held.nr \in Channels
  <2>1. Held.scp.kind = None
    BY DEF Wraps, Meant, NoScp
  <2> QED  BY <2>1, Wrapped DEF StepInv, Bare, LchanShape
<1> DEFINE sid == apdu.arg[3]
<1>2. /\ job.scp = [NoScp EXCEPT !.kind = apdu.arg[1], !.sid = sid] /\ sid \in 1..card.sids
      /\ \A x \in Channels : card.sess[x].sid = sid => x = Held.nr /\ card.sess[x].kind = apdu.arg[1]
  BY DEF Wraps, Meant, Announced, NamesASession
<1>3. Steps(card, a.card, w, apdu, nr) /\ Authenticates(card, a.card, w.ch, apdu, nr)
  <2>1. Tells(card, a.card, w, apdu, nr, a.sw)
    BY Unsecuredly DEF StepInv, SessionsInv, Wraps, Meant, Unsecured
  <2> QED  BY <2>1, CardSteps DEF Tells, StepInv, Wraps
<1>4. PICK scp : scp = [job.scp EXCEPT !.level = apdu.arg[2], !.chain = <<nr>>]
  OBVIOUS
<1>5. scp = [kind |-> apdu.arg[1], level |-> apdu.arg[2], sid |-> sid, chain |-> <<nr>>, ctr |-> 0]
  BY <1>2, <1>4 DEF NoScp
<1>6. PICK k : k = HeldAfter(l, apdu, nr)
  OBVIOUS
<1>7. k = [nr |-> Held.nr, sel |-> Held.sel, scp |-> scp]
  <2>1. k = [l EXCEPT !.scp = scp]
    BY <1>4, <1>6 DEF HeldAfter
  <2> QED  BY <1>1, <2>1 DEF LchanShape
<1>8. LchanShape(k) /\ k.nr = Held.nr /\ k.scp = scp /\ scp.sid = sid
  <2>1. ScpShape(scp)
    <3>1. sid \in Nat
      BY <1>2 DEF StepInv, SessionsInv, CardShape
    <3>2. apdu.arg[1] # None
      BY DEF Wraps, Meant
    <3> QED  BY <1>5, <3>1, <3>2 DEF ScpShape
  <2> QED  BY <1>1, <1>5, <1>7, <2>1 DEF LchanShape
<1>9. Owns(a.card, broken', k)
  <2> DEFINE s == card.sess[w.ch]
             t == a.card.sess[w.ch]
  <2>1. /\ OnePlace(a.card) /\ OnePlace(card) /\ card.sids \in Nat /\ a.card.sids \in Nat
        /\ a.card.sids >= card.sids
    <3>1. CardShape(card) /\ OnePlace(card) /\ OnePlace(a.card)
      BY <1>3, StaysOnePlace DEF StepInv, SessionsInv, Wraps, Meant
    <3> QED  BY <1>3, <3>1 DEF Steps, CardShape
  <2>2. s.sid = sid /\ ~s.on
    BY <1>3 DEF Authenticates
  <2>3. SessionShape(s) /\ w.ch \in Channels /\ s.kind = apdu.arg[1]
    BY <1>1, <1>2, <2>1, <2>2 DEF OnePlace
  <2>4. t = [kind |-> s.kind, level |-> apdu.arg[2], sid |-> sid, chain |-> <<nr>>, ctr |-> 0, on |-> TRUE]
    <3>1. s.ctr = 0
      BY <2>2, <2>3 DEF SessionShape
    <3>2. t = [kind |-> s.kind, level |-> apdu.arg[2], sid |-> s.sid, chain |-> <<nr>>, ctr |-> s.ctr, on |-> TRUE]
      BY <1>3, <2>3 DEF SessionShape, Authenticates
    <3> QED  BY <2>2, <3>1, <3>2
  <2>5. t.kind = apdu.arg[1] /\ t.level = apdu.arg[2] /\ t.sid = sid /\ t.chain = <<nr>> /\ t.ctr = 0 /\ t.on
    BY <2>3, <2>4
  <2>6. /\ scp.kind = apdu.arg[1] /\ scp.level = apdu.arg[2] /\ scp.chain = <<nr>> /\ scp.ctr = 0
    BY <1>5
  <2>7. \A x \in Channels : a.card.sess[x].sid = sid /\ sid # 0 => x = w.ch
    BY <2>1, <2>3, <2>5 DEF OnePlace
  <2>8. sid <= a.card.sids
    BY <1>2, <2>1
  <2> QED  BY <1>1, <1>8, <2>5, <2>6, <2>7, <2>8, SMTT(30) DEF Owns
<1>10. stray # NoStray => stray.nr \notin card'.open
  BY StrayStays DEF StepInv
<1>11. broken \subseteq broken'
  OBVIOUS
<1>12. NamesASession(apdu, card)
  BY DEF Wraps, Meant
<1> QED  BY <1>1, <1>3, <1>6, <1>8, <1>9, <1>10, <1>11, <1>12, HeldSteps DEF StepInv

\* The runtime learns of a channel the card has opened.
LEMMA OpenedKeeps ==
  ASSUME SessionsInv, NEW apdu, apdu.ins = "open", NEW nr, NEW w, NEW l, Wraps(apdu, nr, w, l), w.ok,
         NEW a, a = CardStep(card, w, apdu, nr), a.sw = "9000", card' = a.card, UNCHANGED <<cur, stray>>,
         broken' = broken \cup Broken(w, l), apdu.arg[1] \notin DOMAIN lchan,
         NEW sel, lchan' = [n \in DOMAIN lchan \cup {apdu.arg[1]} |->
                              IF n \in DOMAIN lchan THEN lchan[n] ELSE NewLchan(n, sel)]
  PROVE  SessionsInv'
<1> DEFINE n == apdu.arg[1]
<1>1. n \in Channels \ {0}
  BY DEF Wraps, Meant, NamesAChannel
<1>2. w.sid = 0 /\ l.nr = Held.nr /\ LchanShape(Held) /\ Owns(card, broken, Held)
  BY Wrapped DEF Bare, IsGp
<1>3. Steps(card, a.card, w, apdu, nr) /\ CardShape(a.card) /\ OnePlace(a.card)
  BY CardSteps, StaysOnePlace DEF SessionsInv, Wraps, Meant
<1>4. stray # NoStray => stray.nr \notin card'.open
  BY StrayStays
<1>5. PICK new : new = NewLchan(n, sel)
  OBVIOUS
<1>6. /\ DOMAIN lchan' = DOMAIN lchan \cup {n} /\ lchan'[n] = new
      /\ \A m \in DOMAIN lchan : lchan'[m] = lchan[m]
  BY <1>5
<1>7. new.nr = n /\ LchanShape(new) /\ new.scp.sid = 0
  BY <1>1, <1>5 DEF NewLchan, LchanShape, ScpShape, NoScp
<1>8. ChannelsInv'
  BY <1>4, <1>6, <1>7 DEF ChannelsInv, SessionsInv
<1>9. ASSUME NEW k \in Lchans' PROVE Owns(card', broken', k)
  <2>1. k = new \/ k \in Lchans
    BY <1>6, <1>9 DEF Lchans
  <2>2. CASE k = new
    BY <1>3, <1>7, <2>2 DEF Owns, CardShape
  <2>3. CASE k \in Lchans
    <3>1. ScpShape(k.scp) /\ Owns(card, broken, k)
      BY <2>3 DEF SessionsInv, ChannelsInv, OwnInv, Lchans, LchanShape
    <3> QED  BY <1>2, <1>3, <3>1, OthersKeep DEF SessionsInv
  <2> QED  BY <2>1, <2>2, <2>3
<1> QED  BY <1>3, <1>8, <1>9 DEF SessionsInv, OwnInv

\* The runtime forgets a channel the card has closed.
LEMMA ClosedKeeps ==
  ASSUME SessionsInv, NEW apdu, apdu.ins = "close", NEW nr, NEW w, NEW l, Wraps(apdu, nr, w, l), w.ok,
         NEW a, a = CardStep(card, w, apdu, nr), a.sw = "9000", card' = a.card, UNCHANGED cur,
         broken' = broken \cup Broken(w, l),
         ChannelsAfter(l, apdu)
  PROVE  SessionsInv'
<1> DEFINE n == apdu.arg[1]
<1>1. n \in Channels \ {0}
  BY DEF Wraps, Meant, NamesAChannel
<1>2. w.sid = 0 /\ l = Held /\ LchanShape(Held) /\ Owns(card, broken, Held)
  <2>1. ~IsGp(apdu)
    BY DEF IsGp
  <2>2. l = Held
    BY <2>1, Wrapped
  <2>3. Bare(w, Held) /\ LchanShape(Held) /\ Owns(card, broken, Held)
    BY <2>1, Wrapped
  <2> QED  BY <2>2, <2>3 DEF Bare
<1>3. Steps(card, a.card, w, apdu, nr) /\ CardShape(a.card) /\ OnePlace(a.card)
  BY CardSteps, StaysOnePlace DEF SessionsInv, Wraps, Meant
<1>4. n \notin a.card.open
  <2>1. Tells(card, a.card, w, apdu, nr, a.sw)
    BY Unsecuredly DEF SessionsInv, Wraps, Meant, Unsecured
  <2> QED  BY <2>1 DEF Tells
<1>5. stray # NoStray => stray.nr \notin card'.open
  BY StrayStays
<1>6. stray = NoStray => Held.nr = cur /\ Held \in Lchans
  BY HeldIsKnown DEF Held, SessionsInv, ChannelsInv
<1>7. /\ DOMAIN lchan' = DOMAIN lchan \ {n} /\ \A m \in DOMAIN lchan' : lchan'[m] = lchan[m]
      /\ stray' = IF stray = NoStray /\ cur = n THEN l ELSE stray
  BY DEF ChannelsAfter
<1>8. ChannelsInv'
  <2>1. CASE stray = NoStray /\ cur = n
    <3>1. stray' = Held /\ Held.nr = n /\ Held # NoStray
      BY <1>1, <1>2, <1>6, <1>7, <2>1 DEF NoStray, NewLchan
    <3> QED  BY <1>2, <1>4, <1>7, <3>1 DEF ChannelsInv, SessionsInv
  <2>2. CASE ~(stray = NoStray /\ cur = n)
    BY <1>5, <1>7, <2>2 DEF ChannelsInv, SessionsInv
  <2> QED  BY <2>1, <2>2
<1>9. ASSUME NEW k \in Lchans' PROVE Owns(card', broken', k)
  <2>1. k \in Lchans
    BY <1>2, <1>6, <1>9, <1>7 DEF Lchans
  <2>2. ScpShape(k.scp) /\ Owns(card, broken, k)
    BY <2>1 DEF SessionsInv, ChannelsInv, OwnInv, Lchans, LchanShape
  <2> QED  BY <1>2, <1>3, <2>2, OthersKeep DEF SessionsInv
<1> QED  BY <1>3, <1>8, <1>9 DEF SessionsInv, OwnInv

\* What may come of sending an APDU.
Raised == \E j : End(j, "raised")
Lost(l) ==
  UNCHANGED card /\ WithHeld(l) /\ broken \subseteq broken' /\ (l = Held \/ l.scp.sid \in broken' \cup {0})
Had(w, l, a) == w.ok /\ card' = a.card /\ broken' = broken \cup Broken(w, l)
Returns(w, apdu, nr, l, a) ==
  /\ ~UnwrapRaises(l.scp, apdu, Seen(a.sw)) /\ Accepted(apdu, Seen(a.sw))
  /\ apdu.ins = "open" => apdu.arg[1] \notin DOMAIN lchan
  /\ ChannelsAfter(HeldAfter(l, apdu, nr), apdu)
Carried(w, l, a) == a.sw \in {"9000", "6310"} /\ w.ch = l.nr
Added(w, l, a) == [job EXCEPT !.sent = @ + 1, !.done = IF Carried(w, l, a) THEN @ + 1 ELSE @]
GoesOn(w, apdu, l, a) ==
  LET j == Added(w, l, a)
      p == [j EXCEPT !.pages = IF a.sw \in {"9000", "6310"} THEN @ + 1 ELSE @]
  IN IF apdu.ins = "init_update" THEN Authenticate(j, apdu, a.card.sess[w.ch].sid)
     ELSE IF apdu.ins # "get_status" THEN GoOrEnd(j)
     ELSE IF Seen(a.sw) = "6310" THEN job' = [p EXCEPT !.rest = <<GetStatus(3)>>] /\ UNCHANGED ended
     ELSE End(p, "ok")

SentWith(apdu, nr, w, l, a) ==
  /\ Wraps(apdu, nr, w, l) /\ a = CardStep(card, w, apdu, nr) /\ UNCHANGED cur
  /\ \/ Lost(l) /\ Raised
     \/ Had(w, l, a) /\ WithHeld(l) /\ Raised
     \/ Had(w, l, a) /\ Returns(w, apdu, nr, l, a) /\ GoesOn(w, apdu, l, a)

LEMMA Exchanges ==
  ASSUME StepInv, Exchange
  PROVE  \E nr, w, l, a : SentWith(Head(job.rest), nr, w, l, a)
<1>1. PICK apdu, nr, w, l, a :
        /\ apdu = Head(job.rest) /\ nr = apdus + 1 /\ w = Wrap(Held, nr, apdu)
        /\ l = [Held EXCEPT !.scp = w.scp] /\ a = CardStep(card, w, apdu, nr)
  OBVIOUS
<1>2. Wraps(apdu, nr, w, l)
  <2>1. PICK S : job.rest \in Seq(S) /\ \A x \in S : Meant(x)
    BY DEF StepInv, JobInv, Exchange
  <2>2. apdu \in S
    BY <1>1, <2>1 DEF StepInv, JobInv, Exchange
  <2> QED  BY <1>1, <2>1, <2>2 DEF Wraps
<1>3. UNCHANGED cur
  BY DEF Exchange
<1>4. CASE ~w.ok
  <2>1. /\ End([job EXCEPT !.sent = @ + 1], "raised") /\ WithHeld(l) /\ UNCHANGED card
        /\ broken' = IF l = Held THEN broken ELSE broken \cup {l.scp.sid}
    BY <1>1, <1>4 DEF Exchange
  <2>2. Lost(l) /\ Raised
    BY <2>1 DEF Lost, Raised
  <2> QED  BY <1>1, <1>2, <1>3, <2>2 DEF SentWith
<1>5. CASE w.ok /\ Answered(w, apdu, nr, l, a) /\ broken' = broken \cup Broken(w, l)
  <2>1. Had(w, l, a)
    BY <1>5 DEF Had, Answered
  <2> DEFINE raises == \/ UnwrapRaises(l.scp, apdu, Seen(a.sw)) \/ ~Accepted(apdu, Seen(a.sw))
                       \/ apdu.ins = "open" /\ apdu.arg[1] \in DOMAIN lchan
  <2>2. CASE raises
    <3>1. WithHeld(l) /\ Raised
      BY <1>5, <2>2 DEF Answered, Raised
    <3> QED  BY <1>1, <1>2, <1>3, <2>1, <3>1 DEF SentWith
  <2>3. CASE ~raises
    <3>1. Returns(w, apdu, nr, l, a)
      BY <1>5, <2>3 DEF Answered, Returns
    <3>2. GoesOn(w, apdu, l, a)
      BY <1>5, <2>3 DEF Answered, GoesOn, Added, Carried
    <3> QED  BY <1>1, <1>2, <1>3, <2>1, <3>1, <3>2 DEF SentWith
  <2> QED  BY <2>2, <2>3
<1>6. CASE /\ w.ok /\ End([job EXCEPT !.sent = @ + 1], "raised") /\ WithHeld(l)
           /\ UNCHANGED card /\ broken' = broken \cup ({w.sid} \ {0})
  <2>1. l = Held \/ w.sid = l.scp.sid
    <3>1. CASE Held.scp.kind = None \/ ~IsGp(apdu)
      BY <1>2, <3>1, Wrapped DEF StepInv
    <3>2. CASE Held.scp.kind # None /\ IsGp(apdu)
      BY <1>2, <1>6, <3>2, Wrapped DEF StepInv, Secured
    <3> QED  BY <3>1, <3>2
  <2>2. Lost(l) /\ Raised
    BY <1>6, <2>1 DEF Lost, Raised
  <2> QED  BY <1>1, <1>2, <1>3, <2>2 DEF SentWith
<1>7. CASE w.ok /\ End([job EXCEPT !.sent = @ + 1], "raised") /\ WithHeld(l)
           /\ card' = a.card /\ broken' = broken \cup Broken(w, l)
  BY <1>1, <1>2, <1>3, <1>7 DEF SentWith, Had, Raised
<1> QED  BY <1>1, <1>4, <1>5, <1>6, <1>7 DEF Exchange

LEMMA ReturnKeeps ==
  ASSUME StepInv, NEW apdu, NEW nr, NEW w, NEW l, NEW a, Wraps(apdu, nr, w, l),
         a = CardStep(card, w, apdu, nr), UNCHANGED cur, Had(w, l, a), Returns(w, apdu, nr, l, a)
  PROVE  SessionsInv'
<1>1. w.ok /\ card' = a.card /\ broken' = broken \cup Broken(w, l)
  BY DEF Had
<1>2. LchanShape(l)
  BY Wrapped DEF StepInv
<1>3. apdu.ins # "get_status" => a.sw = "9000"
  BY DEF Returns, Accepted, Seen
<1>4. CASE apdu.ins = "ext_auth"
  <2>1. WithHeld(HeldAfter(l, apdu, nr))
    BY <1>4 DEF Returns, ChannelsAfter
  <2> QED  BY <1>1, <1>3, <1>4, <2>1, AuthenticatedKeeps
<1>5. CASE apdu.ins = "select"
  <2>1. PICK k : k = [l EXCEPT !.sel = apdu.arg[1]]
    OBVIOUS
  <2>2. k = [nr |-> l.nr, sel |-> apdu.arg[1], scp |-> l.scp]
    BY <1>2, <2>1 DEF LchanShape
  <2>3. LchanShape(k) /\ k.nr = l.nr /\ k.scp = l.scp
    BY <1>2, <2>2 DEF LchanShape
  <2>4. WithHeld(k)
    BY <1>5, <2>1 DEF Returns, ChannelsAfter, HeldAfter
  <2> QED  BY <1>1, <2>3, <2>4, HadKeeps DEF StepInv
<1>6. CASE apdu.ins = "open"
  <2>1. PICK sel : sel = IF l.nr = 0 THEN "MF" ELSE l.sel
    OBVIOUS
  <2>2. /\ apdu.arg[1] \notin DOMAIN lchan /\ UNCHANGED stray
        /\ lchan' = [n \in DOMAIN lchan \cup {apdu.arg[1]} |->
                       IF n \in DOMAIN lchan THEN lchan[n] ELSE NewLchan(n, sel)]
    BY <1>6, <2>1 DEF Returns, ChannelsAfter, HeldAfter
  <2> QED  BY <1>1, <1>3, <1>6, <2>2, OpenedKeeps DEF StepInv
<1>7. CASE apdu.ins = "close"
  <2>1. ChannelsAfter(l, apdu)
    BY <1>7 DEF Returns, HeldAfter
  <2> QED  BY <1>1, <1>3, <1>7, <2>1, ClosedKeeps DEF StepInv
<1>8. CASE apdu.ins \notin {"ext_auth", "select", "open", "close"}
  <2>1. WithHeld(l)
    BY <1>8 DEF Returns, ChannelsAfter, HeldAfter
  <2> QED  BY <1>1, <1>2, <2>1, HadKeeps DEF StepInv
<1> QED  BY <1>4, <1>5, <1>6, <1>7, <1>8

LEMMA OutcomeKeeps ==
  ASSUME StepInv, NEW apdu, NEW nr, NEW w, NEW l, NEW a, SentWith(apdu, nr, w, l, a)
  PROVE  SessionsInv'
<1>1. Wraps(apdu, nr, w, l) /\ a = CardStep(card, w, apdu, nr) /\ UNCHANGED cur
  BY DEF SentWith
<1>2. CASE Lost(l)
  BY <1>1, <1>2, LostKeeps DEF Lost, StepInv
<1>3. CASE Had(w, l, a) /\ WithHeld(l)
  <2>1. LchanShape(l)
    BY <1>1, Wrapped DEF StepInv
  <2> QED  BY <1>1, <1>3, <2>1, HadKeeps DEF Had, StepInv
<1>4. CASE Had(w, l, a) /\ Returns(w, apdu, nr, l, a)
  BY <1>1, <1>4, ReturnKeeps
<1> QED  BY <1>2, <1>3, <1>4 DEF SentWith
-----------------------------------------------------------------------------
(* The commands.                                                           *)

LEMMA BlocksAreSome ==
  ASSUME NEW total \in Nat \ {0}, NEW most \in {239, 240, 247, 255}
  PROVE  Blocks(total, most) \in Nat \ {0}
BY DEF Blocks

LEMMA Function1IsSeq ==
  ASSUME NEW b \in Nat \ {0}, NEW S, NEW f \in [1..b -> S]
  PROVE  f \in Seq(S) /\ f # <<>> /\ Len(f) = b
<1>1. f \in Seq(S)
  BY SeqDef
<1>2. DOMAIN f = 1..b /\ DOMAIN f = 1..Len(f) /\ Len(f) \in Nat
  BY <1>1, LenProperties
<1>3. Len(f) = b
  BY <1>2
<1> QED  BY <1>1, <1>3

\* A chunk's APDU is built field by field.
LEMMA SetApdu ==
  ASSUME NEW ins, NEW len, NEW block, NEW last, NEW arg
  PROVE  LET apdu == [Apdu(ins, 4, len) EXCEPT !.block = block, !.last = last, !.arg = arg]
         IN  apdu.ins = ins /\ apdu.len = len /\ apdu.block = block /\ apdu.last = last /\ apdu.arg = arg
BY DEF Apdu

AreChunks(S, ins, total, most) ==
  \A apdu \in S : \E i \in 1..Blocks(total, most) : Chunk(apdu, ins, total, most, i)

LEMMA Chunked ==
  ASSUME NEW ins, NEW total \in Nat \ {0}, NEW most \in {239, 240, 247, 255}
  PROVE  \E S : /\ Chunks(ins, total, most) \in Seq(S) /\ Chunks(ins, total, most) # <<>>
                /\ AreChunks(S, ins, total, most)
<1> DEFINE b == Blocks(total, most)
<1>1. PICK f : f = Chunks(ins, total, most)
  OBVIOUS
<1>2. f = [i \in 1..b |-> f[i]]
  BY <1>1 DEF Chunks
<1>3. ASSUME NEW i \in 1..b PROVE Chunk(f[i], ins, total, most, i)
  <2>1. f[i] = [Apdu(ins, 4, Least(most, total - (i - 1) * most)) EXCEPT
                  !.block = (i - 1) % 256, !.last = (i = b), !.arg = <<total>>]
    BY <1>1 DEF Chunks
  <2> QED  BY <2>1, SetApdu DEF Chunk
<1>4. PICK S : S = {f[i] : i \in 1..b}
  OBVIOUS
<1>5. f \in [1..b -> S] /\ b \in Nat \ {0}
  <2>1. \A i \in 1..b : f[i] \in S
    BY <1>4
  <2> HIDE DEF b
  <2>2. f \in [1..b -> S]
    BY <1>2, <2>1
  <2>3. b \in Nat \ {0}
    BY BlocksAreSome DEF b
  <2> QED  BY <2>2, <2>3
<1>6. f \in Seq(S) /\ f # <<>>
  BY <1>5, Function1IsSeq
<1>7. AreChunks(S, ins, total, most)
  BY <1>3, <1>4 DEF AreChunks
<1> QED  BY <1>1, <1>6, <1>7

\* What a command may begin with.
Fresh(cmd, apdu) ==
  /\ KeyFits(cmd, Held.scp, apdu)
  /\ NamesAChannel(apdu) /\ apdu.ins # "ext_auth"
  /\ apdu.ins = "init_update" => Held.scp = NoScp /\ apdu.arg[1] # None

\* A command sends one APDU, or chunks.
Begun(cmd, list) ==
  /\ Start(cmd, list) /\ list # <<>> /\ (cmd = "get_status" => list = <<GetStatus(2)>>)
  /\ \E S : /\ list \in Seq(S) /\ \A apdu \in S : Fresh(cmd, apdu)
            /\ Len(list) = 1 \/ \A apdu \in S : apdu.ins \in Bulk

LEMMA BegunKeeps ==
  ASSUME StepInv, NEW cmd, NEW list, Begun(cmd, list)
  PROVE  StepInv'
<1>1. UNCHANGED <<lchan, cur, stray, card, broken>>
  BY DEF Begun, Start
<1>2. SessionsInv'
  BY <1>1 DEF StepInv, SessionsInv, ChannelsInv, OwnInv, Lchans
<1>3. job' = [cmd |-> cmd, rest |-> list, sent |-> 0, done |-> 0, pages |-> 0, scp |-> NoScp]
  BY DEF Begun, Start, Idle
<1>4. ASSUME NEW apdu, Fresh(cmd, apdu) PROVE Meant(apdu)'
  <2>1. Held' = Held
    BY <1>1 DEF Held
  <2> QED  BY <1>1, <1>3, <1>4, <2>1 DEF Meant, Fresh, NamesASession
<1>5. JobInv'
  BY <1>3, <1>4 DEF JobInv, Begun
<1> QED  BY <1>2, <1>5 DEF StepInv

LEMMA OneBegins ==
  ASSUME NEW cmd, NEW apdu, Start(cmd, <<apdu>>), Fresh(cmd, apdu), cmd = "get_status" => apdu = GetStatus(2)
  PROVE  \E list : Begun(cmd, list)
<1>1. <<apdu>> \in Seq({apdu}) /\ Len(<<apdu>>) = 1 /\ <<apdu>> # <<>> /\ \A x \in {apdu} : Fresh(cmd, x)
  OBVIOUS
<1>2. PICK list, S : list = <<apdu>> /\ S = {apdu}
  OBVIOUS
<1>3. Start(cmd, list) /\ list \in Seq(S) /\ Len(list) = 1 /\ list # <<>> /\ \A x \in S : Fresh(cmd, x)
  BY <1>1, <1>2
<1> QED  BY <1>2, <1>3 DEF Begun

LEMMA BulkBegins ==
  ASSUME NEW cmd, cmd # "get_status", NEW list, Start(cmd, list), list # <<>>,
         NEW S, list \in Seq(S), \A apdu \in S : apdu.ins \in Bulk /\ (apdu.ins = "load" => IsBlock(apdu))
  PROVE  Begun(cmd, list)
BY DEF Begun, Fresh, KeyFits, Bulk, NamesAChannel

LEMMA LoadIsLong == ASSUME NEW size \in Caps PROVE LoadTotal(size) \in Nat \ {0}
BY GpAssumption DEF LoadTotal

LEMMA MaxCmdLenIs == \A scp : MaxCmdLen(scp) \in {239, 240, 247, 255}
BY GpAssumption DEF MaxCmdLen

LEMMA LoadsOf ==
  ASSUME NEW size \in Caps
  PROVE  \E S : Load(size) \in Seq(S) /\ Load(size) # <<>> /\ AreChunks(S, "load", LoadTotal(size), 240)
<1>1. PICK total \in Nat \ {0}, most \in {239, 240, 247, 255} : total = LoadTotal(size) /\ most = 240
  BY LoadIsLong
<1>2. Load(size) = Chunks("load", total, most)
  BY <1>1 DEF Load
<1> QED  BY <1>1, <1>2, Chunked

LEMMA InstallsOf ==
  ASSUME NEW size \in Caps
  PROVE  \E S : /\ InstallCap(size) \in Seq(S) /\ InstallCap(size) # <<>>
                /\ AreChunks(S \ {InstallForLoad(size), InstallForInstall(size)}, "load", LoadTotal(size), 240)
<1>1. PICK S : Load(size) \in Seq(S) /\ AreChunks(S, "load", LoadTotal(size), 240)
  BY LoadsOf
<1>2. PICK x, y, f : x = InstallForLoad(size) /\ y = InstallForInstall(size) /\ f = Load(size)
  OBVIOUS
<1>3. PICK T : T = S \cup {x, y}
  OBVIOUS
<1>4. f \in Seq(T) /\ <<x>> \in Seq(T) /\ <<y>> \in Seq(T) /\ Len(<<x>>) = 1 /\ Len(<<y>>) = 1
  BY <1>1, <1>2, <1>3, SeqMonotonic
<1>5. <<x>> \o f \in Seq(T) /\ Len(<<x>> \o f) = 1 + Len(f) /\ Len(f) \in Nat
  BY <1>4, ConcatProperties, LenProperties
<1>6. (<<x>> \o f) \o <<y>> \in Seq(T) /\ Len((<<x>> \o f) \o <<y>>) = (1 + Len(f)) + 1
  BY <1>4, <1>5, ConcatProperties
<1>7. (<<x>> \o f) \o <<y>> # <<>>
  BY <1>5, <1>6
<1>8. AreChunks(T \ {x, y}, "load", LoadTotal(size), 240)
  BY <1>1, <1>3 DEF AreChunks
<1> QED  BY <1>2, <1>6, <1>7, <1>8 DEF InstallCap

\* Every command begins with APDUs that may be sent.
LEMMA CommandBegins ==
  ASSUME StepInv, \/ Establish \/ Manage \/ DoLoad \/ DoInstallCap \/ DoStoreData \/ DoPutKey \/ DoGetStatus
                  \/ DoSelect \/ DoOpenChannel \/ DoCloseChannel
  PROVE  \E cmd, list : Begun(cmd, list)
<1>1. CASE Establish
  <2>1. PICK kind \in Kinds, level \in Levels, kvn \in Kvns :
          Start("establish", <<[Apdu("init_update", 4, 8) EXCEPT !.arg = <<kind, kvn, level>>]>>)
    BY <1>1 DEF Establish
  <2>2. PICK apdu : apdu = [Apdu("init_update", 4, 8) EXCEPT !.arg = <<kind, kvn, level>>]
    OBVIOUS
  <2>3. apdu.ins = "init_update" /\ apdu.arg[1] = kind
    BY <2>2 DEF Apdu
  <2>4. Held.scp = NoScp
    BY <1>1, HeldIsKnown DEF Establish, StepInv, SessionsInv, LchanShape, ScpShape
  <2>5. Fresh("establish", apdu)
    BY <2>3, <2>4, GpAssumption DEF Fresh, KeyFits, NamesAChannel, None
  <2> QED  BY <2>1, <2>2, <2>5, OneBegins
<1>2. CASE Manage
  <2>1. PICK cmd, ins, case, len :
          /\ ins \in {"set_status", "delete", "get_data"} /\ cmd = ins
          /\ Start(cmd, <<Apdu(ins, case, len)>>)
    BY <1>2 DEF Manage
  <2>2. Fresh(cmd, Apdu(ins, case, len))
    BY <2>1 DEF Fresh, KeyFits, NamesAChannel, Apdu
  <2> QED  BY <2>1, <2>2, OneBegins
<1>3. CASE DoLoad
  <2>1. PICK size \in Caps : Start("load", Load(size))
    BY <1>3 DEF DoLoad
  <2>2. PICK S : Load(size) \in Seq(S) /\ Load(size) # <<>> /\ \A apdu \in S : apdu.ins = "load" /\ IsBlock(apdu)
    BY LoadsOf DEF AreChunks, Chunk, IsBlock
  <2> QED  BY <2>1, <2>2, BulkBegins DEF Bulk
<1>4. CASE DoInstallCap
  <2>1. PICK size \in Caps : Start("install_cap", InstallCap(size))
    BY <1>4 DEF DoInstallCap
  <2>2. InstallForLoad(size).ins = "install_load" /\ InstallForInstall(size).ins = "install_install"
    BY DEF InstallForLoad, InstallForInstall, Apdu
  <2>3. PICK S : /\ InstallCap(size) \in Seq(S) /\ InstallCap(size) # <<>>
                 /\ \A apdu \in S : apdu.ins \in Bulk /\ (apdu.ins = "load" => IsBlock(apdu))
    BY <2>2, InstallsOf DEF AreChunks, Chunk, IsBlock, Bulk
  <2> QED  BY <2>1, <2>3, BulkBegins
<1>5. CASE DoStoreData
  <2>1. PICK size \in Stores, most \in {239, 240, 247, 255} : Start("store_data", Chunks("store_data", size, most))
    BY <1>5, MaxCmdLenIs DEF DoStoreData
  <2>2. PICK S : /\ Chunks("store_data", size, most) \in Seq(S) /\ Chunks("store_data", size, most) # <<>>
                 /\ \A apdu \in S : apdu.ins = "store_data"
    <3>1. size \in Nat \ {0}
      BY GpAssumption
    <3>2. PICK S : /\ Chunks("store_data", size, most) \in Seq(S) /\ Chunks("store_data", size, most) # <<>>
                   /\ AreChunks(S, "store_data", size, most)
      BY <3>1, Chunked, SMTT(30)
    <3> QED  BY <3>2 DEF AreChunks, Chunk
  <2> QED  BY <2>1, <2>2, BulkBegins DEF Bulk
<1>6. CASE DoPutKey
  <2>1. PICK len \in KeyLens : Start("put_key", <<PutKey(Held.scp, len)>>)
    BY <1>6 DEF DoPutKey
  <2>2. PICK apdu : apdu = PutKey(Held.scp, len)
    OBVIOUS
  <2>3. apdu.ins = "put_key" /\ apdu.arg = <<KeyBlock(Held.scp, len), len>>
    BY <2>2 DEF PutKey, Apdu
  <2>4. apdu.arg[1].dek = Dek(Held.scp) /\ apdu.arg[1].key = apdu.arg[2]
    BY <2>3 DEF KeyBlock
  <2>5. Fresh("put_key", apdu)
    BY <2>3, <2>4 DEF Fresh, KeyFits, NamesAChannel
  <2> QED  BY <2>1, <2>2, <2>5, OneBegins
<1>7. CASE DoGetStatus
  <2>1. GetStatus(2).ins = "get_status"
    BY DEF GetStatus, Apdu
  <2>2. Fresh("get_status", GetStatus(2))
    BY <2>1 DEF Fresh, KeyFits, NamesAChannel
  <2> QED  BY <1>7, <2>2, OneBegins DEF DoGetStatus
<1>8. CASE DoSelect
  <2>1. PICK sel, apdu : apdu = [Apdu("select", 4, 7) EXCEPT !.arg = <<sel>>] /\ Start("select", <<apdu>>)
    BY <1>8 DEF DoSelect
  <2>2. apdu.ins = "select"
    BY <2>1 DEF Apdu
  <2>3. Fresh("select", apdu)
    BY <2>2 DEF Fresh, KeyFits, NamesAChannel
  <2> QED  BY <2>1, <2>3, OneBegins
<1>9. CASE DoOpenChannel \/ DoCloseChannel
  <2>1. PICK n \in Channels \ {0}, ins \in {"open", "close"} :
          Start(ins, <<[Apdu(ins, 1, 0) EXCEPT !.arg = <<n>>]>>)
    BY <1>9 DEF DoOpenChannel, DoCloseChannel
  <2>2. PICK apdu : apdu = [Apdu(ins, 1, 0) EXCEPT !.arg = <<n>>]
    OBVIOUS
  <2>3. apdu.ins = ins /\ apdu.arg[1] = n
    BY <2>2 DEF Apdu
  <2>4. Fresh(ins, apdu)
    BY <2>1, <2>3 DEF Fresh, KeyFits, NamesAChannel
  <2> QED  BY <2>1, <2>2, <2>4, OneBegins
<1> QED  BY <1>1, <1>2, <1>3, <1>4, <1>5, <1>6, <1>7, <1>8, <1>9

LEMMA ReleaseKeeps ==
  ASSUME StepInv, DoReleaseScp
  PROVE  StepInv'
<1>1. PICK k : k = [Held EXCEPT !.scp = NoScp]
  OBVIOUS
<1>2. LchanShape(Held) /\ SessionsInv
  BY HeldIsKnown DEF StepInv, SessionsInv
<1>3. k = [nr |-> Held.nr, sel |-> Held.sel, scp |-> NoScp]
  BY <1>1, <1>2 DEF LchanShape
<1>4. LchanShape(k) /\ k.nr = Held.nr /\ k.scp = NoScp
  BY <1>2, <1>3 DEF LchanShape, ScpShape, NoScp
<1>5. Owns(card', broken', k)
  BY <1>2, <1>4 DEF Owns, NoScp, DoReleaseScp, SessionsInv, CardShape
<1>6. PICK apdu, v : apdu.ins = "get_status" /\ v.sid = 0
  <2>1. Apdu("get_status", 4, 10).ins = "get_status" /\ NoScp.sid = 0
    BY DEF Apdu, NoScp
  <2> QED  BY <2>1
<1>7. Steps(card, card', v, apdu, 0) /\ NamesASession(apdu, card)
  BY <1>2, <1>6, NothingSteps DEF DoReleaseScp, SessionsInv, NamesASession
<1>8. SessionsInv'
  BY <1>1, <1>2, <1>4, <1>5, <1>6, <1>7, HeldSteps DEF DoReleaseScp, SessionsInv, ChannelsInv
<1> QED  BY <1>8 DEF StepInv, JobInv, DoReleaseScp

LEMMA SwitchKeeps ==
  ASSUME StepInv, DoSwitchChannel
  PROVE  StepInv'
<1>1. SessionsInv'
  BY DEF StepInv, SessionsInv, ChannelsInv, OwnInv, Lchans, DoSwitchChannel
<1> QED  BY <1>1 DEF StepInv, JobInv, DoSwitchChannel

LEMMA ResetKeeps ==
  ASSUME StepInv, DoReset
  PROVE  StepInv'
<1>1. CardShape(card) /\ OnePlace(card) /\ 0 \in Channels
  BY GpAssumption DEF StepInv, SessionsInv
<1>2. PICK sel, sess, d : /\ sel = [c \in Channels |-> "MF"] /\ sess = [c \in Channels |-> NoSession]
                          /\ d = [card EXCEPT !.open = {0}, !.sel = sel, !.page = 0, !.sess = sess, !.load = NoLoad]
  OBVIOUS
<1>3. card' = d
  BY <1>2 DEF DoReset
<1>4. d = [open |-> {0}, sel |-> sel, sess |-> sess, sids |-> card.sids, key |-> card.key,
           load |-> NoLoad, caps |-> card.caps, page |-> 0]
  BY <1>1, <1>2 DEF CardShape
<1>5. CardShape(d)
  <2>1. /\ d.open = {0} /\ d.sess = sess /\ d.sids = card.sids
        /\ d = [open |-> d.open, sel |-> d.sel, sess |-> d.sess, sids |-> d.sids, key |-> d.key,
                load |-> d.load, caps |-> d.caps, page |-> d.page]
    BY <1>4
  <2>2. sess = [c \in Channels |-> sess[c]]
    BY <1>2
  <2> QED  BY <1>1, <2>1, <2>2 DEF CardShape
<1>6. OnePlace(d)
  <2>1. d.sess = sess /\ \A c \in Channels : sess[c] = NoSession
    BY <1>2, <1>4
  <2>2. SessionShape(NoSession) /\ NoSession.sid = 0
    BY DEF SessionShape, NoSession
  <2> QED  BY <1>5, <2>1, <2>2 DEF OnePlace, CardShape
<1>7. lchan' = [n \in {0} |-> AfterReset] /\ cur' = 0 /\ stray' = NoStray
  BY DEF DoReset
<1>8. AfterReset.nr = 0 /\ LchanShape(AfterReset) /\ AfterReset.scp.sid = 0
  BY <1>1 DEF AfterReset, NewLchan, LchanShape, ScpShape, NoScp
<1>9. ChannelsInv'
  BY <1>7, <1>8 DEF ChannelsInv
<1>10. OwnInv'
  <2>1. \A k \in Lchans' : k = AfterReset
    BY <1>7 DEF Lchans
  <2> QED  BY <1>3, <1>5, <1>8, <2>1 DEF OwnInv, Owns, CardShape
<1> QED  BY <1>3, <1>5, <1>6, <1>9, <1>10 DEF StepInv, SessionsInv, JobInv, DoReset

-----------------------------------------------------------------------------
(* The command under way, after an exchange.                               *)

LEMMA NextOne ==
  ASSUME StepInv, job # Idle
  PROVE  Meant(Head(job.rest)) /\ (Len(job.rest) = 1 \/ Head(job.rest).ins \in Bulk)
<1>1. PICK S : /\ job.rest \in Seq(S) /\ \A x \in S : Meant(x)
               /\ Len(job.rest) = 1 \/ \A x \in S : x.ins \in Bulk
  BY DEF StepInv, JobInv
<1>2. Head(job.rest) \in S
  BY <1>1 DEF StepInv, JobInv
<1> QED  BY <1>1, <1>2

LEMMA CountedIs ==
  ASSUME JobInv, job # Idle, NEW w, NEW l, NEW a
  PROVE  Added(w, l, a) =
           [cmd |-> job.cmd, rest |-> job.rest, sent |-> job.sent + 1,
            done |-> IF Carried(w, l, a) THEN job.done + 1 ELSE job.done, pages |-> job.pages, scp |-> job.scp]
<1>1. PICK n, done : n = job.sent + 1 /\ done = IF Carried(w, l, a) THEN job.done + 1 ELSE job.done
  OBVIOUS
<1>2. PICK j : j = [job EXCEPT !.sent = n, !.done = done]
  OBVIOUS
<1>3. j = [cmd |-> job.cmd, rest |-> job.rest, sent |-> n, done |-> done, pages |-> job.pages, scp |-> job.scp]
  BY <1>2 DEF JobInv
<1> QED  BY <1>1, <1>2, <1>3 DEF Added

\* The chunks that are left.
LEMMA RestKeeps ==
  ASSUME StepInv, job # Idle, Len(job.rest) # 1, NEW j,
         j.cmd = job.cmd, j.rest = job.rest, job' = [j EXCEPT !.rest = Tail(@)],
         j = [cmd |-> j.cmd, rest |-> j.rest, sent |-> j.sent, done |-> j.done, pages |-> j.pages, scp |-> j.scp]
  PROVE  JobInv'
<1>1. PICK S : job.rest \in Seq(S) /\ \A x \in S : x.ins \in Bulk /\ Meant(x)
  BY DEF StepInv, JobInv
<1>2. job' = [cmd |-> j.cmd, rest |-> Tail(job.rest), sent |-> j.sent, done |-> j.done, pages |-> j.pages, scp |-> j.scp]
  OBVIOUS
<1>3. /\ job' = [cmd |-> job'.cmd, rest |-> job'.rest, sent |-> job'.sent, done |-> job'.done,
                 pages |-> job'.pages, scp |-> job'.scp]
      /\ job'.rest = Tail(job.rest)
  BY <1>2
<1>4. job'.rest \in Seq(S) /\ job'.rest # <<>>
  <2>1. job.rest # <<>>
    BY DEF StepInv, JobInv
  <2>2. Len(job.rest) \in Nat \ {0} /\ Len(job.rest) # 1
    BY <1>1, <2>1, EmptySeq
  <2>3. Tail(job.rest) \in Seq(S) /\ Len(Tail(job.rest)) = Len(job.rest) - 1
    BY <1>1, <2>1, HeadTailProperties
  <2>4. Len(Tail(job.rest)) # 0 /\ Len(<<>>) = 0
    BY <2>2, <2>3
  <2> QED  BY <1>3, <2>3, <2>4
<1>5. \A apdu \in S : Meant(apdu)'
  <2>1. job'.cmd = job.cmd
    BY <1>2
  <2>2. SUFFICES ASSUME NEW apdu \in S PROVE Meant(apdu)'
    OBVIOUS
  <2>3. KeyFits(job.cmd, Held.scp, apdu) /\ apdu.ins \in Bulk
    BY <1>1 DEF Meant
  <2>4. KeyFits(job'.cmd, Held'.scp, apdu)
    BY <2>1, <2>3 DEF KeyFits, Bulk
  <2> QED  BY <2>3, <2>4 DEF Meant, NamesAChannel, NamesASession, Bulk
<1> QED  BY <1>1, <1>3, <1>4, <1>5 DEF JobInv

\* A command with one APDU to go.
LEMMA OneMoreKeeps ==
  ASSUME NEW apdu, Meant(apdu)', job'.rest = <<apdu>>,
         job' = [cmd |-> job'.cmd, rest |-> job'.rest, sent |-> job'.sent, done |-> job'.done,
                 pages |-> job'.pages, scp |-> job'.scp]
  PROVE  JobInv'
<1>1. PICK S : S = {apdu}
  OBVIOUS
<1>2. <<apdu>> \in Seq(S) /\ <<apdu>> # <<>> /\ Len(<<apdu>>) = 1 /\ \A x \in S : Meant(x)'
  BY <1>1
<1> QED  BY <1>2 DEF JobInv

LEMMA AuthenticateKeeps ==
  ASSUME StepInv, job # Idle, NEW apdu, apdu.ins = "init_update", NEW nr, NEW w, NEW l, Wraps(apdu, nr, w, l),
         NEW a, a = CardStep(card, w, apdu, nr), Had(w, l, a), Returns(w, apdu, nr, l, a), UNCHANGED cur,
         GoesOn(w, apdu, l, a)
  PROVE  JobInv'
<1>1. /\ Held.scp = NoScp /\ apdu.arg[1] # None /\ l = Held /\ w.ch = Held.nr /\ LchanShape(Held)
      /\ Held.nr \in Channels
  <2>1. Held.scp = NoScp /\ apdu.arg[1] # None
    BY DEF Wraps, Meant
  <2>2. Held.scp.kind = None
    BY <2>1 DEF NoScp
  <2>3. l = Held
    BY <2>2, Wrapped DEF StepInv
  <2>4. Bare(w, Held) /\ LchanShape(Held)
    BY <2>2, Wrapped DEF StepInv
  <2> QED  BY <2>1, <2>3, <2>4 DEF Bare, LchanShape
<1>2. WithHeld(l) /\ a.sw = "9000" /\ card' = a.card
  BY DEF Returns, ChannelsAfter, HeldAfter, Accepted, Seen, Had
<1>3. SessionsInv' /\ Held' = l
  BY <1>1, <1>2, HadKeeps DEF StepInv, Had
<1>4. Begins(card, a.card, w.ch, apdu)
  <2>1. Tells(card, a.card, w, apdu, nr, a.sw)
    BY Unsecuredly DEF StepInv, SessionsInv, Wraps, Meant, Unsecured
  <2> QED  BY <1>2, <2>1 DEF Tells
<1> DEFINE sid == a.card.sess[w.ch].sid
<1>5. sid = card.sids + 1 /\ a.card.sess[w.ch].kind = apdu.arg[1] /\ a.card.sids = card.sids + 1
      /\ card.sids \in Nat
  <2>1. a.card.sess[w.ch] = [kind |-> apdu.arg[1], level |-> None, sid |-> card.sids + 1, chain |-> <<>>,
                             ctr |-> 0, on |-> FALSE]
    BY <1>4 DEF Begins, NoSession
  <2> QED  BY <1>4, <2>1 DEF Begins, StepInv, SessionsInv, CardShape
<1>6. ASSUME Authenticate(Added(w, l, a), apdu, sid), ~End(Added(w, l, a), "raised")
      PROVE  JobInv'
  <2>1. PICK j : j = Added(w, l, a)
    OBVIOUS
  <2>2. PICK scp, next : /\ scp = [NoScp EXCEPT !.kind = apdu.arg[1], !.sid = sid]
                         /\ next = [Apdu("ext_auth", 3, 8) EXCEPT !.arg = <<apdu.arg[1], apdu.arg[3], sid>>]
    OBVIOUS
  <2>3. job' = [j EXCEPT !.scp = scp, !.rest = <<next>>]
    BY <1>6, <2>1, <2>2 DEF Authenticate
  <2>4. job' = [cmd |-> j.cmd, rest |-> <<next>>, sent |-> j.sent, done |-> j.done, pages |-> j.pages, scp |-> scp]
    <3>1. j = [cmd |-> j.cmd, rest |-> j.rest, sent |-> j.sent, done |-> j.done, pages |-> j.pages, scp |-> j.scp]
      BY <2>1, CountedIs DEF StepInv
    <3> QED  BY <2>3, <3>1
  <2>5. next.ins = "ext_auth" /\ next.arg[1] = apdu.arg[1] /\ next.arg[3] = sid
    BY <2>2 DEF Apdu
  <2>6. ASSUME NEW x \in Channels, card'.sess[x].sid = sid
        PROVE  x = Held'.nr /\ card'.sess[x].kind = apdu.arg[1]
    BY <1>1, <1>2, <1>3, <1>5, <2>6 DEF SessionsInv, OnePlace
  <2>7. Meant(next)'
    <3>1. NamesAChannel(next)' /\ KeyFits(job.cmd, Held'.scp, next)
      <4>1. job.cmd # "get_status"
        BY DEF Wraps, Meant, KeyFits
      <4> QED  BY <2>5, <4>1 DEF NamesAChannel, KeyFits
    <3>6. job'.cmd = job.cmd
      BY <2>1, <2>4, CountedIs DEF StepInv
    <3>2. NamesASession(next, card')
      BY <1>2, <1>5, <2>5 DEF NamesASession
    <3>3. Held'.scp = NoScp /\ next.arg[1] # None
      BY <1>1, <1>3, <2>5
    <3>4. job'.scp = [NoScp EXCEPT !.kind = next.arg[1], !.sid = next.arg[3]]
      BY <2>2, <2>4, <2>5
    <3>5. Announced(next)'
      BY <2>5, <2>6 DEF Announced
    <3> QED  BY <3>1, <3>2, <3>3, <3>4, <3>5, <3>6 DEF Meant
  <2> QED  BY <2>4, <2>7, OneMoreKeeps
<1>7. Authenticate(Added(w, l, a), apdu, sid)
  BY DEF GoesOn
<1>8. End(Added(w, l, a), "raised") => JobInv'
  BY DEF End, JobInv
<1> QED  BY <1>6, <1>7, <1>8

LEMMA OutcomeJob ==
  ASSUME StepInv, job # Idle, NEW nr, NEW w, NEW l, NEW a, SentWith(Head(job.rest), nr, w, l, a)
  PROVE  JobInv'
<1>1. PICK apdu : apdu = Head(job.rest)
  OBVIOUS
<1>2. CASE job' = Idle
  BY <1>2 DEF JobInv
<1>3. CASE job' # Idle
  <2>1. ~Raised
    BY <1>3 DEF Raised, End
  <2>2. /\ Wraps(apdu, nr, w, l) /\ a = CardStep(card, w, apdu, nr) /\ UNCHANGED cur
        /\ Had(w, l, a) /\ Returns(w, apdu, nr, l, a) /\ GoesOn(w, apdu, l, a)
    BY <1>1, <2>1 DEF SentWith
  <2>3. CASE apdu.ins = "init_update"
    BY <2>2, <2>3, AuthenticateKeeps
  <2> DEFINE j == Added(w, l, a)
  <2>4. j = [cmd |-> j.cmd, rest |-> j.rest, sent |-> j.sent, done |-> j.done, pages |-> j.pages, scp |-> j.scp]
        /\ j.cmd = job.cmd /\ j.rest = job.rest
    BY CountedIs DEF StepInv
  <2>5. CASE apdu.ins \notin {"init_update", "get_status"}
    <3>1. Len(job.rest) # 1 /\ job' = [j EXCEPT !.rest = Tail(@)]
      BY <1>3, <2>2, <2>4, <2>5 DEF GoesOn, GoOrEnd, End, Go
    <3> QED  BY <2>4, <3>1, RestKeeps
  <2>6. CASE apdu.ins = "get_status"
    <3>1. PICK p, n : p = [j EXCEPT !.pages = n] /\ job' = [p EXCEPT !.rest = <<GetStatus(3)>>]
      BY <1>3, <2>2, <2>6 DEF GoesOn, End
    <3>2. p = [cmd |-> j.cmd, rest |-> j.rest, sent |-> j.sent, done |-> j.done, pages |-> n, scp |-> j.scp]
      BY <2>4, <3>1
    <3>3. job' = [cmd |-> j.cmd, rest |-> <<GetStatus(3)>>, sent |-> j.sent, done |-> j.done, pages |-> n, scp |-> j.scp]
      BY <3>1, <3>2
    <3>4. Meant(GetStatus(3))'
      <4>1. GetStatus(3).ins = "get_status"
        BY DEF GetStatus, Apdu
      <4>2. job'.cmd = "get_status"
        BY <2>2, <2>4, <2>6, <3>3 DEF Wraps, Meant, KeyFits
      <4> QED  BY <4>1, <4>2 DEF Meant, KeyFits, NamesAChannel, NamesASession
    <3> QED  BY <3>3, <3>4, OneMoreKeeps
  <2> QED  BY <2>3, <2>5, <2>6
<1> QED  BY <1>2, <1>3

LEMMA InitSteps == Init => StepInv
<1> SUFFICES ASSUME Init PROVE StepInv
  OBVIOUS
<1>1. 0 \in Channels
  BY GpAssumption
<1>2. SessionShape(NoSession) /\ NoSession.sid = 0
  BY DEF SessionShape, NoSession
<1>3. CardShape(card) /\ OnePlace(card)
  BY <1>1, <1>2 DEF Init, CardShape, OnePlace
<1>4. PICK k : k = NewLchan(0, "MF")
  OBVIOUS
<1>5. k.nr = 0 /\ LchanShape(k) /\ k.scp.sid = 0
  BY <1>1, <1>4 DEF NewLchan, LchanShape, ScpShape, NoScp
<1>6. lchan = [n \in {0} |-> k] /\ cur = 0 /\ stray = NoStray
  BY <1>4 DEF Init
<1>7. ChannelsInv
  BY <1>5, <1>6 DEF ChannelsInv
<1>8. OwnInv
  <2>1. \A x \in Lchans : x = k
    BY <1>6 DEF Lchans
  <2> QED  BY <1>3, <1>5, <2>1 DEF OwnInv, Owns, CardShape
<1> QED  BY <1>3, <1>7, <1>8 DEF StepInv, SessionsInv, JobInv, Init

LEMMA NextSteps == StepInv /\ [Next]_vars => StepInv'
<1> SUFFICES ASSUME StepInv, [Next]_vars PROVE StepInv'
  OBVIOUS
<1>1. CASE Exchange
  <2>1. job # Idle
    BY <1>1 DEF Exchange
  <2>2. PICK nr, w, l, a : SentWith(Head(job.rest), nr, w, l, a)
    BY <1>1, Exchanges
  <2> QED  BY <2>1, <2>2, OutcomeKeeps, OutcomeJob DEF StepInv
<1>2. CASE UNCHANGED vars
  <2>1. UNCHANGED <<lchan, cur, stray, job, card, broken>>
    BY <1>2 DEF vars
  <2>2. SessionsInv'
    BY <2>1 DEF StepInv, SessionsInv, ChannelsInv, OwnInv, Lchans
  <2>3. \A apdu : Meant(apdu)' = Meant(apdu)
    BY <2>1 DEF Meant, Announced, Held
  <2>4. JobInv'
    BY <2>1, <2>3 DEF StepInv, JobInv
  <2> QED  BY <2>2, <2>4 DEF StepInv
<1>3. ASSUME NEW cmd, NEW list, Begun(cmd, list) PROVE StepInv'
  BY <1>3, BegunKeeps
<1> QED  BY <1>1, <1>2, <1>3, CommandBegins, ReleaseKeeps, SwitchKeeps, ResetKeeps DEF Next

\* As long as no APDU of a session was lost, went astray or failed while it was
\* wrapped, the shell and the card agree on the MAC chaining value and on the
\* encryption counter (_wrap_cmd_apdu), whatever the user does on whatever
\* channels, and however many APDUs are lost.
THEOREM BothEnds == Spec => []InStep
<1>1. StepInv => InStep
  BY InStepFollows DEF StepInv
<1> QED  BY InitSteps, NextSteps, <1>1, PTL DEF Spec
-----------------------------------------------------------------------------
(* What the shell reports as done.                                         *)

LEMMA BlocksEnd ==
  ASSUME CapsAreSmall, NEW apdu, IsBlock(apdu)
  PROVE  /\ apdu.len \in Nat /\ apdu.block \in 0..255
         /\ apdu.last => apdu.arg[1] = 240 * apdu.block + apdu.len
         /\ ~apdu.last => apdu.len = 240 /\ apdu.block < 255
<1>1. PICK size \in Caps : \E i \in 1..Blocks(LoadTotal(size), 240) : Chunk(apdu, "load", LoadTotal(size), 240, i)
  BY DEF IsBlock
<1>2. PICK total, b : total = LoadTotal(size) /\ b = Blocks(total, 240)
  OBVIOUS
<1>3. total \in Nat /\ total # 0 /\ total <= 61440
  <2>1. LoadTotal(size) \in Nat \ {0}
    BY LoadIsLong
  <2>2. LoadTotal(size) <= 256 * 240
    BY DEF CapsAreSmall
  <2> QED  BY <1>2, <2>1, <2>2
<1>4. b \in 1..256 /\ 240 * (b - 1) < total /\ total <= 240 * b
  <2>1. b = (total + 239) \div 240
    BY <1>2, <1>3 DEF Blocks
  <2>2. b \in Int /\ 240 * b <= total + 239 /\ total + 239 < 240 * b + 240
    BY <1>3, <2>1
  <2> QED  BY <1>3, <2>2
<1>5. PICK i \in 1..b : Chunk(apdu, "load", total, 240, i)
  BY <1>1, <1>2
<1>6. /\ apdu.block = (i - 1) % 256 /\ apdu.last = (i = b) /\ apdu.arg = <<total>>
      /\ apdu.len = Least(240, total - (i - 1) * 240)
  BY <1>2, <1>5, Zenon DEF Chunk
<1>7. apdu.block = i - 1 /\ apdu.arg[1] = total
  BY <1>4, <1>6
<1>8. CASE i = b
  <2>1. apdu.last = TRUE
    BY <1>6, <1>8, Zenon
  <2>2. apdu.len = total - (i - 1) * 240
    BY <1>3, <1>4, <1>6, <1>8 DEF Least
  <2> QED  BY <1>3, <1>4, <1>7, <1>8, <2>1, <2>2
<1>9. CASE i # b
  <2>1. apdu.last = FALSE
    BY <1>6, <1>9, Zenon
  <2>2. apdu.len = 240
    BY <1>3, <1>4, <1>6, <1>9 DEF Least
  <2> QED  BY <1>4, <1>7, <1>9, <2>1, <2>2
<1> QED  BY <1>8, <1>9

\* The file that is coming in has been taken block by block; those that are
\* complete are whole.
LoadGrows(c) ==
  /\ c.load = [on |-> c.load.on, total |-> c.load.total, got |-> c.load.got, next |-> c.load.next]
  /\ c.load.next \in 0..255 /\ c.load.got = 240 * c.load.next
  /\ \A l \in c.caps : l.got = l.total

LEMMA LoadKeeps ==
  ASSUME CapsAreSmall, NEW c, LoadGrows(c), NEW apdu, apdu.ins = "load" => IsBlock(apdu),
         NEW d, Loads(c, d, apdu)
  PROVE  LoadGrows(d)
<1>1. CASE d.load = c.load /\ d.caps = c.caps
  BY <1>1 DEF LoadGrows
<1>2. CASE d.load \in {NoLoad, [NoLoad EXCEPT !.on = TRUE]} /\ d.caps = c.caps
  <2>1. NoLoad.next = 0 /\ NoLoad.got = 0
        /\ NoLoad = [on |-> NoLoad.on, total |-> NoLoad.total, got |-> NoLoad.got, next |-> NoLoad.next]
    BY DEF NoLoad
  <2>2. PICK k : k = [NoLoad EXCEPT !.on = TRUE]
    OBVIOUS
  <2>3. k.next = 0 /\ k.got = 0 /\ k = [on |-> k.on, total |-> k.total, got |-> k.got, next |-> k.next]
    BY <2>2 DEF NoLoad
  <2> QED  BY <1>2, <2>1, <2>2, <2>3 DEF LoadGrows
<1>3. CASE /\ apdu.ins = "load" /\ apdu.block = c.load.next
           /\ IF apdu.last THEN d.load = NoLoad /\ d.caps = c.caps \cup {Grown(c.load, apdu)}
              ELSE d.load = Grown(c.load, apdu) /\ d.caps = c.caps
  <2>1. /\ apdu.len \in Nat /\ apdu.block \in 0..255
        /\ apdu.last => apdu.arg[1] = 240 * apdu.block + apdu.len
        /\ ~apdu.last => apdu.len = 240 /\ apdu.block < 255
    BY <1>3, BlocksEnd
  <2>2. PICK got, next, k : /\ got = c.load.got + apdu.len /\ next = (c.load.next + 1) % 256
                            /\ k = [c.load EXCEPT !.total = apdu.arg[1], !.got = got, !.next = next]
    OBVIOUS
  <2>3. k = [on |-> c.load.on, total |-> apdu.arg[1], got |-> got, next |-> next]
    BY <2>2 DEF LoadGrows
  <2>4. /\ k.got = got /\ k.next = next /\ k.total = apdu.arg[1]
        /\ k = [on |-> k.on, total |-> k.total, got |-> k.got, next |-> k.next]
    BY <2>3
  <2>5. Grown(c.load, apdu) = k
    BY <2>2 DEF Grown
  <2>6. CASE apdu.last
    <3>1. k.got = k.total
      BY <1>3, <2>1, <2>2, <2>4, <2>6 DEF LoadGrows
    <3>2. NoLoad.next = 0 /\ NoLoad.got = 0
          /\ NoLoad = [on |-> NoLoad.on, total |-> NoLoad.total, got |-> NoLoad.got, next |-> NoLoad.next]
      BY DEF NoLoad
    <3> QED  BY <1>3, <2>5, <2>6, <3>1, <3>2 DEF LoadGrows
  <2>7. CASE ~apdu.last
    <3>1. k.next = c.load.next + 1 /\ k.got = c.load.got + 240
      BY <1>3, <2>1, <2>2, <2>4, <2>7 DEF LoadGrows
    <3> QED  BY <1>3, <2>1, <2>4, <2>5, <2>7, <3>1 DEF LoadGrows
  <2> QED  BY <2>6, <2>7
<1> QED  BY <1>1, <1>2, <1>3 DEF Loads

\* An APDU the card carries out has gone to the channel of the lchan; one with
\* a MAC in the session of the lchan.
LEMMA CarriedWhere ==
  ASSUME SessionsInv, NEW apdu, NEW nr, NEW w, NEW l, Wraps(apdu, nr, w, l), w.ok
  PROVE  w.ch \in card.open /\ Authentic(card.sess[w.ch], w, nr) =>
           /\ w.ch = l.nr /\ Held.scp.kind # None
           /\ card.sess[w.ch].sid = Held.scp.sid /\ card.sess[w.ch].kind = Held.scp.kind
<1> DEFINE s == card.sess[w.ch]
<1>1. SUFFICES ASSUME w.ch \in card.open, Authentic(s, w, nr)
               PROVE  /\ w.ch = l.nr /\ Held.scp.kind # None
                      /\ s.sid = Held.scp.sid /\ s.kind = Held.scp.kind
  OBVIOUS
<1>2. w.ch \in Channels /\ SessionShape(s)
  BY <1>1 DEF SessionsInv, CardShape, OnePlace
<1>3. w.sid = s.sid /\ w.sid # 0
  BY <1>1, <1>2 DEF Authentic, SessionShape
<1>4. Held.scp.kind # None /\ IsGp(apdu)
  <2>1. ~Bare(w, Held)
    BY <1>3 DEF Bare
  <2> QED  BY <2>1, Wrapped
<1>5. w.sid = Held.scp.sid /\ Owns(card, broken, Held) /\ l.nr = Held.nr
  BY <1>3, <1>4, Wrapped
<1>6. w.ch = Held.nr /\ s.kind = Held.scp.kind
  BY <1>2, <1>3, <1>5 DEF Owns
<1> QED  BY <1>3, <1>4, <1>5, <1>6

LEMMA AnsweredWhere ==
  ASSUME SessionsInv, NEW apdu, NEW nr, NEW w, NEW l, Wraps(apdu, nr, w, l), w.ok,
         NEW a, a = CardStep(card, w, apdu, nr), a.sw \in {"9000", "6310"}
  PROVE  w.ch = l.nr /\ w.ch \in card.open
<1>1. CASE apdu.ins \in Unsecured
  <2>1. w.ch \in card.open
    BY <1>1, Unsecuredly DEF SessionsInv, Wraps, Meant
  <2>2. w.ch = Held.nr /\ l.nr = Held.nr
    BY <1>1, Wrapped DEF Bare
  <2> QED  BY <2>1, <2>2
<1>2. CASE apdu.ins \notin Unsecured
  <2>1. w.ch \in card.open /\ Authentic(card.sess[w.ch], w, nr)
    BY <1>2, Securedly DEF SessionsInv
  <2> QED  BY <2>1, CarriedWhere
<1> QED  BY <1>1, <1>2

\* A command that succeeds was not one of an lchan the runtime has dropped.
LEMMA NoStrayAnswers ==
  ASSUME SessionsInv, NEW apdu, NEW nr, NEW w, NEW l, Wraps(apdu, nr, w, l), w.ok,
         NEW a, a = CardStep(card, w, apdu, nr), a.sw \in {"9000", "6310"}
  PROVE  stray = NoStray
<1>1. w.ch = l.nr /\ w.ch \in card.open /\ l.nr = Held.nr
  BY AnsweredWhere, Wrapped
<1> QED  BY <1>1, HeldIsKnown DEF SessionsInv, ChannelsInv

\* What the card keeps, after an exchange.
KeyMeant(c) == c.key # <<>> => c.key[1] = c.key[2]

LEMMA CardTakes ==
  ASSUME SessionsInv, NEW apdu, NEW nr, NEW w, NEW l, Wraps(apdu, nr, w, l), w.ok,
         NEW a, a = CardStep(card, w, apdu, nr)
  PROVE  /\ KeyMeant(card) => KeyMeant(a.card)
         /\ CapsAreSmall /\ LoadGrows(card) => LoadGrows(a.card)
<1>1. CASE Stays(card, a.card)
  BY <1>1 DEF Stays, KeyMeant, LoadGrows
<1>2. CASE ~Stays(card, a.card)
  <2>1. apdu.ins \notin Unsecured
    BY <1>2, Unsecuredly DEF SessionsInv, Wraps, Meant
  <2>2. PICK e : /\ w.ch \in card.open /\ Authentic(card.sess[w.ch], w, nr)
                 /\ Stays(card, e) /\ e.sess[w.ch].kind = card.sess[w.ch].kind
                 /\ e.sess[w.ch].sid = card.sess[w.ch].sid
                 /\ Carries(e, a.card, w.ch, apdu, a.sw)
    BY <1>2, <2>1, Securedly DEF SessionsInv
  <2>3. CapsAreSmall /\ LoadGrows(card) => LoadGrows(a.card)
    <3>1. LoadGrows(card) => LoadGrows(e)
      BY <2>2 DEF Stays, LoadGrows
    <3>2. Loads(e, a.card, apdu) /\ (apdu.ins = "load" => IsBlock(apdu))
      BY <2>2 DEF Carries, Wraps, Meant, KeyFits
    <3> QED  BY <3>1, <3>2, LoadKeeps
  <2>4. CASE apdu.ins = "put_key"
    <3>1. e.sess[w.ch].sid = Held.scp.sid /\ e.sess[w.ch].kind = Held.scp.kind /\ Held.scp.kind # None
      BY <2>2, CarriedWhere
    <3>2. SessionDek(e.sess[w.ch]) = Dek(Held.scp)
      BY <3>1 DEF SessionDek, Dek
    <3>3. apdu.arg[1].dek = Dek(Held.scp) /\ apdu.arg[1].key = apdu.arg[2]
      BY <2>4 DEF Wraps, Meant, KeyFits
    <3>4. CardKey(e.sess[w.ch], apdu.arg[1]) = <<apdu.arg[1].key>>
      BY <3>2, <3>3 DEF CardKey
    <3>5. a.card.key = <<CardKey(e.sess[w.ch], apdu.arg[1])[1], apdu.arg[2]>>
      BY <2>2, <2>4 DEF Carries
    <3>6. a.card.key[1] = a.card.key[2]
      BY <3>3, <3>4, <3>5
    <3> QED  BY <2>3, <3>6 DEF KeyMeant
  <2>5. CASE apdu.ins # "put_key"
    BY <2>2, <2>3, <2>5 DEF Carries, Stays, KeyMeant
  <2> QED  BY <2>4, <2>5
<1> QED  BY <1>1, <1>2

\* A page of the registry.
LEMMA PageOnCard ==
  ASSUME SessionsInv, NEW apdu, apdu.ins = "get_status", NEW nr, NEW w, NEW l, Wraps(apdu, nr, w, l), w.ok,
         NEW a, a = CardStep(card, w, apdu, nr), a.sw \in {"9000", "6310"}
  PROVE  /\ a.card.page = IF apdu.block % 2 = 0 THEN 1 ELSE card.page + 1
         /\ a.sw = "6310" <=> a.card.page < Pages
<1>1. PICK e : Stays(card, e) /\ Carries(e, a.card, w.ch, apdu, a.sw)
  <2>1. apdu.ins \notin Unsecured
    BY DEF Unsecured
  <2> QED  BY <2>1, Securedly DEF SessionsInv
<1> QED  BY <1>1 DEF Carries, Stays

\* What the command under way has counted, and how the last one ended.
Listing ==
  \/ job.rest = <<GetStatus(2)>> /\ job.sent = 0 /\ job.done = 0 /\ job.pages = 0
  \/ /\ job.rest = <<GetStatus(3)>>
     /\ job.done = job.sent => job.pages = card.page /\ card.page \in Nat /\ card.page < Pages
CountInv ==
  job # Idle =>
    /\ job.sent \in Nat /\ job.done \in Nat /\ job.done <= job.sent
    /\ IF job.cmd = "get_status" THEN Listing ELSE job.done = job.sent
    /\ ended.result = None
EndsRight == AllCarriedOut /\ ListIsWhole /\ StrayDoesNothing
ReportInv == CountInv /\ EndsRight /\ KeyMeant(card)

LEMMA NothingEnded ==
  ASSUME ended.result # "ok"
  PROVE  EndsRight
BY DEF EndsRight, AllCarriedOut, ListIsWhole, StrayDoesNothing

LEMMA RaisedReports ==
  ASSUME Raised
  PROVE  CountInv' /\ EndsRight'
<1>1. PICK j : End(j, "raised")
  BY DEF Raised
<1>2. job' = Idle /\ ended'.result = "raised"
  <2>1. PICK k : k = [j EXCEPT !.rest = <<>>, !.scp = NoScp]
    OBVIOUS
  <2>2. ended' = [job |-> k, result |-> "raised"]
    BY <1>1, <2>1 DEF End
  <2> QED  BY <1>1, <2>2 DEF End
<1> QED  BY <1>2 DEF CountInv, EndsRight, AllCarriedOut, ListIsWhole, StrayDoesNothing

\* The command has come to its end.
LEMMA EndIs ==
  ASSUME NEW j, j = [cmd |-> j.cmd, rest |-> j.rest, sent |-> j.sent, done |-> j.done, pages |-> j.pages, scp |-> j.scp],
         NEW result, End(j, result)
  PROVE  /\ job' = Idle /\ ended'.result = result /\ ended'.job.cmd = j.cmd
         /\ ended'.job.sent = j.sent /\ ended'.job.done = j.done /\ ended'.job.pages = j.pages
<1>1. PICK k : k = [j EXCEPT !.rest = <<>>, !.scp = NoScp]
  OBVIOUS
<1>2. k = [cmd |-> j.cmd, rest |-> <<>>, sent |-> j.sent, done |-> j.done, pages |-> j.pages, scp |-> NoScp]
  BY <1>1
<1>3. ended' = [job |-> k, result |-> result] /\ job' = Idle
  BY <1>1 DEF End
<1> QED  BY <1>2, <1>3

LEMMA BegunReports ==
  ASSUME ReportInv, NEW cmd, NEW list, Begun(cmd, list)
  PROVE  ReportInv'
<1>1. /\ job' = [cmd |-> cmd, rest |-> list, sent |-> 0, done |-> 0, pages |-> 0, scp |-> NoScp]
      /\ cmd = "get_status" => list = <<GetStatus(2)>>
      /\ ended' = NoEnd /\ UNCHANGED card
  BY DEF Begun, Start, Idle
<1>2. ended'.result = None
  BY <1>1 DEF NoEnd
<1>3. CountInv'
  BY <1>1, <1>2 DEF CountInv, Listing
<1>4. EndsRight'
  BY <1>2 DEF EndsRight, AllCarriedOut, ListIsWhole, StrayDoesNothing, None
<1> QED  BY <1>1, <1>3, <1>4 DEF ReportInv

LEMMA IdleReports ==
  ASSUME ReportInv, StepInv, DoReleaseScp \/ DoSwitchChannel \/ DoReset
  PROVE  ReportInv'
<1>1. job = Idle /\ job' = Idle /\ UNCHANGED protocol
  BY DEF DoReleaseScp, DoSwitchChannel, DoReset
<1>2. CountInv'
  BY <1>1 DEF CountInv
<1>3. CASE DoReleaseScp
  <2>1. UNCHANGED <<card, ended>> /\ (stray' # NoStray => stray # NoStray)
    BY <1>3 DEF DoReleaseScp, WithHeld
  <2> QED  BY <1>1, <1>2, <2>1 DEF ReportInv, EndsRight, AllCarriedOut, ListIsWhole, StrayDoesNothing
<1>4. CASE DoSwitchChannel
  <2>1. UNCHANGED <<card, ended>> /\ stray' = NoStray
    BY <1>4 DEF DoSwitchChannel
  <2> QED  BY <1>1, <1>2, <2>1 DEF ReportInv, EndsRight, AllCarriedOut, ListIsWhole, StrayDoesNothing
<1>5. CASE DoReset
  <2>1. ended'.result = None
    BY <1>5 DEF DoReset, NoEnd
  <2>2. EndsRight'
    BY <2>1 DEF EndsRight, AllCarriedOut, ListIsWhole, StrayDoesNothing, None
  <2>3. card'.key = card.key
    BY <1>5 DEF DoReset, StepInv, SessionsInv, CardShape
  <2> QED  BY <1>2, <2>2, <2>3 DEF ReportInv, KeyMeant
<1> QED  BY <1>3, <1>4, <1>5

\* The answer to an APDU that is not GET STATUS's was 9000.
LEMMA ReturnReports ==
  ASSUME StepInv, ReportInv, job # Idle, NEW nr, NEW w, NEW l, NEW a, NEW apdu, apdu = Head(job.rest),
         Wraps(apdu, nr, w, l), a = CardStep(card, w, apdu, nr), UNCHANGED cur, apdu.ins # "get_status",
         Had(w, l, a), Returns(w, apdu, nr, l, a), GoesOn(w, apdu, l, a)
  PROVE  CountInv' /\ EndsRight'
<1> DEFINE j == Added(w, l, a)
<1>1. a.sw = "9000" /\ w.ok
  BY DEF Returns, Accepted, Seen, Had
<1>2. w.ch = l.nr /\ stray = NoStray
  BY <1>1, AnsweredWhere, NoStrayAnswers DEF StepInv
<1>3. job.cmd # "get_status" /\ (apdu.ins = "close" => job.cmd = "close")
  BY DEF Wraps, Meant, KeyFits
<1>4. job.sent \in Nat /\ job.done = job.sent /\ ended.result = None
  BY <1>3 DEF ReportInv, CountInv
<1>5. /\ j = [cmd |-> job.cmd, rest |-> job.rest, sent |-> job.sent + 1, done |-> job.sent + 1,
              pages |-> job.pages, scp |-> job.scp]
      /\ j = [cmd |-> j.cmd, rest |-> j.rest, sent |-> j.sent, done |-> j.done, pages |-> j.pages, scp |-> j.scp]
  BY <1>1, <1>2, <1>4, CountedIs DEF StepInv, Carried
<1>6. /\ j.cmd = job.cmd /\ j.rest = job.rest /\ j.sent = job.sent + 1 /\ j.done = job.sent + 1
  BY <1>5
<1> HIDE DEF j
<1>7. apdu.ins # "close" => stray' = NoStray
  BY <1>2 DEF Returns, ChannelsAfter, HeldAfter, WithHeld
<1>8. CASE End(j, "ok")
  BY <1>3, <1>5, <1>6, <1>7, <1>8, EndIs DEF CountInv, EndsRight, AllCarriedOut, ListIsWhole, StrayDoesNothing
<1>9. CASE End(j, "raised")
  BY <1>9, RaisedReports DEF Raised
<1>10. CASE \E rest, scp : job' = [j EXCEPT !.scp = scp, !.rest = rest] /\ UNCHANGED ended
  <2>1. PICK rest, scp : job' = [j EXCEPT !.scp = scp, !.rest = rest] /\ ended' = ended
    BY <1>10
  <2>2. job' = [cmd |-> j.cmd, rest |-> rest, sent |-> j.sent, done |-> j.done, pages |-> j.pages, scp |-> scp]
    BY <1>5, <2>1
  <2>3. job'.cmd = job.cmd /\ job'.sent = job.sent + 1 /\ job'.done = job.sent + 1
    BY <1>6, <2>2
  <2>4. CountInv'
    BY <1>3, <1>4, <2>1, <2>3 DEF CountInv
  <2>5. EndsRight'
    BY <1>4, <2>1 DEF EndsRight, AllCarriedOut, ListIsWhole, StrayDoesNothing, None
  <2> QED  BY <2>4, <2>5
<1>11. CASE apdu.ins = "init_update"
  <2>1. Authenticate(j, apdu, a.card.sess[w.ch].sid)
    BY <1>11 DEF GoesOn, j
  <2> QED  BY <1>9, <1>10, <2>1 DEF Authenticate
<1>12. CASE apdu.ins # "init_update"
  <2>1. End(j, "ok") \/ Go(j)
    BY <1>12 DEF GoesOn, GoOrEnd, j
  <2>2. ASSUME Go(j) PROVE \E rest, scp : job' = [j EXCEPT !.scp = scp, !.rest = rest] /\ UNCHANGED ended
    <3>1. PICK rest : rest = Tail(j.rest)
      OBVIOUS
    <3>2. job' = [j EXCEPT !.rest = rest] /\ ended' = ended
      BY <2>2, <3>1 DEF Go
    <3>3. [j EXCEPT !.rest = rest] = [j EXCEPT !.scp = j.scp, !.rest = rest]
      BY <1>5
    <3> QED  BY <3>2, <3>3
  <2> QED  BY <1>8, <1>10, <2>1, <2>2
<1> QED  BY <1>11, <1>12

\* The answer to a GET STATUS, whatever it was.
LEMMA ListReports ==
  ASSUME StepInv, ReportInv, job # Idle, protocol' = protocol,
         NEW nr, NEW w, NEW l, NEW a, NEW apdu, apdu = Head(job.rest),
         Wraps(apdu, nr, w, l), a = CardStep(card, w, apdu, nr), apdu.ins = "get_status",
         Had(w, l, a), GoesOn(w, apdu, l, a)
  PROVE  CountInv' /\ EndsRight'
<1> DEFINE carried == a.sw \in {"9000", "6310"}
<1>1. /\ job.cmd = "get_status" /\ Listing /\ ended.result = None
      /\ job.sent \in Nat /\ job.done \in Nat /\ job.done <= job.sent
  BY DEF Wraps, Meant, KeyFits, ReportInv, CountInv
<1>2. Carried(w, l, a) <=> carried
  BY AnsweredWhere DEF Carried, Had, StepInv
<1>3. PICK j, done, pages, p :
        /\ j = Added(w, l, a) /\ done = (IF carried THEN job.done + 1 ELSE job.done)
        /\ pages = (IF carried THEN j.pages + 1 ELSE j.pages) /\ p = [j EXCEPT !.pages = pages]
  OBVIOUS
<1>4. j = [cmd |-> job.cmd, rest |-> job.rest, sent |-> job.sent + 1, done |-> done, pages |-> job.pages, scp |-> job.scp]
  BY <1>2, <1>3, CountedIs DEF StepInv
<1>5. p = [cmd |-> job.cmd, rest |-> job.rest, sent |-> job.sent + 1, done |-> done, pages |-> pages, scp |-> job.scp]
  BY <1>3, <1>4
<1>6. /\ p.cmd = "get_status" /\ p.sent = job.sent + 1 /\ p.done = done /\ p.pages = pages /\ p.scp = job.scp
      /\ p = [cmd |-> p.cmd, rest |-> p.rest, sent |-> p.sent, done |-> p.done, pages |-> p.pages, scp |-> p.scp]
      /\ j.pages = job.pages
  BY <1>1, <1>4, <1>5
<1>7. IF Seen(a.sw) = "6310" THEN job' = [p EXCEPT !.rest = <<GetStatus(3)>>] /\ ended' = ended ELSE End(p, "ok")
  BY <1>3 DEF GoesOn
<1>8. done \in Nat /\ done <= job.sent + 1 /\ (done = job.sent + 1 => carried /\ job.done = job.sent)
  BY <1>1, <1>3
\* All pages up to this one.
<1>9. carried /\ job.done = job.sent =>
        /\ pages = card'.page /\ card'.page \in Nat /\ card'.page <= Pages
        /\ a.sw = "6310" <=> card'.page < Pages
  <2> SUFFICES ASSUME carried, job.done = job.sent
               PROVE  /\ pages = card'.page /\ card'.page \in Nat /\ card'.page <= Pages
                      /\ a.sw = "6310" <=> card'.page < Pages
    OBVIOUS
  <2>1. /\ card'.page = IF apdu.block % 2 = 0 THEN 1 ELSE card.page + 1
        /\ a.sw = "6310" <=> card'.page < Pages
    BY PageOnCard DEF Had, StepInv
  <2>2. pages = job.pages + 1 /\ Pages \in Nat \ {0}
    BY <1>3, <1>6, GpAssumption
  <2>3. CASE job.rest = <<GetStatus(2)>> /\ job.pages = 0
    <3>1. apdu.block = 2
      BY <2>3 DEF GetStatus, Apdu
    <3> QED  BY <2>1, <2>2, <2>3, <3>1
  <2>4. CASE job.rest = <<GetStatus(3)>> /\ job.pages = card.page /\ card.page \in Nat /\ card.page < Pages
    <3>1. apdu.block = 3
      BY <2>4 DEF GetStatus, Apdu
    <3> QED  BY <2>1, <2>2, <2>4, <3>1
  <2> QED  BY <1>1, <2>3, <2>4 DEF Listing
<1>10. CASE Seen(a.sw) = "6310"
  <2>1. a.sw = "6310"
    BY <1>10 DEF Seen
  <2>2. job' = [cmd |-> p.cmd, rest |-> <<GetStatus(3)>>, sent |-> p.sent, done |-> p.done, pages |-> p.pages,
                scp |-> p.scp]
    BY <1>6, <1>7, <1>10
  <2>3. /\ job'.cmd = "get_status" /\ job'.rest = <<GetStatus(3)>> /\ job'.sent = job.sent + 1
        /\ job'.done = done /\ job'.pages = pages
    BY <1>6, <2>2
  <2>4. job'.done = job'.sent => job'.pages = card'.page /\ card'.page \in Nat /\ card'.page < Pages
    BY <1>8, <1>9, <2>1, <2>3
  <2>5. CountInv'
    BY <1>1, <1>7, <1>8, <1>10, <2>3, <2>4 DEF CountInv, Listing
  <2>6. EndsRight'
    BY <1>1, <1>7, <1>10 DEF EndsRight, AllCarriedOut, ListIsWhole, StrayDoesNothing, None
  <2> QED  BY <2>5, <2>6
<1>11. CASE Seen(a.sw) # "6310"
  <2>1. /\ job' = Idle /\ ended'.result = "ok" /\ ended'.job.cmd = "get_status"
        /\ ended'.job.sent = job.sent + 1 /\ ended'.job.done = done /\ ended'.job.pages = pages
    BY <1>6, <1>7, <1>11, EndIs
  <2>2. protocol = 1 => a.sw # "6310"
    BY <1>11 DEF Seen
  <2>3. done = job.sent + 1 /\ protocol = 1 => pages = Pages
    BY <1>8, <1>9, <2>2, GpAssumption
  <2> QED  BY <2>1, <2>3 DEF CountInv, EndsRight, AllCarriedOut, ListIsWhole, StrayDoesNothing
<1> QED  BY <1>10, <1>11

LEMMA ExchangeReports ==
  ASSUME StepInv, ReportInv, Exchange
  PROVE  ReportInv' /\ (CapsAreSmall /\ LoadGrows(card) => LoadGrows(card'))
<1>1. job # Idle /\ protocol' = protocol
  BY DEF Exchange
<1>2. PICK apdu, nr, w, l, a : apdu = Head(job.rest) /\ SentWith(apdu, nr, w, l, a)
  BY Exchanges
<1>3. Wraps(apdu, nr, w, l) /\ a = CardStep(card, w, apdu, nr) /\ UNCHANGED cur
  BY <1>2 DEF SentWith
<1>4. KeyMeant(card') /\ (CapsAreSmall /\ LoadGrows(card) => LoadGrows(card'))
  <2>1. card' = card \/ (w.ok /\ card' = a.card)
    BY <1>2 DEF SentWith, Lost, Had
  <2> QED  BY <1>3, <2>1, CardTakes DEF StepInv, ReportInv
<1>5. CASE Raised
  BY <1>4, <1>5, RaisedReports DEF ReportInv
<1>6. CASE Had(w, l, a) /\ Returns(w, apdu, nr, l, a) /\ GoesOn(w, apdu, l, a)
  BY <1>1, <1>2, <1>3, <1>4, <1>6, ReturnReports, ListReports DEF ReportInv
<1> QED  BY <1>2, <1>4, <1>5, <1>6 DEF SentWith

LEMMA InitReports == Init => ReportInv /\ LoadGrows(card)
BY DEF Init, ReportInv, CountInv, EndsRight, AllCarriedOut, ListIsWhole, StrayDoesNothing, KeyMeant, LoadGrows,
       NoEnd, None

LEMMA NextReports ==
  ASSUME StepInv, ReportInv, [Next]_vars
  PROVE  ReportInv' /\ (CapsAreSmall /\ LoadGrows(card) => LoadGrows(card'))
<1>1. CASE Exchange
  BY <1>1, ExchangeReports
<1>2. ASSUME NEW cmd, NEW list, Begun(cmd, list)
      PROVE  ReportInv' /\ (LoadGrows(card) => LoadGrows(card'))
  <2>1. UNCHANGED card
    BY <1>2 DEF Begun, Start
  <2> QED  BY <1>2, <2>1, BegunReports
<1>3. CASE DoReleaseScp \/ DoSwitchChannel \/ DoReset
  <2>1. ReportInv'
    BY <1>3, IdleReports
  <2>2. CASE DoReleaseScp \/ DoSwitchChannel
    BY <2>1, <2>2 DEF DoReleaseScp, DoSwitchChannel
  <2>3. CASE DoReset
    <3>1. card'.load = NoLoad /\ card'.caps = card.caps
      BY <2>3 DEF DoReset, StepInv, SessionsInv, CardShape
    <3>2. LoadGrows(card) => LoadGrows(card')
      BY <3>1 DEF LoadGrows, NoLoad
    <3> QED  BY <2>1, <3>2
  <2> QED  BY <1>3, <2>2, <2>3
<1>4. CASE UNCHANGED vars
  <2>1. UNCHANGED <<stray, job, ended, protocol, card>>
    BY <1>4 DEF vars
  <2> QED
    BY <2>1 DEF ReportInv, CountInv, Listing, EndsRight, AllCarriedOut, ListIsWhole, StrayDoesNothing
<1> QED  BY <1>1, <1>2, <1>3, <1>4, CommandBegins DEF Next

\* A command that returns without an exception has been carried out, each of its
\* APDUs, on the channel it was given for; the registry that was listed is
\* complete, if the card refused none of its pages; the keys the card has are
\* those the user gave; the load files it takes for complete are; and a channel
\* the runtime has dropped reports nothing as done (send_apdu_checksw, load,
\* put_key, encrypt_key, get_status, do_close_channel).
THEOREM ReportsAreTrue ==
  ASSUME CapsAreSmall
  PROVE  Spec => []OkMeansDone
<1> DEFINE Inv == ReportInv /\ LoadGrows(card)
<1>1. Init => Inv
  BY InitReports
<1>2. StepInv /\ Inv /\ [Next]_vars => Inv'
  BY NextReports
<1>3. Inv => OkMeansDone
  BY DEF ReportInv, EndsRight, KeyMeant, LoadGrows, OkMeansDone, LoadedIsWhole, KeyIsMeant
<1> HIDE DEF Inv
<1> QED  BY InitSteps, NextSteps, <1>1, <1>2, <1>3, PTL DEF Spec
-----------------------------------------------------------------------------
(* What a provider answers is in one of its rows.                          *)

LEMMA LeastExists ==
  ASSUME NEW S \in SUBSET Nat, S # {}
  PROVE  \E i \in S : \A j \in S : i <= j
<1>1. \E i \in S : \A j \in S : <<j, i>> \notin OpToRel(<, Nat)
  BY WFMin, NatLessThanWellFounded, Zenon
<1>2. PICK i \in S : \A j \in S : <<j, i>> \notin OpToRel(<, Nat)
  BY <1>1, Zenon
<1>3. ASSUME NEW j \in S PROVE i <= j
  <2>1. i \in Nat /\ j \in Nat
    OBVIOUS
  <2>2. j < i => <<j, i>> \in OpToRel(<, Nat)
    BY <2>1 DEF OpToRel
  <2>3. <<j, i>> \notin OpToRel(<, Nat)
    BY <1>2, Zenon
  <2>4. ~(j < i)
    BY <2>2, <2>3, Zenon
  <2> QED BY <2>1, <2>4
<1> QED BY <1>3

LEMMA LastIsThere ==
  ASSUME NEW n \in Nat, NEW S \in SUBSET (1..n), S # {}
  PROVE  Last(S) \in S
<1> DEFINE T == {n - i : i \in S}
<1>1. T \in SUBSET Nat /\ T # {}
  <2>1. \A i \in S : i \in 1..n /\ n - i \in Nat
    OBVIOUS
  <2>2. PICK i \in S : TRUE
    OBVIOUS
  <2>3. n - i \in T
    BY <2>2
  <2> QED BY <2>1, <2>3
<1>2. PICK x \in T : \A y \in T : x <= y
  <2> HIDE DEF T
  <2> QED BY <1>1, LeastExists
<1>3. PICK i \in S : x = n - i
  BY <1>2
<1>4. ASSUME NEW j \in S PROVE j <= i
  <2>1. n - i <= n - j
    BY <1>2, <1>3
  <2>2. i \in Int /\ j \in Int
    OBVIOUS
  <2> QED BY <2>1, <2>2
<1>5. \E m \in S : \A k \in S : k <= m
  BY <1>4
<1> QED BY <1>5 DEF Last

\* a is the answer of a provider from a row in which `key` is `value`.
FromRow(p, j, r, fields, key, value, a) ==
  /\ r \in DOMAIN p.tables[j].rows
  /\ key \in p.tables[j].cols /\ fields \subseteq p.tables[j].cols
  /\ p.tables[j].rows[r][key] = value
  /\ a = Given(p, fields, p.tables[j].rows[r])

LEMMA CsvAnswers ==
  ASSUME NEW i \in DOMAIN Providers, Providers[i].type = "csv",
         NEW fields, NEW key, NEW value,
         NEW a \in CsvGet(Providers[i], fields, key, value), a.status = "found"
  PROVE  \E r : FromRow(Providers[i], 1, r, fields, key, value, a)
<1> DEFINE p == Providers[i]
           t == p.tables[1]
           m == Matching(t, key, value)
<1>1. NoAnswer.status # "found" /\ Refusal.status # "found"
  BY DEF NoAnswer, Refusal
<1>2. key \in t.cols /\ m # {} /\ fields \subseteq t.cols /\ a = Given(p, fields, t.rows[Last(m)])
  BY <1>1 DEF CsvGet
<1>3. Len(t.rows) \in Nat /\ DOMAIN t.rows = 1..Len(t.rows)
  BY ProvidersShape
<1>4. m \subseteq DOMAIN t.rows
  BY DEF Matching
<1>5. Last(m) \in m
  <2> HIDE DEF m, t
  <2> QED BY <1>2, <1>3, <1>4, LastIsThere
<1>6. FromRow(p, 1, Last(m), fields, key, value, a)
  BY <1>2, <1>4, <1>5 DEF FromRow, Matching
<1> QED BY <1>6

LEMMA PgsqlAnswers ==
  ASSUME NEW i \in DOMAIN Providers, NEW fields, NEW key, NEW value,
         NEW a \in PgsqlGet(Providers[i], fields, key, value), a.status = "found"
  PROVE  \E j \in DOMAIN Providers[i].tables : \E r : FromRow(Providers[i], j, r, fields, key, value, a)
<1> DEFINE p == Providers[i]
           keyed == {j \in DOMAIN p.tables : key \in p.tables[j].cols}
           hit   == {j \in keyed : ~(fields \subseteq p.tables[j].cols) \/ Matching(p.tables[j], key, value) # {}}
           least == CHOOSE j \in hit : \A k \in hit : j <= k
           t     == p.tables[least]
<1>1. NoAnswer.status # "found" /\ Refusal.status # "found"
  BY DEF NoAnswer, Refusal
<1>2. /\ hit # {} /\ fields \subseteq t.cols
      /\ a \in {Given(p, fields, t.rows[r]) : r \in Matching(t, key, value)}
  BY <1>1 DEF PgsqlGet
<1>3. hit \in SUBSET Nat
  BY ProvidersShape
<1>4. least \in hit
  <2>1. \E j \in hit : \A k \in hit : j <= k
    <3> HIDE DEF hit
    <3> QED BY <1>2, <1>3, LeastExists
  <2> HIDE DEF hit
  <2> QED BY <2>1
<1>5. PICK r \in Matching(t, key, value) : a = Given(p, fields, t.rows[r])
  BY <1>2
<1>6. FromRow(p, least, r, fields, key, value, a)
  BY <1>2, <1>4, <1>5 DEF FromRow, Matching
<1> QED BY <1>4, <1>6

\* card_key_provider_get (card_key_provider.py)
LEMMA FoundIsARow ==
  ASSUME NEW fields, NEW key, NEW value,
         NEW a \in CardKeyProviderGet(fields, key, value), a.status = "found"
  PROVE  \E i \in DOMAIN Providers : \E j \in DOMAIN Providers[i].tables : \E r :
           FromRow(Providers[i], j, r, fields, key, value, a)
<1> DEFINE answering == {i \in DOMAIN Providers : Get(Providers[i], fields, key, value) # {NoAnswer}}
           least     == CHOOSE i \in answering : \A j \in answering : i <= j
<1>1. answering # {} /\ a \in Get(Providers[least], fields, key, value)
  <2>1. Refusal.status # "found"
    BY DEF Refusal
  <2> QED BY <2>1 DEF CardKeyProviderGet
<1>2. least \in DOMAIN Providers
  <2>1. answering \in SUBSET Nat
    BY ProvidersShape
  <2>2. \E i \in answering : \A j \in answering : i <= j
    <3> HIDE DEF answering
    <3> QED BY <1>1, <2>1, LeastExists
  <2> QED BY <2>2
<1> HIDE DEF least
<1>3. CASE Providers[least].type = "csv"
  BY <1>1, <1>2, <1>3, CsvAnswers, ProvidersShape DEF Get
<1>4. CASE Providers[least].type # "csv"
  BY <1>1, <1>2, <1>4, PgsqlAnswers DEF Get
<1> QED BY <1>2, <1>3, <1>4

\* A code that was looked up is one of those kept for the ICCID.
LEMMA CodeIsKept ==
  ASSUME NEW f \in CHVs, NEW a \in Code(Ask, f), a.status = "found"
  PROVE  a.value \in KeysOf(iccid)
<1>1. PICK b \in CardKeyProviderGetField(f, "ICCID", iccid) :
        b.status = "found" /\ a.value = b.value
  <2>1. Refusal.status # "found"
    BY DEF Refusal
  <2>2. PICK b \in CardKeyProviderGetField(f, "ICCID", iccid) :
          a = IF b.status = "found" /\ b.plain THEN [status |-> "found", value |-> b.value] ELSE Refusal
    BY DEF Code
  <2> QED BY <2>1, <2>2
<1>2. PICK c \in CardKeyProviderGet({f}, "ICCID", iccid) :
        c.status = "found" /\ b.value = c.fields[f].value
  <2>1. PICK c \in CardKeyProviderGet({f}, "ICCID", iccid) :
          b = IF c.status = "found"
              THEN [status |-> "found", value |-> c.fields[f].value, plain |-> c.fields[f].plain] ELSE c
    BY DEF CardKeyProviderGetField
  <2> QED BY <1>1, <2>1
<1>3. PICK i \in DOMAIN Providers : \E j \in DOMAIN Providers[i].tables : \E r :
        FromRow(Providers[i], j, r, {f}, "ICCID", iccid, c)
  BY <1>2, FoundIsARow
<1>4. PICK j \in DOMAIN Providers[i].tables : \E q : FromRow(Providers[i], j, q, {f}, "ICCID", iccid, c)
  BY <1>3
<1>r. PICK r : FromRow(Providers[i], j, r, {f}, "ICCID", iccid, c)
  BY <1>4
<1> DEFINE t == Providers[i].tables[j]
<1>5. a.value = t.rows[r][f]
  BY <1>1, <1>2, <1>r DEF FromRow, Given, DecryptField
<1>6. /\ f \in CHVs \cap t.cols /\ r \in DOMAIN t.rows
      /\ "ICCID" \in t.cols /\ t.rows[r]["ICCID"] = iccid
  BY <1>r DEF FromRow
<1>7. t \in UNION {{p.tables[k] : k \in DOMAIN p.tables} : p \in {Providers[k] : k \in DOMAIN Providers}}
  OBVIOUS
<1> HIDE DEF t
<1> QED BY <1>5, <1>6, <1>7 DEF KeysOf
-----------------------------------------------------------------------------
(* The cards and their codes.                                              *)

\* owner is the card whose identity the shell has; in a bulk run it is the one
\* in the reader as long as the script runs.
Home ==
  /\ tray \in Stock \cup {Nothing} /\ (powered => tray # Nothing)
  /\ owner # Nothing => owner \in Stock /\ iccid = type[owner].iccid
  /\ stage \in {"process", "script"} => tray \in Stock
  /\ stage = "script" => owner = tray
Earned == adm_verified /\ owner # Nothing => earned

CodeInv == Home /\ Earned /\ KeyGoesHome /\ (KeysAreGiven => QueriedIsPlain)

\* What a command looks up belongs to the card it goes to, if that is the one
\* whose identity the shell has.
Fitting(looked) == \A s \in looked : s.in = "script" \/ s.owner = s.card => s.key \in KeysOf(type[s.card].iccid)

LEMMA LookedFits ==
  ASSUME Home, powered, NEW typed, NEW f \in CHVs, NEW a \in Code(typed, f), a.status = "found"
  PROVE  Fitting(Looked(typed, a.value))
<1>1. CASE typed # Ask
  BY <1>1 DEF Looked, Fitting
<1>2. CASE typed = Ask
  <2>1. a.value \in KeysOf(iccid)
    BY <1>2, CodeIsKept
  <2>2. stage = "script" \/ owner = tray => iccid = type[tray].iccid
    BY DEF Home
  <2> QED BY <1>2, <2>1, <2>2 DEF Looked, Fitting
<1> QED BY <1>1, <1>2

\* Commands that present a code leave alone what Home is about.
Same == UNCHANGED <<type, tray, powered, iccid, owner, asked, stage>>

\* A command keeps the invariant if it presents only what it looked up, and
\* the mark of a verified key comes with a verified key.
LEMMA PresentedKeeps ==
  ASSUME CodeInv, Same, NEW looked, Fitting(looked), shown' \in {shown, looked},
         UNCHANGED <<adm_verified, earned>> \/ (adm_verified' = TRUE /\ earned' = TRUE)
  PROVE  CodeInv'
<1>1. Home' /\ Earned'
  BY DEF CodeInv, Same, Home, Earned
<1>2. KeyGoesHome'
  BY DEF CodeInv, Same, KeyGoesHome, Fitting
<1>3. KeysAreGiven => QueriedIsPlain'
  BY DEF CodeInv, Same, QueriedIsPlain
<1> QED BY <1>1, <1>2, <1>3 DEF CodeInv

LEMMA SilentKeeps ==
  ASSUME CodeInv, Same, shown' = shown,
         UNCHANGED <<adm_verified, earned>> \/ (adm_verified' = TRUE /\ earned' = TRUE)
  PROVE  CodeInv'
<1>1. Fitting({})
  BY DEF Fitting
<1> QED BY <1>1, PresentedKeeps

\* What Presented does to the mark and to the history.
LEMMA PresentedDoes ==
  ASSUME NEW chv, NEW a, NEW looked, NEW ACTION Then, Presented(chv, a, looked, Then),
         Then => UNCHANGED <<adm_verified, earned>> \/ (adm_verified' = TRUE /\ earned' = TRUE)
  PROVE  /\ UNCHANGED <<adm_verified, earned>> \/ (adm_verified' = TRUE /\ earned' = TRUE)
         /\ shown' = shown \/ (shown' = looked /\ a.status = "found" /\ powered)
BY DEF Presented

LEMMA VerifyAdmKeeps ==
  ASSUME CodeInv, Same, NEW typed, NEW a \in AdmOf(typed), VerifyAdm(typed, a)
  PROVE  CodeInv'
<1>1. a.status = "found" => a \in Code(typed, "ADM1")
  BY DEF AdmOf, Refusal
<1>2. /\ UNCHANGED <<adm_verified, earned>> \/ (adm_verified' = TRUE /\ earned' = TRUE)
      /\ shown' = shown \/ (shown' = Looked(typed, a.value) /\ a.status = "found" /\ powered)
  BY PresentedDoes DEF VerifyAdm, Verified
<1>3. CASE shown' = shown
  BY <1>2, <1>3, SilentKeeps
<1>4. CASE shown' # shown
  <2>1. Fitting(Looked(typed, a.value))
    BY <1>1, <1>2, <1>4, LookedFits DEF CodeInv, CHVs
  <2> QED BY <1>2, <2>1, PresentedKeeps
<1> QED BY <1>3, <1>4

LEMMA ChvKeeps ==
  ASSUME CodeInv, Settled, NEW typed, NEW a \in Code(typed, "PIN1"),
         VerifyChv(typed, a) \/ DisableChv(typed, a) \/ EnableChv(typed, a)
  PROVE  CodeInv'
<1>1. Same
  BY DEF Same, Settled, loop
<1>2. /\ UNCHANGED <<adm_verified, earned>> \/ (adm_verified' = TRUE /\ earned' = TRUE)
      /\ shown' = shown \/ (shown' = Looked(typed, a.value) /\ a.status = "found" /\ powered)
  BY PresentedDoes DEF VerifyChv, DisableChv, EnableChv, Kept
<1>3. CASE shown' = shown
  BY <1>1, <1>2, <1>3, SilentKeeps
<1>4. CASE shown' # shown
  <2>1. Fitting(Looked(typed, a.value))
    BY <1>2, <1>4, LookedFits DEF CodeInv, CHVs
  <2> QED BY <1>1, <1>2, <2>1, PresentedKeeps
<1> QED BY <1>3, <1>4

LEMMA TwoLookedFit ==
  ASSUME Home, powered, NEW typed, NEW f \in CHVs, NEW a \in Code(typed, f), a.status = "found",
         NEW fresh, NEW n \in Code(fresh, "PIN1"), n.status = "found"
  PROVE  Fitting(Looked(typed, a.value) \cup Looked(fresh, n.value))
<1>1. Fitting(Looked(typed, a.value)) /\ Fitting(Looked(fresh, n.value))
  BY LookedFits DEF CHVs
<1> QED BY <1>1 DEF Fitting

LEMMA ChangeKeeps ==
  ASSUME CodeInv, NEW new, NEW typed, DoChangeChv(new, typed)
  PROVE  CodeInv'
<1>1. PICK n \in Code(new, "PIN1"), b \in Code(typed, "PIN1") :
        ChangeChv(typed, new, IF n.status = "found" THEN b ELSE n, n)
  BY DEF DoChangeChv
<1>2. Same
  BY DEF DoChangeChv, Same, Settled, loop
<1> DEFINE a == IF n.status = "found" THEN b ELSE n
           looked == Looked(typed, a.value) \cup Looked(new, n.value)
<1>3. /\ UNCHANGED <<adm_verified, earned>> \/ (adm_verified' = TRUE /\ earned' = TRUE)
      /\ shown' = shown \/ (shown' = looked /\ a.status = "found" /\ powered)
  BY <1>1 DEF ChangeChv, Presented, Kept
<1>4. CASE shown' = shown
  BY <1>2, <1>3, <1>4, SilentKeeps
<1>5. CASE shown' # shown
  <2>1. n.status = "found" /\ a = b /\ b.status = "found" /\ powered
    BY <1>3, <1>5
  <2>2. Fitting(looked)
    BY <2>1, TwoLookedFit DEF CodeInv, CHVs
  <2> QED BY <1>2, <1>3, <2>2, PresentedKeeps
<1> QED BY <1>4, <1>5

LEMMA UnblockKeeps ==
  ASSUME CodeInv, NEW new, NEW typed, DoUnblockChv(typed, new)
  PROVE  CodeInv'
<1>1. PICK n \in Code(new, "PIN1"), b \in Code(typed, "PUK1") :
        UnblockChv(typed, new, IF n.status = "found" THEN b ELSE n, n)
  BY DEF DoUnblockChv
<1>2. Same
  BY DEF DoUnblockChv, Same, Settled, loop
<1> DEFINE a == IF n.status = "found" THEN b ELSE n
           looked == Looked(typed, a.value) \cup Looked(new, n.value)
<1>3. /\ UNCHANGED <<adm_verified, earned>>
      /\ shown' = shown \/ (shown' = looked /\ a.status = "found" /\ powered)
  BY <1>1 DEF UnblockChv, Kept
<1>4. CASE shown' = shown
  BY <1>2, <1>3, <1>4, SilentKeeps
<1>5. CASE shown' # shown
  <2>1. n.status = "found" /\ a = b /\ b.status = "found" /\ powered
    BY <1>3, <1>5
  <2>2. Fitting(looked)
    BY <2>1, TwoLookedFit DEF CodeInv, CHVs
  <2> QED BY <1>2, <1>3, <2>2, PresentedKeeps
<1> QED BY <1>4, <1>5

\* init_card and equip, by command or in a bulk run.
LEMMA EquipKeeps ==
  ASSUME CodeInv, NEW ok \in BOOLEAN, EquipCard(ok), tray \in Stock,
         UNCHANGED <<type, tray, shown, asked>>,
         (stage' = stage /\ stage = "idle") \/ (stage' = "script" /\ ok) \/ stage' = "judge"
  PROVE  CodeInv'
<1>1. owner' = Nothing \/ EquipOk
  BY DEF EquipCard, InitFails, Unsupported, ResetFails
<1>2. stage' = "script" => EquipOk
  BY DEF EquipCard
<1>3. Home'
  BY <1>1, <1>2, DeskAssumption DEF EquipOk, Identity, Home, CodeInv, EquipCard
<1>4. Earned'
  BY <1>1 DEF EquipOk, Earned
<1>5. KeyGoesHome' /\ (KeysAreGiven => QueriedIsPlain')
  BY DEF CodeInv, KeyGoesHome, QueriedIsPlain
<1> QED BY <1>3, <1>4, <1>5 DEF CodeInv

\* A field that a provider gives is in the clear, if the transport keys are
\* those of the encrypted columns.
LEMMA GivenIsPlain ==
  ASSUME KeysAreGiven, NEW fields, NEW key, NEW value,
         NEW a \in CardKeyProviderGet(fields, key, value), a.status = "found"
  PROVE  \A f \in DOMAIN a.fields : a.fields[f].plain
<1>1. PICK i \in DOMAIN Providers : \E j \in DOMAIN Providers[i].tables : \E r :
        FromRow(Providers[i], j, r, fields, key, value, a)
  BY FoundIsARow
<1>2. PICK j \in DOMAIN Providers[i].tables : \E q : FromRow(Providers[i], j, q, fields, key, value, a)
  BY <1>1
<1>r. PICK r : FromRow(Providers[i], j, r, fields, key, value, a)
  BY <1>2
<1>3. fields \subseteq Providers[i].tables[j].cols
      /\ a.fields = [f \in fields |-> DecryptField(Providers[i], f, Providers[i].tables[j].rows[r][f])]
  BY <1>r DEF FromRow, Given
<1>4. ASSUME NEW f \in fields PROVE a.fields[f].plain
  <2>1. f \in Providers[i].sealed <=> f \in TransportKeys(Providers[i])
    BY <1>3 DEF KeysAreGiven
  <2>2. a.fields[f].plain = ((f \in Providers[i].sealed) = (f \in TransportKeys(Providers[i])))
    BY <1>3 DEF DecryptField
  <2>3. ((f \in Providers[i].sealed) = (f \in TransportKeys(Providers[i]))) = TRUE
    BY <2>1
  <2> QED BY <2>2, <2>3
<1> QED BY <1>3, <1>4

LEMMA QueryKeeps ==
  ASSUME CodeInv, NEW fields, NEW key, DoQuery(fields, key)
  PROVE  CodeInv'
<1>1. PICK a \in CardKeyProviderGet(fields, "ICCID", key) : asked' = a
  BY DEF DoQuery
<1>2. KeysAreGiven => QueriedIsPlain'
  BY <1>1, GivenIsPlain DEF QueriedIsPlain
<1>3. UNCHANGED <<type, tray, powered, shown, iccid, owner, adm_verified, earned, stage>>
  BY DEF DoQuery, chips, shell, loop
<1> QED BY <1>2, <1>3 DEF CodeInv, Home, Earned, KeyGoesHome

LEMMA ScriptLineKeeps ==
  ASSUME CodeInv, ScriptLine
  PROVE  CodeInv'
<1>1. Same
  BY DEF ScriptLine, Same
<1>2. CASE \E a \in AdmOf(Ask) : VerifyAdm(Ask, a)
  BY <1>1, <1>2, VerifyAdmKeeps
<1>3. CASE UNCHANGED <<adm_verified, earned, shown>>
  BY <1>1, <1>3, SilentKeeps
<1> QED BY <1>2, <1>3 DEF ScriptLine

LEMMA NextCodes == CodeInv /\ [DeskNext]_deskVars => CodeInv'
<1> SUFFICES ASSUME CodeInv, [DeskNext]_deskVars PROVE CodeInv'
  OBVIOUS
<1>1. ASSUME NEW t \in Typed, DoVerifyAdm(t) PROVE CodeInv'
  BY <1>1, VerifyAdmKeeps DEF DoVerifyAdm, Same, Settled, loop
<1>2. ASSUME NEW t \in Typed, DoVerifyChv(t) \/ DoDisableChv(t) \/ DoEnableChv(t) PROVE CodeInv'
  BY <1>2, ChvKeeps DEF DoVerifyChv, DoDisableChv, DoEnableChv
<1>3. ASSUME NEW t \in Typed, NEW n \in Typed, DoChangeChv(n, t) \/ DoUnblockChv(t, n) PROVE CodeInv'
  BY <1>3, ChangeKeeps, UnblockKeeps
<1>4. ASSUME NEW q \in Queries, NEW c \in Stock, DoQuery(q, type[c].iccid) PROVE CodeInv'
  BY <1>4, QueryKeeps
<1>5. CASE DoEquip \/ Process
  <2>1. tray \in Stock
    BY <1>5, DeskAssumption DEF CodeInv, Home, DoEquip, Process
  <2>2. UNCHANGED <<type, tray, shown, asked>>
    <3>1. UNCHANGED <<chips, tray, records>>
      BY <1>5 DEF DoEquip, Process
    <3> QED BY <3>1 DEF chips, records
  <2>3. CASE DoEquip
    <3>1. stage' = stage /\ stage = "idle"
      BY <2>3 DEF DoEquip, Command, loop
    <3>2. PICK ok \in BOOLEAN : EquipCard(ok)
      BY <2>3 DEF DoEquip
    <3> QED BY <2>1, <2>2, <3>1, <3>2, EquipKeeps
  <2>4. CASE Process
    <3>1. PICK ok \in BOOLEAN : EquipCard(ok) /\ ((stage' = "script" /\ ok) \/ stage' = "judge")
      BY <2>4 DEF Process
    <3> QED BY <2>1, <2>2, <3>1, EquipKeeps
  <2> QED BY <1>5, <2>3, <2>4
<1>6. CASE ScriptLine
  BY <1>6, ScriptLineKeeps
<1>7. CASE ResetCard \/ DoBulkScript \/ GetStops \/ GetFails \/ CardLost \/ ScriptEnds \/ Judge \/ Bin
           \/ \E c \in Stock : Insert(c) \/ GetCard(c)
  <2>1. UNCHANGED <<type, shown, asked, iccid, owner>>
    BY <1>7 DEF ResetCard, DoBulkScript, GetStops, GetFails, CardLost, ScriptEnds, Judge, Bin, Insert, GetCard,
                chips, records, loop, shell
  <2>2. Earned'
    BY <1>7, <2>1 DEF CodeInv, Earned, ResetCard, DoBulkScript, GetStops, GetFails, CardLost, ScriptEnds, Judge,
                Bin, Insert, GetCard, chips, records, loop, shell
  <2>3. Home'
    BY <1>7, <2>1, DeskAssumption DEF CodeInv, Home, ResetCard, DoBulkScript, GetStops, GetFails, CardLost,
                ScriptEnds, Judge, Bin, Insert, GetCard, chips, records, loop, shell
  <2> QED BY <2>1, <2>2, <2>3 DEF CodeInv, KeyGoesHome, QueriedIsPlain
<1>8. CASE UNCHANGED deskVars
  BY <1>8 DEF deskVars, chips, shell, records, loop, CodeInv, Home, Earned, KeyGoesHome, QueriedIsPlain
<1> QED BY <1>1, <1>2, <1>3, <1>4, <1>5, <1>6, <1>7, <1>8 DEF DeskNext, BulkWork

\* pySim-shell.py:147-198, 983-1017, 1058-1069; card_key_provider.py: a code
\* that was looked up is one of the card it goes to, the mark of a verified key
\* was earned since the last reset, and what a query gives is in the clear.
THEOREM CodesGoHome ==
  ASSUME KeysAreGiven PROVE DeskSpec => []CodesAreTheCards
<1>1. DeskInit => CodeInv
  BY DEF DeskInit, CodeInv, Home, Earned, KeyGoesHome, QueriedIsPlain, NoAnswer
<1>2. CodeInv => CodesAreTheCards
  BY DeskAssumption DEF CodeInv, Home, Earned, CodesAreTheCards, MarkIsEarned
<1> QED BY <1>1, <1>2, NextCodes, PTL DEF DeskSpec
-----------------------------------------------------------------------------
(* The bulk run.                                                           *)

Working == stage \in {"process", "script", "judge", "bin"}

BulkShape ==
  /\ stage \in {"idle", "get"} \/ Working
  /\ Working => tray \in Stock \ (good \cup bad)
  /\ good \subseteq Stock /\ IsFiniteSet(good) /\ IsFiniteSet(bad)
  /\ did \in [Stock -> SUBSET Nat] /\ lineno \in Nat /\ rc \in {0, -1} /\ logged \in BOOLEAN
  /\ bulk.script \in Seq({"verify_adm", "write", "typo"})
  /\ success_count \in Nat /\ fail_count \in Nat /\ commands \in 0..MaxCommands

\* There is one bulk run, and it comes last.
Once == commands < MaxCommands =>
          stage = "idle" /\ good = {} /\ bad = {} /\ success_count = 0 /\ fail_count = 0

\* The lines before the one that is next, or all once the script is over, are
\* done on the card in the reader, unless stderr tells otherwise.
Took(c, n)   == n \in DOMAIN bulk.script /\ bulk.script[n] # "typo" => n \in did[c]
SoFar        == stage = "script" /\ ~logged => \A n \in Nat : n < lineno => Took(tray, n)
Over         == stage \in {"judge", "bin"} /\ rc = 0 => \A n \in Nat : Took(tray, n)
Counted      == /\ success_count = Cardinality(good) + (IF stage = "bin" /\ rc = 0 THEN 1 ELSE 0)
                /\ fail_count >= Cardinality(bad) + (IF stage = "bin" /\ rc # 0 THEN 1 ELSE 0)

BulkInv == BulkShape /\ Once /\ SoFar /\ Over /\ DoneIsDone /\ Counted

LEMMA InitBulk == DeskInit => BulkInv
<1> SUFFICES ASSUME DeskInit PROVE BulkInv
  OBVIOUS
<1>1. IsFiniteSet({}) /\ Cardinality({}) = 0
  BY FS_EmptySet
<1>2. BulkShape
  <2>1. bulk.script = <<>>
    BY DEF DeskInit, NoBulk
  <2>2. did \in [Stock -> SUBSET Nat]
    BY DEF DeskInit
  <2>3. stage = "idle" /\ commands = 0 /\ rc = 0 /\ lineno = 1 /\ ~logged /\ logged \in BOOLEAN
        /\ good = {} /\ bad = {} /\ success_count = 0 /\ fail_count = 0
    BY DEF DeskInit
  <2> QED BY <1>1, <2>1, <2>2, <2>3, DeskAssumption DEF BulkShape, Working
<1>3. Once /\ SoFar /\ Over /\ DoneIsDone /\ Counted
  BY <1>1 DEF DeskInit, Once, SoFar, Over, DoneIsDone, Counted
<1> QED BY <1>2, <1>3 DEF BulkInv

\* Commands outside the run; the reader's link.
LEMMA LoopKeeps ==
  ASSUME BulkInv, UNCHANGED loop, commands' = commands \/ Command, tray' = tray \/ stage = "idle"
  PROVE  BulkInv'
<1>1. UNCHANGED <<stage, bulk, rc, lineno, logged, success_count, fail_count, good, bad, did>>
  BY DEF loop
<1>2. BulkShape'
  BY <1>1, DeskAssumption DEF BulkInv, BulkShape, Working, Command
<1>3. Once'
  BY <1>1, DeskAssumption DEF BulkInv, BulkShape, Once, Command
<1>4. SoFar' /\ Over' /\ DoneIsDone' /\ Counted'
  BY <1>1 DEF BulkInv, SoFar, Over, DoneIsDone, Counted, Took
<1> QED BY <1>2, <1>3, <1>4 DEF BulkInv

LEMMA StartsBulk ==
  ASSUME BulkInv, DoBulkScript
  PROVE  BulkInv'
<1>1. PICK tries \in 1..2, halt \in BOOLEAN, sc \in Scripts : bulk' = [tries |-> tries, halt |-> halt, script |-> sc]
  BY DEF DoBulkScript
<1>2. /\ stage = "idle" /\ commands < MaxCommands /\ commands' = MaxCommands /\ stage' = "get"
      /\ success_count' = 0 /\ fail_count' = 0 /\ UNCHANGED <<tray, rc, lineno, logged, good, bad, did>>
  BY DEF DoBulkScript
<1>3. good = {} /\ bad = {}
  BY <1>2 DEF BulkInv, Once
<1>4. bulk'.script \in Seq({"verify_adm", "write", "typo"})
  BY <1>1, DeskAssumption
<1>5. BulkShape'
  BY <1>2, <1>4, DeskAssumption DEF BulkInv, BulkShape, Working
<1>6. Once' /\ SoFar' /\ Over' /\ DoneIsDone'
  BY <1>2, <1>3, DeskAssumption DEF Once, SoFar, Over, DoneIsDone
<1>7. Counted'
  BY <1>2, <1>3, FS_EmptySet DEF Counted
<1> QED BY <1>5, <1>6, <1>7 DEF BulkInv

\* A card is taken from the stack; nothing has been done to it yet.
LEMMA CardTaken ==
  ASSUME BulkInv, NEW c \in Stock, GetCard(c)
  PROVE  BulkInv'
<1>1. /\ stage = "get" /\ c \notin good \cup bad /\ tray' = c /\ stage' = "process" /\ did' = [did EXCEPT ![c] = {}]
      /\ UNCHANGED <<commands, bulk, rc, lineno, logged, success_count, fail_count, good, bad>>
  BY DEF GetCard
<1>2. BulkShape'
  BY <1>1 DEF BulkInv, BulkShape, Working
<1>3. Once' /\ SoFar' /\ Over' /\ Counted'
  BY <1>1 DEF BulkInv, Once, SoFar, Over, Counted
<1>4. DoneIsDone'
  BY <1>1 DEF BulkInv, BulkShape, DoneIsDone
<1> QED BY <1>2, <1>3, <1>4 DEF BulkInv

LEMMA NoCardTaken ==
  ASSUME BulkInv, GetStops \/ GetFails
  PROVE  BulkInv'
<1>1. /\ stage = "get" /\ stage' \in {"get", "idle"} /\ fail_count' \in {fail_count, fail_count + 1}
      /\ UNCHANGED <<tray, commands, bulk, rc, lineno, logged, success_count, good, bad, did>>
  BY DEF GetStops, GetFails
<1>2. BulkShape'
  BY <1>1 DEF BulkInv, BulkShape, Working
<1>3. Once' /\ SoFar' /\ Over' /\ DoneIsDone'
  BY <1>1 DEF BulkInv, BulkShape, Once, SoFar, Over, DoneIsDone
<1>4. Counted'
  <2>1. Cardinality(bad) \in Nat
    BY FS_CardinalityType DEF BulkInv, BulkShape
  <2> QED BY <1>1, <2>1 DEF BulkInv, BulkShape, Counted
<1> QED BY <1>2, <1>3, <1>4 DEF BulkInv

LEMMA Processed ==
  ASSUME BulkInv, Process
  PROVE  BulkInv'
<1>1. /\ stage = "process" /\ lineno' = 1 /\ logged' = FALSE
      /\ (stage' = "script" /\ rc' = 0) \/ (stage' = "judge" /\ rc' = -1)
      /\ UNCHANGED <<tray, commands, bulk, success_count, fail_count, good, bad, did>>
  BY DEF Process
<1>2. BulkShape'
  BY <1>1 DEF BulkInv, BulkShape, Working
<1>3. Once' /\ Over' /\ DoneIsDone' /\ Counted'
  BY <1>1 DEF BulkInv, Once, Over, DoneIsDone, Counted
<1>4. SoFar'
  BY <1>1 DEF BulkInv, BulkShape, SoFar, Took
<1> QED BY <1>2, <1>3, <1>4 DEF BulkInv

\* A line that told nothing on stderr was done, or was none the shell knows.
LEMMA LineTaken ==
  ASSUME BulkInv, ScriptLine
  PROVE  BulkInv'
<1>1. /\ stage = "script" /\ lineno <= Len(bulk.script) /\ lineno' = lineno + 1
      /\ UNCHANGED <<tray, commands, stage, bulk, rc, success_count, fail_count, good, bad>>
  BY DEF ScriptLine, Outcome
<1>2. \/ \E fine \in BOOLEAN : Outcome(fine)
      \/ Line(lineno) \notin {"verify_adm", "write"} /\ UNCHANGED <<logged, did>>
  <2>1. CASE Line(lineno) = "verify_adm"
    <3>1. PICK a \in AdmOf(Ask) : Outcome(a.status = "found" /\ powered /\ Right("ADM1", a.value))
      BY <2>1 DEF ScriptLine
    <3>2. (a.status = "found" /\ powered /\ Right("ADM1", a.value)) \in BOOLEAN
      BY DEF Right
    <3> QED BY <3>1, <3>2
  <2>2. CASE Line(lineno) = "write"
    <3>1. Outcome(powered /\ "ADM1" \in opened[tray])
      BY <2>2 DEF ScriptLine
    <3> QED BY <3>1
  <2>3. CASE Line(lineno) \notin {"verify_adm", "write"}
    BY <2>3 DEF ScriptLine
  <2> QED BY <2>1, <2>2, <2>3
<1>3. tray \in Stock \ good
  BY <1>1 DEF BulkInv, BulkShape, Working
<1>4. /\ did' \in [Stock -> SUBSET Nat] /\ \A c \in good : did'[c] = did[c]
      /\ did[tray] \subseteq did'[tray] /\ logged' \in BOOLEAN /\ (~logged' => ~logged)
      /\ ~logged' => lineno \in did'[tray] \/ Line(lineno) \notin {"verify_adm", "write"}
  BY <1>2, <1>3, ZenonT(40) DEF BulkInv, BulkShape, Outcome
<1>5. BulkShape'
  BY <1>1, <1>4 DEF BulkInv, BulkShape, Working
<1>6. Once' /\ Over' /\ Counted'
  BY <1>1 DEF BulkInv, Once, Over, Counted
<1>7. DoneIsDone'
  BY <1>1, <1>4 DEF BulkInv, BulkShape, DoneIsDone
<1>8. SoFar'
  <2>1. SUFFICES ASSUME ~logged', NEW n \in Nat, n < lineno', n \in DOMAIN bulk.script, bulk.script[n] # "typo"
                 PROVE  n \in did'[tray]
    BY <1>1 DEF SoFar, Took
  <2>2. CASE n < lineno
    BY <1>1, <1>4, <2>1, <2>2 DEF BulkInv, SoFar, Took
  <2>3. CASE n = lineno
    <3>1. bulk.script[n] \in {"verify_adm", "write", "typo"}
      BY <2>1 DEF BulkInv, BulkShape
    <3> QED BY <1>4, <2>1, <2>3, <3>1 DEF Line
  <2> QED BY <1>1, <2>1, <2>2, <2>3 DEF BulkInv, BulkShape
<1> QED BY <1>5, <1>6, <1>7, <1>8 DEF BulkInv

LEMMA ScriptOver ==
  ASSUME BulkInv, ScriptEnds
  PROVE  BulkInv'
<1>1. /\ stage = "script" /\ lineno > Len(bulk.script) /\ stage' = "judge" /\ rc' = IF logged THEN -1 ELSE 0
      /\ UNCHANGED <<tray, commands, bulk, lineno, logged, success_count, fail_count, good, bad, did>>
  BY DEF ScriptEnds
<1>2. BulkShape'
  BY <1>1 DEF BulkInv, BulkShape, Working
<1>3. Once' /\ SoFar' /\ DoneIsDone' /\ Counted'
  BY <1>1 DEF BulkInv, Once, SoFar, DoneIsDone, Counted
<1>4. Over'
  <2>1. SUFFICES ASSUME ~logged, NEW n \in Nat, n \in DOMAIN bulk.script PROVE Took(tray, n)
    BY <1>1 DEF Over, Took
  <2>2. n < lineno
    BY <1>1, <2>1 DEF BulkInv, BulkShape
  <2> QED BY <1>1, <2>1, <2>2 DEF BulkInv, SoFar
<1> QED BY <1>2, <1>3, <1>4 DEF BulkInv

LEMMA Judged ==
  ASSUME BulkInv, Judge
  PROVE  BulkInv'
<1>1. /\ stage = "judge" /\ UNCHANGED <<tray, commands, bulk, rc, lineno, logged, good, bad, did>>
      /\ \/ rc = 0 /\ stage' = "bin" /\ success_count' = success_count + 1 /\ fail_count' = fail_count
         \/ rc # 0 /\ stage' \in {"get", "bin"} /\ success_count' = success_count /\ fail_count' = fail_count + 1
  BY DEF Judge
<1>2. BulkShape'
  BY <1>1 DEF BulkInv, BulkShape, Working
<1>3. Once'
  BY <1>1 DEF BulkInv, Once
<1>4. SoFar' /\ Over' /\ DoneIsDone'
  BY <1>1 DEF BulkInv, SoFar, Over, DoneIsDone, Took
<1>5. Counted'
  <2>1. Cardinality(bad) \in Nat /\ Cardinality(good) \in Nat
    BY FS_CardinalityType DEF BulkInv, BulkShape
  <2> QED BY <1>1, <2>1 DEF BulkInv, BulkShape, Counted
<1> QED BY <1>2, <1>3, <1>4, <1>5 DEF BulkInv

LEMMA Binned ==
  ASSUME BulkInv, Bin
  PROVE  BulkInv'
<1>1. /\ stage = "bin" /\ tray' = Nothing /\ stage' \in {"idle", "get"}
      /\ \/ rc = -1 /\ bad' = bad \cup {tray} /\ good' = good
         \/ rc = 0 /\ good' = good \cup {tray} /\ bad' = bad
      /\ UNCHANGED <<commands, bulk, rc, lineno, logged, success_count, fail_count, did>>
  BY DEF Bin, BulkInv, BulkShape
<1>2. tray \in Stock /\ tray \notin good /\ tray \notin bad
  BY <1>1 DEF BulkInv, BulkShape, Working
<1>3. /\ IsFiniteSet(good \cup {tray}) /\ Cardinality(good \cup {tray}) = Cardinality(good) + 1
      /\ IsFiniteSet(bad \cup {tray}) /\ Cardinality(bad \cup {tray}) = Cardinality(bad) + 1
  BY <1>2, FS_AddElement DEF BulkInv, BulkShape
<1>4. BulkShape'
  BY <1>1, <1>2, <1>3 DEF BulkInv, BulkShape, Working
<1>5. Once' /\ SoFar' /\ Over'
  BY <1>1 DEF BulkInv, Once, SoFar, Over
<1>6. DoneIsDone'
  <2>1. \A n \in DOMAIN bulk.script : n \in Nat
    BY DEF BulkInv, BulkShape
  <2> QED BY <1>1, <2>1 DEF BulkInv, DoneIsDone, Over, Took
<1>7. Counted'
  <2>1. Cardinality(bad) \in Nat /\ Cardinality(good) \in Nat
    BY FS_CardinalityType DEF BulkInv, BulkShape
  <2>2. success_count' = success_count /\ fail_count' = fail_count /\ stage' # "bin"
        /\ success_count \in Nat /\ fail_count \in Nat
    BY <1>1 DEF BulkInv, BulkShape
  <2>3. CASE rc = -1
    <3>1. success_count = Cardinality(good) /\ fail_count >= Cardinality(bad) + 1
      BY <1>1, <2>1, <2>3 DEF BulkInv, BulkShape, Counted
    <3>2. Cardinality(good') = Cardinality(good) /\ Cardinality(bad') = Cardinality(bad) + 1
      BY <1>1, <1>3, <2>3
    <3> QED BY <2>1, <2>2, <3>1, <3>2 DEF Counted
  <2>4. CASE rc = 0
    <3>1. success_count = Cardinality(good) + 1 /\ fail_count >= Cardinality(bad)
      BY <1>1, <2>1, <2>4 DEF BulkInv, BulkShape, Counted
    <3>2. Cardinality(good') = Cardinality(good) + 1 /\ Cardinality(bad') = Cardinality(bad)
      BY <1>1, <1>3, <2>4
    <3> QED BY <2>1, <2>2, <3>1, <3>2 DEF Counted
  <2> QED BY <1>1, <2>3, <2>4
<1> QED BY <1>4, <1>5, <1>6, <1>7 DEF BulkInv

LEMMA NextBulk == BulkInv /\ [DeskNext]_deskVars => BulkInv'
<1> SUFFICES ASSUME BulkInv, [DeskNext]_deskVars PROVE BulkInv'
  OBVIOUS
<1>1. ASSUME UNCHANGED loop, commands' = commands \/ Command, tray' = tray \/ stage = "idle"
      PROVE  BulkInv'
  BY <1>1, LoopKeeps
<1>2. ASSUME NEW t \in Typed, DoVerifyAdm(t) \/ DoVerifyChv(t) \/ DoDisableChv(t) \/ DoEnableChv(t)
      PROVE  BulkInv'
  BY <1>1, <1>2 DEF DoVerifyAdm, DoVerifyChv, DoDisableChv, DoEnableChv, Settled
<1>3. ASSUME NEW t \in Typed, NEW n \in Typed, DoChangeChv(n, t) \/ DoUnblockChv(t, n) PROVE BulkInv'
  BY <1>1, <1>3 DEF DoChangeChv, DoUnblockChv, Settled
<1>4. ASSUME NEW q \in Queries, NEW c \in Stock, DoQuery(q, type[c].iccid) PROVE BulkInv'
  BY <1>1, <1>4 DEF DoQuery
<1>5. CASE ResetCard \/ DoEquip \/ CardLost
  BY <1>1, <1>5 DEF ResetCard, DoEquip, CardLost
<1>6. ASSUME NEW c \in Stock, Insert(c) \/ GetCard(c) PROVE BulkInv'
  BY <1>1, <1>6, CardTaken DEF Insert
<1>7. CASE DoBulkScript \/ GetStops \/ GetFails
  BY <1>7, StartsBulk, NoCardTaken
<1>8. CASE BulkWork
  BY <1>8, Processed, LineTaken, ScriptOver, Judged, Binned DEF BulkWork
<1>9. CASE UNCHANGED deskVars
  BY <1>1, <1>9 DEF deskVars
<1> QED BY <1>2, <1>3, <1>4, <1>5, <1>6, <1>7, <1>8, <1>9 DEF DeskNext

\* pySim-shell.py:362-494: a card in the done bin took every line of the script
\* that the shell understood, and the statistics count the cards in the bins.
THEOREM BinsAreRight == DeskSpec => []BulkIsRight
<1>1. BulkInv => BulkIsRight
  <2> SUFFICES ASSUME BulkInv PROVE BulkIsRight
    OBVIOUS
  <2>1. Cardinality(bad) \in Nat /\ Cardinality(good) \in Nat
    BY FS_CardinalityType DEF BulkInv, BulkShape
  <2> QED BY <2>1 DEF BulkInv, BulkShape, Counted, BulkIsRight, CountsAgree
<1> QED BY <1>1, InitBulk, NextBulk, PTL DEF DeskSpec
=============================================================================
