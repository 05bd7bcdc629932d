------------------------------ MODULE GpShell ------------------------------
(***************************************************************************)
(* pySim-shell at work on a security domain: the logical channels of       *)
(* pySim-shell.py and pySim/runtime.py, the secure channels of             *)
(* pySim/global_platform/scp.py (SCP02, SCP03), and the card management    *)
(* commands of pySim/global_platform/__init__.py, which send one APDU      *)
(* after the other through them.                                           *)
(*                                                                         *)
(* A MAC is what it was computed over: the session and the numbers of the  *)
(* APDUs chained so far.  The card is external.                            *)
(***************************************************************************)
EXTENDS Naturals, Sequences, FiniteSets, TLC

CONSTANTS
  Channels,     \* numbers of logical channels, 0 is the basic one
  Kinds,        \* SCPs the user asks for: a subset of {"scp02", "scp03"}
  Levels,       \* security levels: of {"mac", "enc", "renc"}: 01, 03, 33
  Kvns, CardKvns, \* key versions the user gives; those the card has, by kind
  SMode,        \* bytes of a MAC of SCP03: 8 or 16
  Caps,         \* lengths of load files
  Stores,       \* lengths of STORE DATA values
  KeyLens,      \* lengths of keys
  Protocols,    \* of the card: a subset of {0, 1}
  Pages,        \* GET STATUS answers the card needs for its registry
  MaxApdus,     \* bound on the APDUs sent
  MaxIncidents  \* bound on lost APDUs and refusals of the card's own

ASSUME GpAssumption ==
  /\ 0 \in Channels /\ Channels \subseteq Nat
  /\ Kinds \subseteq {"scp02", "scp03"} /\ Caps \subseteq Nat /\ Stores \subseteq Nat \ {0}
  /\ SMode \in {8, 16}
  /\ MaxApdus \in Nat /\ MaxIncidents \in Nat /\ Pages \in Nat \ {0}

(* More than 256 blocks make a malformed APDU.                             *)
ASSUME StoresAreSmall == \A size \in Stores : size <= 256 * 239

VARIABLES
  lchan,     \* RuntimeState.lchan: the channels the runtime knows
  cur,       \* number of the lchan the shell works on
  stray,     \* the lchan the shell holds though the runtime has dropped it
  job,       \* the shell command under way
  ended,     \* history: how the last command ended
  apdus,     \* APDUs wrapped so far
  protocol,  \* T=0 or T=1
  card,      \* the card
  broken,    \* history: sessions that lost an APDU, or whose wrapping raised
  incidents  \* lost APDUs and refusals so far

vars == <<lchan, cur, stray, job, ended, apdus, protocol, card, broken, incidents>>

None == "none"
NoScp == [kind |-> None, level |-> None, sid |-> 0, chain |-> <<>>, ctr |-> 0]
NewLchan(n, sel) == [nr |-> n, sel |-> sel, scp |-> NoScp]
NoStray == NewLchan(0, None)
Idle == [cmd |-> None, rest |-> <<>>, sent |-> 0, done |-> 0, pages |-> 0, scp |-> NoScp]
NoSession == [kind |-> None, level |-> None, sid |-> 0, chain |-> <<>>, ctr |-> 0, on |-> FALSE]
NoEnd == [job |-> Idle, result |-> None]

(* self.lchan of the shell                                                 *)
Held == IF stray = NoStray THEN lchan[cur] ELSE stray

Init ==
  /\ lchan = [n \in {0} |-> NewLchan(0, "MF")]
  /\ cur = 0 /\ stray = NoStray
  /\ job = Idle /\ ended = NoEnd
  /\ apdus = 0
  /\ protocol \in Protocols
  /\ card = [open |-> {0}, sel |-> [c \in Channels |-> "MF"],
             sess |-> [c \in Channels |-> NoSession], sids |-> 0, key |-> <<>>,
             load |-> [on |-> FALSE, total |-> 0, got |-> 0, next |-> 0], caps |-> {}, page |-> 0]
  /\ broken = {} /\ incidents = 0

----------------------------------------------------------------------------
(* The APDUs of a command *)

Apdu(ins, case, len) ==
  [ins |-> ins, case |-> case, len |-> len, block |-> 0, last |-> FALSE, arg |-> <<>>]

Least(a, b) == IF a < b THEN a ELSE b
Blocks(total, most) == (total + most - 1) \div most

Chunks(ins, total, most) ==
  [i \in 1..Blocks(total, most) |->
     [Apdu(ins, 4, Least(most, total - (i - 1) * most)) EXCEPT
        !.block = (i - 1) % 256, !.last = (i = Blocks(total, most)), !.arg = <<total>>]]

(* bertlv_encode_len, after the tag C4                                     *)
LoadTotal(size) == size + (IF size < 128 THEN 2 ELSE IF size < 256 THEN 3 ELSE 4)
Load(size) == Chunks("load", LoadTotal(size), 240)

(* The number of a block is a byte.                                        *)
CapsAreSmall == \A size \in Caps : LoadTotal(size) <= 256 * 240

InstallForLoad(size) == [Apdu("install_load", 4, 30) EXCEPT !.arg = <<LoadTotal(size)>>]
InstallForInstall(size) == [Apdu("install_install", 4, 50) EXCEPT !.arg = <<LoadTotal(size)>>]
InstallCap(size) == <<InstallForLoad(size)>> \o Load(size) \o <<InstallForInstall(size)>>

(* SimCardCommands.max_cmd_len; SCP02 adds 8 bytes, SCP03 its MAC.         *)
MaxCmdLen(scp) ==
  CASE scp.kind = None -> 255 [] scp.kind = "scp02" -> 247 [] OTHER -> 255 - SMode

GetStatus(p2) == [Apdu("get_status", 4, 10) EXCEPT !.block = p2]

BlockSize(scp) == IF scp.kind = "scp02" THEN 8 ELSE 16

(* SCP02 encrypts keys with a key of the session, SCP03 with the card's.   *)
Dek(scp) ==
  CASE scp.kind = None -> <<None>> [] scp.kind = "scp02" -> <<"scp02", scp.sid>> [] OTHER -> <<"scp03">>

(* encrypt_key pads with as many zeroes as the last block has bytes.       *)
PaddedKey(scp, len) == IF scp.kind = None THEN len ELSE len + (len % BlockSize(scp))
KeyEncrypts(scp, len) == scp.kind = None \/ PaddedKey(scp, len) % BlockSize(scp) = 0
KeyBlock(scp, len) == [dek |-> Dek(scp), key |-> len]
PutKey(scp, len) == [Apdu("put_key", 4, PaddedKey(scp, len) + 8) EXCEPT !.arg = <<KeyBlock(scp, len), len>>]

----------------------------------------------------------------------------
(* Secure messaging *)

Cenc(scp) == scp.level \in {"enc", "renc"}
Rmac(scp) == scp.level = "renc"
Padded(len, size) == (len \div size + 1) * size

Raise(scp) == [ok |-> FALSE, scp |-> scp]
Sent(scp, ch, nr) ==
  [ok |-> TRUE, scp |-> [scp EXCEPT !.chain = Append(@, nr)], ch |-> ch,
   sid |-> scp.sid, mac |-> Append(scp.chain, nr), ctr |-> scp.ctr]
Moved(scp, nr) == [scp EXCEPT !.chain = Append(@, nr)]

(* The C-MAC is computed before the length of the encrypted data is known  *)
(* not to fit into a byte.                                                 *)
Wrap02(scp, nr, apdu, channel) ==
  IF channel # 0 \/ apdu.len + 8 > 255 THEN Raise(scp)
  ELSE IF Cenc(scp) /\ Padded(apdu.len, 8) + 8 > 255 THEN Raise(Moved(scp, nr))
  ELSE Sent(IF Cenc(scp) THEN [scp EXCEPT !.ctr = @ + 1] ELSE scp, 0, nr)

UncountedWrap03(scp, nr, apdu, channel) ==
  LET lc == IF Cenc(scp) /\ apdu.case > 2 THEN Padded(apdu.len, 16) ELSE apdu.len
      counted == IF Cenc(scp) /\ apdu.case > 2 THEN [scp EXCEPT !.ctr = @ + 1] ELSE scp
  IN IF lc >= 256 THEN Raise(scp)
     ELSE IF lc + SMode >= 256 THEN Raise(counted) ELSE Sent(counted, 0, nr)

(* The class byte that is sent is the one the MAC is computed over, with   *)
(* the logical channel set to zero.  The counter of the encryption counts  *)
(* commands without data, too.                                             *)
Wrap03(scp, nr, apdu, channel) ==
  LET lc == IF Cenc(scp) /\ apdu.case > 2 THEN Padded(apdu.len, 16) ELSE apdu.len
      counted == IF Cenc(scp) THEN [scp EXCEPT !.ctr = @ + 1] ELSE scp
  IN IF lc >= 256 THEN Raise(scp)
     ELSE IF lc + SMode >= 256 THEN Raise(counted) ELSE Sent(counted, 0, nr)

Plain(channel) == [ok |-> TRUE, scp |-> NoScp, ch |-> channel, sid |-> 0, mac |-> <<>>, ctr |-> 0]

IsGp(apdu) == apdu.ins \notin {"select", "open", "close"}

(* SimCardCommands.send_apdu and SCP.wrap_cmd_apdu                         *)
Wrap(held, nr, apdu) ==
  IF held.scp.kind = None \/ ~ IsGp(apdu) THEN [Plain(held.nr) EXCEPT !.scp = held.scp]
  ELSE IF held.scp.kind = "scp02" THEN Wrap02(held.scp, nr, apdu, held.nr)
  ELSE Wrap03(held.scp, nr, apdu, held.nr)

----------------------------------------------------------------------------
(* The card: what it makes of an APDU, as the set of its possible answers. *)

Answer(c, sw) == [card |-> c, sw |-> sw]

(* Has the wrapped APDU the MAC that comes next in the session of ch?      *)
Authentic(s, w, nr) == s.on /\ w.sid = s.sid /\ w.mac = Append(s.chain, nr)

SessionDek(s) == IF s.kind = "scp02" THEN <<"scp02", s.sid>> ELSE <<"scp03">>
CardKey(s, block) == IF block.dek = SessionDek(s) THEN <<block.key>> ELSE <<0>>

NoLoad == [on |-> FALSE, total |-> 0, got |-> 0, next |-> 0]

Carry(c, ch, apdu) ==
  LET s == c.sess[ch]
  IN CASE apdu.ins = "put_key" -> Answer([c EXCEPT !.key = <<CardKey(s, apdu.arg[1])[1], apdu.arg[2]>>], "9000")
       [] apdu.ins = "install_load" ->
            Answer([c EXCEPT !.load = [NoLoad EXCEPT !.on = TRUE]], "9000")
       [] apdu.ins = "load" ->
            LET l == [c.load EXCEPT !.total = apdu.arg[1], !.got = @ + apdu.len, !.next = (@ + 1) % 256]
            IN IF ~ c.load.on \/ apdu.block # c.load.next
               THEN Answer([c EXCEPT !.load = NoLoad], "6a80")
               ELSE Answer([c EXCEPT !.load = IF apdu.last THEN NoLoad ELSE l,
                                     !.caps = IF apdu.last THEN @ \cup {l} ELSE @], "9000")
       [] apdu.ins = "get_status" ->
            LET p == IF apdu.block % 2 = 0 THEN 1 ELSE c.page + 1
            IN Answer([c EXCEPT !.page = p], IF p < Pages THEN "6310" ELSE "9000")
       [] OTHER -> Answer(c, "9000")

Drop(c, ch) == [c EXCEPT !.sess[ch] = NoSession]

(* What the commands without a session do.                                 *)
CardPlain(c, ch, apdu, nr) ==
  CASE apdu.ins = "select" ->
         IF c.sel[ch] = apdu.arg[1] THEN Answer(c, "9000")
         ELSE Answer([Drop(c, ch) EXCEPT !.sel[ch] = apdu.arg[1]], "9000")
    [] apdu.ins = "open" ->
         IF apdu.arg[1] \in c.open THEN Answer(c, "6a86")
         ELSE Answer([c EXCEPT !.open = @ \cup {apdu.arg[1]},
                        !.sel[apdu.arg[1]] = IF ch = 0 THEN "MF" ELSE c.sel[ch]], "9000")
    [] apdu.ins = "close" ->
         IF apdu.arg[1] \notin c.open \ {0} THEN Answer(c, "6a86")
         ELSE Answer([Drop(c, apdu.arg[1]) EXCEPT !.open = @ \ {apdu.arg[1]}], "9000")
    [] apdu.ins = "init_update" ->
         IF c.sel[ch] # "SD" \/ apdu.arg[2] \notin CardKvns[apdu.arg[1]] THEN Answer(c, "6a88")
         ELSE Answer([c EXCEPT !.sids = @ + 1,
                        !.sess[ch] = [NoSession EXCEPT !.kind = apdu.arg[1], !.sid = c.sids + 1]], "9000")
    [] apdu.ins = "ext_auth" ->
         IF c.sess[ch].sid = apdu.arg[3] /\ ~ c.sess[ch].on
         THEN Answer([c EXCEPT !.sess[ch] = [@ EXCEPT !.level = apdu.arg[2], !.on = TRUE,
                                                     !.chain = <<nr>>]], "9000")
         ELSE Answer(Drop(c, ch), "6300")

CardStep(c, w, apdu, nr) ==
  LET s == c.sess[w.ch]
      next == [s EXCEPT !.chain = w.mac, !.ctr = IF Cenc(s) THEN @ + 1 ELSE @]
  IN IF w.ch \notin c.open THEN Answer(c, "6881")
     ELSE IF apdu.ins \in {"select", "open", "close", "init_update", "ext_auth"}
          THEN CardPlain(c, w.ch, apdu, nr)
     ELSE IF ~ Authentic(s, w, nr) THEN Answer(Drop(c, w.ch), "6982")
     ELSE IF Cenc(s) /\ apdu.case > 2 /\ w.ctr # next.ctr
          THEN Answer([c EXCEPT !.sess[w.ch] = next], "6a80")
     ELSE Carry([c EXCEPT !.sess[w.ch] = next], w.ch, apdu)

----------------------------------------------------------------------------
(* The shell *)

(* In a T=0 exchange the link asks for more as long as the status word is  *)
(* a warning, and gives its caller the last status word.                   *)
Seen(sw) == IF protocol = 0 /\ sw \in {"6310", "6300"} THEN "6f00" ELSE sw

HasData(ins) == ins \notin {"store_data", "set_status"}

(* A response that holds nothing but an R-MAC cannot be decrypted, and one *)
(* to a command sent without Le is not accepted.                           *)
UnwrapRaises(scp, apdu, sw) == Rmac(scp) /\ sw \in {"9000", "6310"} /\ ~ HasData(apdu.ins)

WithHeld(l) ==
  IF stray = NoStray THEN lchan' = [lchan EXCEPT ![cur] = l] /\ UNCHANGED stray
  ELSE stray' = l /\ UNCHANGED lchan

Start(cmd, list) ==
  /\ job = Idle
  /\ apdus < MaxApdus
  /\ job' = [Idle EXCEPT !.cmd = cmd, !.rest = list]
  /\ ended' = NoEnd
  /\ UNCHANGED <<lchan, cur, stray, apdus, protocol, card, broken, incidents>>

(* SCP.__init__: 0 is the first key the card has.                          *)
KvnFits(kind, kvn) ==
  \/ kvn = 0
  \/ kind = "scp02" /\ kvn \in {1} \cup 32..47 \cup {112}
  \/ kind = "scp03" /\ kvn \in 48..63

Establish ==
  /\ Held.scp.kind = None
  /\ \E kind \in Kinds, level \in Levels, kvn \in Kvns :
       /\ KvnFits(kind, kvn)
       /\ Start("establish", <<[Apdu("init_update", 4, 8) EXCEPT !.arg = <<kind, kvn, level>>]>>)

(* do_get_data, do_set_status, do_delete_card_content, do_delete_key       *)
Manage == \/ Start("set_status", <<Apdu("set_status", 3, 16)>>)
          \/ Start("delete", <<Apdu("delete", 4, 18)>>)
          \/ Start("get_data", <<Apdu("get_data", 2, 0)>>)

DoLoad == \E size \in Caps : Start("load", Load(size))
DoInstallCap == \E size \in Caps : Start("install_cap", InstallCap(size))
DoStoreData ==
  \E size \in Stores : Start("store_data", Chunks("store_data", size, MaxCmdLen(Held.scp)))
DoPutKey ==
  \E len \in KeyLens : KeyEncrypts(Held.scp, len) /\ Start("put_key", <<PutKey(Held.scp, len)>>)
DoGetStatus == Start("get_status", <<GetStatus(2)>>)
DoSelect ==
  \E sel \in {"MF", "SD"} : Start("select", <<[Apdu("select", 4, 7) EXCEPT !.arg = <<sel>>]>>)
DoOpenChannel ==
  \E n \in Channels \ {0} : Start("open", <<[Apdu("open", 1, 0) EXCEPT !.arg = <<n>>]>>)
DoCloseChannel ==
  \E n \in Channels \ {0} : Start("close", <<[Apdu("close", 1, 0) EXCEPT !.arg = <<n>>]>>)

DoReleaseScp ==
  /\ job = Idle /\ Held.scp.kind # None
  /\ WithHeld([Held EXCEPT !.scp = NoScp])
  /\ UNCHANGED <<cur, job, ended, apdus, protocol, card, broken, incidents>>

DoSwitchChannel ==
  /\ job = Idle
  /\ \E n \in DOMAIN lchan : n # Held.nr /\ cur' = n
  /\ stray' = NoStray
  /\ UNCHANGED <<lchan, job, ended, apdus, protocol, card, broken, incidents>>

(* What is left of RuntimeState.lchan[0]                                   *)
AfterReset == NewLchan(0, "MF")

DoReset ==
  /\ job = Idle
  /\ lchan' = [n \in {0} |-> AfterReset]
  /\ cur' = 0 /\ stray' = NoStray
  /\ card' = [card EXCEPT !.open = {0}, !.sel = [c \in Channels |-> "MF"], !.page = 0,
                          !.sess = [c \in Channels |-> NoSession], !.load = NoLoad]
  /\ ended' = NoEnd
  /\ UNCHANGED <<job, apdus, protocol, broken, incidents>>

End(j, result) == job' = Idle /\ ended' = [job |-> [j EXCEPT !.rest = <<>>, !.scp = NoScp], result |-> result]
Go(j) == job' = [j EXCEPT !.rest = Tail(@)] /\ UNCHANGED ended
GoOrEnd(j) == IF Len(j.rest) = 1 THEN End(j, "ok") ELSE Go(j)

(* The lchan a response to EXTERNAL AUTHENTICATE or SELECT leaves behind.  *)
HeldAfter(l, apdu, nr) ==
  CASE apdu.ins = "ext_auth" ->
         [l EXCEPT !.scp = [job.scp EXCEPT !.level = apdu.arg[2], !.chain = <<nr>>]]
    [] apdu.ins = "select" -> [l EXCEPT !.sel = apdu.arg[1]]
    [] OTHER -> l

ChannelsAfter(l, apdu) ==
  CASE apdu.ins = "open" ->
         /\ lchan' = [n \in DOMAIN lchan \cup {apdu.arg[1]} |->
                        IF n \in DOMAIN lchan THEN lchan[n] ELSE NewLchan(n, IF l.nr = 0 THEN "MF" ELSE l.sel)]
         /\ UNCHANGED stray
    [] apdu.ins = "close" ->
         /\ lchan' = [n \in DOMAIN lchan \ {apdu.arg[1]} |-> lchan[n]]
         /\ stray' = IF stray = NoStray /\ cur = apdu.arg[1] THEN l ELSE stray
    [] OTHER -> WithHeld(l)

(* parse_init_update_resp and gen_ext_auth_apdu, which knows no R-MAC for  *)
(* SCP02.                                                                  *)
Authenticate(j, apdu, sid) ==
  LET kind == apdu.arg[1]
      level == apdu.arg[3]
  IN IF kind = "scp02" /\ level = "renc" THEN End(j, "raised")
     ELSE /\ job' = [j EXCEPT !.scp = [NoScp EXCEPT !.kind = kind, !.sid = sid],
                     !.rest = <<[Apdu("ext_auth", 3, 8) EXCEPT !.arg = <<kind, level, sid>>]>>]
          /\ UNCHANGED ended

AllAccepted(apdu, sw) == TRUE

(* get_status alone does not go through send_apdu_checksw.                 *)
Accepted(apdu, sw) == apdu.ins = "get_status" \/ sw = "9000"

(* What the command does next.                                             *)
Answered(w, apdu, nr, l, a) ==
  LET sw == Seen(a.sw)
      carried == a.sw \in {"9000", "6310"} /\ w.ch = l.nr
      j == [job EXCEPT !.sent = @ + 1, !.done = IF carried THEN @ + 1 ELSE @]
      raises == \/ UnwrapRaises(l.scp, apdu, sw)
                \/ ~ Accepted(apdu, sw)
                \/ apdu.ins = "open" /\ apdu.arg[1] \in DOMAIN lchan
  IN /\ card' = a.card
     /\ IF raises THEN End(j, "raised") /\ WithHeld(l)
        ELSE /\ ChannelsAfter(HeldAfter(l, apdu, nr), apdu)
             /\ CASE apdu.ins = "init_update" -> Authenticate(j, apdu, a.card.sess[w.ch].sid)
                  [] apdu.ins = "get_status" ->
                       LET p == [j EXCEPT !.pages = IF a.sw \in {"9000", "6310"} THEN @ + 1 ELSE @]
                       IN IF sw = "6310" THEN job' = [p EXCEPT !.rest = <<GetStatus(3)>>] /\ UNCHANGED ended
                          ELSE End(p, "ok")
                  [] OTHER -> GoOrEnd(j)

(* The session an APDU has put out of step, if any.                        *)
Broken(w, l) == IF w.sid # 0 /\ w.ch # l.nr THEN {w.sid} ELSE {}

Exchange ==
  /\ job # Idle /\ apdus < MaxApdus
  /\ apdus' = apdus + 1
  /\ LET apdu == Head(job.rest)
         nr == apdus + 1
         w == Wrap(Held, nr, apdu)
         l == [Held EXCEPT !.scp = w.scp]
         a == CardStep(card, w, apdu, nr)
     IN IF ~ w.ok
        THEN /\ End([job EXCEPT !.sent = @ + 1], "raised") /\ WithHeld(l)
             /\ broken' = IF l = Held THEN broken ELSE broken \cup {l.scp.sid}
             /\ UNCHANGED <<card, incidents>>
        ELSE /\ \/ Answered(w, apdu, nr, l, a) /\ broken' = broken \cup Broken(w, l) /\ UNCHANGED incidents
                \/ /\ incidents < MaxIncidents
                   /\ incidents' = incidents + 1
                   /\ \/ UNCHANGED card /\ broken' = broken \cup ({w.sid} \ {0})
                      \/ card' = a.card /\ broken' = broken \cup Broken(w, l)
                   /\ End([job EXCEPT !.sent = @ + 1], "raised") /\ WithHeld(l)
  /\ UNCHANGED <<cur, protocol>>

Next ==
  \/ Establish \/ Manage \/ DoLoad \/ DoInstallCap \/ DoStoreData \/ DoPutKey \/ DoGetStatus
  \/ DoSelect \/ DoOpenChannel \/ DoCloseChannel \/ DoReleaseScp \/ DoSwitchChannel \/ DoReset
  \/ Exchange

Spec == Init /\ [][Next]_vars
----------------------------------------------------------------------------
Lchans == {lchan[n] : n \in DOMAIN lchan} \cup ({stray} \ {NoStray})

(* As long as no APDU of a session was lost, went astray or failed while   *)
(* it was wrapped, both ends agree on the MAC chaining value and on the    *)
(* encryption counter, after whatever commands the session has seen        *)
(* (_wrap_cmd_apdu).                                                       *)
InStep ==
  \A l \in Lchans :
    LET s == card.sess[l.nr]
    IN s.on /\ s.sid = l.scp.sid /\ s.sid \notin broken => s.chain = l.scp.chain /\ s.ctr = l.scp.ctr

(* A command that returns without an exception has been carried out whole, *)
(* each of its APDUs, on the channel the user gave it for.                 *)
AllCarriedOut ==
  ended.result = "ok" /\ ended.job.cmd # "get_status" => ended.job.done = ended.job.sent

(* A load file the card takes for complete is all of the CAP's, in order.  *)
LoadedIsWhole == \A l \in card.caps : l.got = l.total

(* A key the card stores is the one the user gave, whatever session it     *)
(* came through (encrypt_key).                                             *)
KeyIsMeant == card.key # <<>> => card.key[1] = card.key[2]

(* The list get_status returns is the whole registry, if the card has      *)
(* refused none of its APDUs and does not talk T=0.                        *)
ListIsWhole ==
  ended.result = "ok" /\ ended.job.cmd = "get_status" /\ ended.job.done = ended.job.sent
    /\ protocol = 1 => ended.job.pages = Pages

(* An lchan the runtime has dropped while the shell goes on with it is of  *)
(* no use: none of its commands is taken for a success until the shell     *)
(* leaves it (do_close_channel of the channel the shell works on).         *)
StrayDoesNothing ==
  stray # NoStray /\ ended.result = "ok" => ended.job.cmd \in {"close", "get_status"}

(* What the shell reports as done is done: whole, with the user's key, and *)
(* nothing left off a list; not on a channel the runtime has dropped.      *)
OkMeansDone == AllCarriedOut /\ LoadedIsWhole /\ KeyIsMeant /\ ListIsWhole /\ StrayDoesNothing
=============================================================================
