------------------------------- MODULE SmsPdu -------------------------------
(***************************************************************************)
(* pySim/sms.py: the SMS T-PDUs the SMPP gateway builds for the card and   *)
(* parses from it, as sequences of octets, and their SMPP counterparts.    *)
(*                                                                         *)
(* An octet that is only looked at as a whole is a value of its own: the   *)
(* flags, the type of address, the user data (one element, whose length is *)
(* in the octet before it).  An octet of digits is a pair of digits; the   *)
(* number of octets and every offset are those of the code.                *)
(***************************************************************************)
EXTENDS Integers, Sequences

Filler == 15                                   \* the digit 'f'
IsDigits(s) == \A i \in DOMAIN s : s[i] \in 0..Filler

SmppTon == [UNKNOWN |-> "unknown", INTERNATIONAL |-> "international", NATIONAL |-> "national",
            NETWORK_SPECIFIC |-> "network_specific", SUBSCRIBER_NUMBER |-> "short_code",
            ALPHANUMERIC |-> "alphanumeric", ABBREVIATED |-> "abbreviated"]
SmppNpi == [UNKNOWN |-> "unknown", ISDN |-> "isdn_e164", DATA |-> "data_x121", TELEX |-> "telex_f69",
            LAND_MOBILE |-> "sc_specific6", NATIONAL |-> "national", PRIVATE |-> "private",
            ERMES |-> "ermes"]

FromSmpp(digits, ton, npi) == [digits |-> digits, ton |-> SmppTon[ton], npi |-> SmppNpi[npi]]
ToSmpp(a) == [digits |-> a.digits,
              ton |-> CHOOSE t \in DOMAIN SmppTon : SmppTon[t] = a.ton,
              npi |-> CHOOSE n \in DOMAIN SmppNpi : SmppNpi[n] = a.npi]

\* the digits are swapped in pairs by the BCD adapter; what is not a digit
\* cannot be encoded, and the caller finds out (IsDigits) before
AddressToBytes(a) ==
  LET n == Len(a.digits)
      d == IF n % 2 = 1 THEN Append(a.digits, Filler) ELSE a.digits
  IN <<n, [ton |-> a.ton, npi |-> a.npi]>>
       \o [i \in 1..(Len(d) \div 2) |-> <<d[2*i - 1], d[2*i]>>]

\* the address and what follows it
AddressFromBytes(b) ==
  LET n == b[1]
      m == (n \div 2) + (n % 2)
      d == [i \in 1..(2 * m) |-> b[2 + ((i + 1) \div 2)][IF i % 2 = 1 THEN 1 ELSE 2]]
  IN [addr |-> [digits |-> SubSeq(d, 1, n), ton |-> b[2].ton, npi |-> b[2].npi],
      rest |-> SubSeq(b, 3 + m, Len(b))]
-----------------------------------------------------------------------------
Eightbit == {"octet_unspecified", "octet_unspecified_common", "gsm_class_8bit"}
Scts     == <<2, 2, 7, 0, 5, 2, 0>>
BinaryDcs == 246                                \* 0xF6

\* SMS_DELIVER, towards the card.  The caller has checked the coding; an SMPP
\* PDU is [src, dst, dcs, pid, udhi, ud, udl], an address [digits, ton, npi].
DeliverFromSmpp(p) ==
  [mti |-> 0, rp |-> FALSE, udhi |-> p.udhi, sri |-> FALSE, lp |-> FALSE, mms |-> FALSE,
   oa |-> FromSmpp(p.src.digits, p.src.ton, p.src.npi),
   pid |-> p.pid, dcs |-> BinaryDcs, scts |-> Scts, udl |-> p.udl, ud |-> p.ud]

DeliverToBytes(d) ==
  <<[rp |-> d.rp, udhi |-> d.udhi, sri |-> d.sri, lp |-> d.lp, mms |-> d.mms, mti |-> d.mti]>>
    \o AddressToBytes(d.oa) \o <<d.pid, d.dcs>> \o d.scts \o <<d.udl, d.ud>>

DeliverFromBytes(b) ==
  LET a == AddressFromBytes(Tail(b))
      r == a.rest
  IN [mti |-> 0, rp |-> b[1].rp, udhi |-> b[1].udhi, sri |-> b[1].sri, lp |-> b[1].lp,
      mms |-> b[1].mms, oa |-> a.addr, pid |-> r[1], dcs |-> r[2], scts |-> SubSeq(r, 3, 9),
      udl |-> r[10], ud |-> r[11]]
-----------------------------------------------------------------------------
\* SMS_SUBMIT, from the card.
VpOctets(vpf) == CASE vpf = "none" -> 0 [] vpf = "relative" -> 1 [] OTHER -> 7

SubmitToBytes(s) ==
  <<[mti |-> 1, rd |-> s.rd, vpf |-> s.vpf, rp |-> s.rp, udhi |-> s.udhi, srr |-> s.srr], s.mr>>
    \o AddressToBytes(s.da) \o <<s.pid, s.dcs>> \o s.vp \o <<s.udl, s.ud>>

SubmitFromBytes(b) ==
  LET a == AddressFromBytes(SubSeq(b, 3, Len(b)))
      r == a.rest
      n == VpOctets(b[1].vpf)
  IN [mti |-> 1, rd |-> b[1].rd, vpf |-> b[1].vpf, rp |-> b[1].rp, udhi |-> b[1].udhi,
      srr |-> b[1].srr, mr |-> b[2], da |-> a.addr, pid |-> r[1], dcs |-> r[2],
      vp |-> SubSeq(r, 3, 2 + n), udl |-> r[3 + n], ud |-> r[4 + n]]

NoAddress == [digits |-> <<>>, ton |-> "unknown", npi |-> "unknown"]

\* the gateway delivers what the card submitted; nobody sets the originator
DeliverFromSubmit(s) ==
  [mti |-> 0, rp |-> s.rp, udhi |-> s.udhi, sri |-> FALSE, lp |-> FALSE, mms |-> FALSE,
   oa |-> NoAddress, pid |-> s.pid, dcs |-> s.dcs, scts |-> Scts, udl |-> s.udl, ud |-> s.ud]

\* DeliverSM; only for binary messages, which its caller has checked
DeliverToSmpp(d) ==
  [src |-> IF d.oa = NoAddress THEN NoAddress ELSE ToSmpp(d.oa), dst |-> NoAddress,
   udhi |-> TRUE, pid |-> d.pid, dcs |-> "octet_unspecified", ud |-> d.ud]
=============================================================================
