-------------------------------- MODULE Ota --------------------------------
(***************************************************************************)
(* pySim/ota.py, the SMS dialect of OTA commands and responses.            *)
(*                                                                         *)
(* Ciphertexts and checksums are symbolic: one is opened, the other        *)
(* matched, with the key and algorithm it was made with and nothing else.  *)
(* Lengths are those of the code, for they decide what is padded, what can *)
(* be decrypted and what fits.  Secured data is [id, len]: whose it is and *)
(* how long.  Failing with an exception is a record with `error`.          *)
(***************************************************************************)
EXTENDS Integers, Sequences

Raise(e) == [error |-> e]
Raised(r) == "error" \in DOMAIN r

CryptBlock == [single_des |-> 8, triple_des_cbc2 |-> 8, aes_cbc |-> 16]
AuthBlock  == [single_des |-> 8, triple_des_cbc2 |-> 8, aes_cmac |-> 1]

\* from_keyset finds the class of the algorithm among the subclasses
HasCrypt(ks) == ks.algo_crypt \in DOMAIN CryptBlock
HasAuth(ks)  == ks.algo_auth \in DOMAIN AuthBlock

\* -1: no such check
SigLen(rc_cc_ds) == CASE rc_cc_ds = "no_rc_cc_ds" -> 0
                      [] rc_cc_ds = "rc" -> 4
                      [] rc_cc_ds = "cc" -> 8
                      [] OTHER -> -1

Padding(n, multiple) == IF n % multiple = 0 THEN 0 ELSE multiple - (n % multiple)

\* a checksum: what was signed, padded with zeroes to the blocks of the algorithm
Sign(ks, data, len) == [kid |-> ks.kid, algo |-> ks.algo_auth, of |-> data,
                        zeroes |-> Padding(len, AuthBlock[ks.algo_auth])]
Encrypt(ks, plain, len) == [kic |-> ks.kic, algo |-> ks.algo_crypt, plain |-> plain,
                            zeroes |-> Padding(len, CryptBlock[ks.algo_crypt])]
Clear(plain) == [kic |-> "none", algo |-> "none", plain |-> plain, zeroes |-> 0]
Opens(ks, c) == c.kic = ks.kic /\ c.algo = ks.algo_crypt
-----------------------------------------------------------------------------
(* Commands.  A packet is [head, body, len]: the header that is never      *)
(* ciphered (CHL, SPI, KIc, KID, TAR), the ciphered or clear rest (CNTR,   *)
(* PCNTR, checksum, data with its padding) and the length of all of it.    *)

Limit == 140

\* Mutant: the padding is counted without the counter before the data.
CommandPadding_DataOnly(ks, sig, n) == Padding(sig + n, CryptBlock[ks.algo_crypt])

CommandPadding(ks, sig, n) == Padding(6 + sig + n, CryptBlock[ks.algo_crypt])

EncodeCmd(ks, tar, spi, apdu) ==
  LET sig  == SigLen(spi.rc_cc_ds)
      pad  == IF spi.ciphering THEN CommandPadding(ks, sig, apdu.len) ELSE 0
      head == [chl |-> 13 + sig, spi |-> spi, kic |-> [key |-> ks.kic_idx, algo |-> ks.algo_crypt],
               kid |-> [key |-> ks.kid_idx, algo |-> ks.algo_auth], tar |-> tar]
      cpl  == 8 + 6 + apdu.len + pad + sig
      sum  == [cpl |-> cpl, head |-> head, cntr |-> ks.cntr, pcntr |-> pad, data |-> apdu, pad |-> pad]
      check == CASE spi.rc_cc_ds = "cc" -> Sign(ks, sum, cpl + 2 - sig)
                 [] spi.rc_cc_ds = "rc" -> [of |-> sum]
                 [] OTHER -> [of |-> 0]
      plain == [cntr |-> ks.cntr, pcntr |-> pad, check |-> check, data |-> apdu, pad |-> pad]
      body  == IF spi.ciphering THEN Encrypt(ks, plain, cpl - 8) ELSE Clear(plain)
      len   == IF spi.ciphering THEN 2 + cpl + body.zeroes ELSE cpl
  IN IF sig = -1 \/ (spi.ciphering /\ ~HasCrypt(ks)) \/ (spi.rc_cc_ds = "cc" /\ ~HasAuth(ks))
     THEN Raise("ValueError")
     ELSE IF len > Limit THEN Raise("ValueError")
     ELSE [head |-> head, body |-> body, len |-> len]

\* The decoder takes every packet for a ciphered one and does not check
\* CRCs.  What it takes off the end are the padding octets PCNTR counts:
\* `over` is how many octets remain that the sender had not put in.
DecodeCmd(ks, p) ==
  LET b   == p.body.plain
      sum == [cpl |-> p.len - 2, head |-> p.head, cntr |-> b.cntr, pcntr |-> b.pcntr,
              data |-> b.data, pad |-> b.pad + p.body.zeroes]
  IN IF ~HasCrypt(ks) \/ ~Opens(ks, p.body) THEN Raise("garbage")
     ELSE IF p.head.spi.rc_cc_ds = "rc" THEN Raise("NotImplementedError")
     ELSE IF p.head.spi.rc_cc_ds = "cc" /\ b.check # Sign(ks, sum, p.len - 8) THEN Raise("OtaCheckError")
     ELSE [tar |-> p.head.tar, spi |-> p.head.spi, apdu |-> b.data,
           over |-> b.pad + p.body.zeroes - b.pcntr]
-----------------------------------------------------------------------------
(* Responses.  A message is [udhl, rpi, tar, rhl, body, len]: the length   *)
(* of the header, whether it has the IE 0x71, the part never ciphered, the *)
(* rest, and the length of that rest.                                      *)

\* Mutant: the checksum is not verified.
BadResponse_Unchecked(ks, spi, m, b) == spi.por_rc_cc_ds = "no_rc_cc_ds" /\ m.rhl # 10

\* what makes a parsed response an OtaCheckError
BadResponse(ks, spi, m, b) ==
  CASE spi.por_rc_cc_ds = "no_rc_cc_ds" -> m.rhl # 10
    [] spi.por_rc_cc_ds = "cc" ->
         b.check # Sign(ks, [tar |-> m.tar, rhl |-> m.rhl, cntr |-> b.cntr, status |-> b.status,
                             data |-> b.data, pcntr |-> b.pcntr], 3 + 6 + m.len)
    [] OTHER -> TRUE

Garbled == [cntr |-> 0, pcntr |-> 0, status |-> "garbled", check |-> [of |-> 0],
            data |-> [id |-> "garbled", len |-> 0]]

DecodeResp(ks, spi, m) ==
  LET ciphered == spi.por_shall_be_ciphered
      b == IF ciphered = (m.body.kic # "none") /\ (ciphered => Opens(ks, m.body))
           THEN m.body.plain ELSE Garbled
  IN IF m.udhl # 2 \/ ~m.rpi THEN Raise("ValueError")
     ELSE IF ciphered /\ (~HasCrypt(ks) \/ m.len % CryptBlock[ks.algo_crypt] # 0) THEN Raise("ValueError")
     ELSE IF BadResponse(ks, spi, m, b) THEN Raise("OtaCheckError")
     ELSE [status |-> b.status,
           dec |-> IF b.status = "por_ok" /\ b.data.len > 0 THEN b.data.id ELSE "none"]
=============================================================================
