-------------------------------- MODULE MCOta --------------------------------
EXTENDS OtaGateway

Keyset(i, crypt, auth) ==
  [algo_crypt |-> crypt, kic_idx |-> i, kic |-> <<"kic", i>>,
   algo_auth |-> auth, kid_idx |-> i, kid |-> <<"kid", i>>, cntr |-> 0]
MCCardKeys == [i \in 1..2 |-> IF i = 1 THEN Keyset(1, "triple_des_cbc2", "triple_des_cbc2")
                                       ELSE Keyset(2, "aes_cbc", "aes_cmac")]
MCCardTars == {"b00011"}

Spi(ciph, chk, bysms, porciph, porchk, want) ==
  [ciphering |-> ciph, rc_cc_ds |-> chk, por_in_submit |-> bysms,
   por_shall_be_ciphered |-> porciph, por_rc_cc_ds |-> porchk, por |-> want]

Base == [ks |-> MCCardKeys[1], tar |-> "b00011", len |-> 10, src |-> <<1, 2>>,
         pdu |-> "submit_sm", dcs |-> "octet_unspecified", pid |-> 127,
         spi |-> Spi(TRUE, "cc", FALSE, TRUE, "cc", "por_required")]

\* the tool's defaults; AES with a PoR that is signed and comes in a message
\* of its own; no protection at all; ciphered only; a wrong key; a length no
\* command can have; another PDU; an unknown application, from an odd number
MCConfigs ==
  {Base,
   [Base EXCEPT !.ks = MCCardKeys[2], !.len = 5, !.spi = Spi(TRUE, "cc", TRUE, FALSE, "cc", "por_required")],
   [Base EXCEPT !.len = 7, !.spi = Spi(FALSE, "no_rc_cc_ds", FALSE, FALSE, "no_rc_cc_ds", "por_required")],
   [Base EXCEPT !.spi = Spi(TRUE, "no_rc_cc_ds", FALSE, TRUE, "no_rc_cc_ds", "por_required")],
   [Base EXCEPT !.ks.kic = <<"other", 1>>, !.src = <<1, 2, 3>>, !.spi.por_shall_be_ciphered = FALSE],
   [Base EXCEPT !.len = 130],
   [Base EXCEPT !.pdu = "data_sm"],
   [Base EXCEPT !.tar = "b00000", !.src = <<1, 2, 3>>,
                !.spi = Spi(TRUE, "rc", FALSE, FALSE, "cc", "por_only_when_error")]}

Text == [udhl |-> 2, rpi |-> FALSE, tar |-> "none", rhl |-> 10, len |-> 7, body |-> Clear(0)]
MCUnrelated == {Command("SetUpEventList"), Command("OpenChannel"), Command("CloseChannel"), SendSms(Text)}

ASSUME KidsAreGiven
=============================================================================
