----------------------------- MODULE MCDumpWalk -----------------------------
EXTENDS DumpWalk, MCCardTree

\* what DumpMissesNothing asks of the card, which this one grants
ASSUME ThisCard == Chan!CanLeave

\* children in profile order, then (of the MF) the applications
MCListing == [d \in MCFiles \ MCEFs |->
  CASE d = mf -> <<tel, isdr, usim, isim>>
    [] d = tel -> <<pb, telArr>>
    [] d = pb -> <<pbr>>
    [] d = usim -> <<imsi, uArr>>
    [] d = isim -> <<ist>>
    [] OTHER -> <<>>]

MCStructure == [f \in MCEFs |-> IF f = telArr THEN "records" ELSE IF f = pbr THEN "tlv" ELSE "transparent"]
MCOutcomes  == [MCEFs \ {uArr, extra} -> {"ok", "refused", "mismatched"}]

MCBefore == {<<"ADF.ISD-R">>, <<"MF", "ADF.USIM", "EF.IMSI">>, <<"MF", "ADF.USIM", "EF.ARR">>,
             <<"MF", "DF.TELECOM", "DF.PHONEBOOK">>}
=============================================================================
