--------------------------- MODULE MCRuntimeLchan ---------------------------
(***************************************************************************)
(* The two ways in which the software knows where a card stands: it moves  *)
(* the card's file pointer itself (RuntimeLchan), or it follows what a     *)
(* terminal does (ApduTrace).  They share the card's tree and no state;    *)
(* every behaviour is one of either.                                       *)
(***************************************************************************)
EXTENDS RuntimeLchan, ApduTrace, MCCardTree
VARIABLE part

\* as the web server asks (from the MF down), as the shell does (relative,
\* by FID), for a file the card lacks, and for names nobody knows
MCPaths == { <<"MF", "DF.TELECOM", "DF.PHONEBOOK", "EF.PBR">>,
             <<"MF", "ADF.USIM", "EF.ARR">>, <<"ADF.ISIM", "6f07">>,
             <<"ADF.ISD-R", "EF.NONE">>, <<"ADF.ISD-R">>, <<"DF.TELECOM">>,
             <<"EF.ARR">>, <<"6f3a">>, <<"MF">> }
MCHexIds == {"6f3a", "6f07"}

\* what the theorems ask of the card, which this one grants
ASSUME ThisCard == NoBlindSiblings /\ CanLeave

\* the tracer does not know the ISIM; the terminal goes by FID (to the MF, a
\* directory, one next to it, an EF), by path, and by AID
MCKnown   == MCProfile \ {isim, ist}
MCSfi     == [f \in MCEFs |-> IF f \in {imsi, ist} THEN "7" ELSE IF f = telArr THEN "6" ELSE ""]
S(mode, ids) == [mode |-> mode, ids |-> ids]
MCSelects == {S("fid", <<"3f00">>), S("fid", <<"7f10">>), S("fid", <<"7f20">>), S("fid", <<"6f07">>),
              S("from_mf", <<"7fff", "6f07">>), S("from_df", <<"5f3a", "4f30">>), S("aid", <<"ADF.USIM">>), S("aid", <<"ADF.ISIM">>)}

MCInit == Init /\ TraceInit /\ part \in {"drives", "follows"} /\ (part = "drives" => source = "tpdu")
MCNext == \/ part = "drives" /\ Next /\ UNCHANGED <<part, traceVars>>
          \/ part = "follows" /\ TraceNext /\ UNCHANGED <<part, vars>>
MCSpec == MCInit /\ [][MCNext]_<<part, vars, traceVars>> /\ WF_<<part, vars, traceVars>>(part = "drives" /\ Step /\ UNCHANGED <<part, traceVars>>)
=============================================================================
