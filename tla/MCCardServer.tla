---------------------------- MODULE MCCardServer ----------------------------
(***************************************************************************)
(* The server at a card: EF.IMSI of the USIM and EF.IST of the ISIM have   *)
(* the same file identifier (6f07), EF.PL below the MF is protected, the   *)
(* ISD-R has no file system, and EF.URSP is a BER-TLV file.                *)
(***************************************************************************)
EXTENDS CardServer, TLC

mf   == <<"MF">>
pl   == <<"MF", "EF.PL">>
usim == <<"MF", "ADF.USIM">>
imsi == <<"MF", "ADF.USIM", "EF.IMSI">>
isim == <<"MF", "ADF.ISIM">>
ist  == <<"MF", "ADF.ISIM", "EF.IST">>
isdr == <<"MF", "ADF.ISD-R">>
ursp == <<"MF", "ADF.USIM", "EF.URSP">>

MCMF     == mf
MCADFs   == {usim, isim, isdr}
MCFsADFs == {usim, isim}
MCFirst  == usim
MCEFs    == {pl, imsi, ist, ursp}
MCFiles  == {mf} \cup MCADFs \cup MCEFs
MCFid    == [f \in MCFiles \ MCADFs |->
              CASE f = mf -> "3f00" [] f = pl -> "2f05" [] f = ursp -> "4f0b" [] OTHER -> "6f07"]

connect     == <<[op |-> "connect"]>>
Read(f)     == [op |-> "read", path |-> f, value |-> NoValue]
Write(f, v) == [op |-> "write", path |-> f, value |-> v]
Tlv(op)     == [op |-> op, path |-> ursp, value |-> "v2"]
Adm(v)      == [op |-> "verify", path |-> NoFile, value |-> v]
Visit(f)    == [op |-> "visit", path |-> f, value |-> NoValue]

\* what one client may ask, one request after the other
SequentialRequests ==
  { connect, <<Read(imsi), Read(ist)>>, <<Write(ist, "v2")>>, <<Adm("right"), Write(pl, "v2")>>,
    <<Adm("wrong"), Read(pl)>>, <<Visit(isdr), Visit(mf)>>, <<Tlv("read_tlv")>>, <<Tlv("write_tlv")>> }

\* what two clients may ask at once
ConcurrentRequests == { <<Read(imsi)>>, <<Write(ist, "v1")>>, <<Visit(isdr)>> }

\* two clients, one of which may connect again meanwhile, and what connect()
\* reads then
ThreadRequests  == { <<Read(imsi)>>, connect }
ThreadInfoPaths == <<ist>>

\* the threads are alike (used where only safety is checked)
ThreadSymmetry == Permutations(Threads)

MCInfoPaths == <<imsi>>
MCAdmOnly == {pl}
MCTlvEFs  == {ursp}
=============================================================================
