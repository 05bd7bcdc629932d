------------------------------ MODULE MCFiles ------------------------------
(***************************************************************************)
(* The file commands at their two levels: the APDUs of one transparent     *)
(* file (BinaryIO), and the shell over a card of several files             *)
(* (ShellFiles).  They share no state; every behaviour is one of either.   *)
(***************************************************************************)
EXTENDS BinaryIO, ShellFiles

VARIABLE level

\* BinaryIO: three chunks, the last one shorter; two different contents, one
\* of which is what one of the buffers would write
MCBytes    == {0, 1, 2}
MCBuffers  == {[i \in 0..(MaxLen - 1) |-> 1], [i \in 0..(MaxLen - 1) |-> i % 3]}
MCContents == {[i \in 0..(FileLen - 1) |-> 0], [i \in 0..(FileLen - 1) |-> i % 3]}

\* ShellFiles: a file of every structure, and what can be wrong with one
FF == 9
E(structure, codec) == [structure |-> structure, class |-> structure, codec |-> codec, counted |-> TRUE, ends9402 |-> TRUE,
                        leftpad |-> FALSE, lenient |-> FALSE]
MCEFs  == {"t", "r", "b", "p"}
MCTree == [d \in {"mf", "df", "sub"} |-> CASE d = "mf" -> <<"df", "t", "r">> [] d = "df" -> <<"b", "sub">> [] OTHER -> <<"p">>]

Plain  == [t |-> E("transparent", "plain"), r |-> E("linear_fixed", "plain"), b |-> E("ber_tlv", "plain"), p |-> E("transparent", "records")]
Tlvs   == [Plain EXCEPT !.t.codec = "tlv", !.r.codec = "tlv", !.b.lenient = TRUE]
Odd    == { [Plain EXCEPT !.r.counted = FALSE], [Plain EXCEPT !.r.counted = FALSE, !.r.ends9402 = FALSE],
            [Plain EXCEPT !.t.class = "linear_fixed"], [Plain EXCEPT !.t.codec = "none"], [Plain EXCEPT !.r.codec = "bad"], [Plain EXCEPT !.r.leftpad = TRUE] }
Body(t, b, p) == [t |-> t, r |-> <<<<1, FF>>, <<FF, FF>>>>, b |-> b, p |-> p]
One    == [x \in {1} |-> <<1>>]
Bodies == { Body(<<1, 2, FF>>, One, <<1, 2, 1, 1>>), Body(<<FF, FF, FF>>, Nothing, <<1, 2, 1>>) }
Long   == { Body(<<1, 2, FF>>, [x \in {1, 2} |-> IF x = 1 THEN <<1, 2>> ELSE <<>>], <<1, 2, 1, 1>>),
            Body(<<1, 2, FF>>, [x \in {1, 300} |-> <<1>>], <<1, 2, 1, 1>>) }
MCCards == {[kind |-> k, body |-> b] : k \in {Plain, Tlvs}, b \in Bodies} \cup {[kind |-> k, body |-> b] : k \in Odd, b \in {CHOOSE b \in Bodies : b.b = One}}
           \cup {[kind |-> Tlvs, body |-> b] : b \in Long}

None_   == [f \in MCEFs \cup {"mf", "df", "sub"} |-> {}]
MCDenials == { None_, [None_ EXCEPT !["r"] = {"select"}], [None_ EXCEPT !["df"] = {"select"}], [None_ EXCEPT !["b"] = {"read"}, !["p"] = {"read"}],
               [f \in DOMAIN None_ |-> {"update"}] }
S(f)    == Cmd("select", f, 0, <<>>)
MCCommands == { S("t"), S("r"), S("b"), S("p"),
                Cmd("update_binary", "mf", 0, <<2>>), Cmd("update_binary", "mf", 0, <<>>), Decoded_("update_binary_decoded", "t", 0, <<<<2>>>>), Decoded_("update_binary_decoded", "p", 0, <<<<2, 1>>, <<1, 2>>>>),
                Cmd("update_record", "mf", 2, <<2>>), Decoded_("update_record_decoded", "r", 1, <<<<2>>>>),
                Cmd("set_data", "mf", 1, <<2>>), Cmd("set_data", "mf", 2, <<2, 2>>), Cmd("set_data", "mf", 1, <<>>), Cmd("delete_data", "mf", 1, <<>>), Cmd("delete_all", "mf", 0, <<>>) }


\* what is typed before the export is as good as another card to begin with,
\* and a second export as a first; some files stand for every single one
MCShellNext ==
  /\ ShellNext
  /\ typed' # typed => script # <<>> /\ outset = Nothing
  /\ job = "idle" /\ job' \in {"export", "dump", "custom"} => script = <<>> /\ dumped = Nothing
  /\ job' = "custom" => asJson'
  /\ single' => visit' \in {"r", "b", "df"}

\* the other level rests in one of its initial states
APDUs  == level = "APDUs" /\ sel = Top /\ denied = None_ /\ kind = Plain /\ body = Body(<<1, 2, FF>>, One, <<1, 2, 1, 1>>) /\ ~conserve_write
\* conserve_write tells only where writing is refused, and what is wrong with a
\* file hardly depends on what else is refused
Shell  == /\ level = "shell" /\ (conserve_write <=> denied["t"] = {"update"})
          /\ kind \in Odd \/ body \in Long \/ (kind = Tlvs /\ body.b = Nothing) => denied \in {None_, [None_ EXCEPT !["b"] = {"read"}, !["p"] = {"read"}]}
          /\ readable /\ writable /\ sizeKnown /\ buf[0] = 1 /\ \A i \in DOMAIN file : file[i] = 0
MCInit == Init /\ ShellInit /\ (APDUs \/ Shell)
MCNext == \/ level = "APDUs" /\ Next /\ UNCHANGED <<level, shellVars>>
          \/ level = "shell" /\ MCShellNext /\ UNCHANGED <<level, vars>>
MCSpec == MCInit /\ [][MCNext]_<<level, vars, shellVars>>
=============================================================================
