------------------------------ MODULE FileStore ------------------------------
(***************************************************************************)
(* What the callers of pysim_wrapper.py rely on.  The card is a store of   *)
(* files named by their path.  A client has at most one call in progress.  *)
(* A call that is answered with success took effect as a whole on the file *)
(* its path names and on no other; one answered with an error changed      *)
(* nothing, except that a write may have written a part of its data to     *)
(* that file.                                                              *)
(***************************************************************************)
CONSTANTS Clients, Paths, Values, NoCall, NoValue

VARIABLES content,  \* content[p]: what the file p holds, in two parts
          pending,  \* pending[c]: the call the client c waits for
          answer    \* answer[c]: what it was last told

storeVars == <<content, pending, answer>>

Call   == [op : {"read"}, path : Paths] \cup [op : {"write"}, path : Paths, value : Values]
Content   == Values \X Values
NoContent == <<NoValue, NoValue>>
Refusal   == [ok |-> FALSE, value |-> NoContent]

StoreInit ==
  /\ content \in [Paths -> Content]
  /\ pending = [c \in Clients |-> NoCall]
  /\ answer = [c \in Clients |-> Refusal]

Ask(c) ==
  /\ pending[c] = NoCall
  /\ \E call \in Call : pending' = [pending EXCEPT ![c] = call]
  /\ UNCHANGED <<content, answer>>

Read(c) ==
  /\ pending[c] # NoCall /\ pending[c].op = "read"
  /\ answer' = [answer EXCEPT ![c] = [ok |-> TRUE, value |-> content[pending[c].path]]]
  /\ UNCHANGED content

\* the first part is written, and the call goes on
WritePart(c) ==
  /\ pending[c] # NoCall /\ pending[c].op = "write"
  /\ content' = [content EXCEPT ![pending[c].path] = <<pending[c].value, @[2]>>]
  /\ UNCHANGED <<pending, answer>>

Write(c) ==
  /\ pending[c] # NoCall /\ pending[c].op = "write"
  /\ content' = [content EXCEPT ![pending[c].path] = <<pending[c].value, pending[c].value>>]
  /\ answer' = [answer EXCEPT ![c] = [ok |-> TRUE, value |-> NoContent]]

Refuse(c) ==
  /\ pending[c] # NoCall
  /\ answer' = [answer EXCEPT ![c] = Refusal]
  /\ UNCHANGED content

\* without a connection a call is refused at once
RefuseAtOnce(c) ==
  /\ pending[c] = NoCall
  /\ answer' = [answer EXCEPT ![c] = Refusal]
  /\ UNCHANGED <<content, pending>>

Serve(c) == /\ Read(c) \/ Write(c) \/ Refuse(c)
            /\ pending' = [pending EXCEPT ![c] = NoCall]

StoreNext == \E c \in Clients : Ask(c) \/ WritePart(c) \/ Serve(c) \/ RefuseAtOnce(c)

StoreSpec == StoreInit /\ [][StoreNext]_storeVars
=============================================================================
