------------------------------ MODULE MCWebUi ------------------------------
EXTENDS WebUi, TLC

\* a record file anybody may write, one that needs a key for it, and one
\* that needs the other key to be read
CONSTANT OldValue

MCReadCond  == [sms |-> "always", spn |-> "always", keys |-> "ADM1"]
MCWriteCond == [sms |-> "always", spn |-> "ADM2", keys |-> "never"]
MCEFs       == DOMAIN MCReadCond
MCRecords   == {"sms"}
MCContents  == [c \in Cards |-> [f \in MCEFs |-> c]]
MCOldDump   == [f \in MCEFs |-> OldValue]

CardSymmetry == Permutations(Cards)
=============================================================================
