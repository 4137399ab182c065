------------------------------ MODULE MCPubSub ------------------------------
(* Small instances of PubSub for TLC. *)
EXTENDS PubSub, TLC

CONSTANTS t1, s1, m1, p1

OneSub   == m1 :> s1
Kinds    == m1 :> "noDiff"
OneTopic == p1 :> t1

\* The message has neither state: malformed where a handler asks for Debezium.
AllOptions  == BOOLEAN \X BOOLEAN
=============================================================================
