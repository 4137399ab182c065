----------------------------- MODULE AtLeastOnce -----------------------------
(***************************************************************************)
(* What README.md promises of Pub/Sub message handling: a message leaves   *)
(* the subscription only when every handler has succeeded with it in one   *)
(* delivery, or when it cannot be parsed.  Refined by PubSub.              *)
(***************************************************************************)
CONSTANT Messages

VARIABLES left,        \* messages the broker still has to deliver
          processed,   \* messages every handler has succeeded with
          refused      \* messages that could not be parsed

aloVars == <<left, processed, refused>>

Init == left = Messages /\ processed = {} /\ refused = {}

\* Handled, but the acknowledgement is lost: it will be delivered again.
Process(m) == /\ processed' = processed \cup {m}
              /\ UNCHANGED <<left, refused>>

\* Handled and acknowledged.
Complete(m) == /\ processed' = processed \cup {m}
               /\ left' = left \ {m}
               /\ UNCHANGED refused

Refuse(m) == /\ refused' = refused \cup {m}
             /\ left' = left \ {m}
             /\ UNCHANGED processed

Next == \E m \in Messages : Process(m) \/ Complete(m) \/ Refuse(m)

Spec == Init /\ [][Next]_aloVars
=============================================================================
