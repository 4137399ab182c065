------------------------------ MODULE MCSocket ------------------------------
(* A small instance of SocketClient for TLC. *)
EXTENDS SocketClient, TLC

CONSTANTS ann, bob, web, admin, chat, news, m1, m2

\* Two tokens of one user with other expirations and audiences, one of
\* another user, one that is not signed for us.
SomeTokens == {[user |-> ann, exp |-> 2, aud |-> {web}, good |-> TRUE],
               [user |-> ann, exp |-> 4, aud |-> {web, admin}, good |-> TRUE],
               [user |-> bob, exp |-> 3, aud |-> {web}, good |-> TRUE],
               [user |-> bob, exp |-> 4, aud |-> {web}, good |-> FALSE]}

\* Two handlers of type chat that require authentication around an open one.
SomeHandlers == <<[type |-> chat, authenticated |-> TRUE],
                  [type |-> news, authenticated |-> FALSE],
                  [type |-> chat, authenticated |-> TRUE]>>
SomeTypes    == (m1 :> chat) @@ (m2 :> news)

\* The validator of the first handler is for chat payloads.
AcceptOwn == ({1, 2, 3} \X {m1, m2}) \ {<<1, m2>>}
=============================================================================
