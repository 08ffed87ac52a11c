------------------------------ MODULE MCRouter ------------------------------
(* Router with every channel of capacity one and three casts: two calls with  *)
(* one client, which is where channels fill up and answers may be mixed up;   *)
(* one call with two clients that both answer it; and one call that may be    *)
(* malformed or cancelled, with a client that sends every type of message.    *)
EXTENDS Router

CONSTANTS c1, c2, u1, u2

TwoCalls == [calls |-> {c1, c2}, fickle |-> {}, clients |-> {u1},
             types |-> {"user_response"}]
TwoClients == [calls |-> {c1}, fickle |-> {}, clients |-> {u1, u2},
               types |-> {"disconnect", "user_response"}]
AnyMessage == [calls |-> {c1}, fickle |-> {c1}, clients |-> {u1},
               types |-> {"connect", "disconnect", "other", "user_response"}]

ThreeCasts == {TwoCalls, TwoClients, AnyMessage}

\* One call, and a client that answers questions.
Dialogue == {[TwoCalls EXCEPT !.calls = {c1}]}
=============================================================================
