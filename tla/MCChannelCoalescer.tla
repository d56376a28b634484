------------------------- MODULE MCChannelCoalescer -------------------------
(* ChannelCoalescer with two messages of each of two people.               *)
EXTENDS ChannelCoalescer, TLC

CONSTANTS a1, a2, b1, b2, alice, bob

Two  == (a1 :> alice) @@ (a2 :> alice) @@ (b1 :> bob) @@ (b2 :> bob)
=============================================================================
