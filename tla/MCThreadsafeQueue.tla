------------------------- MODULE MCThreadsafeQueue -------------------------
(***************************************************************************)
(* ThreadsafeQueue with two producers and two consumers on a queue of size *)
(* one, which holds two items before a producer waits.                     *)
(***************************************************************************)
EXTENDS ThreadsafeQueue, TLC

CONSTANTS p1, p2, c1, c2

MCProducers == {p1, p2}
MCConsumers == {c1, c2}
MCMaxSize == 1
MCPushBound == 3
MCSpuriousBound == 1
=============================================================================
