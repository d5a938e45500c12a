------------------------- MODULE MCStoppableThread -------------------------
(***************************************************************************)
(* StoppableThread for a source and two loops in a chain behind it, in the *)
(* order of their names.                                                   *)
(***************************************************************************)
EXTENDS StoppableThread, TLC

CONSTANTS input_loop, unpack_loop, write_loop

MCLoops == {input_loop, unpack_loop, write_loop}
MCSources == {input_loop}
MCFeeder == (unpack_loop :> input_loop) @@ (write_loop :> unpack_loop)
MCMapOrder == <<input_loop, unpack_loop, write_loop>>
=============================================================================
