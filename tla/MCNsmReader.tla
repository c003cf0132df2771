---------------------------- MODULE MCNsmReader ----------------------------
(* Every stream of up to seven bytes over four classes, and with the       *)
(* carriage return as well up to five; a buffer of two bytes and a limit   *)
(* of four.                                                                *)
EXTENDS NsmReader

MCStreams ==
  BoundedSeq({Newline, Space, Brace, "x"}, 7) \cup
  BoundedSeq({Newline, Return, Space, Brace, "x"}, 5)
=============================================================================
