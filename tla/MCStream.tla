------------------------------ MODULE MCStream ------------------------------
(* Stream with two chunks: a piece, and two pieces with a newline between. *)
EXTENDS Stream

OneOrTwoPieces == {<<"x">>, <<"y", "z">>}
=============================================================================
