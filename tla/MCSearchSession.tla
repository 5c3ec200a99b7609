--------------------------- MODULE MCSearchSession ---------------------------
(* SearchSession and its properties for TLC; the cards are model values. *)
EXTENDS SearchSessionProps
=============================================================================
