----------------------------- MODULE MCNesting ------------------------------
(* Every source of up to MaxLength characters, with a limit small enough for *)
(* most of the interesting ones to cross it.  Sources are not stored: two    *)
(* that leave the guard and the parser alike are one state.                  *)
EXTENDS Nesting
=============================================================================
