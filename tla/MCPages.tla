------------------------------ MODULE MCPages ------------------------------
(***************************************************************************)
(* Lists of up to six elements in pages of two: empty, short, exactly full *)
(* and longer by one, with changes in front of, at and behind the offset.  *)
(* One more element can be inserted per change.                            *)
(***************************************************************************)
EXTENDS Pages

MCElements == 1..8
MCLists == {[i \in 1..n |-> i] : n \in 0..6}
=============================================================================
