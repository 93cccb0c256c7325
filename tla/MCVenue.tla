------------------------------ MODULE MCVenue ------------------------------
(***************************************************************************)
(* Small instances of Venue for TLC.  A day has two minutes, both of them  *)
(* session: what a weekend does to the clock is checked without the book.  *)
(***************************************************************************)
EXTENDS Venue, TLC

\* Writers are interchangeable in the safety properties.
Symmetry == Permutations(Writers)
=============================================================================
