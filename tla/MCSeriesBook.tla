---------------------------- MODULE MCSeriesBook ----------------------------
(***************************************************************************)
(* Small instances of SeriesBook for TLC.                                  *)
(***************************************************************************)
EXTENDS SeriesBook, TLC

\* Writers are interchangeable in every safety property.
Symmetry == Permutations(Writers)
=============================================================================
