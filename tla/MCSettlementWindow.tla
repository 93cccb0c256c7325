------------------------- MODULE MCSettlementWindow -------------------------
(***************************************************************************)
(* Instances of SettlementWindow for TLC.  A day has four minutes, the two *)
(* in its middle are the session, and one day in the week is a holiday.    *)
(***************************************************************************)
EXTENDS SettlementWindow
=============================================================================
