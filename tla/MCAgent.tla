------------------------------- MODULE MCAgent -------------------------------
(***************************************************************************)
(* An instance of Agent for TLC: a session at 0 that an exception ends at  *)
(* 1, and two later instants that the SDK takes for a session, of which    *)
(* the calendar on chain has one.                                          *)
(***************************************************************************)
EXTENDS Agent

MCSdkSessions == {0, 2, 3}

MCChainSessions == {0, 3}

MCRegularHours == {0, 1, 2, 3}

MCMultipliers == {3, 4}
=============================================================================
