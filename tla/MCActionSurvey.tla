---------------------------- MODULE MCActionSurvey ----------------------------
(***************************************************************************)
(* ActionSurvey for TLC.  Two mints, pages of one signature: every change  *)
(* lies at the end of a page.                                              *)
(***************************************************************************)
EXTENDS ActionSurvey
=============================================================================
