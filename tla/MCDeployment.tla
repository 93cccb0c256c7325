----------------------------- MODULE MCDeployment -----------------------------
(***************************************************************************)
(* An instance of Deployment for TLC: a table of two entries, an entry of  *)
(* somebody else's on one of the two days, and calendar 2 to change to.    *)
(***************************************************************************)
EXTENDS Deployment

Codec == INSTANCE Layouts

Entry(day, kind, close) == [dateKey |-> day, kind |-> kind, closeMinute |-> close]

MCEntries == {Entry(1, "closed", 0), Entry(2, "early", 780)}

MCStrayEntry == Entry(2, "closed", 0)

\* lib.ts, client.ts and token2022.ts against sdk/src/generated and what others write:
\* the bytes that the scripts, the client and the keeper pick out by hand are the ones
\* the program, the oracles and the token program put there. No step changes a layout:
\* TLC compares the readers once, before anything is sent.
HandDecodedIsGenerated == wire = <<>> => Codec!HandDecodedIsGenerated
=============================================================================
