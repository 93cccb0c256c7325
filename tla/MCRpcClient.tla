---------------------------- MODULE MCRpcClient ----------------------------
(***************************************************************************)
(* RpcClient for TLC: three groups of accounts, the last one short, in two *)
(* requests, the last one short too, by two workers.                       *)
(***************************************************************************)
EXTENDS RpcClient
=============================================================================
