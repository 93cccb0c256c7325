------------------------------- MODULE MCRail -------------------------------
(***************************************************************************)
(* An instance of Rail for TLC: a session cut short by an exception, with  *)
(* a night after it, prices that agree, disagree and are nothing, and      *)
(* three bindings.                                                         *)
(***************************************************************************)
EXTENDS Rail

MCBindings == {[primary |-> "Scope", secondary |-> "Scope"],
               [primary |-> "Pyth", secondary |-> "Scope"],
               [primary |-> "Scope", secondary |-> "none"]}

MCPrints == {[price |-> 100, conf |-> 0, full |-> TRUE],
             [price |-> 100, conf |-> 2, full |-> TRUE],
             [price |-> 103, conf |-> 0, full |-> TRUE],
             [price |-> 0, conf |-> 0, full |-> TRUE],
             [price |-> 100, conf |-> 0, full |-> FALSE]}
=============================================================================
