---------------------------- MODULE MCFailover ----------------------------
(* Constants for TLC: provider "a" with none or two auth profiles, "b" with *)
(* its default entry only, "c" unknown to the registry.                     *)
EXTENDS Failover

MCModelOf(m) == CASE m = "ma" -> "a" [] m = "mb" -> "b" [] m = "mc" -> "c"
MCChains == {<<>>, <<"ma", "mb">>}
MCProfileSets ==
    {[p \in Provider |-> <<>>],
     [p \in Provider |-> IF p = "a" THEN <<"main", "spare">> ELSE <<>>]}
=============================================================================
