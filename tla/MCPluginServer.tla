--------------------------- MODULE MCPluginServer ---------------------------
(***************************************************************************)
(* PluginServer with interchangeable writers and payloads.                 *)
(***************************************************************************)
EXTENDS PluginServer, TLC

Symmetric == Permutations(Writers) \union Permutations(Values)
=============================================================================
