------------------------------ MODULE PadKeys ------------------------------
(***************************************************************************)
(* The keys of a pad, which are numbers, and sets of them as the code goes *)
(* through them: in order.                                                 *)
(***************************************************************************)
EXTENDS Integers, Sequences, FiniteSets

CONSTANTS NumKeys, None      \* None: no frame, no batch, no value

Keys == 0 .. NumKeys - 1

InOrder(S) ==
  [n \in 1 .. Cardinality(S) |-> CHOOSE k \in S : Cardinality({j \in S : j <= k}) = n]
=============================================================================
