---------------------------- MODULE MCStateStore ----------------------------
(***************************************************************************)
(* StateStore with small sets of pictures, and the directories that an     *)
(* older daemon may have left: one with a glyph for the first key.         *)
(***************************************************************************)
EXTENDS StateStore

CONSTANTS p1, p2

OldOne == [k \in Keys |-> IF k = 0 THEN p1 ELSE None]
=============================================================================
