--------------------------- MODULE MCReconnecting ---------------------------
(***************************************************************************)
(* Reconnecting with two colors and one glyph; callers store a frame of    *)
(* the one color that has no glyph, and one of the other that has one.     *)
(***************************************************************************)
EXTENDS Reconnecting

CONSTANTS black, red, g

PlainStates == {[color |-> black, custom |-> FALSE]}
PlainOnly == {[color |-> red, glyph |-> None]}
PlainAndGlyph == PlainOnly \union {[color |-> black, glyph |-> g]}
=============================================================================
