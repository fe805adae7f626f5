------------------------------ MODULE PadBoard ------------------------------
(***************************************************************************)
(* What one host message does to the board: the picture each key shows and *)
(* the frames the cache holds.  A picture is a color, a glyph over it and a *)
(* count pip; the pixels themselves are not modelled.  These are the       *)
(* handlers of firmware/app.py, run with no batch open and no blinking key *)
(* (PushQueue and Batch have them), so a dirty key is drawn at the end      *)
(* of the same pass of the loop.                                           *)
(***************************************************************************)
EXTENDS Integers

CONSTANTS
  NumKeys,        \* keys are numbered from 0
  NumSlots,       \* slots of the frame cache, numbered from 0
  Colors,
  Glyphs,
  DefaultColor,   \* the color of a key at power-on
  None            \* no glyph, no slot, nothing stored

ASSUME PadAssumption ==
  /\ NumKeys \in Nat \ {0} /\ NumSlots \in Nat \ {0}
  /\ DefaultColor \in Colors
  /\ None \notin Glyphs /\ None \notin Int

Keys  == 0 .. NumKeys - 1
Slots == 0 .. NumSlots - 1

GlyphOrNone == Glyphs \union {None}
Frames      == [color : Colors, glyph : GlyphOrNone]
Pictures    == [color : Colors, glyph : GlyphOrNone, pip : Nat]
SlotChoice  == [Keys -> Slots \union {None}]    \* None: the key keeps its image
Counts      == [Keys -> Nat]

-----------------------------------------------------------------------------
(* The messages a host sends, one shape for each.                          *)

KeyMsgs   == [t : {"key"}, key : Keys, color : Colors, custom : BOOLEAN]
GlyphMsgs == [t : {"glyph"}, key : Keys, glyph : Glyphs]
StoreMsgs == [t : {"store"}, slot : Slots, frame : Frames]
ShowMsgs  == [t : {"show"}, slots : SlotChoice, counts : Counts]
SheetMsgs == [t : {"sheet"}]
Messages  == KeyMsgs \union GlyphMsgs \union StoreMsgs \union ShowMsgs \union SheetMsgs

(* A key of the board: its color and own pixels, the picture on its panel, *)
(* and whether that picture is a frame of the cache.                       *)
BoardKeys == [color : Colors, glyph : GlyphOrNone, on : Pictures, cached : BOOLEAN]

Plain(color, glyph) == [color |-> color, glyph |-> glyph, pip |-> 0]

PowerOnKey == [color |-> DefaultColor, glyph |-> None,
               on |-> Plain(DefaultColor, None), cached |-> FALSE]

(* A cached frame stays while color and pixels are the ones it was drawn   *)
(* for; anything else is composed again from the key's own state.          *)
Rendered(bk) ==
  IF bk.cached /\ bk.glyph = None /\ bk.color = bk.on.color
  THEN bk
  ELSE [bk EXCEPT !.on = Plain(bk.color, bk.glyph), !.cached = FALSE]

(* A built-in Emoji ID drops the key's image; the custom-glyph sentinel    *)
(* keeps the one in place.                                                 *)
WithKeyState(bk, m) ==
  IF m.custom
  THEN Rendered([bk EXCEPT !.color = m.color])
  ELSE Rendered([bk EXCEPT !.color = m.color, !.glyph = None, !.cached = FALSE])

WithGlyph(bk, m) == Rendered([bk EXCEPT !.glyph = m.glyph])

(* A count draws a pip only on a board that holds the pip sheet.           *)
WithCachedFrame(frame, count, hasSheet) ==
  [color |-> frame.color, glyph |-> None, cached |-> TRUE,
   on |-> [color |-> frame.color, glyph |-> frame.glyph,
           pip |-> IF hasSheet THEN count ELSE 0]]

Named(m)         == {k \in Keys : m.slots[k] # None}
Missed(cache, m) == {k \in Named(m) : cache[m.slots[k]] = None}

AfterShow(bkeys, cache, hasSheet, m) ==
  [k \in Keys |->
     IF k \in Named(m) \ Missed(cache, m)
     THEN WithCachedFrame(cache[m.slots[k]], m.counts[k], hasSheet)
     ELSE bkeys[k]]
=============================================================================
