---------------------------- MODULE LayerFrames ----------------------------
(***************************************************************************)
(* How driver/layers draws on a board with a frame cache: the host's table *)
(* of the cache's slots (frameTable), the redraw after a mutation          *)
(* (flushFrames), and the preload that fills free slots while the pad is   *)
(* idle.  A redraw and each store of the preload hold sendMu.  Out is the  *)
(* transport of Reconnecting, by what it remembers after each call.        *)
(***************************************************************************)
EXTENDS Integers, FiniteSets

CONSTANTS
  NumKeys, NumSlots,
  FrameKeys,     \* one picture over one color: what a slot can hold
  BlankFrame,    \* the frame of a blank key
  Bulky,         \* frames whose picture does not compress: no slot takes them
  MaxCount,      \* counts of a view are 0 .. MaxCount
  CountCap,      \* the largest count a Show frames message carries (255)
  Looks,         \* what a view has besides: the icon byte, the color under a text
  Extras,        \* what the hidden layers may need besides the open one
  None,          \* no slot, no frame, nothing drawn
  Mixed,         \* a key that took a new glyph and not its new color
  MaxMutations, MaxPresses, MaxFailures      \* bounds

ASSUME FramesAssumption ==
  /\ NumKeys \in Nat \ {0} /\ NumSlots \in Nat /\ NumSlots >= 2 * NumKeys
  /\ BlankFrame \in FrameKeys /\ Bulky \subseteq FrameKeys \ {BlankFrame}
  /\ Extras \subseteq SUBSET FrameKeys
  /\ MaxCount \in Nat /\ CountCap \in Nat
  /\ MaxMutations \in Nat /\ MaxPresses \in Nat /\ MaxFailures \in Nat
  /\ None \notin Int /\ None \notin FrameKeys

VARIABLES
  \* the object, as far as it is drawn: a view for each key, and every frame
  \* of the tree; guarded by mu and written under sendMu
  want, needed,
  \* what the controller believes each key shows, guarded by sendMu
  shown, slotShown,
  \* the frame table, guarded by sendMu
  keyOf, slotOf, used, tick,
  \* the redraw that holds sendMu: how far it is and its local variables
  flush, left, slots, fallback,
  \* the preload: kicks and passes, the kick channel, and its locals
  kicks, passes, kick, preload, target, todo,
  \* quiet: PreloadIdle has passed since the last press; stop: Close came
  quiet, stop,
  \* what the transport remembers: frames, keys, and the slot a key shows
  held, pad, slotOnPad,
  mutations, presses, failures

object  == <<want, needed>>
belief  == <<shown, slotShown>>
table   == <<keyOf, slotOf, used, tick>>
locals  == <<left, slots, fallback>>
loop    == <<kicks, passes, kick, preload, target, todo>>
remote  == <<held, pad, slotOnPad>>
bounds  == <<mutations, presses, failures>>
vars == <<object, belief, table, flush, locals, loop, quiet, stop, remote, bounds>>

Keys  == 0 .. NumKeys - 1
Slots == 0 .. NumSlots - 1
SlotOrNone == Slots \union {None}

(* A view.  look is what the frame and the count do not show: the icon     *)
(* byte, and the color under an opaque text tile; blank keys have none.    *)
Unknown  == [kind |-> "unknown", frame |-> BlankFrame, count |-> 0, look |-> None]
Blank    == [kind |-> "blank", frame |-> BlankFrame, count |-> 0, look |-> None]
Views    == [kind : {"key"}, frame : FrameKeys, count : 0 .. MaxCount, look : Looks]
            \union {Blank}

Capped(n)  == IF n > CountCap THEN CountCap ELSE n
Picture(v) == [frame |-> v.frame, count |-> Capped(v.count)]
Pictures   == [frame : FrameKeys, count : 0 .. CountCap]

-----------------------------------------------------------------------------
(* The frame table.                                                        *)

Free   == {s \in Slots : keyOf[s] = None}
Pinned == {slotShown[k] : k \in Keys} \ {None}

(* claim takes the lowest free slot, or with evict the least recently used *)
(* one that no key shows.                                                  *)
ClaimableAny(evict) ==
  IF Free # {} THEN {s \in Free : \A r \in Free : s <= r}
  ELSE {s \in Slots : evict /\ \A r \in Slots : used[s] <= used[r]}

Claimable(evict) ==
  IF Free # {} THEN {s \in Free : \A r \in Free : s <= r}
  ELSE {s \in Slots \ Pinned : evict /\ \A r \in Slots \ Pinned : used[s] <= used[r]}

Touch(s) == tick' = tick + 1 /\ used' = [used EXCEPT ![s] = tick + 1]

(* What storeFrame leaves of a claim: the frame in its slot, or after a    *)
(* store that failed an empty one.                                         *)
Record(f, s, ok) ==
  /\ keyOf'  = [keyOf EXCEPT ![s] = IF ok THEN f ELSE None]
  /\ slotOf' = [g \in FrameKeys |-> IF g = f THEN (IF ok THEN s ELSE None)
                                    ELSE IF g = keyOf[s] THEN None ELSE slotOf[g]]

(* A call of the transport succeeds, or its write fails after the          *)
(* transport has recorded it ("lost").                                     *)
Outcomes(o) ==
  \/ o = "ok" /\ UNCHANGED failures
  \/ o = "lost" /\ failures < MaxFailures /\ failures' = failures + 1

(* storeFrame: a bulky picture is refused before the transport records it. *)
StoreFrame(f, s, ok) ==
  /\ Touch(s) /\ Record(f, s, ok)
  /\ IF f \in Bulky
     THEN ~ok /\ UNCHANGED <<held, failures>>
     ELSE Outcomes(IF ok THEN "ok" ELSE "lost") /\ held' = [held EXCEPT ![s] = f]

-----------------------------------------------------------------------------
(* The redraw.  A mutation takes sendMu, swaps the object in, and names    *)
(* the keys to draw; a key whose picture is the same only changes its      *)
(* view.                                                                   *)

UntouchedBlank(k, w) == w[k] = shown[k] \/ w[k].kind = "blank"
Untouched(k, w) == w[k] = shown[k] \/ (w[k].kind = "blank" /\ shown[k].kind = "unknown")
SameFrame(k, w) ==
  /\ shown[k].kind # "unknown" /\ slotShown[k] # None
  /\ w[k].frame = shown[k].frame
SamePicture(k, w) ==
  /\ shown[k].kind # "unknown" /\ slotShown[k] # None
  /\ w[k].frame = shown[k].frame /\ w[k].count = shown[k].count

Changed(w) == {k \in Keys : ~Untouched(k, w) /\ ~SamePicture(k, w)}

OpenFrames(w) == {w[k].frame : k \in Keys}

Mutate(w, extra) ==
  /\ flush = "no" /\ mutations < MaxMutations
  /\ mutations' = mutations + 1
  /\ want' = w /\ needed' = OpenFrames(w) \union extra
  /\ flush' = "keys" /\ left' = Changed(w)
  /\ slots' = [k \in Keys |-> None] /\ fallback' = {}
  /\ shown' = [k \in Keys |-> IF SamePicture(k, w) THEN w[k] ELSE shown[k]]
  /\ UNCHANGED <<slotShown, table, loop, quiet, stop, remote, presses, failures>>

(* One key at a time, in order: its frame is in the table, or is stored in *)
(* a slot, or the key falls back to an image of its own.                   *)
NextKey(k) == flush = "keys" /\ k \in left /\ \A j \in left : k <= j

LookUp(k) ==
  LET s == slotOf[want[k].frame] IN
  /\ NextKey(k) /\ s # None
  /\ Touch(s)
  /\ slots' = [slots EXCEPT ![k] = s] /\ left' = left \ {k}
  /\ UNCHANGED <<object, belief, keyOf, slotOf, flush, fallback, loop, quiet, stop,
                 remote, bounds>>

StoreForKey(k) ==
  /\ NextKey(k) /\ slotOf[want[k].frame] = None
  /\ \E s \in Claimable(TRUE), ok \in BOOLEAN :
       /\ StoreFrame(want[k].frame, s, ok)
       /\ slots' = [slots EXCEPT ![k] = IF ok THEN s ELSE None]
       /\ fallback' = IF ok THEN fallback ELSE fallback \union {k}
  /\ left' = left \ {k}
  /\ UNCHANGED <<object, belief, flush, loop, quiet, stop, pad, slotOnPad, mutations,
                 presses>>

NamedKeys == {k \in Keys : slots[k] # None}

(* One Show frames message for every key that has a slot.  The transport   *)
(* records it whether or not its write fails.                              *)
ShowFrames ==
  /\ flush = "keys" /\ left = {}
  /\ flush' = "fallback"
  /\ \E o \in {"ok", "lost"} :
       /\ Outcomes(o) /\ (NamedKeys = {} => o = "ok")
       /\ shown' = [k \in Keys |-> IF k \notin NamedKeys THEN shown[k]
                                   ELSE IF o = "ok" THEN want[k] ELSE Unknown]
       /\ slotShown' = [k \in Keys |-> IF k \notin NamedKeys THEN slotShown[k]
                                       ELSE IF o = "ok" THEN slots[k] ELSE None]
  /\ pad' = [k \in Keys |-> IF k \in NamedKeys
               THEN [frame |-> held[slots[k]], count |-> Capped(want[k].count)]
               ELSE pad[k]]
  /\ slotOnPad' = [k \in Keys |-> IF k \in NamedKeys THEN slots[k] ELSE slotOnPad[k]]
  /\ UNCHANGED <<object, table, locals, loop, quiet, stop, held, mutations, presses>>

(* A key without a slot gets its glyph and then its state; a failed write  *)
(* of the first leaves the glyph recorded over the old color.              *)
DrawKey(k) ==
  /\ flush = "fallback" /\ k \in fallback /\ \A j \in fallback : k <= j
  /\ fallback' = fallback \ {k}
  /\ \E o \in {"ok", "lost"} :
       /\ Outcomes(o)
       /\ shown' = [shown EXCEPT ![k] = IF o = "ok" THEN want[k] ELSE Unknown]
       /\ pad' \in {[pad EXCEPT ![k] = p] :
                     p \in {Picture(want[k])} \union (IF o = "lost" THEN {Mixed} ELSE {})}
  /\ slotShown' = [slotShown EXCEPT ![k] = None]
  /\ slotOnPad' = [slotOnPad EXCEPT ![k] = None]
  /\ UNCHANGED <<object, table, flush, left, slots, loop, quiet, stop, held, mutations,
                 presses>>

(* The redraw is done: the preload is kicked, and sendMu is free.          *)
KickIfWaiting == kicks' = kicks + 1 /\ kick' = (kick \/ preload = "wait")
Kick == kicks' = kicks + 1 /\ kick' = TRUE

EndFlush ==
  /\ flush = "fallback" /\ fallback = {}
  /\ flush' = "no" /\ Kick
  /\ slots' = [k \in Keys |-> None]
  /\ UNCHANGED <<object, belief, table, left, fallback, passes, preload, target, todo, quiet,
                 stop, remote, bounds>>

-----------------------------------------------------------------------------
(* The preload loop.  It takes a kick, notes how many there were, then     *)
(* copies the object, and stores the frames that the table lacks.          *)

Resting == UNCHANGED <<object, belief, flush, locals, quiet, stop, pad, slotOnPad,
                       mutations, presses>>

TakeKick ==
  /\ preload = "wait" /\ kick
  /\ kick' = FALSE /\ target' = kicks /\ preload' = "copy"
  /\ UNCHANGED <<kicks, passes, todo, table, held, failures>> /\ Resting

CopyObject ==
  /\ preload = "copy"
  /\ todo' = needed /\ preload' = "pass"
  /\ UNCHANGED <<kicks, passes, kick, target, table, held, failures>> /\ Resting

(* One frame, with sendMu held and the pad still idle.  Nothing is evicted. *)
PreloadFrame(f) ==
  /\ preload = "pass" /\ f \in todo /\ flush = "no" /\ quiet /\ stop = FALSE
  /\ todo' = todo \ {f}
  /\ IF slotOf[f] # None \/ Claimable(FALSE) = {}
     THEN UNCHANGED <<table, held, failures>>
     ELSE \E s \in Claimable(FALSE), ok \in BOOLEAN : StoreFrame(f, s, ok)
  /\ UNCHANGED <<kicks, passes, kick, preload, target>> /\ Resting

PassedAllKicks == passes' = kicks
PassedTarget   == passes' = target

EndPass ==
  /\ preload = "pass" /\ todo = {}
  /\ preload' = "wait" /\ PassedTarget /\ target' = 0
  /\ UNCHANGED <<kicks, kick, todo, table, held, failures>> /\ Resting

(* Close ends the loop where it looks: waiting for a kick, sleeping until  *)
(* the pad is idle, or with sendMu held before a frame.                    *)
StopWaiting ==
  /\ stop /\ preload = "wait"
  /\ preload' = "done" /\ todo' = {}
  /\ UNCHANGED <<kicks, passes, kick, target, table, held, failures>> /\ Resting
StopPreload ==
  /\ stop
  /\ \/ preload = "wait"
     \/ preload = "pass" /\ todo # {} /\ (~quiet \/ flush = "no")
  /\ preload' = "done" /\ todo' = {}
  /\ UNCHANGED <<kicks, passes, kick, target, table, held, failures>> /\ Resting

(* A press pauses the preload until PreloadIdle has passed.                *)
Press ==
  /\ presses < MaxPresses /\ presses' = presses + 1
  /\ quiet' = FALSE
  /\ UNCHANGED <<object, belief, table, flush, locals, loop, stop, remote, mutations,
                 failures>>

IdlePasses ==
  /\ ~quiet /\ quiet' = TRUE
  /\ UNCHANGED <<object, belief, table, flush, locals, loop, stop, remote, bounds>>

Close ==
  /\ stop = FALSE /\ stop' = TRUE
  /\ UNCHANGED <<object, belief, table, flush, locals, loop, quiet, remote, bounds>>

-----------------------------------------------------------------------------
(* Open has loaded an object and is in its first redraw; nothing was sent  *)
(* to any key.                                                             *)
Init ==
  /\ \E w \in [Keys -> Views], extra \in Extras :
       /\ want = w /\ needed = OpenFrames(w) \union extra
       /\ left = {k \in Keys : w[k].kind # "blank"}
  /\ shown = [k \in Keys |-> Unknown] /\ slotShown = [k \in Keys |-> None]
  /\ keyOf = [s \in Slots |-> None] /\ slotOf = [f \in FrameKeys |-> None]
  /\ used = [s \in Slots |-> 0] /\ tick = 0
  /\ flush = "keys" /\ slots = [k \in Keys |-> None] /\ fallback = {}
  /\ kicks = 0 /\ passes = 0 /\ kick = FALSE
  /\ preload = "wait" /\ target = 0 /\ todo = {}
  /\ quiet = TRUE /\ stop = FALSE
  /\ held = [s \in Slots |-> None] /\ pad = [k \in Keys |-> None]
  /\ slotOnPad = [k \in Keys |-> None]
  /\ mutations = 0 /\ presses = 0 /\ failures = 0

Flush ==
  \/ \E k \in Keys : LookUp(k) \/ StoreForKey(k) \/ DrawKey(k)
  \/ ShowFrames \/ EndFlush

Preload ==
  \/ TakeKick \/ CopyObject \/ EndPass \/ StopPreload
  \/ \E f \in FrameKeys : PreloadFrame(f)

Next ==
  \/ \E w \in [Keys -> Views], extra \in Extras : Mutate(w, extra)
  \/ Flush \/ Preload \/ Press \/ IdlePasses \/ Close

Spec == Init /\ [][Next]_vars

(* The goroutine that redraws and the preload run, and time passes.        *)
FairSpec == Spec /\ WF_vars(Flush \/ Preload \/ IdlePasses)

-----------------------------------------------------------------------------
TypeOK ==
  /\ want \in [Keys -> Views] /\ needed \subseteq FrameKeys
  /\ shown \in [Keys -> Views \union {Unknown}]
  /\ slotShown \in [Keys -> SlotOrNone]
  /\ keyOf \in [Slots -> FrameKeys \union {None}]
  /\ slotOf \in [FrameKeys -> SlotOrNone]
  /\ used \in [Slots -> Nat] /\ tick \in Nat
  /\ flush \in {"no", "keys", "fallback"}
  /\ left \subseteq Keys /\ fallback \subseteq Keys /\ slots \in [Keys -> SlotOrNone]
  /\ kicks \in Nat /\ passes \in Nat /\ target \in Nat /\ kick \in BOOLEAN
  /\ preload \in {"wait", "copy", "pass", "done"} /\ todo \subseteq FrameKeys
  /\ quiet \in BOOLEAN /\ stop \in BOOLEAN
  /\ held \in [Slots -> FrameKeys \union {None}]
  /\ pad \in [Keys -> Pictures \union {None, Mixed}]
  /\ slotOnPad \in [Keys -> SlotOrNone]
  /\ mutations \in Nat /\ presses \in Nat /\ failures \in Nat

(* The two halves of the table agree: no frame is recorded in two slots,   *)
(* and no slot is found under a frame it no longer holds (claim, release). *)
TableAgrees ==
  \A f \in FrameKeys, s \in Slots : slotOf[f] = s <=> keyOf[s] = f

(* A frame that the table places in a slot is what the transport holds     *)
(* there, through evictions, failed stores and the preload.                *)
TableIsHeld == \A s \in Slots : keyOf[s] # None => held[s] = keyOf[s]

(* Between the lookup of one key and the one Show frames message of the    *)
(* redraw, no later key of it evicts the slot: SlotCount leaves room for   *)
(* the slots that are shown and the slots that are about to be.            *)
NamedSlotsKept ==
  flush = "keys" => \A k \in NamedKeys : keyOf[slots[k]] = want[k].frame

(* What the controller believes a key shows is what the transport          *)
(* remembers for it, so skipping the redraw of an unchanged view is safe   *)
(* (the comparisons of flushFrames).                                       *)
ShownIsDrawn ==
  \A k \in Keys : shown[k].kind # "unknown" => pad[k] = Picture(shown[k])

(* A store never goes to a slot that the transport shows on a key, unless  *)
(* the controller has lost track of that key after a failed write          *)
(* (pinnedSlot).  Reconnecting assumes this of its callers.                *)
StoresSpareShown ==
  [][\A s \in Slots : held'[s] # held[s] =>
       \A k \in Keys : slotOnPad[k] = s => shown[k].kind = "unknown"]_vars

(* With no failed write, the pad shows the object after each redraw.       *)
PadShowsObject ==
  flush = "no" /\ failures = 0 =>
    \A k \in Keys : \/ pad[k] = Picture(want[k])
                    \/ pad[k] = None /\ want[k].kind = "blank"

(* When WaitPreload would report that it finished, every frame that the    *)
(* layers need is on the board, or no slot is free (its comment).  A pass  *)
(* that started before the last change of the object does not count.       *)
PreloadIsComplete ==
  flush = "no" /\ passes = kicks /\ failures = 0 =>
    \A f \in needed \ Bulky : slotOf[f] # None \/ Free = {}

(* The preload catches up with every kick, however presses and redraws     *)
(* interrupt it; a kick that comes during a pass is not lost.              *)
PreloadCatchesUp == <>[](~stop) => <>[](passes = kicks)

(* Close gets past its wait for the preload.                               *)
PreloadStops == stop ~> preload = "done"
=============================================================================
