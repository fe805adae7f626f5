------------------------- MODULE LayerFramesProofs -------------------------
(***************************************************************************)
(* Proofs about LayerFrames, for any number of keys, any set of frames and *)
(* any cache with at least two slots for each key: the frame table stays a *)
(* bijection, a redraw keeps the slots it has named, what the controller   *)
(* believes is drawn is drawn, the pad ends with the object, and a preload *)
(* that has finished is complete.                                          *)
(***************************************************************************)
EXTENDS LayerFrames, FiniteSetTheorems, WellFoundedInduction, TLAPS

(* A slot that a key shows holds a frame, and it is the slot the transport *)
(* shows on that key.                                                      *)
PinnedHold == \A k \in Keys : slotShown[k] # None => keyOf[slotShown[k]] # None
PinsAgree  == \A k \in Keys : shown[k].kind # "unknown" => slotOnPad[k] = slotShown[k]

(* The slots that the redraw has named so far are the most recently used   *)
(* of those that hold a frame; a store that failed leaves its slot empty.  *)
Named == {slots[k] : k \in NamedKeys}
NamedAreNewest ==
  /\ \A s \in Slots : used[s] <= tick
  /\ flush = "keys" =>
       /\ left \intersect NamedKeys = {}
       /\ \A r \in Slots \ Named, s \in Named : keyOf[r] # None => used[r] < used[s]

FInv == TypeOK /\ TableAgrees /\ TableIsHeld /\ NamedSlotsKept /\ ShownIsDrawn
        /\ PinnedHold /\ PinsAgree /\ NamedAreNewest

-----------------------------------------------------------------------------
(* The claim of a slot.                                                    *)

(* An image has no more members than its finite domain.                    *)
LEMMA ImageCardinality ==
  ASSUME NEW S, IsFiniteSet(S), NEW g
  PROVE  /\ IsFiniteSet({g[x] : x \in S})
         /\ Cardinality({g[x] : x \in S}) <= Cardinality(S)
  <1> DEFINE T == {g[x] : x \in S}
             f == [x \in S |-> g[x]]
  <1>1. f \in Surjection(S, T)
    BY DEF Surjection
  <1> QED
    BY <1>1, FS_Surjection

(* What names a slot names one of the slots of the table.                  *)
LEMMA NamedAreSlots == TypeOK => Named \subseteq Slots
  BY DEF TypeOK, Named, NamedKeys, SlotOrNone

(* The keys show at most NumKeys slots, and the redraw has named fewer, so *)
(* a slot is left that is in neither set.                                  *)
LEMMA SlotToSpare ==
  ASSUME TypeOK, NEW k \in Keys, k \notin NamedKeys
  PROVE  \E r \in Slots : r \notin Pinned /\ r \notin Named
  <1> USE FramesAssumption DEF TypeOK
  <1>1. IsFiniteSet(Keys) /\ Cardinality(Keys) = NumKeys
    BY FS_Interval DEF Keys
  <1>2. IsFiniteSet(Slots) /\ Cardinality(Slots) = NumSlots
    BY FS_Interval DEF Slots
  <1>3. IsFiniteSet(Keys \ {k}) /\ Cardinality(Keys \ {k}) = NumKeys - 1
    BY <1>1, FS_RemoveElement
  <1> DEFINE A == {slotShown[x] : x \in Keys}
             B == {slots[x] : x \in Keys \ {k}}
  <1>4. IsFiniteSet(A) /\ Cardinality(A) <= NumKeys
    BY <1>1, ImageCardinality
  <1>5. IsFiniteSet(B) /\ Cardinality(B) <= NumKeys - 1
    BY <1>3, ImageCardinality
  <1>6. IsFiniteSet(A \union B) /\ Cardinality(A \union B) < NumSlots
    <2>1. IsFiniteSet(A \union B)
          /\ Cardinality(A \union B) = Cardinality(A) + Cardinality(B) - Cardinality(A \intersect B)
      BY <1>4, <1>5, FS_Union
    <2>2. IsFiniteSet(A \intersect B)
      BY <1>4, FS_Subset
    <2>3. Cardinality(A) \in Nat /\ Cardinality(B) \in Nat /\ Cardinality(A \intersect B) \in Nat
      BY <1>4, <1>5, <2>2, FS_CardinalityType
    <2> QED
      BY <1>4, <1>5, <2>1, <2>3
  <1>7. ~(Slots \subseteq A \union B)
    <2> SUFFICES ASSUME Slots \in SUBSET (A \union B) PROVE FALSE
      OBVIOUS
    <2>1. Cardinality(Slots) <= Cardinality(A \union B)
      BY <1>6, FS_Subset
    <2>2. Cardinality(A \union B) \in Nat
      BY <1>6, FS_CardinalityType
    <2> QED
      BY <1>2, <1>6, <2>1, <2>2
  <1>8. PICK r \in Slots : r \notin A /\ r \notin B
    BY <1>7
  <1>9. Named \subseteq B
    BY DEF Named, NamedKeys
  <1> QED
    BY <1>8, <1>9 DEF Pinned

(* A slot that a redraw claims is one that no key shows and that the same  *)
(* redraw has not named.                                                   *)
LEMMA ClaimSpares ==
  ASSUME FInv, NEW k \in Keys, NextKey(k), NEW s \in Claimable(TRUE)
  PROVE  s \in Slots /\ s \notin Pinned /\ s \notin Named
  <1> USE FramesAssumption DEF FInv
  <1>1. CASE Free # {}
    <2>1. s \in Slots /\ keyOf[s] = None
      BY <1>1 DEF Claimable, Free
    <2>2. s \notin Pinned
      BY <2>1 DEF Pinned, PinnedHold
    <2>3. s \notin Named
      <3>1. \A j \in NamedKeys : keyOf[slots[j]] \in FrameKeys
        BY DEF NamedSlotsKept, NextKey, NamedKeys, TypeOK, Views, Blank
      <3> QED
        BY <2>1, <3>1 DEF Named
    <2> QED
      BY <2>1, <2>2, <2>3
  <1>2. CASE Free = {}
    <2>1. s \in Slots \ Pinned /\ \A r \in Slots \ Pinned : used[s] <= used[r]
      BY <1>2 DEF Claimable
    <2>2. PICK r \in Slots : r \notin Pinned /\ r \notin Named
      BY SlotToSpare DEF NamedAreNewest, NextKey
    <2>3. ASSUME s \in Named PROVE FALSE
      <3>1. used[r] < used[s] /\ used[s] <= used[r]
        BY <1>2, <2>1, <2>2, <2>3 DEF NamedAreNewest, NextKey, Free
      <3>2. used[r] \in Nat /\ used[s] \in Nat
        BY <2>1, <2>2 DEF TypeOK
      <3> QED
        BY <3>1, <3>2
    <2> QED
      BY <2>1, <2>3
  <1> QED
    BY <1>1, <1>2

(* The preload claims only free slots.                                     *)
LEMMA PreloadSpares ==
  ASSUME FInv, NEW s \in Claimable(FALSE)
  PROVE  s \in Slots /\ s \notin Pinned
  BY FramesAssumption DEF FInv, Claimable, Free, Pinned, PinnedHold

-----------------------------------------------------------------------------
(* One store: what storeFrame does to the table, for any slot that no key  *)
(* shows.                                                                  *)

(* A store, done or failed, keeps the table agreeing with the board.       *)
LEMMA StoreKeepsTable ==
  ASSUME FInv, NEW f \in FrameKeys, slotOf[f] = None, NEW s \in Slots, s \notin Pinned,
         NEW ok \in BOOLEAN, StoreFrame(f, s, ok), UNCHANGED slotShown
  PROVE  /\ keyOf' = [keyOf EXCEPT ![s] = IF ok THEN f ELSE None]
         /\ keyOf' \in [Slots -> FrameKeys \union {None}]
         /\ slotOf' \in [FrameKeys -> SlotOrNone]
         /\ used' = [used EXCEPT ![s] = tick + 1] /\ used' \in [Slots -> Nat]
         /\ tick' = tick + 1 /\ tick' \in Nat
         /\ held' \in [Slots -> FrameKeys \union {None}] /\ failures' \in Nat
         /\ TableAgrees' /\ TableIsHeld' /\ PinnedHold'
  <1> USE FramesAssumption DEF FInv, TypeOK, StoreFrame, Record, Touch, Outcomes, SlotOrNone
  <1>1. keyOf' = [keyOf EXCEPT ![s] = IF ok THEN f ELSE None]
    OBVIOUS
  <1>2. keyOf' \in [Slots -> FrameKeys \union {None}]
    BY <1>1
  <1>3. slotOf' \in [FrameKeys -> SlotOrNone]
    OBVIOUS
  <1>4. /\ used' = [used EXCEPT ![s] = tick + 1] /\ used' \in [Slots -> Nat]
        /\ tick' = tick + 1 /\ tick' \in Nat
    OBVIOUS
  <1>5. held' \in [Slots -> FrameKeys \union {None}] /\ failures' \in Nat
    OBVIOUS
  <1>6. TableAgrees'
    <2> SUFFICES ASSUME NEW g \in FrameKeys, NEW r \in Slots
                 PROVE  slotOf'[g] = r <=> keyOf'[r] = g
      BY DEF TableAgrees
    <2>1. slotOf[g] = r <=> keyOf[r] = g
      BY DEF TableAgrees
    <2>2. slotOf[g] = s <=> keyOf[s] = g
      BY DEF TableAgrees
    <2>3. r # None /\ g # None /\ f # None
      BY DEF Slots
    <2> QED
      BY <2>1, <2>2, <2>3
  <1>7. TableIsHeld'
    <2> SUFFICES ASSUME NEW r \in Slots, keyOf'[r] # None
                 PROVE  held'[r] = keyOf'[r]
      BY DEF TableIsHeld
    <2>1. keyOf[r] # None => held[r] = keyOf[r]
      BY DEF TableIsHeld
    <2> QED
      BY <2>1
  <1>8. PinnedHold'
    BY DEF PinnedHold, Pinned
  <1> QED
    BY <1>1, <1>2, <1>3, <1>4, <1>5, <1>6, <1>7, <1>8

-----------------------------------------------------------------------------
(* The initial states, and each action in turn.                            *)

(* The invariant holds before anything is stored.                          *)
LEMMA InitInv == Init => FInv
  <1> SUFFICES ASSUME Init PROVE FInv
    OBVIOUS
  <1> USE FramesAssumption DEF Init
  <1>1. PICK w \in [Keys -> Views], extra \in Extras :
          want = w /\ needed = OpenFrames(w) \union extra
          /\ left = {k \in Keys : w[k].kind # "blank"}
    OBVIOUS
  <1>2. needed \subseteq FrameKeys
    BY <1>1 DEF OpenFrames, Views, Blank
  <1>3. TypeOK
    BY <1>1, <1>2 DEF TypeOK, SlotOrNone
  <1>4. NamedKeys = {} /\ Named = {}
    BY DEF NamedKeys, Named
  <1>5. TableAgrees
    BY DEF TableAgrees, Slots
  <1>6. TableIsHeld /\ NamedSlotsKept /\ PinnedHold
    BY <1>4 DEF TableIsHeld, NamedSlotsKept, PinnedHold
  <1>7. ShownIsDrawn /\ PinsAgree
    BY DEF ShownIsDrawn, PinsAgree, Unknown
  <1>8. NamedAreNewest
    BY <1>4 DEF NamedAreNewest
  <1> QED
    BY <1>3, <1>5, <1>6, <1>7, <1>8 DEF FInv

(* A change of the layer object keeps the invariant.                       *)
LEMMA MutateKeeps ==
  ASSUME FInv, NEW w \in [Keys -> Views], NEW extra \in Extras, Mutate(w, extra)
  PROVE  FInv'
  <1> USE FramesAssumption DEF FInv, Mutate, table, loop, remote
  <1>1. needed' \subseteq FrameKeys
    BY DEF OpenFrames, Views, Blank
  <1>2. shown' \in [Keys -> Views \union {Unknown}]
    BY DEF TypeOK
  <1>3. TypeOK'
    BY <1>1, <1>2 DEF TypeOK, Changed, SlotOrNone
  <1>4. NamedKeys' = {} /\ Named' = {}
    BY DEF NamedKeys, Named
  <1>5. TableAgrees' /\ TableIsHeld' /\ NamedSlotsKept' /\ PinnedHold'
    BY <1>4 DEF TableAgrees, TableIsHeld, NamedSlotsKept, PinnedHold
  <1>6. ShownIsDrawn' /\ PinsAgree'
    <2> SUFFICES ASSUME NEW k \in Keys, shown'[k].kind # "unknown"
                 PROVE  pad'[k] = Picture(shown'[k]) /\ slotOnPad'[k] = slotShown'[k]
      BY DEF ShownIsDrawn, PinsAgree, Picture, Capped
    <2>1. CASE SamePicture(k, w)
      <3>1. pad[k] = Picture(shown[k]) /\ slotOnPad[k] = slotShown[k]
        BY <2>1 DEF SamePicture, ShownIsDrawn, PinsAgree
      <3>2. Picture(shown[k]) = Picture(w[k])
        BY <2>1 DEF SamePicture, Picture
      <3> QED
        BY <2>1, <3>1, <3>2
    <2>2. CASE ~SamePicture(k, w)
      BY <2>2 DEF ShownIsDrawn, PinsAgree
    <2> QED
      BY <2>1, <2>2
  <1>7. NamedAreNewest'
    BY <1>4 DEF NamedAreNewest
  <1> QED
    BY <1>3, <1>5, <1>6, <1>7

(* Looking a key up, and naming its slot, keeps the invariant.             *)
LEMMA LookUpKeeps ==
  ASSUME FInv, NEW k \in Keys, LookUp(k)
  PROVE  FInv'
  <1> USE FramesAssumption DEF FInv, object, belief, loop, remote, bounds
  <1> DEFINE s == slotOf[want[k].frame]
  <1>1. /\ NextKey(k) /\ s # None /\ tick' = tick + 1 /\ used' = [used EXCEPT ![s] = tick + 1]
        /\ slots' = [slots EXCEPT ![k] = s] /\ left' = left \ {k}
        /\ UNCHANGED <<want, needed, shown, slotShown, keyOf, slotOf, flush, fallback, kicks,
                       passes, kick, preload, target, todo, quiet, stop, held, pad,
                       slotOnPad, mutations, presses, failures>>
    BY DEF LookUp, Touch
  <1>2. want[k].frame \in FrameKeys /\ s \in Slots
    BY <1>1 DEF TypeOK, Views, Blank, SlotOrNone
  <1>3. keyOf[s] = want[k].frame
    BY <1>2 DEF TableAgrees
  <1> HIDE DEF s
  <1>4. TypeOK'
    BY <1>1, <1>2 DEF TypeOK, SlotOrNone
  <1>5. TableAgrees' /\ TableIsHeld' /\ PinnedHold' /\ ShownIsDrawn' /\ PinsAgree'
    BY <1>1 DEF TableAgrees, TableIsHeld, PinnedHold, ShownIsDrawn, PinsAgree
  <1>6. k \notin NamedKeys /\ flush = "keys"
    BY <1>1 DEF NextKey, NamedAreNewest
  <1>7. NamedKeys' = NamedKeys \union {k}
    BY <1>1, <1>2 DEF NamedKeys, TypeOK, Slots
  <1>8. NamedSlotsKept'
    BY <1>1, <1>3, <1>6, <1>7 DEF NamedSlotsKept, NamedKeys, TypeOK
  <1>9. Named' = Named \union {s}
    <2>1. \A j \in NamedKeys : slots'[j] = slots[j]
      BY <1>1, <1>6 DEF NamedKeys, TypeOK
    <2>2. slots'[k] = s
      BY <1>1 DEF TypeOK
    <2> QED
      BY <1>7, <2>1, <2>2 DEF Named
  <1>10. NamedAreNewest'
    <2>1. \A r \in Slots : used'[r] <= tick'
      BY <1>1, <1>2 DEF NamedAreNewest, TypeOK
    <2>2. left' \intersect NamedKeys' = {}
      BY <1>1, <1>7 DEF NamedAreNewest, NextKey
    <2>3. ASSUME NEW r \in Slots \ Named', NEW t \in Named', keyOf'[r] # None
          PROVE  used'[r] < used'[t]
      <3>1. r # s /\ used'[r] = used[r] /\ used[r] <= tick /\ used[r] \in Nat /\ tick \in Nat
        BY <1>1, <1>2, <1>9, <2>3 DEF NamedAreNewest, TypeOK
      <3>2. CASE t = s
        BY <1>1, <1>2, <3>1, <3>2 DEF TypeOK
      <3>3. CASE t # s
        <4>1. t \in Named /\ t \in Slots
          BY <1>9, <2>3, <3>3, NamedAreSlots
        <4> QED
          BY <1>1, <1>6, <1>9, <2>3, <3>1, <3>3, <4>1 DEF NamedAreNewest, TypeOK
      <3> QED
        BY <3>2, <3>3
    <2> QED
      BY <2>1, <2>2, <2>3 DEF NamedAreNewest
  <1> QED
    BY <1>4, <1>5, <1>8, <1>10

(* Storing the frame of a key of the pass keeps the invariant.             *)
LEMMA StoreForKeyKeeps ==
  ASSUME FInv, NEW k \in Keys, StoreForKey(k)
  PROVE  FInv'
  <1> USE FramesAssumption DEF FInv, object, belief, loop
  <1>1. PICK s \in Claimable(TRUE), ok \in BOOLEAN :
          /\ StoreFrame(want[k].frame, s, ok)
          /\ slots' = [slots EXCEPT ![k] = IF ok THEN s ELSE None]
          /\ fallback' = IF ok THEN fallback ELSE fallback \union {k}
    BY DEF StoreForKey
  <1>2. PICK f : f = want[k].frame
    OBVIOUS
  <1>3. /\ NextKey(k) /\ slotOf[f] = None /\ StoreFrame(f, s, ok) /\ left' = left \ {k}
        /\ UNCHANGED <<want, needed, shown, slotShown, flush, kicks, passes, kick, preload,
                       target, todo, quiet, stop, pad, slotOnPad, mutations, presses>>
    BY <1>1, <1>2 DEF StoreForKey
  <1>4. f \in FrameKeys
    BY <1>2 DEF TypeOK, Views, Blank
  <1>5. s \in Slots /\ s \notin Pinned /\ s \notin Named
    BY <1>3, ClaimSpares
  <1>6. /\ keyOf' = [keyOf EXCEPT ![s] = IF ok THEN f ELSE None]
        /\ keyOf' \in [Slots -> FrameKeys \union {None}]
        /\ slotOf' \in [FrameKeys -> SlotOrNone]
        /\ used' = [used EXCEPT ![s] = tick + 1] /\ used' \in [Slots -> Nat]
        /\ tick' = tick + 1 /\ tick' \in Nat
        /\ held' \in [Slots -> FrameKeys \union {None}] /\ failures' \in Nat
        /\ TableAgrees' /\ TableIsHeld' /\ PinnedHold'
    BY <1>3, <1>4, <1>5, StoreKeepsTable
  <1>7. TypeOK'
    BY <1>1, <1>3, <1>5, <1>6 DEF TypeOK, SlotOrNone
  <1>8. ShownIsDrawn' /\ PinsAgree'
    BY <1>3 DEF ShownIsDrawn, PinsAgree
  <1>9. k \notin NamedKeys /\ flush = "keys"
    BY <1>3 DEF NextKey, NamedAreNewest
  <1>10. NamedKeys' = IF ok THEN NamedKeys \union {k} ELSE NamedKeys
    BY <1>1, <1>5, <1>9 DEF NamedKeys, TypeOK, Slots
  <1>11. \A j \in NamedKeys : slots'[j] = slots[j]
    BY <1>1, <1>9 DEF NamedKeys, TypeOK
  <1>12. slots'[k] = IF ok THEN s ELSE None
    BY <1>1 DEF TypeOK
  <1>13. NamedSlotsKept'
    <2> SUFFICES ASSUME NEW j \in NamedKeys' PROVE keyOf'[slots'[j]] = want[j].frame
      BY <1>3 DEF NamedSlotsKept
    <2>1. CASE j \in NamedKeys
      <3>1. slots[j] \in Named /\ slots[j] \in Slots
        BY <2>1, NamedAreSlots DEF Named
      <3>2. keyOf'[slots[j]] = keyOf[slots[j]]
        BY <1>5, <1>6, <3>1 DEF TypeOK
      <3> QED
        BY <1>9, <1>11, <2>1, <3>2 DEF NamedSlotsKept
    <2>2. CASE j \notin NamedKeys
      <3>1. ok /\ j = k
        BY <1>10, <2>2
      <3> QED
        BY <1>2, <1>5, <1>6, <1>12, <3>1 DEF TypeOK
    <2> QED
      BY <2>1, <2>2
  <1>14. Named' = IF ok THEN Named \union {s} ELSE Named
    BY <1>10, <1>11, <1>12 DEF Named
  <1>15. NamedAreNewest'
    <2>1. \A r \in Slots : used'[r] <= tick'
      BY <1>5, <1>6 DEF NamedAreNewest, TypeOK
    <2>2. left' \intersect NamedKeys' = {}
      BY <1>3, <1>9, <1>10 DEF NamedAreNewest
    <2>3. ASSUME NEW r \in Slots \ Named', NEW t \in Named', keyOf'[r] # None
          PROVE  used'[r] < used'[t]
      <3>1. r # s /\ keyOf[r] # None /\ r \notin Named
        BY <1>5, <1>6, <1>14, <2>3 DEF TypeOK
      <3>2. used'[r] = used[r] /\ used[r] <= tick /\ used[r] \in Nat /\ tick \in Nat
        BY <1>5, <1>6, <3>1 DEF NamedAreNewest, TypeOK
      <3>3. CASE t = s
        BY <1>5, <1>6, <3>2, <3>3 DEF TypeOK
      <3>4. CASE t # s
        <4>1. t \in Named /\ t \in Slots
          BY <1>14, <2>3, <3>4, NamedAreSlots
        <4>2. used[r] < used[t]
          BY <1>9, <3>1, <4>1 DEF NamedAreNewest
        <4> QED
          BY <1>5, <1>6, <3>2, <3>4, <4>1, <4>2 DEF TypeOK
      <3> QED
        BY <3>3, <3>4
    <2> QED
      BY <2>1, <2>2, <2>3 DEF NamedAreNewest
  <1> QED
    BY <1>6, <1>7, <1>8, <1>13, <1>15

(* The Show of a pass keeps the invariant: what it names is stored.        *)
LEMMA ShowFramesKeeps ==
  ASSUME FInv, ShowFrames
  PROVE  FInv'
  <1> USE FramesAssumption DEF FInv, object, table, locals, loop
  <1>1. PICK o \in {"ok", "lost"} :
          /\ Outcomes(o)
          /\ shown' = [k \in Keys |-> IF k \notin NamedKeys THEN shown[k]
                                      ELSE IF o = "ok" THEN want[k] ELSE Unknown]
          /\ slotShown' = [k \in Keys |-> IF k \notin NamedKeys THEN slotShown[k]
                                          ELSE IF o = "ok" THEN slots[k] ELSE None]
    BY DEF ShowFrames
  <1>2. /\ flush = "keys" /\ flush' = "fallback"
        /\ pad' = [k \in Keys |-> IF k \in NamedKeys
                     THEN [frame |-> held[slots[k]], count |-> Capped(want[k].count)]
                     ELSE pad[k]]
        /\ slotOnPad' = [k \in Keys |-> IF k \in NamedKeys THEN slots[k] ELSE slotOnPad[k]]
        /\ UNCHANGED <<want, needed, keyOf, slotOf, used, tick, left, slots, fallback,
                       kicks, passes, kick, preload, target, todo, quiet, stop, held,
                       mutations, presses>>
    BY DEF ShowFrames
  <1>3. \A k \in NamedKeys : /\ slots[k] \in Slots /\ keyOf[slots[k]] = want[k].frame
                             /\ held[slots[k]] = want[k].frame /\ want[k].frame \in FrameKeys
    BY <1>2 DEF NamedSlotsKept, TableIsHeld, NamedKeys, TypeOK, SlotOrNone, Views, Blank
  <1>4. \A k \in NamedKeys : pad'[k] = Picture(want[k]) /\ pad'[k] \in Pictures
    <2> SUFFICES ASSUME NEW k \in NamedKeys
                 PROVE  pad'[k] = Picture(want[k]) /\ pad'[k] \in Pictures
      OBVIOUS
    <2>1. want[k].count \in Nat
      BY DEF NamedKeys, TypeOK, Views, Blank
    <2>2. Capped(want[k].count) \in 0 .. CountCap
      BY <2>1 DEF Capped
    <2> QED
      BY <1>2, <1>3, <2>2 DEF NamedKeys, Picture, Pictures
  <1>5. TypeOK'
    <2>1. shown' \in [Keys -> Views \union {Unknown}] /\ slotShown' \in [Keys -> SlotOrNone]
      BY <1>1 DEF TypeOK, SlotOrNone
    <2>2. pad' \in [Keys -> Pictures \union {None, Mixed}]
      <3>1. \A k \in Keys : pad'[k] \in Pictures \union {None, Mixed}
        BY <1>2, <1>4 DEF TypeOK
      <3> QED
        BY <1>2, <3>1
    <2>3. slotOnPad' \in [Keys -> SlotOrNone]
      BY <1>2 DEF TypeOK
    <2>4. failures' \in Nat
      BY <1>1 DEF TypeOK, Outcomes
    <2> QED
      BY <1>2, <2>1, <2>2, <2>3, <2>4 DEF TypeOK
  <1>6. TableAgrees' /\ TableIsHeld' /\ NamedSlotsKept'
    BY <1>2 DEF TableAgrees, TableIsHeld, NamedSlotsKept
  <1>7. PinnedHold'
    BY <1>1, <1>2, <1>3 DEF PinnedHold
  <1>8. ShownIsDrawn' /\ PinsAgree'
    <2> SUFFICES ASSUME NEW k \in Keys, shown'[k].kind # "unknown"
                 PROVE  pad'[k] = Picture(shown'[k]) /\ slotOnPad'[k] = slotShown'[k]
      BY DEF ShownIsDrawn, PinsAgree, Picture, Capped
    <2>1. CASE k \in NamedKeys
      <3>1. o = "ok"
        BY <1>1, <2>1 DEF Unknown
      <3> QED
        BY <1>1, <1>2, <1>4, <2>1, <3>1
    <2>2. CASE k \notin NamedKeys
      BY <1>1, <1>2, <2>2 DEF ShownIsDrawn, PinsAgree
    <2> QED
      BY <2>1, <2>2
  <1>9. NamedAreNewest'
    BY <1>2 DEF NamedAreNewest
  <1> QED
    BY <1>5, <1>6, <1>7, <1>8, <1>9

(* Drawing a key without a frame keeps the invariant.                      *)
LEMMA DrawKeyKeeps ==
  ASSUME FInv, NEW k \in Keys, DrawKey(k)
  PROVE  FInv'
  <1> USE FramesAssumption DEF FInv, object, table, loop
  <1>1. PICK o \in {"ok", "lost"} :
          /\ Outcomes(o)
          /\ shown' = [shown EXCEPT ![k] = IF o = "ok" THEN want[k] ELSE Unknown]
          /\ pad' \in {[pad EXCEPT ![k] = p] :
                        p \in {Picture(want[k])} \union (IF o = "lost" THEN {Mixed} ELSE {})}
    BY DEF DrawKey
  <1>2. /\ flush = "fallback" /\ fallback' = fallback \ {k}
        /\ slotShown' = [slotShown EXCEPT ![k] = None]
        /\ slotOnPad' = [slotOnPad EXCEPT ![k] = None]
        /\ UNCHANGED <<want, needed, keyOf, slotOf, used, tick, flush, left, slots, kicks,
                       passes, kick, preload, target, todo, quiet, stop, held, mutations,
                       presses>>
    BY DEF DrawKey
  <1>3. PICK p : /\ pad' = [pad EXCEPT ![k] = p]
                 /\ p = Picture(want[k]) \/ (o = "lost" /\ p = Mixed)
    BY <1>1
  <1>4. Picture(want[k]) \in Pictures
    <2>1. want[k].count \in Nat /\ want[k].frame \in FrameKeys
      BY DEF TypeOK, Views, Blank
    <2>2. Capped(want[k].count) \in 0 .. CountCap
      BY <2>1 DEF Capped
    <2> QED
      BY <2>1, <2>2 DEF Picture, Pictures
  <1>5. TypeOK'
    <2>1. shown' \in [Keys -> Views \union {Unknown}] /\ slotShown' \in [Keys -> SlotOrNone]
      BY <1>1, <1>2 DEF TypeOK, SlotOrNone
    <2>2. pad' \in [Keys -> Pictures \union {None, Mixed}]
      BY <1>3, <1>4 DEF TypeOK
    <2>3. slotOnPad' \in [Keys -> SlotOrNone] /\ failures' \in Nat
      BY <1>1, <1>2 DEF TypeOK, SlotOrNone, Outcomes
    <2> QED
      BY <1>2, <2>1, <2>2, <2>3 DEF TypeOK
  <1>6. TableAgrees' /\ TableIsHeld' /\ NamedSlotsKept' /\ PinnedHold' /\ NamedAreNewest'
    BY <1>2 DEF TableAgrees, TableIsHeld, NamedSlotsKept, PinnedHold, NamedAreNewest, TypeOK
  <1>7. ShownIsDrawn' /\ PinsAgree'
    <2> SUFFICES ASSUME NEW j \in Keys, shown'[j].kind # "unknown"
                 PROVE  pad'[j] = Picture(shown'[j]) /\ slotOnPad'[j] = slotShown'[j]
      BY DEF ShownIsDrawn, PinsAgree, Picture, Capped
    <2>1. CASE j = k
      <3>1. o = "ok" /\ shown'[k] = want[k]
        BY <1>1, <2>1 DEF Unknown, TypeOK
      <3> QED
        BY <1>2, <1>3, <2>1, <3>1 DEF TypeOK
    <2>2. CASE j # k
      BY <1>1, <1>2, <1>3, <2>2 DEF ShownIsDrawn, PinsAgree, TypeOK
    <2> QED
      BY <2>1, <2>2
  <1> QED
    BY <1>5, <1>6, <1>7

(* A store of the preload keeps the invariant: it takes no pinned slot.    *)
LEMMA PreloadFrameKeeps ==
  ASSUME FInv, NEW f \in FrameKeys, PreloadFrame(f)
  PROVE  FInv'
  <1> USE FramesAssumption DEF FInv, object, belief, locals, Resting
  <1>1. /\ flush = "no" /\ todo' = todo \ {f}
        /\ UNCHANGED <<want, needed, shown, slotShown, flush, left, slots, fallback, kicks,
                       passes, kick, preload, target, quiet, stop, pad, slotOnPad,
                       mutations, presses>>
    BY DEF PreloadFrame
  <1>2. ShownIsDrawn' /\ PinsAgree' /\ NamedSlotsKept'
    BY <1>1 DEF ShownIsDrawn, PinsAgree, NamedSlotsKept
  <1>3. CASE UNCHANGED <<table, held, failures>>
    <2>1. UNCHANGED <<keyOf, slotOf, used, tick, held, failures>>
      BY <1>3 DEF table
    <2>2. TypeOK'
      BY <1>1, <2>1 DEF TypeOK
    <2>3. TableAgrees' /\ TableIsHeld' /\ PinnedHold' /\ NamedAreNewest'
      BY <1>1, <2>1 DEF TableAgrees, TableIsHeld, PinnedHold, NamedAreNewest
    <2> QED
      BY <1>2, <2>2, <2>3
  <1>4. CASE slotOf[f] = None /\ \E s \in Claimable(FALSE), ok \in BOOLEAN : StoreFrame(f, s, ok)
    <2>1. PICK s \in Claimable(FALSE), ok \in BOOLEAN : StoreFrame(f, s, ok)
      BY <1>4
    <2>2. s \in Slots /\ s \notin Pinned
      BY PreloadSpares
    <2>3. /\ keyOf' \in [Slots -> FrameKeys \union {None}]
          /\ slotOf' \in [FrameKeys -> SlotOrNone]
          /\ used' = [used EXCEPT ![s] = tick + 1] /\ used' \in [Slots -> Nat]
          /\ tick' = tick + 1 /\ tick' \in Nat
          /\ held' \in [Slots -> FrameKeys \union {None}] /\ failures' \in Nat
          /\ TableAgrees' /\ TableIsHeld' /\ PinnedHold'
      BY <1>1, <1>4, <2>1, <2>2, StoreKeepsTable
    <2>4. TypeOK'
      BY <1>1, <2>3 DEF TypeOK
    <2>5. NamedAreNewest'
      BY <1>1, <2>2, <2>3 DEF NamedAreNewest, TypeOK
    <2> QED
      BY <1>2, <2>3, <2>4, <2>5
  <1> QED
    BY <1>3, <1>4 DEF PreloadFrame

(* The steps that change neither the table, nor a belief, nor the pad.     *)
LEMMA OthersKeep ==
  ASSUME FInv, \/ EndFlush \/ TakeKick \/ CopyObject \/ EndPass \/ StopPreload
               \/ Press \/ IdlePasses \/ Close \/ UNCHANGED vars
  PROVE  FInv'
  <1> USE FramesAssumption DEF FInv, object, belief, table, locals, loop, remote, bounds, Resting
  <1>1. UNCHANGED <<want, needed, shown, slotShown, keyOf, slotOf, used, tick, left, fallback,
                    held, pad, slotOnPad>>
    BY DEF EndFlush, TakeKick, CopyObject, EndPass, StopPreload, Press, IdlePasses, Close, vars
  <1>2. flush' = "no" \/ UNCHANGED <<flush, slots>>
    BY DEF EndFlush, TakeKick, CopyObject, EndPass, StopPreload, Press, IdlePasses, Close, vars
  <1>3. TypeOK'
    <2>1. slots' \in [Keys -> SlotOrNone] /\ flush' \in {"no", "keys", "fallback"}
      <3>1. CASE EndFlush
        BY <3>1 DEF EndFlush, SlotOrNone
      <3>2. CASE UNCHANGED <<flush, slots>>
        BY <3>2 DEF TypeOK
      <3> QED
        BY <3>1, <3>2 DEF TakeKick, CopyObject, EndPass, StopPreload, Press, IdlePasses, Close,
                          vars
    <2>2. /\ kicks' \in Nat /\ passes' \in Nat /\ target' \in Nat /\ kick' \in BOOLEAN
          /\ preload' \in {"wait", "copy", "pass", "done"} /\ todo' \subseteq FrameKeys
      <3>1. CASE EndFlush
        BY <3>1 DEF EndFlush, Kick, TypeOK
      <3>2. CASE TakeKick
        BY <3>2 DEF TakeKick, TypeOK
      <3>3. CASE CopyObject
        BY <3>3 DEF CopyObject, TypeOK
      <3>4. CASE EndPass
        BY <3>4 DEF EndPass, PassedTarget, TypeOK
      <3>5. CASE StopPreload
        BY <3>5 DEF StopPreload, TypeOK
      <3>6. CASE Press \/ IdlePasses \/ Close \/ UNCHANGED vars
        BY <3>6 DEF Press, IdlePasses, Close, vars, TypeOK
      <3> QED
        BY <3>1, <3>2, <3>3, <3>4, <3>5, <3>6
    <2>3. /\ quiet' \in BOOLEAN /\ stop' \in BOOLEAN
          /\ mutations' \in Nat /\ presses' \in Nat /\ failures' \in Nat
      <3>1. CASE Press
        <4>1. /\ quiet' = FALSE /\ presses' = presses + 1
              /\ UNCHANGED <<stop, mutations, failures>>
          BY <3>1 DEF Press
        <4>2. stop \in BOOLEAN /\ mutations \in Nat /\ presses \in Nat /\ failures \in Nat
          BY DEF TypeOK
        <4>3. quiet' \in BOOLEAN /\ stop' \in BOOLEAN
          BY <4>1, <4>2
        <4>4. mutations' \in Nat /\ presses' \in Nat /\ failures' \in Nat
          BY <4>1, <4>2
        <4> QED
          BY <4>3, <4>4
      <3>2. CASE IdlePasses \/ Close
        BY <3>2 DEF IdlePasses, Close, TypeOK
      <3>3. CASE UNCHANGED <<quiet, stop, mutations, presses, failures>>
        BY <3>3 DEF TypeOK
      <3> QED
        BY <3>1, <3>2, <3>3 DEF EndFlush, TakeKick, CopyObject, EndPass, StopPreload, vars
    <2> QED
      BY <1>1, <2>1, <2>2, <2>3 DEF TypeOK
  <1>4. TableAgrees' /\ TableIsHeld' /\ PinnedHold' /\ ShownIsDrawn' /\ PinsAgree'
    BY <1>1 DEF TableAgrees, TableIsHeld, PinnedHold, ShownIsDrawn, PinsAgree
  <1>5. NamedSlotsKept' /\ NamedAreNewest'
    BY <1>1, <1>2 DEF NamedSlotsKept, NamedAreNewest, NamedKeys, Named
  <1> QED
    BY <1>3, <1>4, <1>5

(* Every step keeps the invariant.                                         *)
LEMMA StepInv == FInv /\ [Next]_vars => FInv'
  <1> SUFFICES ASSUME FInv, [Next]_vars PROVE FInv'
    OBVIOUS
  <1>1. ASSUME NEW w \in [Keys -> Views], NEW extra \in Extras, Mutate(w, extra) PROVE FInv'
    BY <1>1, MutateKeeps
  <1>2. ASSUME NEW k \in Keys, LookUp(k) PROVE FInv'
    BY <1>2, LookUpKeeps
  <1>3. ASSUME NEW k \in Keys, StoreForKey(k) PROVE FInv'
    BY <1>3, StoreForKeyKeeps
  <1>4. ASSUME NEW k \in Keys, DrawKey(k) PROVE FInv'
    BY <1>4, DrawKeyKeeps
  <1>5. CASE ShowFrames
    BY <1>5, ShowFramesKeeps
  <1>6. ASSUME NEW f \in FrameKeys, PreloadFrame(f) PROVE FInv'
    BY <1>6, PreloadFrameKeeps
  <1>7. CASE \/ EndFlush \/ TakeKick \/ CopyObject \/ EndPass \/ StopPreload
             \/ Press \/ IdlePasses \/ Close \/ UNCHANGED vars
    BY <1>7, OthersKeep
  <1> QED
    BY <1>1, <1>2, <1>3, <1>4, <1>5, <1>6, <1>7 DEF Next, Flush, Preload

-----------------------------------------------------------------------------
LEMMA InvAlways == Spec => []FInv
  <1> QED
    BY InitInv, StepInv, PTL DEF Spec

(* The model of the drawing state keeps its types.                         *)
THEOREM TypeCorrect == Spec => []TypeOK
  <1>1. FInv => TypeOK
    BY DEF FInv
  <1> QED
    BY <1>1, InvAlways, PTL

(* frameTable stays a bijection: keyOf and slotOf never disagree, whatever *)
(* is evicted, released after a failed store, or preloaded.                *)
THEOREM TableAlwaysAgrees == Spec => []TableAgrees
  <1>1. FInv => TableAgrees
    BY DEF FInv
  <1> QED
    BY <1>1, InvAlways, PTL

(* A redraw never evicts a slot that it has named and not yet sent: two    *)
(* slots for each key are enough (SlotCount >= 2 * KeyCount).              *)
THEOREM NamedSlotsAlwaysKept == Spec => []NamedSlotsKept
  <1>1. FInv => NamedSlotsKept
    BY DEF FInv
  <1> QED
    BY <1>1, InvAlways, PTL

(* Where flushFrames skips a key because its view has not changed, the     *)
(* transport has been told to draw that view.                              *)
THEOREM ShownAlwaysDrawn == Spec => []ShownIsDrawn
  <1>1. FInv => ShownIsDrawn
    BY DEF FInv
  <1> QED
    BY <1>1, InvAlways, PTL

(* A store of a redraw or of the preload never changes the frame that a    *)
(* key with a known view is drawn from.                                    *)
LEMMA StepSpares ==
  ASSUME FInv, [Next]_vars, NEW s \in Slots, held'[s] # held[s], NEW k \in Keys,
         slotOnPad[k] = s
  PROVE  shown[k].kind = "unknown"
  <1> USE DEF FInv
  <1>1. SUFFICES s \notin Pinned
    <2>1. s # None
      BY FramesAssumption DEF Slots
    <2>2. shown[k].kind # "unknown" => slotShown[k] = s
      BY DEF PinsAgree
    <2> QED
      BY <2>1, <2>2 DEF Pinned
  <1>2. UNCHANGED held \/ (\E j \in Keys : StoreForKey(j)) \/ (\E f \in FrameKeys : PreloadFrame(f))
    BY DEF Next, Flush, Preload, Mutate, LookUp, ShowFrames, DrawKey, EndFlush, TakeKick,
           CopyObject, EndPass, StopPreload, Press, IdlePasses, Close, remote, vars
  <1>3. ASSUME NEW j \in Keys, StoreForKey(j) PROVE s \notin Pinned
    <2>1. PICK r \in Claimable(TRUE), ok \in BOOLEAN : StoreFrame(want[j].frame, r, ok)
      BY <1>3 DEF StoreForKey
    <2>2. r \in Slots /\ r \notin Pinned
      BY <1>3, ClaimSpares DEF StoreForKey
    <2>3. s = r
      BY <2>1, <2>2 DEF StoreFrame, TypeOK
    <2> QED
      BY <2>2, <2>3
  <1>4. ASSUME NEW f \in FrameKeys, PreloadFrame(f) PROVE s \notin Pinned
    <2>1. PICK r \in Claimable(FALSE), ok \in BOOLEAN : StoreFrame(f, r, ok)
      BY <1>4 DEF PreloadFrame
    <2>2. r \in Slots /\ r \notin Pinned
      BY PreloadSpares
    <2>3. s = r
      BY <2>1, <2>2 DEF StoreFrame, TypeOK
    <2> QED
      BY <2>2, <2>3
  <1> QED
    BY <1>2, <1>3, <1>4

(* No store overwrites the frame of a key that shows it (frames.go, the    *)
(* preload and the pass).                                                  *)
THEOREM StoresAlwaysSpareShown == Spec => StoresSpareShown
  <1>1. FInv /\ [Next]_vars =>
          [\A s \in Slots : held'[s] # held[s] =>
             \A k \in Keys : slotOnPad[k] = s => shown[k].kind = "unknown"]_vars
    BY StepSpares
  <1> QED
    BY <1>1, InvAlways, PTL DEF Spec, StoresSpareShown

-----------------------------------------------------------------------------
(* While no write has failed: a key that the controller knows nothing of   *)
(* was never drawn; and a key that does not show the object yet is one     *)
(* that the redraw under way has still to draw.                            *)
Agrees(k) ==
  pad[k] = Picture(want[k]) \/ (pad[k] = None /\ want[k].kind = "blank")
DrawInv ==
  failures = 0 =>
    /\ \A k \in Keys : shown[k].kind = "unknown" => pad[k] = None
    /\ \A k \in Keys : \/ Agrees(k)
                       \/ flush = "keys" /\ k \in left \union NamedKeys
                       \/ flush # "no" /\ k \in fallback

(* The first state draws nothing, and has every key that is not blank to   *)
(* draw.                                                                   *)
LEMMA InitDraw == Init => DrawInv
  <1> SUFFICES ASSUME Init PROVE DrawInv
    OBVIOUS
  <1>1. PICK w \in [Keys -> Views] :
          want = w /\ left = {k \in Keys : w[k].kind # "blank"}
    BY DEF Init
  <1> QED
    BY <1>1 DEF Init, DrawInv, Agrees

(* A mutation leaves out only keys that show it already.                   *)
LEMMA MutateDraws ==
  ASSUME FInv, DrawInv, NEW w \in [Keys -> Views], NEW extra \in Extras, Mutate(w, extra)
  PROVE  DrawInv'
  <1> SUFFICES ASSUME failures' = 0 PROVE DrawInv'
    BY DEF DrawInv
  <1>1. /\ failures = 0 /\ want' = w /\ flush' = "keys" /\ left' = Changed(w)
        /\ UNCHANGED pad
        /\ shown' = [k \in Keys |-> IF SamePicture(k, w) THEN w[k] ELSE shown[k]]
    BY DEF Mutate, remote
  <1>2. \A k \in Keys : w[k] \in Views /\ w[k].kind \in {"key", "blank"}
    BY DEF Views, Blank
  <1>3. ASSUME NEW k \in Keys PROVE shown'[k].kind = "unknown" => pad'[k] = None
    BY <1>1, <1>2 DEF DrawInv
  <1>4. ASSUME NEW k \in Keys, k \notin Changed(w) PROVE Agrees(k)'
    <2>1. CASE w[k] = shown[k]
      <3>1. pad[k] = Picture(shown[k])
        BY <1>2, <2>1 DEF FInv, ShownIsDrawn
      <3> QED
        BY <1>1, <2>1, <3>1 DEF Agrees
    <2>2. CASE w[k].kind = "blank" /\ shown[k].kind = "unknown"
      BY <1>1, <2>2 DEF DrawInv, Agrees
    <2>3. CASE SamePicture(k, w)
      <3>1. pad[k] = Picture(shown[k])
        BY <2>3 DEF FInv, ShownIsDrawn, SamePicture
      <3>2. Picture(w[k]) = Picture(shown[k])
        BY <2>3 DEF SamePicture, Picture
      <3> QED
        BY <1>1, <3>1, <3>2 DEF Agrees
    <2> QED
      BY <1>4, <2>1, <2>2, <2>3 DEF Changed, Untouched
  <1> QED
    BY <1>1, <1>3, <1>4 DEF DrawInv

(* A key leaves the list with a slot or for the fallback.                  *)
LEMMA LookUpDraws ==
  ASSUME FInv, DrawInv, NEW k \in Keys, LookUp(k) \/ StoreForKey(k)
  PROVE  DrawInv'
  <1> SUFFICES ASSUME failures' = 0 PROVE DrawInv'
    BY DEF DrawInv
  <1>1. /\ left' = left \ {k} /\ UNCHANGED <<want, shown, pad, flush>>
        /\ flush = "keys" /\ slots \in [Keys -> SlotOrNone] /\ failures \in Nat
    BY DEF FInv, TypeOK, LookUp, StoreForKey, NextKey, object, belief, remote
  <1>2. /\ failures = 0
        /\ \/ slots'[k] # None
           \/ k \in fallback'
        /\ \A j \in Keys : j # k => slots'[j] = slots[j]
        /\ fallback \subseteq fallback'
    <2>1. CASE LookUp(k)
      BY <1>1, <2>1 DEF LookUp, bounds
    <2>2. CASE StoreForKey(k)
      <3>1. PICK s \in Claimable(TRUE), ok \in BOOLEAN :
              /\ StoreFrame(want[k].frame, s, ok)
              /\ slots' = [slots EXCEPT ![k] = IF ok THEN s ELSE None]
              /\ fallback' = IF ok THEN fallback ELSE fallback \union {k}
        BY <2>2 DEF StoreForKey
      <3>2. s # None
        BY FramesAssumption DEF Claimable, Free, Slots
      <3>3. failures = 0
        BY <1>1, <3>1 DEF StoreFrame, Outcomes
      <3> QED
        BY <1>1, <3>1, <3>2, <3>3
    <2> QED
      BY <2>1, <2>2
  <1>3. ASSUME NEW j \in Keys
        PROVE  Agrees(j)' \/ j \in left' \union NamedKeys' \/ j \in fallback'
    <2>1. Agrees(j) => Agrees(j)'
      BY <1>1 DEF Agrees
    <2>2. CASE j = k
      BY <1>2, <2>2 DEF NamedKeys
    <2>3. CASE j # k
      BY <1>1, <1>2, <2>1, <2>3 DEF DrawInv, NamedKeys
    <2> QED
      BY <2>2, <2>3
  <1> QED
    BY <1>1, <1>2, <1>3 DEF DrawInv

(* The Show frames draws each key it names.                                *)
LEMMA ShowDraws ==
  ASSUME FInv, DrawInv, ShowFrames
  PROVE  DrawInv'
  <1> SUFFICES ASSUME failures' = 0 PROVE DrawInv'
    BY DEF DrawInv
  <1>1. /\ flush = "keys" /\ left = {} /\ flush' = "fallback"
        /\ UNCHANGED <<want, fallback>> /\ failures \in Nat
        /\ pad' = [k \in Keys |-> IF k \in NamedKeys
                     THEN [frame |-> held[slots[k]], count |-> Capped(want[k].count)]
                     ELSE pad[k]]
    BY DEF FInv, TypeOK, ShowFrames, object, locals
  <1>2. PICK o \in {"ok", "lost"} :
          /\ Outcomes(o)
          /\ shown' = [k \in Keys |-> IF k \notin NamedKeys THEN shown[k]
                                      ELSE IF o = "ok" THEN want[k] ELSE Unknown]
    BY DEF ShowFrames
  <1>3. o = "ok" /\ failures = 0
    BY <1>1, <1>2 DEF Outcomes
  <1>4. ASSUME NEW k \in NamedKeys
        PROVE  pad'[k] = Picture(want[k]) /\ shown'[k].kind # "unknown"
    <2>1. k \in Keys /\ slots[k] \in Slots
      BY DEF NamedKeys, FInv, TypeOK, SlotOrNone
    <2>2. want[k] \in Views /\ want[k].kind # "unknown" /\ want[k].frame \in FrameKeys
      BY <2>1, FramesAssumption DEF FInv, TypeOK, Views, Blank
    <2>3. keyOf[slots[k]] = want[k].frame
      BY <1>1 DEF FInv, NamedSlotsKept
    <2>4. held[slots[k]] = want[k].frame
      BY <2>1, <2>2, <2>3, FramesAssumption DEF FInv, TableIsHeld
    <2> QED
      BY <1>1, <1>2, <1>3, <2>1, <2>2, <2>4 DEF Picture
  <1>5. ASSUME NEW k \in Keys PROVE shown'[k].kind = "unknown" => pad'[k] = None
    BY <1>1, <1>2, <1>3, <1>4 DEF DrawInv
  <1>6. ASSUME NEW k \in Keys PROVE Agrees(k)' \/ k \in fallback'
    <2>1. k \notin NamedKeys => pad'[k] = pad[k]
      BY <1>1
    <2> QED
      BY <1>1, <1>3, <1>4, <2>1 DEF DrawInv, Agrees
  <1> QED
    BY <1>1, <1>5, <1>6 DEF DrawInv

(* A key without a slot is drawn by its own glyph and state.               *)
LEMMA DrawKeyDraws ==
  ASSUME FInv, DrawInv, NEW k \in Keys, DrawKey(k)
  PROVE  DrawInv'
  <1> SUFFICES ASSUME failures' = 0 PROVE DrawInv'
    BY DEF DrawInv
  <1>1. /\ flush = "fallback" /\ flush' = "fallback" /\ fallback' = fallback \ {k}
        /\ UNCHANGED want /\ failures \in Nat
        /\ pad \in [Keys -> Pictures \union {None, Mixed}]
        /\ shown \in [Keys -> Views \union {Unknown}] /\ want[k] \in Views
    BY DEF FInv, TypeOK, DrawKey, object
  <1>2. PICK o \in {"ok", "lost"} :
          /\ Outcomes(o)
          /\ shown' = [shown EXCEPT ![k] = IF o = "ok" THEN want[k] ELSE Unknown]
          /\ pad' \in {[pad EXCEPT ![k] = p] :
                        p \in {Picture(want[k])} \union (IF o = "lost" THEN {Mixed} ELSE {})}
    BY DEF DrawKey
  <1>3. o = "ok" /\ failures = 0
    BY <1>1, <1>2 DEF Outcomes
  <1>4. /\ pad' = [pad EXCEPT ![k] = Picture(want[k])]
        /\ shown' = [shown EXCEPT ![k] = want[k]] /\ want[k].kind # "unknown"
    BY <1>1, <1>2, <1>3 DEF Views, Blank
  <1>5. ASSUME NEW j \in Keys PROVE shown'[j].kind = "unknown" => pad'[j] = None
    BY <1>1, <1>3, <1>4 DEF DrawInv
  <1>6. ASSUME NEW j \in Keys PROVE Agrees(j)' \/ j \in fallback'
    BY <1>1, <1>3, <1>4 DEF DrawInv, Agrees
  <1> QED
    BY <1>1, <1>5, <1>6 DEF DrawInv

(* Every step keeps it.                                                    *)
LEMMA StepDraws == FInv /\ DrawInv /\ [Next]_vars => DrawInv'
  <1> SUFFICES ASSUME FInv, DrawInv, [Next]_vars PROVE DrawInv'
    OBVIOUS
  <1>1. ASSUME NEW w \in [Keys -> Views], NEW extra \in Extras, Mutate(w, extra)
        PROVE  DrawInv'
    BY <1>1, MutateDraws
  <1>2. ASSUME NEW k \in Keys, LookUp(k) \/ StoreForKey(k) PROVE DrawInv'
    BY <1>2, LookUpDraws
  <1>3. ASSUME NEW k \in Keys, DrawKey(k) PROVE DrawInv'
    BY <1>3, DrawKeyDraws
  <1>4. CASE ShowFrames
    BY <1>4, ShowDraws
  <1>5. CASE EndFlush
    <2>1. /\ flush = "fallback" /\ fallback = {} /\ UNCHANGED <<want, shown, pad, failures>>
      BY <1>5 DEF EndFlush, object, belief, remote, bounds
    <2>2. \A k \in Keys : Agrees(k) => Agrees(k)'
      BY <2>1 DEF Agrees
    <2> QED
      BY <2>1, <2>2 DEF DrawInv
  <1>6. CASE (\E f \in FrameKeys : PreloadFrame(f)) \/ TakeKick \/ CopyObject \/ EndPass
             \/ StopPreload \/ Press \/ IdlePasses \/ Close \/ UNCHANGED vars
    <2>1. UNCHANGED <<want, shown, pad, flush, left, slots, fallback>>
      BY <1>6 DEF PreloadFrame, TakeKick, CopyObject, EndPass, StopPreload, Press, IdlePasses,
           Close, Resting, object, belief, locals, remote, vars
    <2>2. failures' = 0 => failures = 0
      <3>1. CASE \E f \in FrameKeys : PreloadFrame(f)
        <4>1. PICK f \in FrameKeys : PreloadFrame(f)
          BY <3>1
        <4>2. UNCHANGED failures \/ \E s : \E ok \in BOOLEAN : StoreFrame(f, s, ok)
          BY <4>1 DEF PreloadFrame
        <4>3. failures \in Nat
          BY DEF FInv, TypeOK
        <4>4. ASSUME NEW s, NEW ok \in BOOLEAN, StoreFrame(f, s, ok)
              PROVE  UNCHANGED failures \/ failures' = failures + 1
          BY <4>4 DEF StoreFrame, Outcomes
        <4> QED
          BY <4>2, <4>3, <4>4
      <3>2. CASE UNCHANGED failures
        BY <3>2
      <3> QED
        BY <1>6, <3>1, <3>2 DEF TakeKick, CopyObject, EndPass, StopPreload, Press,
           IdlePasses, Close, bounds, vars
    <2>3. \A k \in Keys : Agrees(k) => Agrees(k)'
      BY <2>1 DEF Agrees
    <2>4. NamedKeys' = NamedKeys
      BY <2>1 DEF NamedKeys
    <2> QED
      BY <2>1, <2>2, <2>3, <2>4 DEF DrawInv
  <1> QED
    BY <1>1, <1>2, <1>3, <1>4, <1>5, <1>6 DEF Next, Flush, Preload

(* With no failed write, the pad shows the object after each redraw,       *)
(* whichever keys flushFrames looks up, stores, falls back for or skips.   *)
THEOREM PadAlwaysShowsObject == Spec => []PadShowsObject
  <1>1. DrawInv => PadShowsObject
    BY DEF DrawInv, PadShowsObject, Agrees
  <1>2. FInv /\ DrawInv /\ [Next]_vars => (FInv /\ DrawInv)'
    BY StepInv, StepDraws
  <1> QED
    BY <1>1, <1>2, InitInv, InitDraw, PTL DEF Spec

-----------------------------------------------------------------------------
(* While no write has failed and no redraw is under way: a pass that ends  *)
(* with no new kick has every frame, and one under way has every frame     *)
(* that is not on its list, or no slot is free.                            *)
Covered(F) == \A f \in F \ Bulky : slotOf[f] # None \/ Free = {}
PassInv ==
  /\ passes <= kicks /\ target <= kicks
  /\ flush = "no" /\ failures = 0 =>
       /\ passes = kicks => Covered(needed)
       /\ preload = "pass" /\ target = kicks => Covered(needed \ todo)

(* If a slot is free, claim finds one.                                     *)
LEMMA FreeIsClaimed ==
  ASSUME Free # {}
  PROVE  \E s \in Free : s \in Claimable(FALSE)
  <1>1. Free \subseteq Nat /\ Free # {}
    BY FramesAssumption DEF Free, Slots
  <1>2. PICK s \in Free : \A r \in Free : ~ (<<r, s>> \in OpToRel(<, Nat))
    BY <1>1, NatLessThanWellFounded, WFMin
  <1>3. \A r \in Free : ~ (r < s)
    BY <1>1, <1>2 DEF OpToRel
  <1> QED
    BY <1>1, <1>3 DEF Claimable

(* A store into a free slot covers its frame, and uncovers none.           *)
LEMMA StoreCovers ==
  ASSUME FInv, NEW f \in FrameKeys, slotOf[f] = None, NEW s \in Claimable(FALSE),
         NEW ok \in BOOLEAN, StoreFrame(f, s, ok), failures' = 0
  PROVE  /\ failures = 0
         /\ \A F \in SUBSET FrameKeys : Covered(F) => Covered(F)'
         /\ f \in Bulky \/ slotOf'[f] # None
  <1>1. s \in Free /\ s \in Slots /\ keyOf[s] = None /\ s # None
    BY FramesAssumption DEF Claimable, Free, Slots
  <1>2. /\ keyOf \in [Slots -> FrameKeys \union {None}] /\ failures \in Nat
        /\ slotOf \in [FrameKeys -> SlotOrNone] /\ None \notin FrameKeys
    BY FramesAssumption DEF FInv, TypeOK
  <1>3. /\ keyOf' = [keyOf EXCEPT ![s] = IF ok THEN f ELSE None]
        /\ slotOf' = [g \in FrameKeys |-> IF g = f THEN (IF ok THEN s ELSE None)
                                          ELSE IF g = keyOf[s] THEN None ELSE slotOf[g]]
    BY DEF StoreFrame, Record
  <1>4. failures = 0 /\ (f \in Bulky \/ ok)
    BY <1>2 DEF StoreFrame, Outcomes
  <1>5. Free' \subseteq Free
    BY <1>1, <1>2, <1>3 DEF Free
  <1>6. \A g \in FrameKeys : slotOf[g] # None => slotOf'[g] = slotOf[g]
    BY <1>1, <1>2, <1>3
  <1>7. ASSUME NEW F \in SUBSET FrameKeys, Covered(F) PROVE Covered(F)'
    BY <1>5, <1>6, <1>7 DEF Covered
  <1> QED
    BY <1>1, <1>3, <1>4, <1>7

(* Nothing has been kicked, and the first redraw is under way.             *)
LEMMA InitPass == Init => PassInv
  BY DEF Init, PassInv

(* Every step keeps it: a redraw, whose evictions may uncover a frame,     *)
(* ends with a kick that no pass before it has taken.                      *)
LEMMA StepPass == FInv /\ PassInv /\ [Next]_vars => PassInv'
  <1> SUFFICES ASSUME FInv, PassInv, [Next]_vars PROVE PassInv'
    OBVIOUS
  <1>1. /\ kicks \in Nat /\ passes \in Nat /\ target \in Nat /\ failures \in Nat
        /\ needed \subseteq FrameKeys /\ todo \subseteq FrameKeys
    BY DEF FInv, TypeOK
  <1>2. CASE (\E k \in Keys : LookUp(k) \/ StoreForKey(k) \/ DrawKey(k)) \/ ShowFrames
             \/ (\E w \in [Keys -> Views], extra \in Extras : Mutate(w, extra))
    <2>1. flush' # "no" /\ UNCHANGED <<kicks, passes, target>>
      BY <1>2 DEF LookUp, StoreForKey, DrawKey, ShowFrames, Mutate, NextKey, loop
    <2> QED
      BY <2>1 DEF PassInv
  <1>3. CASE EndFlush
    BY <1>1, <1>3 DEF EndFlush, Kick, PassInv
  <1>4. CASE TakeKick
    <2>1. /\ target' = kicks /\ preload' = "copy"
          /\ UNCHANGED <<kicks, passes, slotOf, keyOf, needed, flush, failures>>
      BY <1>4 DEF TakeKick, Resting, table, object
    <2>2. Covered(needed) => Covered(needed)'
      BY <2>1 DEF Covered, Free
    <2> QED
      BY <1>1, <2>1, <2>2 DEF PassInv
  <1>5. CASE CopyObject
    <2>1. /\ todo' = needed
          /\ UNCHANGED <<kicks, passes, target, slotOf, keyOf, needed, flush, failures>>
      BY <1>5 DEF CopyObject, Resting, table, object
    <2>2. Covered(needed) => Covered(needed)'
      BY <2>1 DEF Covered, Free
    <2>3. Covered(needed \ todo)'
      BY <2>1 DEF Covered
    <2> QED
      BY <2>1, <2>2, <2>3 DEF PassInv
  <1>6. ASSUME NEW f \in FrameKeys, PreloadFrame(f) PROVE PassInv'
    <2>1. /\ preload = "pass" /\ preload' = "pass" /\ flush = "no" /\ todo' = todo \ {f}
          /\ UNCHANGED <<kicks, passes, target, needed, flush>>
      BY <1>6 DEF PreloadFrame, Resting, object
    <2> SUFFICES ASSUME failures' = 0
                 PROVE  /\ passes' = kicks' => Covered(needed)'
                        /\ target' = kicks' => Covered(needed \ todo)'
      BY <2>1 DEF PassInv
    <2>2. /\ failures = 0
          /\ \A F \in SUBSET FrameKeys : Covered(F) => Covered(F)'
          /\ f \in Bulky \/ slotOf'[f] # None \/ Free' = {}
      <3>1. CASE slotOf[f] # None \/ Claimable(FALSE) = {}
        <4>1. UNCHANGED <<keyOf, slotOf, failures>>
          BY <1>6, <3>1 DEF PreloadFrame, table
        <4>2. slotOf[f] # None \/ Free = {}
          BY <3>1, FreeIsClaimed
        <4> QED
          BY <4>1, <4>2 DEF Covered, Free
      <3>2. CASE ~(slotOf[f] # None \/ Claimable(FALSE) = {})
        <4>1. PICK s \in Claimable(FALSE), ok \in BOOLEAN : StoreFrame(f, s, ok)
          BY <1>6, <3>2 DEF PreloadFrame
        <4> QED
          BY <3>2, <4>1, StoreCovers
      <3> QED
        BY <3>1, <3>2
    <2>3. Covered(needed) => Covered(needed)'
      BY <1>1, <2>1, <2>2
    <2>4. Covered(needed \ todo) => Covered(needed \ todo)'
      <3>1. ASSUME Covered(needed \ todo), NEW g \in (needed \ (todo \ {f})) \ Bulky
            PROVE  slotOf'[g] # None \/ Free' = {}
        <4>1. CASE g = f
          BY <2>2, <3>1, <4>1
        <4>2. CASE g # f
          <5>1. needed \ todo \in SUBSET FrameKeys /\ g \in (needed \ todo) \ Bulky
            BY <1>1, <3>1, <4>2
          <5> QED
            BY <2>2, <3>1, <5>1 DEF Covered
        <4> QED
          BY <4>1, <4>2
      <3> QED
        BY <2>1, <3>1 DEF Covered
    <2> QED
      BY <2>1, <2>2, <2>3, <2>4 DEF PassInv
  <1>7. CASE EndPass
    <2>1. /\ preload = "pass" /\ preload' = "wait" /\ todo = {} /\ passes' = target
          /\ target' = 0
          /\ UNCHANGED <<kicks, slotOf, keyOf, needed, flush, failures>>
      BY <1>7 DEF EndPass, PassedTarget, Resting, table, object
    <2>2. Covered(needed \ todo) => Covered(needed)'
      BY <2>1 DEF Covered, Free
    <2> QED
      BY <1>1, <2>1, <2>2 DEF PassInv
  <1>8. CASE StopPreload \/ Press \/ IdlePasses \/ Close \/ UNCHANGED vars
    <2>1. /\ UNCHANGED <<kicks, passes, target, slotOf, keyOf, needed, flush>>
          /\ UNCHANGED failures
          /\ preload' = "done" \/ UNCHANGED <<preload, todo>>
      BY <1>8 DEF StopPreload, Press, IdlePasses, Close, Resting, table, object, loop, bounds,
           vars
    <2>2. Covered(needed) => Covered(needed)'
      BY <2>1 DEF Covered, Free
    <2>3. UNCHANGED todo => (Covered(needed \ todo) => Covered(needed \ todo)')
      BY <2>1 DEF Covered, Free
    <2> QED
      BY <2>1, <2>2, <2>3 DEF PassInv
  <1> QED
    BY <1>2, <1>3, <1>4, <1>5, <1>6, <1>7, <1>8 DEF Next, Flush, Preload

(* When a pass has taken the last kick, every frame that the layers need   *)
(* is on the board or no slot is free (WaitPreload), however presses,      *)
(* redraws and their evictions interrupt the passes.                       *)
THEOREM PreloadAlwaysComplete == Spec => []PreloadIsComplete
  <1>1. PassInv => PreloadIsComplete
    BY DEF PassInv, Covered, PreloadIsComplete
  <1>2. FInv /\ PassInv /\ [Next]_vars => (FInv /\ PassInv)'
    BY StepInv, StepPass
  <1> QED
    BY <1>1, <1>2, InitInv, InitPass, PTL DEF Spec
=============================================================================
