----------------------------- MODULE PushQueue -----------------------------
(***************************************************************************)
(* firmware/app.py, MacroPad: frames that wait for their panels, the group *)
(* of panels that DMA is sending to, the slots and pip buffers that queued *)
(* frames are read from, and a batch that holds keys back.  The loop is    *)
(* one thread; the DMA runs beside it, and a group may desync.  When a     *)
(* batch is released is modelled by Batch; here it may be at any moment.   *)
(***************************************************************************)
EXTENDS PadKeys, SequencesExt

CONSTANTS
  NumSlots,
  MaxGroup,                  \* panels that take a frame at once
  MaxMessages, MaxDesyncs    \* bounds

ASSUME PushAssumption ==
  /\ NumKeys \in Nat \ {0} /\ NumSlots \in Nat /\ MaxGroup \in Nat \ {0}
  /\ MaxMessages \in Nat /\ MaxDesyncs \in Nat

VARIABLES
  on,                 \* the frame each key must show
  queue, waiting,     \* _push_queue, _queued_frame
  group, wire,        \* _active_keys, and the frame on the wire of each
  bus,                \* what `done` and `desynced` say of the group
  panel,              \* the frame on each panel, None when it has half of one
  hold,               \* the open batch: the keys it holds, those to draw
  todo,               \* what is left of the Show frames or Store frame in hand
  pipNext,            \* which pip buffer of a key is next
  gaveUp,             \* whether a wait for a push reached SLOT_WAIT_NS
  rewritten,          \* keys with a frame whose bytes changed before it was sent
  messages, desyncs

pushes == <<queue, waiting, group, wire, bus, panel, desyncs>>
written == <<rewritten, gaveUp>>
vars == <<on, pushes, hold, todo, pipNext, written, messages>>

Slots == 0 .. NumSlots - 1

(* Buffers: the slots, and then two pip buffers for each key.  A frame that *)
(* the key composed for itself is in a bitmap of its own, which stays.     *)
Own == -1
PipBuffer(k, which) == NumSlots + 2 * k + which
Buffers == 0 .. NumSlots + 2 * NumKeys - 1
Frames == [n : Nat, view : Buffers \union {Own}]

(* What is left of q when only keys of S stay.                             *)
Only(q, S) ==
  LET places == InOrder({i \in DOMAIN q : q[i] \in S})
  IN [n \in DOMAIN places |-> q[places[n]]]

Holds == [held : SUBSET Keys, touched : SUBSET Keys]

ASSUME NoneAssumption == None \notin Frames /\ None \notin Holds

Held == IF hold = None THEN {} ELSE hold.held

-----------------------------------------------------------------------------
(* _submit_push of several keys: a frame that waits is replaced in place.  *)
Submit(S, frames) ==
  /\ queue' = queue \o InOrder({k \in S : waiting[k] = None})
  /\ waiting' = [k \in Keys |-> IF k \in S THEN frames[k] ELSE waiting[k]]

(* _requeue_active_group: to the front, unless a newer frame waits.        *)
RequeuedOver == [k \in Keys |-> IF k \in ToSet(group) THEN wire[k] ELSE waiting[k]]
Requeued == [k \in Keys |-> IF k \in ToSet(group) /\ waiting[k] = None THEN wire[k]
                            ELSE waiting[k]]

(* _start_group: the oldest keys of the queue.                             *)
StartGroup(q, w) ==
  LET count == IF Len(q) < MaxGroup THEN Len(q) ELSE MaxGroup
      keys  == SubSeq(q, 1, count)
  IN /\ group' = keys /\ queue' = SubSeq(q, count + 1, Len(q))
     /\ wire' = [k \in Keys |-> IF k \in ToSet(keys) THEN w[k] ELSE None]
     /\ waiting' = [k \in Keys |-> IF k \in ToSet(keys) THEN None ELSE w[k]]
     /\ bus' = IF keys = <<>> THEN "free" ELSE "sending"

InUseQueued(view) == \E k \in Keys : waiting[k] # None /\ waiting[k].view = view
InUse(view) == \E k \in Keys : \/ waiting[k] # None /\ waiting[k].view = view
                               \/ wire[k] # None /\ wire[k].view = view

(* _service_pushes ends the group that is done, and starts the next one.   *)
(* The loop calls it in every pass, and while it waits for a view.         *)
View(item) == IF item.pip THEN PipBuffer(item.key, pipNext[item.key]) ELSE item.slot
Waits == todo # <<>> /\ (todo[1].store \/ todo[1].pip) /\ InUse(View(todo[1]))

ServiceDropping ==
  /\ todo = <<>> \/ Waits
  /\ bus # "sending" /\ (group # <<>> \/ queue # <<>>)
  /\ StartGroup(queue, waiting)
  /\ UNCHANGED <<on, panel, hold, todo, pipNext, written, messages, desyncs>>
Service ==
  /\ todo = <<>> \/ Waits
  /\ bus # "sending" /\ (group # <<>> \/ queue # <<>>)
  /\ IF bus = "desynced"
     THEN StartGroup(Only(group, {k \in Keys : waiting[k] = None}) \o queue, Requeued)
     ELSE StartGroup(queue, waiting)
  /\ UNCHANGED <<on, panel, hold, todo, pipNext, written, messages, desyncs>>

(* The DMA: every panel of the group has its frame, or a follower lost the *)
(* clock, and some panels have half of one.                                *)
Sent ==
  /\ bus = "sending" /\ bus' = "sent"
  /\ panel' = [k \in Keys |-> IF wire[k] # None THEN wire[k] ELSE panel[k]]
  /\ UNCHANGED <<on, queue, waiting, group, wire, hold, todo, pipNext, written, messages,
                 desyncs>>
Desync ==
  /\ bus = "sending" /\ bus' = "desynced"
  /\ desyncs < MaxDesyncs /\ desyncs' = desyncs + 1
  /\ \E whole \in SUBSET ToSet(group) :
       panel' = [k \in Keys |-> IF k \in whole THEN wire[k]
                                ELSE IF wire[k] # None THEN None ELSE panel[k]]
  /\ UNCHANGED <<on, queue, waiting, group, wire, hold, todo, pipNext, written, messages>>

-----------------------------------------------------------------------------
(* A message for the loop, when it has done with the last one.             *)
Receive == todo = <<>> /\ messages < MaxMessages /\ messages' = messages + 1

Redrawn(k) == {[n |-> on[k].n + 1, view |-> v] : v \in {Own, on[k].view}}

(* A key state, a glyph or the blink clock: the key composes a frame, or   *)
(* sends the one it has again.  A key that a batch holds only composes.    *)
RenderKey(k) ==
  /\ Receive /\ k \notin Held
  /\ \E f \in Redrawn(k) :
       /\ on' = [on EXCEPT ![k] = f] /\ Submit({k}, on')
  /\ UNCHANGED <<group, wire, bus, panel, desyncs, hold, todo, pipNext, written>>
PrepareKey(k) ==
  /\ Receive /\ k \in Held
  /\ \E f \in Redrawn(k) : on' = [on EXCEPT ![k] = f]
  /\ hold' = [hold EXCEPT !.touched = @ \union {k}]
  /\ UNCHANGED <<pushes, todo, pipNext, written>>

(* _release_batch: every key that has something to draw, in one pass.      *)
Touched == IF hold = None THEN {} ELSE hold.touched
Released == Submit(Touched, on)

ReleaseBatch ==
  /\ todo = <<>> /\ hold # None /\ hold' = None
  /\ Released
  /\ UNCHANGED <<on, group, wire, bus, panel, desyncs, todo, pipNext, written, messages>>

(* _begin_batch releases an open batch, and then takes the frames of the   *)
(* keys it holds out of the queue: they draw again at the release.         *)
BeginBatch(held) ==
  /\ Receive
  /\ LET w == [k \in Keys |-> IF k \in Touched THEN on[k] ELSE waiting[k]]
         q == queue \o InOrder({k \in Touched : waiting[k] = None})
     IN /\ queue' = Only(q, Keys \ held)
        /\ waiting' = [k \in Keys |-> IF k \in held THEN None ELSE w[k]]
        /\ hold' = [held |-> held, touched |-> {k \in held : w[k] # None}]
  /\ UNCHANGED <<on, group, wire, bus, panel, desyncs, todo, pipNext, written>>

(* Show frames releases an open batch and then goes through the keys.      *)
(* Store frame composes into a slot that, so the host sees to, no key      *)
(* shows (LayerFrames, StoresSpareShown).                                  *)
ShowFrames(named, slots, pips) ==
  /\ Receive
  /\ hold' = None /\ Released
  /\ todo' = [i \in 1 .. Len(InOrder(named)) |->
               LET k == InOrder(named)[i]
               IN [store |-> FALSE, key |-> k, slot |-> slots[k], pip |-> k \in pips]]
  /\ UNCHANGED <<on, group, wire, bus, panel, desyncs, pipNext, written>>
StoreFrame(s) ==
  /\ Receive /\ \A k \in Keys : on[k].view # s
  /\ todo' = <<[store |-> TRUE, key |-> 0, slot |-> s, pip |-> FALSE]>>
  /\ UNCHANGED <<on, pushes, hold, pipNext, written>>

(* A buffer gets new bytes: the frames that will still be read from it.    *)
Due(k) == (IF waiting[k] # None THEN {waiting[k].view} ELSE {})
          \union (IF wire[k] # None THEN {wire[k].view} ELSE {})
          \union (IF k \in Touched THEN {on[k].view} ELSE {})
Write(view) == rewritten' = rewritten \union {k \in Keys : view \in Due(k)}
(* A wait ends when the view is free, or at SLOT_WAIT_NS: a stuck bus must *)
(* not hang the board.                                                     *)
Wait(view) == gaveUp' = (gaveUp \/ InUse(view))

Shown(k, view) == [on EXCEPT ![k] = [n |-> on[k].n + 1, view |-> view]]

ShowSlot ==
  /\ todo # <<>> /\ ~todo[1].store /\ ~todo[1].pip
  /\ on' = Shown(todo[1].key, todo[1].slot) /\ Submit({todo[1].key}, on')
  /\ todo' = Tail(todo)
  /\ UNCHANGED <<group, wire, bus, panel, desyncs, hold, pipNext, written, messages>>

ShowPip ==
  /\ todo # <<>> /\ ~todo[1].store /\ todo[1].pip
  /\ LET k    == todo[1].key
         view == PipBuffer(k, pipNext[k])
     IN /\ Wait(view) /\ Write(view)
        /\ on' = Shown(k, view) /\ Submit({k}, on')
        /\ pipNext' = [pipNext EXCEPT ![k] = 1 - @]
  /\ todo' = Tail(todo)
  /\ UNCHANGED <<group, wire, bus, panel, desyncs, hold, messages>>

Store ==
  /\ todo # <<>> /\ todo[1].store
  /\ Wait(todo[1].slot) /\ Write(todo[1].slot)
  /\ todo' = Tail(todo)
  /\ UNCHANGED <<on, pushes, hold, pipNext, messages>>

-----------------------------------------------------------------------------
(* The first pass of the loop has drawn every key.                         *)
Init ==
  /\ on = [k \in Keys |-> [n |-> 0, view |-> Own]]
  /\ queue = InOrder(Keys) /\ waiting = on
  /\ group = <<>> /\ wire = [k \in Keys |-> None] /\ bus = "free"
  /\ panel = [k \in Keys |-> None]
  /\ hold = None /\ todo = <<>> /\ pipNext = [k \in Keys |-> 0]
  /\ rewritten = {} /\ gaveUp = FALSE /\ messages = 0 /\ desyncs = 0

Message ==
  \/ \E k \in Keys : RenderKey(k) \/ PrepareKey(k)
  \/ \E held \in SUBSET Keys : BeginBatch(held)
  \/ \E named \in SUBSET Keys : \E slots \in [named -> Slots], pips \in SUBSET named :
       ShowFrames(named, slots, pips)
  \/ \E s \in Slots : StoreFrame(s)
Work == Service \/ ShowSlot \/ ShowPip \/ Store
Bus  == Sent \/ Desync

Next == Message \/ ReleaseBatch \/ Work \/ Bus

Spec == Init /\ [][Next]_vars

(* The loop runs, a batch is released (Batch), and a group ends: a group   *)
(* that is not sent in time counts as desynced.                            *)
FairSpec == Spec /\ WF_vars(Work) /\ WF_vars(ReleaseBatch) /\ WF_vars(Bus)

-----------------------------------------------------------------------------
FrameOrNone == Frames \union {None}

TypeOK ==
  /\ on \in [Keys -> Frames] /\ queue \in Seq(Keys) /\ waiting \in [Keys -> FrameOrNone]
  /\ group \in Seq(Keys) /\ wire \in [Keys -> FrameOrNone]
  /\ bus \in {"free", "sending", "sent", "desynced"}
  /\ panel \in [Keys -> FrameOrNone]
  /\ hold \in Holds \union {None}
  /\ todo \in Seq([store : BOOLEAN, key : Keys, slot : Slots, pip : BOOLEAN])
  /\ pipNext \in [Keys -> {0, 1}] /\ rewritten \subseteq Keys /\ gaveUp \in BOOLEAN
  /\ messages \in 0 .. MaxMessages /\ desyncs \in 0 .. MaxDesyncs

(* A key waits at most once, with a frame, and a group is a few keys that  *)
(* have one: what the comment on _push_queue and _queued_frame says, after *)
(* any order of draws, groups, desyncs and batches.                        *)
QueueAgrees ==
  /\ \A i, j \in 1 .. Len(queue) : queue[i] = queue[j] => i = j
  /\ \A k \in Keys : waiting[k] # None <=> k \in ToSet(queue)
  /\ \A k \in Keys : wire[k] # None <=> k \in ToSet(group)
  /\ Len(group) <= MaxGroup

(* The frame a key must show is the last one that its panel will get, or   *)
(* the batch will draw it: no order of a newer frame, a desync that sends  *)
(* a frame again, and a batch loses it (_requeue_active_group,             *)
(* _begin_batch).                                                          *)
LastComing(k) == IF waiting[k] # None THEN waiting[k]
                 ELSE IF wire[k] # None /\ bus # "sent" THEN wire[k]
                 ELSE panel[k]
LatestIsComing ==
  /\ TypeOK /\ QueueAgrees
  /\ \A k \in Keys : k \notin Touched => LastComing(k) = on[k]

(* The bytes of a frame do not change between its draw and its push, which *)
(* Store frame and the pips wait for (_store_frame, _pip_frame), unless a  *)
(* stuck bus made one of them give up.                                     *)
FramesStayWhole == ~gaveUp => rewritten = {}

(* Every panel gets to show what its key must show.                        *)
PanelsCatchUp == \A k \in Keys : []<>(panel[k] = on[k])
=============================================================================
