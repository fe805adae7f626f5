------------------------- MODULE ReconnectingProofs -------------------------
(***************************************************************************)
(* Proofs about Reconnecting, for any number of keys, slots and            *)
(* connections and any capacity of the port: its type invariant,           *)
(* MemoryAgrees and FramesHeld, from the invariant Inv; and, from Inv and  *)
(* OrderInv, that a Show frames is always backed by its stores and that    *)
(* nothing is written after a Close; and then, from Inv, OrderInv and      *)
(* PadInv, that the pad comes to show what the host remembers.             *)
(***************************************************************************)
EXTENDS Reconnecting, SequenceTheorems, WellFoundedInduction, TLAPS

(* The holder of sendMu, and what it has still to write.                   *)
Todos == UNION {[P -> Messages] : P \in SUBSET Positions}
Jobs  == [by : Holders, dev : Devices, gen : Devices, err : BOOLEAN, todo : Todos]

RoutineType == RunType /\ job \in Jobs
TypeInv     == MemoryType /\ RoutineType /\ PadType /\ BoundsType

(* What the holder of sendMu has yet to store is the frame on record.      *)
StoresOnRecord ==
  \A i \in DOMAIN job.todo :
    job.todo[i].t = "store" =>
      /\ job.by # "connect"
      /\ frames[job.todo[i].slot] # None
      /\ job.todo[i].frame = Frame(job.todo[i].slot)

(* Whoever holds sendMu writes to the device of the current generation,    *)
(* or to one that is already gone; a replay is held by run alone.          *)
HolderInOrder ==
  /\ job.by = "connect" <=> run = "replay"
  /\ job.by = "free" => DOMAIN job.todo = {}
  /\ job.by = "connect" => job.dev = conn
  /\ job.by \notin {"free", "connect"} =>
       job.gen = gen /\ job.dev # 0 /\ (dev # 0 => dev = job.dev)

(* Sessions only grow, and a connection gets a generation of its own.      *)
GenerationsInOrder ==
  /\ link # 0 => link = session
  /\ conn <= session /\ gen <= session /\ dev \in {0, conn}
  /\ dev # 0 => gen > 0 /\ run = "forward"
  /\ run = "open" => (link # 0 => gen < link)
  /\ run \in {"settle", "lock", "replay"} => gen < conn
  /\ run = "forward" => gen <= conn
  /\ closing = "no" => closedDev = 0
  /\ \A s \in Slots : frames[s] # None => frames[s].gen <= gen

Inv == TypeInv /\ MemoryAgrees /\ StoresOnRecord /\ HolderInOrder
       /\ GenerationsInOrder /\ FramesHeld

(* Nothing to write is a list of messages, and nobody a holder of sendMu.  *)
LEMMA NobodyType == Nothing \in Todos /\ Nobody \in Jobs
  <1>1. Nothing \in [{} -> Messages] /\ {} \in SUBSET Positions
    BY DEF Nothing
  <1>2. Nothing \in Todos
    BY <1>1 DEF Todos
  <1>3. 0 \in Devices
    BY ReconnectingAssumption DEF Devices
  <1> QED
    BY <1>2, <1>3 DEF Nobody, Jobs, Holders

-----------------------------------------------------------------------------
(* The initial state.                                                      *)
LEMMA InitInv == Init => Inv
  <1> SUFFICES ASSUME Init PROVE Inv
    OBVIOUS
  <1> USE PadAssumption, ReconnectingAssumption DEF Init
  <1>1. DefaultColor \in Colors /\ 0 \in Devices
    BY DEF Devices
  <1>2. PowerOnKey \in BoardKeys
    BY <1>1 DEF PowerOnKey, BoardKeys, Plain, Pictures, GlyphOrNone
  <1>3. TypeInv
    <2>1. job \in Jobs
      BY NobodyType
    <2>2. restore \in [Sessions -> Restores]
      BY <1>1 DEF NotRestoring, Restores
    <2>3. MemoryType
      <3>1. frames \in [Slots -> FrameRecs \union {None}]
        BY <1>1 DEF Recorded, FrameRecs, Frames
      <3>2. sheet \in BOOLEAN /\ pin \in [Keys -> Pins]
        BY DEF Pins
      <3> QED
        BY <3>1, <3>2 DEF MemoryType, GlyphOrNone, Counts
    <2>4. RoutineType
      BY <1>1, <2>1, <2>2 DEF RoutineType, RunType
    <2>5. PadType
      <3>1. bkeys \in [Keys -> BoardKeys]
        BY <1>2
      <3>2. cache \in [Slots -> Frames \union {None}]
        OBVIOUS
      <3>3. down \in Seq(Messages) /\ up \in Seq(SUBSET Keys)
        OBVIOUS
      <3> QED
        BY <1>1, <3>1, <3>2, <3>3 DEF PadType
    <2> QED
      BY <2>3, <2>4, <2>5 DEF TypeInv, BoundsType
  <1>4. MemoryAgrees
    BY DEF MemoryAgrees
  <1>5. StoresOnRecord /\ HolderInOrder /\ FramesHeld
    BY DEF StoresOnRecord, HolderInOrder, FramesHeld, Nobody, Nothing
  <1>6. GenerationsInOrder
    <2>1. \A s \in Slots : frames[s] # None => frames[s].gen = 0
      BY DEF Recorded
    <2> QED
      BY <2>1 DEF GenerationsInOrder
  <1> QED
    BY <1>3, <1>4, <1>5, <1>6 DEF Inv

-----------------------------------------------------------------------------
(* What carries over when a step leaves its parts alone.                   *)

(* A step that leaves the memory of the keys alone keeps it agreeing.      *)
LEMMA MemoryKept ==
  ASSUME UNCHANGED memory
  PROVE  /\ MemoryType => MemoryType'
         /\ MemoryAgrees => MemoryAgrees'
  BY DEF memory, pictures, MemoryType, MemoryAgrees, Frame

(* A step that leaves slots, records and messages alone keeps them agreeing. *)
LEMMA HeldKept ==
  ASSUME FramesHeld, UNCHANGED <<frames, gen, cache, down>>,
         (dev' # 0 /\ dev' = link' /\ reloads' = 0) =>
           (dev = dev' /\ link = link' /\ reloads = 0)
  PROVE  FramesHeld'
  BY DEF FramesHeld, OnBoard, IsStore, Frame

(* Taking sendMu for a job keeps the types.                                *)
LEMMA HoldType ==
  ASSUME RoutineType, NEW by \in Holders, NEW todo \in Todos, Hold(by, todo)
  PROVE  job' \in Jobs
  <1> QED
    BY NobodyType DEF Hold, RoutineType, RunType, Jobs

(* The rest of a job has the type of a job.                                *)
LEMMA TodoType ==
  ASSUME NEW P \in SUBSET Positions, NEW todo \in [P -> Messages]
  PROVE  todo \in Todos
  BY DEF Todos

(* The parts of a job that is built from messages.                         *)
LEMMA JobParts ==
  ASSUME RoutineType
  PROVE  /\ DOMAIN job.todo \in SUBSET Positions
         /\ job.todo \in [DOMAIN job.todo -> Messages]
         /\ \A i \in DOMAIN job.todo : job.todo[i] \in Messages
         /\ job.by \in Holders /\ job.dev \in Devices /\ job.gen \in Devices
  <1>1. job.todo \in Todos /\ job.by \in Holders /\ job.dev \in Devices
        /\ job.gen \in Devices
    BY DEF RoutineType, RunType, Jobs
  <1>2. PICK P \in SUBSET Positions : job.todo \in [P -> Messages]
    BY <1>1 DEF Todos
  <1> QED
    BY <1>1, <1>2

(* The parts of a job that stores a frame.                                 *)
LEMMA StoreParts ==
  ASSUME NEW m \in Messages, m.t = "store"
  PROVE  m.slot \in Slots /\ m.frame \in Frames
  BY DEF Messages, KeyMsgs, GlyphMsgs, StoreMsgs, ShowMsgs, SheetMsgs

(* A job that a goroutine of the current connection starts is in order.    *)
LEMMA HoldInOrder ==
  ASSUME HolderInOrder, FreeToSend, NEW by, by \notin {"free", "connect"},
         NEW todo, Hold(by, todo), UNCHANGED <<dev, gen, run, conn>>
  PROVE  HolderInOrder'
  BY DEF HolderInOrder, FreeToSend, Hold, Nobody, Nothing

-----------------------------------------------------------------------------
(* The sending methods.                                                    *)

(* SendKeyState keeps the invariant.                                       *)
LEMMA SendKeyStateInv ==
  ASSUME Inv, NEW k \in Keys, NEW ks \in KeyStates, CallSendKeyState(k, ks)
  PROVE  Inv'
  <1> USE DEF Inv, TypeInv, CallSendKeyState
  <1> DEFINE todo == [i \in {0} |-> [t |-> "key", key |-> k, color |-> ks.color,
                                     custom |-> ks.custom]]
  <1>1. MemoryType'
    BY PadAssumption DEF MemoryType, ForgetShown, KeptGlyph, GlyphOrNone, Counts, Pins
  <1>2. todo \in Todos
    <2>1. todo \in [{0} -> Messages] /\ {0} \in SUBSET Positions
      BY PadAssumption DEF KeyStates, Messages, KeyMsgs, Positions
    <2> QED
      BY <2>1, TodoType
  <1>3. RoutineType'
    BY <1>2, HoldType DEF RoutineType, RunType, rout, closers, Holders
  <1>4. PadType' /\ BoundsType'
    BY DEF PadType, BoundsType, board, CanCall
  <1>5. MemoryAgrees'
    BY DEF MemoryAgrees, MemoryType, ForgetShown, Frame, Counts
  <1>6. StoresOnRecord'
    BY DEF StoresOnRecord, Hold, Nobody, Nothing
  <1>7. HolderInOrder'
    BY HoldInOrder DEF CanCall, rout
  <1>8. GenerationsInOrder'
    BY DEF GenerationsInOrder, rout, closers
  <1>9. FramesHeld'
    BY HeldKept DEF board
  <1> QED
    BY <1>1, <1>3, <1>4, <1>5, <1>6, <1>7, <1>8, <1>9

(* SendCustomGlyph keeps the invariant.                                    *)
LEMMA SendCustomGlyphInv ==
  ASSUME Inv, NEW k \in Keys, NEW g \in Glyphs, CallSendCustomGlyph(k, g)
  PROVE  Inv'
  <1> USE DEF Inv, TypeInv, CallSendCustomGlyph
  <1> DEFINE todo == [i \in {0} |-> [t |-> "glyph", key |-> k, glyph |-> g]]
  <1>1. MemoryType'
    BY PadAssumption DEF MemoryType, ForgetShown, KeptGlyph, GlyphOrNone, Counts,
       KeyStates
  <1>2. todo \in Todos
    <2>1. todo \in [{0} -> Messages] /\ {0} \in SUBSET Positions
      BY PadAssumption DEF Messages, GlyphMsgs, Positions
    <2> QED
      BY <2>1, TodoType
  <1>3. RoutineType'
    BY <1>2, HoldType DEF RoutineType, RunType, rout, closers, Holders
  <1>4. PadType' /\ BoundsType'
    BY DEF PadType, BoundsType, board, CanCall
  <1>5. MemoryAgrees'
    BY DEF MemoryAgrees, MemoryType, ForgetShown, Frame, Counts
  <1>6. StoresOnRecord'
    BY DEF StoresOnRecord, Hold, Nobody, Nothing
  <1>7. HolderInOrder'
    BY HoldInOrder DEF CanCall, rout
  <1>8. GenerationsInOrder'
    BY DEF GenerationsInOrder, rout, closers
  <1>9. FramesHeld'
    BY HeldKept DEF board
  <1> QED
    BY <1>1, <1>3, <1>4, <1>5, <1>6, <1>7, <1>8, <1>9

(* StoreFrame keeps the invariant.                                         *)
LEMMA StoreFrameInv ==
  ASSUME Inv, NEW s \in Slots, NEW f \in Frames, CallStoreFrame(s, f)
  PROVE  Inv'
  <1> USE DEF Inv, TypeInv, CallStoreFrame
  <1> DEFINE todo == [i \in {0} |-> [t |-> "store", slot |-> s, frame |-> f]]
  <1>0. Recorded(f) \in FrameRecs /\ Recorded(f) # None /\ gen \in Nat
    BY PadAssumption, ReconnectingAssumption, NoneAssumption
       DEF Recorded, Frames, FrameRecs, Devices, RoutineType, RunType
  <1>1. MemoryType'
    BY <1>0 DEF MemoryType, Pins
  <1>2. todo \in Todos
    <2>1. todo \in [{0} -> Messages] /\ {0} \in SUBSET Positions
      BY PadAssumption DEF Messages, StoreMsgs, Positions
    <2> QED
      BY <2>1, TodoType
  <1>3. RoutineType'
    BY <1>2, HoldType DEF RoutineType, RunType, rout, closers, Holders
  <1>4. PadType' /\ BoundsType'
    BY DEF PadType, BoundsType, board, CanCall
  <1>5. MemoryAgrees'
    <2> SUFFICES ASSUME NEW k \in Keys
                 PROVE  /\ shown[k] # None =>
                             /\ keys[k] # None /\ frames'[shown[k]] # None
                             /\ pin'[k] # "reused" =>
                                  Frame(shown[k])' = [color |-> keys[k].color,
                                                      glyph |-> glyphs[k]]
                             /\ keys[k].custom <=> glyphs[k] # None
                        /\ pips[k] > 0 => shown[k] # None /\ sheet
      BY DEF MemoryAgrees
    <2>1. \A r \in Slots : frames[r] # None => frames'[r] # None
      BY <1>0 DEF MemoryType
    <2>2. shown[k] # None => shown[k] \in Slots
      BY DEF MemoryType
    <2>3. CASE shown[k] = s
      <3>1. pin'[k] = "reused"
        BY <2>3
      <3> QED
        BY <2>1, <2>2, <3>1 DEF MemoryAgrees
    <2>4. CASE shown[k] # s
      <3>1. pin'[k] = pin[k] /\ frames'[shown[k]] = frames[shown[k]]
        BY <2>2, <2>4 DEF MemoryType
      <3>2. Frame(shown[k])' = Frame(shown[k])
        BY <3>1 DEF Frame
      <3> QED
        BY <3>1, <3>2 DEF MemoryAgrees
    <2> QED
      BY <2>3, <2>4
  <1>6. StoresOnRecord'
    <2>1. /\ frames'[s] = Recorded(f)
          /\ Frame(s)' = f
      BY DEF MemoryType, Frame, Frames, Recorded
    <2> QED
      BY <2>1, <1>0 DEF StoresOnRecord, Hold, Nobody, Nothing
  <1>7. HolderInOrder'
    BY HoldInOrder DEF CanCall, rout
  <1>8. GenerationsInOrder'
    BY <1>0 DEF GenerationsInOrder, rout, closers, MemoryType, Recorded
  <1>9. FramesHeld'
    <2>1. dev # 0 => gen # 0
      BY <1>0 DEF GenerationsInOrder
    <2> QED
      BY <2>1, <1>0 DEF FramesHeld, OnBoard, IsStore, Frame, MemoryType, Recorded, board
  <1> QED
    BY <1>1, <1>3, <1>4, <1>5, <1>6, <1>7, <1>8, <1>9

(* StorePipSheet keeps the invariant.                                      *)
LEMMA StorePipSheetInv ==
  ASSUME Inv, CallStorePipSheet
  PROVE  Inv'
  <1> USE DEF Inv, TypeInv, CallStorePipSheet
  <1> DEFINE todo == [i \in {0} |-> [t |-> "sheet"]]
  <1>1. MemoryType'
    BY DEF MemoryType
  <1>2. todo \in Todos
    <2>1. todo \in [{0} -> Messages] /\ {0} \in SUBSET Positions
      BY PadAssumption DEF Messages, SheetMsgs, Positions
    <2> QED
      BY <2>1, TodoType
  <1>3. RoutineType'
    BY <1>2, HoldType DEF RoutineType, RunType, rout, closers, Holders
  <1>4. PadType' /\ BoundsType'
    BY DEF PadType, BoundsType, board, CanCall
  <1>5. MemoryAgrees'
    BY DEF MemoryAgrees, Frame
  <1>6. StoresOnRecord'
    BY DEF StoresOnRecord, Hold, Nobody, Nothing
  <1>7. HolderInOrder'
    BY HoldInOrder DEF CanCall, rout
  <1>8. GenerationsInOrder'
    BY DEF GenerationsInOrder, rout, closers
  <1>9. FramesHeld'
    BY HeldKept DEF board
  <1> QED
    BY <1>1, <1>3, <1>4, <1>5, <1>6, <1>7, <1>8, <1>9

(* ShowFrames, with pips or without, keeps the invariant.                  *)
LEMMA ShowInv ==
  ASSUME Inv, NEW slots \in SlotChoice, NEW counts \in [Keys -> 0 .. MaxPip],
         CallShow(slots, counts)
  PROVE  Inv'
  <1> USE DEF Inv, TypeInv, CallShow, StateOf
  <1> DEFINE P == Late(slots) \union {NumKeys}
             todo == [i \in P |-> IF i = NumKeys
                        THEN [t |-> "show", slots |-> slots, counts |-> counts]
                        ELSE StoreMsg(slots[i])]
  <1>0. \A k \in Known(slots) : /\ k \in Keys /\ slots[k] \in Slots
                                /\ frames[slots[k]] \in FrameRecs
    BY DEF Known, SlotChoice, MemoryType
  <1>1. MemoryType'
    <2>1. counts \in Counts
      BY ReconnectingAssumption DEF Counts
    <2>2. pin' \in [Keys -> Pins]
      BY DEF MemoryType, Loosened, Pins
    <2> QED
      BY <1>0, <2>1, <2>2 DEF MemoryType, FrameRecs, KeyStates, Counts
  <1>2. todo \in Todos
    <2>1. P \in SUBSET Positions
      BY PadAssumption DEF Late, Known, Positions, Keys
    <2>2. [t |-> "show", slots |-> slots, counts |-> counts] \in Messages
      BY ReconnectingAssumption DEF Messages, ShowMsgs, Counts
    <2>3. ASSUME NEW i \in Late(slots) PROVE StoreMsg(slots[i]) \in Messages
      BY <1>0 DEF Late, StoreMsg, Frame, FrameRecs, Frames, Messages, StoreMsgs
    <2>4. todo \in [P -> Messages]
      BY <2>2, <2>3
    <2> QED
      BY <2>1, <2>4, TodoType
  <1>3. RoutineType'
    BY <1>2, HoldType DEF RoutineType, RunType, rout, closers, Holders
  <1>4. PadType' /\ BoundsType'
    BY <1>0 DEF PadType, BoundsType, board, CanCall
  <1>5. MemoryAgrees'
    <2>1. \A s : Frame(s)' = Frame(s)
      BY DEF Frame
    <2>2. ASSUME NEW k \in Known(slots)
          PROVE  /\ shown'[k] = slots[k] /\ frames'[slots[k]] # None
                 /\ keys'[k] = [color |-> frames[slots[k]].color,
                               custom |-> frames[slots[k]].glyph # None]
                 /\ keys'[k] # None
                 /\ glyphs'[k] = frames[slots[k]].glyph
                 /\ pips'[k] = counts[k]
                 /\ slots[k] # None
      <3>1. [color |-> frames[slots[k]].color,
             custom |-> frames[slots[k]].glyph # None] \in KeyStates
        BY <1>0 DEF KeyStates, FrameRecs
      <3> QED
        BY <1>0, <3>1, NoneAssumption DEF Known
    <2>3. ASSUME NEW k \in Keys, k \notin Known(slots)
          PROVE  /\ shown'[k] = shown[k] /\ keys'[k] = keys[k]
                 /\ glyphs'[k] = glyphs[k] /\ pips'[k] = pips[k]
                 /\ pin'[k] = "reused" <=> pin[k] = "reused"
      BY <2>3 DEF Loosened, MemoryType
    <2> QED
      BY <2>1, <2>2, <2>3 DEF MemoryAgrees, Frame
  <1>6. StoresOnRecord'
    <2>1. ASSUME NEW i \in P, todo[i].t = "store"
          PROVE  /\ frames[todo[i].slot] # None
                 /\ todo[i].frame = Frame(todo[i].slot)
      <3>1. i \in Late(slots) /\ todo[i] = StoreMsg(slots[i])
        BY <2>1
      <3> QED
        BY <3>1 DEF StoreMsg, Late, Known
    <2>2. job'.todo = Nothing \/ (job'.todo = todo /\ job'.by = "frame")
      BY DEF Hold, Nobody
    <2>3. DOMAIN todo = P /\ DOMAIN Nothing = {}
      BY DEF Nothing
    <2>4. \A s : Frame(s)' = Frame(s)
      BY DEF Frame
    <2> HIDE DEF todo
    <2> QED
      BY <2>1, <2>2, <2>3, <2>4 DEF StoresOnRecord
  <1>7. HolderInOrder'
    BY HoldInOrder DEF CanCall, rout
  <1>8. GenerationsInOrder'
    BY DEF GenerationsInOrder, rout, closers
  <1>9. FramesHeld'
    BY HeldKept DEF board
  <1> QED
    BY <1>1, <1>3, <1>4, <1>5, <1>6, <1>7, <1>8, <1>9

-----------------------------------------------------------------------------
(* OnBoard and the messages in flight.                                     *)

(* A message that stores nothing leaves what the board will hold.          *)
LEMMA OnBoardAppendOther ==
  ASSUME down \in Seq(Messages), NEW m \in Messages, down' = Append(down, m),
         cache' = cache, NEW s, NEW f, OnBoard(s, f), ~(m.t = "store" /\ m.slot = s)
  PROVE  OnBoard(s, f)'
  <1>1. /\ DOMAIN down = 1 .. Len(down) /\ Len(down) \in Nat
        /\ DOMAIN down' = 1 .. Len(down) + 1
        /\ \A i \in 1 .. Len(down) : down'[i] = down[i]
        /\ down'[Len(down) + 1] = m
    OBVIOUS
  <1>2. \A i \in DOMAIN down : IsStore(i, s)' <=> IsStore(i, s)
    BY <1>1 DEF IsStore
  <1>3. \A i \in DOMAIN down' : i \notin DOMAIN down => ~IsStore(i, s)'
    BY <1>1 DEF IsStore
  <1>4. CASE cache[s] = f /\ \A i \in DOMAIN down : ~IsStore(i, s)
    BY <1>1, <1>2, <1>3, <1>4 DEF OnBoard
  <1>5. CASE \E i \in DOMAIN down :
               /\ IsStore(i, s) /\ down[i].frame = f
               /\ \A j \in DOMAIN down : j > i => ~IsStore(j, s)
    BY <1>1, <1>2, <1>3, <1>5 DEF OnBoard
  <1> QED
    BY <1>4, <1>5 DEF OnBoard

(* A Store frame message puts its frame where it says.                     *)
LEMMA OnBoardAppendStore ==
  ASSUME down \in Seq(Messages), NEW m \in Messages, down' = Append(down, m),
         m.t = "store"
  PROVE  OnBoard(m.slot, m.frame)'
  <1>1. /\ DOMAIN down' = 1 .. Len(down) + 1 /\ Len(down) \in Nat
        /\ down'[Len(down) + 1] = m
    OBVIOUS
  <1> QED
    BY <1>1 DEF OnBoard, IsStore

(* The board handles the first message: what it will hold is the same.     *)
LEMMA OnBoardTail ==
  ASSUME down \in Seq(Messages), down # <<>>, down' = Tail(down), NEW s, NEW f,
         OnBoard(s, f),
         cache'[s] = IF Head(down).t = "store" /\ Head(down).slot = s
                     THEN Head(down).frame ELSE cache[s]
  PROVE  OnBoard(s, f)'
  <1>1. /\ DOMAIN down = 1 .. Len(down) /\ Len(down) \in Nat \ {0}
        /\ DOMAIN down' = 1 .. Len(down) - 1
        /\ \A i \in 1 .. Len(down) - 1 : down'[i] = down[i + 1]
        /\ Head(down) = down[1]
    OBVIOUS
  <1>2. \A i \in 1 .. Len(down) - 1 : IsStore(i, s)' <=> IsStore(i + 1, s)
    BY <1>1 DEF IsStore
  <1>3. CASE cache[s] = f /\ \A i \in DOMAIN down : ~IsStore(i, s)
    <2>1. cache'[s] = f
      BY <1>1, <1>3 DEF IsStore
    <2>2. \A i \in DOMAIN down' : ~IsStore(i, s)'
      BY <1>1, <1>2, <1>3
    <2> QED
      BY <2>1, <2>2 DEF OnBoard
  <1>4. ASSUME NEW i \in DOMAIN down, IsStore(i, s), down[i].frame = f,
               \A j \in DOMAIN down : j > i => ~IsStore(j, s)
        PROVE  OnBoard(s, f)'
    <2>1. CASE i = 1
      <3>1. cache'[s] = f
        BY <1>1, <1>4, <2>1 DEF IsStore
      <3>2. \A j \in DOMAIN down' : ~IsStore(j, s)'
        BY <1>1, <1>2, <1>4, <2>1
      <3> QED
        BY <3>1, <3>2 DEF OnBoard
    <2>2. CASE i # 1
      <3>1. i - 1 \in DOMAIN down' /\ down'[i - 1] = down[i] /\ IsStore(i - 1, s)'
        BY <1>1, <1>2, <1>4, <2>2
      <3>2. \A j \in DOMAIN down' : j > i - 1 => ~IsStore(j, s)'
        BY <1>1, <1>2, <1>4
      <3> QED
        BY <1>4, <3>1, <3>2 DEF OnBoard
    <2> QED
      BY <2>1, <2>2
  <1> QED
    BY <1>3, <1>4 DEF OnBoard

-----------------------------------------------------------------------------
(* Writing, failing to, and unlocking.                                     *)

(* Dropping a slot from the set that is held keeps the types.              *)
LEMMA WithoutType ==
  ASSUME RoutineType, NEW i, NEW err \in BOOLEAN,
         job' = [job EXCEPT !.err = err,
                            !.todo = [j \in DOMAIN job.todo \ {i} |-> job.todo[j]]]
  PROVE  job' \in Jobs
  <1> DEFINE todo == [j \in DOMAIN job.todo \ {i} |-> job.todo[j]]
  <1>1. todo \in [DOMAIN job.todo \ {i} -> Messages]
        /\ DOMAIN job.todo \ {i} \in SUBSET Positions
    BY JobParts
  <1>2. todo \in Todos
    BY <1>1, TodoType
  <1>3. job' = [job EXCEPT !.err = err, !.todo = todo]
    OBVIOUS
  <1> HIDE DEF todo
  <1> QED
    BY <1>2, <1>3 DEF RoutineType, RunType, Jobs

(* A message that reaches the port keeps the invariant.                    *)
LEMMA WrittenInv ==
  ASSUME Inv, NEW i \in Positions, NextWrite(i), Written(i),
         \/ down' = Append(down, job.todo[i]) /\ job.dev = link
         \/ down' = down /\ job.dev # link
  PROVE  Inv'
  <1> USE DEF Inv, TypeInv, Written
  <1>a. /\ i \in DOMAIN job.todo /\ job.by # "free"
        /\ DOMAIN job.todo \in SUBSET Positions
        /\ \A j \in DOMAIN job.todo : job.todo[j] \in Messages
    BY JobParts DEF NextWrite, HolderInOrder
  <1>b. PICK m \in Messages : m = job.todo[i]
    BY <1>a
  <1>0. /\ i \in DOMAIN job.todo /\ job.by # "free"
        /\ DOMAIN job.todo \in SUBSET Positions
        /\ \A j \in DOMAIN job.todo : job.todo[j] \in Messages
        /\ m \in Messages /\ job.todo[i] = m
    BY <1>a, <1>b
  <1>1. job.by # "connect" => job.gen = gen /\ (dev # 0 => job.dev = dev)
    BY <1>0 DEF HolderInOrder
  <1>2. m.t = "store" =>
          /\ m.slot \in Slots /\ m.frame \in Frames /\ frames[m.slot] \in FrameRecs
          /\ frames[m.slot] # None /\ m.frame = Frame(m.slot)
          /\ job.by # "connect"
    BY <1>0, StoreParts DEF StoresOnRecord, MemoryType
  <1>3. /\ frames' \in [Slots -> FrameRecs \union {None}]
        /\ \A s \in Slots : /\ Frame(s)' = Frame(s)
                            /\ frames'[s] = None <=> frames[s] = None
                            /\ frames'[s] # None =>
                                 frames'[s].gen = IF m.t = "store" /\ m.slot = s
                                                  THEN gen ELSE frames[s].gen
    <2>1. CASE m.t = "store"
      <3>1. /\ [frames[m.slot] EXCEPT !.gen = gen] \in FrameRecs
            /\ frames' = [frames EXCEPT ![m.slot].gen = gen]
        BY <1>0, <1>1, <1>2, <2>1 DEF FrameRecs, RoutineType, RunType
      <3>2. [frames[m.slot] EXCEPT !.gen = gen] # None
        BY <3>1, NoneAssumption
      <3>3. frames \in [Slots -> FrameRecs \union {None}] /\ m.slot \in Slots
            /\ frames[m.slot] \in FrameRecs
        BY <1>2, <2>1 DEF MemoryType
      <3>4. frames' \in [Slots -> FrameRecs \union {None}]
        BY <3>1, <3>3
      <3>5. ASSUME NEW s \in Slots, s # m.slot PROVE frames'[s] = frames[s]
        BY <3>1, <3>3, <3>5
      <3>6. /\ frames'[m.slot] = [frames[m.slot] EXCEPT !.gen = gen]
            /\ frames'[m.slot].gen = gen
            /\ frames'[m.slot].color = frames[m.slot].color
            /\ frames'[m.slot].glyph = frames[m.slot].glyph
        BY <3>1, <3>3 DEF FrameRecs
      <3>7. ASSUME NEW s \in Slots
            PROVE  /\ frames'[s].color = frames[s].color
                   /\ frames'[s].glyph = frames[s].glyph
                   /\ frames'[s] = None <=> frames[s] = None
                   /\ frames'[s].gen = IF s = m.slot THEN gen ELSE frames[s].gen
        <4> HIDE DEF Inv, TypeInv, Written
        <4>1. CASE s = m.slot
          BY <1>2, <2>1, <3>2, <3>6, <4>1
        <4>2. CASE s # m.slot
          BY <3>5, <4>2
        <4> QED
          BY <4>1, <4>2
      <3>8. \A s \in Slots : Frame(s)' = Frame(s)
        BY <3>7 DEF Frame
      <3> QED
        BY <2>1, <3>4, <3>7, <3>8
    <2>2. CASE m.t # "store"
      BY <1>0, <2>2 DEF MemoryType, Frame
    <2> QED
      BY <2>1, <2>2
  <1>4. job' \in Jobs
    <2>1. job.err \in BOOLEAN /\ job = [job EXCEPT !.err = job.err]
      BY DEF RoutineType, RunType, Jobs
    <2> QED
      BY <2>1, WithoutType DEF RoutineType, RunType, Jobs
  <1>5. /\ DOMAIN job'.todo = DOMAIN job.todo \ {i}
        /\ \A j \in DOMAIN job'.todo : job'.todo[j] = job.todo[j]
        /\ job'.by = job.by /\ job'.dev = job.dev /\ job'.gen = job.gen
    BY DEF RoutineType, RunType, Jobs
  <1>6. MemoryType' /\ RoutineType' /\ BoundsType'
    BY <1>3, <1>4 DEF MemoryType, RoutineType, RunType, BoundsType, rout, closers, bounds
  <1>7. PadType'
    <2>1. down' \in Seq(Messages)
      <3>1. down \in Seq(Messages) /\ (down' = down \/ down' = Append(down, m))
        BY <1>0 DEF PadType
      <3>2. Append(down, m) \in Seq(Messages)
        BY <3>1, AppendProperties
      <3> QED
        BY <3>1, <3>2
    <2> QED
      BY <2>1 DEF PadType, board
  <1>8. MemoryAgrees'
    BY <1>3 DEF MemoryAgrees, MemoryType
  <1>9. StoresOnRecord'
    <2>1. ASSUME NEW j \in DOMAIN job'.todo
          PROVE  /\ j \in DOMAIN job.todo
                 /\ job.todo[j].t = "store" => job.todo[j].slot \in Slots
      <3>1. j \in DOMAIN job.todo
        BY <1>5
      <3>2. PICK x \in Messages : x = job.todo[j]
        BY <1>0, <3>1, JobParts
      <3> QED
        BY <3>1, <3>2, StoreParts
    <2>2. ASSUME NEW j \in DOMAIN job'.todo, NEW x, x = job'.todo[j], x.t = "store"
          PROVE  job'.by # "connect" /\ frames'[x.slot] # None /\ x.frame = Frame(x.slot)'
      <3>1. x = job.todo[j] /\ x.slot \in Slots
        BY <1>5, <2>1, <2>2
      <3>2. job.by # "connect" /\ frames[x.slot] # None /\ x.frame = Frame(x.slot)
        BY <2>1, <2>2, <3>1 DEF StoresOnRecord
      <3> QED
        BY <1>3, <1>5, <3>1, <3>2
    <2> QED
      BY <2>2 DEF StoresOnRecord, Frame
  <1>10. HolderInOrder'
    BY <1>0, <1>5 DEF HolderInOrder, rout
  <1>11. GenerationsInOrder'
    <2>1. gen \in Nat
      BY ReconnectingAssumption DEF RoutineType, RunType, Devices
    <2> QED
      BY <2>1, <1>3 DEF GenerationsInOrder, rout, closers
  <1>12. FramesHeld'
    <2> SUFFICES ASSUME dev # 0, dev = link, reloads = 0, NEW s \in Slots,
                        frames'[s] # None, frames'[s].gen = gen
                 PROVE  OnBoard(s, Frame(s))'
      BY DEF FramesHeld, bounds
    <2>1. CASE m.t = "store" /\ m.slot = s
      <3>1. down' = Append(down, m)
        BY <1>0, <1>1, <1>2, <2>1
      <3>2. OnBoard(m.slot, m.frame)'
        BY <1>0, <2>1, <3>1, OnBoardAppendStore DEF PadType
      <3>3. m.slot = s /\ m.frame = Frame(s)'
        BY <1>2, <1>3, <2>1
      <3> QED
        BY <3>2, <3>3 DEF OnBoard, IsStore
    <2>2. CASE ~(m.t = "store" /\ m.slot = s)
      <3>1. OnBoard(s, Frame(s))
        BY <1>3, <2>2 DEF FramesHeld
      <3>2. CASE down' = Append(down, m)
        BY <1>0, <1>3, <2>2, <3>1, <3>2, OnBoardAppendOther DEF PadType, board
      <3>3. CASE down' = down
        BY <1>3, <3>1, <3>3 DEF OnBoard, IsStore, board
      <3> QED
        BY <1>0, <3>2, <3>3
    <2> QED
      BY <2>1, <2>2
  <1> QED
    BY <1>6, <1>7, <1>8, <1>9, <1>10, <1>11, <1>12

(* A write to a lost port keeps the invariant.                             *)
LEMMA WriteFailsInv ==
  ASSUME Inv, WriteFails
  PROVE  Inv'
  <1> USE DEF Inv, TypeInv
  <1>1. PICK i \in Positions :
          /\ NextWrite(i) /\ ~Alive(job.dev)
          /\ job' = [job EXCEPT !.err = TRUE,
                                !.todo = IF job.by = "connect"
                                  THEN [j \in DOMAIN job.todo \ {i} |-> job.todo[j]]
                                  ELSE Nothing]
          /\ restore' = IF job.by = "restore"
                        THEN [restore EXCEPT ![job.gen] = NotRestoring] ELSE restore
    BY DEF WriteFails
  <1>2. UNCHANGED <<pictures, dev, gen, run, conn, misses, closers, link, session,
                    board, down, up, bounds, fresh>>
    BY DEF WriteFails
  <1>3. job' \in Jobs
    <2>1. CASE job.by = "connect"
      BY <1>1, <2>1, WithoutType
    <2>2. CASE job.by # "connect"
      <3>1. job' = [job EXCEPT !.err = TRUE, !.todo = Nothing]
        BY <1>1, <2>2
      <3> QED
        BY <3>1, NobodyType DEF RoutineType, RunType, Jobs
    <2> QED
      BY <2>1, <2>2
  <1>4. restore' \in [Sessions -> Restores]
    <2>1. NotRestoring \in Restores
      BY ReconnectingAssumption DEF NotRestoring, Restores, Devices
    <2> QED
      BY <1>1, <2>1 DEF RoutineType, RunType
  <1>0. /\ MemoryType' /\ MemoryAgrees'
        /\ UNCHANGED <<keys, glyphs, frames, shown, pips, sheet>>
    <2>1. UNCHANGED <<keys, glyphs, frames, shown, pips, sheet>>
      BY <1>2 DEF pictures
    <2>2. pin' = Loosened(FailedShow)
      BY DEF WriteFails
    <2>3. pin' \in [Keys -> Pins] /\ \A k \in Keys : pin'[k] = "reused" <=> pin[k] = "reused"
      BY <2>2 DEF Loosened, MemoryType, Pins
    <2> QED
      BY <2>1, <2>3 DEF MemoryType, MemoryAgrees, Frame
  <1>5. TypeInv'
    BY <1>0, <1>2, <1>3, <1>4 DEF RoutineType, RunType, PadType, BoundsType, closers,
       board, bounds
  <1>6. /\ DOMAIN job'.todo \subseteq DOMAIN job.todo
        /\ \A j \in DOMAIN job'.todo : job'.todo[j] = job.todo[j]
        /\ job'.by = job.by /\ job'.dev = job.dev /\ job'.gen = job.gen
    BY <1>1 DEF RoutineType, RunType, Jobs, Nothing
  <1>7. StoresOnRecord'
    BY <1>0, <1>6 DEF StoresOnRecord, Frame
  <1>8. HolderInOrder' /\ GenerationsInOrder'
    BY <1>0, <1>2, <1>6 DEF HolderInOrder, GenerationsInOrder, closers
  <1>9. FramesHeld'
    BY <1>0, <1>2, HeldKept DEF board, bounds
  <1> QED
    BY <1>0, <1>5, <1>7, <1>8, <1>9

(* The end of a job keeps the invariant.                                   *)
LEMMA UnlockInv ==
  ASSUME Inv, Unlock
  PROVE  Inv'
  <1> USE DEF Inv, TypeInv
  <1>1. /\ job.by # "free" /\ job' = Nobody
        /\ UNCHANGED <<memory, conn, misses, closers, link, session, board, down,
                       up, bounds, fresh>>
    BY DEF Unlock
  <1>2. Nobody \in Jobs
    BY NobodyType
  <1>3. StoresOnRecord'
    BY <1>1 DEF StoresOnRecord, Nobody, Nothing
  <1>4. CASE job.by = "connect"
    <2>1. /\ gen' = gen + 1 /\ dev' = conn /\ run' = "forward"
          /\ restore' = [restore EXCEPT ![gen + 1] =
                           [pc |-> "start", dev |-> conn, left |-> {}]]
          /\ gen < conn /\ run = "replay" /\ dev = 0
      BY <1>4 DEF Unlock, HolderInOrder, GenerationsInOrder
    <2>2. gen \in Nat /\ conn \in Nat /\ conn <= MaxSessions /\ session \in Nat
      BY ReconnectingAssumption DEF RoutineType, RunType, PadType, Devices
    <2>3. restore' \in [Sessions -> Restores]
      <3>1. [pc |-> "start", dev |-> conn, left |-> {}] \in Restores
        BY DEF RoutineType, RunType, Restores
      <3> QED
        BY <2>1, <3>1 DEF RoutineType, RunType
    <2>4. gen' \in Devices /\ dev' \in Devices
      BY <2>1, <2>2, ReconnectingAssumption DEF Devices
    <2>5. TypeInv'
      BY <1>1, <1>2, <2>1, <2>3, <2>4, MemoryKept DEF RoutineType, RunType, PadType, BoundsType,
         closers, board, bounds
    <2>6. \A s \in Slots : frames[s] # None => frames[s].gen \in Nat
      BY ReconnectingAssumption DEF MemoryType, FrameRecs, Devices
    <2>7. HolderInOrder' /\ GenerationsInOrder'
      BY <1>1, <2>1, <2>2, <2>6 DEF HolderInOrder, GenerationsInOrder, Nobody, Nothing,
         memory, pictures, closers
    <2>8. FramesHeld'
      BY <1>1, <2>1, <2>2, <2>6 DEF FramesHeld, GenerationsInOrder, memory, pictures
    <2> QED
      BY <1>1, <1>3, <2>5, <2>7, <2>8, MemoryKept
  <1>5. CASE job.by # "connect"
    <2>1. UNCHANGED <<gen, dev, run, restore>>
      BY <1>5 DEF Unlock
    <2>2. TypeInv'
      BY <1>1, <1>2, <2>1, MemoryKept DEF RoutineType, RunType, PadType, BoundsType,
         closers, board, bounds
    <2>3. HolderInOrder' /\ GenerationsInOrder'
      BY <1>1, <1>5, <2>1 DEF HolderInOrder, GenerationsInOrder, Nobody, Nothing,
         memory, pictures, closers
    <2>4. FramesHeld'
      BY <1>1, <2>1, HeldKept DEF memory, pictures, board, bounds
    <2> QED
      BY <1>1, <1>3, <2>2, <2>3, <2>4, MemoryKept
  <1> QED
    BY <1>4, <1>5

-----------------------------------------------------------------------------
(* The run goroutine.                                                      *)

(* Opening the port keeps the invariant.                                   *)
LEMMA OpenInv ==
  ASSUME Inv, Open \/ Settle \/ GiveUp
  PROVE  Inv'
  <1> USE DEF Inv, TypeInv, Open, Settle, GiveUp, Idle
  <1>1. /\ UNCHANGED <<memory, gen, dev, link, session, board, bounds, down, job,
                       restore, misses, closers, up, fresh>>
        /\ dev = 0 /\ run \in {"open", "settle"} /\ run' \in {"settle", "lock", "done"}
        /\ conn' \in {0, link, conn}
    BY DEF GenerationsInOrder
  <1>2. gen \in Nat /\ link \in Nat /\ session \in Nat /\ conn \in Nat
    BY ReconnectingAssumption DEF RoutineType, RunType, PadType, Devices
  <1>3. TypeInv'
    <2>1. conn' \in Devices
      BY <1>1, ReconnectingAssumption DEF RoutineType, RunType, PadType, Devices
    <2> QED
      BY <1>1, <2>1, MemoryKept DEF RoutineType, RunType, PadType, BoundsType, closers, board,
         bounds
  <1>4. StoresOnRecord'
    BY <1>1 DEF StoresOnRecord, memory, pictures, Frame
  <1>5. HolderInOrder'
    BY <1>1 DEF HolderInOrder
  <1>6. GenerationsInOrder'
    BY <1>1, <1>2 DEF GenerationsInOrder, memory, pictures, closers
  <1>7. FramesHeld'
    BY <1>1, HeldKept DEF memory, pictures, board, bounds
  <1> QED
    BY <1>1, <1>3, <1>4, <1>5, <1>6, <1>7, MemoryKept

(* The end of the replay, which makes the device current, keeps the invariant. *)
LEMMA ConnectInv ==
  ASSUME Inv, Connect
  PROVE  Inv'
  <1> USE DEF Inv, TypeInv, Connect, Idle
  <1>1. UNCHANGED <<memory, gen, dev, link, session, board, bounds, down, conn,
                    restore, misses, closers, up>>
    OBVIOUS
  <1>2. ASSUME NEW i \in ReplayAt PROVE ReplayMsg(i) \in Messages /\ ReplayMsg(i).t # "store"
    <2>1. CASE i = 0
      BY <2>1 DEF ReplayMsg, Messages, SheetMsgs
    <2>2. CASE i # 0
      <3> DEFINE k == (i - 1) \div 2
      <3>1. k \in Keys /\ keys[k] # None /\ (i % 2 = 1 => glyphs[k] # None)
        BY <2>2, PadAssumption DEF ReplayAt, Positions, Keys
      <3>2. keys[k] \in KeyStates /\ (i % 2 = 1 => glyphs[k] \in Glyphs)
        BY <3>1 DEF MemoryType, GlyphOrNone
      <3> QED
        BY <2>2, <3>1, <3>2 DEF ReplayMsg, Messages, KeyMsgs, GlyphMsgs, KeyStates
    <2> QED
      BY <2>1, <2>2
  <1>3. job' \in Jobs
    <2> DEFINE todo == [i \in ReplayAt |-> ReplayMsg(i)]
    <2>1. todo \in [ReplayAt -> Messages] /\ ReplayAt \in SUBSET Positions
      BY <1>2 DEF ReplayAt
    <2>2. todo \in Todos
      BY <2>1, TodoType
    <2>3. job' = [by |-> "connect", dev |-> conn, gen |-> gen, err |-> FALSE, todo |-> todo]
      OBVIOUS
    <2> HIDE DEF todo
    <2> QED
      BY <2>2, <2>3 DEF RoutineType, RunType, Jobs, Holders
  <1>4. TypeInv'
    <2>1. fresh' \subseteq Keys
      BY DEF BoundsType
    <2> QED
      BY <1>1, <1>3, <2>1, MemoryKept DEF RoutineType, RunType, PadType, BoundsType, closers,
         board, bounds
  <1>5. StoresOnRecord'
    <2>1. \A i \in DOMAIN job'.todo : i \in ReplayAt /\ job'.todo[i] = ReplayMsg(i)
      OBVIOUS
    <2> HIDE DEF Connect
    <2> QED
      BY <1>2, <2>1 DEF StoresOnRecord
  <1>6. HolderInOrder' /\ GenerationsInOrder'
    BY <1>1 DEF HolderInOrder, GenerationsInOrder, memory, pictures, closers
  <1>7. FramesHeld'
    BY <1>1, HeldKept DEF memory, pictures, board, bounds
  <1> QED
    BY <1>1, <1>4, <1>5, <1>6, <1>7, MemoryKept

(* Reading the answers of the board keeps the invariant.                   *)
LEMMA ForwardInv ==
  ASSUME Inv, Forward \/ Disconnect
  PROVE  Inv'
  <1> USE DEF Inv, TypeInv, Idle
  <1>1. /\ UNCHANGED <<memory, gen, link, session, board, bounds, down, job, restore,
                       closing, fresh>>
        /\ run = "forward"
        /\ \/ UNCHANGED <<run, dev, conn, closedDev>>
           \/ /\ closing # "no" /\ run' = "done" /\ dev' = 0 /\ conn' = 0
              /\ closedDev' = conn
           \/ /\ closing = "no" /\ run' = "open" /\ dev' = 0 /\ conn' = 0
              /\ UNCHANGED closedDev /\ Gone(conn)
    BY DEF Forward, Disconnect, Stop
  <1>2. /\ gen \in Nat /\ link \in Nat /\ session \in Nat /\ conn \in Nat
        /\ 0 \in Devices
    BY ReconnectingAssumption DEF RoutineType, RunType, PadType, Devices
  <1>3. misses' \in Seq(Misses) /\ up' \in Seq(SUBSET Keys)
    <2>1. CASE Forward
      <3>1. up \in Seq(SUBSET Keys) /\ up # <<>> /\ misses \in Seq(Misses)
        BY <2>1 DEF Forward, PadType, RoutineType, RunType
      <3>2. Head(up) \in SUBSET Keys /\ Tail(up) \in Seq(SUBSET Keys)
        BY <3>1, HeadTailProperties
      <3>3. [dev |-> conn, mask |-> Head(up)] \in Misses
        BY <3>2 DEF Misses, RoutineType, RunType
      <3> QED
        BY <2>1, <3>1, <3>2, <3>3, AppendProperties DEF Forward
    <2>2. CASE Disconnect
      BY <2>2 DEF Disconnect, RoutineType, RunType
    <2> QED
      BY <2>1, <2>2
  <1>4. TypeInv'
    BY <1>1, <1>2, <1>3, MemoryKept DEF RoutineType, RunType, PadType, BoundsType, closers,
       board, bounds
  <1>5. StoresOnRecord'
    BY <1>1 DEF StoresOnRecord, memory, pictures, Frame
  <1>6. HolderInOrder'
    BY <1>1 DEF HolderInOrder
  <1>7. GenerationsInOrder'
    BY <1>1, <1>2 DEF GenerationsInOrder, memory, pictures, Gone, Alive
  <1>8. FramesHeld'
    BY <1>1, HeldKept DEF memory, pictures, board, bounds
  <1> QED
    BY <1>1, <1>4, <1>5, <1>6, <1>7, <1>8, MemoryKept

-----------------------------------------------------------------------------
(* The goroutines that restore the frames and answer the misses.  What     *)
(* they have in common: a job that stores frames on record, and nothing    *)
(* else that the invariant speaks of.                                      *)

(* A goroutine that starts a job while nobody holds sendMu keeps the invariant. *)
LEMMA GoroutineJob ==
  ASSUME Inv, FreeToSend, NEW by \in {"restore", "pips"},
         NEW P \in SUBSET Positions, NEW todo \in [P -> Messages], Hold(by, todo),
         \A i \in P : todo[i].t = "store" =>
           /\ frames[todo[i].slot] # None /\ todo[i].frame = Frame(todo[i].slot),
         Quiet(0), UNCHANGED <<frames, misses>>, restore' \in [Sessions -> Restores]
  PROVE  Inv'
  <1> USE DEF Inv, TypeInv, Quiet
  <1>1. todo \in Todos
    BY TodoType
  <1>2. job' \in Jobs
    BY <1>1, HoldType DEF Holders
  <1>3. UNCHANGED memory
    BY DEF memory, pictures
  <1>4. TypeInv'
    BY <1>2, <1>3, MemoryKept DEF RoutineType, RunType, PadType, BoundsType, closers, board, bounds
  <1>5. StoresOnRecord'
    <2>1. job'.todo = Nothing \/ (job'.todo = todo /\ job'.by = by)
      BY DEF Hold, Nobody
    <2>2. DOMAIN todo = P /\ DOMAIN Nothing = {}
      BY DEF Nothing
    <2>3. \A s : Frame(s)' = Frame(s)
      BY DEF Frame
    <2> QED
      BY <2>1, <2>2, <2>3 DEF StoresOnRecord
  <1>6. HolderInOrder'
    BY HoldInOrder
  <1>7. GenerationsInOrder'
    BY DEF GenerationsInOrder, closers
  <1>8. FramesHeld'
    BY HeldKept DEF board, bounds
  <1> QED
    BY <1>3, <1>4, <1>5, <1>6, <1>7, <1>8, MemoryKept

(* A step of the restore that leaves sendMu to others.                     *)
LEMMA RestoreOnlyInv ==
  ASSUME Inv, UNCHANGED job, Quiet(0), UNCHANGED <<frames, misses>>,
         restore' \in [Sessions -> Restores]
  PROVE  Inv'
  <1> USE DEF Inv, TypeInv, Quiet
  <1>1. UNCHANGED memory
    BY DEF memory, pictures
  <1>2. TypeInv'
    BY <1>1, MemoryKept DEF RoutineType, RunType, PadType, BoundsType, closers, board, bounds
  <1>3. StoresOnRecord' /\ HolderInOrder' /\ GenerationsInOrder'
    BY DEF StoresOnRecord, HolderInOrder, GenerationsInOrder, Frame, closers
  <1>4. FramesHeld'
    BY HeldKept DEF board, bounds
  <1> QED
    BY <1>1, <1>2, <1>3, <1>4, MemoryKept

(* Restoring one frame keeps the invariant.                                *)
LEMMA RestorerInv ==
  ASSUME Inv, NEW g \in Sessions, Restorer(g)
  PROVE  Inv'
  <1>1. restore[g] \in Restores /\ NotRestoring \in Restores
        /\ restore \in [Sessions -> Restores]
    BY ReconnectingAssumption DEF Inv, TypeInv, RoutineType, RunType, NotRestoring, Restores, Devices
  <1>2. CASE RestoreStart(g)
    <2>1. ToRestore \in SUBSET Slots
      BY DEF ToRestore
    <2>2. restore' \in [Sessions -> Restores]
      BY <1>1, <1>2, <2>1 DEF RestoreStart, Restores
    <2> QED
      BY <1>2, <2>2, RestoreOnlyInv DEF RestoreStart, Quiet
  <1>3. CASE RestoreSlot(g)
    <2>1. PICK s \in restore[g].left :
            /\ FreeToSend
            /\ IF Current(g) /\ closing = "no"
               THEN /\ restore' = [restore EXCEPT ![g].left = @ \ {s}]
                    /\ Hold("restore", [i \in IF frames[s] # None /\ frames[s].gen # g
                                              THEN {0} ELSE {} |-> StoreMsg(s)])
               ELSE restore' = [restore EXCEPT ![g] = NotRestoring] /\ UNCHANGED job
            /\ UNCHANGED <<frames, misses>> /\ Quiet(g)
      BY <1>3 DEF RestoreSlot
    <2>2. s \in Slots
      BY <1>1, <2>1 DEF Restores
    <2>3. CASE Current(g) /\ closing = "no"
      <3> DEFINE P == IF frames[s] # None /\ frames[s].gen # g THEN {0} ELSE {}
      <3>1. P \in SUBSET Positions
        BY PadAssumption DEF Positions
      <3>2. ASSUME frames[s] # None
            PROVE  /\ StoreMsg(s) \in Messages
                   /\ StoreMsg(s).slot = s /\ StoreMsg(s).frame = Frame(s)
        BY <2>2, <3>2 DEF StoreMsg, Frame, Messages, StoreMsgs, Frames, FrameRecs, Inv,
           TypeInv, MemoryType
      <3>3. [i \in P |-> StoreMsg(s)] \in [P -> Messages]
        BY <3>2
      <3>4. restore' \in [Sessions -> Restores]
        BY <1>1, <2>1, <2>3 DEF Restores
      <3> QED
        BY <2>1, <2>3, <3>1, <3>2, <3>3, <3>4, GoroutineJob DEF Quiet
    <2>4. CASE ~(Current(g) /\ closing = "no")
      <3>1. restore' \in [Sessions -> Restores] /\ UNCHANGED job
        BY <1>1, <2>1, <2>4
      <3> QED
        BY <2>1, <3>1, RestoreOnlyInv DEF Quiet
    <2> QED
      BY <2>3, <2>4
  <1>4. CASE ShowPipsAgain(g)
    <2> DEFINE P == IF Current(g) /\ sheet /\ \E k \in Keys : pips[k] > 0
                    THEN {0} ELSE {}
               m == [t |-> "show", slots |-> PipSlots, counts |-> PipCounts]
    <2>1. P \in SUBSET Positions
      BY PadAssumption DEF Positions
    <2>2. PipSlots \in SlotChoice /\ PipCounts \in Counts
      BY DEF PipSlots, PipCounts, SlotChoice, Counts, Inv, TypeInv, MemoryType
    <2>3. m \in Messages /\ m.t = "show"
      BY <2>2 DEF Messages, ShowMsgs
    <2>4. [i \in P |-> m] \in [P -> Messages]
      BY <2>3
    <2>5. /\ Hold("pips", [i \in P |-> m]) /\ FreeToSend
          /\ UNCHANGED <<frames, misses>> /\ Quiet(0)
          /\ restore' = [restore EXCEPT ![g] = NotRestoring]
      BY <1>4 DEF ShowPipsAgain, Quiet
    <2>6. restore' \in [Sessions -> Restores]
      BY <1>1, <2>5
    <2>7. \A i \in P : [j \in P |-> m][i].t # "store"
      BY <2>3
    <2> HIDE DEF P, m
    <2> QED
      BY <2>1, <2>4, <2>5, <2>6, <2>7, GoroutineJob
  <1> QED
    BY <1>2, <1>3, <1>4 DEF Restorer

(* Answering a Show miss keeps the invariant.                              *)
LEMMA HandleShowMissInv ==
  ASSUME Inv, Misser
  PROVE  Inv'
  <1> USE DEF Inv, TypeInv, Quiet
  <1>1. PICK n \in DOMAIN misses : HandleShowMiss(n)
    BY DEF Misser
  <1>2. PICK m \in Misses : m = misses[n]
    BY <1>1, ElementOfSeq DEF RoutineType, RunType
  <1> DEFINE Again == {k \in m.mask : shown[k] # None /\ frames[shown[k]] # None}
             slots == [k \in Keys |-> IF k \in Again THEN shown[k] ELSE None]
             Lost  == {shown[k] : k \in Again}
  <1>3. /\ FreeToSend /\ Quiet(0) /\ UNCHANGED restore
        /\ misses' = SubSeq(misses, 1, n - 1) \o SubSeq(misses, n + 1, Len(misses))
        /\ \/ UNCHANGED <<frames, job>>
           \/ /\ frames' = [s \in Slots |-> IF s \in Lost
                              THEN [frames[s] EXCEPT !.gen = 0] ELSE frames[s]]
              /\ Hold("miss", MissAnswer(Again, slots))
    BY <1>1, <1>2 DEF HandleShowMiss
  <1>4. misses' \in Seq(Misses)
    <2>1. n \in 1 .. Len(misses) /\ Len(misses) \in Nat /\ misses \in Seq(Misses)
      BY <1>1 DEF RoutineType, RunType
    <2>2. SubSeq(misses, 1, n - 1) \in Seq(Misses)
      BY <2>1, SubSeqProperties
    <2>3. SubSeq(misses, n + 1, Len(misses)) \in Seq(Misses)
      BY <2>1, SubSeqProperties
    <2> QED
      BY <1>3, <2>2, <2>3, ConcatProperties
  <1>5. \A k \in Again : /\ k \in Keys /\ shown[k] \in Slots /\ shown[k] \in Lost
                         /\ frames[shown[k]] \in FrameRecs
    BY <1>2 DEF MemoryType, Misses
  <1>6. /\ frames' \in [Slots -> FrameRecs \union {None}]
        /\ \A s \in Slots : /\ Frame(s)' = Frame(s)
                            /\ frames'[s] = None <=> frames[s] = None
                            /\ frames'[s] # None =>
                                 frames'[s].gen = frames[s].gen \/ frames'[s].gen = 0
    <2>1. CASE UNCHANGED frames
      BY <2>1 DEF MemoryType, Frame
    <2>2. CASE frames' = [s \in Slots |-> IF s \in Lost
                            THEN [frames[s] EXCEPT !.gen = 0] ELSE frames[s]]
      <3>1. ASSUME NEW s \in Lost
            PROVE  /\ s \in Slots /\ frames[s] \in FrameRecs /\ frames[s] # None
                   /\ [frames[s] EXCEPT !.gen = 0] \in FrameRecs
                   /\ [frames[s] EXCEPT !.gen = 0] # None
        BY <1>5, ReconnectingAssumption, NoneAssumption DEF FrameRecs, Devices
      <3>2. ASSUME NEW s \in Slots
            PROVE  /\ frames'[s] \in FrameRecs \union {None}
                   /\ Frame(s)' = Frame(s)
                   /\ frames'[s] = None <=> frames[s] = None
                   /\ frames'[s] # None =>
                        frames'[s].gen = frames[s].gen \/ frames'[s].gen = 0
        <4>1. CASE s \in Lost
          <5>1. frames'[s] = [frames[s] EXCEPT !.gen = 0] /\ frames[s] \in FrameRecs
            BY <2>2, <3>1, <4>1
          <5> HIDE DEF Lost
          <5> QED
            BY <3>1, <4>1, <5>1 DEF Frame, FrameRecs
        <4>2. CASE s \notin Lost
          <5>1. frames'[s] = frames[s] /\ frames[s] \in FrameRecs \union {None}
            BY <2>2, <4>2 DEF MemoryType
          <5> QED
            BY <5>1 DEF Frame
        <4> QED
          BY <4>1, <4>2
      <3> QED
        BY <2>2, <3>2
    <2> QED
      BY <1>3, <2>1, <2>2
  <1> DEFINE P    == Again \union {NumKeys}
             todo == MissAnswer(Again, slots)
  <1>7. todo \in [P -> Messages] /\ P \in SUBSET Positions
    <2>1. slots \in SlotChoice
      BY <1>5 DEF SlotChoice
    <2>2. [k \in Keys |-> IF sheet /\ k \in Again THEN pips[k] ELSE 0] \in Counts
      BY DEF Counts, MemoryType
    <2>3. ASSUME NEW i \in Again PROVE StoreMsg(shown[i]) \in Messages
      BY <1>5 DEF StoreMsg, Frame, FrameRecs, Frames, Messages, StoreMsgs
    <2>4. P \in SUBSET Positions
      BY <1>5, PadAssumption DEF Positions, Keys
    <2>5. [t |-> "show", slots |-> slots,
           counts |-> [k \in Keys |-> IF sheet /\ k \in Again THEN pips[k] ELSE 0]]
          \in Messages
      BY <2>1, <2>2 DEF Messages, ShowMsgs
    <2> HIDE DEF Again, slots
    <2> QED
      BY <2>3, <2>4, <2>5 DEF MissAnswer
  <1>8. job' \in Jobs
    <2>1. todo \in Todos
      BY <1>7, TodoType
    <2> HIDE DEF todo
    <2>2. CASE UNCHANGED job
      BY <2>2 DEF RoutineType, RunType
    <2>3. CASE Hold("miss", todo)
      BY <2>1, <2>3, HoldType DEF Holders
    <2> QED
      BY <1>3, <2>2, <2>3 DEF todo
  <1>9. TypeInv'
    BY <1>3, <1>4, <1>6, <1>8 DEF MemoryType, RoutineType, RunType, PadType, BoundsType, closers,
       board, bounds
  <1>10. MemoryAgrees'
    BY <1>3, <1>6 DEF MemoryAgrees, MemoryType
  <1>11. StoresOnRecord'
    <2>1. ASSUME NEW i \in P, todo[i].t = "store"
          PROVE  /\ todo[i].slot \in Slots /\ frames[todo[i].slot] # None
                 /\ todo[i].frame = Frame(todo[i].slot)
      <3>1. i \in Again /\ todo[i] = StoreMsg(shown[i])
        <4>1. CASE i = NumKeys
          BY <2>1, <4>1 DEF MissAnswer
        <4>2. CASE i # NumKeys
          BY <4>2 DEF MissAnswer
        <4> QED
          BY <4>1, <4>2
      <3>2. shown[i] \in Slots /\ frames[shown[i]] # None
        BY <1>5, <3>1
      <3> HIDE DEF todo
      <3> QED
        BY <3>1, <3>2 DEF StoreMsg
    <2>2. \/ UNCHANGED job
          \/ job'.todo = Nothing
          \/ job'.todo = todo /\ job'.by = "miss"
      BY <1>3 DEF Hold, Nobody
    <2>3. DOMAIN todo = P /\ DOMAIN Nothing = {} /\ DOMAIN job.todo = {}
      BY <1>3, <1>7 DEF Nothing, HolderInOrder, FreeToSend
    <2> HIDE DEF todo, P
    <2> QED
      BY <1>6, <2>1, <2>2, <2>3 DEF StoresOnRecord
  <1>12. HolderInOrder'
    <2>1. CASE UNCHANGED job
      BY <1>3, <2>1 DEF HolderInOrder
    <2>2. CASE Hold("miss", todo)
      <3> HIDE DEF todo
      <3> QED
        BY <1>3, <2>2, HoldInOrder
    <2> QED
      BY <1>3, <2>1, <2>2
  <1>13. GenerationsInOrder'
    <2>1. gen >= 0 /\ \A s \in Slots : frames'[s] # None => frames'[s].gen <= gen
      BY <1>6, ReconnectingAssumption DEF GenerationsInOrder, RoutineType, RunType, Devices
    <2>2. UNCHANGED <<link, session, conn, gen, dev, run, closing, closedDev>>
      BY <1>3 DEF closers
    <2> QED
      BY <2>1, <2>2 DEF GenerationsInOrder
  <1>14. FramesHeld'
    <2> SUFFICES ASSUME dev # 0, dev = link, reloads = 0, NEW s \in Slots,
                        frames'[s] # None, frames'[s].gen = gen
                 PROVE  OnBoard(s, Frame(s))'
      BY <1>3 DEF FramesHeld, bounds
    <2>1. gen > 0
      BY DEF GenerationsInOrder
    <2>2. OnBoard(s, Frame(s))
      BY <1>6, <2>1 DEF FramesHeld
    <2> QED
      BY <1>3, <1>6, <2>2 DEF OnBoard, IsStore, board
  <1> QED
    BY <1>9, <1>10, <1>11, <1>12, <1>13, <1>14

-----------------------------------------------------------------------------
(* Close, the board and the cable.                                         *)

(* Close keeps the invariant.                                              *)
LEMMA CloseInv ==
  ASSUME Inv, Close
  PROVE  Inv'
  <1> USE DEF Inv, TypeInv, Close
  <1>1. /\ UNCHANGED <<memory, dev, gen, job, rout, link, session, board, down, up,
                       bounds, fresh>>
        /\ closing' \in {"cancelled", "waiting"} /\ closedDev' \in {closedDev, dev}
    OBVIOUS
  <1>2. TypeInv'
    BY <1>1, MemoryKept DEF RoutineType, RunType, PadType, BoundsType, rout, board, bounds
  <1>3. StoresOnRecord' /\ HolderInOrder' /\ GenerationsInOrder'
    BY <1>1 DEF StoresOnRecord, HolderInOrder, GenerationsInOrder, Frame, memory, pictures, rout
  <1>4. FramesHeld'
    BY <1>1, HeldKept DEF memory, pictures, board, bounds
  <1> QED
    BY <1>1, <1>2, <1>3, <1>4, MemoryKept

(* What the display draws has the type of a key of the board.              *)
LEMMA RenderedType ==
  ASSUME NEW bk \in BoardKeys
  PROVE  Rendered(bk) \in BoardKeys
  BY DEF Rendered, Plain, BoardKeys, Pictures

(* A message leaves the board with the types it had.                       *)
LEMMA HandleType ==
  ASSUME Inv, Handle
  PROVE  PadType'
  <1> USE DEF Inv, TypeInv, Handle, PadType
  <1>1. PICK m \in Messages : m = Head(down)
    BY HeadTailProperties
  <1>2. down' \in Seq(Messages)
    BY HeadTailProperties
  <1>3. UNCHANGED <<link, session>>
    OBVIOUS
  <1>4. CASE m.t = "key"
    <2>1. m.key \in Keys /\ m.color \in Colors
      BY <1>4 DEF Messages, KeyMsgs, GlyphMsgs, StoreMsgs, ShowMsgs, SheetMsgs
    <2>2. ASSUME NEW bk \in BoardKeys PROVE WithKeyState(bk, m) \in BoardKeys
      <3>1. [bk EXCEPT !.color = m.color] \in BoardKeys
        BY <2>1 DEF BoardKeys
      <3>2. [bk EXCEPT !.color = m.color, !.glyph = None, !.cached = FALSE] \in BoardKeys
        BY <2>1 DEF BoardKeys, GlyphOrNone
      <3> QED
        BY <3>1, <3>2, RenderedType DEF WithKeyState
    <2>3. bkeys' = [bkeys EXCEPT ![m.key] = WithKeyState(bkeys[m.key], m)]
          /\ UNCHANGED <<cache, bsheet, up>>
      BY <1>1, <1>4
    <2> QED
      BY <1>2, <1>3, <2>1, <2>2, <2>3
  <1>5. CASE m.t = "glyph"
    <2>1. m.key \in Keys /\ m.glyph \in Glyphs
      BY <1>5 DEF Messages, KeyMsgs, GlyphMsgs, StoreMsgs, ShowMsgs, SheetMsgs
    <2>2. ASSUME NEW bk \in BoardKeys PROVE WithGlyph(bk, m) \in BoardKeys
      <3>1. [bk EXCEPT !.glyph = m.glyph] \in BoardKeys
        BY <2>1 DEF BoardKeys, GlyphOrNone
      <3> QED
        BY <3>1, RenderedType DEF WithGlyph
    <2>3. bkeys' = [bkeys EXCEPT ![m.key] = WithGlyph(bkeys[m.key], m)]
          /\ UNCHANGED <<cache, bsheet, up>>
      BY <1>1, <1>5
    <2> QED
      BY <1>2, <1>3, <2>1, <2>2, <2>3
  <1>6. CASE m.t = "store"
    <2>1. cache' = [cache EXCEPT ![m.slot] = m.frame] /\ UNCHANGED <<bkeys, bsheet, up>>
      BY <1>1, <1>6
    <2> QED
      BY <1>2, <1>3, <1>6, <2>1, StoreParts
  <1>7. CASE m.t = "sheet"
    BY <1>1, <1>2, <1>3, <1>7
  <1>8. CASE m.t = "show"
    <2>1. m.slots \in SlotChoice /\ m.counts \in Counts
      BY <1>8 DEF Messages, KeyMsgs, GlyphMsgs, StoreMsgs, ShowMsgs, SheetMsgs
    <2>2. /\ bkeys' = AfterShow(bkeys, cache, bsheet, m)
          /\ UNCHANGED <<cache, bsheet>>
          /\ up' = up \/ up' = Append(up, Missed(cache, m))
      BY <1>1, <1>8
    <2>3. ASSUME NEW f \in Frames, NEW c \in Nat, NEW b \in BOOLEAN
          PROVE  WithCachedFrame(f, c, b) \in BoardKeys
      BY DEF WithCachedFrame, Frames, BoardKeys, Pictures, GlyphOrNone
    <2>4. ASSUME NEW k \in Named(m) \ Missed(cache, m)
          PROVE  k \in Keys /\ m.counts[k] \in Nat /\ cache[m.slots[k]] \in Frames
      BY <2>1 DEF Named, Missed, SlotChoice, Counts
    <2>5. bkeys' \in [Keys -> BoardKeys]
      BY <2>2, <2>3, <2>4 DEF AfterShow
    <2>6. Missed(cache, m) \in SUBSET Keys
      BY DEF Missed, Named
    <2>7. up' \in Seq(SUBSET Keys)
      <3>1. PICK lost \in SUBSET Keys : lost = Missed(cache, m)
        BY <2>6
      <3>2. up \in Seq(SUBSET Keys) /\ (up' = up \/ up' = Append(up, lost))
        BY <2>2, <3>1
      <3> HIDE DEF Handle, Inv, TypeInv
      <3> QED
        BY <3>2, AppendProperties
    <2> QED
      BY <1>2, <1>3, <2>2, <2>5, <2>7
  <1> QED
    BY <1>4, <1>5, <1>6, <1>7, <1>8 DEF Messages, KeyMsgs, GlyphMsgs, StoreMsgs,
       ShowMsgs, SheetMsgs

(* The board handling a message keeps the invariant.                       *)
LEMMA HandleInv ==
  ASSUME Inv, Handle
  PROVE  Inv'
  <1> USE DEF Inv, TypeInv
  <1>1. /\ UNCHANGED <<memory, dev, gen, job, rout, closers, link, session, bounds, fresh>>
        /\ down # <<>> /\ down' = Tail(down) /\ down \in Seq(Messages)
    BY DEF Handle, PadType
  <1>2. TypeInv'
    BY <1>1, HandleType, MemoryKept DEF RoutineType, RunType, BoundsType, rout, closers, bounds
  <1>3. StoresOnRecord' /\ HolderInOrder' /\ GenerationsInOrder'
    BY <1>1 DEF StoresOnRecord, HolderInOrder, GenerationsInOrder, Frame, memory, pictures, rout,
       closers
  <1>4. ASSUME NEW s \in Slots
        PROVE  cache'[s] = IF Head(down).t = "store" /\ Head(down).slot = s
                           THEN Head(down).frame ELSE cache[s]
    <2>1. PICK m \in Messages : m = Head(down)
      BY <1>1, HeadTailProperties
    <2>2. CASE m.t = "store"
      <3>1. cache' = [cache EXCEPT ![m.slot] = m.frame] /\ m.slot \in Slots
            /\ cache \in [Slots -> Frames \union {None}]
        BY <2>1, <2>2, StoreParts DEF Handle, PadType
      <3> QED
        BY <2>1, <2>2, <3>1
    <2>3. CASE m.t # "store"
      <3>1. cache' = cache
        BY <2>1, <2>3 DEF Handle, Messages, KeyMsgs, GlyphMsgs, StoreMsgs, ShowMsgs,
           SheetMsgs
      <3> QED
        BY <2>1, <2>3, <3>1
    <2> QED
      BY <2>2, <2>3
  <1>5. FramesHeld'
    <2> SUFFICES ASSUME dev # 0, dev = link, reloads = 0, NEW s \in Slots,
                        frames[s] # None, frames[s].gen = gen
                 PROVE  OnBoard(s, Frame(s))'
      BY <1>1 DEF FramesHeld, bounds, memory, pictures
    <2>1. PICK f : f = Frame(s)
      OBVIOUS
    <2>2. OnBoard(s, f)
      BY <2>1 DEF FramesHeld
    <2>3. OnBoard(s, f)'
      BY <1>1, <1>4, <2>2, OnBoardTail
    <2>4. f = Frame(s)'
      BY <1>1, <2>1 DEF Frame, memory, pictures
    <2> QED
      BY <2>3, <2>4 DEF OnBoard, IsStore
  <1> QED
    BY <1>1, <1>2, <1>3, <1>5, MemoryKept

(* Plugging, unplugging and reloading keep the invariant.                  *)
LEMMA CableInv ==
  ASSUME Inv, Unplug \/ Plug \/ Reload
  PROVE  Inv'
  <1> USE DEF Inv, TypeInv
  <1>1. UNCHANGED <<memory, dev, gen, job, rout, closers, up, calls>>
    BY DEF Unplug, Plug, Reload, bounds
  <1>2. /\ link \in Nat /\ session \in Nat /\ conn \in Nat /\ gen \in Nat /\ dev \in Nat
        /\ reloads \in Nat /\ 0 \in Devices
    BY ReconnectingAssumption DEF RoutineType, RunType, PadType, BoundsType, Devices
  <1>3. PadType'
    <2>1. CASE Plug
      <3>1. session + 1 \in Devices
        BY <1>2, <2>1, ReconnectingAssumption DEF Plug, Devices
      <3> QED
        BY <2>1, <3>1 DEF Plug, PadType, board
    <2>2. CASE Unplug \/ Reload
      <3>1. PowerOnKey \in BoardKeys
        BY PadAssumption DEF PowerOnKey, BoardKeys, Plain, Pictures, GlyphOrNone
      <3>2. bkeys' \in [Keys -> BoardKeys] /\ cache' \in [Slots -> Frames \union {None}]
            /\ bsheet' \in BOOLEAN
        BY <2>2, <3>1 DEF Unplug, Reload, PowerOn
      <3>3. down' \in Seq(Messages)
        <4>1. CASE Unplug
          BY <4>1 DEF Unplug
        <4>2. CASE Reload
          <5>1. PICK n \in 0 .. Len(down) : down' = SubSeq(down, n + 1, Len(down))
            BY <4>2 DEF Reload
          <5>2. down \in Seq(Messages) /\ Len(down) \in Nat
            BY DEF PadType
          <5> QED
            BY <5>1, <5>2, SubSeqProperties
        <4> QED
          BY <2>2, <4>1, <4>2
      <3> QED
        BY <1>1, <1>2, <2>2, <3>2, <3>3 DEF PadType, Unplug, Reload
    <2> QED
      BY <2>1, <2>2
  <1>4. TypeInv'
    <2>1. BoundsType'
      BY <1>1, <1>2 DEF BoundsType, Unplug, Plug, Reload, bounds
    <2> QED
      BY <1>1, <1>3, <2>1, MemoryKept DEF RoutineType, RunType, rout, closers
  <1>5. StoresOnRecord' /\ HolderInOrder'
    BY <1>1 DEF StoresOnRecord, HolderInOrder, Frame, memory, pictures, rout
  <1>6. GenerationsInOrder'
    BY <1>1, <1>2 DEF GenerationsInOrder, memory, pictures, rout, closers, Unplug, Plug, Reload
  <1>7. FramesHeld'
    BY <1>1, <1>2 DEF FramesHeld, GenerationsInOrder, Unplug, Plug, Reload, bounds
  <1> QED
    BY <1>1, <1>4, <1>5, <1>6, <1>7, MemoryKept

-----------------------------------------------------------------------------
LEMMA StepInv == Inv /\ [Next]_vars => Inv'
  <1> SUFFICES ASSUME Inv, [Next]_vars PROVE Inv'
    OBVIOUS
  <1>1. CASE Caller
    BY <1>1, SendKeyStateInv, SendCustomGlyphInv, StoreFrameInv, StorePipSheetInv,
       ShowInv, ReconnectingAssumption, SentAssumption DEF Caller
  <1>2. CASE Write \/ WriteLost
    BY <1>2, WrittenInv DEF Write, WriteLost, Alive
  <1>3. CASE WriteFails
    BY <1>3, WriteFailsInv
  <1>4. CASE Unlock
    BY <1>4, UnlockInv
  <1>5. CASE Runner
    BY <1>5, OpenInv, ConnectInv, ForwardInv DEF Runner
  <1>6. CASE Misser
    BY <1>6, HandleShowMissInv
  <1>7. CASE \E g \in Sessions : Restorer(g)
    BY <1>7, RestorerInv
  <1>8. CASE Handle
    BY <1>8, HandleInv
  <1>9. CASE Close
    BY <1>9, CloseInv
  <1>10. CASE Unplug \/ Plug \/ Reload
    BY <1>10, CableInv
  <1>11. CASE UNCHANGED vars
    <2> USE <1>11 DEF Inv, TypeInv, vars
    <2>1. TypeInv' /\ MemoryAgrees'
      BY MemoryKept DEF RoutineType, RunType, PadType, BoundsType, rout, closers, board, bounds
    <2>2. StoresOnRecord' /\ HolderInOrder' /\ GenerationsInOrder'
      BY DEF StoresOnRecord, HolderInOrder, GenerationsInOrder, Frame, memory, pictures, rout,
         closers
    <2>3. FramesHeld'
      BY HeldKept DEF memory, pictures, board, bounds
    <2> QED
      BY <2>1, <2>2, <2>3
  <1> QED
    BY <1>1, <1>2, <1>3, <1>4, <1>5, <1>6, <1>7, <1>8, <1>9, <1>10, <1>11
       DEF Next, Sender

(* Every part of the state stays in its set, for any number of keys, slots *)
(* and connections and any capacity of the two ports.                      *)
THEOREM TypeCorrect == Spec => []TypeOK
  <1>1. ASSUME job \in Jobs PROVE JobType
    <2>1. job.todo \in Todos
      BY <1>1 DEF Jobs
    <2>2. PICK P \in SUBSET Positions : job.todo \in [P -> Messages]
      BY <2>1 DEF Todos
    <2>3. job \in [by : Holders, dev : Devices, gen : Devices, err : BOOLEAN,
                   todo : [P -> Messages]]
      BY <1>1, <2>2 DEF Jobs
    <2> QED
      BY <2>3 DEF JobType
  <1>2. Inv => TypeOK
    BY <1>1 DEF Inv, TypeInv, RoutineType, TypeOK
  <1> QED
    BY InitInv, StepInv, <1>2, PTL DEF Spec

(* What the host remembers of a key always hangs together (recordKeyLocked *)
(* and show): the picture it would replay for a key is the frame of the    *)
(* slot it would show there, through every call, connection and miss.      *)
THEOREM MemoryAlwaysAgrees == Spec => []MemoryAgrees
  <1>1. Inv => MemoryAgrees
    BY DEF Inv
  <1> QED
    BY InitInv, StepInv, <1>1, PTL DEF Spec

(* A frame that the transport counts as stored on this connection is in    *)
(* the board's slot or on its way there (the generations of storeFrame,    *)
(* sendStoreLocked, connect and handleShowMiss), as long as the board      *)
(* keeps its RAM while USB is up.                                          *)
THEOREM FramesAlwaysHeld == Spec => []FramesHeld
  <1>1. Inv => FramesHeld
    BY DEF Inv
  <1> QED
    BY InitInv, StepInv, <1>1, PTL DEF Spec

-----------------------------------------------------------------------------
(* A Show frames that goes out: the stores it needs.                       *)

(* A device that a send writes to, and that is alive, is the one in use;   *)
(* nothing is in use once run has ended.                                   *)
RunInOrder ==
  /\ run = "forward" => dev = conn
  /\ run = "open" => conn = 0
  /\ closedDev \in {0, conn} \/ run = "done"
  /\ job.dev <= session
  /\ job.by \notin {"free", "connect"} /\ Alive(job.dev) => dev = job.dev

(* A Show frames is the last of what the holder of sendMu has to write,    *)
(* after stores only.                                                      *)
ShowLast ==
  \A i \in DOMAIN job.todo :
    job.todo[i].t = "show" =>
      /\ job.by # "connect"
      /\ \A j \in DOMAIN job.todo : j # i => j < i /\ job.todo[j].t = "store"

(* Every frame that it names is on the board, or goes out before it.       *)
StoreInHand(s) ==
  \E i \in DOMAIN job.todo : job.todo[i].t = "store" /\ job.todo[i].slot = s
ShowBacked ==
  Alive(job.dev) =>
    \A i \in DOMAIN job.todo : job.todo[i].t = "show" =>
      \A k \in Named(job.todo[i]) :
        LET s == job.todo[i].slots[k]
        IN frames[s] # None => frames[s].gen = gen \/ StoreInHand(s)

(* What the restore of this connection has passed is on the board.         *)
RestoreBacked ==
  dev # 0 /\ restore[gen].pc # "off" =>
    /\ restore[gen].dev = dev
    /\ Alive(dev) /\ restore[gen].pc = "slots" =>
         \A s \in Slots : frames[s] # None =>
           frames[s].gen = gen \/ s \in restore[gen].left \/ StoreInHand(s)

OrderInv == RunInOrder /\ ShowLast /\ ShowBacked /\ RestoreBacked

(* A set of naturals that has an element has a least one.                  *)
LEMMA LeastOfNaturals ==
  ASSUME NEW S \in SUBSET Nat, S # {}
  PROVE  \E x \in S : \A y \in S : x <= y
  <1>1. PICK x \in S : \A y \in S : ~ (<<y, x>> \in OpToRel(<, Nat))
    BY NatLessThanWellFounded, WFMin
  <1>2. \A y \in S : ~ (y < x)
    BY <1>1 DEF OpToRel
  <1> QED
    BY <1>2

(* The first state has it.                                                 *)
LEMMA InitOrder == Init => OrderInv
  BY DEF Init, OrderInv, RunInOrder, ShowLast, ShowBacked, RestoreBacked, Nobody, Nothing

-----------------------------------------------------------------------------
(* A call, a restore or an answer that takes sendMu for stores and a Show  *)
(* frames after them.                                                      *)
LEMMA HoldOrder ==
  ASSUME Inv, Inv', OrderInv, FreeToSend,
         NEW by \in Holders \ {"free", "connect"},
         NEW P \in SUBSET Positions, NEW todo \in [P -> Messages], Hold(by, todo),
         UNCHANGED <<dev, gen, run, conn, link, session, closedDev>>,
         \A i \in P : todo[i].t = "show" =>
           /\ \A j \in P : j # i => j < i /\ todo[j].t = "store"
           /\ \A k \in Named(todo[i]) :
                LET s == todo[i].slots[k]
                IN dev # 0 /\ Alive(dev) /\ frames'[s] # None =>
                     \/ frames'[s].gen = gen
                     \/ \E j \in P : todo[j].t = "store" /\ todo[j].slot = s,
         dev # 0 /\ restore'[gen].pc # "off" =>
           /\ restore'[gen].dev = dev
           /\ Alive(dev) /\ restore'[gen].pc = "slots" =>
                \A s \in Slots : frames'[s] # None =>
                  \/ frames'[s].gen = gen \/ s \in restore'[gen].left
                  \/ \E j \in P : todo[j].t = "store" /\ todo[j].slot = s
  PROVE  OrderInv'
  <1> USE DEF OrderInv
  <1>1. \/ job' = Nobody /\ (dev = 0 \/ P = {})
        \/ /\ dev # 0
           /\ job' = [by |-> by, dev |-> dev, gen |-> gen, err |-> FALSE, todo |-> todo]
    BY DEF Hold
  <1>2. /\ \A d : Alive(d)' <=> Alive(d)
        /\ DOMAIN todo = P /\ DOMAIN Nothing = {}
        /\ dev \in Nat /\ session \in Nat /\ (dev # 0 => dev <= session)
    BY ReconnectingAssumption
       DEF Alive, Nothing, Inv, TypeInv, RoutineType, RunType, PadType, Devices,
           GenerationsInOrder
  <1> HIDE DEF Inv, FreeToSend
  <1>3. CASE job' = Nobody /\ (dev = 0 \/ P = {})
    <2>1. RunInOrder'
      BY <1>2, <1>3 DEF RunInOrder, Nobody
    <2>2. ShowLast' /\ ShowBacked'
      BY <1>2, <1>3 DEF ShowLast, ShowBacked, Nobody
    <2>3. RestoreBacked'
      BY <1>2, <1>3 DEF RestoreBacked, StoreInHand, Nobody
    <2> QED
      BY <2>1, <2>2, <2>3
  <1>4. CASE dev # 0 /\ job' = [by |-> by, dev |-> dev, gen |-> gen, err |-> FALSE,
                                todo |-> todo]
    <2>1. /\ job'.by = by /\ job'.dev = dev /\ job'.todo = todo
          /\ \A s : StoreInHand(s)' <=> \E j \in P : todo[j].t = "store" /\ todo[j].slot = s
      BY <1>2, <1>4 DEF StoreInHand
    <2>2. RunInOrder'
      BY <1>2, <1>4, <2>1 DEF RunInOrder
    <2>3. ShowLast'
      BY <1>2, <2>1 DEF ShowLast
    <2>4. ShowBacked'
      BY <1>2, <1>4, <2>1 DEF ShowBacked
    <2>5. RestoreBacked'
      BY <1>2, <2>1 DEF RestoreBacked
    <2> QED
      BY <2>2, <2>3, <2>4, <2>5
  <1> QED
    BY <1>1, <1>3, <1>4

(* A call that shows nothing.                                              *)
LEMMA QuietCallOrder ==
  ASSUME Inv, Inv', OrderInv, FreeToSend, NEW m \in Messages, m.t # "show",
         Hold(IF m.t \in {"store", "sheet"} THEN "frame" ELSE "state", [i \in {0} |-> m]),
         UNCHANGED <<dev, gen, run, conn, link, session, closedDev, restore>>,
         \A s \in Slots : frames'[s] # frames[s] => m.t = "store" /\ m.slot = s
  PROVE  OrderInv'
  <1> DEFINE by   == IF m.t \in {"store", "sheet"} THEN "frame" ELSE "state"
             todo == [i \in {0} |-> m]
  <1>1. {0} \in SUBSET Positions /\ todo \in [{0} -> Messages]
    BY PadAssumption DEF Positions
  <1>2. by \in Holders \ {"free", "connect"}
    BY DEF Holders
  <1>3. todo[0] = m
    OBVIOUS
  <1>4. \A s : ~StoreInHand(s)
    BY DEF StoreInHand, FreeToSend, Inv, HolderInOrder
  <1>5. ASSUME dev # 0, restore'[gen].pc # "off"
        PROVE  /\ restore'[gen].dev = dev
               /\ Alive(dev) /\ restore'[gen].pc = "slots" =>
                    \A s \in Slots : frames'[s] # None =>
                      \/ frames'[s].gen = gen \/ s \in restore'[gen].left
                      \/ \E j \in {0} : todo[j].t = "store" /\ todo[j].slot = s
    BY <1>3, <1>4, <1>5 DEF OrderInv, RestoreBacked
  <1>6. Hold(by, todo)
    OBVIOUS
  <1>7. \A i \in {0} : todo[i].t # "show"
    BY <1>3
  <1> HIDE DEF by, todo
  <1> QED
    BY <1>1, <1>2, <1>5, <1>6, <1>7, HoldOrder

(* SendKeyState, SendCustomGlyph, StoreFrame and StorePipSheet.            *)
LEMMA SendOrder ==
  ASSUME Inv, Inv', OrderInv,
         \/ \E k \in Keys, ks \in KeyStates : CallSendKeyState(k, ks)
         \/ \E k \in Keys, g \in Glyphs : CallSendCustomGlyph(k, g)
         \/ \E s \in Slots, f \in Frames : CallStoreFrame(s, f)
         \/ CallStorePipSheet
  PROVE  OrderInv'
  <1>1. ASSUME NEW k \in Keys, NEW ks \in KeyStates, CallSendKeyState(k, ks)
        PROVE  OrderInv'
    <2> DEFINE m == [t |-> "key", key |-> k, color |-> ks.color, custom |-> ks.custom]
    <2>1. m \in Messages /\ m.t = "key"
      BY DEF KeyStates, Messages, KeyMsgs
    <2>2. /\ FreeToSend /\ Hold("state", [i \in {0} |-> m])
          /\ UNCHANGED <<dev, gen, run, conn, link, session, closedDev, restore, frames>>
      BY <1>1 DEF CallSendKeyState, CanCall, rout, closers
    <2> HIDE DEF m
    <2> QED
      BY <2>1, <2>2, QuietCallOrder
  <1>2. ASSUME NEW k \in Keys, NEW g \in Glyphs, CallSendCustomGlyph(k, g)
        PROVE  OrderInv'
    <2> DEFINE m == [t |-> "glyph", key |-> k, glyph |-> g]
    <2>1. m \in Messages /\ m.t = "glyph"
      BY DEF Messages, GlyphMsgs
    <2>2. /\ FreeToSend /\ Hold("state", [i \in {0} |-> m])
          /\ UNCHANGED <<dev, gen, run, conn, link, session, closedDev, restore, frames>>
      BY <1>2 DEF CallSendCustomGlyph, CanCall, rout, closers
    <2> HIDE DEF m
    <2> QED
      BY <2>1, <2>2, QuietCallOrder
  <1>3. ASSUME NEW s \in Slots, NEW f \in Frames, CallStoreFrame(s, f)
        PROVE  OrderInv'
    <2> DEFINE m == [t |-> "store", slot |-> s, frame |-> f]
    <2>1. m \in Messages /\ m.t = "store" /\ m.slot = s
      BY DEF Messages, StoreMsgs
    <2>2. /\ FreeToSend /\ Hold("frame", [i \in {0} |-> m])
          /\ UNCHANGED <<dev, gen, run, conn, link, session, closedDev, restore>>
          /\ \A r \in Slots : r # s => frames'[r] = frames[r]
      BY <1>3 DEF CallStoreFrame, CanCall, rout, closers, Inv, TypeInv, MemoryType
    <2> HIDE DEF m
    <2> QED
      BY <2>1, <2>2, QuietCallOrder
  <1>4. ASSUME CallStorePipSheet PROVE OrderInv'
    <2> DEFINE m == [t |-> "sheet"]
    <2>1. m \in Messages /\ m.t = "sheet"
      BY DEF Messages, SheetMsgs
    <2>2. /\ FreeToSend /\ Hold("frame", [i \in {0} |-> m])
          /\ UNCHANGED <<dev, gen, run, conn, link, session, closedDev, restore, frames>>
      BY <1>4 DEF CallStorePipSheet, CanCall, rout, closers
    <2> HIDE DEF m
    <2> QED
      BY <2>1, <2>2, QuietCallOrder
  <1> QED
    BY <1>1, <1>2, <1>3, <1>4

(* What a Show frames names and an older connection stored is stored by    *)
(* the first of the keys that show it.                                     *)
LEMMA LateStored ==
  ASSUME Inv, NEW slots \in SlotChoice, NEW k \in Known(slots),
         frames[slots[k]].gen # gen
  PROVE  \E j \in Late(slots) : slots[j] = slots[k]
  <1> DEFINE S == {j \in Known(slots) : slots[j] = slots[k]}
  <1>1. S \in SUBSET Nat /\ S # {}
    BY PadAssumption DEF Known, Keys
  <1>2. PICK j \in S : \A i \in S : j <= i
    BY <1>1, LeastOfNaturals
  <1> QED
    BY <1>2 DEF Late

(* ShowFrames, with pips or without.                                       *)
LEMMA ShowOrder ==
  ASSUME Inv, Inv', OrderInv, NEW slots \in SlotChoice, NEW counts \in [Keys -> 0 .. MaxPip],
         CallShow(slots, counts)
  PROVE  OrderInv'
  <1> DEFINE P == Late(slots) \union {NumKeys}
             show == [t |-> "show", slots |-> slots, counts |-> counts]
             todo == [i \in P |-> IF i = NumKeys THEN show ELSE StoreMsg(slots[i])]
  <1>1. /\ FreeToSend /\ Hold("frame", todo)
        /\ UNCHANGED <<dev, gen, run, conn, link, session, closedDev, restore, frames>>
    BY DEF CallShow, CanCall, rout, closers
  <1>2. P \in SUBSET Positions /\ \A i \in P : i # NumKeys => i < NumKeys
    BY PadAssumption DEF Late, Known, Positions, Keys
  <1>3. show \in Messages /\ show.t = "show" /\ show.slots = slots
    BY ReconnectingAssumption DEF Messages, ShowMsgs, Counts
  <1>4. ASSUME NEW i \in Late(slots)
        PROVE  /\ StoreMsg(slots[i]) \in Messages /\ StoreMsg(slots[i]).t = "store"
               /\ StoreMsg(slots[i]).slot = slots[i] /\ i \in P /\ i # NumKeys
    <2>1. slots[i] \in Slots /\ frames[slots[i]] \in FrameRecs
      BY DEF Late, Known, SlotChoice, Inv, TypeInv, MemoryType
    <2> QED
      BY <2>1, PadAssumption
         DEF StoreMsg, Frame, FrameRecs, Frames, Messages, StoreMsgs, Late, Known, Keys
  <1>5. /\ todo \in [P -> Messages] /\ todo[NumKeys] = show /\ NumKeys \in P
        /\ \A i \in Late(slots) : todo[i] = StoreMsg(slots[i])
    BY <1>3, <1>4
  <1>6. "frame" \in Holders \ {"free", "connect"}
    BY DEF Holders
  <1> HIDE DEF todo, show
  <1>7. ASSUME NEW i \in P, todo[i].t = "show"
        PROVE  /\ \A j \in P : j # i => j < i /\ todo[j].t = "store"
               /\ \A k \in Named(todo[i]) :
                    LET s == todo[i].slots[k]
                    IN dev # 0 /\ Alive(dev) /\ frames'[s] # None =>
                         \/ frames'[s].gen = gen
                         \/ \E j \in P : todo[j].t = "store" /\ todo[j].slot = s
    <2>1. i = NumKeys
      BY <1>4, <1>5, <1>7
    <2>2. \A j \in P : j # i => j < i /\ todo[j].t = "store"
      BY <1>2, <1>4, <1>5, <2>1
    <2>3. ASSUME NEW k \in Named(todo[i]), frames[slots[k]] # None, frames[slots[k]].gen # gen
          PROVE  \E j \in P : todo[j].t = "store" /\ todo[j].slot = slots[k]
      <3>1. k \in Known(slots)
        BY <1>3, <1>5, <2>1, <2>3 DEF Named, Known
      <3>2. PICK j \in Late(slots) : slots[j] = slots[k]
        BY <2>3, <3>1, LateStored
      <3> QED
        BY <1>4, <1>5, <3>2
    <2> QED
      BY <1>1, <1>3, <1>5, <2>1, <2>2, <2>3
  <1>8. \A s : ~StoreInHand(s)
    BY <1>1 DEF StoreInHand, FreeToSend, Inv, HolderInOrder
  <1>9. ASSUME dev # 0, restore'[gen].pc # "off"
        PROVE  /\ restore'[gen].dev = dev
               /\ Alive(dev) /\ restore'[gen].pc = "slots" =>
                    \A s \in Slots : frames'[s] # None =>
                      \/ frames'[s].gen = gen \/ s \in restore'[gen].left
                      \/ \E j \in P : todo[j].t = "store" /\ todo[j].slot = s
    BY <1>1, <1>8, <1>9 DEF OrderInv, RestoreBacked
  <1> HIDE DEF P
  <1> QED
    BY <1>1, <1>2, <1>5, <1>6, <1>7, <1>9, HoldOrder

-----------------------------------------------------------------------------
(* Writing, failing to, and unlocking.                                     *)

(* A message that reaches the port.                                        *)
LEMMA WrittenOrder ==
  ASSUME Inv, Inv', OrderInv, NEW i \in Positions, NextWrite(i), Written(i)
  PROVE  OrderInv'
  <1> USE DEF OrderInv
  <1>1. /\ i \in DOMAIN job.todo /\ job.by # "free"
        /\ DOMAIN job'.todo = DOMAIN job.todo \ {i}
        /\ \A j \in DOMAIN job'.todo : job'.todo[j] = job.todo[j]
        /\ job'.by = job.by /\ job'.dev = job.dev
        /\ UNCHANGED <<dev, gen, run, conn, link, session, closedDev, restore>>
    BY DEF NextWrite, Written, Inv, TypeInv, RoutineType, RunType, Jobs, HolderInOrder, rout,
       closers
  <1>2. \A d : Alive(d)' <=> Alive(d)
    BY <1>1 DEF Alive
  <1>3. RunInOrder' /\ ShowLast'
    BY <1>1, <1>2 DEF RunInOrder, ShowLast
  <1>4. ASSUME NEW s \in Slots, frames'[s] # None
        PROVE  /\ frames[s] # None
               /\ frames[s].gen = gen => frames'[s].gen = gen
               /\ StoreInHand(s) => frames'[s].gen = gen \/ StoreInHand(s)'
    <2>1. PICK m \in Messages : m = job.todo[i]
      BY <1>1, JobParts DEF Inv, TypeInv
    <2>2. CASE m.t = "store"
      <3>1. /\ m.slot \in Slots /\ frames[m.slot] # None /\ frames[m.slot] \in FrameRecs
            /\ job.gen = gen
        BY <1>1, <2>1, <2>2, StoreParts
           DEF Inv, StoresOnRecord, HolderInOrder, TypeInv, MemoryType
      <3>2. frames' = [frames EXCEPT ![m.slot] = [@ EXCEPT !.gen = gen]]
            /\ frames \in [Slots -> FrameRecs \union {None}]
        BY <2>1, <2>2, <3>1 DEF Written, Inv, TypeInv, MemoryType
      <3>3. frames'[m.slot].gen = gen /\ \A r \in Slots : r # m.slot => frames'[r] = frames[r]
        BY <3>1, <3>2 DEF FrameRecs
      <3>4. s # m.slot /\ StoreInHand(s) => StoreInHand(s)'
        BY <1>1, <2>1 DEF StoreInHand
      <3> QED
        BY <1>4, <3>1, <3>3, <3>4
    <2>3. CASE m.t # "store"
      <3>1. frames' = frames
        BY <2>1, <2>3 DEF Written
      <3>2. StoreInHand(s) => StoreInHand(s)'
        BY <1>1, <2>1, <2>3 DEF StoreInHand
      <3> QED
        BY <1>4, <3>1, <3>2
    <2> QED
      BY <2>2, <2>3
  <1>5. ShowBacked'
    <2>1. ASSUME Alive(job.dev), NEW j \in DOMAIN job'.todo, job'.todo[j].t = "show",
                 NEW k \in Named(job'.todo[j]), NEW s, s = job'.todo[j].slots[k],
                 frames'[s] # None
          PROVE  frames'[s].gen = gen \/ StoreInHand(s)'
      <3>1. PICK m \in Messages : m = job.todo[j]
        BY <1>1, <2>1, JobParts DEF Inv, TypeInv
      <3>2. j \in DOMAIN job.todo /\ job'.todo[j] = m /\ k \in Named(m) /\ m.t = "show"
        BY <1>1, <2>1, <3>1
      <3>3. s \in Slots /\ s = m.slots[k]
        BY <2>1, <3>2
           DEF Named, Messages, KeyMsgs, GlyphMsgs, StoreMsgs, ShowMsgs, SheetMsgs, SlotChoice
      <3> QED
        BY <1>4, <2>1, <3>1, <3>2, <3>3 DEF ShowBacked
    <2> QED
      BY <1>1, <1>2, <2>1 DEF ShowBacked
  <1>6. RestoreBacked'
    BY <1>1, <1>2, <1>4 DEF RestoreBacked
  <1> QED
    BY <1>3, <1>5, <1>6

(* A write that fails ends a send, and the restore it belongs to.          *)
LEMMA WriteFailsOrder ==
  ASSUME Inv, Inv', OrderInv, WriteFails
  PROVE  OrderInv'
  <1> USE DEF OrderInv
  <1>1. /\ job.by # "free" /\ ~Alive(job.dev)
        /\ DOMAIN job'.todo \subseteq DOMAIN job.todo
        /\ \A j \in DOMAIN job'.todo : job'.todo[j] = job.todo[j]
        /\ job'.by = job.by /\ job'.dev = job.dev
        /\ UNCHANGED <<dev, gen, run, conn, link, session, closedDev, frames>>
        /\ restore' = IF job.by = "restore"
                      THEN [restore EXCEPT ![job.gen] = NotRestoring] ELSE restore
    BY DEF WriteFails, NextWrite, Inv, TypeInv, RoutineType, RunType, Jobs, HolderInOrder,
       memory, pictures, closers, Nothing
  <1>2. \A d : Alive(d)' <=> Alive(d)
    BY <1>1 DEF Alive
  <1>3. RunInOrder' /\ ShowBacked'
    BY <1>1, <1>2 DEF RunInOrder, ShowBacked
  <1>4. ShowLast'
    BY <1>1 DEF ShowLast
  <1>5. RestoreBacked'
    <2> SUFFICES ASSUME dev # 0, restore'[gen].pc # "off"
                 PROVE  restore'[gen].dev = dev /\ ~Alive(dev)
      BY <1>1, <1>2 DEF RestoreBacked
    <2>1. dev = job.dev /\ job.gen = gen
      BY <1>1 DEF Inv, HolderInOrder, GenerationsInOrder
    <2>2. gen \in Sessions
      BY ReconnectingAssumption
         DEF Inv, TypeInv, RoutineType, RunType, GenerationsInOrder, Devices, Sessions
    <2>3. restore'[gen] = restore[gen]
      BY <1>1, <2>1, <2>2 DEF NotRestoring, Inv, TypeInv, RoutineType, RunType
    <2> QED
      BY <1>1, <2>1, <2>3 DEF RestoreBacked
  <1> QED
    BY <1>3, <1>4, <1>5

(* The end of a send, or of a replay, which makes its device the one in    *)
(* use and starts the restore.                                             *)
LEMMA UnlockOrder ==
  ASSUME Inv, Inv', OrderInv, Unlock
  PROVE  OrderInv'
  <1> USE DEF OrderInv
  <1>1. /\ job' = Nobody /\ DOMAIN job.todo = {}
        /\ UNCHANGED <<frames, conn, link, session, closedDev>>
    BY DEF Unlock, memory, pictures, closers
  <1>2. ShowLast' /\ ShowBacked'
    BY <1>1 DEF ShowLast, ShowBacked, Nobody, Nothing
  <1>3. CASE job.by = "connect"
    <2>1. /\ gen' = gen + 1 /\ dev' = job.dev /\ run' = "forward" /\ run = "replay"
          /\ job.dev = conn
          /\ restore' = [restore EXCEPT ![gen + 1] =
                           [pc |-> "start", dev |-> job.dev, left |-> {}]]
      BY <1>3 DEF Unlock, Inv, HolderInOrder
    <2>2. gen + 1 \in Sessions
      BY <2>1, ReconnectingAssumption
         DEF Inv, TypeInv, RoutineType, RunType, GenerationsInOrder, Devices, Sessions
    <2>3. RunInOrder'
      BY <1>1, <2>1, ReconnectingAssumption
         DEF RunInOrder, Nobody, Inv, TypeInv, PadType, Devices
    <2>4. restore'[gen'].pc = "start" /\ restore'[gen'].dev = dev'
      BY <2>1, <2>2 DEF Inv, TypeInv, RoutineType, RunType
    <2> QED
      BY <1>2, <2>3, <2>4 DEF RestoreBacked
  <1>4. CASE job.by # "connect"
    <2>1. UNCHANGED <<gen, dev, run, restore>>
      BY <1>4 DEF Unlock
    <2>2. RunInOrder'
      BY <1>1, <2>1, ReconnectingAssumption
         DEF RunInOrder, Nobody, Inv, TypeInv, PadType, Devices
    <2>3. RestoreBacked'
      BY <1>1, <2>1 DEF RestoreBacked, StoreInHand, Alive
    <2> QED
      BY <1>2, <2>2, <2>3
  <1> QED
    BY <1>3, <1>4

-----------------------------------------------------------------------------
(* The run goroutine, Close, the board and the cable.                      *)

(* A step that leaves sendMu, the frames and the restores alone, and       *)
(* brings no device back to life.                                          *)
LEMMA KeptOrder ==
  ASSUME OrderInv, UNCHANGED <<job, frames, restore, gen>>, RunInOrder',
         Alive(job.dev)' => Alive(job.dev),
         dev' # 0 => dev' = dev /\ (Alive(dev)' => Alive(dev))
  PROVE  OrderInv'
  <1> USE DEF OrderInv
  <1>1. ShowLast'
    BY DEF ShowLast
  <1>2. \A s : StoreInHand(s)' <=> StoreInHand(s)
    BY DEF StoreInHand
  <1>3. ShowBacked'
    BY <1>2 DEF ShowBacked
  <1>4. RestoreBacked'
    BY <1>2 DEF RestoreBacked
  <1> QED
    BY <1>1, <1>3, <1>4

(* The run goroutine outside of its replay.                                *)
LEMMA RunOrder ==
  ASSUME Inv, Inv', OrderInv, Open \/ Settle \/ GiveUp \/ Forward \/ Disconnect
  PROVE  OrderInv'
  <1> USE DEF OrderInv, Open, Settle, GiveUp, Forward, Disconnect, Stop, Idle
  <1>1. UNCHANGED <<job, frames, restore, gen, link, session>> /\ dev' \in {0, dev}
    BY DEF memory, pictures
  <1>2. /\ closing = "no" => closedDev = 0
        /\ dev # 0 => run = "forward"
        /\ job.by \notin {"free", "connect"} => (dev # 0 => dev = job.dev)
    BY DEF Inv, GenerationsInOrder, HolderInOrder
  <1>3. \A d : Alive(d)' => Alive(d)
    BY <1>2 DEF Alive, closers, RunInOrder
  <1>4. RunInOrder'
    <2>1. CASE Open \/ Settle \/ GiveUp
      BY <1>1, <1>2, <2>1 DEF RunInOrder, Alive, closers
    <2>2. CASE Forward \/ Disconnect
      <3>1. dev = conn /\ run = "forward" /\ closedDev \in {0, conn}
        BY <2>2 DEF RunInOrder
      <3>2. CASE run' = "done"
        <4>1. closedDev' = conn /\ dev' = 0
          BY <2>2, <3>1, <3>2
        <4> QED
          BY <1>1, <1>3, <2>2, <3>1, <3>2, <4>1 DEF RunInOrder, Alive
      <3>3. CASE run' # "done"
        BY <1>1, <1>2, <1>3, <2>2, <3>1, <3>3 DEF RunInOrder, Gone, Alive
      <3> QED
        BY <3>2, <3>3
    <2> QED
      BY <2>1, <2>2
  <1> QED
    BY <1>1, <1>3, <1>4, KeptOrder

(* The start of the replay.                                                *)
LEMMA ConnectOrder ==
  ASSUME Inv, Inv', OrderInv, Connect
  PROVE  OrderInv'
  <1> USE DEF OrderInv
  <1>1. /\ run = "lock" /\ run' = "replay" /\ dev = 0
        /\ job'.by = "connect" /\ job'.dev = conn
        /\ DOMAIN job'.todo = ReplayAt /\ \A i \in ReplayAt : job'.todo[i] = ReplayMsg(i)
        /\ UNCHANGED <<dev, conn, session, closedDev>>
    BY DEF Connect, Idle, Inv, GenerationsInOrder, closers
  <1>2. \A i \in ReplayAt : ReplayMsg(i).t # "show"
    BY DEF ReplayMsg
  <1>3. RunInOrder'
    BY <1>1 DEF RunInOrder, Inv, GenerationsInOrder
  <1>4. ShowLast' /\ ShowBacked' /\ RestoreBacked'
    BY <1>1, <1>2 DEF ShowLast, ShowBacked, RestoreBacked
  <1> QED
    BY <1>3, <1>4

(* Close, the board and the cable.                                         *)
LEMMA OutsideOrder ==
  ASSUME Inv, Inv', OrderInv, Close \/ Handle \/ Unplug \/ Plug \/ Reload \/ UNCHANGED vars
  PROVE  OrderInv'
  <1> USE DEF OrderInv
  <1>1. UNCHANGED <<job, frames, restore, gen, dev, run, conn>>
    BY DEF Close, Handle, Unplug, Plug, Reload, vars, memory, pictures, rout
  <1>2. /\ dev # 0 => run = "forward" /\ dev = conn
        /\ dev # 0 => dev <= session
        /\ job.dev <= session
    BY DEF Inv, GenerationsInOrder, RunInOrder
  <1>3. job.dev \in Nat /\ dev \in Nat /\ session \in Nat /\ link \in Nat
    <2>1. RoutineType /\ PadType
      BY DEF Inv, TypeInv
    <2>2. job.dev \in Devices
      BY <2>1, JobParts
    <2> QED
      BY <2>1, <2>2, ReconnectingAssumption DEF RoutineType, RunType, PadType, Devices
  <1>4. /\ session' \in Nat /\ session' >= session
        /\ \/ link' \in {0, link} /\ closedDev' = closedDev
           \/ link' = session + 1 /\ closedDev' = closedDev
           \/ link' = link /\ dev # 0 /\ closedDev' = dev /\ closedDev \in {0, dev}
    <2>1. CASE Close
      <3>1. /\ UNCHANGED <<link, session>>
            /\ closedDev' = closedDev \/ (dev # 0 /\ closedDev' = dev)
        BY <2>1 DEF Close
      <3>2. dev # 0 => closedDev \in {0, dev}
        BY <1>2 DEF RunInOrder
      <3> QED
        BY <1>3, <3>1, <3>2
    <2>2. CASE Handle \/ UNCHANGED vars
      <3>1. UNCHANGED <<link, session, closers>>
        BY <2>2 DEF Handle, vars
      <3> QED
        BY <1>3, <3>1 DEF closers
    <2>3. CASE Unplug \/ Plug \/ Reload
      BY <1>3, <2>3 DEF Unplug, Plug, Reload, closers
    <2> QED
      BY <2>1, <2>2, <2>3
  <1>5. \A d \in Nat : d <= session => (Alive(d)' => Alive(d))
    BY <1>3, <1>4 DEF Alive
  <1>6. Alive(job.dev)' => Alive(job.dev)
    BY <1>1, <1>2, <1>3, <1>5
  <1>7. dev' # 0 => dev' = dev /\ (Alive(dev)' => Alive(dev))
    BY <1>1, <1>2, <1>3, <1>5
  <1>8. RunInOrder'
    BY <1>1, <1>2, <1>3, <1>4, <1>6 DEF RunInOrder
  <1> QED
    BY <1>1, <1>6, <1>7, <1>8, KeptOrder

-----------------------------------------------------------------------------
(* The restore and the answers to the Show misses.                         *)

(* The goroutine that stores the frames again.                             *)
LEMMA RestorerOrder ==
  ASSUME Inv, Inv', OrderInv, NEW g \in Sessions, Restorer(g)
  PROVE  OrderInv'
  <1> USE DEF OrderInv
  <1>1. /\ restore \in [Sessions -> Restores]
        /\ dev # 0 => gen \in Sessions
        /\ MemoryType
    BY ReconnectingAssumption
       DEF Inv, TypeInv, RoutineType, RunType, GenerationsInOrder, Devices, Sessions
  <1>2. /\ UNCHANGED <<dev, gen, run, conn, link, session, closedDev, frames, closing>>
        /\ \A d : Alive(d)' <=> Alive(d)
        /\ RestoreStart(g) \/ RestoreSlot(g) \/ ShowPipsAgain(g)
    BY DEF Restorer, RestoreStart, RestoreSlot, ShowPipsAgain, Quiet, closers, Alive
  <1>3. FreeToSend => \A s : ~StoreInHand(s)
    BY DEF StoreInHand, FreeToSend, Inv, HolderInOrder
  <1>4. CASE RestoreStart(g)
    <2>1. UNCHANGED job /\ \A s : StoreInHand(s)' <=> StoreInHand(s)
      BY <1>4 DEF RestoreStart, StoreInHand
    <2>2. RunInOrder' /\ ShowLast' /\ ShowBacked'
      BY <1>2, <2>1 DEF RunInOrder, ShowLast, ShowBacked
    <2>3. /\ restore'[g].dev = restore[g].dev /\ restore'[g].left = ToRestore
          /\ restore[g].pc = "start"
          /\ \A h \in Sessions : h # g => restore'[h] = restore[h]
      BY <1>1, <1>4 DEF RestoreStart, Restores
    <2>4. \A s \in Slots : frames[s] # None => s \in ToRestore
      BY DEF ToRestore
    <2>5. RestoreBacked'
      BY <1>1, <1>2, <2>1, <2>3, <2>4 DEF RestoreBacked
    <2> QED
      BY <2>2, <2>5
  <1>5. CASE RestoreSlot(g)
    <2>1. PICK s \in restore[g].left :
            /\ restore[g].pc = "slots" /\ FreeToSend
            /\ IF Current(g) /\ closing = "no"
               THEN /\ restore' = [restore EXCEPT ![g].left = @ \ {s}]
                    /\ Hold("restore", [i \in IF frames[s] # None /\ frames[s].gen # g
                                              THEN {0} ELSE {} |-> StoreMsg(s)])
               ELSE restore' = [restore EXCEPT ![g] = NotRestoring] /\ UNCHANGED job
      BY <1>5 DEF RestoreSlot
    <2>2. CASE Current(g) /\ closing = "no"
      <3> DEFINE P == IF frames[s] # None /\ frames[s].gen # g THEN {0} ELSE {}
                 todo == [i \in P |-> StoreMsg(s)]
      <3>1. P \in SUBSET Positions
        BY PadAssumption DEF Positions
      <3>2. s \in Slots
        BY <1>1, <2>1 DEF Restores
      <3>3. ASSUME NEW i \in P
            PROVE  /\ StoreMsg(s) \in Messages
                   /\ StoreMsg(s).t = "store" /\ StoreMsg(s).slot = s
        <4>1. frames[s] \in FrameRecs
          BY <1>1, <3>2, <3>3 DEF MemoryType
        <4> QED
          BY <3>2, <4>1 DEF StoreMsg, Frame, FrameRecs, Frames, Messages, StoreMsgs
      <3>4. todo \in [P -> Messages] /\ \A i \in P : todo[i] = StoreMsg(s)
        BY <3>3
      <3>5. /\ restore'[g].dev = restore[g].dev /\ restore'[g].pc = restore[g].pc
            /\ restore'[g].left = restore[g].left \ {s}
            /\ \A h \in Sessions : h # g => restore'[h] = restore[h]
        BY <1>1, <2>1, <2>2 DEF Restores
      <3>6. Hold("restore", todo)
        BY <2>1, <2>2
      <3>7. s \in Slots /\ frames[s] # None => frames[s].gen = g \/ 0 \in P
        OBVIOUS
      <3> HIDE DEF todo, P
      <3>8. ASSUME dev # 0, restore'[gen].pc # "off"
            PROVE  /\ restore'[gen].dev = dev
                   /\ Alive(dev) /\ restore'[gen].pc = "slots" =>
                        \A r \in Slots : frames'[r] # None =>
                          \/ frames'[r].gen = gen \/ r \in restore'[gen].left
                          \/ \E j \in P : todo[j].t = "store" /\ todo[j].slot = r
        <4>1. gen = g /\ restore[gen].pc = "slots"
          BY <2>1, <2>2 DEF Current
        <4>2. \A r \in Slots : Alive(dev) /\ frames[r] # None =>
                frames[r].gen = gen \/ r \in restore[gen].left
          BY <1>3, <2>1, <3>8, <4>1 DEF RestoreBacked
        <4> QED
          BY <1>2, <3>3, <3>4, <3>5, <3>7, <3>8, <4>1, <4>2 DEF RestoreBacked
      <3>9. \A i \in P : todo[i].t # "show"
        BY <3>3, <3>4
      <3>10. "restore" \in Holders \ {"free", "connect"}
        BY DEF Holders
      <3> QED
        BY <1>2, <2>1, <3>1, <3>4, <3>6, <3>8, <3>9, <3>10, HoldOrder
    <2>3. CASE ~(Current(g) /\ closing = "no")
      <3>1. UNCHANGED job /\ restore' = [restore EXCEPT ![g] = NotRestoring]
            /\ \A r : StoreInHand(r)' <=> StoreInHand(r)
        BY <2>1, <2>3 DEF StoreInHand
      <3>2. /\ restore'[g].pc = "off" /\ \A h \in Sessions : h # g => restore'[h] = restore[h]
        BY <1>1, <3>1 DEF NotRestoring
      <3>3. RunInOrder' /\ ShowLast' /\ ShowBacked'
        BY <1>2, <3>1 DEF RunInOrder, ShowLast, ShowBacked
      <3>4. RestoreBacked'
        BY <1>1, <1>2, <3>1, <3>2 DEF RestoreBacked
      <3> QED
        BY <3>3, <3>4
    <2> QED
      BY <2>2, <2>3
  <1>6. CASE ShowPipsAgain(g)
    <2> DEFINE P == IF Current(g) /\ sheet /\ \E k \in Keys : pips[k] > 0
                    THEN {0} ELSE {}
               m == [t |-> "show", slots |-> PipSlots, counts |-> PipCounts]
               todo == [i \in P |-> m]
    <2>1. P \in SUBSET Positions /\ (P # {} => Current(g)) /\ \A i, j \in P : i = j
      BY PadAssumption DEF Positions
    <2>2. PipSlots \in SlotChoice /\ PipCounts \in Counts
      BY <1>1 DEF PipSlots, PipCounts, SlotChoice, Counts, MemoryType
    <2>3. m \in Messages /\ m.t = "show" /\ m.slots = PipSlots
      BY <2>2 DEF Messages, ShowMsgs
    <2>4. todo \in [P -> Messages] /\ \A i \in P : todo[i] = m
      BY <2>3
    <2>5. /\ Hold("pips", todo) /\ FreeToSend
          /\ restore[g].pc = "slots" /\ restore[g].left = {}
          /\ restore'[g].pc = "off" /\ \A h \in Sessions : h # g => restore'[h] = restore[h]
      BY <1>1, <1>6 DEF ShowPipsAgain, NotRestoring
    <2> HIDE DEF P, m, todo
    <2>6. ASSUME NEW i \in P
          PROVE  \A k \in Named(todo[i]) :
                   LET s == todo[i].slots[k]
                   IN dev # 0 /\ Alive(dev) /\ frames'[s] # None =>
                        \/ frames'[s].gen = gen
                        \/ \E j \in P : todo[j].t = "store" /\ todo[j].slot = s
      <3>1. gen = g
        BY <2>1, <2>6 DEF Current
      <3>2. \A s \in Slots : dev # 0 /\ Alive(dev) /\ frames[s] # None => frames[s].gen = gen
        BY <1>3, <2>5, <3>1 DEF RestoreBacked
      <3>3. \A k \in Named(todo[i]) : todo[i].slots[k] \in Slots
        BY <2>2, <2>3, <2>4 DEF Named, SlotChoice
      <3> QED
        BY <1>2, <3>2, <3>3
    <2>7. ASSUME dev # 0, restore'[gen].pc # "off"
          PROVE  /\ restore'[gen].dev = dev
                 /\ Alive(dev) /\ restore'[gen].pc = "slots" =>
                      \A s \in Slots : frames'[s] # None =>
                        \/ frames'[s].gen = gen \/ s \in restore'[gen].left
                        \/ \E j \in P : todo[j].t = "store" /\ todo[j].slot = s
      <3>1. gen # g /\ restore'[gen] = restore[gen]
        BY <1>1, <2>5, <2>7
      <3> QED
        BY <1>2, <1>3, <2>5, <2>7, <3>1 DEF RestoreBacked
    <2>8. "pips" \in Holders \ {"free", "connect"}
      BY DEF Holders
    <2> QED
      BY <1>2, <2>1, <2>4, <2>5, <2>6, <2>7, <2>8, HoldOrder
  <1> QED
    BY <1>2, <1>4, <1>5, <1>6

(* The goroutine that answers a Show miss.                                 *)
LEMMA MissOrder ==
  ASSUME Inv, Inv', OrderInv, Misser
  PROVE  OrderInv'
  <1>1. PICK n \in DOMAIN misses : HandleShowMiss(n)
    BY DEF Misser
  <1>2. PICK mask \in SUBSET Keys : mask = misses[n].mask
    <2>1. PICK m \in Misses : m = misses[n]
      BY <1>1, ElementOfSeq DEF Inv, TypeInv, RoutineType, RunType
    <2> QED
      BY <2>1 DEF Misses
  <1> DEFINE Again == {k \in mask : shown[k] # None /\ frames[shown[k]] # None}
             slots == [k \in Keys |-> IF k \in Again THEN shown[k] ELSE None]
             Lost  == {shown[k] : k \in Again}
             show  == [t |-> "show", slots |-> slots,
                       counts |-> [k \in Keys |-> IF sheet /\ k \in Again THEN pips[k] ELSE 0]]
             P     == Again \union {NumKeys}
             todo  == MissAnswer(Again, slots)
  <1>3. /\ FreeToSend /\ UNCHANGED restore
        /\ UNCHANGED <<dev, gen, run, conn, link, session, closedDev>>
        /\ \/ UNCHANGED <<frames, job>>
           \/ /\ frames' = [s \in Slots |-> IF s \in Lost
                              THEN [frames[s] EXCEPT !.gen = 0] ELSE frames[s]]
              /\ Hold("miss", todo)
    BY <1>1, <1>2 DEF HandleShowMiss, Quiet, closers
  <1>4. \A d : Alive(d)' <=> Alive(d)
    BY <1>3 DEF Alive
  <1>5. \A s : ~StoreInHand(s)
    BY <1>3 DEF StoreInHand, FreeToSend, Inv, HolderInOrder
  <1>6. CASE UNCHANGED <<frames, job>>
    <2>1. RunInOrder'
      BY <1>3, <1>4, <1>6 DEF OrderInv, RunInOrder
    <2> QED
      BY <1>3, <1>4, <1>6, <2>1, KeptOrder
  <1>7. CASE /\ frames' = [s \in Slots |-> IF s \in Lost
                              THEN [frames[s] EXCEPT !.gen = 0] ELSE frames[s]]
             /\ Hold("miss", todo)
    <2>1. ASSUME NEW k \in Again
          PROVE  /\ k \in Keys /\ k # NumKeys /\ k < NumKeys /\ shown[k] \in Slots
                 /\ StoreMsg(shown[k]) \in Messages
                 /\ StoreMsg(shown[k]).t = "store" /\ StoreMsg(shown[k]).slot = shown[k]
      <3>1. k \in Keys /\ shown[k] \in Slots /\ frames[shown[k]] \in FrameRecs
        BY DEF Inv, TypeInv, MemoryType
      <3> QED
        BY <3>1, PadAssumption
           DEF Keys, StoreMsg, Frame, FrameRecs, Frames, Messages, StoreMsgs
    <2>2. show \in Messages /\ show.t = "show" /\ show.slots = slots
      <3>1. slots \in SlotChoice
        BY <2>1 DEF SlotChoice
      <3>2. show.counts \in Counts
        BY DEF Counts, Inv, TypeInv, MemoryType
      <3> QED
        BY <3>1, <3>2 DEF Messages, ShowMsgs
    <2>3. P \in SUBSET Positions
      <3>1. \A k \in Keys \union {NumKeys} : k \in Positions
        BY PadAssumption DEF Positions, Keys
      <3> QED
        BY <2>1, <3>1
    <2>4. /\ todo = [i \in P |-> IF i # NumKeys THEN StoreMsg(shown[i]) ELSE show]
          /\ NumKeys \in P /\ \A i \in P : i \in Again \/ i = NumKeys
          /\ \A k \in Again : k \in P
      BY DEF MissAnswer
    <2>5. /\ \A s : s \in Lost <=> \E k \in Again : s = shown[k]
          /\ \A k \in Keys : k \notin Again => slots[k] = None
          /\ \A k \in Again : slots[k] = shown[k]
      BY <2>1
    <2>6. \A s \in Slots : s \notin Lost => frames'[s] = frames[s]
      BY <1>7
    <2> HIDE DEF Again, Lost, slots, show, P, todo
    <2>7. todo[NumKeys] = show /\ \A k \in Again : todo[k] = StoreMsg(shown[k])
      BY <2>1, <2>4
    <2>8. todo \in [P -> Messages]
      BY <2>1, <2>2, <2>4
    <2>9. \A s \in Lost : \E j \in P : todo[j].t = "store" /\ todo[j].slot = s
      BY <2>1, <2>4, <2>5, <2>7
    <2>10. ASSUME NEW i \in P, todo[i].t = "show"
           PROVE  /\ \A j \in P : j # i => j < i /\ todo[j].t = "store"
                  /\ \A k \in Named(todo[i]) :
                       LET s == todo[i].slots[k]
                       IN dev # 0 /\ Alive(dev) /\ frames'[s] # None =>
                            \/ frames'[s].gen = gen
                            \/ \E j \in P : todo[j].t = "store" /\ todo[j].slot = s
      <3>1. i = NumKeys
        BY <2>1, <2>4, <2>7, <2>10
      <3>2. \A j \in P : j # i => j < i /\ todo[j].t = "store"
        BY <2>1, <2>4, <2>7, <3>1
      <3>3. \A k \in Named(todo[i]) : todo[i].slots[k] \in Lost
        BY <2>2, <2>5, <2>7, <3>1 DEF Named
      <3> QED
        BY <2>9, <3>2, <3>3
    <2>11. ASSUME dev # 0, restore'[gen].pc # "off"
           PROVE  /\ restore'[gen].dev = dev
                  /\ Alive(dev) /\ restore'[gen].pc = "slots" =>
                       \A s \in Slots : frames'[s] # None =>
                         \/ frames'[s].gen = gen \/ s \in restore'[gen].left
                         \/ \E j \in P : todo[j].t = "store" /\ todo[j].slot = s
      BY <1>3, <1>5, <2>6, <2>9, <2>11 DEF OrderInv, RestoreBacked
    <2>12. "miss" \in Holders \ {"free", "connect"}
      BY DEF Holders
    <2> QED
      BY <1>3, <1>7, <2>3, <2>8, <2>10, <2>11, <2>12, HoldOrder
  <1> QED
    BY <1>3, <1>6, <1>7

(* Every step keeps it.                                                    *)
LEMMA StepOrder == Inv /\ OrderInv /\ [Next]_vars => OrderInv'
  <1> SUFFICES ASSUME Inv, OrderInv, [Next]_vars PROVE OrderInv'
    OBVIOUS
  <1>0. Inv'
    BY StepInv
  <1>1. CASE Caller
    BY <1>0, <1>1, SendOrder, ShowOrder, ReconnectingAssumption, SentAssumption
       DEF Caller
  <1>2. CASE Write \/ WriteLost
    BY <1>0, <1>2, WrittenOrder DEF Write, WriteLost
  <1>3. CASE WriteFails
    BY <1>0, <1>3, WriteFailsOrder
  <1>4. CASE Unlock
    BY <1>0, <1>4, UnlockOrder
  <1>5. CASE Runner
    BY <1>0, <1>5, RunOrder, ConnectOrder DEF Runner
  <1>6. CASE Misser
    BY <1>0, <1>6, MissOrder
  <1>7. CASE \E g \in Sessions : Restorer(g)
    BY <1>0, <1>7, RestorerOrder
  <1>8. CASE Close \/ Handle \/ Unplug \/ Plug \/ Reload \/ UNCHANGED vars
    BY <1>0, <1>8, OutsideOrder
  <1> QED
    BY <1>1, <1>2, <1>3, <1>4, <1>5, <1>6, <1>7, <1>8 DEF Next, Sender

-----------------------------------------------------------------------------
(* A step that puts a message in flight is a write of the holder of sendMu *)
(* to a device that is alive.                                              *)
LEMMA OnlyWriteSends ==
  ASSUME Inv, [Next]_vars, Len(down') > Len(down)
  PROVE  \E i \in Positions : /\ NextWrite(i) /\ Alive(job.dev) /\ Written(i)
                              /\ down' = Append(down, job.todo[i])
  <1>1. down \in Seq(Messages) /\ Len(down) \in Nat
    BY DEF Inv, TypeInv, PadType
  <1>2. ~(Caller \/ WriteLost \/ WriteFails \/ Unlock \/ Runner \/ Misser \/ Close
          \/ (\E g \in Sessions : Restorer(g)) \/ Plug \/ UNCHANGED vars)
    <2> SUFFICES ASSUME down' = down PROVE FALSE
      BY DEF Caller, CallSendKeyState, CallSendCustomGlyph, CallStoreFrame, CallStorePipSheet,
         CallShow, WriteLost, WriteFails, Unlock, Runner, Open, Settle, GiveUp, Connect,
         Forward, Disconnect, Idle, Misser, HandleShowMiss, Quiet, Close, Restorer,
         RestoreStart, RestoreSlot, ShowPipsAgain, Plug, vars
    <2> QED
      BY <1>1
  <1>3. ~Handle
    <2> SUFFICES ASSUME down # <<>>, down' = Tail(down) PROVE FALSE
      BY DEF Handle
    <2> QED
      BY <1>1, HeadTailProperties
  <1>4. ~Unplug
    BY <1>1 DEF Unplug
  <1>5. ~Reload
    <2> SUFFICES ASSUME NEW n \in 0 .. Len(down), down' = SubSeq(down, n + 1, Len(down))
                 PROVE  FALSE
      BY DEF Reload
    <2> QED
      BY <1>1, SubSeqProperties
  <1> QED
    BY <1>2, <1>3, <1>4, <1>5 DEF Next, Sender, Write

(* A Show frames that goes out finds every frame it names on the board, or *)
(* on its way there, whatever calls, restores, answers to Show misses and  *)
(* reconnects are under way (show, storeLocked, showPipsAgain and          *)
(* handleShowMiss); a code reload is what breaks it.                       *)
THEOREM ShowsAlwaysBacked == Spec => ShowIsBacked
  <1>1. ASSUME Inv, OrderInv, [Next]_vars,
               Len(down') > Len(down), reloads = 0, down'[Len(down')].t = "show",
               NEW k \in Named(down'[Len(down')]), NEW s, s = down'[Len(down')].slots[k],
               frames[s] # None
        PROVE  OnBoard(s, Frame(s))
    <2>1. PICK i \in Positions : /\ NextWrite(i) /\ Alive(job.dev)
                                 /\ down' = Append(down, job.todo[i])
      BY <1>1, OnlyWriteSends
    <2>2. PICK m \in Messages : m = job.todo[i]
      BY <1>1, <2>1, JobParts DEF NextWrite, Inv, TypeInv
    <2>3. down'[Len(down')] = m
      BY <2>1, <2>2 DEF Inv, TypeInv, PadType
    <2>4. m.t = "show" /\ k \in Named(m) /\ s = m.slots[k] /\ s \in Slots
      BY <1>1, <2>3
         DEF Named, Messages, KeyMsgs, GlyphMsgs, StoreMsgs, ShowMsgs, SheetMsgs, SlotChoice
    <2>5. /\ i \in DOMAIN job.todo /\ \A j \in DOMAIN job.todo : j = i
          /\ DOMAIN job.todo \subseteq Positions
      BY <1>1, <2>1, <2>2, <2>4, JobParts
         DEF NextWrite, OrderInv, ShowLast, Inv, TypeInv, Positions
    <2>6. ~StoreInHand(s)
      BY <2>2, <2>4, <2>5 DEF StoreInHand
    <2>7. frames[s].gen = gen
      BY <1>1, <2>1, <2>2, <2>4, <2>5, <2>6 DEF OrderInv, ShowBacked
    <2>8. dev # 0 /\ dev = link
      BY <1>1, <2>1, <2>2, <2>4, <2>5
         DEF OrderInv, ShowLast, RunInOrder, Alive, Inv, HolderInOrder
    <2> QED
      BY <1>1, <2>4, <2>7, <2>8 DEF Inv, FramesHeld
  <1>2. Inv /\ OrderInv /\ [Next]_vars =>
          (Len(down') > Len(down) /\ reloads = 0 /\ down'[Len(down')].t = "show" =>
             \A k \in Named(down'[Len(down')]) :
               LET s == down'[Len(down')].slots[k] IN
               frames[s] # None => OnBoard(s, Frame(s)))
    BY <1>1
  <1> QED
    BY InitInv, StepInv, InitOrder, StepOrder, <1>2, PTL DEF Spec, ShowIsBacked

(* Once Close has returned nothing reaches the board: the device that run  *)
(* last used is closed, and whoever still holds sendMu writes to that one  *)
(* or to one that is gone (Close, run and the goroutines run started).     *)
THEOREM AlwaysSilentAfterClose == Spec => SilentAfterClose
  <1>1. ASSUME Inv, OrderInv, [Next]_vars, Closed
        PROVE  Len(down') <= Len(down)
    <2>1. down \in Seq(Messages) /\ down' \in Seq(Messages)
      BY <1>1, StepInv DEF Inv, TypeInv, PadType
    <2>2. ASSUME Len(down') > Len(down) PROVE FALSE
      <3>1. PICK i \in Positions : NextWrite(i) /\ Alive(job.dev)
        BY <1>1, <2>2, OnlyWriteSends
      <3>2. job.by \notin {"free", "connect"}
        BY <1>1, <3>1 DEF Inv, HolderInOrder, NextWrite, Closed
      <3>3. dev = job.dev /\ job.dev # 0
        BY <1>1, <3>1, <3>2 DEF OrderInv, RunInOrder, Alive
      <3> QED
        BY <1>1, <3>3 DEF Inv, GenerationsInOrder, Closed
    <2> QED
      BY <2>1, <2>2
  <1>2. Inv /\ OrderInv /\ [Next]_vars => (Closed => Len(down') <= Len(down))
    BY <1>1
  <1> QED
    BY InitInv, StepInv, InitOrder, StepOrder, <1>2, PTL DEF Spec, SilentAfterClose

-----------------------------------------------------------------------------
(***************************************************************************)
(* The proof of PadShowsMemory: what the pad shows once everything is      *)
(* delivered is what the host remembers.  PadInv says it of every state    *)
(* before: each part of a key's picture (color, glyph, pip) is right on    *)
(* the board, or the last message in flight that sets it sets it right, or *)
(* the holder of sendMu has yet to send it, or a Show miss on its way will *)
(* have it shown again.                                                    *)
(***************************************************************************)

(* The board that run is connected to, while nobody has called Close.      *)
Online == closing = "no" /\ link # 0 /\ conn = link /\ (run = "replay" \/ dev = link)

(* Any other board is as it was at power-on.                               *)
Pristine ==
  /\ down = <<>> /\ bkeys = [k \in Keys |-> PowerOnKey]
  /\ cache = [s \in Slots |-> None] /\ ~bsheet
OfflinePristine == closing = "no" /\ ~Online => Pristine

(* A key of the board draws a cached frame, or its own state.              *)
Drawing(b) ==
  IF b.cached THEN b.glyph = None /\ b.on.color = b.color ELSE b.on = Plain(b.color, b.glyph)
BoardDraws == \A k \in Keys : Drawing(bkeys[k])

(* The sentinel stands for a glyph; what the holder of sendMu has yet to   *)
(* write says what is remembered; a key set on the board is remembered.    *)
CustomIsGlyph ==
  \A k \in Keys : IF keys[k] = None THEN glyphs[k] = None
                  ELSE keys[k].custom <=> glyphs[k] # None
SaysState(m) ==
  m.t = "key" =>
    /\ keys[m.key] # None /\ m.color = keys[m.key].color /\ m.custom = keys[m.key].custom
    /\ job.by # "connect" => ~m.custom /\ pips[m.key] = 0
SaysGlyph(m) ==
  m.t = "glyph" =>
    /\ keys[m.key] # None /\ m.glyph = glyphs[m.key]
    /\ job.by # "connect" => pips[m.key] = 0
SaysShow(m) ==
  m.t = "show" =>
    \A k \in Named(m) : frames[m.slots[k]] # None =>
      m.slots[k] = shown[k] /\ m.counts[k] = pips[k]
TodoSays ==
  \A i \in DOMAIN job.todo :
    SaysState(job.todo[i]) /\ SaysGlyph(job.todo[i]) /\ SaysShow(job.todo[i])
FreshKnown == \A k \in fresh : keys[k] # None

-----------------------------------------------------------------------------
(* The slot s when the board takes the message at place i: it is empty, or *)
(* holds f; and whether the board then has the pip sheet.                  *)
End == Len(down) + 1
NoStore(i, s) == \A j \in DOMAIN down : j < i => ~IsStore(j, s)
Empty(i, s) == cache[s] = None /\ NoStore(i, s)
Held(i, s, f) ==
  \/ cache[s] = f /\ NoStore(i, s)
  \/ \E j \in DOMAIN down : /\ j < i /\ IsStore(j, s) /\ down[j].frame = f
                            /\ \A l \in DOMAIN down : j < l /\ l < i => ~IsStore(l, s)
SheetBefore(i) == bsheet \/ \E j \in DOMAIN down : j < i /\ down[j].t = "sheet"

CacheAgrees ==
  \A s \in Slots :
    Empty(End, s) \/ (frames[s] # None /\ (Held(End, s, Frame(s)) \/ StoreInHand(s)))
SheetAgrees ==
  reloads = 0 /\ sheet =>
    SheetBefore(End) \/ \E i \in DOMAIN job.todo : job.todo[i].t = "sheet"

(* A bare sentinel reaches only keys that draw their own state.            *)
NoShow(i) == \A j \in DOMAIN down : j < i => down[j].t # "show"
Uncached  == \A k \in Keys : ~bkeys[k].cached
CustomFirst ==
  /\ run = "replay" => NoShow(End) /\ Uncached
  /\ \A i \in DOMAIN down : down[i].t = "key" /\ down[i].custom => NoShow(i) /\ Uncached

-----------------------------------------------------------------------------
(* The messages in flight that set the color of a key, its glyph or its    *)
(* pip, and which of them set it to what is remembered.                    *)
IsState(m, k) == m.t = "key" /\ m.key = k
IsGlyph(m, k) == m.t = "glyph" /\ m.key = k
IsShow(m, k)  == m.t = "show" /\ k \in Named(m)
Paints(i, k)   == IsShow(down[i], k) /\ ~Empty(i, down[i].slots[k])
WillMiss(i, k) == IsShow(down[i], k) /\ Empty(i, down[i].slots[k])

ColorOf(k) == IF keys[k] = None THEN DefaultColor ELSE keys[k].color

ColorSets(k) == {i \in DOMAIN down : IsState(down[i], k) \/ Paints(i, k)}
FaceSets(k)  == {i \in DOMAIN down : \/ IsState(down[i], k) /\ ~down[i].custom
                                     \/ IsGlyph(down[i], k) \/ Paints(i, k)}
PipSets(k)   == {i \in DOMAIN down : \/ IsState(down[i], k) \/ IsGlyph(down[i], k)
                                     \/ Paints(i, k)}

ColorRight(k) ==
  {i \in DOMAIN down :
     /\ IsState(down[i], k) => down[i].color = ColorOf(k)
     /\ IsShow(down[i], k) =>
          \E f \in Frames : Held(i, down[i].slots[k], f) /\ f.color = ColorOf(k)}
FaceRight(k) ==
  {i \in DOMAIN down :
     /\ IsState(down[i], k) => glyphs[k] = None
     /\ IsGlyph(down[i], k) => down[i].glyph = glyphs[k]
     /\ IsShow(down[i], k) =>
          \E f \in Frames : Held(i, down[i].slots[k], f) /\ f.glyph = glyphs[k]}
PipRight(k) ==
  {i \in DOMAIN down :
     /\ IsState(down[i], k) \/ IsGlyph(down[i], k) => pips[k] = 0
     /\ IsShow(down[i], k) => /\ down[i].counts[k] = pips[k]
                              /\ pips[k] > 0 => SheetBefore(i)}

(* The last of the messages S is one of R; b says that of the board when   *)
(* there is none.                                                          *)
EndsRight(S, R, b) ==
  \/ S = {} /\ b
  \/ \E i \in S : i \in R /\ \A j \in S : j <= i

ColorEnds(k) == EndsRight(ColorSets(k), ColorRight(k), bkeys[k].color = ColorOf(k))
FaceEnds(k)  == EndsRight(FaceSets(k), FaceRight(k), bkeys[k].on.glyph = glyphs[k])
PipEnds(k)   == EndsRight(PipSets(k), PipRight(k), bkeys[k].on.pip = pips[k])

(* What the holder of sendMu has yet to write sets a part of the key.      *)
StateInHand(k) == \E i \in DOMAIN job.todo : IsState(job.todo[i], k)
PlainInHand(k) == \E i \in DOMAIN job.todo : IsState(job.todo[i], k) /\ ~job.todo[i].custom
GlyphInHand(k) == \E i \in DOMAIN job.todo : IsGlyph(job.todo[i], k)
ShowInHand(k)  == \E i \in DOMAIN job.todo :
                    IsShow(job.todo[i], k) /\ frames[job.todo[i].slots[k]] # None

(* A Show miss will name the key, and its answer shows it again; the end   *)
(* of the restore shows the pips again.                                    *)
Repair(k) ==
  /\ shown[k] # None
  /\ \/ \E i \in DOMAIN down : WillMiss(i, k)
     \/ \E i \in DOMAIN up : k \in up[i]
     \/ \E n \in DOMAIN misses : k \in misses[n].mask /\ misses[n].dev = conn
Restoring == run = "replay" \/ restore[gen].pc # "off"

Reused(k) == pin[k] = "reused"

ColorOK(k) ==
  ~Reused(k) /\ (reloads = 0 \/ (k \in fresh /\ ColorSent(k))) =>
    StateInHand(k) \/ ShowInHand(k) \/ ColorEnds(k) \/ (reloads # 0 /\ Repair(k))
FaceOK(k) ==
  ~Reused(k) /\ k \in fresh =>
    GlyphInHand(k) \/ PlainInHand(k) \/ ShowInHand(k) \/ FaceEnds(k) \/ Repair(k)
PipOK(k) ==
  ~Reused(k) /\ k \in fresh /\ reloads = 0 =>
    \/ pips[k] = 0 /\ (GlyphInHand(k) \/ StateInHand(k))
    \/ ShowInHand(k) \/ PipEnds(k) \/ Repair(k)
    \/ pips[k] > 0 /\ Restoring

OnlineAgrees ==
  Online => /\ CacheAgrees /\ SheetAgrees /\ CustomFirst
            /\ \A k \in Keys : ColorOK(k) /\ FaceOK(k) /\ PipOK(k)

PadInv == /\ OfflinePristine /\ BoardDraws /\ CustomIsGlyph /\ TodoSays /\ FreshKnown
          /\ OnlineAgrees

-----------------------------------------------------------------------------
(* Parts of messages.                                                      *)
LEMMA MessageParts ==
  ASSUME NEW m \in Messages
  PROVE  /\ m.t \in {"key", "glyph", "store", "show", "sheet"}
         /\ m.t = "key" => m.key \in Keys /\ m.color \in Colors /\ m.custom \in BOOLEAN
         /\ m.t = "glyph" => m.key \in Keys /\ m.glyph \in Glyphs
         /\ m.t = "store" => m.slot \in Slots /\ m.frame \in Frames
         /\ m.t = "show" => /\ m.slots \in SlotChoice /\ m.counts \in Counts
                            /\ \A k \in Named(m) : k \in Keys /\ m.slots[k] \in Slots
  BY DEF Messages, KeyMsgs, GlyphMsgs, StoreMsgs, ShowMsgs, SheetMsgs, SlotChoice, Named

(* What is in flight after one more message.                               *)
LEMMA AppendParts ==
  ASSUME down \in Seq(Messages), NEW m \in Messages, down' = Append(down, m)
  PROVE  /\ DOMAIN down = 1 .. Len(down) /\ Len(down) \in Nat
         /\ DOMAIN down' = 1 .. Len(down) + 1 /\ Len(down') = Len(down) + 1
         /\ \A i \in 1 .. Len(down) : down'[i] = down[i] /\ down[i] \in Messages
         /\ down'[Len(down) + 1] = m
  OBVIOUS

(* The same after one message less.                                        *)
LEMMA TailParts ==
  ASSUME down \in Seq(Messages), down # <<>>, down' = Tail(down)
  PROVE  /\ DOMAIN down = 1 .. Len(down) /\ Len(down) \in Nat \ {0}
         /\ DOMAIN down' = 1 .. Len(down) - 1 /\ Len(down') = Len(down) - 1
         /\ \A i \in 1 .. Len(down) - 1 : down'[i] = down[i + 1]
         /\ \A i \in 1 .. Len(down) : down[i] \in Messages
         /\ Head(down) = down[1]
  OBVIOUS

(* A message more changes nothing for those before it.                     *)
LEMMA AppendKeeps ==
  ASSUME down \in Seq(Messages), NEW m \in Messages, down' = Append(down, m),
         UNCHANGED <<cache, bsheet>>, NEW i \in 1 .. Len(down) + 1
  PROVE  /\ NoShow(i)' <=> NoShow(i)
         /\ SheetBefore(i)' <=> SheetBefore(i)
         /\ \A s : Empty(i, s)' <=> Empty(i, s)
         /\ \A s, f : Held(i, s, f)' <=> Held(i, s, f)
  <1>1. /\ DOMAIN down = 1 .. Len(down) /\ Len(down) \in Nat
        /\ DOMAIN down' = 1 .. Len(down) + 1
        /\ \A j \in 1 .. Len(down) : down'[j] = down[j]
    BY AppendParts
  <1>2. \A j : j \in DOMAIN down' /\ j < i <=> j \in DOMAIN down /\ j < i
    BY <1>1
  <1>3. \A j, s : j \in DOMAIN down => (IsStore(j, s)' <=> IsStore(j, s))
    BY <1>1 DEF IsStore
  <1>4. NoShow(i)' <=> NoShow(i)
    BY <1>1, <1>2 DEF NoShow
  <1>5. SheetBefore(i)' <=> SheetBefore(i)
    BY <1>1, <1>2 DEF SheetBefore
  <1>6. \A s : NoStore(i, s)' <=> NoStore(i, s)
    BY <1>2, <1>3 DEF NoStore
  <1>7. \A s : Empty(i, s)' <=> Empty(i, s)
    BY <1>6 DEF Empty
  <1>8. ASSUME NEW s, NEW f
        PROVE  Held(i, s, f)' <=> Held(i, s, f)
    <2>1. \A j \in DOMAIN down : (\A l \in DOMAIN down' : j < l /\ l < i => ~IsStore(l, s)')
            <=> (\A l \in DOMAIN down : j < l /\ l < i => ~IsStore(l, s))
      BY <1>2, <1>3
    <2> QED
      BY <1>1, <1>2, <1>3, <1>6, <2>1 DEF Held
  <1> QED
    BY <1>4, <1>5, <1>7, <1>8

(* The board handles the first message: what it will hold at a later one   *)
(* is the same.                                                            *)
LEMMA TailKeeps ==
  ASSUME down \in Seq(Messages), down # <<>>, down' = Tail(down),
         \A s \in Slots : cache'[s] = IF Head(down).t = "store" /\ Head(down).slot = s
                                      THEN Head(down).frame ELSE cache[s],
         bsheet' <=> bsheet \/ Head(down).t = "sheet",
         NEW i \in 1 .. Len(down)
  PROVE  /\ NoShow(i)' <=> \A j \in DOMAIN down : 1 < j /\ j < i + 1 => down[j].t # "show"
         /\ SheetBefore(i)' <=> SheetBefore(i + 1)
         /\ \A s \in Slots : Empty(i, s)' <=> Empty(i + 1, s)
         /\ \A s \in Slots, f \in Frames : Held(i, s, f)' <=> Held(i + 1, s, f)
  <1>1. /\ DOMAIN down = 1 .. Len(down) /\ Len(down) \in Nat \ {0}
        /\ DOMAIN down' = 1 .. Len(down) - 1
        /\ \A j \in 1 .. Len(down) - 1 : down'[j] = down[j + 1]
        /\ Head(down) = down[1] /\ down[1] \in Messages
    BY TailParts
  <1>2. \A j \in 1 .. Len(down) - 1 : \A s : IsStore(j, s)' <=> IsStore(j + 1, s)
    BY <1>1 DEF IsStore
  <1>3. \A j \in DOMAIN down : j = 1 \/ (j - 1 \in DOMAIN down' /\ (j - 1) + 1 = j)
    BY <1>1
  <1>4. NoShow(i)' <=> \A j \in DOMAIN down : 1 < j /\ j < i + 1 => down[j].t # "show"
    <2>1. ASSUME NoShow(i)', NEW j \in DOMAIN down, 1 < j, j < i + 1
          PROVE  down[j].t # "show"
      <3>1. j - 1 \in DOMAIN down' /\ j - 1 < i /\ down'[j - 1] = down[j]
        BY <1>1, <2>1
      <3> QED
        BY <2>1, <3>1 DEF NoShow
    <2>2. ASSUME \A j \in DOMAIN down : 1 < j /\ j < i + 1 => down[j].t # "show"
          PROVE  NoShow(i)'
      <3>1. \A j \in DOMAIN down' : j < i => j + 1 \in DOMAIN down /\ 1 < j + 1 /\ j + 1 < i + 1
        BY <1>1
      <3> QED
        BY <1>1, <2>2, <3>1 DEF NoShow
    <2> QED
      BY <2>1, <2>2
  <1>5. SheetBefore(i)' <=> SheetBefore(i + 1)
    <2>1. ASSUME SheetBefore(i + 1) PROVE SheetBefore(i)'
      <3>1. CASE bsheet
        BY <3>1 DEF SheetBefore
      <3>2. ASSUME NEW j \in DOMAIN down, j < i + 1, down[j].t = "sheet"
            PROVE  SheetBefore(i)'
        <4>1. CASE j = 1
          BY <1>1, <3>2, <4>1 DEF SheetBefore
        <4>2. CASE j # 1
          <5>1. j - 1 \in DOMAIN down' /\ j - 1 < i /\ down'[j - 1] = down[j]
            BY <1>1, <3>2, <4>2
          <5> QED
            BY <3>2, <5>1 DEF SheetBefore
        <4> QED
          BY <4>1, <4>2
      <3> QED
        BY <2>1, <3>1, <3>2 DEF SheetBefore
    <2>2. ASSUME SheetBefore(i)' PROVE SheetBefore(i + 1)
      <3>1. CASE bsheet'
        <4>1. 1 \in DOMAIN down /\ 1 < i + 1
          BY <1>1
        <4> QED
          BY <1>1, <3>1, <4>1 DEF SheetBefore
      <3>2. ASSUME NEW j \in DOMAIN down', j < i, down'[j].t = "sheet"
            PROVE  SheetBefore(i + 1)
        <4>1. j + 1 \in DOMAIN down /\ j + 1 < i + 1 /\ down[j + 1].t = "sheet"
          BY <1>1, <3>2
        <4> QED
          BY <4>1 DEF SheetBefore
      <3> QED
        BY <2>2, <3>1, <3>2 DEF SheetBefore
    <2> QED
      BY <2>1, <2>2
  <1>6. \A s : NoStore(i + 1, s) <=> ~IsStore(1, s) /\ NoStore(i, s)'
    <2> TAKE s
    <2>1. ASSUME NoStore(i + 1, s) PROVE ~IsStore(1, s) /\ NoStore(i, s)'
      <3>1. 1 \in DOMAIN down /\ 1 < i + 1
        BY <1>1
      <3>2. \A j \in DOMAIN down' : j < i => j + 1 \in DOMAIN down /\ j + 1 < i + 1
        BY <1>1
      <3> QED
        BY <1>1, <1>2, <2>1, <3>1, <3>2 DEF NoStore
    <2>2. ASSUME ~IsStore(1, s), NoStore(i, s)' PROVE NoStore(i + 1, s)
      <3>1. ASSUME NEW j \in DOMAIN down, j < i + 1, IsStore(j, s) PROVE FALSE
        <4>1. j # 1 /\ j - 1 \in DOMAIN down' /\ j - 1 < i /\ IsStore(j - 1, s)'
          BY <1>1, <1>2, <1>3, <2>2, <3>1
        <4> QED
          BY <2>2, <4>1 DEF NoStore
      <3> QED
        BY <3>1 DEF NoStore
    <2> QED
      BY <2>1, <2>2
  <1>7. \A s \in Slots : IsStore(1, s) => cache'[s] = down[1].frame /\ down[1].frame \in Frames
    BY <1>1, MessageParts DEF IsStore
  <1>8. \A s \in Slots : ~IsStore(1, s) => cache'[s] = cache[s]
    BY <1>1 DEF IsStore
  <1>9. \A s \in Slots : Empty(i, s)' <=> Empty(i + 1, s)
    BY <1>6, <1>7, <1>8, NoneAssumption DEF Empty
  <1>10. ASSUME NEW s \in Slots, NEW f \in Frames
         PROVE  Held(i, s, f)' <=> Held(i + 1, s, f)
    <2>1. ASSUME Held(i + 1, s, f) PROVE Held(i, s, f)'
      <3>1. CASE cache[s] = f /\ NoStore(i + 1, s)
        BY <1>6, <1>8, <3>1 DEF Held
      <3>2. ASSUME NEW j \in DOMAIN down, j < i + 1, IsStore(j, s), down[j].frame = f,
                   \A l \in DOMAIN down : j < l /\ l < i + 1 => ~IsStore(l, s)
            PROVE  Held(i, s, f)'
        <4>0. \A l \in DOMAIN down' : l >= j /\ l < i => ~IsStore(l, s)'
          <5>1. \A l \in DOMAIN down' : l >= j /\ l < i =>
                   l + 1 \in DOMAIN down /\ j < l + 1 /\ l + 1 < i + 1
            BY <1>1
          <5> QED
            BY <1>1, <1>2, <3>2, <5>1
        <4>1. CASE j = 1
          <5>1. NoStore(i, s)'
            BY <1>1, <4>0, <4>1 DEF NoStore
          <5> QED
            BY <1>7, <3>2, <4>1, <5>1 DEF Held
        <4>2. CASE j # 1
          <5>1. j - 1 \in DOMAIN down' /\ j - 1 < i /\ IsStore(j - 1, s)' /\ down'[j - 1] = down[j]
            BY <1>1, <1>2, <1>3, <3>2, <4>2
          <5>2. \A l \in DOMAIN down' : j - 1 < l /\ l < i => ~IsStore(l, s)'
            BY <1>1, <4>0
          <5> QED
            BY <3>2, <5>1, <5>2 DEF Held
        <4> QED
          BY <4>1, <4>2
      <3> QED
        BY <2>1, <3>1, <3>2 DEF Held
    <2>2. ASSUME Held(i, s, f)' PROVE Held(i + 1, s, f)
      <3>1. CASE cache'[s] = f /\ NoStore(i, s)'
        <4>1. CASE ~IsStore(1, s)
          BY <1>6, <1>8, <3>1, <4>1 DEF Held
        <4>2. CASE IsStore(1, s)
          <5>1. 1 \in DOMAIN down /\ 1 < i + 1 /\ down[1].frame = f
            BY <1>1, <1>7, <3>1, <4>2
          <5>2. ASSUME NEW l \in DOMAIN down, 1 < l, l < i + 1, IsStore(l, s) PROVE FALSE
            <6>1. l - 1 \in DOMAIN down' /\ l - 1 < i /\ IsStore(l - 1, s)'
              BY <1>1, <1>2, <1>3, <5>2
            <6> QED
              BY <3>1, <6>1 DEF NoStore
          <5> QED
            BY <4>2, <5>1, <5>2 DEF Held
        <4> QED
          BY <4>1, <4>2
      <3>2. ASSUME NEW j \in DOMAIN down', j < i, IsStore(j, s)', down'[j].frame = f,
                   \A l \in DOMAIN down' : j < l /\ l < i => ~IsStore(l, s)'
            PROVE  Held(i + 1, s, f)
        <4>1. j + 1 \in DOMAIN down /\ j + 1 < i + 1 /\ IsStore(j + 1, s) /\ down[j + 1].frame = f
          BY <1>1, <1>2, <3>2
        <4>2. ASSUME NEW l \in DOMAIN down, j + 1 < l, l < i + 1, IsStore(l, s) PROVE FALSE
          <5>1. l - 1 \in DOMAIN down' /\ l - 1 < i /\ j < l - 1 /\ IsStore(l - 1, s)'
            BY <1>1, <1>2, <1>3, <3>2, <4>2
          <5> QED
            BY <3>2, <5>1
        <4> QED
          BY <4>1, <4>2 DEF Held
      <3> QED
        BY <2>2, <3>1, <3>2 DEF Held
    <2> QED
      BY <2>1, <2>2
  <1> QED
    BY <1>4, <1>5, <1>9, <1>10

-----------------------------------------------------------------------------
(* The last message that sets a part of a key.                             *)

(* It stays the last when nothing else sets that part.                     *)
LEMMA EndsKept ==
  ASSUME NEW S, NEW R, NEW b, NEW R2, NEW b2, EndsRight(S, R, b),
         \A i \in S : i \in R => i \in R2, b => b2
  PROVE  EndsRight(S, R2, b2)
  BY DEF EndsRight

(* A message that comes after all others and is right.                     *)
LEMMA EndsLast ==
  ASSUME NEW n \in Nat, NEW S \in SUBSET (1 .. n), NEW R, NEW b, n \in S, n \in R
  PROVE  EndsRight(S, R, b)
  BY DEF EndsRight

(* The board handles the first message.                                    *)
LEMMA EndsTail ==
  ASSUME NEW n \in Nat, NEW S \in SUBSET (1 .. n), NEW S2 \in SUBSET (1 .. n - 1),
         NEW R, NEW R2, NEW b, NEW b2, EndsRight(S, R, b),
         \A i \in 1 .. n - 1 : i \in S2 <=> i + 1 \in S,
         \A i \in 1 .. n - 1 : i + 1 \in R => i \in R2,
         1 \in S /\ 1 \in R => b2,
         1 \notin S /\ b => b2
  PROVE  EndsRight(S2, R2, b2)
  <1>1. CASE S = {} /\ b
    BY <1>1 DEF EndsRight
  <1>2. ASSUME NEW i \in S, i \in R, \A j \in S : j <= i
        PROVE  EndsRight(S2, R2, b2)
    <2>1. CASE i = 1
      <3>1. S2 = {}
        BY <1>2, <2>1
      <3> QED
        BY <1>2, <2>1, <3>1 DEF EndsRight
    <2>2. CASE i # 1
      <3>1. i - 1 \in 1 .. n - 1 /\ (i - 1) + 1 = i
        BY <2>2
      <3>2. i - 1 \in S2 /\ i - 1 \in R2
        BY <1>2, <3>1
      <3>3. \A j \in S2 : j <= i - 1
        BY <1>2
      <3> QED
        BY <3>2, <3>3 DEF EndsRight
    <2> QED
      BY <2>1, <2>2
  <1> QED
    BY <1>1, <1>2 DEF EndsRight

-----------------------------------------------------------------------------
(* Who may send while the board is online.                                 *)
LEMMA OnlineHolder ==
  ASSUME Inv, OrderInv, Online
  PROVE  /\ conn # 0 /\ closedDev = 0
         /\ job.by # "free" => Alive(job.dev) /\ job.dev = link
         /\ run # "replay" => dev = link /\ dev # 0 /\ run = "forward"
         /\ FreeToSend => run # "replay"
  <1>1. conn # 0 /\ closedDev = 0
    BY DEF Online, Inv, GenerationsInOrder
  <1>2. run # "replay" => dev = link /\ dev # 0 /\ run = "forward"
    BY DEF Online, Inv, GenerationsInOrder
  <1>3. FreeToSend => run # "replay"
    BY DEF FreeToSend, Inv, HolderInOrder
  <1>4. job.by # "free" => job.dev = link
    BY <1>2 DEF Inv, HolderInOrder, Online
  <1> QED
    BY <1>1, <1>2, <1>3, <1>4 DEF Alive, Online

(* Nobody holds sendMu: there is nothing in hand.                          *)
LEMMA NothingInHand ==
  ASSUME Inv, FreeToSend
  PROVE  /\ DOMAIN job.todo = {}
         /\ \A s : ~StoreInHand(s)
         /\ \A k : ~StateInHand(k) /\ ~PlainInHand(k) /\ ~GlyphInHand(k) /\ ~ShowInHand(k)
  <1>1. DOMAIN job.todo = {}
    BY DEF FreeToSend, Inv, HolderInOrder
  <1> QED
    BY <1>1 DEF StoreInHand, StateInHand, PlainInHand, GlyphInHand, ShowInHand

(* A step that leaves the board, the messages in flight and what is        *)
(* remembered of a key alone leaves alone what the key will show.          *)
LEMMA KeySame ==
  ASSUME NEW k, UNCHANGED <<cache, bsheet, down, bkeys>>,
         keys'[k] = keys[k], glyphs'[k] = glyphs[k], pips'[k] = pips[k]
  PROVE  /\ ColorEnds(k)' <=> ColorEnds(k)
         /\ FaceEnds(k)' <=> FaceEnds(k)
         /\ PipEnds(k)' <=> PipEnds(k)
         /\ \A i : WillMiss(i, k)' <=> WillMiss(i, k)
  <1>1. /\ \A i, s : Empty(i, s)' <=> Empty(i, s)
        /\ \A i, s, f : Held(i, s, f)' <=> Held(i, s, f)
        /\ \A i : SheetBefore(i)' <=> SheetBefore(i)
    BY DEF Empty, Held, NoStore, SheetBefore, IsStore
  <1>2. \A i : /\ Paints(i, k)' <=> Paints(i, k)
               /\ WillMiss(i, k)' <=> WillMiss(i, k)
    BY <1>1 DEF Paints, WillMiss
  <1>3. ColorOf(k)' = ColorOf(k)
    BY DEF ColorOf
  <1>4. /\ ColorSets(k)' = ColorSets(k) /\ FaceSets(k)' = FaceSets(k)
        /\ PipSets(k)' = PipSets(k)
    BY <1>2 DEF ColorSets, FaceSets, PipSets
  <1>5. ColorRight(k)' = ColorRight(k)
    BY <1>1, <1>3 DEF ColorRight
  <1>6. FaceRight(k)' = FaceRight(k)
    BY <1>1 DEF FaceRight
  <1>7. PipRight(k)' = PipRight(k)
    BY <1>1 DEF PipRight
  <1> QED
    BY <1>2, <1>3, <1>4, <1>5, <1>6, <1>7 DEF ColorEnds, FaceEnds, PipEnds, EndsRight

(* A key whose color is remembered as before.                              *)
LEMMA ColorSame ==
  ASSUME NEW k, UNCHANGED <<cache, bsheet, down, bkeys>>, ColorOf(k)' = ColorOf(k)
  PROVE  ColorEnds(k)' <=> ColorEnds(k)
  <1>1. /\ \A i, s : Empty(i, s)' <=> Empty(i, s)
        /\ \A i, s, f : Held(i, s, f)' <=> Held(i, s, f)
    BY DEF Empty, Held, NoStore, IsStore
  <1>2. \A i : Paints(i, k)' <=> Paints(i, k)
    BY <1>1 DEF Paints
  <1>3. ColorSets(k)' = ColorSets(k)
    BY <1>2 DEF ColorSets
  <1>4. ColorRight(k)' = ColorRight(k)
    BY <1>1 DEF ColorRight
  <1> QED
    BY <1>3, <1>4 DEF ColorEnds, EndsRight

(* ... and what the cache will hold.                                       *)
LEMMA CacheSame ==
  ASSUME UNCHANGED <<cache, bsheet, down, bkeys>>
  PROVE  /\ \A i, s : Empty(i, s)' <=> Empty(i, s)
         /\ \A i, s, f : Held(i, s, f)' <=> Held(i, s, f)
         /\ \A i : (SheetBefore(i)' <=> SheetBefore(i)) /\ (NoShow(i)' <=> NoShow(i))
         /\ (Uncached' <=> Uncached) /\ (BoardDraws => BoardDraws') /\ End' = End
  BY DEF Empty, Held, NoStore, SheetBefore, NoShow, Uncached, BoardDraws, Drawing, IsStore, End

-----------------------------------------------------------------------------
(* Steps that leave the board, the messages in flight and the memory       *)
(* alone.                                                                  *)
LEMMA KeptPad ==
  ASSUME PadInv, UNCHANGED <<memory, board, down, reloads, fresh>>,
         TodoSays', closing' = "no" /\ ~Online' => closing = "no" /\ ~Online,
         Online' => /\ Online /\ (run' = "replay" => run = "replay")
                    /\ DOMAIN job'.todo = DOMAIN job.todo
                    /\ \A i \in DOMAIN job.todo : job'.todo[i] = job.todo[i]
                    /\ \A k \in Keys : Repair(k) => Repair(k)'
                    /\ Restoring => Restoring'
  PROVE  PadInv'
  <1> USE DEF PadInv
  <1>1. UNCHANGED <<keys, glyphs, frames, shown, pips, sheet, pin, bkeys, cache, bsheet, down>>
    BY DEF memory, pictures, board
  <1>2. BoardDraws' /\ CustomIsGlyph' /\ FreshKnown' /\ OfflinePristine'
    BY <1>1, CacheSame DEF CustomIsGlyph, FreshKnown, OfflinePristine, Pristine
  <1>3. ASSUME Online'
        PROVE  /\ CacheAgrees' /\ SheetAgrees' /\ CustomFirst'
               /\ \A k \in Keys : ColorOK(k)' /\ FaceOK(k)' /\ PipOK(k)'
    <2>1. /\ \A s : StoreInHand(s) => StoreInHand(s)'
          /\ \A k : /\ StateInHand(k) => StateInHand(k)'
                    /\ PlainInHand(k) => PlainInHand(k)'
                    /\ GlyphInHand(k) => GlyphInHand(k)'
                    /\ ShowInHand(k) => ShowInHand(k)'
      BY <1>1, <1>3 DEF StoreInHand, StateInHand, PlainInHand, GlyphInHand, ShowInHand
    <2>2. CacheAgrees'
      <3>1. \A s : Frame(s)' = Frame(s)
        BY <1>1 DEF Frame
      <3> QED
        BY <1>1, <1>3, <2>1, <3>1, CacheSame DEF OnlineAgrees, CacheAgrees
    <2>3. SheetAgrees'
      BY <1>1, <1>3, CacheSame DEF OnlineAgrees, SheetAgrees
    <2>4. CustomFirst'
      BY <1>1, <1>3, CacheSame DEF OnlineAgrees, CustomFirst
    <2>5. ASSUME NEW k \in Keys PROVE ColorOK(k)' /\ FaceOK(k)' /\ PipOK(k)'
      <3>1. /\ ColorEnds(k)' <=> ColorEnds(k)
            /\ FaceEnds(k)' <=> FaceEnds(k)
            /\ PipEnds(k)' <=> PipEnds(k)
        BY <1>1, KeySame
      <3>2. ColorSent(k)' <=> ColorSent(k)
        BY <1>1 DEF ColorSent
      <3>3. ColorOK(k) /\ FaceOK(k) /\ PipOK(k)
        BY <1>3 DEF OnlineAgrees
      <3>4. Repair(k) => Repair(k)'
        BY <1>3
      <3>5. ColorOK(k)'
        BY <1>1, <2>1, <3>1, <3>2, <3>3, <3>4 DEF ColorOK, Reused
      <3>6. FaceOK(k)'
        BY <1>1, <2>1, <3>1, <3>3, <3>4 DEF FaceOK, Reused
      <3>7. PipOK(k)'
        BY <1>1, <1>3, <2>1, <3>1, <3>3, <3>4 DEF PipOK, Reused
      <3> QED
        BY <3>5, <3>6, <3>7
    <2> QED
      BY <2>2, <2>3, <2>4, <2>5
  <1> QED
    BY <1>2, <1>3 DEF OnlineAgrees

(* What is in hand says what is remembered when less of it is left.        *)
LEMMA TodoSaysLess ==
  ASSUME Inv, TodoSays, UNCHANGED <<keys, glyphs, shown, pips>>,
         \A s \in Slots : frames'[s] = None <=> frames[s] = None,
         DOMAIN job'.todo \subseteq DOMAIN job.todo,
         \A i \in DOMAIN job'.todo : job'.todo[i] = job.todo[i] /\ job'.by = job.by
  PROVE  TodoSays'
  <1>1. ASSUME NEW i \in DOMAIN job'.todo, NEW m, m = job.todo[i]
        PROVE  SaysState(m)' /\ SaysGlyph(m)' /\ SaysShow(m)'
    <2>1. m \in Messages
      BY <1>1, JobParts DEF Inv, TypeInv
    <2>2. SaysState(m) /\ SaysGlyph(m) /\ SaysShow(m)
      BY <1>1 DEF TodoSays
    <2>3. SaysState(m)' /\ SaysGlyph(m)'
      BY <1>1, <2>2 DEF SaysState, SaysGlyph
    <2>4. SaysShow(m)'
      BY <2>1, <2>2, MessageParts DEF SaysShow
    <2> QED
      BY <2>3, <2>4
  <1> QED
    BY <1>1 DEF TodoSays

(* A repair is on its way when the messages are the same and every miss    *)
(* that is about the key stays.                                            *)
LEMMA RepairKept ==
  ASSUME NEW k, UNCHANGED <<shown, conn>>, \A i : WillMiss(i, k) => WillMiss(i, k)',
         DOMAIN down' = DOMAIN down,
         \A i \in DOMAIN up : k \in up[i] =>
           \/ \E j \in DOMAIN up' : k \in up'[j]
           \/ \E n \in DOMAIN misses' : k \in misses'[n].mask /\ misses'[n].dev = conn,
         \A n \in DOMAIN misses : k \in misses[n].mask /\ misses[n].dev = conn =>
           \E j \in DOMAIN misses' : misses'[j] = misses[n]
  PROVE  Repair(k) => Repair(k)'
  BY DEF Repair

(* The run goroutine outside of Connect, and Close.                        *)
LEMMA RunPad ==
  ASSUME Inv, OrderInv, PadInv, Open \/ Settle \/ GiveUp \/ Forward \/ Disconnect \/ Close
  PROVE  PadInv'
  <1>1. UNCHANGED <<memory, board, down, reloads, fresh, job, link, gen, restore>>
    BY DEF Open, Settle, GiveUp, Forward, Disconnect, Close, Idle, bounds, rout
  <1>2. TodoSays'
    BY <1>1, TodoSaysLess DEF PadInv, memory, pictures
  <1>3. CASE Open \/ Settle \/ GiveUp
    <2>1. dev = 0 /\ dev' = 0 /\ run # "replay" /\ run' # "replay" /\ closing' = closing
      BY <1>3 DEF Open, Settle, GiveUp, Idle, Inv, GenerationsInOrder, closers
    <2>2. ~Online /\ ~Online'
      BY <1>1, <2>1 DEF Online
    <2> QED
      BY <1>1, <1>2, <2>1, <2>2, KeptPad
  <1>4. CASE Disconnect
    <2>1. /\ run = "forward" /\ Gone(conn) /\ dev' = 0 /\ run' # "replay" /\ closing' = closing
          /\ closing = "no" => closedDev = 0
      BY <1>4 DEF Disconnect, Idle, Stop, Inv, GenerationsInOrder
    <2>2. closing = "no" => ~Online
      BY <2>1 DEF Online, Gone, Alive
    <2>3. ~Online'
      BY <1>1, <2>1 DEF Online
    <2> QED
      BY <1>1, <1>2, <2>1, <2>2, <2>3, KeptPad
  <1>5. CASE Close
    <2>1. closing' # "no"
      BY <1>5 DEF Close
    <2>2. ~Online'
      BY <2>1 DEF Online
    <2> QED
      BY <1>1, <1>2, <2>1, <2>2, KeptPad
  <1>6. CASE Forward
    <2>1. /\ run = "forward" /\ closing' = closing
          /\ \/ UNCHANGED <<run, dev, conn>>
             \/ closing # "no"
          /\ up # <<>> /\ up' = Tail(up)
          /\ misses' = Append(misses, [dev |-> conn, mask |-> Head(up)])
      BY <1>6 DEF Forward, Idle
    <2>2. closing = "no" => UNCHANGED <<run, dev, conn>>
      BY <2>1
    <2>3. closing' = "no" => (Online' <=> Online)
      BY <1>1, <2>1, <2>2 DEF Online
    <2>4. ASSUME NEW k \in Keys, closing = "no" PROVE Repair(k) => Repair(k)'
      <3>1. \A i : WillMiss(i, k)' <=> WillMiss(i, k)
        BY <1>1, KeySame DEF memory, pictures, board
      <3>2. ASSUME NEW i \in DOMAIN up, k \in up[i]
            PROVE  \/ \E j \in DOMAIN up' : k \in up'[j]
                   \/ \E n \in DOMAIN misses' : k \in misses'[n].mask /\ misses'[n].dev = conn
        <4>1. up \in Seq(SUBSET Keys) /\ misses \in Seq(Misses)
          BY DEF Inv, TypeInv, PadType, RoutineType, RunType
        <4>2. CASE i = 1
          <5>1. /\ Len(misses) + 1 \in DOMAIN misses'
                /\ misses'[Len(misses) + 1] = [dev |-> conn, mask |-> Head(up)]
                /\ Head(up) = up[1]
            BY <2>1, <4>1
          <5> QED
            BY <3>2, <4>2, <5>1
        <4>3. CASE i # 1
          <5>1. i - 1 \in DOMAIN up' /\ up'[i - 1] = up[i]
            BY <2>1, <3>2, <4>1, <4>3
          <5> QED
            BY <3>2, <5>1
        <4> QED
          BY <4>2, <4>3
      <3>3. ASSUME NEW n \in DOMAIN misses
            PROVE  \E j \in DOMAIN misses' : misses'[j] = misses[n]
        <4>1. misses \in Seq(Misses)
          BY DEF Inv, TypeInv, RoutineType, RunType
        <4>2. n \in DOMAIN misses' /\ misses'[n] = misses[n]
          BY <2>1, <4>1
        <4> QED
          BY <4>2
      <3>4. UNCHANGED <<shown, conn, down>>
        BY <1>1, <2>2, <2>4 DEF memory, pictures
      <3> QED
        BY <3>1, <3>2, <3>3, <3>4, RepairKept
    <2>5. closing = "no" /\ Restoring => Restoring'
      BY <1>1, <2>2 DEF Restoring
    <2>6. Online' => closing = "no" /\ Online
      BY <2>1, <2>3 DEF Online
    <2> QED
      BY <1>1, <1>2, <2>1, <2>2, <2>3, <2>4, <2>5, <2>6, KeptPad
  <1> QED
    BY <1>3, <1>4, <1>5, <1>6

(* The end of a send, or of a replay.                                      *)
LEMMA UnlockPad ==
  ASSUME Inv, OrderInv, PadInv, Unlock
  PROVE  PadInv'
  <1>1. /\ UNCHANGED <<memory, board, down, reloads, fresh, link, conn, misses, up, closing>>
        /\ DOMAIN job.todo = {} /\ DOMAIN job'.todo = {}
    BY DEF Unlock, bounds, closers, Nobody, Nothing
  <1>2. TodoSays'
    BY <1>1, TodoSaysLess DEF PadInv, memory, pictures
  <1>3. \A k : Repair(k) => Repair(k)'
    <2> TAKE k
    <2>1. \A i : WillMiss(i, k)' <=> WillMiss(i, k)
      BY <1>1, KeySame DEF memory, pictures, board
    <2> QED
      BY <1>1, <2>1 DEF Repair, memory, pictures
  <1>4. CASE job.by = "connect"
    <2>1. /\ run = "replay" /\ run' = "forward" /\ dev' = conn /\ gen' = gen + 1
          /\ restore' = [restore EXCEPT ![gen + 1] =
                           [pc |-> "start", dev |-> job.dev, left |-> {}]]
      BY <1>4 DEF Unlock, Inv, HolderInOrder
    <2>2. gen + 1 \in Sessions
      BY <2>1, ReconnectingAssumption
         DEF Inv, TypeInv, RoutineType, RunType, GenerationsInOrder, Devices, Sessions
    <2>3. Restoring'
      BY <2>1, <2>2 DEF Restoring, Inv, TypeInv, RoutineType, RunType
    <2>4. Online' <=> Online
      BY <1>1, <2>1 DEF Online
    <2> QED
      BY <1>1, <1>2, <1>3, <2>1, <2>3, <2>4, KeptPad
  <1>5. CASE job.by # "connect"
    <2>1. UNCHANGED <<gen, dev, run, restore>>
      BY <1>5 DEF Unlock
    <2>2. (Online' <=> Online) /\ (Restoring' <=> Restoring)
      BY <1>1, <2>1 DEF Online, Restoring
    <2> QED
      BY <1>1, <1>2, <1>3, <2>1, <2>2, KeptPad
  <1> QED
    BY <1>4, <1>5

(* A store that is marked as written keeps the frame on record.            *)
LEMMA WrittenFrames ==
  ASSUME Inv, NEW i, NextWrite(i), Written(i)
  PROVE  \A s \in Slots : Frame(s)' = Frame(s) /\ (frames'[s] = None <=> frames[s] = None)
  <1>1. PICK m \in Messages : m = job.todo[i]
    BY JobParts DEF NextWrite, Inv, TypeInv
  <1>2. CASE m.t # "store"
    BY <1>1, <1>2 DEF Written, Frame
  <1>3. CASE m.t = "store"
    <2>1. /\ m.slot \in Slots /\ frames[m.slot] # None /\ frames[m.slot] \in FrameRecs
          /\ job.gen \in Devices
      BY <1>1, <1>3, JobParts, MessageParts
         DEF NextWrite, Inv, StoresOnRecord, TypeInv, MemoryType
    <2>2. /\ frames' = [frames EXCEPT ![m.slot] = [frames[m.slot] EXCEPT !.gen = job.gen]]
          /\ frames \in [Slots -> FrameRecs \union {None}]
      BY <1>1, <1>3 DEF Written, Inv, TypeInv, MemoryType
    <2>3. PICK f \in FrameRecs : f = [frames[m.slot] EXCEPT !.gen = job.gen]
      BY <2>1 DEF FrameRecs
    <2>4. f # None /\ f.color = frames[m.slot].color /\ f.glyph = frames[m.slot].glyph
      BY <2>1, <2>3, NoneAssumption DEF FrameRecs
    <2>5. \A s \in Slots : frames'[s] = IF s = m.slot THEN f ELSE frames[s]
      BY <2>1, <2>2, <2>3
    <2> QED
      BY <2>1, <2>4, <2>5 DEF Frame
  <1> QED
    BY <1>2, <1>3

(* A write to a device that is gone, which a board that is online is not.  *)
LEMMA LostPad ==
  ASSUME Inv, OrderInv, PadInv, WriteLost \/ WriteFails
  PROVE  PadInv'
  <1>1. UNCHANGED <<keys, glyphs, shown, pips, board, down, fresh, dev, run, conn, link, closing>>
    BY DEF WriteLost, WriteFails, Written, memory, pictures, rout, closers
  <1>2. /\ job'.by = job.by /\ DOMAIN job'.todo \subseteq DOMAIN job.todo
        /\ \A j \in DOMAIN job'.todo : job'.todo[j] = job.todo[j]
    <2>1. PICK i \in Positions :
            \/ Written(i)
            \/ job' = [job EXCEPT !.err = TRUE,
                         !.todo = IF job.by = "connect"
                           THEN [j \in DOMAIN job.todo \ {i} |-> job.todo[j]] ELSE Nothing]
      BY DEF WriteLost, WriteFails
    <2>2. job'.by = job.by
      BY <2>1 DEF Written, Inv, TypeInv, RoutineType, RunType, Jobs
    <2>3. \/ job'.todo = [j \in DOMAIN job.todo \ {i} |-> job.todo[j]]
          \/ job'.todo = Nothing
      BY <2>1 DEF Written, Inv, TypeInv, RoutineType, RunType, Jobs
    <2> QED
      BY <2>2, <2>3 DEF Nothing
  <1>3. \A s \in Slots : frames'[s] = None <=> frames[s] = None
    BY WrittenFrames DEF WriteLost, WriteFails, memory, pictures
  <1>4. ~Online
    <2>1. job.by # "free" /\ ~Alive(job.dev)
      BY DEF WriteLost, WriteFails, NextWrite, Alive, Inv, HolderInOrder
    <2> QED
      BY <2>1, OnlineHolder
  <1>5. ~Online'
    BY <1>1, <1>4 DEF Online
  <1>6. TodoSays'
    BY <1>1, <1>2, <1>3, TodoSaysLess DEF PadInv
  <1>7. BoardDraws' /\ CustomIsGlyph' /\ FreshKnown' /\ OfflinePristine'
    BY <1>1, <1>4, CacheSame
       DEF PadInv, CustomIsGlyph, FreshKnown, OfflinePristine, Pristine, board
  <1> QED
    BY <1>5, <1>6, <1>7 DEF PadInv, OnlineAgrees

(* A key of a board that was just powered on.                              *)
LEMMA PoweredOn ==
  ASSUME PowerOn
  PROVE  /\ BoardDraws' /\ Uncached' /\ bsheet' = FALSE
         /\ \A s \in Slots : cache'[s] = None
         /\ \A k \in Keys : bkeys'[k] = PowerOnKey
  BY DEF PowerOn, BoardDraws, Uncached, Drawing, PowerOnKey, Plain

(* The cable is pulled, or plugged in again.                               *)
LEMMA CablePad ==
  ASSUME Inv, OrderInv, PadInv, Unplug \/ Plug
  PROVE  PadInv'
  <1>1. UNCHANGED <<memory, dev, run, conn, closing, job, gen, restore, up, misses, reloads>>
    BY DEF Unplug, Plug, rout, closers, bounds
  <1>2. TodoSays'
    BY <1>1, TodoSaysLess DEF PadInv, memory, pictures
  <1>3. CASE Plug
    <2>1. conn # session + 1 /\ link = 0 /\ link' = session + 1
      BY <1>3, ReconnectingAssumption
         DEF Plug, Inv, GenerationsInOrder, TypeInv, RoutineType, RunType, PadType, Devices
    <2>2. ~Online /\ ~Online' /\ UNCHANGED <<board, down, fresh>>
      BY <1>1, <1>3, <2>1 DEF Online, Plug
    <2> QED
      BY <1>1, <1>2, <2>2, KeptPad
  <1>4. CASE Unplug
    <2>1. link' = 0 /\ down' = <<>> /\ fresh' = {} /\ PowerOn
      BY <1>4 DEF Unplug
    <2>2. ~Online'
      BY <2>1 DEF Online
    <2>3. Pristine'
      BY <2>1 DEF PowerOn, Pristine
    <2>4. BoardDraws' /\ CustomIsGlyph' /\ FreshKnown'
      BY <1>1, <2>1, PoweredOn DEF PadInv, CustomIsGlyph, FreshKnown, memory, pictures
    <2> QED
      BY <1>2, <2>2, <2>3, <2>4 DEF PadInv, OfflinePristine, OnlineAgrees
  <1> QED
    BY <1>3, <1>4

(* A code reload: the RAM is lost, and the first n messages in flight.     *)
LEMMA DropParts ==
  ASSUME down \in Seq(Messages), NEW n \in 0 .. Len(down),
         down' = SubSeq(down, n + 1, Len(down))
  PROVE  /\ DOMAIN down = 1 .. Len(down) /\ Len(down) \in Nat
         /\ DOMAIN down' = 1 .. Len(down) - n /\ Len(down') = Len(down) - n
         /\ \A i \in 1 .. Len(down) - n : down'[i] = down[i + n]
  OBVIOUS

(* A code reload wipes the board and makes every key unsent again.         *)
LEMMA ReloadPad ==
  ASSUME Inv, OrderInv, PadInv, Reload
  PROVE  PadInv'
  <1>1. /\ UNCHANGED <<memory, dev, run, conn, closing, job, link>>
        /\ fresh' = {} /\ PowerOn /\ reloads' = reloads + 1 /\ reloads \in Nat
        /\ down \in Seq(Messages)
    BY DEF Reload, rout, closers, Inv, TypeInv, BoundsType, PadType
  <1>2. reloads' # 0
    BY <1>1
  <1>3. PICK n \in 0 .. Len(down) : down' = SubSeq(down, n + 1, Len(down))
    BY DEF Reload
  <1>4. /\ DOMAIN down = 1 .. Len(down) /\ Len(down) \in Nat
        /\ DOMAIN down' = 1 .. Len(down) - n /\ Len(down') = Len(down) - n
        /\ \A i \in 1 .. Len(down) - n : down'[i] = down[i + n]
    BY <1>1, <1>3, DropParts
  <1>5. TodoSays'
    BY <1>1, TodoSaysLess DEF PadInv, memory, pictures
  <1>6. BoardDraws' /\ CustomIsGlyph' /\ FreshKnown' /\ Uncached'
    BY <1>1, PoweredOn DEF PadInv, CustomIsGlyph, FreshKnown, memory, pictures
  <1>7. OfflinePristine'
    <2>1. Online' <=> Online
      BY <1>1 DEF Online
    <2>2. Pristine => Pristine'
      BY <1>1, <1>3 DEF Pristine, PowerOn
    <2> QED
      BY <1>1, <2>1, <2>2 DEF PadInv, OfflinePristine
  <1>8. ASSUME Online' PROVE CacheAgrees' /\ CustomFirst'
    <2>1. CacheAgrees /\ CustomFirst
      BY <1>1, <1>8 DEF Online, PadInv, OnlineAgrees
    <2>2. \A i \in DOMAIN down' : i + n \in DOMAIN down /\ down'[i] = down[i + n]
      BY <1>4
    <2>3. CacheAgrees'
      <3> SUFFICES ASSUME NEW s \in Slots, ~ Empty(End, s)'
                   PROVE  (frames[s] # None /\ (Held(End, s, Frame(s)) \/ StoreInHand(s)))'
        BY DEF CacheAgrees
      <3>1. Frame(s)' = Frame(s) /\ frames'[s] = frames[s] /\ (StoreInHand(s)' <=> StoreInHand(s))
        BY <1>1 DEF Frame, StoreInHand, memory, pictures
      <3>2. PICK i \in DOMAIN down' : IsStore(i, s)'
        BY <1>1, PoweredOn DEF Empty, NoStore
      <3>3. i + n \in DOMAIN down /\ IsStore(i + n, s) /\ i + n < End
        BY <1>4, <2>2, <3>2 DEF IsStore, End
      <3>4. ~ Empty(End, s)
        BY <3>3 DEF Empty, NoStore
      <3>5. frames[s] # None /\ (Held(End, s, Frame(s)) \/ StoreInHand(s))
        BY <2>1, <3>4 DEF CacheAgrees
      <3>6. ASSUME Held(End, s, Frame(s)) PROVE Held(End, s, Frame(s))'
        <4>1. PICK j \in DOMAIN down :
                /\ j < End /\ IsStore(j, s) /\ down[j].frame = Frame(s)
                /\ \A l \in DOMAIN down : j < l /\ l < End => ~IsStore(l, s)
          BY <3>3, <3>6 DEF Held, NoStore
        <4>2. i + n <= j
          BY <1>4, <3>3, <4>1
        <4>3. j - n \in DOMAIN down' /\ (j - n) + n = j /\ i \in Nat
          BY <1>4, <4>2
        <4>4. IsStore(j - n, s)' /\ down'[j - n].frame = Frame(s)
          BY <2>2, <4>1, <4>3 DEF IsStore
        <4>5. \A l \in DOMAIN down' : j - n < l => ~IsStore(l, s)'
          <5> SUFFICES ASSUME NEW l \in DOMAIN down', j - n < l, IsStore(l, s)' PROVE FALSE
            OBVIOUS
          <5>1. l + n \in DOMAIN down /\ j < l + n /\ l + n < End /\ IsStore(l + n, s)
            BY <1>4, <2>2 DEF IsStore, End
          <5> QED
            BY <4>1, <5>1
        <4>6. j - n < End'
          BY <1>4, <4>3 DEF End
        <4> QED
          BY <3>1, <4>3, <4>4, <4>5, <4>6 DEF Held
      <3> QED
        BY <3>1, <3>5, <3>6
    <2>4. CustomFirst'
      <3>1. \A i \in DOMAIN down' : \A j \in DOMAIN down' :
               j < i => j + n \in DOMAIN down /\ j + n < i + n
        BY <1>4
      <3>2. \A i \in DOMAIN down' : NoShow(i + n) => NoShow(i)'
        BY <2>2, <3>1 DEF NoShow
      <3>3. NoShow(End) => NoShow(End)'
        <4>1. \A j \in DOMAIN down' : j + n < End
          BY <1>4 DEF End
        <4> QED
          BY <2>2, <4>1 DEF NoShow
      <3> QED
        BY <1>1, <1>6, <2>1, <2>2, <3>2, <3>3 DEF CustomFirst
    <2> QED
      BY <2>3, <2>4
  <1>9. Online' => OnlineAgrees'
    BY <1>1, <1>2, <1>8 DEF OnlineAgrees, SheetAgrees, ColorOK, FaceOK, PipOK
  <1> QED
    BY <1>5, <1>6, <1>7, <1>9 DEF PadInv, OnlineAgrees

(* The place of a key in the replay.                                       *)
LEMMA ReplayPlaces ==
  ASSUME NEW k \in Keys
  PROVE  /\ 2 * k + 1 \in Positions /\ 2 * k + 2 \in Positions
         /\ ((2 * k + 1) - 1) \div 2 = k /\ (2 * k + 1) % 2 = 1
         /\ ((2 * k + 2) - 1) \div 2 = k /\ (2 * k + 2) % 2 = 0
  BY PadAssumption DEF Keys, Positions

(* A replay: the board is as it was at power-on, and every key is in hand. *)
LEMMA ConnectPad ==
  ASSUME Inv, OrderInv, PadInv, Connect
  PROVE  PadInv'
  <1>1. /\ run = "lock" /\ run' = "replay" /\ dev = 0 /\ job'.by = "connect"
        /\ DOMAIN job'.todo = ReplayAt /\ \A i \in ReplayAt : job'.todo[i] = ReplayMsg(i)
        /\ fresh' = IF conn = link THEN {k \in Keys : keys[k] # None} ELSE fresh
        /\ UNCHANGED <<keys, glyphs, frames, shown, pips, sheet, board, dev, conn, closing,
                       link, down, reloads>>
    BY DEF Connect, Idle, Inv, GenerationsInOrder, memory, pictures, closers, bounds
  <1>2. ~Online
    BY <1>1 DEF Online
  <1>3. \A i \in ReplayAt : i = 0 \/ (keys[(i - 1) \div 2] # None)
    BY DEF ReplayAt
  <1>4. TodoSays'
    <2> SUFFICES ASSUME NEW i \in ReplayAt, NEW m, m = ReplayMsg(i)
                 PROVE  SaysState(m)' /\ SaysGlyph(m)' /\ SaysShow(m)'
      BY <1>1 DEF TodoSays
    <2>1. CASE i = 0
      BY <2>1 DEF ReplayMsg, SaysState, SaysGlyph, SaysShow
    <2>2. CASE i # 0 /\ i % 2 = 1
      BY <1>1, <1>3, <2>2 DEF ReplayMsg, SaysState, SaysGlyph, SaysShow
    <2>3. CASE i # 0 /\ i % 2 # 1
      BY <1>1, <1>3, <2>3 DEF ReplayMsg, SaysState, SaysGlyph, SaysShow
    <2> QED
      BY <2>1, <2>2, <2>3
  <1>5. BoardDraws' /\ CustomIsGlyph'
    BY <1>1, CacheSame DEF PadInv, CustomIsGlyph, board
  <1>6. FreshKnown' /\ (closing' = "no" => Pristine')
    BY <1>1, <1>2 DEF PadInv, FreshKnown, OfflinePristine, Pristine, board
  <1>7. ASSUME Online'
        PROVE  /\ CacheAgrees' /\ SheetAgrees' /\ CustomFirst'
               /\ \A k \in Keys : ColorOK(k)' /\ FaceOK(k)' /\ PipOK(k)'
    <2>1. /\ down' = <<>> /\ bkeys' = [k \in Keys |-> PowerOnKey]
          /\ cache' = [s \in Slots |-> None] /\ bsheet' = FALSE
          /\ fresh' = {k \in Keys : keys[k] # None}
      BY <1>1, <1>6, <1>7 DEF Online, Pristine
    <2>2. DOMAIN down' = {}
      BY <2>1
    <2>3. CacheAgrees'
      BY <2>1, <2>2 DEF CacheAgrees, Empty, NoStore
    <2>4. SheetAgrees'
      <3>1. sheet => 0 \in ReplayAt /\ ReplayMsg(0).t = "sheet"
        BY PadAssumption DEF ReplayAt, ReplayMsg, Positions
      <3> QED
        BY <1>1, <3>1 DEF SheetAgrees
    <2>5. CustomFirst'
      BY <2>1, <2>2 DEF CustomFirst, NoShow, Uncached, PowerOnKey
    <2>6. ASSUME NEW k \in Keys PROVE ColorOK(k)' /\ FaceOK(k)' /\ PipOK(k)'
      <3>1. CASE keys[k] = None
        <4>1. ColorSets(k)' = {} /\ k \notin fresh'
          BY <2>1, <2>2, <3>1 DEF ColorSets
        <4>2. (bkeys[k].color = ColorOf(k))'
          BY <1>1, <2>1, <3>1 DEF ColorOf, PowerOnKey
        <4>3. ColorEnds(k)'
          BY <4>1, <4>2 DEF ColorEnds, EndsRight
        <4> QED
          BY <4>1, <4>3 DEF ColorOK, FaceOK, PipOK
      <3>2. CASE keys[k] # None
        <4> DEFINE c == 2 * k + 2
                   f == 2 * k + 1
        <4>1. /\ c \in ReplayAt /\ c # 0
              /\ ReplayMsg(c) = [t |-> "key", key |-> k, color |-> keys[k].color,
                                 custom |-> keys[k].custom]
          BY <3>2, ReplayPlaces DEF ReplayAt, ReplayMsg, Keys
        <4>2. glyphs[k] # None => f \in ReplayAt /\ f # 0
                 /\ ReplayMsg(f) = [t |-> "glyph", key |-> k, glyph |-> glyphs[k]]
          BY <3>2, ReplayPlaces DEF ReplayAt, ReplayMsg, Keys
        <4> HIDE DEF c, f
        <4>3. StateInHand(k)'
          BY <1>1, <4>1 DEF StateInHand, IsState
        <4>4. glyphs[k] # None => GlyphInHand(k)'
          BY <1>1, <4>2 DEF GlyphInHand, IsGlyph
        <4>5. glyphs[k] = None => ~keys[k].custom
          BY <3>2 DEF PadInv, CustomIsGlyph
        <4>6. glyphs[k] = None => PlainInHand(k)'
          BY <1>1, <4>1, <4>5 DEF PlainInHand, IsState
        <4>7. Restoring'
          BY <1>1 DEF Restoring
        <4>8. pips[k] = 0 \/ pips[k] > 0
          BY DEF Inv, TypeInv, MemoryType, Counts
        <4>9. ColorOK(k)' /\ FaceOK(k)'
          BY <4>3, <4>4, <4>6 DEF ColorOK, FaceOK
        <4>10. PipOK(k)'
          BY <1>1, <4>3, <4>7, <4>8 DEF PipOK
        <4> QED
          BY <4>9, <4>10
      <3> QED
        BY <3>1, <3>2
    <2> QED
      BY <2>3, <2>4, <2>5, <2>6
  <1> QED
    BY <1>4, <1>5, <1>6, <1>7 DEF PadInv, OfflinePristine, OnlineAgrees

-----------------------------------------------------------------------------
(* Steps that take sendMu: a call, a restore, the answer to a miss.        *)

(* What the new holder has to write.                                       *)
LEMMA HoldTodo ==
  ASSUME NEW by, by # "connect", NEW todo, Hold(by, todo)
  PROVE  /\ \A i \in DOMAIN job'.todo :
              i \in DOMAIN todo /\ job'.todo[i] = todo[i] /\ job'.by # "connect"
         /\ job'.by # "connect"
  <1>1. \/ job' = Nobody
        \/ job' = [by |-> by, dev |-> dev, gen |-> gen, err |-> FALSE, todo |-> todo]
    BY DEF Hold
  <1> QED
    BY <1>1 DEF Nobody, Nothing

(* What the holder of sendMu took is what it has to write.                 *)
LEMMA HoldOnline ==
  ASSUME Inv, OrderInv, Online, FreeToSend, NEW by, NEW todo, Hold(by, todo),
         NEW i \in DOMAIN todo
  PROVE  i \in DOMAIN job'.todo /\ job'.todo[i] = todo[i]
  <1>1. dev # 0
    BY OnlineHolder
  <1> QED
    BY <1>1 DEF Hold

(* A call that takes sendMu while a board is online: the parts of PadInv that *)
(* it leaves alone.                                                        *)
LEMMA TakePad ==
  ASSUME Inv, OrderInv, PadInv, FreeToSend,
         UNCHANGED <<board, down, reloads, run, conn, closing, link, dev>>,
         TodoSays', CustomIsGlyph', FreshKnown',
         Online => /\ CacheAgrees' /\ SheetAgrees'
                   /\ \A k \in Keys : ColorOK(k)' /\ FaceOK(k)' /\ PipOK(k)'
  PROVE  PadInv'
  <1>1. Online' <=> Online
    BY DEF Online
  <1>2. UNCHANGED <<bkeys, cache, bsheet>>
    BY DEF board
  <1>3. BoardDraws' /\ OfflinePristine'
    BY <1>1, <1>2, CacheSame DEF PadInv, OfflinePristine, Pristine
  <1>4. CustomFirst => CustomFirst'
    BY <1>2, CacheSame DEF CustomFirst
  <1> QED
    BY <1>1, <1>3, <1>4 DEF PadInv, OnlineAgrees

(* A key that the step says nothing about.                                 *)
LEMMA KeyKept ==
  ASSUME Inv, FreeToSend, UNCHANGED <<board, down, reloads>>,
         NEW k \in Keys, ColorOK(k), FaceOK(k), PipOK(k),
         keys'[k] = keys[k], glyphs'[k] = glyphs[k], shown'[k] = shown[k], pips'[k] = pips[k],
         k \in fresh' => k \in fresh, Reused(k) => Reused(k)',
         Repair(k) => Repair(k)' \/ ShowInHand(k)',
         Restoring => Restoring' \/ ~(pips[k] > 0) \/ ShowInHand(k)'
  PROVE  ColorOK(k)' /\ FaceOK(k)' /\ PipOK(k)'
  <1>1. UNCHANGED <<bkeys, cache, bsheet>>
    BY DEF board
  <1>2. /\ ColorEnds(k)' <=> ColorEnds(k)
        /\ FaceEnds(k)' <=> FaceEnds(k)
        /\ PipEnds(k)' <=> PipEnds(k)
    BY <1>1, KeySame
  <1>3. ColorSent(k)' <=> ColorSent(k)
    BY DEF ColorSent
  <1>4. ~StateInHand(k) /\ ~PlainInHand(k) /\ ~GlyphInHand(k) /\ ~ShowInHand(k)
    BY NothingInHand
  <1>5. ColorOK(k)'
    BY <1>2, <1>3, <1>4 DEF ColorOK
  <1>6. FaceOK(k)'
    BY <1>2, <1>4 DEF FaceOK
  <1>7. PipOK(k)'
    BY <1>2, <1>4 DEF PipOK
  <1> QED
    BY <1>5, <1>6, <1>7

(* A repair stays on its way when nothing is lost.                         *)
LEMMA RepairSame ==
  ASSUME NEW k, UNCHANGED <<board, down, conn, up, misses>>,
         keys'[k] = keys[k], glyphs'[k] = glyphs[k], shown'[k] = shown[k], pips'[k] = pips[k]
  PROVE  Repair(k) => Repair(k)'
  <1>1. \A i : WillMiss(i, k)' <=> WillMiss(i, k)
    BY KeySame DEF board
  <1> QED
    BY <1>1 DEF Repair

(* The cache agrees with frames that are the same, but for those in hand.  *)
LEMMA CacheKept ==
  ASSUME Inv, FreeToSend, CacheAgrees, UNCHANGED <<board, down>>,
         \A s \in Slots : \/ frames'[s] # None /\ StoreInHand(s)'
                          \/ Frame(s)' = Frame(s) /\ (frames'[s] = None <=> frames[s] = None)
  PROVE  CacheAgrees'
  <1>1. UNCHANGED <<bkeys, cache, bsheet>>
    BY DEF board
  <1> SUFFICES ASSUME NEW s \in Slots
               PROVE  (\/ Empty(End, s)
                       \/ frames[s] # None /\ (Held(End, s, Frame(s)) \/ StoreInHand(s)))'
    BY DEF CacheAgrees
  <1>2. ~StoreInHand(s)
    BY NothingInHand
  <1>3. Empty(End, s) \/ (frames[s] # None /\ Held(End, s, Frame(s)))
    BY <1>2 DEF CacheAgrees
  <1>4. Frame(s)' = Frame(s) => (Held(End, s, Frame(s)) => Held(End, s, Frame(s))')
    BY <1>1, CacheSame
  <1> QED
    BY <1>1, <1>3, <1>4, CacheSame

(* The pip sheet stays where it is under a call that does not send it.     *)
LEMMA SheetKept ==
  ASSUME Inv, FreeToSend, SheetAgrees, UNCHANGED <<board, down, sheet, reloads>>
  PROVE  SheetAgrees'
  <1>1. ~ \E i \in DOMAIN job.todo : job.todo[i].t = "sheet"
    BY NothingInHand
  <1>2. SheetBefore(End)' <=> SheetBefore(End)
    BY CacheSame DEF board
  <1> QED
    BY <1>1, <1>2 DEF SheetAgrees

-----------------------------------------------------------------------------
(* The sending methods.                                                    *)

(* SendKeyState, of a built-in Emoji ID.                                   *)
LEMMA SendKeyStatePad ==
  ASSUME Inv, OrderInv, PadInv, NEW k \in Keys, NEW ks \in KeyStates, ~ks.custom,
         CallSendKeyState(k, ks)
  PROVE  PadInv'
  <1> DEFINE m == [t |-> "key", key |-> k, color |-> ks.color, custom |-> ks.custom]
             todo == [i \in {0} |-> m]
  <1>1. /\ FreeToSend /\ Hold("state", todo) /\ fresh' = fresh \union {k}
        /\ UNCHANGED <<frames, sheet, dev, gen, run, conn, misses, restore, closing, link,
                       board, down, up, reloads>>
    BY DEF CallSendKeyState, CanCall, rout, closers
  <1>2. /\ keys' = [keys EXCEPT ![k] = ks] /\ glyphs' = [glyphs EXCEPT ![k] = None]
        /\ shown' = [shown EXCEPT ![k] = None] /\ pips' = [pips EXCEPT ![k] = 0]
    BY DEF CallSendKeyState, ForgetShown, KeptGlyph
  <1>3. /\ keys'[k] = ks /\ ks # None /\ glyphs'[k] = None /\ shown'[k] = None /\ pips'[k] = 0
        /\ \A j \in Keys : j # k => /\ keys'[j] = keys[j] /\ glyphs'[j] = glyphs[j]
                                    /\ shown'[j] = shown[j] /\ pips'[j] = pips[j]
    <2>1. ks # None
      BY NoneAssumption
    <2>2. /\ DOMAIN keys = Keys /\ DOMAIN glyphs = Keys
          /\ DOMAIN shown = Keys /\ DOMAIN pips = Keys
      BY DEF Inv, TypeInv, MemoryType, Counts
    <2> QED
      BY <1>2, <2>1, <2>2
  <1>4. todo[0] = m /\ DOMAIN todo = {0} /\ m.t = "key" /\ m.key = k /\ ~m.custom
        /\ m.color = ks.color /\ m.custom = ks.custom
    OBVIOUS
  <1> HIDE DEF m, todo
  <1>5. \A i \in DOMAIN job'.todo : job'.todo[i] = m
    BY <1>1, <1>4, HoldTodo
  <1>6. TodoSays'
    BY <1>3, <1>4, <1>5 DEF TodoSays, SaysState, SaysGlyph, SaysShow
  <1>7. CustomIsGlyph' /\ FreshKnown'
    BY <1>1, <1>3 DEF PadInv, CustomIsGlyph, FreshKnown, Inv, TypeInv, BoundsType
  <1>8. ASSUME Online
        PROVE  /\ CacheAgrees' /\ SheetAgrees'
               /\ \A j \in Keys : ColorOK(j)' /\ FaceOK(j)' /\ PipOK(j)'
    <2>1. OnlineAgrees
      BY DEF PadInv
    <2>2. CacheAgrees' /\ SheetAgrees'
      BY <1>1, <1>8, <2>1, CacheKept, SheetKept DEF OnlineAgrees, Frame
    <2>3. 0 \in DOMAIN job'.todo /\ job'.todo[0] = m
      BY <1>1, <1>4, <1>8, HoldOnline
    <2>4. StateInHand(k)' /\ PlainInHand(k)'
      BY <1>4, <2>3 DEF StateInHand, PlainInHand, IsState
    <2>5. ColorOK(k)' /\ FaceOK(k)' /\ PipOK(k)'
      BY <1>3, <2>4 DEF ColorOK, FaceOK, PipOK
    <2>6. ASSUME NEW j \in Keys, j # k PROVE ColorOK(j)' /\ FaceOK(j)' /\ PipOK(j)'
      <3>1. Repair(j) => Repair(j)'
        BY <1>1, <1>3, <2>6, RepairSame
      <3>2. Restoring' <=> Restoring
        BY <1>1 DEF Restoring
      <3>3. j \in fresh' => j \in fresh
        BY <1>1, <2>6
      <3>4. Reused(j) => Reused(j)'
        BY <2>6 DEF CallSendKeyState, Reused, Inv, TypeInv, MemoryType
      <3> QED
        BY <1>1, <1>3, <1>8, <2>1, <2>6, <3>1, <3>2, <3>3, <3>4, KeyKept DEF OnlineAgrees
    <2> QED
      BY <2>2, <2>5, <2>6
  <1> QED
    BY <1>1, <1>6, <1>7, <1>8, TakePad

(* SendCustomGlyph.                                                        *)
LEMMA SendCustomGlyphPad ==
  ASSUME Inv, OrderInv, PadInv, NEW k \in Keys, NEW g \in Glyphs, CallSendCustomGlyph(k, g)
  PROVE  PadInv'
  <1> DEFINE m == [t |-> "glyph", key |-> k, glyph |-> g]
             todo == [i \in {0} |-> m]
             ks == [color |-> ColorOf(k), custom |-> TRUE]
  <1>1. /\ FreeToSend /\ Hold("state", todo) /\ fresh' = fresh \union {k}
        /\ UNCHANGED <<frames, sheet, dev, gen, run, conn, misses, restore, closing, link,
                       board, down, up, reloads>>
    BY DEF CallSendCustomGlyph, CanCall, rout, closers
  <1>2. g # None /\ ColorOf(k) \in Colors
    BY PadAssumption DEF ColorOf, Inv, TypeInv, MemoryType, KeyStates
  <1>3. ks \in KeyStates
    BY <1>2 DEF KeyStates
  <1>4. /\ keys' = [keys EXCEPT ![k] = ks] /\ glyphs' = [glyphs EXCEPT ![k] = g]
        /\ shown' = [shown EXCEPT ![k] = None] /\ pips' = [pips EXCEPT ![k] = 0]
    BY <1>2 DEF CallSendCustomGlyph, ForgetShown, KeptGlyph, ColorOf
  <1>5. ks.custom /\ ks.color = ColorOf(k)
    OBVIOUS
  <1>6. todo[0] = m /\ DOMAIN todo = {0} /\ m.t = "glyph" /\ m.key = k /\ m.glyph = g
    OBVIOUS
  <1> HIDE DEF m, todo, ks
  <1>7. /\ keys'[k] = ks /\ ks # None /\ glyphs'[k] = g /\ shown'[k] = None /\ pips'[k] = 0
        /\ \A j \in Keys : j # k => /\ keys'[j] = keys[j] /\ glyphs'[j] = glyphs[j]
                                    /\ shown'[j] = shown[j] /\ pips'[j] = pips[j]
    <2>1. ks # None
      BY <1>3, NoneAssumption
    <2>2. /\ DOMAIN keys = Keys /\ DOMAIN glyphs = Keys
          /\ DOMAIN shown = Keys /\ DOMAIN pips = Keys
      BY DEF Inv, TypeInv, MemoryType, Counts
    <2> QED
      BY <1>4, <2>1, <2>2
  <1>8. \A i \in DOMAIN job'.todo : job'.todo[i] = m
    BY <1>1, <1>6, HoldTodo
  <1>9. TodoSays'
    BY <1>6, <1>7, <1>8 DEF TodoSays, SaysState, SaysGlyph, SaysShow
  <1>10. CustomIsGlyph' /\ FreshKnown'
    BY <1>1, <1>2, <1>5, <1>7 DEF PadInv, CustomIsGlyph, FreshKnown, Inv, TypeInv, BoundsType
  <1>11. ASSUME Online
         PROVE  /\ CacheAgrees' /\ SheetAgrees'
                /\ \A j \in Keys : ColorOK(j)' /\ FaceOK(j)' /\ PipOK(j)'
    <2>1. OnlineAgrees
      BY DEF PadInv
    <2>2. CacheAgrees' /\ SheetAgrees'
      BY <1>1, <1>11, <2>1, CacheKept, SheetKept DEF OnlineAgrees, Frame
    <2>3. 0 \in DOMAIN job'.todo /\ job'.todo[0] = m
      BY <1>1, <1>6, <1>11, HoldOnline
    <2>4. GlyphInHand(k)'
      BY <1>6, <2>3 DEF GlyphInHand, IsGlyph
    <2>5. FaceOK(k)' /\ PipOK(k)'
      BY <1>7, <2>4 DEF FaceOK, PipOK
    <2>6. ColorOK(k)'
      <3>1. ColorSent(k)' => reloads = 0
        BY <1>1, <1>5, <1>7 DEF ColorSent
      <3>2. ~StateInHand(k) /\ ~ShowInHand(k)
        BY <1>1, NothingInHand
      <3>3. reloads = 0 /\ ~Reused(k) => ColorEnds(k)
        BY <1>11, <2>1, <3>2 DEF OnlineAgrees, ColorOK
      <3>4. ColorOf(k)' = ColorOf(k)
        BY <1>5, <1>7 DEF ColorOf
      <3>5. ColorEnds(k) => ColorEnds(k)'
        BY <1>1, <3>4, ColorSame DEF board
      <3>6. Reused(k)' <=> Reused(k)
        BY DEF CallSendCustomGlyph, Reused
      <3> QED
        BY <1>1, <3>1, <3>3, <3>5, <3>6 DEF ColorOK
    <2>7. ASSUME NEW j \in Keys, j # k PROVE ColorOK(j)' /\ FaceOK(j)' /\ PipOK(j)'
      <3>1. Repair(j) => Repair(j)'
        BY <1>1, <1>7, <2>7, RepairSame
      <3>2. Restoring' <=> Restoring
        BY <1>1 DEF Restoring
      <3>3. j \in fresh' => j \in fresh
        BY <1>1, <2>7
      <3>4. Reused(j) => Reused(j)'
        BY DEF CallSendCustomGlyph, Reused
      <3> QED
        BY <1>1, <1>7, <1>11, <2>1, <2>7, <3>1, <3>2, <3>3, <3>4, KeyKept DEF OnlineAgrees
    <2> QED
      BY <2>2, <2>5, <2>6, <2>7
  <1> QED
    BY <1>1, <1>9, <1>10, <1>11, TakePad

(* StoreFrame.                                                             *)
LEMMA StoreFramePad ==
  ASSUME Inv, OrderInv, PadInv, NEW s \in Slots, NEW f \in Frames, CallStoreFrame(s, f)
  PROVE  PadInv'
  <1> DEFINE m == [t |-> "store", slot |-> s, frame |-> f]
             todo == [i \in {0} |-> m]
  <1>1. /\ FreeToSend /\ Hold("frame", todo) /\ frames' = [frames EXCEPT ![s] = Recorded(f)]
        /\ UNCHANGED <<keys, glyphs, shown, pips, sheet, dev, gen, run, conn, misses, restore,
                       closing, link, board, down, up, reloads, fresh>>
    BY DEF CallStoreFrame, CanCall, rout, closers
  <1>2. Recorded(f) \in FrameRecs
    BY ReconnectingAssumption DEF Frames, Recorded, FrameRecs, Devices
  <1>3. frames'[s] # None /\ \A r \in Slots : r # s => frames'[r] = frames[r]
    BY <1>1, <1>2, NoneAssumption DEF Inv, TypeInv, MemoryType
  <1>4. todo[0] = m /\ DOMAIN todo = {0} /\ m.t = "store" /\ m.slot = s
    OBVIOUS
  <1> HIDE DEF m, todo
  <1>5. \A i \in DOMAIN job'.todo : job'.todo[i] = m
    BY <1>1, <1>4, HoldTodo
  <1>6. TodoSays'
    BY <1>4, <1>5 DEF TodoSays, SaysState, SaysGlyph, SaysShow
  <1>7. CustomIsGlyph' /\ FreshKnown'
    BY <1>1 DEF PadInv, CustomIsGlyph, FreshKnown
  <1>8. ASSUME Online
        PROVE  /\ CacheAgrees' /\ SheetAgrees'
               /\ \A j \in Keys : ColorOK(j)' /\ FaceOK(j)' /\ PipOK(j)'
    <2>1. OnlineAgrees
      BY DEF PadInv
    <2>2. 0 \in DOMAIN job'.todo /\ job'.todo[0] = m
      BY <1>1, <1>4, <1>8, HoldOnline
    <2>3. StoreInHand(s)'
      BY <1>4, <2>2 DEF StoreInHand
    <2>4. CacheAgrees' /\ SheetAgrees'
      BY <1>1, <1>3, <1>8, <2>1, <2>3, CacheKept, SheetKept DEF OnlineAgrees, Frame
    <2>5. ASSUME NEW j \in Keys PROVE ColorOK(j)' /\ FaceOK(j)' /\ PipOK(j)'
      <3>1. Repair(j) => Repair(j)'
        BY <1>1, RepairSame
      <3>2. Restoring' <=> Restoring
        BY <1>1 DEF Restoring
      <3>3. Reused(j) => Reused(j)'
        BY DEF CallStoreFrame, Reused
      <3> QED
        BY <1>1, <1>8, <2>1, <3>1, <3>2, <3>3, KeyKept DEF OnlineAgrees
    <2> QED
      BY <2>4, <2>5
  <1> QED
    BY <1>1, <1>6, <1>7, <1>8, TakePad

(* StorePipSheet.                                                          *)
LEMMA StorePipSheetPad ==
  ASSUME Inv, OrderInv, PadInv, CallStorePipSheet
  PROVE  PadInv'
  <1> DEFINE m == [t |-> "sheet"]
             todo == [i \in {0} |-> m]
  <1>1. /\ FreeToSend /\ Hold("frame", todo)
        /\ UNCHANGED <<keys, glyphs, frames, shown, pips, dev, gen, run, conn, misses, restore,
                       closing, link, board, down, up, reloads, fresh>>
    BY DEF CallStorePipSheet, CanCall, rout, closers
  <1>2. todo[0] = m /\ DOMAIN todo = {0} /\ m.t = "sheet"
    OBVIOUS
  <1> HIDE DEF m, todo
  <1>3. \A i \in DOMAIN job'.todo : job'.todo[i] = m
    BY <1>1, <1>2, HoldTodo
  <1>4. TodoSays'
    BY <1>2, <1>3 DEF TodoSays, SaysState, SaysGlyph, SaysShow
  <1>5. CustomIsGlyph' /\ FreshKnown'
    BY <1>1 DEF PadInv, CustomIsGlyph, FreshKnown
  <1>6. ASSUME Online
        PROVE  /\ CacheAgrees' /\ SheetAgrees'
               /\ \A j \in Keys : ColorOK(j)' /\ FaceOK(j)' /\ PipOK(j)'
    <2>1. OnlineAgrees
      BY DEF PadInv
    <2>2. 0 \in DOMAIN job'.todo /\ job'.todo[0] = m
      BY <1>1, <1>2, <1>6, HoldOnline
    <2>3. SheetAgrees'
      BY <1>2, <2>2 DEF SheetAgrees
    <2>4. CacheAgrees'
      BY <1>1, <1>6, <2>1, CacheKept DEF OnlineAgrees, Frame
    <2>5. ASSUME NEW j \in Keys PROVE ColorOK(j)' /\ FaceOK(j)' /\ PipOK(j)'
      <3>1. Repair(j) => Repair(j)'
        BY <1>1, RepairSame
      <3>2. Restoring' <=> Restoring
        BY <1>1 DEF Restoring
      <3>3. Reused(j) => Reused(j)'
        BY DEF CallStorePipSheet, Reused
      <3> QED
        BY <1>1, <1>6, <2>1, <3>1, <3>2, <3>3, KeyKept DEF OnlineAgrees
    <2> QED
      BY <2>3, <2>4, <2>5
  <1> QED
    BY <1>1, <1>4, <1>5, <1>6, TakePad

(* ShowFrames, with pips or without: the keys it shows are in hand.        *)
LEMMA ShowPad ==
  ASSUME Inv, OrderInv, PadInv, NEW slots \in SlotChoice, NEW counts \in [Keys -> 0 .. MaxPip],
         CallShow(slots, counts)
  PROVE  PadInv'
  <1> DEFINE P == Late(slots) \union {NumKeys}
             show == [t |-> "show", slots |-> slots, counts |-> counts]
             todo == [i \in P |-> IF i = NumKeys THEN show ELSE StoreMsg(slots[i])]
  <1>1. /\ FreeToSend /\ Hold("frame", todo) /\ fresh' = fresh \union Known(slots)
        /\ UNCHANGED <<frames, sheet, dev, gen, run, conn, misses, restore, closing, link,
                       board, down, up, reloads>>
    BY DEF CallShow, CanCall, rout, closers
  <1>2. \A k \in Keys :
          IF k \in Known(slots)
          THEN /\ keys'[k] = StateOf(frames[slots[k]]) /\ glyphs'[k] = frames[slots[k]].glyph
               /\ shown'[k] = slots[k] /\ pips'[k] = counts[k]
          ELSE /\ keys'[k] = keys[k] /\ glyphs'[k] = glyphs[k]
               /\ shown'[k] = shown[k] /\ pips'[k] = pips[k]
    BY DEF CallShow
  <1>3. ASSUME NEW k \in Known(slots)
        PROVE  keys'[k] # None /\ (keys'[k].custom <=> glyphs'[k] # None)
    <2>1. frames[slots[k]] \in FrameRecs /\ k \in Keys
      BY DEF Known, SlotChoice, Inv, TypeInv, MemoryType
    <2>2. StateOf(frames[slots[k]]) \in KeyStates
      BY <2>1 DEF StateOf, FrameRecs, KeyStates
    <2>3. StateOf(frames[slots[k]]) # None
      BY <2>2, NoneAssumption
    <2>4. StateOf(frames[slots[k]]).custom <=> frames[slots[k]].glyph # None
      BY DEF StateOf
    <2> QED
      BY <1>2, <2>1, <2>3, <2>4
  <1>4. /\ NumKeys \in DOMAIN todo /\ todo[NumKeys] = show
        /\ \A i \in DOMAIN todo : todo[i] = show \/ todo[i].t = "store"
        /\ show.t = "show" /\ show.slots = slots /\ show.counts = counts
    BY DEF StoreMsg
  <1> HIDE DEF todo, show
  <1>5. \A i \in DOMAIN job'.todo : job'.todo[i] = show \/ job'.todo[i].t = "store"
    BY <1>1, <1>4, HoldTodo
  <1>6. \A k \in Named(show) : k \in Keys /\ (frames[slots[k]] # None => k \in Known(slots))
    BY <1>4 DEF Named, Known
  <1>7. TodoSays'
    BY <1>1, <1>2, <1>4, <1>5, <1>6 DEF TodoSays, SaysState, SaysGlyph, SaysShow
  <1>8. CustomIsGlyph' /\ FreshKnown'
    <2>1. CustomIsGlyph'
      BY <1>2, <1>3 DEF PadInv, CustomIsGlyph
    <2>2. FreshKnown'
      BY <1>1, <1>2, <1>3 DEF PadInv, FreshKnown, Inv, TypeInv, BoundsType
    <2> QED
      BY <2>1, <2>2
  <1>9. ASSUME Online
        PROVE  /\ CacheAgrees' /\ SheetAgrees'
               /\ \A k \in Keys : ColorOK(k)' /\ FaceOK(k)' /\ PipOK(k)'
    <2>1. OnlineAgrees
      BY DEF PadInv
    <2>2. CacheAgrees' /\ SheetAgrees'
      BY <1>1, <1>9, <2>1, CacheKept, SheetKept DEF OnlineAgrees, Frame
    <2>3. NumKeys \in DOMAIN job'.todo /\ job'.todo[NumKeys] = show
      BY <1>1, <1>4, <1>9, HoldOnline
    <2>4. ASSUME NEW k \in Known(slots) PROVE ColorOK(k)' /\ FaceOK(k)' /\ PipOK(k)'
      <3>1. k \in Named(show) /\ frames[slots[k]] # None
        BY <1>4 DEF Named, Known
      <3>2. ShowInHand(k)'
        BY <1>1, <1>4, <2>3, <3>1 DEF ShowInHand, IsShow
      <3> QED
        BY <3>2 DEF ColorOK, FaceOK, PipOK
    <2>5. ASSUME NEW k \in Keys, k \notin Known(slots)
          PROVE  ColorOK(k)' /\ FaceOK(k)' /\ PipOK(k)'
      <3>1. Repair(k) => Repair(k)'
        BY <1>1, <1>2, <2>5, RepairSame
      <3>2. Restoring' <=> Restoring
        BY <1>1 DEF Restoring
      <3>3. k \in fresh' => k \in fresh
        BY <1>1, <2>5
      <3>4. Reused(k) => Reused(k)'
        BY <2>5 DEF CallShow, Loosened, Reused, Inv, TypeInv, MemoryType
      <3> QED
        BY <1>1, <1>2, <1>9, <2>1, <2>5, <3>1, <3>2, <3>3, <3>4, KeyKept DEF OnlineAgrees
    <2> QED
      BY <2>2, <2>4, <2>5
  <1> QED
    BY <1>1, <1>7, <1>8, <1>9, TakePad

-----------------------------------------------------------------------------
(* The goroutine of a connection that stores every frame again.            *)
LEMMA RestorerPad ==
  ASSUME Inv, OrderInv, PadInv, NEW g \in Sessions, Restorer(g)
  PROVE  PadInv'
  <1>1. /\ restore \in [Sessions -> Restores] /\ MemoryType
        /\ UNCHANGED <<keys, glyphs, frames, shown, pips, sheet, pin, dev, gen, run, conn, closing,
                       link, board, down, up, reloads, fresh, misses>>
        /\ RestoreStart(g) \/ RestoreSlot(g) \/ ShowPipsAgain(g)
    BY DEF Restorer, RestoreStart, RestoreSlot, ShowPipsAgain, Quiet, closers, bounds,
           Inv, TypeInv, RoutineType, RunType
  <1>2. Online' <=> Online
    BY <1>1 DEF Online
  <1>3. \A k \in Keys : Repair(k) => Repair(k)'
    BY <1>1, RepairSame
  <1>4. BoardDraws' /\ CustomIsGlyph' /\ FreshKnown'
    BY <1>1, CacheSame DEF PadInv, CustomIsGlyph, FreshKnown, board
  <1>5. ASSUME Online, FreeToSend, restore[g].pc # "off", g = gen PROVE Current(g)
    <2>1. dev # 0
      BY <1>5, OnlineHolder
    <2> QED
      BY <1>5, <2>1 DEF OrderInv, RestoreBacked, Current
  <1>6. \A h \in Sessions : h # g => restore'[h] = restore[h]
    BY <1>1 DEF RestoreStart, RestoreSlot, ShowPipsAgain
  <1>7. ASSUME FreeToSend, TodoSays',
               \A k \in Keys : Online /\ g = gen /\ pips[k] > 0 =>
                 restore'[gen].pc # "off" \/ ShowInHand(k)'
        PROVE  PadInv'
    <2>1. ASSUME Online
          PROVE  /\ CacheAgrees' /\ SheetAgrees'
                 /\ \A k \in Keys : ColorOK(k)' /\ FaceOK(k)' /\ PipOK(k)'
      <3>1. OnlineAgrees
        BY DEF PadInv
      <3>2. CacheAgrees' /\ SheetAgrees'
        BY <1>1, <1>7, <2>1, <3>1, CacheKept, SheetKept DEF OnlineAgrees, Frame
      <3>3. run # "replay" /\ gen \in Sessions
        BY <1>7, <2>1, OnlineHolder, ReconnectingAssumption
           DEF Inv, TypeInv, RoutineType, RunType, GenerationsInOrder, Devices, Sessions
      <3>4. ASSUME NEW k \in Keys PROVE ColorOK(k)' /\ FaceOK(k)' /\ PipOK(k)'
        <4>1. Restoring => Restoring' \/ ~(pips[k] > 0) \/ ShowInHand(k)'
          BY <1>1, <1>6, <1>7, <2>1, <3>3 DEF Restoring
        <4>2. Reused(k) => Reused(k)'
          BY <1>1 DEF Reused
        <4> QED
          BY <1>1, <1>3, <1>7, <2>1, <3>1, <4>1, <4>2, KeyKept DEF OnlineAgrees
      <3> QED
        BY <3>2, <3>4
    <2> QED
      BY <1>1, <1>4, <1>7, <2>1, TakePad
  <1>8. CASE RestoreStart(g)
    <2>1. UNCHANGED job /\ restore'[g].pc = "slots"
      BY <1>1, <1>8 DEF RestoreStart, Restores
    <2>2. TodoSays'
      BY <1>1, <2>1, TodoSaysLess DEF PadInv
    <2>3. Online => (Restoring => Restoring')
      <3>1. Online /\ run # "replay" => gen \in Sessions
        BY OnlineHolder, ReconnectingAssumption
           DEF Inv, TypeInv, RoutineType, RunType, GenerationsInOrder, Devices, Sessions
      <3> QED
        BY <1>1, <1>6, <2>1, <3>1 DEF Restoring
    <2> QED
      BY <1>1, <1>2, <1>3, <2>1, <2>2, <2>3, KeptPad DEF memory, pictures
  <1>9. CASE RestoreSlot(g)
    <2>1. PICK s \in restore[g].left :
            /\ restore[g].pc = "slots" /\ FreeToSend
            /\ IF Current(g) /\ closing = "no"
               THEN /\ restore' = [restore EXCEPT ![g].left = @ \ {s}]
                    /\ Hold("restore", [i \in IF frames[s] # None /\ frames[s].gen # g
                                              THEN {0} ELSE {} |-> StoreMsg(s)])
               ELSE restore' = [restore EXCEPT ![g] = NotRestoring] /\ UNCHANGED job
      BY <1>9 DEF RestoreSlot
    <2>2. CASE Current(g) /\ closing = "no"
      <3>1. restore'[g].pc = "slots"
        BY <1>1, <2>1, <2>2 DEF Restores
      <3>2. \A i \in DOMAIN job'.todo : job'.todo[i] = StoreMsg(s)
        <4> DEFINE P == IF frames[s] # None /\ frames[s].gen # g THEN {0} ELSE {}
                   todo == [i \in P |-> StoreMsg(s)]
        <4>1. Hold("restore", todo)
          BY <2>1, <2>2
        <4>2. \A i \in DOMAIN todo : todo[i] = StoreMsg(s)
          OBVIOUS
        <4> HIDE DEF P, todo
        <4> QED
          BY <4>1, <4>2, HoldTodo
      <3>3. TodoSays'
        BY <3>2 DEF TodoSays, SaysState, SaysGlyph, SaysShow, StoreMsg
      <3> QED
        BY <1>7, <2>1, <3>1, <3>3
    <2>3. CASE ~(Current(g) /\ closing = "no")
      <3>1. UNCHANGED job
        BY <2>1, <2>3
      <3>2. TodoSays'
        BY <1>1, <3>1, TodoSaysLess DEF PadInv
      <3>3. Online => g # gen
        BY <1>5, <2>1, <2>3 DEF Online
      <3> QED
        BY <1>7, <2>1, <3>2, <3>3
    <2> QED
      BY <2>2, <2>3
  <1>10. CASE ShowPipsAgain(g)
    <2> DEFINE P == IF Current(g) /\ sheet /\ \E k \in Keys : pips[k] > 0
                    THEN {0} ELSE {}
               m == [t |-> "show", slots |-> PipSlots, counts |-> PipCounts]
               todo == [i \in P |-> m]
    <2>1. Hold("pips", todo) /\ FreeToSend /\ restore[g].pc = "slots"
      BY <1>10 DEF ShowPipsAgain
    <2>2. /\ m.t = "show" /\ m.slots = PipSlots /\ m.counts = PipCounts
          /\ DOMAIN todo = P /\ \A i \in P : todo[i] = m
      OBVIOUS
    <2>3. Current(g) /\ sheet /\ (\E k \in Keys : pips[k] > 0) => 0 \in P
      OBVIOUS
    <2> HIDE DEF P, m, todo
    <2>4. \A i \in DOMAIN job'.todo : job'.todo[i] = m
      BY <2>1, <2>2, HoldTodo
    <2>5. \A k \in Keys : PipSlots[k] # None => PipSlots[k] = shown[k] /\ PipCounts[k] = pips[k]
      BY DEF PipSlots, PipCounts
    <2>6. TodoSays'
      BY <1>1, <2>2, <2>4, <2>5 DEF TodoSays, SaysState, SaysGlyph, SaysShow, Named
    <2>7. ASSUME NEW k \in Keys, Online, g = gen, pips[k] > 0 PROVE ShowInHand(k)'
      <3>1. Current(g)
        BY <1>5, <2>1, <2>7
      <3>2. shown[k] # None /\ sheet /\ frames[shown[k]] # None
        BY <2>7 DEF Inv, MemoryAgrees
      <3>3. 0 \in DOMAIN todo /\ 0 \in P
        BY <2>2, <2>3, <2>7, <3>1, <3>2
      <3>4. 0 \in DOMAIN job'.todo /\ job'.todo[0] = m
        BY <2>1, <2>2, <2>7, <3>3, HoldOnline
      <3>5. PipSlots[k] = shown[k]
        BY <2>7, <3>2 DEF PipSlots
      <3>6. k \in Named(m) /\ frames'[m.slots[k]] # None
        BY <1>1, <2>2, <3>2, <3>5 DEF Named
      <3> QED
        BY <2>2, <3>4, <3>6 DEF ShowInHand, IsShow
    <2> QED
      BY <1>7, <2>1, <2>6, <2>7
  <1> QED
    BY <1>1, <1>8, <1>9, <1>10

(* What is left when one of a sequence is removed.                         *)
LEMMA OneRemoved ==
  ASSUME NEW S, NEW q \in Seq(S), NEW n \in 1 .. Len(q), NEW j \in 1 .. Len(q), j # n,
         NEW r, r = SubSeq(q, 1, n - 1) \o SubSeq(q, n + 1, Len(q))
  PROVE  \E i \in DOMAIN r : r[i] = q[j]
  <1>1. /\ Len(q) \in Nat /\ n \in Nat /\ j \in Nat /\ 1 <= n /\ n <= Len(q)
        /\ 1 <= j /\ j <= Len(q)
    OBVIOUS
  <1>4. j < n \/ j > n
    BY <1>1
  <1>2. CASE j < n
    <2> DEFINE a == SubSeq(q, 1, n - 1)
               b == SubSeq(q, n + 1, Len(q))
    <2>1. a \in Seq(S) /\ Len(a) = n - 1 /\ j \in 1 .. Len(a)
      BY <1>1, <1>2
    <2>2. b \in Seq(S) /\ Len(b) = Len(q) - n
      BY <1>1
    <2>3. a[j] = q[j]
      <3>1. \A i \in 1 .. n - 1 : a[i] = q[i]
        BY <1>1
      <3>2. j \in 1 .. n - 1
        BY <1>1, <1>2
      <3> HIDE DEF a
      <3> QED
        BY <3>1, <3>2
    <2>4. r = a \o b
      OBVIOUS
    <2> HIDE DEF a, b
    <2>5. /\ a \o b \in Seq(S) /\ Len(a \o b) = Len(a) + Len(b)
          /\ \A i \in 1 .. Len(a) + Len(b) :
               (a \o b)[i] = IF i <= Len(a) THEN a[i] ELSE b[i - Len(a)]
      BY <2>1, <2>2, ConcatProperties
    <2>6. j \in 1 .. Len(a) + Len(b) /\ j <= Len(a)
      BY <1>1, <2>1, <2>2
    <2>7. r[j] = q[j] /\ j \in DOMAIN r
      <3>1. (a \o b)[j] = a[j]
        BY <2>5, <2>6
      <3>2. DOMAIN (a \o b) = 1 .. Len(a) + Len(b)
        BY <2>5
      <3> QED
        BY <2>3, <2>4, <2>6, <3>1, <3>2
    <2> QED
      BY <2>7
  <1>3. CASE j > n
    <2> DEFINE a == SubSeq(q, 1, n - 1)
               b == SubSeq(q, n + 1, Len(q))
    <2>1. a \in Seq(S) /\ Len(a) = n - 1
      BY <1>1
    <2>2. b \in Seq(S) /\ Len(b) = Len(q) - n
      BY <1>1
    <2>3. b[j - n] = q[j]
      <3>1. j - n \in 1 .. Len(q) - n /\ (j - n) + n = j
        BY <1>1, <1>3
      <3>2. \A i \in 1 .. Len(q) - n : b[i] = q[i + n]
        BY <1>1
      <3> HIDE DEF b
      <3> QED
        BY <3>1, <3>2
    <2>4. r = a \o b
      OBVIOUS
    <2> HIDE DEF a, b
    <2>5. j - 1 \in 1 .. Len(a) + Len(b) /\ (j - 1) - Len(a) = j - n /\ j - 1 > Len(a)
      BY <1>1, <1>3, <2>1, <2>2
    <2>6. /\ a \o b \in Seq(S) /\ Len(a \o b) = Len(a) + Len(b)
          /\ \A i \in 1 .. Len(a) + Len(b) :
               (a \o b)[i] = IF i <= Len(a) THEN a[i] ELSE b[i - Len(a)]
      BY <2>1, <2>2, ConcatProperties
    <2>7. r[j - 1] = b[j - n]
      <3>1. (a \o b)[j - 1] = IF j - 1 <= Len(a) THEN a[j - 1] ELSE b[(j - 1) - Len(a)]
        BY <2>5, <2>6
      <3>2. ~(j - 1 <= Len(a))
        BY <1>1, <2>1, <2>5
      <3> QED
        BY <2>4, <2>5, <3>1, <3>2
    <2>8. j - 1 \in DOMAIN r
      <3>1. DOMAIN (a \o b) = 1 .. Len(a \o b)
        BY <2>6
      <3> QED
        BY <2>4, <2>5, <2>6, <3>1
    <2> QED
      BY <2>3, <2>7, <2>8
  <1> QED
    BY <1>2, <1>3, <1>4

(* The goroutine that answers a Show miss.                                 *)
LEMMA MissPad ==
  ASSUME Inv, OrderInv, PadInv, Misser
  PROVE  PadInv'
  <1>1. PICK n \in DOMAIN misses : HandleShowMiss(n)
    BY DEF Misser
  <1>2. misses \in Seq(Misses)
    BY DEF Inv, TypeInv, RoutineType, RunType
  <1>3. PICK miss \in Misses : miss = misses[n]
    BY <1>1, <1>2, ElementOfSeq
  <1> DEFINE Again == {k \in miss.mask : shown[k] # None /\ frames[shown[k]] # None}
             slots == [k \in Keys |-> IF k \in Again THEN shown[k] ELSE None]
             counts == [k \in Keys |-> IF sheet /\ k \in Again THEN pips[k] ELSE 0]
             Lost  == {shown[k] : k \in Again}
             show  == [t |-> "show", slots |-> slots, counts |-> counts]
             todo  == MissAnswer(Again, slots)
  <1>4. /\ FreeToSend
        /\ UNCHANGED <<keys, glyphs, shown, pips, sheet, dev, gen, run, conn, restore, closing,
                       link, board, down, up, reloads, fresh>>
        /\ misses' = SubSeq(misses, 1, n - 1) \o SubSeq(misses, n + 1, Len(misses))
        /\ IF dev # miss.dev \/ Again = {}
           THEN UNCHANGED <<frames, job>>
           ELSE /\ frames' = [s \in Slots |-> IF s \in Lost
                                THEN [frames[s] EXCEPT !.gen = 0] ELSE frames[s]]
                /\ Hold("miss", todo)
    BY <1>1, <1>3 DEF HandleShowMiss, Quiet, closers, bounds
  <1>5. miss.mask \in SUBSET Keys
    BY DEF Misses
  <1>6. \A s \in Slots : Frame(s)' = Frame(s) /\ (frames'[s] = None <=> frames[s] = None)
    <2>1. CASE dev # miss.dev \/ Again = {}
      BY <1>4, <2>1 DEF Frame
    <2>2. CASE ~(dev # miss.dev \/ Again = {})
      <3> TAKE s \in Slots
      <3>1. CASE s \notin Lost
        <4>1. frames'[s] = frames[s]
          BY <1>4, <2>2, <3>1
        <4> QED
          BY <4>1 DEF Frame
      <3>2. CASE s \in Lost
        <4>1. frames[s] # None /\ frames[s] \in FrameRecs
          BY <3>2 DEF Inv, TypeInv, MemoryType
        <4>2. frames'[s] = [frames[s] EXCEPT !.gen = 0]
          BY <1>4, <2>2, <3>2
        <4>3. frames'[s] \in FrameRecs
          BY <4>1, <4>2, ReconnectingAssumption DEF FrameRecs, Devices
        <4>4. frames'[s] # None
          BY <4>3, NoneAssumption
        <4>5. frames'[s].color = frames[s].color /\ frames'[s].glyph = frames[s].glyph
          BY <4>1, <4>2 DEF FrameRecs
        <4> QED
          BY <4>1, <4>4, <4>5 DEF Frame
      <3> QED
        BY <3>1, <3>2
    <2> QED
      BY <2>1, <2>2
  <1>7. /\ DOMAIN todo = Again \union {NumKeys}
        /\ \A k \in Again : k # NumKeys /\ k \in Keys
        /\ todo[NumKeys] = show
        /\ \A i \in DOMAIN todo : todo[i] = show \/ todo[i].t = "store"
        /\ show.t = "show" /\ show.slots = slots /\ show.counts = counts
    <2>1. /\ show.t = "show" /\ show.slots = slots /\ show.counts = counts
          /\ todo = [i \in Again \union {NumKeys} |->
                       IF i # NumKeys THEN StoreMsg(shown[i]) ELSE show]
      BY DEF MissAnswer
    <2>2. \A k \in Again : k # NumKeys /\ k \in Keys
      BY <1>5, PadAssumption DEF Keys
    <2> HIDE DEF todo, show, slots, counts, Again, Lost
    <2>3. \A k : StoreMsg(shown[k]).t = "store"
      BY DEF StoreMsg
    <2> QED
      BY <2>1, <2>2, <2>3
  <1>8. \A k \in Keys :
          IF k \in Again THEN slots[k] = shown[k] /\ counts[k] = pips[k] ELSE slots[k] = None
    BY DEF Inv, MemoryAgrees, TypeInv, MemoryType, Counts
  <1>9. \A k \in Again : shown[k] # None /\ frames[shown[k]] # None /\ shown[k] \in Slots
    BY <1>5 DEF Inv, TypeInv, MemoryType
  <1>10. ASSUME NEW k \in Keys, k \in miss.mask, shown[k] # None PROVE k \in Again
    BY <1>10 DEF Inv, MemoryAgrees
  <1> HIDE DEF todo, show, slots, counts, Again, Lost
  <1>11. TodoSays'
    <2>1. CASE UNCHANGED job
      BY <1>4, <1>6, <2>1, TodoSaysLess DEF PadInv
    <2>2. CASE Hold("miss", todo)
      <3>1. \A i \in DOMAIN job'.todo : job'.todo[i] = show \/ job'.todo[i].t = "store"
        BY <1>7, <2>2, HoldTodo
      <3> QED
        BY <1>4, <1>7, <1>8, <3>1 DEF TodoSays, SaysState, SaysGlyph, SaysShow, Named
    <2> QED
      BY <1>4, <2>1, <2>2
  <1>12. CustomIsGlyph' /\ FreshKnown'
    BY <1>4 DEF PadInv, CustomIsGlyph, FreshKnown
  <1>13. ASSUME Online
         PROVE  /\ CacheAgrees' /\ SheetAgrees'
                /\ \A k \in Keys : ColorOK(k)' /\ FaceOK(k)' /\ PipOK(k)'
    <2>1. OnlineAgrees
      BY DEF PadInv
    <2>2. CacheAgrees' /\ SheetAgrees'
      BY <1>4, <1>6, <1>13, <2>1, CacheKept, SheetKept DEF OnlineAgrees
    <2>3. dev = conn
      BY <1>4, <1>13, OnlineHolder DEF Online
    <2>4. ASSUME NEW k \in Keys, Repair(k) PROVE Repair(k)' \/ ShowInHand(k)'
      <3>1. \A i : WillMiss(i, k)' <=> WillMiss(i, k)
        BY <1>4, KeySame DEF board
      <3>2. CASE (\E i \in DOMAIN down : WillMiss(i, k)) \/ \E i \in DOMAIN up : k \in up[i]
        BY <1>4, <2>4, <3>1, <3>2 DEF Repair
      <3>3. ASSUME NEW j \in DOMAIN misses, k \in misses[j].mask, misses[j].dev = conn
            PROVE  Repair(k)' \/ ShowInHand(k)'
        <4>1. CASE j = n
          <5>1. k \in Again /\ dev = miss.dev
            BY <1>3, <1>10, <2>3, <2>4, <3>3, <4>1 DEF Repair
          <5>2. Hold("miss", todo)
            BY <1>4, <5>1
          <5>3. NumKeys \in DOMAIN job'.todo /\ job'.todo[NumKeys] = show
            BY <1>4, <1>7, <1>13, <5>2, HoldOnline
          <5>4. k \in Named(show) /\ frames'[show.slots[k]] # None
            BY <1>6, <1>7, <1>8, <1>9, <5>1 DEF Named
          <5> QED
            BY <1>7, <5>3, <5>4 DEF ShowInHand, IsShow
        <4>2. CASE j # n
          <5>1. \E i \in DOMAIN misses' : misses'[i] = misses[j]
            <6>1. n \in 1 .. Len(misses) /\ j \in 1 .. Len(misses)
              BY <1>1, <1>2, <3>3
            <6>2. misses' = SubSeq(misses, 1, n - 1) \o SubSeq(misses, n + 1, Len(misses))
              BY <1>4
            <6>3. \A r : r = SubSeq(misses, 1, n - 1) \o SubSeq(misses, n + 1, Len(misses))
                    => \E i \in DOMAIN r : r[i] = misses[j]
              BY <1>2, <4>2, <6>1, OneRemoved
            <6> QED
              BY <6>2, <6>3
          <5> QED
            BY <1>4, <2>4, <3>3, <5>1 DEF Repair
        <4> QED
          BY <4>1, <4>2
      <3> QED
        BY <2>4, <3>2, <3>3 DEF Repair
    <2>5. ASSUME NEW k \in Keys PROVE ColorOK(k)' /\ FaceOK(k)' /\ PipOK(k)'
      <3>1. Restoring' <=> Restoring
        BY <1>4 DEF Restoring
      <3>2. Repair(k) => Repair(k)' \/ ShowInHand(k)'
        BY <2>4
      <3>3. Reused(k) => Reused(k)'
        BY <1>1 DEF HandleShowMiss, Quiet, Reused
      <3> QED
        BY <1>4, <1>13, <2>1, <3>1, <3>2, <3>3, KeyKept DEF OnlineAgrees
    <2> QED
      BY <2>2, <2>5
  <1> QED
    BY <1>4, <1>11, <1>12, <1>13, TakePad

-----------------------------------------------------------------------------
(* A message that is written.                                              *)

(* What the cache will hold when the board has taken it too.               *)
LEMMA AppendEnd ==
  ASSUME down \in Seq(Messages), NEW m \in Messages, down' = Append(down, m),
         UNCHANGED <<cache, bsheet>>
  PROVE  /\ \A s : Empty(End, s)' <=> Empty(End, s) /\ ~(m.t = "store" /\ m.slot = s)
         /\ \A s, f : Held(End, s, f) /\ ~(m.t = "store" /\ m.slot = s) => Held(End, s, f)'
         /\ \A s : m.t = "store" /\ m.slot = s => Held(End, s, m.frame)'
         /\ SheetBefore(End)' <=> SheetBefore(End) \/ m.t = "sheet"
         /\ NoShow(End)' <=> NoShow(End) /\ m.t # "show"
  <1>0. PICK n \in Nat : n = Len(down) + 1
    BY AppendParts
  <1>1. /\ DOMAIN down = 1 .. n - 1 /\ n \in Nat /\ End = n /\ n \in DOMAIN down'
        /\ DOMAIN down' = 1 .. n /\ End' = n + 1
        /\ \A i \in 1 .. n - 1 : down'[i] = down[i]
        /\ down'[n] = m
    BY <1>0, AppendParts DEF End
  <1>2. /\ \A i \in DOMAIN down : i < End /\ i # n /\ i \in DOMAIN down' /\ i < End'
        /\ \A i \in DOMAIN down' : i < End' /\ (i \in DOMAIN down \/ i = n)
        /\ n < End'
    BY <1>1
  <1>3. /\ \A s : \A i \in DOMAIN down : IsStore(i, s)' <=> IsStore(i, s)
        /\ \A s : IsStore(n, s)' <=> (m.t = "store" /\ m.slot = s)
    <2>1. \A i \in DOMAIN down : down'[i] = down[i]
      BY <1>1
    <2>2. \A s : \A i \in DOMAIN down : IsStore(i, s)' <=> IsStore(i, s)
      BY <2>1 DEF IsStore
    <2>3. \A s : IsStore(n, s)' <=> (m.t = "store" /\ m.slot = s)
      BY <1>1 DEF IsStore
    <2> QED
      BY <2>2, <2>3
  <1>4. \A s : NoStore(End, s)' <=> NoStore(End, s) /\ ~(m.t = "store" /\ m.slot = s)
    BY <1>1, <1>2, <1>3 DEF NoStore
  <1>5. \A s : Empty(End, s)' <=> Empty(End, s) /\ ~(m.t = "store" /\ m.slot = s)
    BY <1>4 DEF Empty
  <1>6. ASSUME NEW s, NEW f, Held(End, s, f), ~(m.t = "store" /\ m.slot = s)
        PROVE  Held(End, s, f)'
    <2>1. CASE cache[s] = f /\ NoStore(End, s)
      BY <1>4, <1>6, <2>1 DEF Held
    <2>2. ASSUME NEW j \in DOMAIN down, IsStore(j, s), down[j].frame = f,
                 \A l \in DOMAIN down : j < l /\ l < End => ~IsStore(l, s)
          PROVE  Held(End, s, f)'
      <3>1. j \in DOMAIN down' /\ j < End' /\ IsStore(j, s)' /\ down'[j].frame = f
        BY <1>1, <1>2, <1>3, <2>2
      <3>2. \A l \in DOMAIN down' : j < l /\ l < End' => ~IsStore(l, s)'
        BY <1>2, <1>3, <1>6, <2>2
      <3> QED
        BY <3>1, <3>2 DEF Held
    <2> QED
      BY <1>6, <2>1, <2>2 DEF Held
  <1>7. ASSUME NEW s, m.t = "store", m.slot = s PROVE Held(End, s, m.frame)'
    <2>1. \A l \in DOMAIN down' : ~(n < l /\ l < End')
      BY <1>1
    <2> QED
      BY <1>1, <1>2, <1>3, <1>7, <2>1 DEF Held
  <1>8. SheetBefore(End)' <=> SheetBefore(End) \/ m.t = "sheet"
    BY <1>1, <1>2 DEF SheetBefore
  <1>9. NoShow(End)' <=> NoShow(End) /\ m.t # "show"
    BY <1>1, <1>2 DEF NoShow
  <1> QED
    BY <1>5, <1>6, <1>7, <1>8, <1>9

(* What a key will show when the board has taken it too.                   *)
LEMMA AppendKey ==
  ASSUME down \in Seq(Messages), NEW m \in Messages, down' = Append(down, m),
         UNCHANGED <<cache, bsheet, bkeys, keys, glyphs, pips>>, NEW k \in Keys,
         NEW n, n = Len(down) + 1
  PROVE  /\ n \in Nat /\ n \in DOMAIN down' /\ down'[n] = m
         /\ ColorSets(k)' \subseteq 1 .. n /\ FaceSets(k)' \subseteq 1 .. n
         /\ PipSets(k)' \subseteq 1 .. n
         /\ Paints(n, k)' <=> IsShow(m, k) /\ ~Empty(n, m.slots[k])
         /\ WillMiss(n, k)' <=> IsShow(m, k) /\ Empty(n, m.slots[k])
         /\ \A i \in DOMAIN down : i \in DOMAIN down' /\ (WillMiss(i, k)' <=> WillMiss(i, k))
         /\ n \notin ColorSets(k)' /\ ColorEnds(k) => ColorEnds(k)'
         /\ n \notin FaceSets(k)' /\ FaceEnds(k) => FaceEnds(k)'
         /\ n \notin PipSets(k)' /\ PipEnds(k) => PipEnds(k)'
  <1>1. /\ DOMAIN down = 1 .. n - 1 /\ n \in Nat /\ n \in DOMAIN down'
        /\ DOMAIN down' = 1 .. n
        /\ \A i \in 1 .. n - 1 : down'[i] = down[i]
        /\ down'[n] = m
    BY AppendParts
  <1>2. \A i \in 1 .. n : /\ SheetBefore(i)' <=> SheetBefore(i)
                          /\ \A s : Empty(i, s)' <=> Empty(i, s)
                          /\ \A s, f : Held(i, s, f)' <=> Held(i, s, f)
    BY AppendKeeps
  <1>3. /\ \A i \in DOMAIN down : i \in 1 .. n /\ i \in DOMAIN down' /\ i # n /\ down'[i] = down[i]
        /\ \A i \in DOMAIN down' : i = n \/ i \in DOMAIN down
        /\ n \in 1 .. n
    BY <1>1
  <1>4. /\ Paints(n, k)' <=> IsShow(m, k) /\ ~Empty(n, m.slots[k])
        /\ WillMiss(n, k)' <=> IsShow(m, k) /\ Empty(n, m.slots[k])
    BY <1>1, <1>2, <1>3 DEF Paints, WillMiss
  <1>5. \A i \in DOMAIN down : /\ WillMiss(i, k)' <=> WillMiss(i, k)
                               /\ Paints(i, k)' <=> Paints(i, k)
    BY <1>2, <1>3 DEF Paints, WillMiss
  <1>6. /\ ColorSets(k)' \subseteq 1 .. n /\ FaceSets(k)' \subseteq 1 .. n
        /\ PipSets(k)' \subseteq 1 .. n
    BY <1>1 DEF ColorSets, FaceSets, PipSets
  <1>7. /\ \A i \in DOMAIN down : i \in ColorSets(k)' <=> i \in ColorSets(k)
        /\ \A i \in DOMAIN down : i \in FaceSets(k)' <=> i \in FaceSets(k)
        /\ \A i \in DOMAIN down : i \in PipSets(k)' <=> i \in PipSets(k)
    BY <1>3, <1>5 DEF ColorSets, FaceSets, PipSets
  <1>8. ColorOf(k)' = ColorOf(k)
    BY DEF ColorOf
  <1>9. \A i \in DOMAIN down : i \in ColorRight(k) => i \in ColorRight(k)'
    BY <1>2, <1>3, <1>8 DEF ColorRight
  <1>10. \A i \in DOMAIN down : i \in FaceRight(k) => i \in FaceRight(k)'
    BY <1>2, <1>3 DEF FaceRight
  <1>11. \A i \in DOMAIN down : i \in PipRight(k) => i \in PipRight(k)'
    BY <1>2, <1>3 DEF PipRight
  <1>12. /\ ColorSets(k) \subseteq DOMAIN down /\ FaceSets(k) \subseteq DOMAIN down
         /\ PipSets(k) \subseteq DOMAIN down
    BY DEF ColorSets, FaceSets, PipSets
  <1>13. ColorSets(k)' \subseteq DOMAIN down' /\ FaceSets(k)' \subseteq DOMAIN down'
         /\ PipSets(k)' \subseteq DOMAIN down'
    BY DEF ColorSets, FaceSets, PipSets
  <1>14. ASSUME n \notin ColorSets(k)', ColorEnds(k) PROVE ColorEnds(k)'
    <2>1. ColorSets(k)' = ColorSets(k)
      BY <1>3, <1>7, <1>12, <1>13, <1>14
    <2> QED
      BY <1>8, <1>9, <1>12, <1>14, <2>1 DEF ColorEnds, EndsRight
  <1>15. ASSUME n \notin FaceSets(k)', FaceEnds(k) PROVE FaceEnds(k)'
    <2>1. FaceSets(k)' = FaceSets(k)
      BY <1>3, <1>7, <1>12, <1>13, <1>15
    <2> QED
      BY <1>10, <1>12, <1>15, <2>1 DEF FaceEnds, EndsRight
  <1>16. ASSUME n \notin PipSets(k)', PipEnds(k) PROVE PipEnds(k)'
    <2>1. PipSets(k)' = PipSets(k)
      BY <1>3, <1>7, <1>12, <1>13, <1>16
    <2> QED
      BY <1>11, <1>12, <1>16, <2>1 DEF PipEnds, EndsRight
  <1> QED
    BY <1>1, <1>3, <1>4, <1>5, <1>6, <1>14, <1>15, <1>16

(* A slot that holds a frame is not empty.                                 *)
LEMMA HeldNotEmpty ==
  ASSUME NEW i, NEW s, NEW f \in Frames, Held(i, s, f)
  PROVE  ~Empty(i, s)
  BY NoneAssumption DEF Held, Empty, NoStore

(* What is left in hand when the message m at place i is written.          *)
LEMMA LeftInHand ==
  ASSUME Inv, NEW i \in DOMAIN job.todo, NEW m, m = job.todo[i], Written(i), NextWrite(i),
         NEW k \in Keys
  PROVE  /\ StateInHand(k) => StateInHand(k)' \/ IsState(m, k)
         /\ PlainInHand(k) => PlainInHand(k)' \/ (IsState(m, k) /\ ~m.custom)
         /\ GlyphInHand(k) => GlyphInHand(k)' \/ IsGlyph(m, k)
         /\ ShowInHand(k) => ShowInHand(k)' \/ (IsShow(m, k) /\ frames[m.slots[k]] # None)
         /\ \A s : StoreInHand(s) => StoreInHand(s)' \/ (m.t = "store" /\ m.slot = s)
  <1>1. \A j \in DOMAIN job.todo :
           j = i \/ (j \in DOMAIN job'.todo /\ job'.todo[j] = job.todo[j])
    BY DEF Written, Inv, TypeInv, RoutineType, RunType, Jobs
  <1>2. ASSUME ShowInHand(k) PROVE ShowInHand(k)' \/ (IsShow(m, k) /\ frames[m.slots[k]] # None)
    <2>1. PICK j \in DOMAIN job.todo : IsShow(job.todo[j], k) /\ frames[job.todo[j].slots[k]] # None
      BY <1>2 DEF ShowInHand
    <2>2. PICK show \in Messages : show = job.todo[j]
      BY JobParts DEF Inv, TypeInv
    <2>3. show.slots[k] \in Slots /\ IsShow(show, k)
      BY <2>1, <2>2, MessageParts DEF IsShow
    <2>4. frames'[show.slots[k]] # None
      BY <2>1, <2>2, <2>3, WrittenFrames
    <2> QED
      BY <1>1, <2>1, <2>2, <2>3, <2>4 DEF ShowInHand
  <1> QED
    BY <1>1, <1>2 DEF StateInHand, PlainInHand, GlyphInHand, StoreInHand

(* A Show frames that goes out finds its frames and the sheet on board, or *)
(* brings about a Show miss, which only a code reload makes possible.      *)
LEMMA ShowGoesOut ==
  ASSUME Inv, OrderInv, PadInv, Online, NEW i, NextWrite(i), NEW m \in Messages,
         m = job.todo[i], m.t = "show", NEW k \in Named(m)
  PROVE  /\ m.slots[k] \in Slots /\ k \in Keys
         /\ frames[m.slots[k]] = None => Empty(End, m.slots[k])
         /\ frames[m.slots[k]] # None =>
              /\ m.slots[k] = shown[k] /\ m.counts[k] = pips[k]
              /\ Frame(m.slots[k]) \in Frames
              /\ ~Reused(k) => /\ Frame(m.slots[k]).color = ColorOf(k)
                               /\ Frame(m.slots[k]).glyph = glyphs[k]
              /\ Held(End, m.slots[k], Frame(m.slots[k])) \/ Empty(End, m.slots[k])
              /\ reloads = 0 =>
                   /\ Held(End, m.slots[k], Frame(m.slots[k]))
                   /\ pips[k] > 0 => SheetBefore(End)
  <1>1. m.slots[k] \in Slots /\ k \in Keys /\ i \in DOMAIN job.todo
    BY MessageParts DEF NextWrite
  <1>2. PICK s \in Slots : s = m.slots[k]
    BY <1>1
  <1>3. \A j \in DOMAIN job.todo : j = i
    <2>1. \A j \in DOMAIN job.todo : j # i => j < i /\ i <= j
      BY <1>1 DEF NextWrite, OrderInv, ShowLast
    <2>2. \A j \in DOMAIN job.todo : j \in Nat
      BY JobParts, PadAssumption DEF Inv, TypeInv, Positions
    <2> QED
      BY <1>1, <2>1, <2>2
  <1>4. /\ \A r : ~StoreInHand(r)
        /\ ~ \E j \in DOMAIN job.todo : job.todo[j].t = "sheet"
    BY <1>3 DEF StoreInHand
  <1>5. CacheAgrees /\ SheetAgrees
    BY DEF PadInv, OnlineAgrees
  <1>6. Empty(End, s) \/ (frames[s] # None /\ Held(End, s, Frame(s)))
    BY <1>4, <1>5 DEF CacheAgrees
  <1>7. ASSUME frames[s] # None
        PROVE  /\ s = shown[k] /\ m.counts[k] = pips[k]
               /\ Frame(s) \in Frames
               /\ ~Reused(k) => Frame(s).color = ColorOf(k) /\ Frame(s).glyph = glyphs[k]
               /\ reloads = 0 => /\ Held(End, s, Frame(s))
                                 /\ pips[k] > 0 => SheetBefore(End)
    <2>1. s = shown[k] /\ m.counts[k] = pips[k]
      BY <1>1, <1>2, <1>7 DEF PadInv, TodoSays, SaysShow
    <2>2. Frame(s) \in Frames
      BY <1>7 DEF Inv, TypeInv, MemoryType, FrameRecs, Frame, Frames
    <2>3. ASSUME ~Reused(k) PROVE Frame(s).color = ColorOf(k) /\ Frame(s).glyph = glyphs[k]
      <3>1. shown[k] # None
        BY <1>2, <2>1, PadAssumption DEF Slots
      <3>2. /\ keys[k] # None
            /\ Frame(shown[k]) = [color |-> keys[k].color, glyph |-> glyphs[k]]
        BY <1>1, <2>3, <3>1 DEF Inv, MemoryAgrees, Reused
      <3>3. Frame(s) = [color |-> keys[k].color, glyph |-> glyphs[k]]
        BY <2>1, <3>2
      <3> QED
        BY <3>2, <3>3 DEF ColorOf
    <2>4. ASSUME reloads = 0 PROVE ~Empty(End, s)
      <3>1. /\ job.by # "connect" /\ job.by # "free"
        BY <1>1 DEF OrderInv, ShowLast, Inv, HolderInOrder
      <3>2. dev = link /\ dev # 0 /\ Alive(job.dev)
        BY <3>1, OnlineHolder DEF Inv, HolderInOrder
      <3>3. frames[s].gen = gen
        BY <1>1, <1>2, <1>4, <1>7, <3>2 DEF OrderInv, ShowBacked
      <3>4. OnBoard(s, Frame(s))
        BY <1>7, <2>4, <3>2, <3>3 DEF Inv, FramesHeld
      <3>5. \A j \in DOMAIN down : j < End
        BY DEF End, Inv, TypeInv, PadType
      <3> QED
        BY <2>2, <3>4, <3>5, NoneAssumption DEF OnBoard, Empty, NoStore
    <2>5. ASSUME reloads = 0, pips[k] > 0 PROVE SheetBefore(End)
      BY <1>1, <1>4, <1>5, <2>5 DEF SheetAgrees, Inv, MemoryAgrees
    <2> QED
      BY <1>6, <2>1, <2>2, <2>3, <2>4, <2>5
  <1> QED
    BY <1>1, <1>2, <1>6, <1>7

(* A write to the board that is online.                                    *)
LEMMA WritePad ==
  ASSUME Inv, OrderInv, PadInv, Write
  PROVE  PadInv'
  <1>1. PICK i \in Positions : /\ NextWrite(i) /\ Alive(job.dev) /\ Written(i)
                               /\ down' = Append(down, job.todo[i])
    BY DEF Write
  <1>2. i \in DOMAIN job.todo
    BY <1>1 DEF NextWrite
  <1>3. PICK m \in Messages : m = job.todo[i]
    BY <1>2, JobParts DEF Inv, TypeInv
  <1>4. /\ UNCHANGED <<keys, glyphs, shown, pips, sheet, dev, gen, run, conn, restore, misses,
                       closing, link, board, up, reloads, fresh>>
        /\ UNCHANGED <<bkeys, cache, bsheet>>
        /\ down' = Append(down, m) /\ down \in Seq(Messages)
    BY <1>1, <1>3 DEF Written, rout, closers, bounds, board, Inv, TypeInv, PadType
  <1>5. /\ job'.by = job.by /\ DOMAIN job'.todo = DOMAIN job.todo \ {i}
        /\ \A j \in DOMAIN job'.todo : job'.todo[j] = job.todo[j]
    BY <1>1 DEF Written, Inv, TypeInv, RoutineType, RunType, Jobs
  <1>6. \A s \in Slots : Frame(s)' = Frame(s) /\ (frames'[s] = None <=> frames[s] = None)
    BY <1>1, WrittenFrames
  <1>7. SaysState(m) /\ SaysGlyph(m)
    BY <1>2, <1>3 DEF PadInv, TodoSays
  <1>8. job.by # "free" /\ (closing = "no" => Online)
    <2>1. job.by # "free"
      BY <1>2 DEF Inv, HolderInOrder
    <2>2. CASE job.by = "connect"
      BY <1>1, <2>2 DEF Inv, HolderInOrder, Alive, Online
    <2>3. CASE job.by # "connect"
      BY <1>1, <2>1, <2>3 DEF OrderInv, RunInOrder, Inv, GenerationsInOrder, Alive, Online
    <2> QED
      BY <2>1, <2>2, <2>3
  <1>9. Online' <=> Online
    BY <1>4 DEF Online
  <1>10. /\ TodoSays' /\ BoardDraws' /\ CustomIsGlyph' /\ FreshKnown' /\ OfflinePristine'
    <2>1. TodoSays'
      BY <1>4, <1>5, <1>6, TodoSaysLess DEF PadInv
    <2> QED
      BY <1>4, <1>8, <1>9, <2>1
         DEF PadInv, BoardDraws, CustomIsGlyph, FreshKnown, OfflinePristine
  <1>11. ASSUME Online
         PROVE  /\ CacheAgrees' /\ SheetAgrees' /\ CustomFirst'
                /\ \A k \in Keys : ColorOK(k)' /\ FaceOK(k)' /\ PipOK(k)'
    <2>1. CacheAgrees /\ SheetAgrees /\ CustomFirst
      BY <1>11 DEF PadInv, OnlineAgrees
    <2>2. \A s : StoreInHand(s) => StoreInHand(s)' \/ (m.t = "store" /\ m.slot = s)
      <3>1. 0 \in Keys
        BY PadAssumption DEF Keys
      <3> QED
        BY <1>1, <1>2, <1>3, <3>1, LeftInHand
    <2>3. CacheAgrees'
      <3> SUFFICES ASSUME NEW s \in Slots, ~ Empty(End, s)'
                   PROVE  (frames[s] # None /\ (Held(End, s, Frame(s)) \/ StoreInHand(s)))'
        BY DEF CacheAgrees
      <3>1. CASE m.t = "store" /\ m.slot = s
        <4>1. frames[s] # None /\ m.frame = Frame(s)
          BY <1>2, <1>3, <3>1 DEF Inv, StoresOnRecord
        <4>2. Held(End, s, m.frame)'
          BY <1>4, <3>1, AppendEnd
        <4>3. Held(End, s, Frame(s))'
          BY <1>6, <4>1, <4>2
        <4> QED
          BY <1>6, <4>1, <4>3
      <3>2. CASE ~(m.t = "store" /\ m.slot = s)
        <4>1. ~ Empty(End, s)
          BY <1>4, <3>2, AppendEnd
        <4>2. frames[s] # None /\ (Held(End, s, Frame(s)) \/ StoreInHand(s))
          BY <2>1, <4>1 DEF CacheAgrees
        <4>3. StoreInHand(s) => StoreInHand(s)'
          BY <2>2, <3>2
        <4>4. Held(End, s, Frame(s)) => Held(End, s, Frame(s))'
          <5>1. PICK f : f = Frame(s)
            OBVIOUS
          <5>2. Held(End, s, f) => Held(End, s, f)'
            BY <1>4, <3>2, AppendEnd
          <5>3. f = Frame(s)'
            BY <1>6, <5>1
          <5> QED
            BY <5>1, <5>2, <5>3
        <4> QED
          BY <1>6, <4>2, <4>3, <4>4
      <3> QED
        BY <3>1, <3>2
    <2>4. SheetAgrees'
      <3>1. \A j \in DOMAIN job.todo : j = i \/ (j \in DOMAIN job'.todo /\ job'.todo[j] = job.todo[j])
        BY <1>5
      <3>2. SheetBefore(End)' <=> SheetBefore(End) \/ m.t = "sheet"
        BY <1>4, AppendEnd
      <3> QED
        BY <1>3, <1>4, <2>1, <3>1, <3>2 DEF SheetAgrees
    <2>5. CustomFirst'
      <3>1. run = "replay" => m.t # "show"
        BY <1>2, <1>3 DEF OrderInv, ShowLast, Inv, HolderInOrder
      <3>2. NoShow(End)' <=> NoShow(End) /\ m.t # "show"
        BY <1>4, AppendEnd
      <3>3. Uncached' <=> Uncached
        BY <1>4 DEF Uncached
      <3>4. m.t = "key" /\ m.custom => run = "replay"
        BY <1>7 DEF SaysState, Inv, HolderInOrder
      <3>5. ASSUME NEW j \in DOMAIN down', down'[j].t = "key", down'[j].custom
            PROVE  NoShow(j)' /\ Uncached'
        <4>1. /\ DOMAIN down = 1 .. Len(down) /\ Len(down) \in Nat
              /\ DOMAIN down' = 1 .. Len(down) + 1
              /\ \A l \in 1 .. Len(down) : down'[l] = down[l]
              /\ down'[Len(down) + 1] = m
          BY <1>4, AppendParts
        <4>2. NoShow(j)' <=> NoShow(j)
          BY <1>4, <4>1, AppendKeeps
        <4>3. CASE j \in DOMAIN down
          BY <2>1, <3>3, <3>5, <4>1, <4>2, <4>3 DEF CustomFirst
        <4>4. CASE j \notin DOMAIN down
          <5>1. j = End /\ down'[j] = m
            BY <4>1, <4>4 DEF End
          <5> QED
            BY <2>1, <3>3, <3>4, <3>5, <4>2, <5>1 DEF CustomFirst
        <4> QED
          BY <4>3, <4>4
      <3> QED
        BY <1>4, <2>1, <3>1, <3>2, <3>3, <3>5 DEF CustomFirst
    <2>6. ASSUME NEW k \in Keys PROVE ColorOK(k)' /\ FaceOK(k)' /\ PipOK(k)'
      <3>0. Reused(k)' <=> Reused(k)
        BY <1>1 DEF Written, Reused
      <3>1. ColorOK(k) /\ FaceOK(k) /\ PipOK(k)
        BY <1>11 DEF PadInv, OnlineAgrees
      <3>2. PICK n : n = Len(down) + 1
        OBVIOUS
      <3>3. /\ n \in Nat /\ n \in DOMAIN down' /\ down'[n] = m
            /\ ColorSets(k)' \subseteq 1 .. n /\ FaceSets(k)' \subseteq 1 .. n
            /\ PipSets(k)' \subseteq 1 .. n
            /\ Paints(n, k)' <=> IsShow(m, k) /\ ~Empty(n, m.slots[k])
            /\ WillMiss(n, k)' <=> IsShow(m, k) /\ Empty(n, m.slots[k])
            /\ \A j \in DOMAIN down : j \in DOMAIN down' /\ (WillMiss(j, k)' <=> WillMiss(j, k))
            /\ n \notin ColorSets(k)' /\ ColorEnds(k) => ColorEnds(k)'
            /\ n \notin FaceSets(k)' /\ FaceEnds(k) => FaceEnds(k)'
            /\ n \notin PipSets(k)' /\ PipEnds(k) => PipEnds(k)'
        BY <1>4, <3>2, AppendKey
      <3>4. End = n
        BY <3>2 DEF End
      <3>5. Repair(k) => Repair(k)'
        BY <1>4, <3>3 DEF Repair
      <3>6. ColorSent(k)' <=> ColorSent(k)
        BY <1>4 DEF ColorSent
      <3>7. ColorOf(k)' = ColorOf(k)
        BY <1>4 DEF ColorOf
      <3>8. /\ StateInHand(k) => StateInHand(k)' \/ IsState(m, k)
            /\ PlainInHand(k) => PlainInHand(k)' \/ (IsState(m, k) /\ ~m.custom)
            /\ GlyphInHand(k) => GlyphInHand(k)' \/ IsGlyph(m, k)
            /\ ShowInHand(k) => ShowInHand(k)' \/ (IsShow(m, k) /\ frames[m.slots[k]] # None)
        BY <1>1, <1>2, <1>3, LeftInHand
      <3>9. ASSUME IsShow(m, k)
            PROVE  /\ frames[m.slots[k]] = None => ~ Paints(n, k)'
                   /\ frames[m.slots[k]] # None =>
                        /\ m.slots[k] = shown[k] /\ m.counts[k] = pips[k]
                        /\ Frame(m.slots[k]) \in Frames
                        /\ ~Reused(k) => /\ Frame(m.slots[k]).color = ColorOf(k)
                                         /\ Frame(m.slots[k]).glyph = glyphs[k]
                        /\ \/ Held(n, m.slots[k], Frame(m.slots[k]))' /\ Paints(n, k)'
                           \/ WillMiss(n, k)' /\ reloads # 0
                        /\ reloads = 0 /\ pips[k] > 0 => SheetBefore(n)'
        <4>1. PICK s \in Slots : s = m.slots[k]
          BY <3>9, MessageParts DEF IsShow
        <4>2. /\ frames[s] = None => Empty(n, s)
              /\ frames[s] # None =>
                   /\ s = shown[k] /\ m.counts[k] = pips[k]
                   /\ Frame(s) \in Frames
                   /\ ~Reused(k) => Frame(s).color = ColorOf(k) /\ Frame(s).glyph = glyphs[k]
                   /\ Held(n, s, Frame(s)) \/ Empty(n, s)
                   /\ reloads = 0 => Held(n, s, Frame(s)) /\ (pips[k] > 0 => SheetBefore(n))
          BY <1>1, <1>3, <1>11, <3>4, <3>9, <4>1, ShowGoesOut DEF IsShow
        <4>3. PICK f : f = Frame(s)
          OBVIOUS
        <4>4. f = Frame(s)'
          BY <1>6, <4>3
        <4>5. /\ SheetBefore(n)' <=> SheetBefore(n)
              /\ Held(n, s, f)' <=> Held(n, s, f)
          <5>1. n \in 1 .. Len(down) + 1
            BY <1>4, <3>2, AppendParts
          <5> QED
            BY <1>4, <5>1, AppendKeeps
        <4>6. frames[s] # None /\ Held(n, s, f) => ~Empty(n, s)
          BY <4>2, <4>3, HeldNotEmpty
        <4>7. Held(n, s, f) => Held(n, s, Frame(s))'
          BY <4>4, <4>5
        <4> QED
          BY <3>3, <3>9, <4>1, <4>2, <4>3, <4>5, <4>6, <4>7
      <3>10. ASSUME IsShow(m, k), frames[m.slots[k]] # None, ~Reused(k)
             PROVE  ColorOK(k)' /\ FaceOK(k)' /\ PipOK(k)'
        <4>1. PICK s \in Slots : s = m.slots[k]
          BY <3>10, MessageParts DEF IsShow
        <4>2. CASE WillMiss(n, k)' /\ reloads # 0
          <5>1. Repair(k)'
            BY <1>4, <3>3, <3>9, <3>10, <4>1, <4>2, PadAssumption DEF Repair, Slots
          <5> QED
            BY <1>4, <4>2, <5>1 DEF ColorOK, FaceOK, PipOK
        <4>3. CASE Held(n, s, Frame(s))' /\ Paints(n, k)'
          <5>1. PICK f \in Frames : f = Frame(s)' /\ f.color = ColorOf(k) /\ f.glyph = glyphs[k]
            BY <1>6, <3>9, <3>10, <4>1
          <5>2. Held(n, s, f)'
            BY <4>3, <5>1
          <5>3. m.t = "show" /\ ~IsState(m, k) /\ ~IsGlyph(m, k)
            BY <3>10 DEF IsShow, IsState, IsGlyph
          <5>4. n \in ColorSets(k)' /\ n \in ColorRight(k)'
            BY <3>3, <3>7, <4>1, <4>3, <5>1, <5>2, <5>3 DEF ColorSets, ColorRight
          <5>5. n \in FaceSets(k)' /\ n \in FaceRight(k)'
            BY <1>4, <3>3, <4>1, <4>3, <5>1, <5>2, <5>3 DEF FaceSets, FaceRight
          <5>6. n \in PipSets(k)' /\ (reloads = 0 => n \in PipRight(k)')
            BY <1>4, <3>3, <3>9, <3>10, <4>3, <5>3 DEF PipSets, PipRight
          <5>7. ColorEnds(k)' /\ FaceEnds(k)' /\ (reloads = 0 => PipEnds(k)')
            BY <3>3, <5>4, <5>5, <5>6, EndsLast DEF ColorEnds, FaceEnds, PipEnds
          <5> QED
            BY <1>4, <5>7 DEF ColorOK, FaceOK, PipOK
        <4> QED
          BY <3>9, <3>10, <4>1, <4>2, <4>3
      <3>11. CASE ~(IsShow(m, k) /\ frames[m.slots[k]] # None)
        <4>1. ~ Paints(n, k)'
          BY <3>3, <3>9, <3>11
        <4>2. ShowInHand(k) => ShowInHand(k)'
          BY <3>8, <3>11
        <4>3. ColorOK(k)'
          <5>1. CASE IsState(m, k)
            <6>1. m.color = ColorOf(k) /\ ~IsShow(m, k)
              BY <1>7, <5>1 DEF SaysState, IsState, IsShow, ColorOf
            <6>2. n \in ColorSets(k)' /\ n \in ColorRight(k)'
              BY <3>3, <3>7, <5>1, <6>1 DEF ColorSets, ColorRight
            <6>3. ColorEnds(k)'
              BY <3>3, <6>2, EndsLast DEF ColorEnds
            <6> QED
              BY <6>3 DEF ColorOK
          <5>2. CASE ~IsState(m, k)
            <6>1. n \notin ColorSets(k)'
              BY <3>3, <4>1, <5>2 DEF ColorSets
            <6>2. (ColorEnds(k) => ColorEnds(k)') /\ (StateInHand(k) => StateInHand(k)')
              BY <3>3, <3>8, <5>2, <6>1
            <6> QED
              BY <3>0, <1>4, <3>1, <3>5, <3>6, <4>2, <6>2 DEF ColorOK
          <5> QED
            BY <5>1, <5>2
        <4>4. FaceOK(k)'
          <5>1. CASE IsState(m, k) /\ ~m.custom
            <6>1. glyphs[k] = None /\ ~IsShow(m, k) /\ ~IsGlyph(m, k)
              BY <1>7, <5>1 DEF SaysState, IsState, IsShow, IsGlyph, PadInv, CustomIsGlyph
            <6>2. n \in FaceSets(k)' /\ n \in FaceRight(k)'
              BY <1>4, <3>3, <5>1, <6>1 DEF FaceSets, FaceRight
            <6>3. FaceEnds(k)'
              BY <3>3, <6>2, EndsLast DEF FaceEnds
            <6> QED
              BY <6>3 DEF FaceOK
          <5>2. CASE IsGlyph(m, k)
            <6>1. m.glyph = glyphs[k] /\ ~IsShow(m, k) /\ ~IsState(m, k)
              BY <1>7, <5>2 DEF SaysGlyph, IsState, IsShow, IsGlyph
            <6>2. n \in FaceSets(k)' /\ n \in FaceRight(k)'
              BY <1>4, <3>3, <5>2, <6>1 DEF FaceSets, FaceRight
            <6>3. FaceEnds(k)'
              BY <3>3, <6>2, EndsLast DEF FaceEnds
            <6> QED
              BY <6>3 DEF FaceOK
          <5>3. CASE ~(IsState(m, k) /\ ~m.custom) /\ ~IsGlyph(m, k)
            <6>1. n \notin FaceSets(k)'
              BY <3>3, <4>1, <5>3 DEF FaceSets
            <6>2. /\ FaceEnds(k) => FaceEnds(k)' 
                  /\ PlainInHand(k) => PlainInHand(k)'
                  /\ GlyphInHand(k) => GlyphInHand(k)'
              BY <3>3, <3>8, <5>3, <6>1
            <6> QED
              BY <3>0, <1>4, <3>1, <3>5, <4>2, <6>2 DEF FaceOK
          <5> QED
            BY <5>1, <5>2, <5>3
        <4>5. PipOK(k)'
          <5>1. CASE IsState(m, k) \/ IsGlyph(m, k)
            <6>1. CASE pips[k] = 0
              <7>1. ~IsShow(m, k)
                BY <5>1 DEF IsState, IsGlyph, IsShow
              <7>2. n \in PipSets(k)' /\ n \in PipRight(k)'
                BY <1>4, <3>3, <5>1, <6>1, <7>1 DEF PipSets, PipRight
              <7>3. PipEnds(k)'
                BY <3>3, <7>2, EndsLast DEF PipEnds
              <7> QED
                BY <7>3 DEF PipOK
            <6>2. CASE pips[k] # 0
              <7>1. job.by = "connect"
                BY <1>7, <5>1, <6>2 DEF SaysState, SaysGlyph, IsState, IsGlyph
              <7>2. Restoring' /\ pips[k] > 0
                BY <1>4, <6>2, <7>1
                   DEF Restoring, Inv, HolderInOrder, TypeInv, MemoryType, Counts
              <7> QED
                BY <1>4, <7>2 DEF PipOK
            <6> QED
              BY <6>1, <6>2
          <5>2. CASE ~(IsState(m, k) \/ IsGlyph(m, k))
            <6>1. n \notin PipSets(k)'
              BY <3>3, <4>1, <5>2 DEF PipSets
            <6>2. /\ PipEnds(k) => PipEnds(k)' 
                  /\ StateInHand(k) => StateInHand(k)'
                  /\ GlyphInHand(k) => GlyphInHand(k)'
                  /\ Restoring' <=> Restoring
              BY <1>4, <3>3, <3>8, <5>2, <6>1 DEF Restoring
            <6> QED
              BY <3>0, <1>4, <3>1, <3>5, <4>2, <6>2 DEF PipOK
          <5> QED
            BY <5>1, <5>2
        <4> QED
          BY <4>3, <4>4, <4>5
      <3>12. CASE Reused(k)
        BY <3>0, <3>12 DEF ColorOK, FaceOK, PipOK
      <3> QED
        BY <3>10, <3>11, <3>12
    <2> QED
      BY <2>3, <2>4, <2>5, <2>6
  <1> QED
    BY <1>9, <1>10, <1>11 DEF PadInv, OnlineAgrees

-----------------------------------------------------------------------------
(* A message that the board handles.                                       *)

(* A key state, and a glyph, on one key.                                   *)
LEMMA StateDraws ==
  ASSUME NEW b \in BoardKeys, Drawing(b), NEW m \in Messages, m.t = "key",
         NEW c, c = WithKeyState(b, m)
  PROVE  /\ Drawing(c) /\ c.color = m.color
         /\ ~m.custom => c.on.glyph = None /\ c.on.pip = 0 /\ ~c.cached
         /\ m.custom /\ ~b.cached => c.on.glyph = b.on.glyph /\ c.on.pip = 0 /\ ~c.cached
  <1>1. m.color \in Colors /\ m.custom \in BOOLEAN
    BY MessageParts
  <1>2. CASE m.custom
    <2>1. PICK d \in BoardKeys : d = [b EXCEPT !.color = m.color]
      BY <1>1 DEF BoardKeys
    <2>2. d.color = m.color /\ d.glyph = b.glyph /\ d.cached = b.cached /\ d.on = b.on
      BY <2>1 DEF BoardKeys
    <2>3. c = Rendered(d)
      BY <1>2, <2>1 DEF WithKeyState
    <2>4. CASE d.cached /\ d.glyph = None /\ d.color = d.on.color
      BY <1>2, <2>2, <2>3, <2>4 DEF Rendered, Drawing
    <2>5. CASE ~(d.cached /\ d.glyph = None /\ d.color = d.on.color)
      <3>1. c = [d EXCEPT !.on = Plain(d.color, d.glyph), !.cached = FALSE]
        BY <2>3, <2>5 DEF Rendered
      <3>2. /\ c.on = Plain(d.color, d.glyph) /\ c.cached = FALSE /\ c.color = d.color
            /\ c.glyph = d.glyph
        BY <3>1 DEF BoardKeys
      <3>3. c.on.glyph = b.glyph /\ c.on.pip = 0
        BY <2>2, <3>2 DEF Plain
      <3>4. ~b.cached => b.on.glyph = b.glyph
        BY DEF Drawing, Plain
      <3> QED
        BY <1>2, <2>2, <3>2, <3>3, <3>4 DEF Drawing
    <2> QED
      BY <2>4, <2>5
  <1>3. CASE ~m.custom
    <2>1. PICK d \in BoardKeys : d = [b EXCEPT !.color = m.color, !.glyph = None, !.cached = FALSE]
      BY <1>1 DEF BoardKeys, GlyphOrNone
    <2>2. d.color = m.color /\ d.glyph = None /\ d.cached = FALSE
      BY <2>1 DEF BoardKeys
    <2>3. c = [d EXCEPT !.on = Plain(d.color, d.glyph), !.cached = FALSE]
      BY <1>3, <2>1, <2>2 DEF WithKeyState, Rendered
    <2>4. /\ c.on = Plain(d.color, d.glyph) /\ c.cached = FALSE /\ c.color = d.color
          /\ c.glyph = d.glyph
      BY <2>3 DEF BoardKeys
    <2>5. c.on.glyph = None /\ c.on.pip = 0
      BY <2>2, <2>4 DEF Plain
    <2> QED
      BY <1>3, <2>2, <2>4, <2>5 DEF Drawing
  <1> QED
    BY <1>2, <1>3

(* A glyph drawn on a key of the board.                                    *)
LEMMA GlyphDraws ==
  ASSUME NEW b \in BoardKeys, NEW m \in Messages, m.t = "glyph", NEW c, c = WithGlyph(b, m)
  PROVE  /\ Drawing(c) /\ c.color = b.color /\ c.on.glyph = m.glyph /\ c.on.pip = 0
         /\ ~c.cached
  <1>1. m.glyph \in Glyphs /\ m.glyph # None
    BY MessageParts, PadAssumption
  <1>2. PICK d \in BoardKeys : d = [b EXCEPT !.glyph = m.glyph]
    BY <1>1 DEF BoardKeys, GlyphOrNone
  <1>3. d.glyph = m.glyph /\ d.color = b.color
    BY <1>2 DEF BoardKeys
  <1>4. c = [d EXCEPT !.on = Plain(d.color, d.glyph), !.cached = FALSE]
    BY <1>1, <1>2, <1>3 DEF WithGlyph, Rendered
  <1>5. /\ c.on = Plain(d.color, d.glyph) /\ c.cached = FALSE /\ c.color = d.color
        /\ c.glyph = d.glyph
    BY <1>4 DEF BoardKeys
  <1>6. c.on.glyph = m.glyph /\ c.on.pip = 0
    BY <1>3, <1>5 DEF Plain
  <1> QED
    BY <1>3, <1>5, <1>6 DEF Drawing

(* What the board's handling of a message does to the cache and to a key.  *)
LEMMA HandleCache ==
  ASSUME Inv, Handle, NEW m \in Messages, m = Head(down)
  PROVE  /\ \A s \in Slots : cache'[s] = IF m.t = "store" /\ m.slot = s
                                         THEN m.frame ELSE cache[s]
         /\ bsheet' <=> bsheet \/ m.t = "sheet"
         /\ up' = up \/ (m.t = "show" /\ up' = Append(up, Missed(cache, m)))
         /\ m.t = "show" /\ Missed(cache, m) # {} => up' = Append(up, Missed(cache, m))
  <1>1. cache \in [Slots -> Frames \union {None}] /\ bsheet \in BOOLEAN
    BY DEF Inv, TypeInv, PadType
  <1>2. CASE m.t \in {"key", "glyph"}
    BY <1>1, <1>2 DEF Handle
  <1>3. CASE m.t = "store"
    <2>1. cache' = [cache EXCEPT ![m.slot] = m.frame] /\ UNCHANGED <<bsheet, up>>
      BY <1>3 DEF Handle
    <2>2. m.slot \in Slots
      BY <1>3, StoreParts
    <2> QED
      BY <1>1, <1>3, <2>1, <2>2
  <1>4. CASE m.t = "sheet"
    BY <1>1, <1>4 DEF Handle
  <1>5. CASE m.t = "show"
    BY <1>1, <1>5 DEF Handle
  <1> QED
    BY <1>2, <1>3, <1>4, <1>5, MessageParts

(* The board handles one message: what every key then draws.               *)
LEMMA HandleKey ==
  ASSUME Inv, BoardDraws, Handle, NEW m \in Messages, m = Head(down), NEW k \in Keys
  PROVE  /\ Drawing(bkeys[k])'
         /\ IsState(m, k) =>
              /\ bkeys'[k].color = m.color
              /\ ~m.custom => bkeys'[k].on.glyph = None /\ bkeys'[k].on.pip = 0
              /\ m.custom /\ ~bkeys[k].cached =>
                   bkeys'[k].on.glyph = bkeys[k].on.glyph /\ bkeys'[k].on.pip = 0
         /\ IsGlyph(m, k) =>
              /\ bkeys'[k].color = bkeys[k].color
              /\ bkeys'[k].on.glyph = m.glyph /\ bkeys'[k].on.pip = 0
         /\ IsShow(m, k) /\ cache[m.slots[k]] # None =>
              /\ bkeys'[k].color = cache[m.slots[k]].color
              /\ bkeys'[k].on.glyph = cache[m.slots[k]].glyph
              /\ bkeys'[k].on.pip = IF bsheet THEN m.counts[k] ELSE 0
         /\ ~IsState(m, k) /\ ~IsGlyph(m, k) /\ ~(IsShow(m, k) /\ cache[m.slots[k]] # None)
              => bkeys'[k] = bkeys[k]
         /\ m.t # "show" /\ ~bkeys[k].cached => ~bkeys'[k].cached
  <1>1. bkeys \in [Keys -> BoardKeys] /\ Drawing(bkeys[k]) /\ bkeys[k] \in BoardKeys
    BY DEF Inv, TypeInv, PadType, BoardDraws
  <1>2. ASSUME bkeys'[k] = bkeys[k] PROVE Drawing(bkeys[k])'
    BY <1>1, <1>2 DEF Drawing
  <1>3. CASE m.t = "key"
    <2>1. bkeys' = [bkeys EXCEPT ![m.key] = WithKeyState(bkeys[m.key], m)]
      BY <1>3 DEF Handle
    <2>2. CASE m.key = k
      <3>1. bkeys'[k] = WithKeyState(bkeys[k], m)
        BY <1>1, <2>1, <2>2
      <3>2. PICK c : c = bkeys'[k]
        OBVIOUS
      <3>3. /\ Drawing(c) /\ c.color = m.color
            /\ ~m.custom => c.on.glyph = None /\ c.on.pip = 0 /\ ~c.cached
            /\ m.custom /\ ~bkeys[k].cached =>
                 c.on.glyph = bkeys[k].on.glyph /\ c.on.pip = 0 /\ ~c.cached
        BY <1>1, <1>3, <3>1, <3>2, StateDraws
      <3>4. Drawing(bkeys[k])'
        BY <3>2, <3>3 DEF Drawing
      <3> QED
        BY <1>3, <2>2, <3>2, <3>3, <3>4 DEF IsState, IsGlyph, IsShow
    <2>3. CASE m.key # k
      <3>1. bkeys'[k] = bkeys[k]
        BY <1>1, <2>1, <2>3
      <3> QED
        BY <1>2, <1>3, <2>3, <3>1 DEF IsState, IsGlyph, IsShow
    <2> QED
      BY <2>2, <2>3
  <1>4. CASE m.t = "glyph"
    <2>1. bkeys' = [bkeys EXCEPT ![m.key] = WithGlyph(bkeys[m.key], m)]
      BY <1>4 DEF Handle
    <2>2. CASE m.key = k
      <3>1. bkeys'[k] = WithGlyph(bkeys[k], m)
        BY <1>1, <2>1, <2>2
      <3>2. PICK c : c = bkeys'[k]
        OBVIOUS
      <3>3. /\ Drawing(c) /\ c.color = bkeys[k].color /\ c.on.glyph = m.glyph
            /\ c.on.pip = 0 /\ ~c.cached
        BY <1>1, <1>4, <3>1, <3>2, GlyphDraws
      <3>4. Drawing(bkeys[k])'
        BY <3>2, <3>3 DEF Drawing
      <3> QED
        BY <1>4, <2>2, <3>2, <3>3, <3>4 DEF IsState, IsGlyph, IsShow
    <2>3. CASE m.key # k
      <3>1. bkeys'[k] = bkeys[k]
        BY <1>1, <2>1, <2>3
      <3> QED
        BY <1>2, <1>4, <2>3, <3>1 DEF IsState, IsGlyph, IsShow
    <2> QED
      BY <2>2, <2>3
  <1>5. CASE m.t \in {"store", "sheet"}
    <2>1. bkeys' = bkeys
      BY <1>5 DEF Handle
    <2> QED
      BY <1>2, <1>5, <2>1 DEF IsState, IsGlyph, IsShow
  <1>6. CASE m.t = "show"
    <2>1. bkeys' = AfterShow(bkeys, cache, bsheet, m)
      BY <1>6 DEF Handle
    <2>2. CASE k \in Named(m) \ Missed(cache, m)
      <3>1. /\ bkeys'[k] = WithCachedFrame(cache[m.slots[k]], m.counts[k], bsheet)
            /\ cache[m.slots[k]] # None
        BY <2>1, <2>2 DEF AfterShow, Missed
      <3>2. PICK c : c = bkeys'[k]
        OBVIOUS
      <3>3. /\ c.color = cache[m.slots[k]].color /\ c.glyph = None /\ c.cached = TRUE
            /\ c.on.color = cache[m.slots[k]].color
            /\ c.on.glyph = cache[m.slots[k]].glyph
            /\ c.on.pip = IF bsheet THEN m.counts[k] ELSE 0
        BY <3>1, <3>2 DEF WithCachedFrame
      <3>4. Drawing(bkeys[k])'
        BY <3>2, <3>3 DEF Drawing
      <3> QED
        BY <1>6, <2>2, <3>1, <3>2, <3>3, <3>4 DEF IsState, IsGlyph, IsShow
    <2>3. CASE k \notin Named(m) \ Missed(cache, m)
      <3>1. bkeys'[k] = bkeys[k]
        BY <2>1, <2>3 DEF AfterShow
      <3>2. ~(IsShow(m, k) /\ cache[m.slots[k]] # None)
        BY <2>3 DEF IsShow, Missed
      <3> QED
        BY <1>2, <1>6, <3>1, <3>2 DEF IsState, IsGlyph
    <2> QED
      BY <2>2, <2>3
  <1> QED
    BY <1>3, <1>4, <1>5, <1>6, MessageParts

(* What ends right for a key still does when the board has handled one     *)
(* message more.                                                           *)
LEMMA HandleEnds ==
  ASSUME Inv, BoardDraws, CustomFirst, Handle, NEW k \in Keys
  PROVE  /\ ColorEnds(k) => ColorEnds(k)'
         /\ FaceEnds(k) => FaceEnds(k)'
         /\ PipEnds(k) => PipEnds(k)'
         /\ Repair(k) => Repair(k)'
  <1>1. /\ down \in Seq(Messages) /\ down # <<>> /\ down' = Tail(down)
        /\ UNCHANGED <<keys, glyphs, shown, pips, misses, conn>>
        /\ up \in Seq(SUBSET Keys) /\ cache \in [Slots -> Frames \union {None}]
    BY DEF Handle, memory, pictures, rout, Inv, TypeInv, PadType
  <1>2. PICK m \in Messages : m = Head(down)
    BY <1>1, HeadTailProperties
  <1>3. PICK n : n = Len(down)
    OBVIOUS
  <1>4. /\ DOMAIN down = 1 .. n /\ n \in Nat \ {0} /\ DOMAIN down' = 1 .. n - 1
        /\ \A i \in 1 .. n - 1 : down'[i] = down[i + 1]
        /\ \A i \in 1 .. n : down[i] \in Messages
        /\ down[1] = m /\ 1 \in DOMAIN down
    BY <1>1, <1>2, <1>3, TailParts
  <1>5. /\ \A s \in Slots : cache'[s] = IF m.t = "store" /\ m.slot = s THEN m.frame ELSE cache[s]
        /\ bsheet' <=> bsheet \/ m.t = "sheet"
        /\ up' = up \/ (m.t = "show" /\ up' = Append(up, Missed(cache, m)))
        /\ m.t = "show" /\ Missed(cache, m) # {} => up' = Append(up, Missed(cache, m))
    BY <1>2, HandleCache
  <1>6. \A i \in 1 .. n :
          /\ SheetBefore(i)' <=> SheetBefore(i + 1)
          /\ \A s \in Slots : Empty(i, s)' <=> Empty(i + 1, s)
          /\ \A s \in Slots, f \in Frames : Held(i, s, f)' <=> Held(i + 1, s, f)
    BY <1>1, <1>2, <1>3, <1>5, TailKeeps
  <1>7. \A i \in 1 .. n : IsShow(down[i], k) => down[i].slots[k] \in Slots
    <2> SUFFICES ASSUME NEW i \in 1 .. n, NEW x \in Messages, x = down[i], IsShow(x, k)
                 PROVE  x.slots[k] \in Slots
      BY <1>4
    <2> QED
      BY MessageParts DEF IsShow
  <1>8. \A i \in 1 .. n - 1 : /\ i + 1 \in 1 .. n /\ i \in 1 .. n
                              /\ i \in DOMAIN down' /\ i + 1 \in DOMAIN down
    BY <1>4
  <1>9. \A i \in 1 .. n - 1 : /\ Paints(i, k)' <=> Paints(i + 1, k)
                              /\ WillMiss(i, k)' <=> WillMiss(i + 1, k)
    BY <1>4, <1>6, <1>7, <1>8 DEF Paints, WillMiss
  <1>10. /\ \A i \in 1 .. n - 1 : i \in ColorSets(k)' <=> i + 1 \in ColorSets(k)
         /\ \A i \in 1 .. n - 1 : i \in FaceSets(k)' <=> i + 1 \in FaceSets(k)
         /\ \A i \in 1 .. n - 1 : i \in PipSets(k)' <=> i + 1 \in PipSets(k)
    BY <1>4, <1>8, <1>9 DEF ColorSets, FaceSets, PipSets
  <1>11. /\ ColorSets(k) \subseteq 1 .. n /\ FaceSets(k) \subseteq 1 .. n
         /\ PipSets(k) \subseteq 1 .. n
         /\ ColorSets(k)' \subseteq 1 .. n - 1 /\ FaceSets(k)' \subseteq 1 .. n - 1
         /\ PipSets(k)' \subseteq 1 .. n - 1
    BY <1>4 DEF ColorSets, FaceSets, PipSets
  <1>12. ColorOf(k)' = ColorOf(k)
    BY <1>1 DEF ColorOf
  <1>13. \A i \in 1 .. n - 1 : i + 1 \in ColorRight(k) => i \in ColorRight(k)'
    BY <1>4, <1>6, <1>7, <1>8, <1>12 DEF ColorRight
  <1>14. \A i \in 1 .. n - 1 : i + 1 \in FaceRight(k) => i \in FaceRight(k)'
    BY <1>1, <1>4, <1>6, <1>7, <1>8 DEF FaceRight
  <1>15. \A i \in 1 .. n - 1 : i + 1 \in PipRight(k) => i \in PipRight(k)'
    BY <1>1, <1>4, <1>6, <1>8 DEF PipRight
  <1>16. \A j \in DOMAIN down : ~(j < 1)
    BY <1>4
  <1>17. /\ \A s : Empty(1, s) <=> cache[s] = None
         /\ \A s, f : Held(1, s, f) => cache[s] = f
         /\ SheetBefore(1) <=> bsheet
    BY <1>16 DEF Empty, Held, NoStore, SheetBefore
  <1>18. /\ 1 \in ColorSets(k) <=> IsState(m, k) \/ (IsShow(m, k) /\ cache[m.slots[k]] # None)
         /\ 1 \in FaceSets(k) <=> \/ IsState(m, k) /\ ~m.custom
                                  \/ IsGlyph(m, k) \/ (IsShow(m, k) /\ cache[m.slots[k]] # None)
         /\ 1 \in PipSets(k) <=> \/ IsState(m, k)
                                 \/ IsGlyph(m, k) \/ (IsShow(m, k) /\ cache[m.slots[k]] # None)
    BY <1>4, <1>17 DEF ColorSets, FaceSets, PipSets, Paints
  <1>19. IsState(m, k) /\ m.custom => ~bkeys[k].cached
    BY <1>4 DEF IsState, CustomFirst, Uncached
  <1>20. /\ IsState(m, k) =>
              /\ bkeys'[k].color = m.color
              /\ ~m.custom => bkeys'[k].on.glyph = None /\ bkeys'[k].on.pip = 0
              /\ m.custom /\ ~bkeys[k].cached =>
                   bkeys'[k].on.glyph = bkeys[k].on.glyph /\ bkeys'[k].on.pip = 0
         /\ IsGlyph(m, k) =>
              /\ bkeys'[k].color = bkeys[k].color
              /\ bkeys'[k].on.glyph = m.glyph /\ bkeys'[k].on.pip = 0
         /\ IsShow(m, k) /\ cache[m.slots[k]] # None =>
              /\ bkeys'[k].color = cache[m.slots[k]].color
              /\ bkeys'[k].on.glyph = cache[m.slots[k]].glyph
              /\ bkeys'[k].on.pip = IF bsheet THEN m.counts[k] ELSE 0
         /\ ~IsState(m, k) /\ ~IsGlyph(m, k) /\ ~(IsShow(m, k) /\ cache[m.slots[k]] # None)
              => bkeys'[k] = bkeys[k]
    BY <1>2, HandleKey
  <1>21. ~(IsState(m, k) /\ IsGlyph(m, k)) /\ ~(IsState(m, k) /\ IsShow(m, k))
         /\ ~(IsGlyph(m, k) /\ IsShow(m, k))
    BY DEF IsState, IsGlyph, IsShow
  <1>22. ASSUME ColorEnds(k) PROVE ColorEnds(k)'
    <2>1. 1 \in ColorSets(k) /\ 1 \in ColorRight(k) => bkeys'[k].color = ColorOf(k)
      <3>1. 1 \in ColorRight(k) => /\ IsState(m, k) => m.color = ColorOf(k)
                                   /\ IsShow(m, k) => cache[m.slots[k]].color = ColorOf(k)
        BY <1>4, <1>17 DEF ColorRight
      <3> QED
        BY <1>18, <1>20, <3>1
    <2>2. 1 \notin ColorSets(k) => bkeys'[k].color = bkeys[k].color
      BY <1>18, <1>20
    <2>3. PICK b, b2 : b = (bkeys[k].color = ColorOf(k)) /\ b2 = (bkeys'[k].color = ColorOf(k))
      OBVIOUS
    <2>4. EndsRight(ColorSets(k), ColorRight(k), b)
      BY <1>22, <2>3 DEF ColorEnds
    <2>5. EndsRight(ColorSets(k)', ColorRight(k)', b2)
      BY <1>4, <1>10, <1>11, <1>13, <2>1, <2>2, <2>3, <2>4, EndsTail
    <2> QED
      BY <1>12, <2>3, <2>5 DEF ColorEnds, EndsRight
  <1>23. ASSUME FaceEnds(k) PROVE FaceEnds(k)'
    <2>1. 1 \in FaceSets(k) /\ 1 \in FaceRight(k) => bkeys'[k].on.glyph = glyphs[k]
      <3>1. 1 \in FaceRight(k) => /\ IsState(m, k) => glyphs[k] = None
                                  /\ IsGlyph(m, k) => m.glyph = glyphs[k]
                                  /\ IsShow(m, k) => cache[m.slots[k]].glyph = glyphs[k]
        BY <1>4, <1>17 DEF FaceRight
      <3> QED
        BY <1>18, <1>20, <3>1
    <2>2. 1 \notin FaceSets(k) => bkeys'[k].on.glyph = bkeys[k].on.glyph
      BY <1>18, <1>19, <1>20
    <2>3. PICK b, b2 : b = (bkeys[k].on.glyph = glyphs[k]) /\ b2 = (bkeys'[k].on.glyph = glyphs[k])
      OBVIOUS
    <2>4. EndsRight(FaceSets(k), FaceRight(k), b)
      BY <1>23, <2>3 DEF FaceEnds
    <2>5. EndsRight(FaceSets(k)', FaceRight(k)', b2)
      BY <1>4, <1>10, <1>11, <1>14, <2>1, <2>2, <2>3, <2>4, EndsTail
    <2> QED
      BY <1>1, <2>3, <2>5 DEF FaceEnds, EndsRight
  <1>24. ASSUME PipEnds(k) PROVE PipEnds(k)'
    <2>1. 1 \in PipSets(k) /\ 1 \in PipRight(k) => bkeys'[k].on.pip = pips[k]
      <3>1. 1 \in PipRight(k) =>
              /\ IsState(m, k) \/ IsGlyph(m, k) => pips[k] = 0
              /\ IsShow(m, k) => m.counts[k] = pips[k] /\ (pips[k] > 0 => bsheet)
        BY <1>4, <1>17 DEF PipRight
      <3>2. pips[k] \in Nat
        BY DEF Inv, TypeInv, MemoryType, Counts
      <3>3. IsState(m, k) => bkeys'[k].on.pip = 0
        BY <1>19, <1>20
      <3> QED
        BY <1>18, <1>20, <3>1, <3>2, <3>3
    <2>2. 1 \notin PipSets(k) => bkeys'[k].on.pip = bkeys[k].on.pip
      BY <1>18, <1>20
    <2>3. PICK b, b2 : b = (bkeys[k].on.pip = pips[k]) /\ b2 = (bkeys'[k].on.pip = pips[k])
      OBVIOUS
    <2>4. EndsRight(PipSets(k), PipRight(k), b)
      BY <1>24, <2>3 DEF PipEnds
    <2>5. EndsRight(PipSets(k)', PipRight(k)', b2)
      BY <1>4, <1>10, <1>11, <1>15, <2>1, <2>2, <2>3, <2>4, EndsTail
    <2> QED
      BY <1>1, <2>3, <2>5 DEF PipEnds, EndsRight
  <1>25. ASSUME Repair(k) PROVE Repair(k)'
    <2>1. ASSUME NEW i \in DOMAIN down, WillMiss(i, k) PROVE Repair(k)'
      <3>1. CASE i = 1
        <4>1. IsShow(m, k) /\ cache[m.slots[k]] = None
          BY <1>4, <1>17, <2>1, <3>1 DEF WillMiss
        <4>2. k \in Missed(cache, m) /\ m.t = "show"
          BY <4>1 DEF IsShow, Missed
        <4>3. PICK lost \in SUBSET Keys : lost = Missed(cache, m) /\ k \in lost
          BY <4>2 DEF Missed, Named
        <4>4. up' = Append(up, lost)
          BY <1>5, <4>2, <4>3
        <4>5. Len(up) + 1 \in DOMAIN up' /\ k \in up'[Len(up) + 1]
          BY <1>1, <4>3, <4>4
        <4> QED
          BY <1>1, <1>25, <4>5 DEF Repair
      <3>2. CASE i # 1
        <4>1. i - 1 \in 1 .. n - 1 /\ (i - 1) + 1 = i
          BY <1>4, <3>2
        <4>2. i - 1 \in DOMAIN down' /\ WillMiss(i - 1, k)'
          BY <1>8, <1>9, <2>1, <4>1
        <4> QED
          BY <1>1, <1>25, <4>2 DEF Repair
      <3> QED
        BY <3>1, <3>2
    <2>2. ASSUME NEW i \in DOMAIN up, k \in up[i] PROVE Repair(k)'
      <3>1. PICK lost \in SUBSET Keys : lost = Missed(cache, m)
        BY DEF Missed, Named
      <3>2. up' = up \/ up' = Append(up, lost)
        BY <1>5, <3>1
      <3>3. i \in DOMAIN up' /\ up'[i] = up[i]
        <4>1. up \in Seq(SUBSET Keys) /\ i \in 1 .. Len(up)
          BY <1>1, <2>2
        <4>2. CASE up' = up
          BY <2>2, <4>2
        <4>3. CASE up' = Append(up, lost)
          BY <4>1, <4>3
        <4> QED
          BY <3>2, <4>2, <4>3
      <3> QED
        BY <1>1, <1>25, <2>2, <3>3 DEF Repair
    <2>3. (\E j \in DOMAIN misses : k \in misses[j].mask /\ misses[j].dev = conn) => Repair(k)'
      BY <1>1, <1>25 DEF Repair
    <2> QED
      BY <1>25, <2>1, <2>2, <2>3 DEF Repair
  <1> QED
    BY <1>22, <1>23, <1>24, <1>25

(* Handle keeps PadInv.                                                    *)
LEMMA HandlePad ==
  ASSUME Inv, OrderInv, PadInv, Handle
  PROVE  PadInv'
  <1>1. /\ down \in Seq(Messages) /\ down # <<>> /\ down' = Tail(down)
        /\ UNCHANGED <<keys, glyphs, frames, shown, pips, sheet, pin, job, dev, gen, run, conn,
                       restore, closing, link, reloads, fresh>>
    BY DEF Handle, memory, pictures, rout, closers, bounds, Inv, TypeInv, PadType
  <1>2. PICK m \in Messages : m = Head(down)
    BY <1>1, HeadTailProperties
  <1>3. BoardDraws'
    BY <1>2, HandleKey DEF PadInv, BoardDraws
  <1>4. Online' <=> Online
    BY <1>1 DEF Online
  <1>5. closing = "no" => Online
    BY <1>1 DEF PadInv, OfflinePristine, Pristine
  <1>6. TodoSays' /\ CustomIsGlyph' /\ FreshKnown' /\ OfflinePristine'
    <2>1. TodoSays'
      BY <1>1, TodoSaysLess DEF PadInv
    <2> QED
      BY <1>1, <1>4, <1>5, <2>1 DEF PadInv, CustomIsGlyph, FreshKnown, OfflinePristine
  <1>7. ASSUME Online
        PROVE  /\ CacheAgrees' /\ SheetAgrees' /\ CustomFirst'
               /\ \A k \in Keys : ColorOK(k)' /\ FaceOK(k)' /\ PipOK(k)'
    <2>1. OnlineAgrees /\ CacheAgrees /\ SheetAgrees /\ CustomFirst /\ BoardDraws
      BY <1>7 DEF PadInv, OnlineAgrees
    <2>2. /\ DOMAIN down = 1 .. Len(down) /\ Len(down) \in Nat \ {0}
          /\ DOMAIN down' = 1 .. Len(down) - 1 /\ Len(down') = Len(down) - 1
          /\ \A i \in 1 .. Len(down) - 1 : down'[i] = down[i + 1]
          /\ down[1] = m
      BY <1>1, <1>2, TailParts
    <2>3. End' = Len(down) /\ End = Len(down) + 1 /\ Len(down) \in 1 .. Len(down)
      BY <2>2 DEF End
    <2>4. PICK n \in 1 .. Len(down) : n = Len(down)
      BY <2>3
    <2>5. /\ \A s \in Slots : cache'[s] = IF m.t = "store" /\ m.slot = s THEN m.frame ELSE cache[s]
          /\ bsheet' <=> bsheet \/ m.t = "sheet"
      BY <1>2, HandleCache
    <2>6. \A i \in 1 .. Len(down) :
            /\ NoShow(i)' <=> \A j \in DOMAIN down : 1 < j /\ j < i + 1 => down[j].t # "show"
            /\ SheetBefore(i)' <=> SheetBefore(i + 1)
            /\ \A s \in Slots : Empty(i, s)' <=> Empty(i + 1, s)
            /\ \A s \in Slots, f \in Frames : Held(i, s, f)' <=> Held(i + 1, s, f)
      BY <1>1, <1>2, <2>5, TailKeeps
    <2>7. CacheAgrees'
      <3> SUFFICES ASSUME NEW s \in Slots
                   PROVE  (\/ Empty(End, s)
                           \/ frames[s] # None /\ (Held(End, s, Frame(s)) \/ StoreInHand(s)))'
        BY DEF CacheAgrees
      <3>1. Empty(n + 1, s) \/ (frames[s] # None /\ (Held(n + 1, s, Frame(s)) \/ StoreInHand(s)))
        BY <2>1, <2>3, <2>4 DEF CacheAgrees
      <3>2. StoreInHand(s) => StoreInHand(s)'
        BY <1>1 DEF StoreInHand
      <3>3. ASSUME frames[s] # None, Held(n + 1, s, Frame(s)) PROVE Held(n, s, Frame(s))'
        <4>1. PICK f \in Frames : f = Frame(s)
          BY <3>3 DEF Inv, TypeInv, MemoryType, FrameRecs, Frame, Frames
        <4>2. f = Frame(s)'
          BY <1>1, <4>1 DEF Frame
        <4>3. Held(n, s, f)'
          BY <2>6, <3>3, <4>1
        <4> QED
          BY <4>2, <4>3
      <3>4. Empty(n + 1, s) => Empty(n, s)'
        BY <2>6
      <3>5. n = End'
        BY <2>3, <2>4
      <3> QED
        BY <1>1, <3>1, <3>2, <3>3, <3>4, <3>5
    <2>8. SheetAgrees'
      <3>1. SheetBefore(n)' <=> SheetBefore(n + 1)
        BY <2>6
      <3>2. n = End' /\ n + 1 = End
        BY <2>3, <2>4
      <3> QED
        BY <1>1, <2>1, <3>1, <3>2 DEF SheetAgrees
    <2>9. CustomFirst'
      <3>1. ASSUME NEW i \in 1 .. Len(down), NoShow(i + 1), Uncached PROVE NoShow(i)' /\ Uncached'
        <4>1. 1 \in DOMAIN down /\ 1 < i + 1
          BY <2>2
        <4>2. m.t # "show"
          BY <2>2, <3>1, <4>1 DEF NoShow
        <4>3. \A k \in Keys : ~bkeys[k].cached => ~bkeys'[k].cached
          BY <1>2, <2>1, <4>2, HandleKey
        <4>4. Uncached'
          BY <3>1, <4>3 DEF Uncached
        <4>5. NoShow(i)'
          BY <2>6, <3>1 DEF NoShow
        <4> QED
          BY <4>4, <4>5
      <3>2. run = "replay" => NoShow(n)' /\ Uncached'
        BY <2>1, <2>3, <2>4, <3>1 DEF CustomFirst
      <3>3. n = End'
        BY <2>3, <2>4
      <3>4. ASSUME NEW i \in DOMAIN down', down'[i].t = "key", down'[i].custom
            PROVE  NoShow(i)' /\ Uncached'
        <4>1. i + 1 \in DOMAIN down /\ down'[i] = down[i + 1] /\ i \in 1 .. Len(down)
          BY <2>2
        <4> QED
          BY <2>1, <3>1, <3>4, <4>1 DEF CustomFirst
      <3>5. run' = "replay" => NoShow(End)' /\ Uncached'
        BY <1>1, <3>2, <3>3
      <3> QED
        BY <3>4, <3>5 DEF CustomFirst
    <2>10. ASSUME NEW k \in Keys PROVE ColorOK(k)' /\ FaceOK(k)' /\ PipOK(k)'
      <3>1. ColorOK(k) /\ FaceOK(k) /\ PipOK(k)
        BY <1>7, <2>1 DEF OnlineAgrees
      <3>2. /\ ColorEnds(k) => ColorEnds(k)'
            /\ FaceEnds(k) => FaceEnds(k)'
            /\ PipEnds(k) => PipEnds(k)'
            /\ Repair(k) => Repair(k)'
        BY <2>1, HandleEnds
      <3>3. /\ StateInHand(k) => StateInHand(k)'
            /\ PlainInHand(k) => PlainInHand(k)'
            /\ GlyphInHand(k) => GlyphInHand(k)'
            /\ ShowInHand(k) => ShowInHand(k)'
            /\ Restoring => Restoring'
            /\ ColorSent(k)' <=> ColorSent(k)
            /\ Reused(k)' <=> Reused(k)
        BY <1>1 DEF StateInHand, PlainInHand, GlyphInHand, ShowInHand, Restoring, ColorSent,
           Reused
      <3>4. ColorOK(k)'
        BY <1>1, <3>1, <3>2, <3>3 DEF ColorOK
      <3>5. FaceOK(k)'
        BY <1>1, <3>1, <3>2, <3>3 DEF FaceOK
      <3>6. PipOK(k)'
        BY <1>1, <3>1, <3>2, <3>3 DEF PipOK
      <3> QED
        BY <3>4, <3>5, <3>6
    <2> QED
      BY <2>7, <2>8, <2>9, <2>10
  <1> QED
    BY <1>3, <1>4, <1>6, <1>7 DEF PadInv, OnlineAgrees

-----------------------------------------------------------------------------
(* The invariant holds at first, and every step keeps it: a caller who     *)
(* sends no custom-glyph sentinel as a key state is what it takes.         *)
LEMMA InitPad == Init => PadInv
  <1> SUFFICES ASSUME Init PROVE PadInv
    OBVIOUS
  <1>1. ~Online /\ Pristine
    BY DEF Init, Online, Pristine
  <1>2. BoardDraws
    BY DEF Init, BoardDraws, Drawing, PowerOnKey, Plain
  <1>3. TodoSays
    BY DEF Init, TodoSays, Nobody, Nothing
  <1>4. CustomIsGlyph /\ FreshKnown
    BY DEF Init, CustomIsGlyph, FreshKnown
  <1> QED
    BY <1>1, <1>2, <1>3, <1>4 DEF PadInv, OfflinePristine, OnlineAgrees

(* Every step keeps PadInv, as long as no caller sends the sentinel as a key *)
(* state of its own.                                                       *)
LEMMA StepPad ==
  ASSUME \A ks \in Sent : ~ks.custom
  PROVE  Inv /\ OrderInv /\ PadInv /\ [Next]_vars => PadInv'
  <1> SUFFICES ASSUME Inv, OrderInv, PadInv, [Next]_vars PROVE PadInv'
    OBVIOUS
  <1>1. CASE Caller
    BY <1>1, SendKeyStatePad, SendCustomGlyphPad, StoreFramePad, StorePipSheetPad, ShowPad,
       ReconnectingAssumption, SentAssumption DEF Caller
  <1>2. CASE Sender
    BY <1>2, WritePad, LostPad, UnlockPad DEF Sender
  <1>3. CASE Runner
    BY <1>3, RunPad, ConnectPad DEF Runner
  <1>4. CASE Misser
    BY <1>4, MissPad
  <1>5. CASE Handle
    BY <1>5, HandlePad
  <1>6. CASE Close
    BY <1>6, RunPad
  <1>7. CASE \E g \in Sessions : Restorer(g)
    BY <1>7, RestorerPad
  <1>8. CASE Unplug \/ Plug
    BY <1>8, CablePad
  <1>9. CASE Reload
    BY <1>9, ReloadPad
  <1>10. CASE UNCHANGED vars
    <2>1. /\ UNCHANGED <<memory, board, down, reloads, fresh, job, closing, run, conn, dev, link>>
          /\ UNCHANGED <<gen, restore, up, misses>>
      BY <1>10 DEF vars, rout, closers, bounds
    <2>2. TodoSays'
      BY <2>1, TodoSaysLess DEF PadInv, memory, pictures
    <2>3. (Online' <=> Online) /\ (Restoring' <=> Restoring)
      BY <2>1 DEF Online, Restoring
    <2>4. \A k \in Keys : Repair(k) => Repair(k)'
      BY <2>1, RepairSame DEF memory, pictures
    <2> QED
      BY <2>1, <2>2, <2>3, <2>4, KeptPad
  <1> QED
    BY <1>1, <1>2, <1>3, <1>4, <1>5, <1>6, <1>7, <1>8, <1>9, <1>10 DEF Next

(* Nothing under way: what a key ends with is what it shows.               *)
LEMMA PadRests == Inv /\ OrderInv /\ PadInv => PadShowsMemory
  <1> SUFFICES ASSUME Inv, OrderInv, PadInv, Settled, NEW k \in fresh,
                      pin[k] # "reused"
               PROVE  /\ bkeys[k].on.glyph = glyphs[k]
                      /\ ColorSent(k) =>
                           bkeys[k].on.color = keys[k].color /\ bkeys[k].color = keys[k].color
                      /\ reloads = 0 => bkeys[k].on.pip = pips[k]
    BY DEF PadShowsMemory
  <1>1. k \in Keys /\ keys[k] # None
    BY DEF PadInv, FreshKnown, Inv, TypeInv, BoundsType
  <1>2. Online /\ dev # 0
    BY DEF Settled, Online, Alive, Inv, GenerationsInOrder
  <1>3. ColorOK(k) /\ FaceOK(k) /\ PipOK(k) /\ ~Reused(k)
    BY <1>1, <1>2 DEF PadInv, OnlineAgrees, Reused
  <1>4. ~StateInHand(k) /\ ~PlainInHand(k) /\ ~GlyphInHand(k) /\ ~ShowInHand(k)
    BY NothingInHand DEF Settled
  <1>5. DOMAIN down = {} /\ DOMAIN up = {} /\ DOMAIN misses = {}
    BY DEF Settled
  <1>6. ~Repair(k)
    BY <1>5 DEF Repair
  <1>7. ~Restoring
    <2>1. gen \in Sessions
      BY <1>2, ReconnectingAssumption
         DEF Inv, TypeInv, RoutineType, RunType, GenerationsInOrder, Devices, Sessions
    <2> QED
      BY <2>1 DEF Settled, Restoring, NotRestoring
  <1>8. ColorSets(k) = {} /\ FaceSets(k) = {} /\ PipSets(k) = {}
    BY <1>5 DEF ColorSets, FaceSets, PipSets
  <1>9. /\ ColorEnds(k) => bkeys[k].color = keys[k].color
        /\ FaceEnds(k) => bkeys[k].on.glyph = glyphs[k]
        /\ PipEnds(k) => bkeys[k].on.pip = pips[k]
    BY <1>1, <1>8 DEF ColorEnds, FaceEnds, PipEnds, EndsRight, ColorOf
  <1>10. bkeys[k].on.color = bkeys[k].color
    <2>1. Drawing(bkeys[k])
      BY <1>1 DEF PadInv, BoardDraws
    <2>2. CASE bkeys[k].cached
      BY <2>1, <2>2 DEF Drawing
    <2>3. CASE ~bkeys[k].cached
      <3>1. bkeys[k].on = Plain(bkeys[k].color, bkeys[k].glyph)
        BY <2>1, <2>3 DEF Drawing
      <3> QED
        BY <3>1 DEF Plain
    <2> QED
      BY <2>2, <2>3
  <1>11. bkeys[k].on.glyph = glyphs[k]
    BY <1>3, <1>4, <1>6, <1>9 DEF FaceOK
  <1>12. ColorSent(k) => bkeys[k].color = keys[k].color
    BY <1>3, <1>4, <1>6, <1>9 DEF ColorOK
  <1>13. reloads = 0 => bkeys[k].on.pip = pips[k]
    BY <1>3, <1>4, <1>6, <1>7, <1>9 DEF PipOK
  <1> QED
    BY <1>10, <1>11, <1>12, <1>13

(* Once everything is delivered, the pad shows what the host remembers:    *)
(* whatever the unplugs, code reloads and Closes, and the order in which   *)
(* callers, the replay, the restore and the answers to misses took sendMu. *)
THEOREM PadAlwaysShowsMemory ==
  ASSUME \A ks \in Sent : ~ks.custom
  PROVE  Spec => []PadShowsMemory
  <1>1. Init => Inv /\ OrderInv /\ PadInv
    BY InitInv, InitOrder, InitPad
  <1>2. Inv /\ OrderInv /\ PadInv /\ [Next]_vars => (Inv /\ OrderInv /\ PadInv)'
    BY StepInv, StepOrder, StepPad
  <1>3. Inv /\ OrderInv /\ PadInv => PadShowsMemory
    BY PadRests
  <1> QED
    BY <1>1, <1>2, <1>3, PTL DEF Spec
=============================================================================
