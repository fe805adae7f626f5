---------------------------- MODULE Reconnecting ----------------------------
(***************************************************************************)
(* The transport that keeps a board connected (driver/transport/           *)
(* reconnect.go), with the board it talks to: unplugs, replugs and code    *)
(* reloads, the replay at a connect, the goroutine that stores the frames  *)
(* again, the goroutines that answer a Show miss, and Close.  sendMu is    *)
(* `job`: its holder, and the messages it has yet to write.                *)
(***************************************************************************)
EXTENDS PadBoard, Sequences, FiniteSets

CONSTANTS
  MaxPip,        \* counts a caller shows with are 0 .. MaxPip
  Drawn,         \* the frames that callers store
  Sent,          \* the key states that callers send
  Before,        \* what a slot may hold before the first plug-in: frames, or None
  MaxCalls,      \* bound: calls of the sending methods, after that
  MaxSessions,   \* bound: times the board is plugged in
  MaxReloads,    \* bound: code reloads that keep USB up
  DownCap,       \* messages in flight to the board before a write blocks
  UpCap,         \* messages in flight to the host before the board's write blocks
  MayClose       \* TRUE: Close may be called

ASSUME ReconnectingAssumption ==
  /\ MaxPip \in Nat /\ MaxCalls \in Nat /\ MaxReloads \in Nat
  /\ MaxSessions \in Nat \ {0} /\ DownCap \in Nat \ {0} /\ UpCap \in Nat \ {0}
  /\ Before \subseteq Drawn \union {None} /\ Drawn \subseteq Frames
  /\ MayClose \in BOOLEAN

VARIABLES
  \* what the host remembers, all guarded by mu
  keys, glyphs, frames, shown, pips, sheet, dev, gen,
  \* what the frame table of layers knows of the slot a key shows
  pin,
  \* sendMu, the run goroutine and the goroutines it starts
  job, run, conn, restore, misses,
  \* Close: how far it is, and the device it closed
  closing, closedDev,
  \* the board and the two directions of the serial port
  link, session, bkeys, cache, bsheet, down, up,
  \* bookkeeping of the bounds, and the keys set since the board last lost them
  calls, reloads, fresh

pictures == <<keys, glyphs, frames, shown, pips, sheet>>
memory  == <<pictures, pin>>
rout    == <<run, conn, restore, misses>>
closers == <<closing, closedDev>>
board   == <<bkeys, cache, bsheet>>
bounds  == <<calls, reloads>>
vars == <<memory, dev, gen, job, rout, closers, link, session, board, down, up,
          bounds, fresh>>

Sessions  == 1 .. MaxSessions
Devices   == 0 .. MaxSessions            \* 0: no device
KeyStates == [color : Colors, custom : BOOLEAN]
FrameRecs == [color : Colors, glyph : GlyphOrNone, gen : Devices]
Holders   == {"free", "state", "frame", "connect", "restore", "pips", "miss"}
Positions == 0 .. 2 * NumKeys
Pins      == {"held", "loose", "reused"}
Restores  == [pc : {"off", "start", "slots"}, dev : Devices, left : SUBSET Slots]
Misses    == [dev : Devices, mask : SUBSET Keys]

ASSUME SentAssumption == Sent \subseteq KeyStates

ASSUME NoneAssumption ==
  None \notin KeyStates /\ None \notin FrameRecs /\ None \notin Frames

Nothing == [i \in {} |-> 0]
Nobody  == [by |-> "free", dev |-> 0, gen |-> 0, err |-> FALSE, todo |-> Nothing]
NotRestoring == [pc |-> "off", dev |-> 0, left |-> {}]

Frame(s)   == [color |-> frames[s].color, glyph |-> frames[s].glyph]
Alive(d)   == d # 0 /\ d = link /\ d # closedDev
FreeToSend == job.by = "free"

-----------------------------------------------------------------------------
(* The sending methods.  Each takes sendMu, updates the memory, and leaves *)
(* in the job what it writes to the device it saw; with no device it is    *)
(* done at once.  What may be called: at most MaxCalls calls, before Close *)
(* (macropadd closes the device last), the sheet before any frame is shown *)
(* (layers.Open), and no store into a slot that the frame table of layers  *)
(* pins.  It pins the slot of each key whose Show returned no error, while *)
(* the slot remembered here was recorded before the writes: after a Show   *)
(* that failed, the slot of its keys is "loose", and a store may make it   *)
(* "reused".  The key is drawn anew by the next redraw.                    *)

CanCall == FreeToSend /\ closing = "no" /\ calls < MaxCalls /\ calls' = calls + 1

Hold(by, todo) ==
  job' = IF dev = 0 \/ DOMAIN todo = {} THEN Nobody
         ELSE [by |-> by, dev |-> dev, gen |-> gen, err |-> FALSE, todo |-> todo]

(* A key state or a glyph replaces the slot and the count a key showed.    *)
ForgetShown(k) ==
  /\ shown' = [shown EXCEPT ![k] = None]
  /\ pips'  = [pips EXCEPT ![k] = 0]

KeptGlyphAlways(k, custom, glyph) == IF glyph # None THEN glyph ELSE glyphs[k]
KeptGlyph(k, custom, glyph) ==
  IF glyph # None THEN glyph ELSE IF custom THEN glyphs[k] ELSE None

CallSendKeyState(k, ks) ==
  /\ CanCall
  /\ keys'   = [keys EXCEPT ![k] = ks]
  /\ glyphs' = [glyphs EXCEPT ![k] = KeptGlyph(k, ks.custom, None)]
  /\ ForgetShown(k) /\ pin' = [pin EXCEPT ![k] = "held"]
  /\ Hold("state", [i \in {0} |-> [t |-> "key", key |-> k, color |-> ks.color,
                                    custom |-> ks.custom]])
  /\ fresh'  = fresh \union {k}
  /\ UNCHANGED <<frames, sheet, dev, gen, rout, closers, link, session, board,
                 down, up, reloads>>

CallSendCustomGlyph(k, g) ==
  /\ CanCall
  /\ keys'   = [keys EXCEPT ![k] =
                  [color |-> IF keys[k] = None THEN DefaultColor ELSE keys[k].color,
                   custom |-> TRUE]]
  /\ glyphs' = [glyphs EXCEPT ![k] = KeptGlyph(k, TRUE, g)]
  /\ ForgetShown(k)
  /\ Hold("state", [i \in {0} |-> [t |-> "glyph", key |-> k, glyph |-> g]])
  /\ fresh'  = fresh \union {k}
  /\ UNCHANGED <<frames, sheet, pin, dev, gen, rout, closers, link, session, board,
                 down, up, reloads>>

StoreMsg(s) == [t |-> "store", slot |-> s, frame |-> Frame(s)]

(* A frame is recorded as not on the board until its store went out.       *)
RecordedAsHeld(f) == [color |-> f.color, glyph |-> f.glyph, gen |-> gen]
Recorded(f) == [color |-> f.color, glyph |-> f.glyph, gen |-> 0]

MayStore(s) == \A k \in Keys : shown[k] = s => pin[k] # "held"

CallStoreFrame(s, f) ==
  /\ CanCall /\ MayStore(s)
  /\ frames' = [frames EXCEPT ![s] = Recorded(f)]
  /\ pin' = [k \in Keys |-> IF shown[k] = s THEN "reused" ELSE pin[k]]
  /\ Hold("frame", [i \in {0} |-> [t |-> "store", slot |-> s, frame |-> f]])
  /\ UNCHANGED <<keys, glyphs, shown, pips, sheet, dev, gen, rout, closers, link,
                 session, board, down, up, reloads, fresh>>

CallStorePipSheet ==
  /\ CanCall /\ \A k \in Keys : shown[k] = None
  /\ sheet' = TRUE
  /\ Hold("frame", [i \in {0} |-> [t |-> "sheet"]])
  /\ UNCHANGED <<keys, glyphs, frames, shown, pips, pin, dev, gen, rout, closers,
                 link, session, board, down, up, reloads, fresh>>

Known(slots) == {k \in Keys : slots[k] # None /\ frames[slots[k]] # None}

(* The first key of each slot whose frame an older connection stored.      *)
NoneLate(slots) == {}
Late(slots) ==
  {k \in Known(slots) : /\ frames[slots[k]].gen # gen
                        /\ \A j \in Known(slots) : slots[j] = slots[k] => k <= j}

(* The key state that stands for a frame: its color, and the sentinel when *)
(* it has a glyph.                                                         *)
SentinelStateOf(f) == [color |-> f.color, custom |-> TRUE]
StateOf(f) == [color |-> f.color, custom |-> f.glyph # None]

(* The table does not count these keys as showing what is remembered here. *)
Loosened(ks) == [k \in Keys |-> IF k \in ks /\ pin[k] = "held" THEN "loose" ELSE pin[k]]

(* ShowFrames and ShowFramesWithPips.  A slot with no frame is left to the *)
(* board's Show miss; a frame of an older connection is stored first.      *)
CallShow(slots, counts) ==
  LET known == Known(slots) IN
  /\ CanCall
  /\ \E k \in Keys : slots[k] # None
  /\ \A k \in Keys : counts[k] > 0 => (slots[k] # None /\ sheet)
  /\ keys'   = [k \in Keys |-> IF k \in known THEN StateOf(frames[slots[k]]) ELSE keys[k]]
  /\ glyphs' = [k \in Keys |-> IF k \in known THEN frames[slots[k]].glyph ELSE glyphs[k]]
  /\ shown'  = [k \in Keys |-> IF k \in known THEN slots[k] ELSE shown[k]]
  /\ pips'   = [k \in Keys |-> IF k \in known THEN counts[k] ELSE pips[k]]
  /\ pin'    = [k \in Keys |-> IF k \in known THEN "held"
                               ELSE Loosened({j \in Keys : slots[j] # None})[k]]
  /\ fresh'  = fresh \union known
  /\ Hold("frame", [i \in Late(slots) \union {NumKeys} |->
                       IF i = NumKeys
                       THEN [t |-> "show", slots |-> slots, counts |-> counts]
                       ELSE StoreMsg(slots[i])])
  /\ UNCHANGED <<frames, sheet, dev, gen, rout, closers, link, session, board,
                 down, up, reloads>>

-----------------------------------------------------------------------------
(* The holder of sendMu writes its messages in order, and a write blocks   *)
(* while the port is full.  A store that went out marks the frame as held  *)
(* by this connection.  A write to a device that is gone fails, or is      *)
(* taken by the host's port and lost.                                      *)

NextWrite(i) == i \in DOMAIN job.todo /\ \A j \in DOMAIN job.todo : i <= j

Written(i) ==
  /\ job' = [job EXCEPT !.todo = [j \in DOMAIN job.todo \ {i} |-> job.todo[j]]]
  /\ frames' = IF job.todo[i].t = "store"
               THEN [frames EXCEPT ![job.todo[i].slot].gen = job.gen]
               ELSE frames
  /\ UNCHANGED <<keys, glyphs, shown, pips, sheet, pin, dev, gen, rout, closers, link,
                 session, board, up, bounds, fresh>>

Write ==
  \E i \in Positions :
    /\ NextWrite(i) /\ Alive(job.dev) /\ Len(down) < DownCap
    /\ down' = Append(down, job.todo[i])
    /\ Written(i)

WriteLost ==
  \E i \in Positions :
    /\ NextWrite(i) /\ job.dev # link /\ job.dev # closedDev
    /\ UNCHANGED down
    /\ Written(i)

(* Only a replay goes on after an error; a restore ends, with no pips.  A  *)
(* caller's Show fails with it, whichever of its messages this was.        *)
FailedShow == IF job.by = "frame" /\ NumKeys \in DOMAIN job.todo
              THEN Named(job.todo[NumKeys]) ELSE {}

WriteFails ==
  \E i \in Positions :
    /\ NextWrite(i) /\ ~Alive(job.dev)
    /\ job' = [job EXCEPT !.err = TRUE,
                           !.todo = IF job.by = "connect"
                             THEN [j \in DOMAIN job.todo \ {i} |-> job.todo[j]]
                             ELSE Nothing]
    /\ restore' = IF job.by = "restore"
                  THEN [restore EXCEPT ![job.gen] = NotRestoring] ELSE restore
    /\ pin' = Loosened(FailedShow)
    /\ UNCHANGED <<pictures, dev, gen, run, conn, misses, closers, link, session,
                   board, down, up, bounds, fresh>>

(* Unlocking sendMu.  A replay that is done makes its device the one that  *)
(* sends go to, in a new generation, and the frames are stored again.      *)
Unlock ==
  /\ job.by # "free" /\ DOMAIN job.todo = {}
  /\ job' = Nobody
  /\ IF job.by = "connect"
     THEN /\ gen' = gen + 1 /\ dev' = job.dev /\ run' = "forward"
          /\ restore' = [restore EXCEPT ![gen + 1] =
                           [pc |-> "start", dev |-> job.dev, left |-> {}]]
     ELSE UNCHANGED <<gen, dev, run, restore>>
  /\ UNCHANGED <<memory, conn, misses, closers, link, session, board, down, up,
                 bounds, fresh>>

-----------------------------------------------------------------------------
(* The run goroutine: open, settle, replay, forward what the board sends,  *)
(* and start over when the device goes.                                    *)

Idle(pc) == run = pc /\ UNCHANGED <<memory, gen, link, session, board, bounds, down>>

Open ==
  /\ Idle("open") /\ closing = "no" /\ link # 0
  /\ run' = "settle" /\ conn' = link
  /\ UNCHANGED <<dev, job, restore, misses, closers, up, fresh>>

Settle ==
  /\ Idle("settle") /\ closing = "no"
  /\ run' = "lock"
  /\ UNCHANGED <<dev, job, conn, restore, misses, closers, up, fresh>>

(* Close came during the open or the settle delay.                         *)
GiveUp ==
  /\ run \in {"open", "settle"} /\ Idle(run) /\ closing # "no"
  /\ run' = "done" /\ conn' = 0
  /\ UNCHANGED <<dev, job, restore, misses, closers, up, fresh>>

(* The sheet first, then each key in order: its glyph, then its state.     *)
ReplayMsg(i) ==
  LET k == (i - 1) \div 2 IN
  IF i = 0 THEN [t |-> "sheet"]
  ELSE IF i % 2 = 1 THEN [t |-> "glyph", key |-> k, glyph |-> glyphs[k]]
  ELSE [t |-> "key", key |-> k, color |-> keys[k].color, custom |-> keys[k].custom]

ReplayAt ==
  {i \in Positions :
     LET k == (i - 1) \div 2 IN
     IF i = 0 THEN sheet
     ELSE keys[k] # None /\ (i % 2 = 1 => glyphs[k] # None)}

Connect ==
  /\ Idle("lock") /\ FreeToSend
  /\ run' = "replay"
  /\ job' = [by |-> "connect", dev |-> conn, gen |-> gen, err |-> FALSE,
             todo |-> [i \in ReplayAt |-> ReplayMsg(i)]]
  /\ fresh' = IF conn = link THEN {k \in Keys : keys[k] # None} ELSE fresh
  /\ UNCHANGED <<dev, conn, restore, misses, closers, up>>

(* The end of run after Close: it too closes its device.                   *)
StopLeavingOpen == run' = "done" /\ dev' = 0 /\ conn' = 0 /\ UNCHANGED closedDev
Stop == run' = "done" /\ dev' = 0 /\ conn' = 0 /\ closedDev' = conn

(* One Show miss from the board: answered by a goroutine of its own.  Once *)
(* Close has come, forward may return instead of queueing the message.     *)
Forward ==
  /\ Idle("forward") /\ up # <<>>
  /\ up' = Tail(up)
  /\ misses' = Append(misses, [dev |-> conn, mask |-> Head(up)])
  /\ \/ UNCHANGED <<run, dev, conn, closedDev>>
     \/ closing # "no" /\ Stop
  /\ UNCHANGED <<job, restore, closing, fresh>>

GoneUnplugged(d) == d # link
Gone(d) == ~Alive(d)

(* The read fails once the device is unplugged or closed; what it had      *)
(* received and nobody read is gone with it.                               *)
Disconnect ==
  /\ Idle("forward") /\ Gone(conn)
  /\ up' = <<>>
  /\ \/ closing # "no" /\ Stop
     \/ closing = "no" /\ run' = "open" /\ dev' = 0 /\ conn' = 0 /\ UNCHANGED closedDev
  /\ UNCHANGED <<job, restore, misses, closing, fresh>>

-----------------------------------------------------------------------------
(* The goroutine of one connection that stores every frame again, one slot *)
(* at a time under sendMu, and then shows the pips again.                  *)

Quiet(g) == UNCHANGED <<keys, glyphs, shown, pips, sheet, pin, dev, gen, run, conn,
                        closers, link, session, board, down, up, bounds, fresh>>

Current(g) == dev = restore[g].dev /\ gen = g

ToRestoreShown == {s \in Slots : frames[s] # None /\ \E k \in Keys : shown[k] = s}
ToRestore == {s \in Slots : frames[s] # None}

RestoreStart(g) ==
  /\ restore[g].pc = "start"
  /\ restore' = [restore EXCEPT ![g].pc = "slots",
                                ![g].left = ToRestore]
  /\ UNCHANGED <<frames, job, misses>> /\ Quiet(g)

RestoreSlot(g) ==
  \E s \in restore[g].left :
    /\ restore[g].pc = "slots" /\ FreeToSend
    /\ \A r \in restore[g].left : s <= r
    /\ IF Current(g) /\ closing = "no"
       THEN /\ restore' = [restore EXCEPT ![g].left = @ \ {s}]
            /\ Hold("restore", [i \in IF frames[s] # None /\ frames[s].gen # g
                                      THEN {0} ELSE {} |-> StoreMsg(s)])
       ELSE restore' = [restore EXCEPT ![g] = NotRestoring] /\ UNCHANGED job
    /\ UNCHANGED <<frames, misses>> /\ Quiet(g)

(* pipShowLocked: the keys that show a pip, in the slots they show.        *)
PipSlots == [k \in Keys |->
  IF pips[k] > 0 /\ shown[k] # None /\ frames[shown[k]] # None THEN shown[k] ELSE None]
PipCounts == [k \in Keys |-> IF PipSlots[k] # None THEN pips[k] ELSE 0]

ShowPipsAgain(g) ==
  /\ restore[g].pc = "slots" /\ restore[g].left = {} /\ FreeToSend
  /\ restore' = [restore EXCEPT ![g] = NotRestoring]
  /\ Hold("pips", [i \in IF Current(g) /\ sheet /\ \E k \in Keys : pips[k] > 0
                         THEN {0} ELSE {} |->
                     [t |-> "show", slots |-> PipSlots, counts |-> PipCounts]])
  /\ UNCHANGED <<frames, misses>> /\ Quiet(g)

MissAnswer(again, slots) ==
  [i \in again \union {NumKeys} |->
     IF i # NumKeys THEN StoreMsg(shown[i])
     ELSE [t |-> "show", slots |-> slots,
           counts |-> [k \in Keys |-> IF sheet /\ k \in again THEN pips[k] ELSE 0]]]

(* handleShowMiss: the frames of the missed keys are stored again, each at *)
(* its key's turn, and shown.                                              *)
HandleShowMiss(n) ==
  LET m     == misses[n]
      again == {k \in m.mask : shown[k] # None /\ frames[shown[k]] # None}
      slots == [k \in Keys |-> IF k \in again THEN shown[k] ELSE None]
      lost  == {shown[k] : k \in again}
  IN
  /\ n \in DOMAIN misses /\ FreeToSend
  /\ misses' = SubSeq(misses, 1, n - 1) \o SubSeq(misses, n + 1, Len(misses))
  /\ IF dev # m.dev \/ again = {}
     THEN UNCHANGED <<frames, job>>
     ELSE /\ frames' = [s \in Slots |-> IF s \in lost
                          THEN [frames[s] EXCEPT !.gen = 0] ELSE frames[s]]
          /\ Hold("miss", MissAnswer(again, slots))
  /\ UNCHANGED restore /\ Quiet(0)

-----------------------------------------------------------------------------
(* Close: cancel, then close the device that sends go to, if any, and wait *)
(* for the run goroutine.                                                  *)

Close ==
  /\ \/ /\ closing = "no" /\ MayClose
        /\ closing' = "cancelled" /\ UNCHANGED closedDev
     \/ closing = "cancelled" /\ closing' = "waiting" /\ closedDev' = IF dev # 0 THEN dev ELSE closedDev
  /\ UNCHANGED <<memory, dev, gen, job, rout, link, session, board, down, up,
                 bounds, fresh>>

Closed == closing = "waiting" /\ run = "done"

-----------------------------------------------------------------------------
(* The board takes the messages in order.  A Show frames that names empty  *)
(* slots answers with a Show miss, which waits for room in the port.       *)

Handle ==
  LET m == Head(down) IN
  /\ down # <<>>
  /\ down' = Tail(down)
  /\ CASE m.t = "key" ->
            /\ bkeys' = [bkeys EXCEPT ![m.key] = WithKeyState(@, m)]
            /\ UNCHANGED <<cache, bsheet, up>>
       [] m.t = "glyph" ->
            /\ bkeys' = [bkeys EXCEPT ![m.key] = WithGlyph(@, m)]
            /\ UNCHANGED <<cache, bsheet, up>>
       [] m.t = "store" ->
            /\ cache' = [cache EXCEPT ![m.slot] = m.frame]
            /\ UNCHANGED <<bkeys, bsheet, up>>
       [] m.t = "sheet" -> bsheet' = TRUE /\ UNCHANGED <<bkeys, cache, up>>
       [] m.t = "show" ->
            /\ bkeys' = AfterShow(bkeys, cache, bsheet, m)
            /\ IF Missed(cache, m) = {} THEN UNCHANGED up
               ELSE Len(up) < UpCap /\ up' = Append(up, Missed(cache, m))
            /\ UNCHANGED <<cache, bsheet>>
  /\ UNCHANGED <<memory, dev, gen, job, rout, closers, link, session, bounds, fresh>>

PowerOn ==
  /\ bkeys' = [k \in Keys |-> PowerOnKey]
  /\ cache' = [s \in Slots |-> None]
  /\ bsheet' = FALSE

(* Pulling the cable loses what is in flight and everything in RAM.        *)
Unplug ==
  /\ link # 0
  /\ link' = 0 /\ down' = <<>> /\ fresh' = {} /\ PowerOn
  /\ UNCHANGED <<memory, dev, gen, job, rout, closers, session, up, bounds>>

Plug ==
  /\ link = 0 /\ session < MaxSessions
  /\ session' = session + 1 /\ link' = session + 1
  /\ UNCHANGED <<memory, dev, gen, job, rout, closers, board, down, up, bounds, fresh>>

(* A code reload that keeps USB up: the RAM is lost, and some of what was  *)
(* in flight may be.                                                       *)
Reload ==
  /\ link # 0 /\ reloads < MaxReloads
  /\ reloads' = reloads + 1
  /\ \E n \in 0 .. Len(down) : down' = SubSeq(down, n + 1, Len(down))
  /\ fresh' = {} /\ PowerOn
  /\ UNCHANGED <<memory, dev, gen, job, rout, closers, link, session, up, calls>>

-----------------------------------------------------------------------------
(* The layers may have stored frames before a board was ever plugged in,   *)
(* after the sheet (Open).                                                 *)
Init ==
  /\ dev = 0 /\ gen = 0 /\ job = Nobody
  /\ keys   = [k \in Keys |-> None]
  /\ glyphs = [k \in Keys |-> None]
  /\ shown  = [k \in Keys |-> None]
  /\ pips   = [k \in Keys |-> 0]
  /\ pin    = [k \in Keys |-> "held"]
  /\ frames \in [Slots -> {IF f = None THEN None ELSE Recorded(f) : f \in Before}]
  /\ sheet = (\E s \in Slots : frames[s] # None)
  /\ run = "open" /\ conn = 0 /\ misses = <<>>
  /\ restore = [g \in Sessions |-> NotRestoring]
  /\ closing = "no" /\ closedDev = 0
  /\ link = 0 /\ session = 0 /\ down = <<>> /\ up = <<>>
  /\ bkeys = [k \in Keys |-> PowerOnKey]
  /\ cache = [s \in Slots |-> None]
  /\ bsheet = FALSE
  /\ calls = 0 /\ reloads = 0 /\ fresh = {}

Caller ==
  \/ \E k \in Keys, ks \in Sent : CallSendKeyState(k, ks)
  \/ \E k \in Keys, g \in Glyphs : CallSendCustomGlyph(k, g)
  \/ \E s \in Slots, f \in Drawn : CallStoreFrame(s, f)
  \/ CallStorePipSheet
  \/ \E slots \in SlotChoice, counts \in [Keys -> 0 .. MaxPip] : CallShow(slots, counts)

Sender == Write \/ WriteLost \/ WriteFails \/ Unlock
Runner == Open \/ Settle \/ GiveUp \/ Connect \/ Forward \/ Disconnect
Restorer(g) == RestoreStart(g) \/ RestoreSlot(g) \/ ShowPipsAgain(g)
Misser == \E n \in DOMAIN misses : HandleShowMiss(n)

Next ==
  \/ Caller \/ Sender \/ Runner \/ Misser \/ Handle \/ Close
  \/ \E g \in Sessions : Restorer(g)
  \/ Unplug \/ Plug \/ Reload

Spec == Init /\ [][Next]_vars

(* What runs on its own: the goroutines and the board's loop.  Some of it  *)
(* runs as long as any of it can; which one is not said.  Nobody has to    *)
(* call, plug or unplug.                                                   *)
Program ==
  \/ Sender \/ Runner \/ Misser \/ Handle
  \/ \E g \in Sessions : Restorer(g)
  \/ closing = "cancelled" /\ Close

FairSpec == Spec /\ WF_vars(Program)

-----------------------------------------------------------------------------
MemoryType ==
  /\ keys   \in [Keys -> KeyStates \union {None}]
  /\ glyphs \in [Keys -> GlyphOrNone]
  /\ frames \in [Slots -> FrameRecs \union {None}]
  /\ shown  \in [Keys -> Slots \union {None}]
  /\ pips   \in Counts
  /\ sheet  \in BOOLEAN
  /\ pin    \in [Keys -> Pins]
JobType ==
  \E P \in SUBSET Positions :
    job \in [by : Holders, dev : Devices, gen : Devices, err : BOOLEAN, todo : [P -> Messages]]
RunType ==
  /\ dev \in Devices /\ gen \in Devices /\ conn \in Devices
  /\ run \in {"open", "settle", "lock", "replay", "forward", "done"}
  /\ restore \in [Sessions -> Restores]
  /\ misses \in Seq(Misses)
  /\ closing \in {"no", "cancelled", "waiting"} /\ closedDev \in Devices
PadType ==
  /\ link \in Devices /\ session \in Devices
  /\ bkeys \in [Keys -> BoardKeys]
  /\ cache \in [Slots -> Frames \union {None}]
  /\ bsheet \in BOOLEAN
  /\ down \in Seq(Messages) /\ up \in Seq(SUBSET Keys)
BoundsType == calls \in Nat /\ reloads \in Nat /\ fresh \subseteq Keys

TypeOK == MemoryType /\ JobType /\ RunType /\ PadType /\ BoundsType

(* What the host remembers of a key hangs together: a key that shows a     *)
(* slot holds, as its own state, the picture of that slot, so a replay, a  *)
(* Show miss and the pips shown again all draw the same; and a count is    *)
(* remembered only for a key that shows a slot (recordKeyLocked, show).    *)
(* A Show that failed does not break it.  A later store into the slot of   *)
(* such a key does, for the picture: the frame table forgot the slot       *)
(* (flushFrames), and the memory did not (show).                           *)
MemoryAgrees ==
  \A k \in Keys :
    /\ shown[k] # None =>
         /\ keys[k] # None /\ frames[shown[k]] # None
         /\ pin[k] # "reused" =>
              Frame(shown[k]) = [color |-> keys[k].color, glyph |-> glyphs[k]]
         /\ keys[k].custom <=> glyphs[k] # None
    /\ pips[k] > 0 => shown[k] # None /\ sheet

(* The frame f is, or will be, what slot s holds when the board has taken  *)
(* every message in flight.                                                *)
IsStore(i, s) == down[i].t = "store" /\ down[i].slot = s
OnBoard(s, f) ==
  \/ /\ cache[s] = f
     /\ \A i \in DOMAIN down : ~IsStore(i, s)
  \/ \E i \in DOMAIN down : /\ IsStore(i, s) /\ down[i].frame = f
                           /\ \A j \in DOMAIN down : j > i => ~IsStore(j, s)

(* A frame of the current generation is on the board, or on its way there  *)
(* (the comment on Reconnecting.gen: a frame whose gen is not the current  *)
(* one is not on the board).  A code reload is what breaks this.           *)
FramesHeld ==
  dev # 0 /\ dev = link /\ reloads = 0 =>
    \A s \in Slots : frames[s] # None /\ frames[s].gen = gen => OnBoard(s, Frame(s))

(* A Show frames that goes out names only slots that are on the board      *)
(* before it, if the host ever stored them: show sends what is missing     *)
(* first, and the pips shown again come after every frame is restored.     *)
ShowIsBacked ==
  [][Len(down') > Len(down) /\ reloads = 0 /\ down'[Len(down')].t = "show" =>
       \A k \in Named(down'[Len(down')]) :
         LET s == down'[Len(down')].slots[k] IN
         frames[s] # None => OnBoard(s, Frame(s))]_vars

(* Nothing is under way: no send, no goroutine, no message in flight.      *)
Settled ==
  /\ closing = "no" /\ FreeToSend /\ run = "forward" /\ dev = link /\ Alive(dev)
  /\ misses = <<>> /\ down = <<>> /\ up = <<>>
  /\ \A g \in Sessions : restore[g] = NotRestoring

(* Once everything is delivered, each key set since the board last lost    *)
(* its RAM shows what the host remembers for it, whatever the unplugs and  *)
(* the order in which the goroutines took sendMu (the type's comment:      *)
(* Reconnecting remembers what each key shows as the board would hold it). *)
(* Show misses mend a code reload, but for the pips, which take the sheet, *)
(* and for the color under a glyph that was sent without one.  Not said of *)
(* a key whose Show failed and whose slot was then stored into: its replay *)
(* draws the one picture and the pips shown again the other.               *)
ColorSent(k) == reloads = 0 \/ shown[k] # None \/ ~keys[k].custom
PadShowsMemory ==
  Settled => \A k \in fresh : pin[k] # "reused" =>
    LET on == bkeys[k].on
    IN /\ on.glyph = glyphs[k]
       /\ ColorSent(k) => on.color = keys[k].color /\ bkeys[k].color = keys[k].color
       /\ reloads = 0 => on.pip = pips[k]

(* A board that stays gets every frame again and comes to rest showing     *)
(* what the host remembers of every key.  After a code reload it comes to  *)
(* rest too: no exchange of miss, store and show goes round forever        *)
(* (handleShowMiss).                                                       *)
AllRestored ==
  /\ \A s \in Slots : frames[s] # None => frames[s].gen = gen
  /\ \A k \in Keys : keys[k] # None => k \in fresh
Restored ==
  <>[](link # 0 /\ closing = "no") => <>[](Settled /\ (reloads = 0 => AllRestored))

(* A Close that found the device connected returns.                        *)
CloseOfConnectedReturns == closing = "waiting" /\ closedDev # 0 ~> Closed

(* Once Close has returned nothing reaches the board any more: no replay,  *)
(* restore, answer or send outlives it.                                    *)
SilentAfterClose == [][Closed => Len(down') <= Len(down)]_vars
=============================================================================
