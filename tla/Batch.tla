------------------------------- MODULE Batch -------------------------------
(***************************************************************************)
(* A layer change of a controller without a frame cache: Begin batch, then *)
(* the glyphs and key states of the keys, the board that holds the draws   *)
(* until they are there, and the Batch incomplete with which it asks for   *)
(* what it lacks (driver/layers/controller.go, driver/transport/           *)
(* reconnect.go, firmware/app.py).  CDC is a queue; the board holds one    *)
(* HID report, and a second one overwrites it.  A number stands for the    *)
(* content of a glyph or key state, time passes in units of BATCH_NUDGE_US.*)
(***************************************************************************)
EXTENDS PadKeys, SequencesExt, FiniteSetsExt

CONSTANTS
  Nudges, Deadline,          \* BATCH_NUDGES, and BATCH_TIMEOUT_US in units of time
  Modes,                     \* how a host may be set up and behave, with its bounds
  MaxSends                   \* a bound on the layer changes and client calls

(* overHID is Options.KeyStateOverHID.  A prompt host sends, and reads and *)
(* answers what it is asked, in less than one unit of time.  With clients, *)
(* somebody else sends key states too.  The bounds are the layer changes   *)
(* and client calls together, and the lost messages.                       *)
ModeType == [overHID : BOOLEAN, prompt : BOOLEAN, clients : BOOLEAN,
             maxSends : 0 .. MaxSends, maxLosses : Nat]

ASSUME BatchAssumption ==
  /\ NumKeys \in Nat /\ MaxSends \in Nat
  /\ Nudges \in Nat /\ Deadline \in Nat /\ Nudges < Deadline
  /\ Modes \subseteq ModeType /\ None \notin Nat

VARIABLES
  mode,             \* never changes
  memory,           \* the key states and glyphs that Reconnecting remembers
  script,           \* the calls that the controller has still to make
  asks,             \* Batch incompletes that wait for sendMu
  answering,        \* what the answer that has sendMu has still to send
  cdc, hid,         \* messages on their way, and the report that the board holds
  board,            \* what the board has of each key
  batch,            \* the open batch
  ended,            \* how the last batch ended
  lost,             \* messages lost since the last Begin batch was sent
  crossed,          \* a Batch incomplete and a newer Begin batch crossed
  sends, losses

host == <<memory, script, answering>>
pad  == <<board, batch, ended>>
batchVars == <<mode, host, asks, cdc, hid, pad, lost, crossed, sends, losses>>

Versions == 0 .. MaxSends
KeyStates == [state : Versions, custom : BOOLEAN, glyph : Versions \union {None}]
PowerOn == [state |-> 0, custom |-> FALSE, glyph |-> None]

BatchMsg(glyphs, states, n) == [t |-> "batch", glyphs |-> glyphs, states |-> states, n |-> n]
GlyphMsg(k, n)         == [t |-> "glyph", key |-> k, glyph |-> n]
StateMsg(k, n, custom) == [t |-> "state", key |-> k, state |-> n, custom |-> custom]

StateMsgs == {StateMsg(k, n, c) : k \in Keys, n \in Versions, c \in BOOLEAN}
DataMsgs  == StateMsgs \union {GlyphMsg(k, n) : k \in Keys, n \in Versions}
BatchMsgs == {BatchMsg(g, s, n) : g \in SUBSET Keys, s \in SUBSET Keys, n \in Versions}
Asks == [glyphs : SUBSET Keys, states : SUBSET Keys]
OpenBatches == [glyphs : SUBSET Keys, states : SUBSET Keys, keys : SUBSET Keys,
                pictures : SUBSET Keys, n : Versions,
                age : 0 .. Deadline, quiet : 0 .. Deadline, nudges : 0 .. Nudges]

ASSUME NothingAssumption ==
  None \notin KeyStates /\ None \notin StateMsgs /\ None \notin OpenBatches

(* What a glyph or a key state makes of a key, here and there.             *)
WithData(key, m) ==
  IF m.t = "glyph" THEN [key EXCEPT !.glyph = m.glyph, !.custom = TRUE]
  ELSE [state |-> m.state, custom |-> m.custom, glyph |-> IF m.custom THEN key.glyph ELSE None]

-----------------------------------------------------------------------------
(* Device: everything goes over CDC, or key states over HID.               *)
Transmit(m) ==
  IF mode.overHID /\ m.t = "state"
  THEN /\ hid' = m /\ UNCHANGED cdc
       /\ IF hid = None THEN UNCHANGED <<lost, losses>>
          ELSE losses < mode.maxLosses /\ losses' = losses + 1 /\ lost' = lost + 1
  ELSE cdc' = Append(cdc, m) /\ UNCHANGED <<hid, lost, losses>>

(* Every call has sendMu: none goes out between the messages of an answer. *)
NoLock == TRUE
LockFree == answering = <<>>

Remember(m) ==
  memory' = [memory EXCEPT ![m.key] = WithData(IF @ = None THEN PowerOn ELSE @, m)]

(* The glyph of a key and its key state, as numbers: a call goes through    *)
(* the keys in their order, and sends the glyph of a key before its state. *)
Parts(glyphs, states) == {2 * k : k \in glyphs} \union {2 * k + 1 : k \in states}
KeyOf(part)   == part \div 2
OfGlyph(part) == part % 2 = 0

(* Controller.flush: the keys that changed, those with a picture glyph     *)
(* first.                                                                  *)
Calls(keys, glyphs, n) ==
  LET parts == InOrder(Parts(glyphs, keys))
  IN [i \in DOMAIN parts |->
        LET k == KeyOf(parts[i])
        IN IF OfGlyph(parts[i]) THEN GlyphMsg(k, n) ELSE StateMsg(k, n, k \in glyphs)]
Script(keys, glyphs, n) == <<BatchMsg(glyphs, keys, n)>> \o Calls(keys, glyphs, n)

Flush ==
  /\ script = <<>> /\ sends < mode.maxSends /\ sends' = sends + 1
  /\ \E keys \in {S \in SUBSET Keys : Cardinality(S) >= 2} : \E glyphs \in SUBSET keys :
       script' = Script(keys, glyphs, sends + 1)
  /\ UNCHANGED <<mode, memory, asks, answering, cdc, hid, pad, lost, crossed, losses>>

Call ==
  /\ script # <<>> /\ LockFree /\ script' = Tail(script)
  /\ LET m == Head(script)
     IN IF m.t = "batch"
        THEN /\ cdc' = Append(cdc, m) /\ lost' = 0 /\ crossed' = (crossed \/ asks # <<>>)
             /\ UNCHANGED <<memory, hid, losses>>
        ELSE Transmit(m) /\ Remember(m) /\ UNCHANGED crossed
  /\ UNCHANGED <<mode, asks, answering, pad, sends>>

ClientCall ==
  /\ mode.clients /\ LockFree /\ sends < mode.maxSends /\ sends' = sends + 1
  /\ \E k \in Keys, custom \in BOOLEAN :
       LET m == StateMsg(k, sends + 1, custom) IN Transmit(m) /\ Remember(m)
  /\ UNCHANGED <<mode, script, asks, answering, pad, crossed>>

(* handleBatchIncomplete, a goroutine for each: what it sends is read when *)
(* it has sendMu.  It answers with what is remembered of the named keys.   *)
AnswersWith(glyphs, states) ==
  LET parts == InOrder(Parts({k \in glyphs : memory[k] # None /\ memory[k].glyph # None},
                             {k \in states : memory[k] # None}))
  IN [i \in DOMAIN parts |->
        LET k == KeyOf(parts[i])
        IN IF OfGlyph(parts[i]) THEN GlyphMsg(k, memory[k].glyph)
           ELSE StateMsg(k, memory[k].state, memory[k].custom)]
AnswersNoState(ask) == AnswersWith(ask.glyphs, {})
Answers(ask)        == AnswersWith(ask.glyphs, ask.states)

HandleBatchIncomplete(i) ==
  /\ LockFree
  /\ answering' = Answers(asks[i]) /\ asks' = RemoveAt(asks, i)
  /\ UNCHANGED <<mode, memory, script, cdc, hid, pad, lost, crossed, sends, losses>>
Answer ==
  /\ answering # <<>> /\ answering' = Tail(answering)
  /\ Transmit(Head(answering))
  /\ UNCHANGED <<mode, memory, script, asks, pad, crossed, sends>>

-----------------------------------------------------------------------------
(* The board.  p is <<board, batch, ended>> in the middle of a pass.       *)
Opened(p, m) ==
  [p EXCEPT !.batch = [glyphs |-> m.glyphs, states |-> m.states, keys |-> m.glyphs \union m.states,
                       pictures |-> m.glyphs, n |-> m.n, age |-> 0, quiet |-> 0, nudges |-> 0],
            !.ended = IF p.batch = None THEN @ ELSE "replaced"]
WithMessageBoth(p, m) ==
  LET keys == [p.board EXCEPT ![m.key] = WithData(@, m)]
  IN IF p.batch = None THEN [p EXCEPT !.board = keys]
     ELSE [p EXCEPT !.board = keys, !.batch.glyphs = @ \ {m.key}, !.batch.states = @ \ {m.key},
                    !.batch.quiet = 0]
WithMessage(p, m) ==
  LET keys == [p.board EXCEPT ![m.key] = WithData(@, m)]
  IN IF p.batch = None THEN [p EXCEPT !.board = keys]
     ELSE [p EXCEPT !.board = keys,
                    !.batch.glyphs = IF m.t = "glyph" THEN @ \ {m.key} ELSE @,
                    !.batch.states = IF m.t = "state" THEN @ \ {m.key} ELSE @,
                    !.batch.quiet = 0]
Received(p, m) == IF m.t = "batch" THEN Opened(p, m) ELSE WithMessage(p, m)

(* _release_batch_if_done, at the end of every pass.                       *)
Complete(b) == b.glyphs = {} /\ b.states = {}
Late(b)     == b.age >= Deadline
Quiet(b)    == b.nudges < Nudges /\ b.quiet >= 1
BatchDueNever(b) == b # None /\ (Complete(b) \/ Quiet(b))
BatchDue(b)      == b # None /\ (Complete(b) \/ Late(b) \/ Quiet(b))

Checked(p) ==
  IF ~BatchDue(p.batch) THEN p
  ELSE IF Complete(p.batch) THEN [p EXCEPT !.batch = None, !.ended = "complete"]
  ELSE IF Late(p.batch) THEN [p EXCEPT !.batch = None, !.ended = "late"]
  ELSE [p EXCEPT !.batch.nudges = @ + 1, !.batch.quiet = 0]
Asked(p) ==
  IF BatchDue(p.batch) /\ ~Complete(p.batch) /\ ~Late(p.batch)
  THEN <<[glyphs |-> p.batch.glyphs, states |-> p.batch.states]>> ELSE <<>>

(* One pass of the loop: a message from CDC, a report, and the batch.      *)
Step ==
  \E c, h \in BOOLEAN :
    LET p0 == [board |-> board, batch |-> batch, ended |-> ended]
        p1 == IF c THEN Received(p0, Head(cdc)) ELSE p0
        p2 == IF h THEN Received(p1, hid) ELSE p1
    IN /\ c => cdc # <<>>
       /\ h => hid # None
       /\ c \/ h \/ BatchDue(batch)
       /\ cdc' = (IF c THEN Tail(cdc) ELSE cdc) /\ hid' = (IF h THEN None ELSE hid)
       /\ board' = p2.board /\ batch' = Checked(p2).batch /\ ended' = Checked(p2).ended
       /\ asks' = asks \o Asked(p2)
       /\ crossed' = (crossed \/ (Asked(p2) # <<>> /\ \E m \in ToSet(cdc') : m.t = "batch"))
       /\ UNCHANGED <<mode, host, lost, sends, losses>>

(* Core 1 does not inflate a glyph in time, and the reader drops it.       *)
DropGlyph ==
  /\ cdc # <<>> /\ Head(cdc).t = "glyph" /\ losses < mode.maxLosses
  /\ cdc' = Tail(cdc) /\ lost' = lost + 1 /\ losses' = losses + 1
  /\ UNCHANGED <<mode, host, asks, hid, pad, crossed, sends>>

Silent == script = <<>> /\ asks = <<>> /\ answering = <<>> /\ cdc = <<>> /\ hid = None

Tick ==
  /\ batch # None /\ ~BatchDue(batch)
  /\ mode.prompt => Silent
  /\ batch' = [batch EXCEPT !.age = Min({@ + 1, Deadline}), !.quiet = Min({@ + 1, Deadline})]
  /\ UNCHANGED <<mode, host, asks, cdc, hid, board, ended, lost, crossed, sends, losses>>

BatchInit ==
  /\ mode \in Modes
  /\ memory = [k \in Keys |-> None] /\ script = <<>> /\ asks = <<>> /\ answering = <<>>
  /\ cdc = <<>> /\ hid = None
  /\ board = [k \in Keys |-> PowerOn] /\ batch = None /\ ended = "none"
  /\ lost = 0 /\ crossed = FALSE /\ sends = 0 /\ losses = 0

BatchNext ==
  \/ Flush \/ Call \/ ClientCall
  \/ \E i \in DOMAIN asks : HandleBatchIncomplete(i)
  \/ Answer \/ Step \/ DropGlyph \/ Tick

BatchSpec == BatchInit /\ [][BatchNext]_batchVars

(* The board's loop runs and its clock goes on.  Nothing else has to.      *)
BatchFairSpec == BatchSpec /\ WF_batchVars(Step) /\ WF_batchVars(Tick)

-----------------------------------------------------------------------------
BatchTypeOK ==
  /\ memory \in [Keys -> KeyStates \union {None}]
  /\ script \in Seq(DataMsgs \union BatchMsgs) /\ answering \in Seq(DataMsgs)
  /\ asks \in Seq(Asks) /\ cdc \in Seq(DataMsgs \union BatchMsgs)
  /\ hid \in StateMsgs \union {None}
  /\ board \in [Keys -> KeyStates] /\ batch \in OpenBatches \union {None}
  /\ ended \in {"none", "complete", "late", "replaced"}
  /\ mode \in Modes /\ crossed \in BOOLEAN
  /\ {lost, losses} \subseteq 0 .. mode.maxLosses /\ sends \in 0 .. mode.maxSends

(* Over CDC, when nothing is on its way and nothing was lost, the board    *)
(* has of every key what the host remembers: an answer never puts back     *)
(* what a later call replaced (handleBatchIncomplete).  A report over HID  *)
(* may overtake a glyph.                                                   *)
BoardAgrees ==
  ~mode.overHID /\ Silent /\ losses = 0 =>
    \A k \in Keys : memory[k] # None => board[k] = memory[k]

(* A batch does not stay open, whatever the host does (BATCH_TIMEOUT_US).  *)
(* Time stands still while a prompt host sends, which nothing makes it do. *)
BatchesEnd == batch # None /\ ~mode.prompt ~> batch = None

(* The batch of a layer change that a prompt host completes runs into its  *)
(* time-out only when the data and every answer to the nudges was lost: up *)
(* to Nudges losses heal (firmware/app.py, _nudge_batch; docs/wire-        *)
(* protocol.md, "Batch incomplete").  Reports that overtake the Begin      *)
(* batch cost one nudge, and another send may put all of them off.         *)
LateMeansLost ==
  /\ BatchTypeOK
  /\ mode.prompt /\ sends = 1 /\ ended = "late" =>
       lost >= Nudges + (IF mode.overHID THEN 0 ELSE 1)

(* A batch that is complete has, of every key that it names, the key state *)
(* and the glyph that were sent for it or later ones (docs/wire-           *)
(* protocol.md, "Begin batch"), over CDC, if the host did not answer for   *)
(* an earlier batch after it.                                              *)
Current(k, b, key) ==
  /\ key.state >= b.n
  /\ k \in b.pictures => key.glyph = None \/ key.glyph >= b.n
CompleteIsCurrent ==
  [][(batch # None /\ batch' = None /\ ended' = "complete")
      => \/ mode.overHID \/ ~mode.prompt \/ crossed
         \/ \A k \in batch.keys : Current(k, batch, board'[k])]_batchVars
=============================================================================
