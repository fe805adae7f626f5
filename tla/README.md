# A TLA+ verification project for macro-pad

The macro pad has six keys, each a small display.  A Go daemon
(`driver/`) keeps the board connected, owns a tree of layers that plugins
fill, and draws the open layer on the keys.  The board (`firmware/`,
CircuitPython) receives pictures and key states, sends presses, and pushes
frames to its panels by DMA.  The inbox (`inbox/`, JavaScript) is a plugin that
shows the unseen messages of other programs as keys.

This directory holds TLA+ modules for the parts of this system in which
the order of events matters, TLC configurations that check them on small
instances, and proofs that TLAPS checks for every value of the constants.

- [1. The system](#1-the-system): its parts, their state, how they interact
- [2. The modules](#2-the-modules): which module models what, and how
- [3. The runs](#3-the-runs): what each shows, its bounds, why they are enough
- [4. Fairness](#4-fairness)
- [5. The proofs](#5-the-proofs)
- [6. Where the code and its texts differ](#6-where-the-code-and-its-texts-differ)
- [7. What is not modelled](#7-what-is-not-modelled)
- [8. The plan](#8-the-plan)

To run: `tlc -config Fanout.cfg Fanout.tla` (the module of each configuration
is in the table of section 3), and `tlapm FanoutProofs.tla`.


## 1. The system

### 1.1 Parts and their interactions

```
 inbox daemon, other plugins            (processes)
        | WebSocket: tree changes, key states   ^ presses, layers, children
        v                                       |
 plugin.Server --- layers.Controller            (one daemon)
        |   readPumps, writePumps, dispatchLoop, layerPressLoop
        |                 | flush, preload
        v                 v
 transport.Reconnecting  <-- Fanout <-- run/forward
        | sendMu, mu; keys, glyphs, frames; state directory
        v                                       ^
 serial port (CDC), HID reports                 | events, Show miss, Batch incomplete
        v                                       |
 firmware/app.py: step() -> frame cache, batches, push queue -> panels
```

| part | state it keeps | operations | hard behaviour | what makes it correct |
| --- | --- | --- | --- | --- |
| **Reconnecting** (`driver/transport/reconnect.go`) | the key state and glyph of each key, the frame of each slot, the slot and count each key shows, the pip sheet, the device and its generation; `sendMu`, `mu` | `SendKeyState`, `SendCustomGlyph`, `StoreFrame`, `ShowFrames(WithPips)`, `StorePipSheet`, `BeginBatch`, `Close`; the run goroutine (open, settle, replay, forward); the goroutines that restore frames, answer a Show miss and answer a Batch incomplete | unplugs at any write, calls during a replay, a code reload that keeps USB up, goroutines that outlive their device, a board whose own writes block | what is remembered hangs together; the host never names a slot the board lacks; at rest the board shows what is remembered; Close ends everything |
| **State store** (`statestore.go`) | keys.json, one file for each glyph hash, old per-key glyph files | `load`, `prune`, `saveGlyph`, `saveKeys`, `writeFile` | the daemon ends between two files, a write fails, a file is spoiled | a restart finds the last save, and never a picture of another key |
| **Fan-out** (`fanout.go`) | the subscribers and a bounded queue for each | `Run`, `Subscribe`, `ReadMessage`, `Close` | a slow reader, a close that races a delivery | order kept, nobody blocks, no channel is closed twice |
| **Frame redraw and preload** (`driver/layers/frames.go`) | the frame table (slot to frame and back, last use), what each key was last drawn with, the preload's kicks and passes | `flushFrames`, `claim`, `storeFrame`, `preloadLoop`, `preloadPass`, `WaitPreload` | evictions in the middle of a redraw, failed writes, a preload that yields to presses | the table is a bijection that agrees with the board; shown slots are never overwritten; no kick is lost |
| **Layer controller** (`controller.go`, `doc.go`, `pages.go`) | the tree, the open path and its pages, the dirty flag, what each key was last drawn with | `SetKey`, `RemoveNode`, `PressNode`, `mutate`, `flush`, `saveLoop`, `Close`, `Open` | changes that take the open layer away, draws and saves that fail, changes during a save, a daemon that is killed | the open path and its pages stay valid; pad, notices and file follow the tree |
| **Plugin server** (`driver/plugin/server.go`) | clients with bounded queues, the cache of key states, the press queue | `addClient`, `removeClient`, `applyKeyState`, `showFrames`, `broadcast`, `dispatchLoop`, `layerPressLoop` | a client that connects in the middle of a call, one that reads nothing, two writers of one key | a client learns every key state, notices arrive in order, a slow client leaves and blocks nobody |
| **Click resolver** (`resolver.go`) | per key: pressed, awaiting a second press, the pending timer | `handleEvent`, the timer's function | a timer that has fired and waits for the lock | a click counts in one signal at most; it is answered, unless a press gets long after it |
| **Main loop: panels** (`firmware/app.py`) | queue of frames, the group on the wire, the held batch, pip buffers | `_submit_push`, `_service_pushes`, `_requeue_active_group`, `_show_frames`, `_store_frame`, `_render_dirty_keys` | a buffer that is rewritten while DMA reads it, a group that desyncs while newer frames wait | every panel ends with its newest frame, no frame is torn, a batch draws at once |
| **Main loop: batches** (`app.py`, `_Batch`) | what a layer change still lacks, its age and nudges | `_begin_batch`, `_apply_key_state`, `_release_batch_if_done`, `_nudge_batch` | reports over HID that overwrite one another or overtake CDC, glyphs dropped, answers that come late | a batch ends, losses heal, a complete batch is current |
| **Frame cache, bus** (`frame_cache.py`, `pio_spi.py`, `st7735.py`) | slots, pip buffers, DMA progress | `store`, `view`, `pip_buffer`, `push`, `done`, `desynced` | see the main loop | |
| **Wire reader** (`firmware/wire.py`) | the message being read, the glyph core 1 inflates | `read`, `_collect` | core 1 misses its time | a dropped glyph does no harm |
| **Inbox daemon** (`inbox/src/daemon.js`, `render.js`, `store.js`, `cli.js`) | a pid file per plugin; its copy of the store's rows and their version, what it believes the pad holds, the open layer | `acquirePidFile`, `runDaemon`, `releaseAll`; `poll`, `reread`, `runFeed`, `push`, `becomeReady`, `onChildPressed` | daemons that start at once, stale files, recycled pids; writes between two queries, failed reads, lost connections, children of an earlier daemon, a layer that opens while removals are on their way | one daemon for each plugin; no write missed; the pad holds what the renderer believes; keys do not move under a finger |
| **Small parts** (`tracer.py`, `idle_timer.py`, `debounce.py`, `audio_buffer.py`) | ring buffers and clocks | | wrap-around of counters | |

### 1.2 Hazards

`PROJECT.json` lists, line by line, what is hard to test in this code.  They
fall into five groups:

1. **Two owners of one truth.**  The host remembers what the board shows, the
   controller remembers what the transport shows, the server remembers what the
   clients know, and the state directory what the host remembers.  Each pair is
   kept in step by messages that unplugs, failures and other goroutines cut.
2. **Read under a lock, used after it.**  `show`, `addClient`, the preload and
   the answers to the board all act on what was true before they waited.
3. **Bounded places.**  Slots of the cache, queues of clients and subscribers,
   the press queue, the one HID report, pip buffers.
4. **Timers that race.**  Double presses, nudges and time-outs of a batch, the
   idle time of the preload.
5. **Processes that end anywhere.**  Between two files, with a pid file held.


## 2. The modules

Every component is a module with its state as VARIABLES and one action for each
critical section of the code.  Go's mutexes are modelled where they
matter: an action is what the code does between two points at which another
goroutine can come in.  A lock that is held over several steps (`sendMu` over
writes that block) is a variable.

| module | models | proofs |
| --- | --- | --- |
| `PadBoard` | what one host message does to a board: the pure part | |
| `Reconnecting` (extends `PadBoard`), `MCReconnecting` | `reconnect.go`, composed with the board and the serial port | `ReconnectingProofs` |
| `StateStore`, `DurableState`, `MCStateStore` | the state directory, and the abstract promise that it implements | `StateStoreProofs` |
| `Fanout` | `fanout.go` | `FanoutProofs` |
| `Pages` | `pages.go`: pages, roles of the keys, the place of each child; pure | `LayerTreeProofs` |
| `LayerTree` (extends `Pages`), `MCLayerTree` | `doc.go`, `controller.go`, and the daemon's end and start | `LayerTreeProofs` |
| `LayerFrames` | `frames.go`, and the parts of `controller.go` around it | `LayerFramesProofs` |
| `PluginServer` (extends `PadKeys`), `MCPluginServer` | `plugin/server.go` | `PluginProofs` |
| `ClickResolver` | `plugin/resolver.go` | `PluginProofs` |
| `PadKeys` | the keys of a pad, and sets of them in order; pure | `FirmwareProofs` |
| `PushQueue` (extends `PadKeys`) | the panels half of `app.py`, with cache and bus | `FirmwareProofs` |
| `Batch` (extends `PadKeys`), `MCBatch` | a layer change without a cache: controller, transport, wire and the batch half of `app.py` | `FirmwareProofs` |
| `PidFile` | `acquirePidFile` and its callers | `InboxProofs` |
| `InboxDaemon` | `startDaemon` with the renderer, the store, other writers, and macropadd as it uses it | `InboxProofs` |

### Reconnecting and PadBoard

`keys`, `glyphs`, `frames`, `shown`, `pips` and `sheet` are the fields of the
same meaning; `dev` and `gen` the device and its generation.  `job` is `sendMu`:
its holder, and the messages that the holder has still to write.  All of a
call's bookkeeping under `mu` is one action (`CallSendKeyState`,
`CallSendCustomGlyph`, `CallStoreFrame`, `CallShow`, ...), and each write to the
port is another (`Write`, `WriteFails`), because an unplug, the end of a replay or a message of the board
may come between.  `run` is the position of the run goroutine; `restore[g]`
and `misses` are the goroutines that a connect and a Show miss start.  `link` is
the cable, `session` counts plug-ins, and `down` and `up` are the two directions
of the port with bounded room, so a write may block.  Device numbers grow, so
a dead device is told from the current one as a pointer comparison does in Go.

A picture is a color, a glyph or none, and a count pip.  `PadBoard` says what
each message makes of a key (`WithKeyState`, `WithGlyph`, `AfterShow`); the
board's own timing is in `PushQueue` and `Batch`.

`Drawn` is the set of frames that callers store; the proofs take any, the run the
two kinds that differ, a plain color and a glyph.  `Sent` is the set of key states
that callers send, in the run one without the sentinel: see section 6, second
entry.  `Before` is what a slot may hold from before the first plug-in.

Two parts of the daemon remember which slot a key shows.  The transport records it
before it writes (`show`), and the controller when the Show has returned
(`flushFrames`); only the controller keeps the slots of keys from being stored
into (`pinnedSlot`).  `pin[k]` says how the two stand: "held" while the controller
counts the key as showing the slot in `shown`, "loose" after a Show of the key
has failed, and "reused" once something has been stored into that slot.
`MayStore` is the guard of the controller: it spares the slots that are held.

### StateStore and DurableState

`keys.json` is `file`, glyph files by hash are `hashed`, those of an older daemon
are `legacy`.  `writeFile` writes a temporary file and renames it, so a write is
one step that happens or does not; the daemon may end (`End`) between any two.
`BareSentinel` is whether a client sends the sentinel for a key that has no
glyph; it is FALSE in the run (section 6, fifth entry).

`DurableState` is what the directory promises: a call that has returned is saved,
all of it; a daemon that ends in the middle of a call goes back to the last save; a
restart finds what was saved; as long as no write failed and nobody spoiled a file.
`StateStore!Durable` is `DurableState!Spec` under the mapping of `Promise`: a
call is under way while keys are recorded, what is remembered is what the keys
show, and what is saved is what `load` would make of the directory as it is,
glyph files and old files included.  So every step that writes, moves or prunes
a file must be a step of the promise or change nothing that a restart would find.

### Fanout

`Deliver` is one message handed to all subscribers under `f.mu`, `Subscribe`,
`Unsubscribe` and `CloseAll` the other critical sections, and `Call`, `Take` and
`Eof` a reader's `ReadMessage`.  A message is its number.

### Pages and LayerTree

A node is known by its path, the ids from a top-level key down to it; a document
is the key of each id, the nodes, the open path, its page and the pages of the
layers above (`active`, `page`, `parents`, as in `Doc`).  The face of a node is
all that it shows.  In the code a node holds its children, so there is nothing to say;
for nodes in a function of paths `Docs` says it: a path leads over children, a child
is a node, and the top level holds each id once, as `Validate` asks.  A document
that the run reads from a file (`SavedDocs`) is one that `Docs` and `Valid` allow,
since parsing gives a nested value and `Load` validates it.  `Spliced` is the
`append(Children[:i], Children[i+1:]...)` of a removal.  `Settle`, `Valid`, `Applied` and `Pressed` are `settle`,
`Validate`, `applyUpdate` with `applyRemove`, and `PressNode`.  `Set` and `Press`
are a `mutate` up to the end of its hold on `mu`; `Draw` is its redraw, in which
any draws may fail, and covers key by key as well as one Show frames, as `Out`
may be either; `EndMutate` is the notice and the release of `sendMu`.  `Tick`,
`Write` and `LastSave` are the saver: the copy taken under `mu`, the file, and the save that Close
makes.  `End` is a daemon that is killed, or that has closed; `Start` reads the
file.  The pad keeps what the transport remembers, which survives a kill
(`StateStore`).

### LayerFrames

`Mutate` is a change of the object and the start of a redraw; `DrawKey` handles
one key (look-up, eviction, store, or the fallback to a plain key state), and
`ShowFrames` the single message at the end; `sendMu` is held throughout, so
`flush # "no"` keeps the preload out.  The preload is its loop: wait for a kick,
copy the frames needed, and store them one at a time while the pad is quiet.
The transport is modelled by what `Reconnecting` remembers after each
call, with writes that fail.  A view is the frame, the count and the rest of
what `flushFrames` compares.

### PluginServer

`addClient` is four actions (`Connect`, `SnapshotTo`, `ReadLayer`, `SendLayer`), as
the code holds `s.mu` for the first and `stateMu` for the second.  A writer's call
(`ApplyKeyState`, `ApplyCustomGlyph`, `ShowFrames`) gives the key to the board, and
then each of its messages to `RememberState` and `BroadcastState`.  A message is
about the state of a key or about its image; a frame that is shown is told as an
image and then a state, and the cache holds one message for each key, so the state
takes the place of the image (section 6).  `device` and `image` are what the board
was given last.  `DispatchPress` is dispatchLoop,
and `TakePress` to `NameChild` are layerPressLoop with the controller.  `raced` collects the keys about which two calls
overlapped, and `cut` the clients whose queue was full while `addClient` filled
it; the properties name both exceptions rather than hide them.  The replay of
`addClient` goes through the keys of the cache in order.

### ClickResolver

Clicks are numbered, and a signal says which ones it is about; so "counted once"
and "answered" can be said.  A press that gets long takes the click that waits
before it out of every signal (section 6).  `prompt` is a schedule in which a timer's goroutine
runs before the next event.

### PushQueue

A frame is a number and the buffer it is read from.  `rewritten` collects keys
whose buffer changed between draw and push, `gaveUp` records that a wait for a
push has reached its limit.  The bus ends a group sent or desynced.

### Batch

A number stands for the content of a glyph or a key state, so the newer of two
is known.  `mode` is the host's set-up, chosen once: over CDC alone or with HID,
prompt or not, with other clients or not, with bounds on sends and losses.  Time
is in units of the nudge interval.

### PidFile

A process is its pid, the files are what processes share, and each system call
of `acquirePidFile` (create, fill, read, judge, unlink) is an action.  `others`
are the pids of processes that have nothing to do with the inbox; they come and
go, with any pid that no daemon has.  `isAlive` asks for any process, so `Alive`
counts them; `misled` remembers that a daemon was refused because of one.

### InboxDaemon

A handler of the daemon (a timer, a message, the end of a fetch) runs to its end
before the next, so it is one action, except between two queries to the store,
where another process may commit: `query` is the query that comes next.
`commits` is `PRAGMA data_version`, which a write on the daemon's own connection
does not change; so `TakePress` and `FeedWrites` go on to a re-read of their
own, as the code does.  `renderer` is the state of `createRenderer`: what was
sent, the children in order, the ids that each showed, and the children an
earlier daemon may have left.  `Gone`, `Shown` and `Out` are `plan`.  `toPad`
and `toDaemon` are the two directions of the connection, and `client` is how far
macropadd has got with the daemon as a client: registered, the layer read and not
yet queued (`ReadLayer`, `SendLayer`), served, or behind, when what it queued last
of the layer is not how the layer is.  A full queue (`QueueSize`) loses what
macropadd tells.  `Deliver` is macropadd
applying one message, by the rules of `LayerTree` (a top key without a place on
the pad, a child of no key and a child too many are refused, a layer without
children closes); `room` says whether the pad has a place for the top key.
The rules of which keys there are and what they show are
those of the basic plugin.  Times are left out: a poll, a guard read or the
time-out of the layer may come at any moment.  `calm` and `stale` are history:
the layer has been open since the pad had nothing left to do, and a read has
failed since the copy was made.


## 3. The runs

Times are with two workers on a small machine.

| run | module, configuration | states | time |
| --- | --- | --- | --- |
| `reconnecting` | `MCReconnecting`, `Reconnecting.cfg` | 0.8 M | 180 s |
| `layer_frames` | `LayerFrames`, `LayerFrames.cfg` | 0.7 M | 130 s |
| `layer_tree` | `MCLayerTree`, `LayerTree.cfg` | 0.3 M | 110 s |
| `state_store` | `MCStateStore`, `StateStore.cfg` | 1.8 M | 105 s |
| `plugin_server` | `MCPluginServer`, `PluginServer.cfg` | 1.5 M | 60 s |
| `push_queue` | `PushQueue`, `PushQueue.cfg` | 0.9 M | 120 s |
| `batch` | `MCBatch`, `Batch.cfg` | 0.3 M | 95 s |
| `inbox_daemon` | `InboxDaemon`, `InboxDaemon.cfg` | 0.7 M | 200 s |
| `pid_file` | `PidFile`, `PidFile.cfg` | 5.5 M | 100 s |
| `fanout`, `click_resolver` | the module of that name | small | seconds |
| `click_resolver_pair` | `ClickResolver`, `ClickResolverPair.cfg` | a counterexample | seconds |

**reconnecting.**  `MemoryAgrees`: a key that shows a slot also has, as its own
state, the picture of that slot; so a replay, a Show miss and the pips draw the
same; but for a key whose Show failed and whose slot was then stored into
(section 6).  `FramesHeld`: a frame that counts as stored on this connection is on the
board or on its way.  `ShowIsBacked`: a Show frames never names a slot that the
board will not have.  `PadShowsMemory`: at rest, each key shows what is
remembered; after a reload, its color only where the host sent one (section 6,
last entry).  `Restored`: a board that stays plugged in gets every frame and key
state again, and the exchange of misses, stores and shows ends.
`CloseOfConnectedReturns`: a Close that found a device comes back.
`SilentAfterClose`: nothing is written after Close has.
Bounds: one key and one slot that is stored again while it is shown; two calls,
two sessions, one reload and a Close, so that each falls before, in and after a
replay; one message in each direction, which makes every write block.  A slot that
holds a frame from before the first plug-in makes two calls enough for a Show that
fails and a store into its slot.  Keys do not interact in this module but
in the messages that name several (`Show`); the proofs have any number.

**layer_frames.**  One key, all kinds of views: a count past the cap, a picture
that fits no slot, looks, frames that only hidden layers need, so that the
preload fills the cache and a redraw must evict; presses, a failed write, and
Close.  `PadShowsObject` relates the object to the board, `PreloadIsComplete` is
the promise of `WaitPreload`, `ShownIsDrawn` and `StoresSpareShown` are what
makes it safe to skip a key and to store in the background (section 5), and
`PreloadCatchesUp` and `PreloadStops` are the liveness of the loop.  An
eviction within one redraw needs several keys: `NamedSlotsKept` is proved for
any number.

**layer_tree.**  Three keys, so that a layer of three children has two pages, and
trees of up to three levels, from three files of an earlier daemon and from none.
The requests add, change, move and remove keys and children below the open
layer, in it and above it.  `EveryChangeFits`: whatever is set, removed or
pressed, the settled document validates unless it breaks a limit of its own, so
no change is refused because of what is open.  `LayerStaysOpen`: a change closes
no layer but one it took away, and keeps the page if it is still there.
`PadShowsTree`, `NoticesAgree`: between two redraws, the pad and the clients have
what the object says, also after a kill.  `CleanMeansSaved`, `ChangesAreSaved`:
an object that counts as saved is, and every change gets there while the
daemon runs.  Two changes, one failure and two starts: a change during a save, or between
the kill and the next start, is one of each.

**state_store.**  Two keys and two pictures, so a picture can be shared, moved
and pruned while the other key has it; three calls, two starts, one write that
fails, one file spoiled.  It starts from an empty directory or from one that an
older daemon left.  `Durable`: while no write fails and no file is spoiled, what a
restart would find is what the last call that returned left behind, wherever the
daemon ends.  `NoForeignPicture`: whatever fails, no key gets the picture of another.

**plugin_server.**  `ClientsAgree`: a client that lost nothing ends with the last
message about every key, whenever it came, and an image that it heard is the
board's.  `ChildrenInOrder`: it hears of a press before its child, and of children
in the order of the presses.  One client that comes at any moment, reads or stalls; two
writers of two keys, two payloads; two units of work (calls, presses), one change of
layer, a queue of two; writers and payloads are interchangeable (`MCPluginServer`).
Two units are two calls, one inside the other, or two presses.  Two writers are needed for a call inside another; one client is
enough, as clients meet only in the registry and in `broadcast`, which treats
each alone.

**push_queue.**  Two keys with a group of one (so one key waits while the other
is on the wire), two slots, three messages and one desync.  `LatestIsComing`:
a key waits at most once, and its newest frame is the last one on its way to its
panel, or a batch will draw it.  `FramesStayWhole`: no buffer is rewritten between
the draw and the push of its frame, unless a wait gave up.  `PanelsCatchUp`: every
panel comes to show its newest frame.

**batch.**  Three hosts.  `Busy` has clients that change keys while
answers of any age are under way: `BoardAgrees`.  `Lossy` sends over HID
and loses up to three messages: `LateMeansLost`.  `Twice` has two layer changes
and dropped glyphs: `CompleteIsCurrent`.  `BatchesEnd` holds for a host that may
do anything.  The deadline of three units leaves room for the one nudge and its answer, as the
code's four (2 s by 500 ms) leave room for three nudges.

**fanout.**  `TakenInOrder`, and `BlockedReadersReturn`: the end of
the transport reaches every reader.  Two subscribers and queues of two with four messages: one queue
overflows while the other is read.

**pid_file.**  Two daemons with two plugins in any order, three starts, two ends
(signals or crashes), and files that hold the pid of a process that is gone, or
that was given since to a daemon or to a process that is none.  `OneRuns` holds
with all of them; `SomeoneRuns` not once a daemon was refused because of a process
that has nothing to do with the inbox (section 6).

**click_resolver.**  Five clicks and six presses: a timer that is late by two
whole clicks.  `ClicksCountOnce`: no click is in two signals.  `ClicksAreAnswered`:
a click gets into one, unless a press gets long after it.  `click_resolver_pair` is the counterexample of section 6.

**inbox_daemon.**  Three channels for the two places of the layer, so one waits,
and the order of the others changes; the layer may be open at the start with
children in any order.  One write (of another process, of the feed, or a mark of
the inbox command), one use of the user (opening, closing, a press) and one
trouble (a failed query, a lost connection, an end of the daemon) at any moment.
`VersionCoversRows`: a daemon at rest that has the version of the store has its
rows.  `PadShowsPlan`: when nothing is on its way, the pad holds what the
renderer believes.  `OpenLayerKeepsKeys`: while the layer is open, no key moves or
goes.  `PadCatchesUp`: a daemon that stays up brings the pad to what the store
says, also after a read that failed behind a version it had already taken: that
is what the guard read is for.  It leaves out a pad with no place for the top key,
and a daemon that macropadd has left with another layer than the open one
(section 6): without either condition TLC finds it violated.  The queue of two
is full after the layer and one press.

`CHECK_DEADLOCK` is off everywhere: all runs bound the work that arrives, and
a system that has done it all stops.  Progress is stated by the liveness
properties instead.

`TypeOK` is part of one invariant of most runs (`LateMeansLost`, `PadShowsPlan`,
`ClientsAgree`, `OneRuns`, `EveryChangeFits`, `LatestIsComing`,
`ClicksCountOnce`, `NoForeignPicture`); all but `PadShowsPlan` are proved with it.  Some of these have smaller facts beside it that are not runs
of their own: `QueueAgrees`, `OwnTimerDecides`, `RegisteredAreOpen` and
`FilesHaveHolders`.

Each property is listed in `PROJECT.json` with a mutant, a plausible slip in
the code that makes it fail under its own configuration.


## 4. Fairness

Fairness is only assumed of what the runtime schedules, never of users,
cables, peers or failures.

| module | fair | because |
| --- | --- | --- |
| `Reconnecting` | one condition over all of: the holder of `sendMu`, the run goroutine, the goroutines of restore and Show miss, the board's loop, the second half of Close | some goroutine that can run does run, and the firmware's loop never waits for the host but at a full buffer. Calls, plugs and reloads are not fair. |
| `LayerFrames` | one condition over the redraw, the preload and the passing of idle time | some goroutine that can run does run; a timer fires. Presses are bounded. |
| `LayerTree` | the redraw; the saver | goroutines, one each. Clients, presses, kills and starts are not fair. |
| `InboxDaemon` | one condition over the daemon's handlers and macropadd's | the event loop runs its timers (poll, guard, back-off) and messages. Users, writers, failures and starts are not fair. |
| `PushQueue` | the main loop, the release of a batch, the DMA | `step` runs for ever, a batch is released by its time-out at the latest (`Batch!BatchesEnd`), and a transfer ends sent or desynced. |
| `Batch` | the board's loop and its clock | nothing of the host is fair. |
| `Fanout` | `Run`'s delivery, a read that can return | Whether a reader calls again is its own choice. |
| `ClickResolver` | timers, and broadcasts once decided | the Go runtime. |

A condition over several processes is weaker than one for each: it is enough
here, as the work of each is bounded.

`BatchesEnd` leaves out the `prompt` hosts, in whose schedule time stands still
while they send; the `Busy` host covers any delay.


## 5. The proofs

TLC finds out whether a formula holds on a small instance; these theorems hold
for every value of the constants that the modules' ASSUMEs allow.

**`LayerFramesProofs`**: any number of keys, any set of frames, any number of
slots at least twice that of keys.
- `TypeCorrect`, `TableAlwaysAgrees`, `NamedSlotsAlwaysKept`, `ShownAlwaysDrawn`,
  `StoresAlwaysSpareShown`.
- The invariant `FInv` adds to the properties three facts.  `PinnedHold`: a slot
  that a key shows holds a frame, so it is not taken for a free one.
  `PinsAgree`: the controller and the transport agree on the slot of each key
  it has not lost track of.  `NamedAreNewest`: the slots a redraw has named have
  been used later than all others that hold a frame.  Without the last,
  eviction by age could pick a slot that the Show frames at the end names.
- `PadAlwaysShowsObject`, from `DrawInv`: while no write has failed, a key that
  does not show the object yet is one that the redraw under way has still to
  draw, or will send by itself after the Show frames; and a key that the controller
  knows nothing of was never drawn.  The last is why a blank may be skipped.
- `PreloadAlwaysComplete`, from `PassInv`: between two redraws, while no write has
  failed, a pass that ends with no new kick has every frame on the board, and one under
  way has every frame that is not on its list, unless no slot is free.
- The heart of the eviction is `SlotToSpare`, by counting: fewer than `NumKeys` slots are named,
  at most `NumKeys` are shown, so with `2 * NumKeys` slots one is left.
  That is why the code's constants are enough, and the theorem shows that no
  smaller assumption is used.

**`FanoutProofs`**: any set of subscribers, any queue, any number of messages.
- `TypeCorrect`, `AlwaysTakenInOrder`, `AlwaysClosedOnce`.
- `IInv` adds `InLine` (what a subscriber took comes before what waits for it,
  and both before what Run reads next) and `SubsAreOpen` (who is delivered to has
  an open channel).

**`ReconnectingProofs`**: any number of keys, slots, plug-ins and calls, any
capacity of the port, any key states that callers send, sentinels or not.
- `TypeCorrect`, `MemoryAlwaysAgrees`, `FramesAlwaysHeld`, `ShowsAlwaysBacked`,
  `AlwaysSilentAfterClose`, `PadAlwaysShowsMemory`.
- The invariant `Inv` adds `StoresOnRecord` (what the holder of `sendMu` has yet to
  store is the frame on record, so no stale frame is written), `HolderInOrder`
  (who holds `sendMu` writes to the device of the current generation, or to one
  that is gone) and `GenerationsInOrder` (device numbers grow and a connection
  gets a generation of its own).  `OnBoard` is then kept by three facts about a
  queue: what appending a store, appending anything else, and taking the head do
  to "the last store of this slot".
- `OrderInv` is what `ShowIsBacked` and `SilentAfterClose` need: the device that
  `run` uses is that of its connection or of none (`RunInOrder`), a Show frames is
  the last message of its holder (`ShowLast`), every slot that it names is on
  the board or goes out before it (`ShowBacked`), and so are those that the
  restore has passed (`RestoreBacked`).
- `PadInv` is what `PadShowsMemory` needs, which speaks of a pad at rest only.  For
  each of the three parts of a key's picture (color, glyph, pip) it says of every
  state that the part is right on the board, or that the last message in flight
  that sets it sets it right (`EndsRight`), or that the holder of `sendMu` has yet
  to send it, or that a Show miss, on its way or answered, will have it shown again
  (`Repair`).  The parts are apart because one message sets some of them and not
  others: a key state with the sentinel leaves the glyph.
- `MemoryAlwaysAgrees` and `PadAlwaysShowsMemory` say nothing of the picture of a key
  that is "reused" (section 6): its slot was stored into after its Show failed.  What
  keeps all others right is that a store leaves held slots alone and marks the
  loose ones, and that each Show that returns marks its keys held.
- `PadAlwaysShowsMemory` assumes of `Sent` that no caller sends the sentinel as
  a key state of its own.  With it the property fails (section 6, second entry),
  and no caller of the repository does.

**`LayerTreeProofs`**: any number of keys and of children, any set of documents,
requests and limits.
- `ChildHasOneKey`, `ArrowsReachThePages` (of `Pages`): each child is on one key of
  one page, and the arrows lead to all pages.  The facts about `\div` that this
  rests on (`Quotient`, `Monotone`, `PagesHold`) are lemmas of the same module.
- `PadCorrect`, `NoticesCorrect`, `SavesCorrect`.
- `IInv` adds what holds in the middle of a redraw: `KnownInv` (what the
  controller believes a key shows is on the pad), `LeftInv` and `BlankInv` (a
  key that is neither drawn nor waiting is blank or was harmed by a failure),
  `NoticeInv` (clients know the layer unless the redraw under way will tell them), and for
  a daemon that is down `DownInv` (the pad shows what the file says).  It is
  needed because a redraw skips the keys whose view it believes unchanged, and
  a new daemon believes nothing.
- `TypeCorrect`, `ChangesFit`, `StaysOpen`, from `TreeInv`: the object in use is
  always a valid tree (`Good`), and what the file holds and a save writes a tree.
  That is what the rest stands on.  `Docs` says when a document stands for a tree,
  and the lemmas follow it through every change: a node that changes its face
  (`SameKids`), comes at the top or below another (`TopAdded`, `ChildAdded`) or goes
  with all that is under it (`TopRemoved`, `ChildRemoved`).  `SettleHolds` then finds the
  deepest layer left on the active path, shows that all above it are still open
  (`OpenAbove`) and that every page is clamped to its layer; `PressedHolds` does the
  same for a press, which never alters a node.
- So no change is refused, and no file of the daemon's own moved aside, because of
  the open layer or its pages; and a change that is not a press closes only layers
  that it took away.  Only the limits of the tree can refuse one.

**`InboxProofs`**: any number of channels, writers, failures and restarts; any
number of daemons and plugins, of crashes and of pids that are given again.
- `PolledRowsAreCurrent`.  The invariant adds that the daemon's version is one
  that the store has had (`VersionOfStore`), so a commit of another process
  always makes the two differ, while a write of its own leaves it with a query to make.
- `OneAlwaysRuns`, from `LockInv`: a process holds the first of the plugins that it
  names, and one is left while it starts (`Placed`); a file was written by a process
  that holds it or is about to fill it, or by one that crashed (`Written`).  And as long as no
  two started at once, what it holds is its own, what it has read is still there, and what it
  is about to remove belongs to nobody alive (`Careful`): who starts alone acts on
  what is still true, and a running daemon never changes another's file.
- `SomeoneAlwaysRuns`, from `SomeInv`, which follows the first start (`Single`) and a
  second one at the same time (`Pair`) until one runs.  While both start, one makes way only
  for the other when that gets the plugin, or for a stale file with its pid (`Yields`).
  Who was refused for a plugin has taken only such before it; the other got that plugin, so it
  wants only such after it, and the same order in both makes that nothing it
  meets is held by the first (`Beats`, `OneOrder`).  All of it as long as nobody was
  `misled`: then who refuses has met a daemon, and not some other process.  It needs two attempts for a file
  (`MaxTries >= 2`; the code has five): one finds the stale file, the next takes its place.

**`StateStoreProofs`**: any number of keys, any pictures, any directory that an
older daemon left, any failures.
- `TypeCorrect`, and `RestartsGiveOwnPictures`: what memory, keys.json and the old
  files name for a key was given to that key (`GlyphsGiven`, `FileGiven`), and a
  hash is only followed to a file that holds that picture.
- `StateStoreIsDurable`: the refinement, step by step, from `DurInv`: a hashed file
  that the daemon counts on holds its picture (`DiskHeld`), and, while the store
  is whole, `keys.json` and the memory name only such files (`FileBacked`,
  `MemoryBacked`), and between two calls a restart finds what the keys show
  (`SavedIsShown`).  With these, storing, moving and pruning a file are stutters.
- It assumes `~BareSentinel` (section 6, fifth entry): a key with the sentinel and
  without a glyph is restored from an old file, if there is one, so a call that
  returned is not what a restart finds.

**`FirmwareProofs`**: of `PushQueue`, any number of keys and slots, any size of a group.
- `LatestIsAlwaysComing`: with `QueueAgrees` it is nearly inductive; `GroupAgrees` adds
  that a group has each key once and that no bus is busy without one.
  Lemmas say what joining, cutting and filtering do to a list without duplicates
  (`Joined`, `Parted`, `OnlyStay`), which the queue is after every action.
- `FramesAlwaysStayWhole`: adds `InHand`, that what is in hand is a Show frames
  with no batch open, or one Store frame into a slot that no key shows.  Without
  it a store could rewrite the frame of a key that an open batch draws later.

Of `Batch`, any number of keys, nudges, layer changes, client calls and losses,
any hosts.
- `BatchTypeCorrect`; it adds that no more is lost since the last Begin batch than
  at all.
- `BoardAlwaysAgrees`, from `BoardInv`: what is on CDC turns what the board has of
  a key into what the host remembers of it (`Replays`: a list of what the board has
  after each message).  An answer leaves that as it is, as it says what is remembered
  when it takes `sendMu`, and nothing is remembered until it is done
  (`SaysKnown`).
- `LateAlwaysMeansLost`, from `LateInv`, over the life of the one batch (`Round`):
  in the script, on CDC, open, ended.  The parts that it lacks are in the host's
  memory or script, each nudge but one was paid for by a loss, and as long as the last one
  was not, all the parts are on their way (`Served`).  A unit of time that passes
  for an open batch means that all is silent, so by the deadline every nudge is spent and
  paid for.  A report that overtakes its Begin batch is why HID has one loss less.
- `CompleteAlwaysCurrent`, from `CurrentInv`: what is on CDC behind the Begin batch
  of a layer change, what an answer has still to send, and what the host remembers
  of its keys is of that change or of a later one, unless the script will send
  it before the next Begin batch (`InPlay`, `Kept`, `Soon`); and so is what the board
  has of every part that the batch no longer lacks (`Got`).  While a Batch incomplete
  waits, the script has nothing left to send for the batch: that is what a host that
  does not answer in time can break, and what `crossed` leaves out.

**`PluginProofs`**: any number of clients, writers, keys, presses and clicks, any
length of the queues, any lateness of the timers.
- `TypeCorrect`, `ClientsAlwaysAgree`, `ChildrenAlwaysInOrder`, from
  `IInv == TypeOK /\ Counts /\ Registered /\ Agree /\ Ordered`.
- `Agree` has two parts.  Of a key (`Told`): as long as no two calls overlapped, at most
  one is under way, and the cache holds the last message of the board but while that
  call has yet to store its own; in the middle of a Show it holds the image.  Of a client and a key (`Knows`): what a client
  that lost nothing heard last, read or not, is what the cache holds, unless it is in the
  middle of its replay or a broadcast about the key has still to go out.  Both are needed for a
  client that connects between the two halves of a call.
- `Images`, an invariant of its own beside `IInv`: the cache, and every client that
  lost nothing, has of a key no image or the one of the board, or a call is about
  to tell it (`Coming`, `Pictured`, `Saw`).  That a client has heard nothing before it
  connects (`Unheard`) is why a late one has no old image.
- `Ordered`: the presses wait in their order, after the one in hand and its child
  (`Line`), and what a client heard is sorted and not ahead of them.
- `ClicksAlwaysCountOnce`: signals are about clicks that have happened (`ClickKnown`), no
  two are about the same one and none about the click that waits (`ClickOnce`);
  `OwnTimerDecides` rests on `ClickOneTimer`, that under a prompt schedule only the
  timer of the click that waits can still run.

Not proved: liveness, as temporal properties under fairness and ENABLED are
outside what the provers do (`BatchesEnd` of `Batch` among them); and what only
TLC checks so far: `PadShowsPlan` and `OpenLayerKeepsKeys` of `InboxDaemon`.  `PadShowsPlan` says what a sequence of
messages of any length does to the pad, which needs an induction over the sequence; in
`Batch` the list that `Replays` speaks of takes its place.  The
operators that the proofs reason about are written without recursion, `Only` of
`PushQueue` among them, where `SelectSeq` would do for TLC alone.


## 6. Where the code and its texts differ

The run `click_resolver_pair` states one comment as a property, and TLC refutes
it: `resolver.go:67-68` says that the second press makes the pair decide, "not
the pending timer".  `Stop` (line 69) cannot stop a timer that has fired and
waits for `mu`; it then still finds `awaitingSecond` and emits a single press,
and the second release starts a new window.  A double press at the very end of
the window becomes two single ones.  `ClicksCountOnce` and `ClicksAreAnswered`
still hold.

Other disagreements, met while modelling.  The models follow the code, and the
properties are conditioned so that they say what the code does ensure.

1. A `Close` that comes while `connect` replays finds no device to close; `forward`
   then waits for a message of the board.  It returns when the board sends one or
   is unplugged (`reconnect.go:788-799`, against "closes the connected device",
   786-787).  Hence `CloseOfConnectedReturns`.
2. A key state with the custom-glyph sentinel and another color, sent for a key that
   shows a cached frame, is remembered with the new color, while the board keeps
   the frame (`reconnect.go:323-328`, against "as the board would hold it",
   46-48).  No caller in the repository does it; `Sent` says what callers send.
3. `SendKeyState` reports an error when the board has vanished and `forward` has
   not noticed (`reconnect.go:339`, against 50-52).
4. A key whose Show failed counts as never drawn, and a blank view of it is then
   skipped (`frames.go:240`); `PadShowsObject` speaks of runs without failure.
5. An old per-key glyph file is read at every start that finds the sentinel with no
   hash (`statestore.go:132`, against "is read once", `driver/README.md:105-107`).
6. A state update waits for an upload that holds `sendMu`, before it is recorded
   and saved (`reconnect.go:315`, against the comment at line 79).
7. Two writers of one key may reach board, cache and clients in different orders
   (`server.go:562-580`, against "the most recently broadcast" message, 151-155).
   Hence `raced` in `ClientsAgree`.
8. `addClient` reads the layer path before it queues it, so a newer layer may be
   queued first (`server.go:453`).  The client then goes by a layer that is not open
   until the next one is told: an inbox daemon that takes a closed layer for open
   removes nothing and leaves the order as it is.  Hence `client # "behind"` in
   `PadCatchesUp`.  And it writes to a queue that a removal
   may close (line 471).  `RegisteredAreOpen` is what does hold.
9. Messages that `addClient` finds no room for are not counted as drops
   (`server.go:710-716`).  Hence `cut`.
10. A full queue loses the newest message, not the oldest (`fanout.go:84-91`).
11. Two inbox daemons that start at once may both run: one judges a file to be
    stale and removes the one that the other has just written
    (`daemon.js:78`, against `inbox/README.md:360`).  Hence `overlapped`.
12. A group that desyncs is sent again without asking the open batch
    (`app.py:284`, against `docs/wire-protocol.md:210-212`), as `PushQueue` does.
13. A report of an earlier layer that HID holds back, or an answer that crosses a
    newer Begin batch, clears a bit of the new batch (`app.py:396`).  It
    completes with an old state, or an old glyph if the new one is dropped.
    Hence the exceptions of `CompleteIsCurrent`.
14. Any key state of the board postpones a nudge (`app.py:397`, against
    `docs/wire-protocol.md:252-253`); and reports that overtake Begin batch
    cost one nudge.  Hence `prompt` and the count in `LateMeansLost`.
15. A press in the inbox marks the messages up to the newest one that the daemon
    has planned to show, which may still be on its way to the pad
    (`daemon.js:274-277`, against "marks the messages the key showed, so one that
    lands during the press stays unseen", `inbox/README.md:320-322`).
16. A connect removes the channels that an earlier daemon left only when the layer
    is closed and the list of channels could be read (`render.js:143-160`,
    `daemon.js:189-194`, against "on every connect", `inbox/README.md:342-344`).
    Hence `known` and `uncleared` in `PadShowsPlan`.
17. A daemon that is killed in the middle of a redraw, or before a change is saved, may leave a
    key lit that the tree wants blank: a new one does not draw blank keys
    (`controller.go:580-587`).  Hence `lost` in `PadShowsTree`.
18. A glyph is remembered and sent without a color (`reconnect.go:378-401`), and the
    key state before it may have been sent to a board that has since reloaded its
    code with USB up: the board then draws the glyph over its power-on color
    (against "as the board would hold it", 46-48), until the key state is sent
    again.  Hence `ColorSent` in `PadShowsMemory`.
19. A Show that fails leaves its slots recorded in the transport
    (`reconnect.go:498`), while the controller forgets them (`frames.go:272-275`)
    and may then store another frame into one.  The transport now has two pictures
    for the key: its key state and glyph, which a connect replays, and the frame of
    the slot, which a Show miss or the pips bring back (against "as the board would
    hold it", 46-48).  The next redraw draws the key anew.  Hence "reused" in
    `MemoryAgrees` and `PadShowsMemory`.
20. A frame that is shown is remembered for later clients as its image and then as
    its key state, and only the last message of a key is kept (`server.go:350-364`):
    a client that connects later gets the state with the sentinel and no image
    (`driver/README.md:425-430` promises the last message of each key, and a client
    that draws the key needs more).  Hence `LastImage` may be none in
    `ClientsAgree`.
21. A click that waits for a second press is in no signal when that press gets long:
    the release clears `awaitingSecond` and emits the long press alone
    (`resolver.go:82-88`).  Hence `LongPressAfter` in `ClicksAreAnswered`.
22. A pid file whose pid has gone to a process that is no inbox daemon is never
    replaced, and every start is refused until that process ends or the file is
    removed by hand (`daemon.js:21-29`, 73; "A pid file whose process is gone is
    replaced", `inbox/README.md`).  Hence `misled` in `SomeoneRuns`.
23. An inbox whose top key finds no place on the pad is refused, which macropadd
    logs and does not tell (`controller.go:335-355`): the daemon goes on as if its
    keys were there.  Hence `room` in `PadShowsPlan` and `PadCatchesUp`.


## 7. What is not modelled

- **Bytes.**  Message layouts, zlib, fonts, colors and pixels: no property here
  tells payloads apart beyond their identity.
- **HTTP API, WebSocket and SQLite libraries, the operating system**: external.
- **The daemon's `main`**: flags and wiring; its shutdown order is `End` of
  `LayerTree`.
- **Recorder, bench tools, examples, hardware, the native module.**
- **Inbox plugins and icons**: conversions of other programs' data; a renderer or
  a press function of a plugin's own; going to the place a message names.
- **The reader of `wire.py`** byte by byte, and the small parts of the firmware
  (tracer, audio buffer, debouncer, idle timer): sequential, with unit tests.
- **Power loss** that undoes a rename; blinking; the brightness and idle timers.
- In `Reconnecting`: the answer to Batch incomplete (it is in `Batch`), the files
  (they are in `StateStore`), `ReadMessage` with its queue (it is `Fanout`'s
  reader).  Opening fails or succeeds; the back-off is not timed.
- In `PluginServer`: audio, which has a channel of its own; authentication.
- In `InboxDaemon`: layer notices that only turn a page; a client that connects while
  what its last connection sent is still being read; a `childPressed` that a later
  layer notice overtakes.


## 8. The plan

Done: the transport and the state directory, the layer tree with its pages, the
redraw and the preload, the server, the resolver, the two halves of the
firmware's loop, the fan-out, and the inbox daemon with its pid file; theorems
about each of them.

What would come next, in this order:

1. `InboxDaemon` over `LayerTree` instead of its own rules of macropadd, and
   `LayerFrames`' view of the transport as an abstract specification that
   `Reconnecting` implements.
2. The reader of `wire.py` with its two buffers and core 1.
3. Proofs: `InboxDaemon` (`OpenLayerKeepsKeys`).
4. The small parts of the firmware with counters of limited width.
