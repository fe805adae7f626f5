---------------------------- MODULE PluginServer ----------------------------
(***************************************************************************)
(* driver/plugin/server.go: the server between one board and its WebSocket *)
(* clients.  Every client has a bounded queue that the server fills and    *)
(* its writePump empties.  Key states come from the clients' readPumps and *)
(* from the layer controller (the writers); events come from the board     *)
(* through dispatchLoop, and presses go on to layerPressLoop.  A message   *)
(* about a key carries its state (setKeyState) or its image                *)
(* (setCustomGlyph); a frame that is shown is told as an image and then a  *)
(* state.                                                                  *)
(***************************************************************************)
EXTENDS PadKeys

CONSTANTS
  Clients, Writers, Values,
  QueueSize, MaxDrops, MaxClients, PressQueue,    \* limits in the code
  MaxWork, MaxLayers      \* bounds: calls and presses, and changes of layer

State(v) == [part |-> "state", of |-> v]
Image(v) == [part |-> "image", of |-> v]
Said     == {State(v) : v \in Values} \union {Image(v) : v \in Values}

ASSUME ServerAssumption ==
  /\ NumKeys \in Nat /\ QueueSize \in Nat \ {0} /\ MaxDrops \in Nat \ {0}
  /\ MaxClients \in Nat /\ PressQueue \in Nat \ {0}
  /\ MaxWork \in Nat /\ MaxLayers \in Nat
  /\ None \notin Said /\ None \notin Nat

VARIABLES
  clients,                \* the registry, guarded by mu
  stage, path,            \* addClient of each client, and the layer it read
  cut,                    \* clients whose addClient found the queue full
  queue, closed, drops,   \* the send channel of each client, and its losses
  leaving,                \* clients that some goroutine is about to remove
  got,                    \* what each client has received, in order
  cache,                  \* stateCache, guarded by stateMu
  device, image,          \* the last part and image of each key the board was given
  raced,                  \* keys that two calls were about at the same time
  writer,                 \* the call of each writer
  layer, untold,          \* the controller's open layer, and whether clients know
  waiting, pressed,       \* layerPresses, and the press layerPressLoop has taken
  child,                  \* the press whose child it is about to name
  panicked, calls, presses

registry == <<clients, closed, leaving>>
joining  == <<stage, path, cut>>
channels == <<queue, drops>>
told     == <<device, image>>
states   == <<cache, told, raced, writer, calls>>
layers   == <<layer, untold>>
input    == <<waiting, pressed, child, presses>>
vars == <<registry, joining, channels, got, states, layers, input, panicked>>

KeyMsg(k, p)   == [kind |-> "key", key |-> k, value |-> p]
LayerMsg(l)    == [kind |-> "layer", layer |-> l]
EventMsg(n)    == [kind |-> "event", press |-> n]
ChildMsg(n)    == [kind |-> "child", press |-> n]

Messages ==
  {KeyMsg(k, p) : k \in Keys, p \in Said} \union {LayerMsg(l) : l \in 0 .. MaxLayers}
  \union {EventMsg(n) : n \in 1 .. MaxWork} \union {ChildMsg(n) : n \in 1 .. MaxWork}

Fitting(s, room) == SubSeq(s, 1, IF Len(s) <= room THEN Len(s) ELSE room)
Full(c) == Len(queue[c]) = QueueSize

-----------------------------------------------------------------------------
(* broadcast has mu for one turn over the clients.  A full queue loses the *)
(* message; a client that has lost MaxDrops is removed afterwards.         *)
Broadcast(m) ==
  /\ queue' = [c \in Clients |-> IF c \in clients /\ ~Full(c) THEN Append(queue[c], m)
                                 ELSE queue[c]]
  /\ drops' = [c \in Clients |-> IF c \in clients /\ Full(c) THEN drops[c] + 1 ELSE drops[c]]
  /\ leaving' = leaving \union {c \in clients : Full(c) /\ drops[c] + 1 >= MaxDrops}

(* removeClient: out of the registry under mu, and then the queue closes   *)
(* and its messages go nowhere.  closeOnce lets one of the goroutines that *)
(* remove a client through.                                                *)
Unregister(c) ==
  c \in clients /\ clients' = clients \ {c} /\ UNCHANGED <<closed, leaving, channels, got>>
CloseQueue(c) ==
  /\ c \notin clients
  /\ closed' = [closed EXCEPT ![c] = TRUE] /\ leaving' = leaving \ {c}
  /\ queue' = [queue EXCEPT ![c] = <<>>] /\ got' = [got EXCEPT ![c] = <<>>]
  /\ drops' = [drops EXCEPT ![c] = 0]
  /\ UNCHANGED clients

RemoveClient(c) ==
  /\ c \in leaving
  /\ Unregister(c) \/ CloseQueue(c)
  /\ UNCHANGED <<joining, states, layers, input, panicked>>

-----------------------------------------------------------------------------
(* addClient.  Its own sends go to the queue without mu, and a full queue  *)
(* loses them without counting them as drops.                              *)
Connect(c) ==
  /\ stage[c] = "out"
  /\ IF Cardinality(clients) >= MaxClients
     THEN stage' = [stage EXCEPT ![c] = "rejected"] /\ UNCHANGED clients
     ELSE stage' = [stage EXCEPT ![c] = "replay"] /\ clients' = clients \union {c}
  /\ UNCHANGED <<closed, leaving, path, cut, channels, got, states, layers, input, panicked>>

(* The keys of the cache are sorted before they are replayed.              *)
Remembered ==
  LET keys == InOrder({k \in Keys : cache[k] # None})
  IN  [n \in DOMAIN keys |-> KeyMsg(keys[n], cache[keys[n]])]

SendAlone(c, ms) ==
  /\ panicked' = (panicked \/ (closed[c] /\ ms # <<>>))
  /\ cut' = IF Len(ms) > QueueSize - Len(queue[c]) THEN cut \union {c} ELSE cut
  /\ queue' = [queue EXCEPT ![c] = IF closed[c] THEN @
                                   ELSE @ \o Fitting(ms, QueueSize - Len(@))]

(* snapshotTo, with stateMu held.                                          *)
ReplayNothing(c) ==
  /\ stage[c] = "replay" /\ stage' = [stage EXCEPT ![c] = "layer"]
  /\ UNCHANGED <<registry, path, cut, channels, got, states, layers, input, panicked>>
SnapshotTo(c) ==
  /\ stage[c] = "replay" /\ stage' = [stage EXCEPT ![c] = "layer"]
  /\ SendAlone(c, Remembered)
  /\ UNCHANGED <<registry, path, drops, got, states, layers, input>>

(* The open layer is read, and then sent.                                  *)
ReadLayer(c) ==
  /\ stage[c] = "layer" /\ stage' = [stage EXCEPT ![c] = "send"]
  /\ path' = [path EXCEPT ![c] = layer]
  /\ UNCHANGED <<registry, cut, channels, got, states, layers, input, panicked>>
SendLayer(c) ==
  /\ stage[c] = "send" /\ stage' = [stage EXCEPT ![c] = "live"]
  /\ SendAlone(c, <<LayerMsg(path[c])>>) /\ path' = [path EXCEPT ![c] = 0]
  /\ UNCHANGED <<registry, drops, got, states, layers, input>>

(* writePump writes a message to the connection, or fails; readPump fails. *)
WritePump(c) ==
  /\ stage[c] = "live" /\ queue[c] # <<>> /\ ~closed[c]
  /\ queue' = [queue EXCEPT ![c] = Tail(@)]
  /\ got' = [got EXCEPT ![c] = Append(@, Head(queue[c]))]
  /\ UNCHANGED <<registry, joining, drops, states, layers, input, panicked>>
ConnectionFails(c) ==
  /\ stage[c] = "live" /\ c \in clients
  /\ leaving' = leaving \union {c}
  /\ UNCHANGED <<clients, closed, joining, channels, got, states, layers, input, panicked>>

-----------------------------------------------------------------------------
(* A call about a key gives it to the device, and then each of its         *)
(* messages to the cache, which holds one for each key, and to the         *)
(* clients; no lock spans the three.  A Show of several keys is a call for *)
(* each of them.                                                           *)
NoCall == [step |-> "none", key |-> 0, value |-> None, next |-> None]

Call(w, k, p, next) ==
  /\ writer[w] = NoCall /\ calls + presses < MaxWork /\ calls' = calls + 1
  /\ writer' = [writer EXCEPT ![w] = [step |-> "remember", key |-> k, value |-> p,
                                      next |-> next]]
  /\ device' = [device EXCEPT ![k] = IF next = None THEN p ELSE next]
  /\ image' = [image EXCEPT ![k] = IF p.part = "image" THEN p ELSE @]
  /\ raced' = raced \union {k : u \in {x \in Writers : writer[x] # NoCall /\ writer[x].key = k}}
  /\ UNCHANGED <<registry, joining, channels, got, cache, layers, input, panicked>>

ApplyKeyState(w, k, v)    == Call(w, k, State(v), None)
ApplyCustomGlyph(w, k, v) == Call(w, k, Image(v), None)
ShowFrames(w, k, v)       == Call(w, k, Image(v), State(v))    \* of a frame with an image

RememberState(w) ==
  /\ writer[w].step = "remember"
  /\ writer' = [writer EXCEPT ![w].step = "broadcast"]
  /\ cache' = [cache EXCEPT ![writer[w].key] = writer[w].value]
  /\ UNCHANGED <<registry, joining, channels, got, told, raced, calls, layers, input,
                 panicked>>

BroadcastState(w) ==
  LET call == writer[w]
  IN /\ call.step = "broadcast"
     /\ writer' = [writer EXCEPT ![w] =
                     IF call.next = None THEN NoCall
                     ELSE [call EXCEPT !.step = "remember", !.value = call.next,
                                       !.next = None]]
     /\ Broadcast(KeyMsg(call.key, call.value))
     /\ UNCHANGED <<clients, closed, joining, got, cache, told, raced, calls, layers, input,
                    panicked>>

(* The controller swaps its object, redraws, and tells the clients, with   *)
(* sendMu held: a change waits until the last one has been told.           *)
OpenLayer == untold = FALSE /\ layer < MaxLayers /\ layer' = layer + 1 /\ untold' = TRUE

ChangeLayer ==
  /\ OpenLayer /\ calls + presses + layer < MaxWork
  /\ UNCHANGED <<registry, joining, channels, got, states, input, panicked>>
LayerChanged ==
  /\ untold /\ untold' = FALSE
  /\ Broadcast(LayerMsg(layer))
  /\ UNCHANGED <<clients, closed, joining, got, states, layer, input, panicked>>

-----------------------------------------------------------------------------
(* dispatchLoop: the clients hear of an event before layerPressLoop gets   *)
(* it; a press too many is dropped.                                        *)
QueuePress(n) ==
  waiting' = IF Len(waiting) < PressQueue THEN Append(waiting, n) ELSE waiting

DispatchPress ==
  /\ calls + presses < MaxWork /\ presses' = presses + 1
  /\ Broadcast(EventMsg(presses + 1)) /\ QueuePress(presses + 1)
  /\ UNCHANGED <<clients, closed, joining, got, states, layers, pressed, child, panicked>>

(* layerPressLoop takes a press.  PressNode opens a layer, does nothing, or *)
(* finds a child, which is broadcast when its locks are free again.         *)
Taken(i) ==
  /\ pressed = None /\ child = None
  /\ pressed' = waiting[i]
  /\ waiting' = SubSeq(waiting, 1, i - 1) \o SubSeq(waiting, i + 1, Len(waiting))
TakeNewestPress ==
  /\ waiting # <<>> /\ Taken(Len(waiting))
  /\ UNCHANGED <<registry, joining, channels, got, states, layers, child, presses, panicked>>
TakePress ==
  /\ waiting # <<>> /\ Taken(1)
  /\ UNCHANGED <<registry, joining, channels, got, states, layers, child, presses, panicked>>
PressLayer ==
  /\ pressed # None /\ pressed' = None /\ OpenLayer
  /\ UNCHANGED <<registry, joining, channels, got, states, waiting, child, presses, panicked>>
PressNode ==
  /\ pressed # None /\ pressed' = None /\ untold = FALSE
  /\ child' \in {None, pressed}
  /\ UNCHANGED <<registry, joining, channels, got, states, layers, waiting, presses, panicked>>
NameChild ==
  /\ child # None /\ child' = None
  /\ Broadcast(ChildMsg(child))
  /\ UNCHANGED <<clients, closed, joining, got, states, layers, waiting, pressed, presses,
                 panicked>>

-----------------------------------------------------------------------------
Init ==
  /\ clients = {} /\ closed = [c \in Clients |-> FALSE] /\ leaving = {}
  /\ stage = [c \in Clients |-> "out"] /\ path = [c \in Clients |-> 0] /\ cut = {}
  /\ queue = [c \in Clients |-> <<>>] /\ drops = [c \in Clients |-> 0]
  /\ got = [c \in Clients |-> <<>>]
  /\ cache = [k \in Keys |-> None] /\ device = cache /\ image = cache /\ raced = {}
  /\ writer = [w \in Writers |-> NoCall] /\ calls = 0
  /\ layer = 0 /\ untold = FALSE
  /\ waiting = <<>> /\ pressed = None /\ child = None /\ presses = 0
  /\ panicked = FALSE

Join == \E c \in Clients : SnapshotTo(c) \/ ReadLayer(c) \/ SendLayer(c)
Finish(w) == RememberState(w) \/ BroadcastState(w)
Loops == TakePress \/ PressLayer \/ PressNode \/ NameChild \/ LayerChanged

Next ==
  \/ \E c \in Clients : Connect(c) \/ WritePump(c) \/ ConnectionFails(c) \/ RemoveClient(c)
  \/ \E w \in Writers, k \in Keys, v \in Values :
       ApplyKeyState(w, k, v) \/ ApplyCustomGlyph(w, k, v) \/ ShowFrames(w, k, v)
  \/ \E w \in Writers : Finish(w)
  \/ Join \/ ChangeLayer \/ DispatchPress \/ Loops

Spec == Init /\ [][Next]_vars

-----------------------------------------------------------------------------
TypeOK ==
  /\ clients \subseteq Clients /\ leaving \subseteq Clients /\ closed \in [Clients -> BOOLEAN]
  /\ stage \in [Clients -> {"out", "rejected", "replay", "layer", "send", "live"}]
  /\ path \in [Clients -> 0 .. MaxLayers] /\ cut \subseteq Clients
  /\ queue \in [Clients -> Seq(Messages)] /\ got \in [Clients -> Seq(Messages)]
  /\ \A c \in Clients : Len(queue[c]) <= QueueSize
  /\ drops \in [Clients -> Nat]
  /\ {cache, device, image} \subseteq [Keys -> Said \union {None}]
  /\ raced \subseteq Keys
  /\ writer \in [Writers -> [step : {"none", "remember", "broadcast"}, key : Keys \union {0},
                             value : Said \union {None}, next : Said \union {None}]]
  /\ layer \in 0 .. MaxLayers /\ untold \in BOOLEAN
  /\ waiting \in Seq(1 .. MaxWork) /\ Len(waiting) <= PressQueue
  /\ {pressed, child} \subseteq 1 .. MaxWork \union {None} /\ panicked \in BOOLEAN
  /\ calls + presses \in 0 .. MaxWork

(* What a client makes of its messages: the last one about each thing.     *)
Heard(c) == got[c] \o queue[c]
About(m, k, parts) == m.kind = "key" /\ m.key = k /\ m.value.part \in parts
LastAbout(s, k, parts) ==
  LET about == {i \in DOMAIN s : About(s[i], k, parts)}
  IN  IF about = {} THEN None ELSE s[CHOOSE i \in about : \A j \in about : j <= i].value
LastPart(c, k)  == LastAbout(Heard(c), k, {"state", "image"})
LastImage(c, k) == LastAbout(Heard(c), k, {"image"})

AtRest == (\A w \in Writers : writer[w] = NoCall) /\ untold = FALSE
Served == {c \in clients \ (leaving \union cut) : stage[c] = "live" /\ drops[c] = 0}

(* broadcast sends to registered clients only, and none of their queues is *)
(* closed: a send there would end the daemon.                              *)
RegisteredAreOpen == \A c \in clients : ~closed[c]

(* A client that lost nothing ends with the last message about every key   *)
(* that the board was given, whenever it connected: what the connect-time  *)
(* replay is for (driver/README.md).  An image that it has heard is the    *)
(* board's.  It need not have heard one: of a frame that was shown before  *)
(* it connected it is replayed the key state alone, which took the place   *)
(* of the image in the cache (showFrames).  Two calls about one key at     *)
(* once are left out: they may reach the board, the cache and the clients  *)
(* in different orders.                                                    *)
ClientsAgree ==
  /\ TypeOK /\ RegisteredAreOpen
  /\ AtRest => \A c \in Served, k \in Keys \ raced :
       /\ LastPart(c, k) = device[k]
       /\ LastImage(c, k) \in {None, image[k]}

(* A client hears of a press before the child that the press landed on,    *)
(* and of children in the order of the presses (driver/README.md,          *)
(* childPressed).                                                          *)
Place(c, m) == {i \in DOMAIN Heard(c) : Heard(c)[i] = m}
ChildrenInOrder ==
  \A c \in Clients, n \in 1 .. MaxWork : \A i \in Place(c, ChildMsg(n)) :
    /\ \A j \in Place(c, EventMsg(n)) : j < i
    /\ \A m \in 1 .. n - 1 : \A j \in Place(c, ChildMsg(m)) : j < i
=============================================================================
