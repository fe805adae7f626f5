---------------------------- MODULE InboxDaemon ----------------------------
(***************************************************************************)
(* inbox/src/daemon.js, render.js and the basic plugin: the daemon keeps   *)
(* the channels of the store on the pad, as a top key and its children.  A *)
(* handler runs to its end before the next one, but other processes write  *)
(* to the store between any two of its queries, and macropadd works on     *)
(* what it was sent while the user opens, closes and presses.  A query may *)
(* fail on a busy store, the connection may be lost and the daemon may end *)
(* at any moment; macropadd keeps the keys meanwhile.                      *)
(*                                                                         *)
(* The messages of all channels are numbered in one sequence, and a mark   *)
(* covers all of a channel up to a number.  The times (poll, guard,        *)
(* backoff, the wait for the layer) are left open.                         *)
(***************************************************************************)
EXTENDS Integers, Sequences, FiniteSets, SequencesExt, Functions

CONSTANTS
  Channels,
  TopKey,                 \* the key that opens the layer
  None,                   \* nothing sent, or no key on the pad
  MaxChildren,            \* MAX_CHILDREN, which is the limit of macropadd
  QueueSize,              \* clientQueueSize, messages that wait for a client
  MaxWrites, MaxUses, MaxTroubles   \* bounds: of writes by others, of what the user
                          \* does, of failed queries, lost connections and ends

ASSUME InboxAssumption ==
  /\ TopKey \notin Channels /\ None \notin Int /\ MaxChildren \in Nat \ {0}
  /\ QueueSize \in Nat \ {0} /\ IsFiniteSet(Channels)
  /\ {MaxWrites, MaxUses, MaxTroubles} \subseteq Nat

VARIABLES
  \* the store: the messages of each channel, the newest marked one, and how
  \* often another process has committed (data_version)
  messages, mark, commits,
  \* the daemon's life, the query that its handler makes next, its copy of
  \* the store, and whether a read has failed since the copy was made
  life, query, version, unseen, stale,
  \* the connection, whether the daemon may draw, the layer it believes open
  link, ready, inLayer,
  \* what plan goes by, and a connect that could not read what to clear
  renderer, uncleared,
  \* macropadd: the children in order, what each key shows, whether the
  \* layer is open, whether the pad has a place for the top key; and the
  \* messages on their way in and out
  children, keys, open, room, toPad, toDaemon,
  \* how far macropadd is with the daemon as a client: registered, the layer
  \* read (open or closed), served; or behind, when what it queued last of
  \* the layer is not how the layer is
  client,
  \* the layer is open, and was since the pad had nothing left to do
  calm,
  writes, uses, troubles

store  == <<messages, mark, commits>>
copy   == <<version, unseen, stale>>
draws  == <<renderer, uncleared>>
tree   == <<children, keys, open, room>>
queue  == <<toDaemon, client>>
bounds == <<writes, uses, troubles>>
vars == <<store, life, query, copy, link, ready, inLayer, draws, tree, toPad, queue,
          calm, bounds>>

Keys == Channels \union {TopKey}

-----------------------------------------------------------------------------
(* The store (store.js, unseen): per channel, how many messages are not    *)
(* seen, and the newest of them.                                           *)
Newest(S) == IF S = {} THEN 0 ELSE Max(S)
NextId    == Newest(UNION {messages[c] : c \in Channels}) + 1
Unseen(c) == {n \in messages[c] : n > mark[c]}
Row(S)    == [count |-> Cardinality(S), newestId |-> Newest(S)]
Rows      == [c \in Channels |-> Row(Unseen(c))]
NoRows    == [c \in Channels |-> Row({})]

-----------------------------------------------------------------------------
(* The renderer: what it last sent of each key, the children that          *)
(* macropadd holds in order, the newest message that each showed when last *)
(* planned, and the channels that an earlier daemon may have left.         *)
Reset(channels) ==
  [sent |-> [k \in Keys |-> None], shown |-> <<>>, shownIds |-> [c \in Channels |-> 0],
   known |-> FALSE, leftovers |-> channels]

(* What a key shows: the top key counts every channel.                     *)
Shows(k, rows) ==
  IF k = TopKey THEN MapThenSumSet(LAMBDA c : rows[c].count, Channels) ELSE rows[k].count

(* The channels with the newest messages, as many as a layer takes.        *)
AtMost(s, n) == SubSeq(s, 1, IF Len(s) < n THEN Len(s) ELSE n)
Before(rows, c) == {d \in Channels : rows[d].count > 0 /\ rows[d].newestId >= rows[c].newestId}
Wanted(rows) ==
  [i \in 1 .. Min({MaxChildren, Cardinality({c \in Channels : rows[c].count > 0})}) |->
     CHOOSE c \in Channels : rows[c].count > 0 /\ Cardinality(Before(rows, c)) = i]

Without(s, t) == SelectSeq(s, LAMBDA c : c \notin ToSet(t))
Within(s, t)  == SelectSeq(s, LAMBDA c : c \in ToSet(t))

(* Children from the first one that stands in another order than wanted.   *)
NoneMisplaced(stay, wanted) == <<>>
Misplaced(stay, wanted) ==
  LET same == Max({i \in 0 .. Len(stay) : SubSeq(stay, 1, i) = SubSeq(wanted, 1, i)})
  IN SubSeq(stay, same + 1, Len(stay))

(* The children that go, none of them while the layer is open; in a closed *)
(* layer for the first time, all that an earlier daemon may have left.     *)
GoneAnyTime(r, wanted, in) ==
  Without(r.shown, wanted) \o Misplaced(Within(r.shown, wanted), wanted)
Gone(r, wanted, in) ==
  CASE in -> <<>>
    [] ~in /\ ~r.known -> SetToSeq(r.leftovers \union ToSet(r.shown))
    [] ~in /\ r.known -> Without(r.shown, wanted) \o Misplaced(Within(r.shown, wanted), wanted)

(* The children that stay and come, in order: in an open layer no key      *)
(* moves, and a channel at zero stays.                                     *)
Shown(r, wanted, in) ==
  IF in THEN r.shown \o AtMost(Without(wanted, r.shown), MaxChildren - Len(r.shown)) ELSE wanted

(* Messages: a key set to its value when that differs, a child removed.    *)
SetMsgs(ks, was, rows) ==
  LET changed == SelectSeq(ks, LAMBDA k : was[k] # Shows(k, rows))
  IN [i \in DOMAIN changed |-> [key |-> changed[i], value |-> Shows(changed[i], rows)]]
RemoveMsgs(cs) == [i \in DOMAIN cs |-> [key |-> cs[i], value |-> None]]

(* plan: the top key, the children that go, the children that are there.   *)
Out(was, left, gone, shown, rows) ==
  SetMsgs(<<TopKey>>, was, rows) \o RemoveMsgs(gone) \o SetMsgs(shown, left, rows)
Planned(r, left, shown, rows, in) ==
  [r EXCEPT !.shown = shown,
            !.sent = [k \in Keys |-> IF k \in ToSet(shown) \union {TopKey}
                                     THEN Shows(k, rows) ELSE left[k]],
            !.shownIds = [c \in Channels |-> IF c \in ToSet(shown)
                                             THEN rows[c].newestId ELSE @[c]],
            !.known = @ \/ ~in, !.leftovers = IF in THEN @ ELSE {}]

-----------------------------------------------------------------------------
(* The daemon.  push sends what the renderer plans; on a connection that   *)
(* is lost the messages go nowhere.                                        *)
Idle == life = "up" /\ query = "none"

Push(r, rows, in) ==
  \E wanted \in {Wanted(rows)} :
  \E gone \in {Gone(r, wanted, in)}, shown \in {Shown(r, wanted, in)} :
  \E left \in {[k \in Keys |-> IF k \in ToSet(gone) THEN None ELSE r.sent[k]]} :
    /\ renderer' = Planned(r, left, shown, rows, in)
    /\ toPad' = IF link = "open" THEN toPad \o Out(r.sent, left, gone, shown, rows) ELSE toPad

Trouble == troubles < MaxTroubles /\ troubles' = troubles + 1
Use     == uses < MaxUses /\ uses' = uses + 1

(* Which query takes what: the version first, so that a write between the  *)
(* two changes the version once more.                                      *)
TakesRowsFirst(q) ==
  /\ version' = IF q = "rows" THEN commits ELSE version
  /\ unseen'  = IF q = "version" THEN Rows ELSE unseen
Takes(q) ==
  /\ version' = IF q = "version" THEN commits ELSE version
  /\ unseen'  = IF q = "rows" THEN Rows ELSE unseen

(* A query that fails ends the handler, and a daemon that starts.          *)
QueryFails ==
  /\ query # "none" /\ Trouble
  /\ query' = "none" /\ stale' = TRUE
  /\ life' = IF life = "starting" THEN "down" ELSE life
  /\ UNCHANGED <<store, version, unseen, link, ready, inLayer, draws, tree, toPad, queue>>
  /\ UNCHANGED <<writes, uses>>

ReadVersion ==
  /\ query = "version" /\ Takes("version") /\ query' = "rows"
  /\ UNCHANGED <<store, life, stale, link, ready, inLayer, draws, tree, toPad, queue, bounds>>

ReadRows ==
  /\ query = "rows" /\ Takes("rows") /\ query' = "none"
  /\ stale' = FALSE /\ life' = "up"
  /\ IF ready THEN Push(renderer, unseen', inLayer) ELSE UNCHANGED <<renderer, toPad>>
  /\ UNCHANGED <<store, link, ready, inLayer, uncleared, tree, queue, bounds>>

(* poll: a new version, or a guard time since the last read.  The two      *)
(* queries of a guard read are one step here.                              *)
Poll ==
  /\ Idle /\ version # commits
  /\ Takes("version") /\ query' = "rows"
  /\ UNCHANGED <<store, life, stale, link, ready, inLayer, draws, tree, toPad, queue, bounds>>

NoGuard == FALSE /\ UNCHANGED vars
GuardRead ==
  /\ Idle /\ version = commits
  /\ unseen' = Rows /\ stale' = FALSE
  /\ IF ready THEN Push(renderer, unseen', inLayer) ELSE UNCHANGED <<renderer, toPad>>
  /\ UNCHANGED <<store, life, query, version, link, ready, inLayer, uncleared, tree, queue,
                 bounds>>

(* runFeed: the plugin's own messages, on the daemon's own connection, and *)
(* a re-read in the same turn.                                             *)
FeedWrites(c) ==
  /\ Idle /\ writes < MaxWrites /\ writes' = writes + 1
  /\ messages' = [messages EXCEPT ![c] = @ \union {NextId}]
  /\ query' = "version"
  /\ UNCHANGED <<mark, commits, life, copy, link, ready, inLayer, draws, tree, toPad, queue,
                 uses, troubles>>

-----------------------------------------------------------------------------
(* The connection.  macropadd registers a client, reads the open layer and *)
(* queues it, and only then reads and writes the client's messages: what   *)
(* the user does meanwhile is queued before what was read (addClient).     *)
(* The first layer, or a time-out, makes the daemon draw from nothing.     *)
LayerMsg(o) == [kind |-> "layerChanged", open |-> o]
PressMsg(c) == [kind |-> "childPressed", child |-> c]
Full        == Len(toDaemon) >= QueueSize
Pumps       == client \in {"served", "behind"}
Told(q, o)  == \E i \in DOMAIN q : /\ q[i] = LayerMsg(o)
                                  /\ \A j \in DOMAIN q : j > i => q[j].kind # "layerChanged"

Connect ==
  /\ Idle /\ link = "none"
  /\ link' = "open" /\ client' = "registered"
  /\ UNCHANGED <<store, life, query, copy, ready, inLayer, draws, tree, toPad, toDaemon, bounds>>

Reads(o) == IF o THEN "open" ELSE "closed"
ReadLayer ==
  /\ client = "registered" /\ client' = Reads(open)
  /\ UNCHANGED <<store, life, query, copy, link, ready, inLayer, draws, tree, toPad, toDaemon,
                 bounds>>
SendLayer ==
  /\ client \in {"open", "closed"}
  /\ toDaemon' = IF Full THEN toDaemon ELSE Append(toDaemon, LayerMsg(client = "open"))
  /\ client' = IF Told(toDaemon', open) THEN "served" ELSE "behind"
  /\ UNCHANGED <<store, life, query, copy, link, ready, inLayer, draws, tree, toPad, bounds>>

(* becomeReady: the channels to clear are all that the store holds, or     *)
(* none when they cannot be read.                                          *)
BecomeReady(in) ==
  /\ ready' = TRUE
  /\ \/ /\ uncleared' = FALSE /\ UNCHANGED troubles
        /\ Push(Reset({c \in Channels : messages[c] # {}}), unseen, in)
     \/ /\ uncleared' = TRUE /\ Trouble
        /\ Push(Reset({}), unseen, in)

LayerTimeout ==
  /\ Idle /\ link # "none" /\ ~ready
  /\ BecomeReady(inLayer)
  /\ UNCHANGED <<store, life, query, copy, link, inLayer, tree, queue>>
  /\ UNCHANGED <<writes, uses>>

TakeLayer ==
  /\ Idle /\ Pumps /\ toDaemon # <<>> /\ Head(toDaemon).kind = "layerChanged"
  /\ toDaemon' = Tail(toDaemon) /\ inLayer' = Head(toDaemon).open
  /\ IF ready THEN Push(renderer, unseen, inLayer') /\ UNCHANGED <<ready, uncleared, troubles>>
     ELSE BecomeReady(inLayer')
  /\ UNCHANGED <<store, life, query, copy, link, tree, client>>
  /\ UNCHANGED <<writes, uses>>

(* onChildPressed: the messages that the child showed are marked, on the   *)
(* daemon's own connection, and the store is read again.  A mark that      *)
(* fails, or a child that is not shown, is left.                           *)
TakePress ==
  LET c == Head(toDaemon).child IN
  /\ Idle /\ Pumps /\ toDaemon # <<>> /\ Head(toDaemon).kind = "childPressed"
  /\ toDaemon' = Tail(toDaemon)
  /\ IF c \in ToSet(renderer.shown) /\ renderer.shownIds[c] # 0
     THEN \/ /\ mark' = [mark EXCEPT ![c] = Max({@, renderer.shownIds[c]})]
             /\ query' = "version" /\ UNCHANGED troubles
          \/ Trouble /\ UNCHANGED <<mark, query>>
     ELSE UNCHANGED <<mark, query, troubles>>
  /\ UNCHANGED <<messages, commits, life, copy, link, ready, inLayer, draws, tree, toPad,
                 client>>
  /\ UNCHANGED <<writes, uses>>

(* The connection ends, also because macropadd drops a client whose queue  *)
(* was full too often (removeClient).                                      *)
Lose ==
  /\ link = "open" /\ Trouble
  /\ link' = "lost" /\ toPad' = <<>> /\ toDaemon' = <<>> /\ client' = "none"
  /\ UNCHANGED <<store, life, query, copy, ready, inLayer, draws, tree, writes, uses>>

(* The socket's close event; a new connect comes after the backoff.        *)
Ended ==
  /\ Idle /\ link = "lost"
  /\ link' = "none" /\ ready' = FALSE
  /\ UNCHANGED <<store, life, query, copy, inLayer, draws, tree, toPad, queue, bounds>>

(* The daemon ends, stopped or killed, and another one starts: it holds     *)
(* what a new one does.                                                    *)
End ==
  /\ life # "down" /\ Trouble
  /\ life' = "down" /\ query' = "none"
  /\ version' = 0 /\ unseen' = NoRows /\ stale' = FALSE
  /\ inLayer' = FALSE /\ renderer' = Reset({}) /\ uncleared' = FALSE
  /\ link' = "none" /\ ready' = FALSE
  /\ toPad' = <<>> /\ toDaemon' = <<>> /\ client' = "none"
  /\ UNCHANGED <<store, tree, writes, uses>>

Start ==
  /\ life = "down"
  /\ life' = "starting" /\ query' = "version"
  /\ UNCHANGED <<store, copy, link, ready, inLayer, draws, tree, toPad, queue, bounds>>

-----------------------------------------------------------------------------
(* Other processes: a message comes in, and the inbox command marks what   *)
(* is unseen.                                                              *)
Apart == UNCHANGED <<life, query, copy, link, ready, inLayer, draws, tree, toPad, queue,
                     uses, troubles>>

Insert(c) ==
  /\ writes < MaxWrites /\ writes' = writes + 1
  /\ messages' = [messages EXCEPT ![c] = @ \union {NextId}]
  /\ commits' = commits + 1
  /\ UNCHANGED mark /\ Apart

MarkAllSeen(c) ==
  /\ writes < MaxWrites /\ writes' = writes + 1
  /\ Unseen(c) # {} /\ mark' = [mark EXCEPT ![c] = Newest(Unseen(c))]
  /\ commits' = commits + 1
  /\ UNCHANGED messages /\ Apart

(* macropadd.  It tells every client what changes in the tree, if there is *)
(* room in the client's queue (broadcast).                                 *)
Tell(m) ==
  /\ toDaemon' = IF client = "none" \/ Full THEN toDaemon ELSE Append(toDaemon, m)
  /\ client' = IF ~Pumps \/ m.kind # "layerChanged" THEN client
               ELSE IF Full THEN "behind" ELSE "served"

(* A top key that has no place on the pad is refused, and so is a child of *)
(* no key, or one too many; a layer without children closes (applyUpdate,  *)
(* applyRemove, settle).                                                   *)
Rejects(m) ==
  /\ m.value # None
  /\ \/ m.key = TopKey /\ keys[TopKey] = None /\ ~room
     \/ /\ m.key \notin ToSet(children) \union {TopKey}
        /\ keys[TopKey] = None \/ Len(children) >= MaxChildren
Deliver ==
  LET m == Head(toPad) IN
  /\ Pumps /\ toPad # <<>> /\ toPad' = Tail(toPad)
  /\ keys' = IF Rejects(m) THEN keys ELSE [keys EXCEPT ![m.key] = m.value]
  /\ children' = IF m.key = TopKey \/ Rejects(m) THEN children
                 ELSE IF m.value = None THEN Remove(children, m.key)
                 ELSE IF m.key \in ToSet(children) THEN children
                 ELSE Append(children, m.key)
  /\ open' = (open /\ children' # <<>>)
  /\ IF open' # open THEN Tell(LayerMsg(open')) ELSE UNCHANGED queue
  /\ UNCHANGED <<store, life, query, copy, link, ready, inLayer, draws, room, bounds>>

Toggle ==
  /\ Use
  /\ open \/ children # <<>>
  /\ open' = ~open /\ Tell(LayerMsg(open'))
  /\ UNCHANGED <<store, life, query, copy, link, ready, inLayer, draws, children, keys, room, toPad,
                 writes, troubles>>

Press(c) ==
  /\ Use
  /\ open /\ c \in ToSet(children)
  /\ Tell(PressMsg(c))
  /\ UNCHANGED <<store, life, query, copy, link, ready, inLayer, draws, tree, toPad, writes,
                 troubles>>

-----------------------------------------------------------------------------
(* Each channel holds a message, and an earlier daemon may have left the   *)
(* layer open with some of them as children in any order.                  *)
Init ==
  /\ messages = CHOOSE m \in [Channels -> {{n} : n \in 1 .. Cardinality(Channels)}] : IsInjective(m)
  /\ mark = [c \in Channels |-> 0] /\ commits = 1
  /\ children \in {AtMost(s, n) : s \in SetToSeqs(Channels),
                                   n \in 0 .. MaxChildren}
  /\ keys = [k \in Keys |-> IF children = <<>> THEN None
                            ELSE IF k \in ToSet(children) \union {TopKey} THEN 1 ELSE None]
  /\ open \in {FALSE, children # <<>>} /\ room \in {TRUE, children # <<>>}
  /\ life = "down" /\ query = "none" /\ version = 0 /\ unseen = NoRows /\ stale = FALSE
  /\ link = "none" /\ ready = FALSE /\ inLayer = FALSE
  /\ renderer = Reset({}) /\ uncleared = FALSE
  /\ toPad = <<>> /\ toDaemon = <<>> /\ client = "none" /\ calm = FALSE
  /\ writes = 0 /\ uses = 0 /\ troubles = 0

Handler == ReadVersion \/ ReadRows \/ Poll \/ GuardRead \/ Connect \/ TakeLayer \/ TakePress \/ Ended
User    == Toggle \/ \E c \in Channels : Press(c)
Writer  == \E c \in Channels : Insert(c) \/ MarkAllSeen(c) \/ FeedWrites(c)

Others  == User \/ Writer \/ QueryFails \/ LayerTimeout \/ Lose \/ End \/ Start

(* What the daemon's event loop and macropadd do.                          *)
Program == Handler \/ ReadLayer \/ SendLayer \/ Deliver

Calms == calm' = (open' /\ inLayer' /\ life' = "up" /\ (calm \/ toPad' = <<>>))

Next == (Program \/ Others) /\ Calms
Spec == Init /\ [][Next]_vars

FairSpec == Spec /\ WF_vars(Program /\ Calms)

-----------------------------------------------------------------------------
TypeOK ==
  /\ messages \in [Channels -> SUBSET Nat] /\ mark \in [Channels -> Nat] /\ commits \in Nat
  /\ life \in {"down", "starting", "up"} /\ query \in {"none", "version", "rows"}
  /\ version \in Nat /\ unseen \in [Channels -> [count : Nat, newestId : Nat]]
  /\ link \in {"none", "open", "lost"}
  /\ {stale, ready, inLayer, uncleared, open, room, calm} \subseteq BOOLEAN
  /\ client \in {"none", "registered", "open", "closed", "served", "behind"}
  /\ Len(toDaemon) <= QueueSize
  /\ renderer.sent \in [Keys -> Nat \union {None}] /\ renderer.shown \in Seq(Channels)
  /\ renderer.shownIds \in [Channels -> Nat] /\ renderer.leftovers \subseteq Channels
  /\ children \in Seq(Channels) /\ keys \in [Keys -> Nat \union {None}]
  /\ {writes, uses, troubles} \subseteq Nat

(* A daemon between two handlers whose version is that of the store holds  *)
(* the store's rows, also after writes of its own that change no version,  *)
(* unless a read has failed since: nothing that it polls is missed         *)
(* (reread, poll).                                                         *)
VersionCoversRows == Idle /\ version = commits /\ ~stale => unseen = Rows

(* When nothing is on its way to the pad, the pad holds the children that  *)
(* the renderer believes it holds, in that order and with the values it    *)
(* sent: what is sent as a difference never drifts (plan, reset).  Not so  *)
(* when the pad has no place for the top key: nobody tells the daemon.     *)
PadShowsPlan ==
  /\ TypeOK
  /\ room /\ link = "open" /\ ready /\ toPad = <<>> /\ renderer.known /\ ~uncleared =>
       /\ children = renderer.shown
       /\ \A k \in ToSet(children) \union {TopKey} : keys[k] = renderer.sent[k]

(* While the layer is open no key moves or goes, from when the daemon      *)
(* knows and what it sent before has arrived, over new messages, lost      *)
(* connections and presses (inbox/README.md, "so keys do not move under a  *)
(* finger").                                                               *)
OpenLayerKeepsKeys == [][calm /\ calm' => IsPrefix(children, children')]_vars

(* A daemon that stays up brings the pad to what the store says, whatever  *)
(* writes, presses, failed reads and lost connections came before: the     *)
(* total, the counts, and in a closed layer the channels in their order.   *)
(* But macropadd may leave it with a layer that is not the open one, read  *)
(* before a press that was queued first, or dropped (addClient, broadcast):*)
(* then it waits for the next press that opens or closes a layer.          *)
Agrees ==
  /\ keys[TopKey] = Shows(TopKey, Rows)
  /\ \A c \in ToSet(Within(children, renderer.shown)) : keys[c] = Rows[c].count
  /\ ~open => children = Wanted(Rows)
PadCatchesUp ==
  <>[](life = "up" /\ ~uncleared /\ room /\ client # "behind") => <>[]Agrees
=============================================================================
