------------------------------- MODULE Fanout -------------------------------
(***************************************************************************)
(* driver/transport/fanout.go: one loop reads the board's messages and     *)
(* hands each of them to the queue of every subscriber, without blocking.  *)
(* Messages are numbered in the order in which the loop reads them.        *)
(***************************************************************************)
EXTENDS Integers, Sequences

CONSTANTS
  Subscribers,
  QueueSize,        \* fanoutQueueSize
  MaxMessages       \* bound on the messages of the board

ASSUME FanoutAssumption == QueueSize \in Nat \ {0} /\ MaxMessages \in Nat

VARIABLES
  read, ended,      \* messages that Run has read, and whether it has returned
  subs,             \* the subscribers that Run delivers to, guarded by mu
  queue, closed,    \* the channel of each subscriber, and whether it is closed
  twice,            \* some channel was closed a second time: a panic
  reader,           \* what each subscriber does
  got               \* the messages that each subscriber has taken

vars == <<read, ended, subs, queue, closed, twice, reader, got>>

Joined == {s \in Subscribers : reader[s] # "none"}

-----------------------------------------------------------------------------
Subscribe(s) ==
  /\ reader[s] = "none"
  /\ reader' = [reader EXCEPT ![s] = "busy"] /\ subs' = subs \union {s}
  /\ UNCHANGED <<read, ended, queue, closed, twice, got>>

(* ReadMessage: a message, or io.EOF from a closed channel that is empty.  *)
Call(s) ==
  /\ reader[s] = "busy" /\ reader' = [reader EXCEPT ![s] = "reading"]
  /\ UNCHANGED <<read, ended, subs, queue, closed, twice, got>>
Take(s) ==
  /\ reader[s] = "reading" /\ queue[s] # <<>>
  /\ reader' = [reader EXCEPT ![s] = "busy"]
  /\ got' = [got EXCEPT ![s] = Append(@, Head(queue[s]))]
  /\ queue' = [queue EXCEPT ![s] = Tail(@)]
  /\ UNCHANGED <<read, ended, subs, closed, twice>>
Eof(s) ==
  /\ reader[s] = "reading" /\ queue[s] = <<>> /\ closed[s]
  /\ reader' = [reader EXCEPT ![s] = "eof"]
  /\ UNCHANGED <<read, ended, subs, queue, closed, twice, got>>

(* Close of the reader, from any goroutine, more than once.                *)
Unsubscribe(s) ==
  /\ s \in Joined
  /\ subs' = subs \ {s} /\ closed' = [closed EXCEPT ![s] = TRUE]
  /\ UNCHANGED <<read, ended, queue, twice, reader, got>>

(* Run: one message to every subscriber; a full queue loses it.            *)
FullQueues == {s \in subs : Len(queue[s]) = QueueSize}

DeliverNewestFirst ==
  /\ ~ended /\ read < MaxMessages
  /\ read' = read + 1
  /\ queue' = [s \in Subscribers |-> IF s \in subs \ FullQueues THEN <<read'>> \o queue[s]
                                     ELSE queue[s]]
  /\ UNCHANGED <<ended, subs, closed, twice, reader, got>>
Deliver ==
  /\ ~ended /\ read < MaxMessages
  /\ read' = read + 1
  /\ queue' = [s \in Subscribers |-> IF s \in subs \ FullQueues THEN Append(queue[s], read')
                                     ELSE queue[s]]
  /\ UNCHANGED <<ended, subs, closed, twice, reader, got>>

(* The transport is closed: closeAll.                                      *)
CloseNone ==
  /\ ~ended /\ ended' = TRUE
  /\ UNCHANGED <<read, subs, queue, closed, twice, reader, got>>
CloseAll ==
  /\ ~ended /\ ended' = TRUE
  /\ twice' = (twice \/ \E s \in subs : closed[s])
  /\ closed' = [s \in Subscribers |-> closed[s] \/ s \in subs] /\ subs' = {}
  /\ UNCHANGED <<read, queue, reader, got>>

Run == Deliver \/ CloseAll

Init ==
  /\ read = 0 /\ ended = FALSE /\ subs = {} /\ twice = FALSE
  /\ queue = [s \in Subscribers |-> <<>>] /\ got = queue
  /\ closed = [s \in Subscribers |-> FALSE] /\ reader = [s \in Subscribers |-> "none"]

Next == Run \/ \E s \in Subscribers : Subscribe(s) \/ Call(s) \/ Take(s) \/ Eof(s) \/ Unsubscribe(s)

Spec == Init /\ [][Next]_vars

(* The loop runs, and a ReadMessage call that can return does.  No reader  *)
(* has to call ReadMessage, and nothing has to close.                      *)
FairSpec ==
  /\ Spec /\ WF_vars(Deliver)
  /\ \A s \in Subscribers : WF_vars(Take(s) \/ Eof(s))

-----------------------------------------------------------------------------
TypeOK ==
  /\ read \in 0 .. MaxMessages /\ ended \in BOOLEAN /\ twice \in BOOLEAN /\ subs \subseteq Subscribers
  /\ queue \in [Subscribers -> Seq(1 .. MaxMessages)]
  /\ got \in [Subscribers -> Seq(1 .. MaxMessages)]
  /\ \A s \in Subscribers : Len(queue[s]) <= QueueSize
  /\ closed \in [Subscribers -> BOOLEAN]
  /\ reader \in [Subscribers -> {"none", "busy", "reading", "eof"}]

(* A subscriber may miss messages; it never gets one twice or out of order.*)
Ordered(s) == \A i, j \in DOMAIN s : i < j => s[i] < s[j]
TakenInOrder == \A s \in Subscribers : Ordered(got[s] \o queue[s])

(* Closing a reader twice, or while the transport closes, is safe          *)
(* (comment on unsubscribe).                                               *)
ClosedOnce == ~twice

(* When the transport has closed, no ReadMessage call of a reader that     *)
(* subscribed before stays blocked (comment on Run).                       *)
Blocked(s) == ended /\ reader[s] = "reading"
BlockedReadersReturn ==
  \A s \in Subscribers : [](s \in Joined /\ ~ended => []<>~Blocked(s))
=============================================================================
