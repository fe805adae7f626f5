---------------------------- MODULE FanoutProofs ----------------------------
(***************************************************************************)
(* Proofs about Fanout, for any subscribers, queue size and number of      *)
(* messages.                                                               *)
(***************************************************************************)
EXTENDS Fanout, TLAPS

(* What a subscriber has taken, what waits for it, and what Run has read,  *)
(* in this order.                                                          *)
Below(s, t) == \A i \in DOMAIN s, j \in DOMAIN t : s[i] < t[j]
Upto(s, n) == \A i \in DOMAIN s : s[i] <= n
InLine ==
  \A s \in Subscribers :
    /\ Ordered(got[s]) /\ Ordered(queue[s]) /\ Below(got[s], queue[s])
    /\ Upto(got[s], read) /\ Upto(queue[s], read)

(* Run delivers to open channels of readers that have subscribed.          *)
SubsAreOpen ==
  /\ \A s \in subs : ~closed[s] /\ reader[s] # "none"
  /\ \A s \in Subscribers : reader[s] = "none" => ~closed[s]

IInv == TypeOK /\ InLine /\ SubsAreOpen /\ ClosedOnce

-----------------------------------------------------------------------------
(* What a sequence holds and where.                                        *)
LEMMA SeqFacts ==
  ASSUME NEW S, NEW s \in Seq(S)
  PROVE  Len(s) \in Nat /\ DOMAIN s = 1 .. Len(s) /\ \A i \in 1 .. Len(s) : s[i] \in S
OBVIOUS

(* What Append adds and what it leaves alone.                              *)
LEMMA AppendFacts ==
  ASSUME NEW S, NEW s \in Seq(S), NEW e \in S
  PROVE  /\ Append(s, e) \in Seq(S) /\ Len(Append(s, e)) = Len(s) + 1
         /\ DOMAIN Append(s, e) = 1 .. Len(s) + 1
         /\ \A i \in 1 .. Len(s) : Append(s, e)[i] = s[i]
         /\ Append(s, e)[Len(s) + 1] = e
<1>1. Len(s) \in Nat
  OBVIOUS
<1>2. /\ Append(s, e) \in Seq(S) /\ Len(Append(s, e)) = Len(s) + 1
      /\ DOMAIN Append(s, e) = 1 .. Len(s) + 1
  OBVIOUS
<1>3. \A i \in 1 .. Len(s) : Append(s, e)[i] = s[i]
  OBVIOUS
<1>4. Append(s, e)[Len(s) + 1] = e
  OBVIOUS
<1> QED BY <1>2, <1>3, <1>4

(* What Tail takes away and how it shifts the rest.                        *)
LEMMA TailFacts ==
  ASSUME NEW S, NEW s \in Seq(S), s # <<>>
  PROVE  /\ Len(s) \in Nat \ {0} /\ Head(s) = s[1]
         /\ Tail(s) \in Seq(S) /\ Len(Tail(s)) = Len(s) - 1 /\ DOMAIN Tail(s) = 1 .. Len(s) - 1
         /\ \A i \in 1 .. Len(s) - 1 : Tail(s)[i] = s[i + 1]
OBVIOUS

(* A sequence in order, followed by a larger one in order, is in order.    *)
LEMMA OrderedConcat ==
  ASSUME NEW S \in SUBSET Int, NEW s \in Seq(S), NEW t \in Seq(S),
         Ordered(s), Ordered(t), Below(s, t)
  PROVE  Ordered(s \o t)
<1>1. /\ Len(s) \in Nat /\ Len(t) \in Nat /\ DOMAIN s = 1 .. Len(s) /\ DOMAIN t = 1 .. Len(t)
      /\ DOMAIN (s \o t) = 1 .. Len(s) + Len(t)
  OBVIOUS
<1>2. \A k \in 1 .. Len(s) + Len(t) :
        (s \o t)[k] = IF k <= Len(s) THEN s[k] ELSE t[k - Len(s)]
  BY <1>1
<1> SUFFICES ASSUME NEW i \in 1 .. Len(s) + Len(t), NEW j \in 1 .. Len(s) + Len(t), i < j
             PROVE  (s \o t)[i] < (s \o t)[j]
  BY <1>1 DEF Ordered
<1>3. CASE j <= Len(s)
  <2>1. i \in DOMAIN s /\ j \in DOMAIN s
    BY <1>1, <1>3
  <2>2. s[i] < s[j]
    BY <2>1 DEF Ordered
  <2> QED
    BY <1>1, <1>2, <1>3, <2>2
<1>4. CASE i <= Len(s) /\ j > Len(s)
  <2>1. i \in DOMAIN s /\ j - Len(s) \in DOMAIN t
    BY <1>1, <1>4
  <2>2. s[i] < t[j - Len(s)]
    BY <2>1 DEF Below
  <2> QED
    BY <1>1, <1>2, <1>4, <2>2
<1>5. CASE i > Len(s)
  <2>1. i - Len(s) \in DOMAIN t /\ j - Len(s) \in DOMAIN t /\ i - Len(s) < j - Len(s)
    BY <1>1, <1>5
  <2>2. t[i - Len(s)] < t[j - Len(s)]
    BY <2>1 DEF Ordered
  <2> QED
    BY <1>1, <1>2, <1>5, <2>2
<1> QED
  BY <1>1, <1>3, <1>4, <1>5

(* A sequence in order stays so when a larger number is appended.          *)
LEMMA OrderedAppend ==
  ASSUME NEW S \in SUBSET Int, NEW s \in Seq(S), NEW n \in Int, n + 1 \in S,
         Ordered(s), Upto(s, n)
  PROVE  Ordered(Append(s, n + 1)) /\ Upto(Append(s, n + 1), n + 1)
<1> DEFINE a == Append(s, n + 1)
<1>1. Len(s) \in Nat /\ DOMAIN s = 1 .. Len(s) /\ \A i \in 1 .. Len(s) : s[i] \in Int
  BY SeqFacts
<1>2. /\ DOMAIN a = 1 .. Len(s) + 1
      /\ \A i \in 1 .. Len(s) : a[i] = s[i]
      /\ a[Len(s) + 1] = n + 1
  BY AppendFacts
<1> HIDE DEF a
<1>3. Upto(a, n + 1)
  <2> SUFFICES ASSUME NEW i \in 1 .. Len(s) + 1 PROVE a[i] <= n + 1
    BY <1>2 DEF Upto
  <2>1. CASE i = Len(s) + 1  BY <1>2, <2>1
  <2>2. CASE i # Len(s) + 1
    <3>1. i \in 1 .. Len(s)  BY <1>1, <2>2
    <3> QED BY <1>1, <1>2, <3>1 DEF Upto
  <2> QED BY <2>1, <2>2
<1>4. Ordered(a)
  <2> SUFFICES ASSUME NEW i \in 1 .. Len(s) + 1, NEW j \in 1 .. Len(s) + 1, i < j
               PROVE  a[i] < a[j]
    BY <1>2 DEF Ordered
  <2>0. i \in 1 .. Len(s)  BY <1>1
  <2>1. CASE j = Len(s) + 1  BY <1>1, <1>2, <2>0, <2>1 DEF Upto
  <2>2. CASE j # Len(s) + 1
    <3>1. j \in 1 .. Len(s)  BY <1>1, <2>2
    <3> QED BY <1>1, <1>2, <2>0, <3>1 DEF Ordered
  <2> QED BY <2>1, <2>2
<1> QED BY <1>3, <1>4 DEF a

-----------------------------------------------------------------------------
(* Before anything is read, every queue is empty.                          *)
LEMMA InitInv == Init => IInv
<1> SUFFICES ASSUME Init PROVE IInv
  OBVIOUS
<1>1. \A s \in Subscribers : queue[s] = <<>> /\ got[s] = <<>>
  BY DEF Init
<1>2. TypeOK
  <2>1. <<>> \in Seq(1 .. MaxMessages) /\ Len(<<>>) <= QueueSize
    BY FanoutAssumption
  <2>2. /\ queue \in [Subscribers -> Seq(1 .. MaxMessages)]
        /\ got \in [Subscribers -> Seq(1 .. MaxMessages)]
    BY <2>1 DEF Init
  <2>3. \A s \in Subscribers : Len(queue[s]) <= QueueSize
    BY <1>1, <2>1
  <2>4. /\ read \in 0 .. MaxMessages /\ ended \in BOOLEAN /\ twice \in BOOLEAN
        /\ subs \subseteq Subscribers
    <3>1. read \in 0 .. MaxMessages  BY FanoutAssumption DEF Init
    <3>2. ended \in BOOLEAN /\ twice \in BOOLEAN /\ subs \subseteq Subscribers  BY DEF Init
    <3> QED BY <3>1, <3>2
  <2>5. /\ closed \in [Subscribers -> BOOLEAN]
        /\ reader \in [Subscribers -> {"none", "busy", "reading", "eof"}]
    BY DEF Init
  <2> QED BY <2>2, <2>3, <2>4, <2>5 DEF TypeOK
<1>3. InLine
  <2>1. DOMAIN <<>> = {}
    OBVIOUS
  <2> QED BY <1>1, <2>1 DEF InLine, Ordered, Below, Upto
<1>4. SubsAreOpen /\ ClosedOnce
  BY DEF Init, SubsAreOpen, ClosedOnce
<1> QED BY <1>2, <1>3, <1>4 DEF IInv

(* Run hands a message that is newer than all others to the open queues.   *)
LEMMA DeliverInv == IInv /\ Deliver => IInv'
<1> SUFFICES ASSUME IInv, Deliver PROVE IInv'
  OBVIOUS
<1> USE FanoutAssumption
<1>1. read \in Int /\ read' = read + 1 /\ read' \in 0 .. MaxMessages /\ read' \in 1 .. MaxMessages
  BY DEF IInv, TypeOK, Deliver
<1>2. \A s \in Subscribers : /\ queue[s] \in Seq(1 .. MaxMessages) /\ got[s] \in Seq(1 .. MaxMessages)
                             /\ Len(queue[s]) <= QueueSize
  BY DEF IInv, TypeOK
<1>3. \A s \in Subscribers :
        \/ queue'[s] = queue[s]
        \/ queue'[s] = Append(queue[s], read + 1) /\ Len(queue[s]) # QueueSize
  BY <1>1 DEF Deliver, FullQueues
<1>4. TypeOK'
  <2>1. \A s \in Subscribers : queue'[s] \in Seq(1 .. MaxMessages) /\ Len(queue'[s]) <= QueueSize
    <3> SUFFICES ASSUME NEW s \in Subscribers
                 PROVE  queue'[s] \in Seq(1 .. MaxMessages) /\ Len(queue'[s]) <= QueueSize
      OBVIOUS
    <3>1. Len(queue[s]) \in Nat /\ queue[s] \in Seq(1 .. MaxMessages) /\ Len(queue[s]) <= QueueSize
      BY <1>2, SeqFacts
    <3>2. CASE queue'[s] = queue[s]
      BY <3>1, <3>2
    <3>3. CASE queue'[s] = Append(queue[s], read + 1) /\ Len(queue[s]) # QueueSize
      <4>1. /\ Append(queue[s], read + 1) \in Seq(1 .. MaxMessages)
            /\ Len(Append(queue[s], read + 1)) = Len(queue[s]) + 1
        BY <1>1, <3>1, AppendFacts
      <4>2. Len(queue[s]) + 1 <= QueueSize
        BY <3>1, <3>3
      <4> QED
        BY <3>3, <4>1, <4>2
    <3> QED BY <1>3, <3>2, <3>3
  <2> QED
    BY <1>1, <2>1 DEF IInv, TypeOK, Deliver
<1>5. InLine'
  <2> SUFFICES ASSUME NEW s \in Subscribers
               PROVE  /\ Ordered(got[s]) /\ Ordered(queue'[s]) /\ Below(got[s], queue'[s])
                      /\ Upto(got[s], read') /\ Upto(queue'[s], read')
    BY DEF InLine, Deliver
  <2>0. /\ Ordered(got[s]) /\ Ordered(queue[s]) /\ Below(got[s], queue[s])
        /\ Upto(got[s], read) /\ Upto(queue[s], read)
    BY DEF IInv, InLine
  <2>1. Upto(got[s], read') /\ Upto(queue[s], read')
    <3>1. \A i \in DOMAIN got[s] : got[s][i] \in Int
      BY <1>2
    <3>2. \A i \in DOMAIN queue[s] : queue[s][i] \in Int
      BY <1>2
    <3>3. \A i \in Int : i <= read => i <= read'
      BY <1>1
    <3> QED
      BY <2>0, <3>1, <3>2, <3>3 DEF Upto
  <2>2. CASE queue'[s] = queue[s]
    BY <2>0, <2>1, <2>2
  <2>3. CASE queue'[s] = Append(queue[s], read + 1)
    <3>1. Ordered(queue'[s]) /\ Upto(queue'[s], read')
      BY <1>1, <1>2, <2>0, <2>3, OrderedAppend
    <3>2. /\ DOMAIN queue'[s] = 1 .. Len(queue[s]) + 1
          /\ \A j \in 1 .. Len(queue[s]) : queue'[s][j] = queue[s][j]
          /\ queue'[s][Len(queue[s]) + 1] = read + 1
      BY <1>1, <1>2, <2>3, AppendFacts
    <3>3. Below(got[s], queue'[s])
      <4>1. /\ DOMAIN got[s] = 1 .. Len(got[s]) /\ DOMAIN queue[s] = 1 .. Len(queue[s])
            /\ Len(queue[s]) \in Nat /\ \A i \in 1 .. Len(got[s]) : got[s][i] \in 1 .. MaxMessages
        BY <1>2, SeqFacts
      <4> SUFFICES ASSUME NEW i \in DOMAIN got[s], NEW j \in 1 .. Len(queue[s]) + 1
                   PROVE  got[s][i] < queue'[s][j]
        BY <3>2 DEF Below
      <4>2. got[s][i] <= read /\ got[s][i] \in Int
        BY <2>0, <4>1 DEF Upto
      <4>3. CASE j = Len(queue[s]) + 1
        BY <1>1, <3>2, <4>2, <4>3
      <4>4. CASE j # Len(queue[s]) + 1
        <5>1. j \in 1 .. Len(queue[s])
          BY <4>1, <4>4
        <5> QED BY <2>0, <3>2, <4>1, <5>1 DEF Below
      <4> QED BY <4>3, <4>4
    <3> QED BY <2>0, <2>1, <3>1, <3>3
  <2> QED BY <1>3, <2>2, <2>3
<1>6. SubsAreOpen' /\ ClosedOnce'
  BY DEF IInv, SubsAreOpen, ClosedOnce, Deliver
<1> QED BY <1>4, <1>5, <1>6 DEF IInv

(* A subscriber takes its oldest message.                                  *)
LEMMA TakeInv == ASSUME IInv, NEW s \in Subscribers, Take(s) PROVE IInv'
<1> USE FanoutAssumption
<1>1. /\ queue[s] \in Seq(1 .. MaxMessages) /\ got[s] \in Seq(1 .. MaxMessages)
      /\ queue[s] # <<>> /\ read \in Int /\ Len(queue[s]) <= QueueSize
  BY DEF IInv, TypeOK, Take
<1>2. /\ queue'[s] = Tail(queue[s]) /\ got'[s] = Append(got[s], queue[s][1])
      /\ \A t \in Subscribers \ {s} : queue'[t] = queue[t] /\ got'[t] = got[t]
  BY <1>1, TailFacts DEF IInv, TypeOK, Take
<1>3. /\ Len(got[s]) \in Nat /\ DOMAIN got[s] = 1 .. Len(got[s]) /\ DOMAIN queue[s] = 1 .. Len(queue[s])
      /\ Len(queue[s]) \in Nat \ {0} /\ DOMAIN queue'[s] = 1 .. Len(queue[s]) - 1
      /\ \A i \in 1 .. Len(queue[s]) - 1 : queue'[s][i] = queue[s][i + 1]
      /\ DOMAIN got'[s] = 1 .. Len(got[s]) + 1
      /\ \A i \in 1 .. Len(got[s]) : got'[s][i] = got[s][i]
      /\ got'[s][Len(got[s]) + 1] = queue[s][1]
      /\ \A i \in 1 .. Len(queue[s]) : queue[s][i] \in Int
      /\ \A i \in 1 .. Len(got[s]) : got[s][i] \in Int
  <2>1. queue[s][1] \in 1 .. MaxMessages
    BY <1>1, SeqFacts, TailFacts
  <2>2. /\ Len(got[s]) \in Nat /\ DOMAIN got[s] = 1 .. Len(got[s])
        /\ \A i \in 1 .. Len(got[s]) : got[s][i] \in 1 .. MaxMessages
        /\ Len(queue[s]) \in Nat /\ DOMAIN queue[s] = 1 .. Len(queue[s])
        /\ \A i \in 1 .. Len(queue[s]) : queue[s][i] \in 1 .. MaxMessages
    BY <1>1, SeqFacts
  <2>3. /\ Len(queue[s]) # 0 /\ DOMAIN queue'[s] = 1 .. Len(queue[s]) - 1
        /\ \A i \in 1 .. Len(queue[s]) - 1 : queue'[s][i] = queue[s][i + 1]
    BY <1>1, <1>2, TailFacts
  <2>4. /\ DOMAIN got'[s] = 1 .. Len(got[s]) + 1
        /\ \A i \in 1 .. Len(got[s]) : got'[s][i] = got[s][i]
        /\ got'[s][Len(got[s]) + 1] = queue[s][1]
    BY <1>1, <1>2, <2>1, AppendFacts
  <2> QED BY <2>2, <2>3, <2>4
<1>4. TypeOK'
  <2>1. /\ queue'[s] \in Seq(1 .. MaxMessages) /\ Len(queue'[s]) <= QueueSize
        /\ got'[s] \in Seq(1 .. MaxMessages)
    <3>1. queue[s][1] \in 1 .. MaxMessages
      BY <1>1, SeqFacts, TailFacts
    <3>2. got'[s] \in Seq(1 .. MaxMessages)
      BY <1>1, <1>2, <3>1, AppendFacts
    <3>3. queue'[s] \in Seq(1 .. MaxMessages) /\ Len(queue'[s]) = Len(queue[s]) - 1
      BY <1>1, <1>2, TailFacts
    <3> QED BY <1>1, <1>3, <3>2, <3>3
  <2> QED BY <1>2, <2>1 DEF IInv, TypeOK, Take
<1>5. InLine'
  <2>0. /\ Ordered(got[s]) /\ Ordered(queue[s]) /\ Below(got[s], queue[s])
        /\ Upto(got[s], read) /\ Upto(queue[s], read)
    BY DEF IInv, InLine
  <2>1. \A i \in 1 .. Len(queue[s]) - 1 : i + 1 \in 1 .. Len(queue[s])
    BY <1>3
  <2>2. Ordered(queue'[s])
    <3> SUFFICES ASSUME NEW i \in 1 .. Len(queue[s]) - 1, NEW j \in 1 .. Len(queue[s]) - 1, i < j
                 PROVE  queue'[s][i] < queue'[s][j]
      BY <1>3 DEF Ordered
    <3>0. i + 1 \in DOMAIN queue[s] /\ j + 1 \in DOMAIN queue[s] /\ i + 1 < j + 1
      BY <1>3, <2>1
    <3>1. queue[s][i + 1] < queue[s][j + 1]
      BY <2>0, <3>0 DEF Ordered
    <3> QED BY <1>3, <3>1
  <2>3. Upto(queue'[s], read)
    BY <1>3, <2>0, <2>1 DEF Upto
  <2>4. 1 \in DOMAIN queue[s]
    BY <1>3
  <2>5. Upto(got'[s], read)
    <3> SUFFICES ASSUME NEW i \in 1 .. Len(got[s]) + 1 PROVE got'[s][i] <= read
      BY <1>3 DEF Upto
    <3>1. CASE i = Len(got[s]) + 1
      BY <1>3, <2>0, <2>4, <3>1 DEF Upto
    <3>2. CASE i # Len(got[s]) + 1
      <4>1. i \in 1 .. Len(got[s])  BY <1>3, <3>2
      <4> QED BY <1>3, <2>0, <4>1 DEF Upto
    <3> QED BY <3>1, <3>2
  <2>6. Ordered(got'[s])
    <3> SUFFICES ASSUME NEW i \in 1 .. Len(got[s]) + 1, NEW j \in 1 .. Len(got[s]) + 1, i < j
                 PROVE  got'[s][i] < got'[s][j]
      BY <1>3 DEF Ordered
    <3>0. i \in 1 .. Len(got[s])  BY <1>3
    <3>1. CASE j = Len(got[s]) + 1
      BY <1>3, <2>0, <2>4, <3>0, <3>1 DEF Below
    <3>2. CASE j # Len(got[s]) + 1
      <4>1. j \in 1 .. Len(got[s])  BY <1>3, <3>2
      <4> QED BY <1>3, <2>0, <3>0, <4>1 DEF Ordered
    <3> QED BY <3>1, <3>2
  <2>7. Below(got'[s], queue'[s])
    <3> SUFFICES ASSUME NEW i \in 1 .. Len(got[s]) + 1, NEW j \in 1 .. Len(queue[s]) - 1
                 PROVE  got'[s][i] < queue[s][j + 1]
      BY <1>3 DEF Below
    <3>0. j + 1 \in DOMAIN queue[s] /\ 1 < j + 1
      BY <1>3, <2>1
    <3>1. CASE i = Len(got[s]) + 1
      BY <1>3, <2>0, <2>4, <3>0, <3>1 DEF Ordered
    <3>2. CASE i # Len(got[s]) + 1
      <4>1. i \in 1 .. Len(got[s])  BY <1>3, <3>2
      <4> QED BY <1>3, <2>0, <3>0, <4>1 DEF Below
    <3> QED BY <3>1, <3>2
  <2> SUFFICES ASSUME NEW t \in Subscribers
               PROVE  /\ Ordered(got'[t]) /\ Ordered(queue'[t]) /\ Below(got'[t], queue'[t])
                      /\ Upto(got'[t], read) /\ Upto(queue'[t], read)
    BY DEF InLine, Take
  <2>8. CASE t = s  BY <2>2, <2>3, <2>5, <2>6, <2>7, <2>8
  <2>9. CASE t # s  BY <1>2, <2>9 DEF IInv, InLine
  <2> QED BY <2>8, <2>9
<1>6. SubsAreOpen' /\ ClosedOnce'
  BY DEF IInv, SubsAreOpen, ClosedOnce, Take
<1> QED BY <1>4, <1>5, <1>6 DEF IInv

(* Every other step leaves the order of messages alone, and closes only    *)
(* channels that are open.                                                 *)
LEMMA StepInv == IInv /\ [Next]_vars => IInv'
<1> SUFFICES ASSUME IInv, [Next]_vars PROVE IInv'
  OBVIOUS
<1> USE FanoutAssumption
<1>1. CASE Deliver
  BY <1>1, DeliverInv
<1>2. CASE CloseAll
  BY <1>2 DEF IInv, TypeOK, InLine, SubsAreOpen, ClosedOnce, CloseAll
<1>3. ASSUME NEW s \in Subscribers, Subscribe(s) PROVE IInv'
  <2>1. ~closed[s]
    \* a reader that has not subscribed has no channel to close
    BY <1>3 DEF IInv, SubsAreOpen, Subscribe
  <2> QED
    BY <1>3, <2>1 DEF IInv, TypeOK, InLine, SubsAreOpen, ClosedOnce, Subscribe
<1>4. ASSUME NEW s \in Subscribers, Call(s) PROVE IInv'
  BY <1>4 DEF IInv, TypeOK, InLine, SubsAreOpen, ClosedOnce, Call
<1>5. ASSUME NEW s \in Subscribers, Take(s) PROVE IInv'
  BY <1>5, TakeInv
<1>6. ASSUME NEW s \in Subscribers, Eof(s) PROVE IInv'
  BY <1>6 DEF IInv, TypeOK, InLine, SubsAreOpen, ClosedOnce, Eof
<1>7. ASSUME NEW s \in Subscribers, Unsubscribe(s) PROVE IInv'
  BY <1>7 DEF IInv, TypeOK, InLine, SubsAreOpen, ClosedOnce, Unsubscribe, Joined
<1>8. CASE UNCHANGED vars
  BY <1>8 DEF IInv, TypeOK, InLine, SubsAreOpen, ClosedOnce, vars
<1> QED
  BY <1>1, <1>2, <1>3, <1>4, <1>5, <1>6, <1>7, <1>8 DEF Next, Run

(* Messages stand in line, and Run delivers to open channels only, in      *)
(* every state of Fanout.                                                  *)
THEOREM InvHolds == Spec => []IInv
BY InitInv, StepInv, PTL DEF Spec

(* Every variable of Fanout keeps its type, and no queue holds more than   *)
(* its channel.                                                            *)
THEOREM TypeCorrect == Spec => []TypeOK
<1>1. IInv => TypeOK  BY DEF IInv
<1> QED BY <1>1, InvHolds, PTL

(* No subscriber of Fanout gets a message twice or out of order, whatever  *)
(* it misses.                                                              *)
THEOREM AlwaysTakenInOrder == Spec => []TakenInOrder
<1>1. IInv => TakenInOrder
  <2> SUFFICES ASSUME IInv, NEW s \in Subscribers PROVE Ordered(got[s] \o queue[s])
    BY DEF TakenInOrder
  <2>1. got[s] \in Seq(1 .. MaxMessages) /\ queue[s] \in Seq(1 .. MaxMessages)
    BY DEF IInv, TypeOK
  <2> QED BY <2>1, OrderedConcat DEF IInv, InLine
<1> QED BY <1>1, InvHolds, PTL

(* No order of Close calls and the end of the transport closes a channel   *)
(* of Fanout twice, which would end the daemon.                            *)
THEOREM AlwaysClosedOnce == Spec => []ClosedOnce
<1>1. IInv => ClosedOnce  BY DEF IInv
<1> QED BY <1>1, InvHolds, PTL
=============================================================================
