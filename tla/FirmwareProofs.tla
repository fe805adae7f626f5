--------------------------- MODULE FirmwareProofs ---------------------------
(***************************************************************************)
(* Proofs about the firmware's main loop.  About its frames (PushQueue),   *)
(* for any number of keys and slots, any size of a group and any number of *)
(* messages and desyncs: the newest frame of a key is never lost, and the  *)
(* bytes of a frame stay as they are until it is sent.  About its batch    *)
(* and the host that fills it (Batch), for any number of keys, nudges,     *)
(* layer changes, client calls and losses, and any hosts: what the board   *)
(* ends up with, when a batch may end late, and that a complete one is of  *)
(* the layer change it was opened for.                                     *)
(***************************************************************************)
EXTENDS PushQueue, Batch, FiniteSetTheorems, TLAPS

-----------------------------------------------------------------------------
(* InOrder lists a finite set of numbers, each of them once.               *)
Once(s) == \A i, j \in DOMAIN s : s[i] = s[j] => i = j

(* The place of a number in its set, from 1 on.                            *)
Place(S, k) == Cardinality({j \in S : j <= k})

LEMMA PlacesDiffer ==
  ASSUME NEW S \in SUBSET Int, IsFiniteSet(S)
  PROVE  /\ \A k \in S : Place(S, k) \in 1 .. Cardinality(S)
         /\ \A k, l \in S : Place(S, k) = Place(S, l) => k = l
  <1>1. ASSUME NEW k \in S
        PROVE  Place(S, k) \in 1 .. Cardinality(S)
    <2> DEFINE Upto == {j \in S : j <= k}
    <2>1. IsFiniteSet(Upto) /\ Cardinality(Upto) <= Cardinality(S)
      BY FS_Subset
    <2>2. Cardinality(Upto) \in Nat /\ Cardinality(S) \in Nat
      BY <2>1, FS_CardinalityType
    <2>3. k \in Upto
      OBVIOUS
    <2>4. Cardinality(Upto) # 0
      BY <2>1, <2>3, FS_EmptySet
    <2> QED
      BY <2>1, <2>2, <2>4 DEF Place
  <1>2. ASSUME NEW k \in S, NEW l \in S, k < l
        PROVE  Place(S, k) < Place(S, l)
    <2>1. PICK A : A = {j \in S : j <= k}
      OBVIOUS
    <2>2. PICK B : B = {j \in S : j <= l}
      OBVIOUS
    <2>3. k \in Int /\ l \in Int /\ \A j \in S : j \in Int
      OBVIOUS
    <2>4. A \in SUBSET B /\ l \in B /\ l \notin A /\ B \in SUBSET S
      <3>1. \A j \in Int : j <= k => j <= l
        BY <1>2, <2>3
      <3>2. l \in B /\ B \in SUBSET S
        BY <2>2, <2>3
      <3>3. l \notin A
        BY <1>2, <2>1, <2>3
      <3> QED
        BY <2>1, <2>2, <2>3, <3>1, <3>2, <3>3
    <2>5. IsFiniteSet(B)
      BY <2>4, FS_Subset
    <2>6. Cardinality(A) <= Cardinality(B) /\ IsFiniteSet(A) /\ Cardinality(A) # Cardinality(B)
      BY <2>4, <2>5, FS_Subset
    <2>7. Cardinality(A) \in Nat /\ Cardinality(B) \in Nat
      BY <2>5, <2>6, FS_CardinalityType
    <2>8. Cardinality(A) < Cardinality(B)
      BY <2>6, <2>7
    <2> QED
      BY <2>1, <2>2, <2>8 DEF Place
  <1>3. \A k \in S : Place(S, k) \in Int /\ k \in Int
    BY <1>1
  <1>4. ASSUME NEW k \in S, NEW l \in S, Place(S, k) = Place(S, l)
        PROVE  k = l
    <2>1. ~ (k < l) /\ ~ (l < k)
      BY <1>2, <1>3, <1>4
    <2> QED
      BY <1>3, <2>1
  <1> QED
    BY <1>1, <1>4

LEMMA InOrderLists ==
  ASSUME NEW S \in SUBSET Int, IsFiniteSet(S)
  PROVE  /\ InOrder(S) \in [1 .. Cardinality(S) -> S]
         /\ Once(InOrder(S)) /\ ToSet(InOrder(S)) = S
  <1> DEFINE n == Cardinality(S)
             f == [k \in S |-> Place(S, k)]
  <1>1. n \in Nat
    BY FS_CardinalityType
  <1>2. f \in Injection(S, 1 .. n)
    <2>1. f \in [S -> 1 .. n]
      BY PlacesDiffer
    <2>2. \A k, l \in S : f[k] = f[l] => k = l
      BY PlacesDiffer
    <2> HIDE DEF f, n
    <2> QED
      BY <2>1, <2>2 DEF Injection, IsInjective
  <1>3. IsFiniteSet(1 .. n) /\ Cardinality(1 .. n) = n
    BY <1>1, FS_Interval
  <1>4. \A i \in 1 .. n : \E k \in S : Place(S, k) = i
    <2> HIDE DEF f
    <2>1. f \in Surjection(S, 1 .. n)
      BY <1>2, <1>3, FS_Injection
    <2>2. \A i \in 1 .. n : \E k \in S : f[k] = i
      BY <2>1 DEF Surjection
    <2> QED
      BY <2>2 DEF f
  <1>5. \A i \in 1 .. n : InOrder(S)[i] \in S /\ Place(S, InOrder(S)[i]) = i
    BY <1>4 DEF InOrder, Place
  <1>6. DOMAIN InOrder(S) = 1 .. n
    BY DEF InOrder
  <1>7. InOrder(S) \in [1 .. n -> S]
    BY <1>5, <1>6 DEF InOrder
  <1>8. Once(InOrder(S))
    BY <1>5, <1>6 DEF Once
  <1>9. ToSet(InOrder(S)) = S
    <2>0. \A k \in S : Place(S, k) \in 1 .. n
      BY PlacesDiffer
    <2>1. ASSUME NEW k \in S
          PROVE  \E i \in 1 .. n : InOrder(S)[i] = k
      <3>1. PICK i \in 1 .. n : i = Place(S, k)
        BY <2>0
      <3>2. InOrder(S)[i] \in S /\ Place(S, InOrder(S)[i]) = Place(S, k)
        BY <1>5, <3>1
      <3>3. \A l \in S : Place(S, l) = Place(S, k) => l = k
        BY PlacesDiffer
      <3>4. InOrder(S)[i] = k
        BY <3>2, <3>3
      <3> QED
        BY <3>4
    <2> QED
      BY <1>6, <1>7, <2>1 DEF ToSet
  <1> QED
    BY <1>7, <1>8, <1>9

LEMMA KeysListed ==
  ASSUME NEW S \in SUBSET Keys
  PROVE  /\ InOrder(S) \in Seq(Keys) /\ Once(InOrder(S)) /\ ToSet(InOrder(S)) = S
  <1>1. IsFiniteSet(Keys)
    BY PushAssumption, FS_Interval DEF Keys
  <1>2. S \in SUBSET Int /\ IsFiniteSet(S)
    <2>1. \A k \in Keys : k \in Int
      BY PushAssumption DEF Keys
    <2> QED
      BY <1>1, <2>1, FS_Subset
  <1>3. Cardinality(S) \in Nat
    BY <1>2, FS_CardinalityType
  <1>4. InOrder(S) \in [1 .. Cardinality(S) -> Keys]
    BY <1>2, InOrderLists
  <1>5. InOrder(S) \in Seq(Keys)
    BY <1>3, <1>4
  <1> QED
    BY <1>2, <1>5, InOrderLists

-----------------------------------------------------------------------------
(* Sequences of keys: their parts, two of them in a row, and the ones that *)
(* stay.                                                                   *)
LEMMA Joined ==
  ASSUME NEW s \in Seq(Keys), NEW t \in Seq(Keys)
  PROVE  /\ s \o t \in Seq(Keys) /\ ToSet(s \o t) = ToSet(s) \union ToSet(t)
         /\ Once(s) /\ Once(t) /\ ToSet(s) \intersect ToSet(t) = {} => Once(s \o t)
  <1> DEFINE u == s \o t
  <1>1. /\ u \in Seq(Keys) /\ Len(u) = Len(s) + Len(t)
        /\ \A i \in 1 .. Len(s) : u[i] = s[i]
        /\ \A i \in 1 .. Len(t) : u[Len(s) + i] = t[i]
        /\ \A i \in 1 .. Len(u) : i \in 1 .. Len(s) \/ i - Len(s) \in 1 .. Len(t)
        /\ \A i \in 1 .. Len(u) : i \notin 1 .. Len(s) => u[i] = t[i - Len(s)]
    OBVIOUS
  <1>2. DOMAIN u = 1 .. Len(u) /\ DOMAIN s = 1 .. Len(s) /\ DOMAIN t = 1 .. Len(t)
    BY <1>1
  <1>3. Len(s) \in Nat /\ Len(t) \in Nat
    OBVIOUS
  <1> HIDE DEF u
  <1>4. ToSet(u) \subseteq ToSet(s) \union ToSet(t)
    BY <1>1, <1>2, <1>3 DEF ToSet
  <1>5. ToSet(s) \subseteq ToSet(u)
    BY <1>1, <1>2, <1>3 DEF ToSet
  <1>6. ToSet(t) \subseteq ToSet(u)
    <2>1. \A i \in 1 .. Len(t) : Len(s) + i \in 1 .. Len(u)
      BY <1>1, <1>3
    <2>2. ASSUME NEW i \in 1 .. Len(t)
          PROVE  t[i] \in ToSet(u)
      <3>1. Len(s) + i \in DOMAIN u /\ u[Len(s) + i] = t[i]
        BY <1>1, <1>2, <2>1
      <3> QED
        BY <3>1 DEF ToSet
    <2> QED
      BY <1>2, <2>2 DEF ToSet
  <1>7. ASSUME Once(s), Once(t), ToSet(s) \intersect ToSet(t) = {}
        PROVE  Once(u)
    <2> SUFFICES ASSUME NEW i \in 1 .. Len(u), NEW j \in 1 .. Len(u), u[i] = u[j]
                 PROVE  i = j
      BY <1>2 DEF Once
    <2>1. CASE i \in 1 .. Len(s) /\ j \in 1 .. Len(s)
      BY <1>1, <1>2, <1>7, <2>1 DEF Once
    <2>2. CASE i \notin 1 .. Len(s) /\ j \notin 1 .. Len(s)
      <3>1. i - Len(s) \in 1 .. Len(t) /\ j - Len(s) \in 1 .. Len(t)
            /\ t[i - Len(s)] = t[j - Len(s)]
        BY <1>1, <2>2
      <3>2. i - Len(s) = j - Len(s)
        BY <1>2, <1>7, <3>1 DEF Once
      <3> QED
        BY <1>3, <3>2
    <2>3. ASSUME NEW a \in 1 .. Len(s), NEW b \in 1 .. Len(u), b \notin 1 .. Len(s)
          PROVE  u[a] # u[b]
      <3>1. u[a] \in ToSet(s) /\ u[b] \in ToSet(t)
        BY <1>1, <1>2, <2>3 DEF ToSet
      <3> QED
        BY <1>7, <3>1
    <2> QED
      BY <2>1, <2>2, <2>3
  <1> QED
    BY <1>1, <1>4, <1>5, <1>6, <1>7 DEF u

LEMMA Parted ==
  ASSUME NEW s \in Seq(Keys), Once(s), NEW n \in 0 .. Len(s)
  PROVE  LET front == SubSeq(s, 1, n)
             rest  == SubSeq(s, n + 1, Len(s))
         IN /\ front \in Seq(Keys) /\ rest \in Seq(Keys) /\ Len(front) = n
            /\ Once(front) /\ Once(rest)
            /\ ToSet(front) \union ToSet(rest) = ToSet(s)
            /\ ToSet(front) \intersect ToSet(rest) = {}
  <1> DEFINE front == SubSeq(s, 1, n)
             rest  == SubSeq(s, n + 1, Len(s))
  <1>1. /\ front \in Seq(Keys) /\ rest \in Seq(Keys)
        /\ Len(front) = n /\ Len(rest) = Len(s) - n
        /\ \A i \in 1 .. n : front[i] = s[i]
        /\ \A i \in 1 .. Len(s) - n : rest[i] = s[n + i]
    OBVIOUS
  <1>2. /\ DOMAIN front = 1 .. n /\ DOMAIN rest = 1 .. Len(s) - n /\ DOMAIN s = 1 .. Len(s)
        /\ Len(s) \in Nat
    BY <1>1
  <1> HIDE DEF front, rest
  <1>3. \A i \in 1 .. Len(s) - n : n + i \in 1 .. Len(s)
    BY <1>2
  <1>4. \A i \in 1 .. n : i \in 1 .. Len(s)
    BY <1>2
  <1>5. \A i \in 1 .. Len(s) : i \in 1 .. n \/ (i - n \in 1 .. Len(s) - n /\ s[i] = rest[i - n])
    <2> SUFFICES ASSUME NEW i \in 1 .. Len(s), i \notin 1 .. n
                 PROVE  i - n \in 1 .. Len(s) - n /\ s[i] = rest[i - n]
      OBVIOUS
    <2>1. i - n \in 1 .. Len(s) - n /\ n + (i - n) = i
      BY <1>2
    <2> QED
      BY <1>1, <2>1
  <1>6. Once(front) /\ Once(rest)
    <2>1. Once(front)
      BY <1>1, <1>2, <1>4 DEF Once
    <2>2. ASSUME NEW i \in 1 .. Len(s) - n, NEW j \in 1 .. Len(s) - n, rest[i] = rest[j]
          PROVE  i = j
      <3>1. s[n + i] = s[n + j]
        BY <1>1, <2>2
      <3>2. n + i \in DOMAIN s /\ n + j \in DOMAIN s
        BY <1>2, <1>3
      <3>3. n + i = n + j
        BY <3>1, <3>2 DEF Once
      <3> QED
        BY <3>3
    <2> QED
      BY <1>2, <2>1, <2>2 DEF Once
  <1>7. ToSet(front) \union ToSet(rest) = ToSet(s)
    <2>1. \A i \in 1 .. n : front[i] \in ToSet(s)
      BY <1>1, <1>2, <1>4 DEF ToSet
    <2>2. \A i \in 1 .. Len(s) - n : rest[i] \in ToSet(s)
      BY <1>1, <1>2, <1>3 DEF ToSet
    <2>3. ASSUME NEW i \in 1 .. Len(s)
          PROVE  s[i] \in ToSet(front) \union ToSet(rest)
      <3>1. CASE i \in 1 .. n
        BY <1>1, <1>2, <3>1 DEF ToSet
      <3>2. CASE i \notin 1 .. n
        BY <1>2, <1>5, <3>2 DEF ToSet
      <3> QED
        BY <3>1, <3>2
    <2> QED
      BY <1>2, <2>1, <2>2, <2>3 DEF ToSet
  <1>8. ASSUME NEW i \in 1 .. n, NEW j \in 1 .. Len(s) - n
        PROVE  front[i] # rest[j]
    <2>1. i # n + j /\ i \in 1 .. Len(s) /\ n + j \in 1 .. Len(s)
      BY <1>2
    <2>2. s[i] # s[n + j]
      BY <1>2, <2>1 DEF Once
    <2> QED
      BY <1>1, <2>2
  <1>9. ToSet(front) \intersect ToSet(rest) = {}
    BY <1>2, <1>8 DEF ToSet
  <1> QED
    BY <1>1, <1>6, <1>7, <1>9 DEF front, rest

LEMMA OnlyStay ==
  ASSUME NEW s \in Seq(Keys), Once(s), NEW S \in SUBSET Keys
  PROVE  /\ Only(s, S) \in Seq(Keys) /\ Once(Only(s, S))
         /\ ToSet(Only(s, S)) = ToSet(s) \intersect S
  <1> DEFINE I == {i \in DOMAIN s : s[i] \in S}
             places == InOrder(I)
             n == Cardinality(I)
  <1>1. DOMAIN s = 1 .. Len(s) /\ Len(s) \in Nat
    OBVIOUS
  <1>2. I \in SUBSET Int /\ IsFiniteSet(I)
    <2>1. \A i \in 1 .. Len(s) : i \in Int
      OBVIOUS
    <2>2. I \in SUBSET (1 .. Len(s)) /\ IsFiniteSet(1 .. Len(s))
      BY <1>1, FS_Interval
    <2> QED
      BY <2>1, <2>2, FS_Subset
  <1>3. n \in Nat
    BY <1>2, FS_CardinalityType
  <1>4. places \in [1 .. n -> I] /\ Once(places) /\ ToSet(places) = I
    BY <1>2, InOrderLists
  <1>5. Only(s, S) = [m \in 1 .. n |-> s[places[m]]]
    BY <1>4 DEF Only
  <1> HIDE DEF places, n
  <1>6. Only(s, S) \in Seq(Keys)
    <2>1. Only(s, S) \in [1 .. n -> Keys]
      BY <1>4, <1>5
    <2> QED
      BY <1>3, <2>1
  <1>7. Once(Only(s, S))
    BY <1>4, <1>5 DEF Once
  <1>8. ToSet(Only(s, S)) = ToSet(s) \intersect S
    BY <1>4, <1>5 DEF ToSet
  <1> QED
    BY <1>6, <1>7, <1>8

-----------------------------------------------------------------------------
(* What is in hand is a Show frames, with no batch open, or a single Store *)
(* frame into a slot that no key shows.                                    *)
InHand ==
  \/ (\A i \in 1 .. Len(todo) : ~todo[i].store) /\ (todo # <<>> => hold = None)
  \/ Len(todo) = 1 /\ todo[1].store /\ (\A k \in Keys : on[k].view # todo[1].slot)

(* The state of the group: no bus is busy without one, and a key is in it  *)
(* once.                                                                   *)
GroupAgrees == Once(group) /\ (bus = "free" <=> group = <<>>)

LatestKept == \A k \in Keys : k \notin Touched => LastComing(k) = on[k]

Inv == TypeOK /\ QueueAgrees /\ GroupAgrees /\ LatestKept /\ InHand /\ FramesStayWhole

Items == [store : BOOLEAN, key : Keys, slot : Slots, pip : BOOLEAN]

(* The buffers and the frames that name them.                              *)
LEMMA BufferNumbers ==
  /\ Slots \subseteq Buffers /\ 0 \in Keys
  /\ \A k \in Keys, w \in {0, 1} : PipBuffer(k, w) \in Buffers
  <1>1. \A k \in Keys, w \in {0, 1} : PipBuffer(k, w) \in Buffers
    BY PushAssumption DEF Keys, PipBuffer, Buffers
  <1> QED
    BY <1>1, PushAssumption DEF Keys, Slots, Buffers

LEMMA FramesMade ==
  ASSUME NEW f \in Frames, NEW v \in Buffers \union {Own}
  PROVE  [n |-> f.n + 1, view |-> v] \in Frames /\ f.view \in Buffers \union {Own}
  BY DEF Frames

(* The queue has each key once.                                            *)
LEMMA QueueOnce ==
  ASSUME TypeOK, QueueAgrees
  PROVE  Once(queue)
  <1>1. DOMAIN queue = 1 .. Len(queue)
    BY DEF TypeOK
  <1> QED
    BY <1>1 DEF QueueAgrees, Once

(* A submit puts the keys that do not wait at the end of the queue, and    *)
(* every one of them waits with the frame that it came with.               *)
LEMMA SubmitKeeps ==
  ASSUME NEW S \in SUBSET Keys, NEW fs \in [Keys -> Frames],
         TypeOK, QueueAgrees, Submit(S, fs)
  PROVE  /\ queue' \in Seq(Keys) /\ Once(queue')
         /\ waiting' \in [Keys -> FrameOrNone]
         /\ \A k \in Keys : waiting'[k] = IF k \in S THEN fs[k] ELSE waiting[k]
         /\ \A k \in Keys : waiting'[k] # None <=> k \in ToSet(queue')
  <1>1. PICK T \in SUBSET Keys : T = {k \in S : waiting[k] = None}
    OBVIOUS
  <1>2. queue' = queue \o InOrder(T)
    BY <1>1 DEF Submit
  <1>3. InOrder(T) \in Seq(Keys) /\ Once(InOrder(T)) /\ ToSet(InOrder(T)) = T
    BY KeysListed
  <1>4. queue \in Seq(Keys) /\ Once(queue) /\ waiting \in [Keys -> FrameOrNone]
    BY QueueOnce DEF TypeOK
  <1>5. \A k \in Keys : waiting[k] # None <=> k \in ToSet(queue)
    BY DEF QueueAgrees
  <1>6. ToSet(queue) \intersect T = {}
    BY <1>1, <1>5
  <1>7. queue' \in Seq(Keys) /\ Once(queue') /\ ToSet(queue') = ToSet(queue) \union T
    BY <1>2, <1>3, <1>4, <1>6, Joined
  <1>8. \A k \in Keys : waiting'[k] = IF k \in S THEN fs[k] ELSE waiting[k]
    BY DEF Submit
  <1>9. waiting' \in [Keys -> FrameOrNone]
    <2>1. \A k \in Keys : fs[k] \in FrameOrNone
      BY DEF FrameOrNone
    <2> QED
      BY <1>4, <2>1 DEF Submit
  <1>10. \A k \in Keys : fs[k] # None
    BY NoneAssumption
  <1> QED
    BY <1>1, <1>5, <1>7, <1>8, <1>9, <1>10

(* A new group takes the oldest keys of a queue, with the frames that they *)
(* wait with, and leaves the others as they are.                           *)
LEMMA StartKeeps ==
  ASSUME NEW q \in Seq(Keys), Once(q), NEW w \in [Keys -> FrameOrNone],
         \A k \in Keys : w[k] # None <=> k \in ToSet(q), StartGroup(q, w)
  PROVE  /\ queue' \in Seq(Keys) /\ Once(queue') /\ waiting' \in [Keys -> FrameOrNone]
         /\ group' \in Seq(Keys) /\ Once(group') /\ Len(group') <= MaxGroup
         /\ wire' \in [Keys -> FrameOrNone]
         /\ \A k \in Keys : waiting'[k] # None <=> k \in ToSet(queue')
         /\ \A k \in Keys : wire'[k] # None <=> k \in ToSet(group')
         /\ \A k \in Keys : \/ waiting'[k] = w[k] /\ wire'[k] = None
                            \/ waiting'[k] = None /\ wire'[k] = w[k]
         /\ bus' \in {"free", "sending"} /\ (bus' = "free" <=> group' = <<>>)
  <1>1. PICK n \in 0 .. Len(q) : n = IF Len(q) < MaxGroup THEN Len(q) ELSE MaxGroup
    BY PushAssumption
  <1>2. n <= MaxGroup
    BY <1>1, PushAssumption
  <1>3. PICK keys \in Seq(Keys) : keys = SubSeq(q, 1, n)
    BY Parted
  <1>4. PICK rest \in Seq(Keys) : rest = SubSeq(q, n + 1, Len(q))
    BY Parted
  <1>5. /\ Len(keys) = n /\ Once(keys) /\ Once(rest)
        /\ ToSet(keys) \union ToSet(rest) = ToSet(q)
        /\ ToSet(keys) \intersect ToSet(rest) = {}
    BY <1>3, <1>4, Parted
  <1>6. /\ group' = keys /\ queue' = rest
        /\ wire' = [k \in Keys |-> IF k \in ToSet(keys) THEN w[k] ELSE None]
        /\ waiting' = [k \in Keys |-> IF k \in ToSet(keys) THEN None ELSE w[k]]
        /\ bus' = IF keys = <<>> THEN "free" ELSE "sending"
    BY <1>1, <1>3, <1>4 DEF StartGroup
  <1>7. None \in FrameOrNone
    BY DEF FrameOrNone
  <1>8. waiting' \in [Keys -> FrameOrNone] /\ wire' \in [Keys -> FrameOrNone]
    BY <1>6, <1>7
  <1>9. ASSUME NEW k \in Keys
        PROVE  /\ waiting'[k] # None <=> k \in ToSet(queue')
               /\ wire'[k] # None <=> k \in ToSet(group')
               /\ \/ waiting'[k] = w[k] /\ wire'[k] = None
                  \/ waiting'[k] = None /\ wire'[k] = w[k]
    BY <1>5, <1>6
  <1> QED
    BY <1>2, <1>5, <1>6, <1>8, <1>9

-----------------------------------------------------------------------------
(* Keys draw and submit: the queue agrees again, and so does the newest    *)
(* frame of each key, when a key that does not submit has the frame it had *)
(* and was not left to a batch.                                            *)
LEMMA SubmitLatest ==
  ASSUME Inv, NEW S \in SUBSET Keys, on' \in [Keys -> Frames], Submit(S, on'),
         UNCHANGED <<group, wire, bus, panel>>,
         \A k \in Keys \ S : k \notin Touched' => k \notin Touched /\ on'[k] = on[k]
  PROVE  /\ queue' \in Seq(Keys) /\ waiting' \in [Keys -> FrameOrNone]
         /\ QueueAgrees' /\ GroupAgrees' /\ LatestKept'
  <1>1. PICK fs \in [Keys -> Frames] : fs = on'
    OBVIOUS
  <1>2. Submit(S, fs)
    BY <1>1
  <1>3. /\ queue' \in Seq(Keys) /\ Once(queue') /\ waiting' \in [Keys -> FrameOrNone]
        /\ \A k \in Keys : waiting'[k] = IF k \in S THEN fs[k] ELSE waiting[k]
        /\ \A k \in Keys : waiting'[k] # None <=> k \in ToSet(queue')
    BY <1>2, SubmitKeeps DEF Inv
  <1>4. QueueAgrees'
    <2>1. DOMAIN queue' = 1 .. Len(queue')
      BY <1>3
    <2>2. \A i, j \in 1 .. Len(queue') : queue'[i] = queue'[j] => i = j
      BY <1>3, <2>1 DEF Once
    <2> QED
      BY <1>3, <2>2 DEF QueueAgrees, Inv
  <1>5. GroupAgrees'
    BY DEF GroupAgrees, Inv
  <1>6. ASSUME NEW k \in Keys, k \notin Touched'
        PROVE  LastComing(k)' = on'[k]
    <2>1. CASE k \in S
      BY <1>1, <1>3, <2>1, NoneAssumption DEF LastComing
    <2>2. CASE k \notin S
      <3>1. k \notin Touched /\ on'[k] = on[k] /\ waiting'[k] = waiting[k]
        BY <1>3, <1>6, <2>2
      <3> QED
        BY <3>1 DEF LastComing, LatestKept, Inv
    <2> QED
      BY <2>1, <2>2
  <1> QED
    BY <1>3, <1>4, <1>5, <1>6 DEF LatestKept

-----------------------------------------------------------------------------
(* What a message of the loop leaves as it is: nothing is in hand, and no  *)
(* bytes change.                                                           *)
LEMMA ReceiveCounts ==
  ASSUME Inv, Receive
  PROVE  messages' \in 0 .. MaxMessages
  BY PushAssumption DEF Receive, Inv, TypeOK

(* A key state, a glyph or the blink clock, for a key that no batch holds. *)
LEMMA RenderInv ==
  ASSUME Inv, NEW k \in Keys, RenderKey(k)
  PROVE  Inv'
  <1>1. PICK f \in Redrawn(k) : on' = [on EXCEPT ![k] = f] /\ Submit({k}, on')
    BY DEF RenderKey
  <1>2. /\ UNCHANGED <<group, wire, bus, panel, desyncs, hold, todo, pipNext, rewritten, gaveUp>>
        /\ todo = <<>>
    BY DEF RenderKey, Receive, written
  <1>3. f \in Frames
    <2>1. on[k] \in Frames /\ Own \in Buffers \union {Own}
      BY DEF Inv, TypeOK
    <2>2. PICK v \in Buffers \union {Own} : f = [n |-> on[k].n + 1, view |-> v]
      BY <1>1, <2>1, FramesMade DEF Redrawn
    <2> QED
      BY <2>1, <2>2, FramesMade
  <1>4. on' \in [Keys -> Frames]
    BY <1>1, <1>3 DEF Inv, TypeOK
  <1>5. \A j \in Keys \ {k} : j \notin Touched' => j \notin Touched /\ on'[j] = on[j]
    BY <1>1, <1>2 DEF Touched, Inv, TypeOK
  <1>6. /\ queue' \in Seq(Keys) /\ waiting' \in [Keys -> FrameOrNone]
        /\ QueueAgrees' /\ GroupAgrees' /\ LatestKept'
    <2>1. PICK S \in SUBSET Keys : S = {k}
      OBVIOUS
    <2> QED
      BY <1>1, <1>2, <1>4, <1>5, <2>1, SubmitLatest
  <1>7. messages' \in 0 .. MaxMessages
    BY ReceiveCounts DEF RenderKey
  <1>8. TypeOK'
    BY <1>2, <1>4, <1>6, <1>7 DEF TypeOK, Inv
  <1>9. InHand'
    BY <1>2 DEF InHand
  <1>10. FramesStayWhole'
    BY <1>2 DEF FramesStayWhole, Inv
  <1> QED
    BY <1>6, <1>8, <1>9, <1>10 DEF Inv

(* The same for a key that the open batch holds: it only composes.         *)
LEMMA PrepareInv ==
  ASSUME Inv, NEW k \in Keys, PrepareKey(k)
  PROVE  Inv'
  <1>1. PICK f \in Redrawn(k) : on' = [on EXCEPT ![k] = f]
    BY DEF PrepareKey
  <1>2. /\ UNCHANGED <<queue, waiting, group, wire, bus, panel, desyncs, todo, pipNext,
                       rewritten, gaveUp>>
        /\ todo = <<>> /\ k \in Held /\ hold' = [hold EXCEPT !.touched = @ \union {k}]
    BY DEF PrepareKey, Receive, written, pushes
  <1>3. hold \in Holds /\ hold # None
    BY <1>2 DEF Held, Inv, TypeOK
  <1>4. /\ hold' \in Holds /\ hold'.touched = hold.touched \union {k}
    BY <1>2, <1>3 DEF Holds
  <1>5. Touched' = Touched \union {k}
    BY <1>3, <1>4, NoneAssumption DEF Touched
  <1>6. f \in Frames
    <2>1. on[k] \in Frames /\ Own \in Buffers \union {Own}
      BY DEF Inv, TypeOK
    <2>2. PICK v \in Buffers \union {Own} : f = [n |-> on[k].n + 1, view |-> v]
      BY <1>1, <2>1, FramesMade DEF Redrawn
    <2> QED
      BY <2>1, <2>2, FramesMade
  <1>7. on' \in [Keys -> Frames]
    BY <1>1, <1>6 DEF Inv, TypeOK
  <1>8. messages' \in 0 .. MaxMessages
    BY ReceiveCounts DEF PrepareKey
  <1>9. TypeOK'
    BY <1>2, <1>4, <1>7, <1>8 DEF TypeOK, Inv
  <1>10. QueueAgrees' /\ GroupAgrees'
    BY <1>2 DEF QueueAgrees, GroupAgrees, Inv
  <1>11. LatestKept'
    BY <1>1, <1>2, <1>5 DEF LatestKept, LastComing, Inv, TypeOK
  <1>12. InHand' /\ FramesStayWhole'
    BY <1>2 DEF InHand, FramesStayWhole, Inv
  <1> QED
    BY <1>9, <1>10, <1>11, <1>12 DEF Inv

(* A release: every key that was left to the batch submits, and no batch   *)
(* is open.                                                                *)
LEMMA ReleaseInv ==
  ASSUME Inv, hold' = None, Released, UNCHANGED <<on, group, wire, bus, panel>>
  PROVE  /\ queue' \in Seq(Keys) /\ waiting' \in [Keys -> FrameOrNone]
         /\ QueueAgrees' /\ GroupAgrees' /\ LatestKept'
  <1>1. Touched \in SUBSET Keys /\ Touched' = {}
    BY DEF Touched, Holds, Inv, TypeOK
  <1>2. PICK S \in SUBSET Keys : S = Touched
    BY <1>1
  <1>3. on' \in [Keys -> Frames] /\ Submit(S, on')
    BY <1>2 DEF Released, Inv, TypeOK
  <1>4. \A k \in Keys \ S : k \notin Touched' => k \notin Touched /\ on'[k] = on[k]
    BY <1>2
  <1> QED
    BY <1>3, <1>4, SubmitLatest

LEMMA ReleaseBatchInv ==
  ASSUME Inv, ReleaseBatch
  PROVE  Inv'
  <1>1. /\ UNCHANGED <<on, group, wire, bus, panel, desyncs, todo, pipNext, rewritten, gaveUp,
                       messages>>
        /\ todo = <<>> /\ hold' = None /\ Released
    BY DEF ReleaseBatch, written
  <1>2. /\ queue' \in Seq(Keys) /\ waiting' \in [Keys -> FrameOrNone]
        /\ QueueAgrees' /\ GroupAgrees' /\ LatestKept'
    BY <1>1, ReleaseInv
  <1>3. TypeOK'
    BY <1>1, <1>2 DEF TypeOK, Inv
  <1>4. InHand' /\ FramesStayWhole'
    BY <1>1 DEF InHand, FramesStayWhole, Inv
  <1> QED
    BY <1>2, <1>3, <1>4 DEF Inv

(* A batch begins: an open one is released first, and the keys that the    *)
(* new one holds leave the queue.                                          *)
LEMMA BeginInv ==
  ASSUME Inv, NEW held \in SUBSET Keys, BeginBatch(held)
  PROVE  Inv'
  <1>1. /\ UNCHANGED <<on, group, wire, bus, panel, desyncs, todo, pipNext, rewritten, gaveUp>>
        /\ todo = <<>>
    BY DEF BeginBatch, Receive, written
  <1>2. PICK w : w = [k \in Keys |-> IF k \in Touched THEN on[k] ELSE waiting[k]]
    OBVIOUS
  <1>3. PICK T \in SUBSET Keys : T = {k \in Touched : waiting[k] = None}
    BY DEF Touched, Holds, Inv, TypeOK
  <1>4. /\ queue' = Only(queue \o InOrder(T), Keys \ held)
        /\ waiting' = [k \in Keys |-> IF k \in held THEN None ELSE w[k]]
        /\ hold' = [held |-> held, touched |-> {k \in held : w[k] # None}]
    BY <1>2, <1>3 DEF BeginBatch
  <1>5. w \in [Keys -> FrameOrNone] /\ None \in FrameOrNone
    <2>1. \A k \in Keys : on[k] \in FrameOrNone /\ waiting[k] \in FrameOrNone
      BY DEF Inv, TypeOK, FrameOrNone
    <2> QED
      BY <1>2, <2>1 DEF FrameOrNone
  <1>6. waiting' \in [Keys -> FrameOrNone]
    BY <1>4, <1>5
  <1>7. PICK q : q = queue \o InOrder(T)
    OBVIOUS
  <1>8. q \in Seq(Keys) /\ Once(q) /\ ToSet(q) = ToSet(queue) \union T
    <2>1. InOrder(T) \in Seq(Keys) /\ Once(InOrder(T)) /\ ToSet(InOrder(T)) = T
      BY KeysListed
    <2>2. queue \in Seq(Keys) /\ Once(queue)
      BY QueueOnce DEF Inv, TypeOK
    <2>3. ToSet(queue) \intersect T = {}
      BY <1>3 DEF Inv, QueueAgrees
    <2> QED
      BY <1>7, <2>1, <2>2, <2>3, Joined
  <1>9. PICK S \in SUBSET Keys : S = Keys \ held
    OBVIOUS
  <1>10. queue' \in Seq(Keys) /\ Once(queue') /\ ToSet(queue') = ToSet(q) \intersect S
    BY <1>4, <1>7, <1>8, <1>9, OnlyStay
  <1>11. \A k \in Keys : on[k] # None
    BY NoneAssumption DEF Inv, TypeOK
  <1>12. \A k \in Keys : w[k] # None <=> k \in ToSet(q)
    BY <1>2, <1>3, <1>8, <1>11 DEF Inv, QueueAgrees
  <1>13. \A k \in Keys : waiting'[k] # None <=> k \in ToSet(queue')
    BY <1>4, <1>9, <1>10, <1>12
  <1>14. QueueAgrees'
    <2>1. DOMAIN queue' = 1 .. Len(queue')
      BY <1>10
    <2>2. \A i, j \in 1 .. Len(queue') : queue'[i] = queue'[j] => i = j
      BY <1>10, <2>1 DEF Once
    <2> QED
      BY <1>1, <1>13, <2>2 DEF QueueAgrees, Inv
  <1>15. hold' \in Holds /\ hold' # None
    BY <1>4, NoneAssumption DEF Holds
  <1>16. Touched' = {k \in held : w[k] # None}
    BY <1>4, <1>15 DEF Touched
  <1>17. ASSUME NEW k \in Keys, k \notin Touched'
         PROVE  LastComing(k)' = on'[k]
    <2>1. CASE k \in held
      <3>1. w[k] = None
        BY <1>16, <1>17, <2>1
      <3>2. k \notin Touched /\ waiting[k] = None
        BY <1>2, <1>11, <3>1
      <3>3. waiting'[k] = None
        BY <1>4, <2>1
      <3> QED
        BY <1>1, <3>2, <3>3 DEF LastComing, LatestKept, Inv
    <2>2. CASE k \notin held /\ k \in Touched
      BY <1>1, <1>2, <1>4, <1>11, <2>2 DEF LastComing
    <2>3. CASE k \notin held /\ k \notin Touched
      <3>1. waiting'[k] = waiting[k]
        BY <1>2, <1>4, <2>3
      <3> QED
        BY <1>1, <2>3, <3>1 DEF LastComing, LatestKept, Inv
    <2> QED
      BY <2>1, <2>2, <2>3
  <1>18. messages' \in 0 .. MaxMessages
    BY ReceiveCounts DEF BeginBatch
  <1>19. TypeOK'
    BY <1>1, <1>6, <1>10, <1>15, <1>18 DEF TypeOK, Inv
  <1>20. GroupAgrees' /\ InHand' /\ FramesStayWhole'
    BY <1>1 DEF GroupAgrees, InHand, FramesStayWhole, Inv
  <1> QED
    BY <1>14, <1>17, <1>19, <1>20 DEF Inv, LatestKept

(* Show frames releases an open batch and takes its keys in hand; Store    *)
(* frame takes a slot in hand that no key shows.                           *)
LEMMA ShowFramesInv ==
  ASSUME Inv, NEW named \in SUBSET Keys, NEW slots \in [named -> Slots],
         NEW pips \in SUBSET named, ShowFrames(named, slots, pips)
  PROVE  Inv'
  <1>1. /\ UNCHANGED <<on, group, wire, bus, panel, desyncs, pipNext, rewritten, gaveUp>>
        /\ hold' = None /\ Released
    BY DEF ShowFrames, written
  <1>2. PICK ks \in Seq(Keys) : ks = InOrder(named) /\ ToSet(ks) = named
    BY KeysListed
  <1>3. todo' = [i \in 1 .. Len(ks) |->
                  [store |-> FALSE, key |-> ks[i], slot |-> slots[ks[i]], pip |-> ks[i] \in pips]]
    BY <1>2 DEF ShowFrames
  <1>4. ASSUME NEW i \in 1 .. Len(ks)
        PROVE  ks[i] \in named
    BY <1>2, <1>4 DEF ToSet
  <1>5. \A i \in 1 .. Len(ks) : todo'[i] \in Items /\ ~todo'[i].store
    <2> SUFFICES ASSUME NEW i \in 1 .. Len(ks)
                 PROVE  todo'[i] \in Items /\ ~todo'[i].store
      OBVIOUS
    <2>1. PICK k \in named : k = ks[i]
      BY <1>4
    <2>2. PICK p : p = (k \in pips) /\ p \in BOOLEAN
      <3>1. (k \in pips) \in BOOLEAN
        OBVIOUS
      <3> QED
        BY <3>1, Zenon
    <2>3. todo'[i] = [store |-> FALSE, key |-> k, slot |-> slots[k], pip |-> p]
      BY <1>3, <2>1, <2>2
    <2>4. k \in Keys /\ slots[k] \in Slots /\ p \in BOOLEAN
      BY <2>2
    <2>5. todo'[i] \in Items
      BY <2>3, <2>4 DEF Items
    <2>6. ~todo'[i].store
      BY <2>3
    <2> QED
      BY <2>5, <2>6
  <1>6. todo' \in Seq(Items) /\ Len(todo') = Len(ks)
    BY <1>3, <1>5
  <1>7. /\ queue' \in Seq(Keys) /\ waiting' \in [Keys -> FrameOrNone]
        /\ QueueAgrees' /\ GroupAgrees' /\ LatestKept'
    BY <1>1, ReleaseInv
  <1>8. messages' \in 0 .. MaxMessages
    BY ReceiveCounts DEF ShowFrames
  <1>9. TypeOK'
    BY <1>1, <1>6, <1>7, <1>8 DEF TypeOK, Items, Inv
  <1>10. InHand' /\ FramesStayWhole'
    BY <1>1, <1>5, <1>6 DEF InHand, FramesStayWhole, Inv
  <1> QED
    BY <1>7, <1>9, <1>10 DEF Inv

LEMMA StoreFrameInv ==
  ASSUME Inv, NEW s \in Slots, StoreFrame(s)
  PROVE  Inv'
  <1>1. /\ UNCHANGED <<on, queue, waiting, group, wire, bus, panel, desyncs, hold, pipNext,
                       rewritten, gaveUp>>
        /\ \A k \in Keys : on[k].view # s
    BY DEF StoreFrame, pushes, written
  <1>2. PICK item \in Items : item = [store |-> TRUE, key |-> 0, slot |-> s, pip |-> FALSE]
    BY BufferNumbers DEF Items
  <1>3. todo' = <<item>> /\ item.store /\ item.slot = s
    BY <1>2 DEF StoreFrame
  <1>4. todo' \in Seq(Items) /\ Len(todo') = 1 /\ todo'[1] = item
    BY <1>3
  <1>5. messages' \in 0 .. MaxMessages
    BY ReceiveCounts DEF StoreFrame
  <1>6. TypeOK'
    BY <1>1, <1>4, <1>5 DEF TypeOK, Items, Inv
  <1>7. QueueAgrees' /\ GroupAgrees' /\ LatestKept' /\ FramesStayWhole'
    BY <1>1 DEF QueueAgrees, GroupAgrees, LatestKept, LastComing, Touched, FramesStayWhole, Inv
  <1>8. InHand'
    BY <1>1, <1>3, <1>4 DEF InHand
  <1> QED
    BY <1>6, <1>7, <1>8 DEF Inv

-----------------------------------------------------------------------------
(* The next group: a desynced one goes to the front of the queue again,    *)
(* where no newer frame waits, and then the oldest keys are sent.          *)
LEMMA ServiceInv ==
  ASSUME Inv, Service
  PROVE  Inv'
  <1>1. UNCHANGED <<on, panel, hold, todo, pipNext, rewritten, gaveUp, messages, desyncs>>
        /\ bus # "sending"
    BY DEF Service, written
  <1>2. /\ queue \in Seq(Keys) /\ Once(queue) /\ waiting \in [Keys -> FrameOrNone]
        /\ group \in Seq(Keys) /\ Once(group) /\ wire \in [Keys -> FrameOrNone]
        /\ \A k \in Keys : waiting[k] # None <=> k \in ToSet(queue)
        /\ \A k \in Keys : wire[k] # None <=> k \in ToSet(group)
        /\ (bus = "free" => group = <<>>) /\ bus \in {"free", "sending", "sent", "desynced"}
    BY QueueOnce DEF Inv, TypeOK, QueueAgrees, GroupAgrees
  <1>3. PICK q, w : /\ q \in Seq(Keys) /\ Once(q) /\ w \in [Keys -> FrameOrNone]
                    /\ \A k \in Keys : w[k] # None <=> k \in ToSet(q)
                    /\ \A k \in Keys : LastComing(k) = IF w[k] # None THEN w[k] ELSE panel[k]
                    /\ StartGroup(q, w)
    <2>1. CASE bus = "desynced"
      <3>1. PICK S \in SUBSET Keys : S = {k \in Keys : waiting[k] = None}
        OBVIOUS
      <3>2. PICK again : again = Only(group, S)
        OBVIOUS
      <3>3. again \in Seq(Keys) /\ Once(again) /\ ToSet(again) = ToSet(group) \intersect S
        BY <1>2, <3>2, OnlyStay
      <3>4. ToSet(again) \intersect ToSet(queue) = {}
        BY <1>2, <3>1, <3>3
      <3>5. PICK q : q = again \o queue
        OBVIOUS
      <3>6. q \in Seq(Keys) /\ Once(q) /\ ToSet(q) = ToSet(again) \union ToSet(queue)
        BY <1>2, <3>3, <3>4, <3>5, Joined
      <3>7. PICK w : w = Requeued
        OBVIOUS
      <3>8. \A k \in Keys : w[k] = IF k \in ToSet(group) /\ waiting[k] = None THEN wire[k]
                                   ELSE waiting[k]
        BY <3>7 DEF Requeued
      <3>9. w \in [Keys -> FrameOrNone]
        BY <1>2, <3>7 DEF Requeued
      <3>10. \A k \in Keys : w[k] # None <=> k \in ToSet(q)
        BY <1>2, <3>1, <3>3, <3>6, <3>8
      <3>11. \A k \in Keys : LastComing(k) = IF w[k] # None THEN w[k] ELSE panel[k]
        BY <1>2, <2>1, <3>8 DEF LastComing
      <3>12. StartGroup(q, w)
        BY <2>1, <3>1, <3>2, <3>5, <3>7 DEF Service
      <3> QED
        BY <3>6, <3>9, <3>10, <3>11, <3>12
    <2>2. CASE bus # "desynced"
      <3>1. StartGroup(queue, waiting)
        BY <2>2 DEF Service
      <3>2. ASSUME NEW k \in Keys
            PROVE  LastComing(k) = IF waiting[k] # None THEN waiting[k] ELSE panel[k]
        <4>1. CASE bus = "sent"
          BY <4>1 DEF LastComing
        <4>2. CASE bus = "free"
          <5>1. ToSet(group) = {}
            BY <1>2, <4>2 DEF ToSet
          <5>2. wire[k] = None
            BY <1>2, <5>1
          <5> QED
            BY <5>2 DEF LastComing
        <4> QED
          BY <1>1, <1>2, <2>2, <4>1, <4>2
      <3> QED
        BY <1>2, <3>1, <3>2
    <2> QED
      BY <2>1, <2>2
  <1>4. /\ queue' \in Seq(Keys) /\ Once(queue') /\ waiting' \in [Keys -> FrameOrNone]
        /\ group' \in Seq(Keys) /\ Once(group') /\ Len(group') <= MaxGroup
        /\ wire' \in [Keys -> FrameOrNone]
        /\ \A k \in Keys : waiting'[k] # None <=> k \in ToSet(queue')
        /\ \A k \in Keys : wire'[k] # None <=> k \in ToSet(group')
        /\ \A k \in Keys : \/ waiting'[k] = w[k] /\ wire'[k] = None
                           \/ waiting'[k] = None /\ wire'[k] = w[k]
        /\ bus' \in {"free", "sending"} /\ (bus' = "free" <=> group' = <<>>)
    BY <1>3, StartKeeps
  <1>5. QueueAgrees'
    <2>1. DOMAIN queue' = 1 .. Len(queue')
      BY <1>4
    <2>2. \A i, j \in 1 .. Len(queue') : queue'[i] = queue'[j] => i = j
      BY <1>4, <2>1 DEF Once
    <2> QED
      BY <1>4, <2>2 DEF QueueAgrees
  <1>6. LatestKept'
    <2> SUFFICES ASSUME NEW k \in Keys, k \notin Touched'
                 PROVE  LastComing(k)' = on'[k]
      BY DEF LatestKept
    <2>1. k \notin Touched /\ on'[k] = on[k] /\ panel'[k] = panel[k]
      BY <1>1 DEF Touched
    <2>2. on[k] = IF w[k] # None THEN w[k] ELSE panel[k]
      BY <1>3, <2>1 DEF Inv, LatestKept
    <2>3. bus' # "sent"
      BY <1>4
    <2> QED
      BY <1>4, <2>1, <2>2, <2>3 DEF LastComing
  <1>7. TypeOK'
    BY <1>1, <1>4 DEF TypeOK, Inv
  <1>8. GroupAgrees' /\ InHand' /\ FramesStayWhole'
    BY <1>1, <1>4 DEF GroupAgrees, InHand, FramesStayWhole, Inv
  <1> QED
    BY <1>5, <1>6, <1>7, <1>8 DEF Inv

(* The group is sent, or a follower loses the clock.                       *)
LEMMA SentInv ==
  ASSUME Inv, Sent
  PROVE  Inv'
  <1>1. /\ UNCHANGED <<on, queue, waiting, group, wire, hold, todo, pipNext, rewritten, gaveUp,
                       messages, desyncs>>
        /\ bus = "sending" /\ bus' = "sent"
        /\ panel' = [k \in Keys |-> IF wire[k] # None THEN wire[k] ELSE panel[k]]
    BY DEF Sent, written
  <1>2. panel' \in [Keys -> FrameOrNone]
    BY <1>1 DEF Inv, TypeOK
  <1>3. LatestKept'
    BY <1>1 DEF LatestKept, LastComing, Touched, Inv
  <1>4. TypeOK' /\ QueueAgrees' /\ GroupAgrees' /\ InHand' /\ FramesStayWhole'
    BY <1>1, <1>2 DEF TypeOK, QueueAgrees, GroupAgrees, InHand, FramesStayWhole, Inv
  <1> QED
    BY <1>3, <1>4 DEF Inv

LEMMA DesyncInv ==
  ASSUME Inv, Desync
  PROVE  Inv'
  <1>1. /\ UNCHANGED <<on, queue, waiting, group, wire, hold, todo, pipNext, rewritten, gaveUp,
                       messages>>
        /\ bus = "sending" /\ bus' = "desynced" /\ desyncs' \in 0 .. MaxDesyncs
    BY PushAssumption DEF Desync, written, Inv, TypeOK
  <1>2. PICK whole \in SUBSET ToSet(group) :
          panel' = [k \in Keys |-> IF k \in whole THEN wire[k]
                                   ELSE IF wire[k] # None THEN None ELSE panel[k]]
    BY DEF Desync
  <1>3. panel' \in [Keys -> FrameOrNone]
    BY <1>2 DEF Inv, TypeOK, FrameOrNone
  <1>4. \A k \in Keys : wire[k] = None => panel'[k] = panel[k]
    BY <1>2 DEF Inv, QueueAgrees
  <1>5. LatestKept'
    BY <1>1, <1>4 DEF LatestKept, LastComing, Touched, Inv
  <1>6. TypeOK' /\ QueueAgrees' /\ GroupAgrees' /\ InHand' /\ FramesStayWhole'
    BY <1>1, <1>3 DEF TypeOK, QueueAgrees, GroupAgrees, InHand, FramesStayWhole, Inv
  <1> QED
    BY <1>5, <1>6 DEF Inv

-----------------------------------------------------------------------------
(* The item in hand is done, and the ones that are left are of its kind.   *)
LEMMA ItemDone ==
  ASSUME Inv, todo # <<>>, todo' = Tail(todo), hold' = hold
  PROVE  /\ todo \in Seq(Items) /\ todo[1] \in Items
         /\ todo' \in Seq(Items) /\ InHand'
         /\ ~todo[1].store => hold = None
         /\ todo[1].store => \A k \in Keys : on[k].view # todo[1].slot
  <1>1. todo \in Seq(Items)
    BY DEF Inv, TypeOK, Items
  <1>2. /\ Len(todo) \in Nat /\ Len(todo) >= 1 /\ todo[1] \in Items
        /\ todo' \in Seq(Items) /\ Len(todo') = Len(todo) - 1
        /\ \A i \in 1 .. Len(todo) - 1 : todo'[i] = todo[i + 1]
    BY <1>1
  <1>3. 1 \in 1 .. Len(todo)
    BY <1>2
  <1>4. CASE (\A i \in 1 .. Len(todo) : ~todo[i].store) /\ hold = None
    <2>1. ASSUME NEW i \in 1 .. Len(todo')
          PROVE  ~todo'[i].store
      <3>1. i \in 1 .. Len(todo) - 1 /\ i + 1 \in 1 .. Len(todo)
        BY <1>2
      <3> QED
        BY <1>2, <1>4, <3>1
    <2>2. InHand'
      BY <1>4, <2>1 DEF InHand
    <2> QED
      BY <1>1, <1>2, <1>3, <1>4, <2>2
  <1>5. CASE Len(todo) = 1 /\ todo[1].store /\ \A k \in Keys : on[k].view # todo[1].slot
    <2>1. todo' = <<>> /\ 1 .. Len(todo') = {}
      BY <1>2, <1>5
    <2>2. InHand'
      BY <2>1 DEF InHand
    <2> QED
      BY <1>1, <1>2, <1>5, <2>2
  <1> QED
    BY <1>4, <1>5 DEF InHand, Inv

(* A Show of a cached frame, which the panel reads from its slot.          *)
LEMMA ShowSlotInv ==
  ASSUME Inv, ShowSlot
  PROVE  Inv'
  <1>1. /\ UNCHANGED <<group, wire, bus, panel, desyncs, hold, pipNext, rewritten, gaveUp,
                       messages>>
        /\ todo # <<>> /\ todo' = Tail(todo)
    BY DEF ShowSlot, written
  <1>2. PICK item \in Items : item = todo[1]
    BY <1>1, ItemDone
  <1>3. PICK k \in Keys : k = item.key
    BY <1>2 DEF Items
  <1>4. item.slot \in Buffers \union {Own}
    BY BufferNumbers DEF Items
  <1>5. PICK f \in Frames : on' = [on EXCEPT ![k] = f] /\ Submit({k}, on')
    <2>1. PICK f : f = [n |-> on[k].n + 1, view |-> item.slot]
      OBVIOUS
    <2>2. f \in Frames
      BY <1>4, <2>1, FramesMade DEF Inv, TypeOK
    <2>3. on' = [on EXCEPT ![k] = f] /\ Submit({k}, on')
      BY <1>2, <1>3, <2>1 DEF ShowSlot, Shown
    <2> QED
      BY <2>2, <2>3
  <1>6. on' \in [Keys -> Frames]
    BY <1>5 DEF Inv, TypeOK
  <1>7. \A j \in Keys \ {k} : j \notin Touched' => j \notin Touched /\ on'[j] = on[j]
    BY <1>1, <1>5 DEF Touched, Inv, TypeOK
  <1>8. /\ queue' \in Seq(Keys) /\ waiting' \in [Keys -> FrameOrNone]
        /\ QueueAgrees' /\ GroupAgrees' /\ LatestKept'
    <2>1. PICK S \in SUBSET Keys : S = {k}
      OBVIOUS
    <2> QED
      BY <1>1, <1>5, <1>6, <1>7, <2>1, SubmitLatest
  <1>9. todo' \in Seq(Items) /\ InHand'
    BY <1>1, ItemDone
  <1>10. TypeOK'
    BY <1>1, <1>6, <1>8, <1>9 DEF TypeOK, Items, Inv
  <1>11. FramesStayWhole'
    BY <1>1 DEF FramesStayWhole, Inv
  <1> QED
    BY <1>8, <1>9, <1>10, <1>11 DEF Inv

(* Bytes that are written into a buffer that is not in use: no frame that  *)
(* will still be read from it, when no batch has one to draw.              *)
LEMMA WritesWhole ==
  ASSUME Inv, NEW view, Wait(view), Write(view), \A k \in Touched : on[k].view # view
  PROVE  FramesStayWhole' /\ rewritten' \in SUBSET Keys /\ gaveUp' \in BOOLEAN
  <1>1. ASSUME ~gaveUp'
        PROVE  rewritten' = {}
    <2>1. ~gaveUp /\ ~InUse(view)
      BY <1>1 DEF Wait
    <2>2. rewritten = {}
      BY <2>1 DEF FramesStayWhole, Inv
    <2>3. \A k \in Keys : view \notin Due(k)
      BY <2>1 DEF Due, InUse
    <2> QED
      BY <2>2, <2>3 DEF Write
  <1>2. rewritten' \in SUBSET Keys
    BY DEF Write, Inv, TypeOK
  <1>3. gaveUp' \in BOOLEAN
    BY Zenon DEF Wait
  <1> QED
    BY <1>1, <1>2, <1>3 DEF FramesStayWhole

(* A Show with a count: the frame is composed in the next pip buffer of    *)
(* the key, when nothing reads from it.                                    *)
LEMMA ShowPipInv ==
  ASSUME Inv, ShowPip
  PROVE  Inv'
  <1>1. /\ UNCHANGED <<group, wire, bus, panel, desyncs, hold, messages>>
        /\ todo # <<>> /\ todo' = Tail(todo) /\ ~todo[1].store
    BY DEF ShowPip
  <1>2. PICK item \in Items : item = todo[1]
    BY <1>1, ItemDone
  <1>3. PICK k \in Keys : k = item.key
    BY <1>2 DEF Items
  <1>4. PICK view \in Buffers : view = PipBuffer(k, pipNext[k])
    BY BufferNumbers DEF Inv, TypeOK
  <1>5. PICK f \in Frames : on' = [on EXCEPT ![k] = f] /\ Submit({k}, on')
    <2>1. PICK f : f = [n |-> on[k].n + 1, view |-> view]
      OBVIOUS
    <2>2. f \in Frames
      BY <2>1, FramesMade DEF Inv, TypeOK
    <2>3. on' = [on EXCEPT ![k] = f] /\ Submit({k}, on')
      BY <1>2, <1>3, <1>4, <2>1 DEF ShowPip, Shown
    <2> QED
      BY <2>2, <2>3
  <1>6. Wait(view) /\ Write(view) /\ pipNext' = [pipNext EXCEPT ![k] = 1 - @]
    BY <1>2, <1>3, <1>4 DEF ShowPip
  <1>7. pipNext' \in [Keys -> {0, 1}]
    <2>1. PICK next \in {0, 1} : next = 1 - pipNext[k]
      BY DEF Inv, TypeOK
    <2> QED
      BY <1>6, <2>1 DEF Inv, TypeOK
  <1>8. on' \in [Keys -> Frames]
    BY <1>5 DEF Inv, TypeOK
  <1>9. \A j \in Keys \ {k} : j \notin Touched' => j \notin Touched /\ on'[j] = on[j]
    BY <1>1, <1>5 DEF Touched, Inv, TypeOK
  <1>10. /\ queue' \in Seq(Keys) /\ waiting' \in [Keys -> FrameOrNone]
         /\ QueueAgrees' /\ GroupAgrees' /\ LatestKept'
    <2>1. PICK S \in SUBSET Keys : S = {k}
      OBVIOUS
    <2> QED
      BY <1>1, <1>5, <1>8, <1>9, <2>1, SubmitLatest
  <1>11. todo' \in Seq(Items) /\ InHand' /\ hold = None
    BY <1>1, ItemDone
  <1>12. Touched = {}
    BY <1>11 DEF Touched
  <1>13. FramesStayWhole' /\ rewritten' \in SUBSET Keys /\ gaveUp' \in BOOLEAN
    BY <1>6, <1>12, WritesWhole
  <1>14. TypeOK'
    BY <1>1, <1>7, <1>8, <1>10, <1>11, <1>13 DEF TypeOK, Items, Inv
  <1> QED
    BY <1>10, <1>11, <1>13, <1>14 DEF Inv

(* A store into a slot: no key shows it, and nothing reads from it.        *)
LEMMA StoreInv ==
  ASSUME Inv, Store
  PROVE  Inv'
  <1>1. /\ UNCHANGED <<on, queue, waiting, group, wire, bus, panel, desyncs, hold, pipNext,
                       messages>>
        /\ todo # <<>> /\ todo' = Tail(todo) /\ todo[1].store
    BY DEF Store, pushes
  <1>2. /\ todo' \in Seq(Items) /\ InHand'
        /\ \A k \in Keys : on[k].view # todo[1].slot
    BY <1>1, ItemDone
  <1>3. \A k \in Touched : k \in Keys
    BY DEF Touched, Holds, Inv, TypeOK
  <1>4. PICK s : s = todo[1].slot
    OBVIOUS
  <1>5. Wait(s) /\ Write(s)
    BY <1>4 DEF Store
  <1>6. FramesStayWhole' /\ rewritten' \in SUBSET Keys /\ gaveUp' \in BOOLEAN
    BY <1>2, <1>3, <1>4, <1>5, WritesWhole
  <1>7. TypeOK'
    BY <1>1, <1>2, <1>6 DEF TypeOK, Items, Inv
  <1>8. QueueAgrees' /\ GroupAgrees' /\ LatestKept'
    BY <1>1 DEF QueueAgrees, GroupAgrees, LatestKept, LastComing, Touched, Inv
  <1> QED
    BY <1>2, <1>6, <1>7, <1>8 DEF Inv

-----------------------------------------------------------------------------
(* The first pass of the loop, and every step after it.                    *)
LEMMA InitInv ==
  ASSUME Init
  PROVE  Inv
  <1>1. on \in [Keys -> Frames] /\ \A k \in Keys : on[k] # None
    BY NoneAssumption DEF Init, Frames
  <1>2. queue \in Seq(Keys) /\ Once(queue) /\ ToSet(queue) = Keys
    <2>1. PICK S \in SUBSET Keys : S = Keys
      OBVIOUS
    <2> QED
      BY <2>1, KeysListed DEF Init
  <1>3. None \in FrameOrNone /\ waiting \in [Keys -> FrameOrNone]
    BY <1>1 DEF Init, FrameOrNone
  <1>4. TypeOK
    <2>1. wire \in [Keys -> FrameOrNone] /\ panel \in [Keys -> FrameOrNone]
      BY <1>3 DEF Init
    <2>2. group \in Seq(Keys) /\ todo \in Seq(Items) /\ hold \in Holds \union {None}
      BY DEF Init
    <2>3. messages \in 0 .. MaxMessages /\ desyncs \in 0 .. MaxDesyncs
      BY PushAssumption DEF Init
    <2>4. /\ pipNext \in [Keys -> {0, 1}] /\ rewritten \subseteq Keys /\ gaveUp \in BOOLEAN
          /\ bus \in {"free", "sending", "sent", "desynced"}
      BY DEF Init
    <2> QED
      BY <1>1, <1>2, <1>3, <2>1, <2>2, <2>3, <2>4 DEF TypeOK, Items
  <1>5. QueueAgrees
    <2>1. DOMAIN queue = 1 .. Len(queue)
      BY <1>2
    <2>2. \A i, j \in 1 .. Len(queue) : queue[i] = queue[j] => i = j
      BY <1>2, <2>1 DEF Once
    <2>3. ToSet(group) = {} /\ Len(group) = 0 /\ 0 <= MaxGroup
      BY PushAssumption DEF Init, ToSet
    <2> QED
      BY <1>1, <1>2, <2>2, <2>3 DEF Init, QueueAgrees
  <1>6. LatestKept
    <2>1. waiting = on
      BY DEF Init
    <2> QED
      BY <1>1, <2>1 DEF LatestKept, LastComing
  <1>7. GroupAgrees /\ InHand /\ FramesStayWhole
    <2>1. 1 .. Len(todo) = {} /\ DOMAIN group = {}
      BY DEF Init
    <2> QED
      BY <2>1 DEF Init, GroupAgrees, Once, InHand, FramesStayWhole
  <1> QED
    BY <1>4, <1>5, <1>6, <1>7 DEF Inv

(* Every step keeps the invariant.                                         *)
LEMMA StepInv ==
  ASSUME Inv, [Next]_vars
  PROVE  Inv'
  <1>1. CASE Message
    <2>1. ASSUME NEW k \in Keys, RenderKey(k) \/ PrepareKey(k)
          PROVE  Inv'
      BY <2>1, RenderInv, PrepareInv
    <2>2. ASSUME NEW held \in SUBSET Keys, BeginBatch(held)
          PROVE  Inv'
      BY <2>2, BeginInv
    <2>3. ASSUME NEW named \in SUBSET Keys, NEW slots \in [named -> Slots],
                 NEW pips \in SUBSET named, ShowFrames(named, slots, pips)
          PROVE  Inv'
      BY <2>3, ShowFramesInv
    <2>4. ASSUME NEW s \in Slots, StoreFrame(s)
          PROVE  Inv'
      BY <2>4, StoreFrameInv
    <2> QED
      BY <1>1, <2>1, <2>2, <2>3, <2>4 DEF Message
  <1>2. CASE ReleaseBatch
    BY <1>2, ReleaseBatchInv
  <1>3. CASE Work
    BY <1>3, ServiceInv, ShowSlotInv, ShowPipInv, StoreInv DEF Work
  <1>4. CASE Bus
    BY <1>4, SentInv, DesyncInv DEF Bus
  <1>5. CASE UNCHANGED vars
    BY <1>5 DEF vars, pushes, written, Inv, TypeOK, QueueAgrees, GroupAgrees, LatestKept,
                LastComing, Touched, InHand, FramesStayWhole
  <1> QED
    BY <1>1, <1>2, <1>3, <1>4, <1>5 DEF Next

(* A key waits at most once and with a frame, a group is at most MaxGroup  *)
(* keys that have one, and the last frame that is on its way to the panel  *)
(* of a key is the frame it must show, unless an open batch draws it:      *)
(* nothing that _submit_push, _start_group, _requeue_active_group and      *)
(* _begin_batch do in any order loses the newest frame of a key.           *)
THEOREM LatestIsAlwaysComing == Spec => []LatestIsComing
  <1>1. Inv => LatestIsComing
    BY DEF Inv, LatestKept, LatestIsComing
  <1> QED
    BY <1>1, InitInv, StepInv, PTL DEF Spec

(* Unless a wait for a push gave up, the bytes that a frame is read from   *)
(* do not change between its draw and its push (_wait_for_view), not those *)
(* that a group sends again after a desync, and not those that an open     *)
(* batch will draw (_store_frame, _pip_frame).                             *)
THEOREM FramesAlwaysStayWhole == Spec => []FramesStayWhole
  <1>1. Inv => FramesStayWhole
    BY DEF Inv
  <1> QED
    BY <1>1, InitInv, StepInv, PTL DEF Spec
-----------------------------------------------------------------------------
(* Messages of a layer change.                                             *)
LEMMA DataKinds ==
  ASSUME NEW m \in DataMsgs
  PROVE  /\ m.key \in Keys /\ m \notin BatchMsgs
         /\ \/ m.t = "glyph" /\ m.glyph \in Versions
            \/ m.t = "state" /\ m.state \in Versions /\ m.custom \in BOOLEAN /\ m \in StateMsgs
<1>1. CASE m \in StateMsgs
  <2>1. PICK k \in Keys, n \in Versions, c \in BOOLEAN : m = StateMsg(k, n, c)
    BY <1>1 DEF StateMsgs
  <2>2. m.t = "state" /\ m.key = k /\ m.state = n /\ m.custom = c
    BY <2>1 DEF StateMsg
  <2>. QED BY <1>1, <2>2 DEF BatchMsgs, BatchMsg
<1>2. CASE \E k \in Keys, n \in Versions : m = GlyphMsg(k, n)
  <2>1. PICK k \in Keys, n \in Versions : m = GlyphMsg(k, n)
    BY <1>2
  <2>2. m.t = "glyph" /\ m.key = k /\ m.glyph = n
    BY <2>1 DEF GlyphMsg
  <2>. QED BY <2>2 DEF BatchMsgs, BatchMsg
<1>. QED BY <1>1, <1>2 DEF DataMsgs

LEMMA BatchKinds ==
  ASSUME NEW m \in BatchMsgs
  PROVE  /\ m.t = "batch" /\ m.n \in Versions
         /\ m.glyphs \in SUBSET Keys /\ m.states \in SUBSET Keys
BY DEF BatchMsgs, BatchMsg

(* The numbers of the glyphs and key states of some keys, listed.          *)
Lists(p, g, s) ==
  /\ \E n \in Nat : DOMAIN p = 1 .. n
  /\ \A i \in DOMAIN p : \/ OfGlyph(p[i]) /\ KeyOf(p[i]) \in g
                         \/ ~OfGlyph(p[i]) /\ KeyOf(p[i]) \in s
  /\ \A k \in g : \E i \in DOMAIN p : OfGlyph(p[i]) /\ KeyOf(p[i]) = k
  /\ \A k \in s : \E i \in DOMAIN p : ~OfGlyph(p[i]) /\ KeyOf(p[i]) = k

LEMMA PartsListed ==
  ASSUME NEW g \in SUBSET Keys, NEW s \in SUBSET Keys
  PROVE  Lists(InOrder(Parts(g, s)), g, s)
<1>1. /\ \A k \in Keys : k \in Int
      /\ \A k \in Int : /\ OfGlyph(2 * k) /\ KeyOf(2 * k) = k
                        /\ ~OfGlyph(2 * k + 1) /\ KeyOf(2 * k + 1) = k
  BY BatchAssumption DEF Keys, OfGlyph, KeyOf
<1>2. IsFiniteSet(g) /\ IsFiniteSet(s)
  <2>1. IsFiniteSet(Keys)
    BY BatchAssumption, FS_Interval DEF Keys
  <2>. QED BY <2>1, FS_Subset
<1>3. Parts(g, s) \in SUBSET Int
  <2>1. ASSUME NEW x \in Parts(g, s)
        PROVE  x \in Int
    BY <1>1 DEF Parts
  <2>. QED BY <2>1
<1>4. IsFiniteSet(Parts(g, s))
  <2>1. IsFiniteSet({2 * k : k \in g}) /\ IsFiniteSet({2 * k + 1 : k \in s})
    <3>1. PICK f : f = [k \in g |-> 2 * k]
      OBVIOUS
    <3>2. PICK h : h = [k \in s |-> 2 * k + 1]
      OBVIOUS
    <3>3. PICK A : A = {2 * k : k \in g}
      OBVIOUS
    <3>4. PICK B : B = {2 * k + 1 : k \in s}
      OBVIOUS
    <3>5. f \in Surjection(g, A)
      BY <3>1, <3>3 DEF Surjection
    <3>6. h \in Surjection(s, B)
      BY <3>2, <3>4 DEF Surjection
    <3>. QED BY <1>2, <3>3, <3>4, <3>5, <3>6, FS_Surjection
  <2>. QED BY <2>1, FS_Union DEF Parts
<1>5. PICK n \in Nat : n = Cardinality(Parts(g, s))
  BY <1>4, FS_CardinalityType
<1>6. PICK p : p = InOrder(Parts(g, s))
  OBVIOUS
<1>7. p \in [1 .. n -> Parts(g, s)] /\ ToSet(p) = Parts(g, s)
  BY <1>3, <1>4, <1>5, <1>6, InOrderLists
<1>8. ASSUME NEW i \in 1 .. n
      PROVE  \/ OfGlyph(p[i]) /\ KeyOf(p[i]) \in g
             \/ ~OfGlyph(p[i]) /\ KeyOf(p[i]) \in s
  <2>1. p[i] \in Parts(g, s)
    BY <1>7
  <2>. QED BY <1>1, <2>1 DEF Parts
<1>9. ASSUME NEW x \in Parts(g, s)
      PROVE  \E i \in 1 .. n : p[i] = x
  BY <1>7, <1>9 DEF ToSet
<1>10. ASSUME NEW k \in g
       PROVE  \E i \in 1 .. n : OfGlyph(p[i]) /\ KeyOf(p[i]) = k
  <2>1. 2 * k \in Parts(g, s)
    BY DEF Parts
  <2>. QED BY <1>1, <1>9, <2>1
<1>11. ASSUME NEW k \in s
       PROVE  \E i \in 1 .. n : ~OfGlyph(p[i]) /\ KeyOf(p[i]) = k
  <2>1. 2 * k + 1 \in Parts(g, s)
    BY DEF Parts
  <2>. QED BY <1>1, <1>9, <2>1
<1>12. DOMAIN p = 1 .. n
  BY <1>7
<1>. QED BY <1>6, <1>8, <1>10, <1>11, <1>12 DEF Lists

(* A layer change sends the glyph of each key that has one, and the key    *)
(* state of each, and nothing else.                                        *)
Sends(r, keys, glyphs, v) ==
  /\ r \in Seq(DataMsgs)
  /\ \A i \in DOMAIN r : \/ r[i].t = "glyph" /\ r[i].glyph = v
                         \/ /\ r[i].t = "state" /\ r[i].state = v
                            /\ (r[i].custom <=> r[i].key \in glyphs)
  /\ \A k \in glyphs : \E i \in DOMAIN r : r[i].t = "glyph" /\ r[i].key = k
  /\ \A k \in keys : \E i \in DOMAIN r : r[i].t = "state" /\ r[i].key = k

LEMMA CallsHold ==
  ASSUME NEW keys \in SUBSET Keys, NEW glyphs \in SUBSET Keys, NEW v \in Versions
  PROVE  Sends(Calls(keys, glyphs, v), keys, glyphs, v)
<1>1. PICK p : p = InOrder(Parts(glyphs, keys))
  OBVIOUS
<1>2. Lists(p, glyphs, keys)
  BY <1>1, PartsListed
<1>3. PICK q : q = Calls(keys, glyphs, v)
  OBVIOUS
<1>4. DOMAIN q = DOMAIN p /\ q = [i \in DOMAIN p |->
        IF OfGlyph(p[i]) THEN GlyphMsg(KeyOf(p[i]), v)
        ELSE StateMsg(KeyOf(p[i]), v, KeyOf(p[i]) \in glyphs)]
  BY <1>1, <1>3, Zenon DEF Calls
<1>5. ASSUME NEW i \in DOMAIN p
      PROVE  /\ q[i] \in DataMsgs
             /\ \/ q[i].t = "glyph" /\ q[i].glyph = v
                \/ q[i].t = "state" /\ q[i].state = v /\ (q[i].custom <=> q[i].key \in glyphs)
  <2>1. CASE OfGlyph(p[i])
    <3>1. q[i] = GlyphMsg(KeyOf(p[i]), v) /\ KeyOf(p[i]) \in Keys
      BY <1>2, <1>4, <2>1 DEF Lists
    <3>. QED BY <3>1 DEF DataMsgs, GlyphMsg
  <2>2. CASE ~OfGlyph(p[i])
    <3>1. PICK k \in Keys : q[i] = StateMsg(k, v, k \in glyphs)
      BY <1>2, <1>4, <2>2 DEF Lists
    <3>2. PICK c \in BOOLEAN : c = (k \in glyphs)
      <4>1. CASE k \in glyphs
        <5>1. TRUE = (k \in glyphs)
          BY <4>1
        <5>. QED BY <5>1
      <4>2. CASE k \notin glyphs
        <5>1. FALSE = (k \in glyphs)
          BY <4>2
        <5>. QED BY <5>1
      <4>. QED BY <4>1, <4>2
    <3>3. q[i] = StateMsg(k, v, c)
      BY <3>1, <3>2
    <3>4. q[i] \in DataMsgs
      BY <3>3 DEF DataMsgs, StateMsgs
    <3>5. q[i].t = "state" /\ q[i].state = v /\ q[i].key = k /\ q[i].custom = c
      BY <3>3 DEF StateMsg
    <3>. QED BY <3>2, <3>4, <3>5, Zenon
  <2>. QED BY <2>1, <2>2
<1>6. q \in Seq(DataMsgs)
  BY <1>2, <1>4, <1>5 DEF Lists
<1>7. ASSUME NEW k \in glyphs
      PROVE  \E i \in DOMAIN q : q[i].t = "glyph" /\ q[i].key = k
  <2>1. PICK i \in DOMAIN q : q[i] = GlyphMsg(k, v)
    BY <1>2, <1>4 DEF Lists
  <2>. QED BY <2>1 DEF GlyphMsg
<1>8. ASSUME NEW k \in keys
      PROVE  \E i \in DOMAIN q : q[i].t = "state" /\ q[i].key = k
  <2>1. PICK i \in DOMAIN q : q[i] = StateMsg(k, v, k \in glyphs)
    BY <1>2, <1>4 DEF Lists
  <2>. QED BY <2>1 DEF StateMsg
<1>. QED BY <1>3, <1>4, <1>5, <1>6, <1>7, <1>8 DEF Sends

(* An answer sends, of the keys that a Batch incomplete names, what is     *)
(* remembered of them, and nothing else.                                   *)
Says(r, g, s) ==
  /\ r \in Seq(DataMsgs)
  /\ \A i \in DOMAIN r :
       /\ r[i].key \in Keys /\ memory[r[i].key] # None
       /\ \/ r[i].t = "glyph" /\ r[i].glyph = memory[r[i].key].glyph /\ r[i].glyph # None
          \/ /\ r[i].t = "state" /\ r[i].state = memory[r[i].key].state
             /\ r[i].custom = memory[r[i].key].custom
  /\ \A k \in g : memory[k] # None /\ memory[k].glyph # None =>
       \E i \in DOMAIN r : r[i].t = "glyph" /\ r[i].key = k
  /\ \A k \in s : memory[k] # None => \E i \in DOMAIN r : r[i].t = "state" /\ r[i].key = k

LEMMA AnswersHold ==
  ASSUME BatchTypeOK, NEW g \in SUBSET Keys, NEW s \in SUBSET Keys
  PROVE  Says(AnswersWith(g, s), g, s)
<1>1. PICK G : G = {k \in g : memory[k] # None /\ memory[k].glyph # None}
  OBVIOUS
<1>2. PICK S : S = {k \in s : memory[k] # None}
  OBVIOUS
<1>3. G \in SUBSET Keys /\ S \in SUBSET Keys
  BY <1>1, <1>2
<1>4. PICK p : p = InOrder(Parts(G, S))
  OBVIOUS
<1>5. Lists(p, G, S)
  BY <1>3, <1>4, PartsListed
<1>6. PICK q : q = AnswersWith(g, s)
  OBVIOUS
<1>7. DOMAIN q = DOMAIN p /\ q = [i \in DOMAIN p |->
        IF OfGlyph(p[i]) THEN GlyphMsg(KeyOf(p[i]), memory[KeyOf(p[i])].glyph)
        ELSE StateMsg(KeyOf(p[i]), memory[KeyOf(p[i])].state, memory[KeyOf(p[i])].custom)]
  BY <1>1, <1>2, <1>4, <1>6, Zenon DEF AnswersWith
<1>8. \A k \in Keys : memory[k] \in KeyStates \union {None}
  BY DEF BatchTypeOK
<1>9. ASSUME NEW i \in DOMAIN p
      PROVE  /\ q[i] \in DataMsgs
             /\ q[i].key \in Keys /\ memory[q[i].key] # None
             /\ \/ /\ q[i].t = "glyph" /\ q[i].glyph = memory[q[i].key].glyph /\ q[i].glyph # None
                \/ /\ q[i].t = "state" /\ q[i].state = memory[q[i].key].state
                   /\ q[i].custom = memory[q[i].key].custom
  <2>1. CASE OfGlyph(p[i])
    <3>1. PICK k \in Keys : /\ q[i] = GlyphMsg(k, memory[k].glyph)
                            /\ memory[k] # None /\ memory[k].glyph # None
      BY <1>1, <1>3, <1>5, <1>7, <2>1 DEF Lists
    <3>2. memory[k].glyph \in Versions
      BY <1>8, <3>1 DEF KeyStates
    <3>3. q[i] \in DataMsgs
      BY <3>1, <3>2 DEF DataMsgs
    <3>4. q[i].t = "glyph" /\ q[i].key = k /\ q[i].glyph = memory[k].glyph
      BY <3>1 DEF GlyphMsg
    <3>. QED BY <3>1, <3>3, <3>4
  <2>2. CASE ~OfGlyph(p[i])
    <3>1. PICK k \in Keys : /\ q[i] = StateMsg(k, memory[k].state, memory[k].custom)
                            /\ memory[k] # None
      BY <1>2, <1>3, <1>5, <1>7, <2>2 DEF Lists
    <3>2. memory[k].state \in Versions /\ memory[k].custom \in BOOLEAN
      BY <1>8, <3>1 DEF KeyStates
    <3>3. q[i] \in DataMsgs
      BY <3>1, <3>2 DEF DataMsgs, StateMsgs
    <3>4. q[i].t = "state" /\ q[i].key = k /\ q[i].state = memory[k].state
          /\ q[i].custom = memory[k].custom
      BY <3>1 DEF StateMsg
    <3>. QED BY <3>1, <3>3, <3>4
  <2>. QED BY <2>1, <2>2
<1>10. q \in Seq(DataMsgs)
  BY <1>5, <1>7, <1>9 DEF Lists
<1>11. ASSUME NEW k \in g, memory[k] # None, memory[k].glyph # None
       PROVE  \E i \in DOMAIN q : q[i].t = "glyph" /\ q[i].key = k
  <2>1. k \in G
    BY <1>1, <1>11
  <2>2. PICK i \in DOMAIN p : OfGlyph(p[i]) /\ KeyOf(p[i]) = k
    BY <1>5, <2>1 DEF Lists
  <2>3. i \in DOMAIN q /\ q[i] = GlyphMsg(k, memory[k].glyph)
    BY <1>7, <2>2
  <2>4. q[i].t = "glyph" /\ q[i].key = k
    BY <2>3 DEF GlyphMsg
  <2>. QED BY <2>3, <2>4
<1>12. ASSUME NEW k \in s, memory[k] # None
       PROVE  \E i \in DOMAIN q : q[i].t = "state" /\ q[i].key = k
  <2>1. k \in S
    BY <1>2, <1>12
  <2>2. PICK i \in DOMAIN p : ~OfGlyph(p[i]) /\ KeyOf(p[i]) = k
    BY <1>5, <2>1 DEF Lists
  <2>3. i \in DOMAIN q
    BY <1>7
  <2>4. q[i] = IF OfGlyph(p[i]) THEN GlyphMsg(KeyOf(p[i]), memory[KeyOf(p[i])].glyph)
               ELSE StateMsg(KeyOf(p[i]), memory[KeyOf(p[i])].state, memory[KeyOf(p[i])].custom)
    BY <1>7
  <2>5. q[i].t = "state" /\ q[i].key = k
    BY <2>2, <2>4 DEF StateMsg
  <2>. QED BY <2>3, <2>5
<1>13. DOMAIN q = DOMAIN p
  BY <1>7
<1>14. Says(q, g, s)
  BY <1>9, <1>10, <1>11, <1>12, <1>13 DEF Says
<1>. QED BY <1>6, <1>14

(* A pass of the board's loop.                                             *)
Ends == {"none", "complete", "late", "replaced"}
Passes == [board : [Keys -> KeyStates], batch : OpenBatches \union {None}, ended : Ends]

LEMMA WithDataType ==
  ASSUME NEW key \in KeyStates, NEW m \in DataMsgs
  PROVE  WithData(key, m) \in KeyStates
<1>1. CASE m.t = "glyph" /\ m.glyph \in Versions
  BY <1>1 DEF WithData, KeyStates
<1>2. CASE m.t = "state" /\ m.state \in Versions /\ m.custom \in BOOLEAN
  BY <1>2 DEF WithData, KeyStates
<1>. QED BY <1>1, <1>2, DataKinds

LEMMA DataReceived ==
  ASSUME NEW p \in Passes, NEW m \in DataMsgs
  PROVE  /\ Received(p, m) \in Passes
         /\ Received(p, m).board = [p.board EXCEPT ![m.key] = WithData(@, m)]
         /\ Received(p, m).ended = p.ended
         /\ p.batch = None => Received(p, m).batch = None
         /\ p.batch # None =>
              /\ Received(p, m).batch # None
              /\ Received(p, m).batch =
                   [p.batch EXCEPT !.glyphs = IF m.t = "glyph" THEN @ \ {m.key} ELSE @,
                                   !.states = IF m.t = "state" THEN @ \ {m.key} ELSE @,
                                   !.quiet = 0]
<1>1. m.key \in Keys /\ (m.t = "glyph" \/ m.t = "state") /\ m.t # "batch"
  BY DataKinds
<1>2. PICK b : b = [p.board EXCEPT ![m.key] = WithData(@, m)]
  OBVIOUS
<1>3. b \in [Keys -> KeyStates]
  <2>1. p.board \in [Keys -> KeyStates]
    BY DEF Passes
  <2>2. WithData(p.board[m.key], m) \in KeyStates
    BY <1>1, <2>1, WithDataType
  <2>. QED BY <1>1, <1>2, <2>1, <2>2
<1>4. PICK q : q = Received(p, m)
  OBVIOUS
<1>5. q = WithMessage(p, m)
  BY <1>1, <1>4 DEF Received
<1>6. CASE p.batch = None
  <2>1. q = [p EXCEPT !.board = b]
    BY <1>2, <1>5, <1>6 DEF WithMessage
  <2>. QED BY <1>2, <1>3, <1>4, <1>6, <2>1 DEF Passes
<1>7. CASE p.batch # None
  <2>1. p.batch \in OpenBatches
    BY <1>7 DEF Passes
  <2>2. q = [p EXCEPT !.board = b,
                      !.batch.glyphs = IF m.t = "glyph" THEN @ \ {m.key} ELSE @,
                      !.batch.states = IF m.t = "state" THEN @ \ {m.key} ELSE @,
                      !.batch.quiet = 0]
    BY <1>2, <1>5, <1>7 DEF WithMessage
  <2>3. PICK o : o = [p.batch EXCEPT !.glyphs = IF m.t = "glyph" THEN @ \ {m.key} ELSE @,
                                     !.states = IF m.t = "state" THEN @ \ {m.key} ELSE @,
                                     !.quiet = 0]
    OBVIOUS
  <2>4. o \in OpenBatches
    <3>1. /\ p.batch.glyphs \in SUBSET Keys /\ p.batch.states \in SUBSET Keys
          /\ 0 \in 0 .. Deadline
      BY <2>1, BatchAssumption DEF OpenBatches
    <3>2. PICK g \in SUBSET Keys : g = (IF m.t = "glyph" THEN p.batch.glyphs \ {m.key}
                                       ELSE p.batch.glyphs)
      BY <3>1
    <3>3. PICK s \in SUBSET Keys : s = (IF m.t = "state" THEN p.batch.states \ {m.key}
                                       ELSE p.batch.states)
      BY <3>1
    <3>4. o = [p.batch EXCEPT !.glyphs = g, !.states = s, !.quiet = 0]
      BY <2>3, <3>2, <3>3
    <3>. QED BY <2>1, <3>1, <3>4 DEF OpenBatches
  <2>5. o # None
    BY <2>4, NothingAssumption
  <2>6. q.board = b /\ q.batch = o /\ q.ended = p.ended /\ q \in Passes
    BY <1>3, <2>1, <2>2, <2>3, <2>4 DEF Passes, OpenBatches
  <2>. QED BY <1>2, <1>4, <1>7, <2>3, <2>5, <2>6
<1>. QED BY <1>6, <1>7

LEMMA BatchReceived ==
  ASSUME NEW p \in Passes, NEW m \in BatchMsgs
  PROVE  /\ Received(p, m) \in Passes
         /\ Received(p, m).board = p.board
         /\ Received(p, m).ended = IF p.batch = None THEN p.ended ELSE "replaced"
         /\ Received(p, m).batch # None
         /\ Received(p, m).batch =
              [glyphs |-> m.glyphs, states |-> m.states, keys |-> m.glyphs \union m.states,
               pictures |-> m.glyphs, n |-> m.n, age |-> 0, quiet |-> 0, nudges |-> 0]
<1>1. m.t = "batch" /\ m.n \in Versions /\ m.glyphs \in SUBSET Keys /\ m.states \in SUBSET Keys
  BY BatchKinds
<1>2. PICK o : o = [glyphs |-> m.glyphs, states |-> m.states, keys |-> m.glyphs \union m.states,
                    pictures |-> m.glyphs, n |-> m.n, age |-> 0, quiet |-> 0, nudges |-> 0]
  OBVIOUS
<1>3. o \in OpenBatches
  BY <1>1, <1>2, BatchAssumption DEF OpenBatches
<1>4. o # None
  BY <1>3, NothingAssumption
<1>5. PICK q : q = Received(p, m)
  OBVIOUS
<1>6. q = [p EXCEPT !.batch = o, !.ended = IF p.batch = None THEN @ ELSE "replaced"]
  BY <1>1, <1>2, <1>5 DEF Received, Opened
<1>7. q.board = p.board /\ q.batch = o
      /\ q.ended = (IF p.batch = None THEN p.ended ELSE "replaced") /\ q \in Passes
  BY <1>3, <1>6 DEF Passes, Ends
<1>. QED BY <1>2, <1>4, <1>5, <1>7

LEMMA PassChecked ==
  ASSUME NEW p \in Passes
  PROVE  /\ Checked(p) \in Passes /\ Checked(p).board = p.board
         /\ Asked(p) \in Seq(Asks)
         /\ \/ /\ ~BatchDue(p.batch) /\ Checked(p) = p /\ Asked(p) = <<>>
            \/ /\ p.batch # None /\ Complete(p.batch) /\ Asked(p) = <<>>
               /\ Checked(p).batch = None /\ Checked(p).ended = "complete"
            \/ /\ p.batch # None /\ ~Complete(p.batch) /\ Late(p.batch) /\ Asked(p) = <<>>
               /\ Checked(p).batch = None /\ Checked(p).ended = "late"
            \/ /\ p.batch # None /\ ~Complete(p.batch) /\ ~Late(p.batch) /\ Quiet(p.batch)
               /\ Asked(p) = <<[glyphs |-> p.batch.glyphs, states |-> p.batch.states]>>
               /\ Checked(p).batch # None /\ Checked(p).ended = p.ended
               /\ Checked(p).batch = [p.batch EXCEPT !.nudges = @ + 1, !.quiet = 0]
<1>1. CASE ~BatchDue(p.batch)
  BY <1>1 DEF Checked, Asked
<1>2. CASE p.batch # None /\ Complete(p.batch)
  <2>1. Checked(p) = [p EXCEPT !.batch = None, !.ended = "complete"]
    BY <1>2 DEF Checked, BatchDue
  <2>2. Asked(p) = <<>>
    BY <1>2 DEF Asked
  <2>3. Checked(p) \in Passes /\ Checked(p).board = p.board
        /\ Checked(p).batch = None /\ Checked(p).ended = "complete"
    BY <2>1 DEF Passes, Ends
  <2>. QED BY <1>2, <2>2, <2>3
<1>3. CASE p.batch # None /\ ~Complete(p.batch) /\ Late(p.batch)
  <2>1. Checked(p) = [p EXCEPT !.batch = None, !.ended = "late"]
    BY <1>3 DEF Checked, BatchDue
  <2>2. Asked(p) = <<>>
    BY <1>3 DEF Asked
  <2>3. Checked(p) \in Passes /\ Checked(p).board = p.board
        /\ Checked(p).batch = None /\ Checked(p).ended = "late"
    BY <2>1 DEF Passes, Ends
  <2>. QED BY <1>3, <2>2, <2>3
<1>4. CASE p.batch # None /\ ~Complete(p.batch) /\ ~Late(p.batch) /\ Quiet(p.batch)
  <2>1. p.batch \in OpenBatches
    BY <1>4 DEF Passes
  <2>2. PICK o : o = [p.batch EXCEPT !.nudges = @ + 1, !.quiet = 0]
    OBVIOUS
  <2>3. o \in OpenBatches
    <3>1. p.batch.nudges + 1 \in 0 .. Nudges /\ 0 \in 0 .. Deadline
      BY <1>4, <2>1, BatchAssumption DEF OpenBatches, Quiet
    <3>2. PICK n \in 0 .. Nudges : n = p.batch.nudges + 1
      BY <3>1
    <3>3. o = [p.batch EXCEPT !.nudges = n, !.quiet = 0]
      BY <2>2, <3>2
    <3>. QED BY <2>1, <3>1, <3>3 DEF OpenBatches
  <2>4. o # None
    BY <2>3, NothingAssumption
  <2>5. Checked(p) = [p EXCEPT !.batch.nudges = @ + 1, !.batch.quiet = 0]
    BY <1>4 DEF Checked, BatchDue
  <2>6. Checked(p).board = p.board /\ Checked(p).batch = o /\ Checked(p).ended = p.ended
        /\ Checked(p) \in Passes
    BY <2>1, <2>2, <2>3, <2>5 DEF Passes, OpenBatches
  <2>7. Asked(p) = <<[glyphs |-> p.batch.glyphs, states |-> p.batch.states]>>
    BY <1>4 DEF Asked, BatchDue
  <2>8. [glyphs |-> p.batch.glyphs, states |-> p.batch.states] \in Asks
    BY <2>1 DEF OpenBatches, Asks
  <2>. QED BY <1>4, <2>2, <2>4, <2>6, <2>7, <2>8
<1>. QED BY <1>1, <1>2, <1>3, <1>4 DEF BatchDue

-----------------------------------------------------------------------------
(* The type invariant.                                                     *)
BatchTypeInv == BatchTypeOK /\ lost <= losses

(* What the host remembers of a key, or what a key begins with.            *)
Known(k) == IF memory[k] = None THEN PowerOn ELSE memory[k]

LEMMA Bounds ==
  ASSUME BatchTypeOK
  PROVE  /\ mode.overHID \in BOOLEAN /\ mode.prompt \in BOOLEAN /\ mode.clients \in BOOLEAN
         /\ mode.maxLosses \in Nat /\ mode.maxSends \in 0 .. MaxSends
         /\ lost \in Nat /\ losses \in Nat /\ sends \in Versions
         /\ sends < mode.maxSends => sends + 1 \in Versions
<1>1. mode \in ModeType
  BY BatchAssumption DEF BatchTypeOK
<1>2. mode.maxLosses \in Nat /\ mode.maxSends \in 0 .. MaxSends
      /\ mode.overHID \in BOOLEAN /\ mode.prompt \in BOOLEAN /\ mode.clients \in BOOLEAN
  BY <1>1 DEF ModeType
<1>3. lost \in 0 .. mode.maxLosses /\ losses \in 0 .. mode.maxLosses /\ sends \in 0 .. mode.maxSends
  BY DEF BatchTypeOK
<1>. QED BY <1>2, <1>3, BatchAssumption DEF Versions

LEMMA Transmitted ==
  ASSUME BatchTypeInv, NEW m \in DataMsgs, Transmit(m)
  PROVE  /\ cdc' \in Seq(DataMsgs \union BatchMsgs) /\ hid' \in StateMsgs \union {None}
         /\ {lost', losses'} \subseteq 0 .. mode.maxLosses /\ lost' <= losses'
         /\ losses <= losses'
         /\ \/ /\ mode.overHID /\ m.t = "state" /\ hid' = m /\ cdc' = cdc
               /\ hid = None \/ lost' = lost + 1
               /\ lost' \in {lost, lost + 1}
            \/ /\ ~mode.overHID \/ m.t = "glyph"
               /\ cdc' = Append(cdc, m) /\ hid' = hid /\ lost' = lost /\ losses' = losses
<1>1. m.t = "glyph" \/ (m.t = "state" /\ m \in StateMsgs)
  BY DataKinds
<1>2. lost \in Nat /\ losses \in Nat /\ mode.maxLosses \in Nat /\ lost <= losses
      /\ lost \in 0 .. mode.maxLosses /\ losses \in 0 .. mode.maxLosses
  BY Bounds DEF BatchTypeInv, BatchTypeOK
<1>3. CASE mode.overHID /\ m.t = "state"
  <2>1. hid' = m /\ cdc' = cdc
    BY <1>3 DEF Transmit
  <2>2. \/ hid = None /\ lost' = lost /\ losses' = losses
        \/ losses < mode.maxLosses /\ losses' = losses + 1 /\ lost' = lost + 1
    BY <1>3 DEF Transmit
  <2>3. {lost', losses'} \subseteq 0 .. mode.maxLosses /\ lost' <= losses' /\ losses <= losses'
    BY <1>2, <2>2
  <2>4. cdc' \in Seq(DataMsgs \union BatchMsgs) /\ hid' \in StateMsgs \union {None}
    BY <1>1, <1>3, <2>1 DEF BatchTypeInv, BatchTypeOK
  <2>. QED BY <1>3, <2>1, <2>2, <2>3, <2>4
<1>4. CASE ~(mode.overHID /\ m.t = "state")
  <2>1. cdc' = Append(cdc, m) /\ hid' = hid /\ lost' = lost /\ losses' = losses
    BY <1>4 DEF Transmit
  <2>2. cdc' \in Seq(DataMsgs \union BatchMsgs) /\ hid' \in StateMsgs \union {None}
    BY <2>1 DEF BatchTypeInv, BatchTypeOK
  <2>. QED BY <1>1, <1>2, <1>4, <2>1, <2>2
<1>. QED BY <1>3, <1>4

LEMMA PowerOnType == PowerOn \in KeyStates /\ ~PowerOn.custom /\ PowerOn.glyph = None
BY BatchAssumption DEF PowerOn, KeyStates, Versions

LEMMA Remembered ==
  ASSUME BatchTypeOK, NEW m \in DataMsgs, Remember(m)
  PROVE  /\ memory' \in [Keys -> KeyStates \union {None}]
         /\ memory'[m.key] # None
         /\ Known(m.key)' = WithData(Known(m.key), m)
         /\ memory'[m.key] = WithData(Known(m.key), m)
         /\ \A k \in Keys \ {m.key} : memory'[k] = memory[k] /\ Known(k)' = Known(k)
<1>1. m.key \in Keys
  BY DataKinds
<1>2. memory \in [Keys -> KeyStates \union {None}]
  BY DEF BatchTypeOK
<1>3. PICK old : old = Known(m.key)
  OBVIOUS
<1>4. old \in KeyStates
  BY <1>1, <1>2, <1>3, PowerOnType DEF Known
<1>5. PICK new : new = WithData(old, m)
  OBVIOUS
<1>6. new \in KeyStates /\ new # None
  BY <1>4, <1>5, WithDataType, NothingAssumption
<1>7. memory' = [memory EXCEPT ![m.key] = new]
  BY <1>3, <1>5 DEF Remember, Known
<1>8. memory'[m.key] = new /\ \A k \in Keys \ {m.key} : memory'[k] = memory[k]
  BY <1>1, <1>2, <1>7
<1>9. memory' \in [Keys -> KeyStates \union {None}]
  BY <1>2, <1>6, <1>7
<1>10. Known(m.key)' = new
  BY <1>6, <1>8 DEF Known
<1>11. \A k \in Keys \ {m.key} : Known(k)' = Known(k)
  BY <1>8 DEF Known
<1>. QED BY <1>3, <1>5, <1>6, <1>8, <1>9, <1>10, <1>11

LEMMA KnownType ==
  ASSUME BatchTypeOK, NEW k \in Keys
  PROVE  Known(k) \in KeyStates
BY PowerOnType DEF Known, BatchTypeOK

LEMMA MinOfTwo ==
  ASSUME NEW a \in Int, NEW b \in Int
  PROVE  Min({a, b}) = IF a <= b THEN a ELSE b
<1>1. CASE a <= b
  <2>1. a \in {a, b} /\ \A y \in {a, b} : a <= y
    BY <1>1
  <2>2. \A x \in {a, b} : (\A y \in {a, b} : x <= y) => x = a
    BY <1>1
  <2>. QED BY <1>1, <2>1, <2>2 DEF Min
<1>2. CASE ~(a <= b)
  <2>1. b \in {a, b} /\ \A y \in {a, b} : b <= y
    BY <1>2
  <2>2. \A x \in {a, b} : (\A y \in {a, b} : x <= y) => x = b
    BY <1>2
  <2>. QED BY <1>2, <2>1, <2>2 DEF Min
<1>. QED BY <1>1, <1>2

LEMMA Ticked ==
  ASSUME BatchTypeOK, Tick
  PROVE  /\ batch # None /\ batch \in OpenBatches /\ batch' # None /\ batch' \in OpenBatches
         /\ batch' = [batch EXCEPT !.age = batch'.age, !.quiet = batch'.quiet]
         /\ batch'.age = (IF batch.age + 1 <= Deadline THEN batch.age + 1 ELSE Deadline)
         /\ batch'.quiet = (IF batch.quiet + 1 <= Deadline THEN batch.quiet + 1 ELSE Deadline)
<1>1. batch # None /\ batch \in OpenBatches
  BY DEF Tick, BatchTypeOK
<1>2. batch.age \in 0 .. Deadline /\ batch.quiet \in 0 .. Deadline /\ Deadline \in Nat
  BY <1>1, BatchAssumption DEF OpenBatches
<1>3. PICK a : a = (IF batch.age + 1 <= Deadline THEN batch.age + 1 ELSE Deadline)
  OBVIOUS
<1>4. PICK q : q = (IF batch.quiet + 1 <= Deadline THEN batch.quiet + 1 ELSE Deadline)
  OBVIOUS
<1>5. a \in 0 .. Deadline /\ q \in 0 .. Deadline
  BY <1>2, <1>3, <1>4
<1>6. Min({batch.age + 1, Deadline}) = a /\ Min({batch.quiet + 1, Deadline}) = q
  <2>1. batch.age + 1 \in Int /\ batch.quiet + 1 \in Int /\ Deadline \in Int
    BY <1>2
  <2>. QED BY <1>3, <1>4, <2>1, MinOfTwo
<1>7. batch' = [batch EXCEPT !.age = a, !.quiet = q]
  BY <1>6, Zenon DEF Tick
<1>8. batch' \in OpenBatches /\ batch'.age = a /\ batch'.quiet = q
  BY <1>1, <1>5, <1>7 DEF OpenBatches
<1>9. batch' # None
  BY <1>8, NothingAssumption
<1>10. batch' = [batch EXCEPT !.age = batch'.age, !.quiet = batch'.quiet]
  BY <1>7, <1>8
<1>. QED BY <1>1, <1>3, <1>4, <1>8, <1>9, <1>10

(* A pass that takes what it takes from CDC, then from HID, and then looks *)
(* at the batch.                                                           *)
AsIs == [board |-> board, batch |-> batch, ended |-> ended]

Took(p1, p2) ==
  /\ p1 \in Passes /\ p2 \in Passes /\ AsIs \in Passes
  /\ \/ p1 = AsIs /\ cdc' = cdc
     \/ cdc # <<>> /\ p1 = Received(AsIs, Head(cdc)) /\ cdc' = Tail(cdc)
  /\ \/ p2 = p1 /\ hid' = hid
     \/ hid \in StateMsgs /\ hid # None /\ p2 = Received(p1, hid) /\ hid' = None
  /\ cdc' # cdc \/ hid' # hid \/ BatchDue(batch)
  /\ board' = p2.board /\ batch' = Checked(p2).batch /\ ended' = Checked(p2).ended
  /\ asks' = asks \o Asked(p2)
  /\ crossed' = (crossed \/ (Asked(p2) # <<>> /\ \E m \in ToSet(cdc') : m.t = "batch"))

LEMMA ReceivedType ==
  ASSUME NEW p \in Passes, NEW m \in DataMsgs \union BatchMsgs
  PROVE  Received(p, m) \in Passes
BY DataReceived, BatchReceived

LEMMA HeadAndTail ==
  ASSUME NEW S, NEW s \in Seq(S), s # <<>>
  PROVE  /\ Head(s) \in S /\ Head(s) = s[1] /\ 1 \in DOMAIN s /\ Len(s) \in Nat \ {0}
         /\ Tail(s) \in Seq(S) /\ Len(Tail(s)) = Len(s) - 1 /\ Tail(s) # s
         /\ \A i \in 1 .. Len(s) - 1 : Tail(s)[i] = s[i + 1]
<1>1. Len(s) \in Nat \ {0} /\ DOMAIN s = 1 .. Len(s) /\ Head(s) = s[1] /\ Tail(s) \in Seq(S)
  OBVIOUS
<1>2. Len(Tail(s)) = Len(s) - 1
  OBVIOUS
<1>3. \A i \in 1 .. Len(s) - 1 : Tail(s)[i] = s[i + 1]
  OBVIOUS
<1>4. 1 \in DOMAIN s /\ Head(s) \in S
  BY <1>1
<1>5. Len(Tail(s)) # Len(s)
  <2>1. \A n \in Nat : n - 1 # n
    OBVIOUS
  <2>. QED BY <1>1, <1>2, <2>1
<1>6. Tail(s) # s
  BY <1>5
<1>. QED BY <1>1, <1>2, <1>3, <1>4, <1>6

LEMMA Stepped ==
  ASSUME BatchTypeOK, Step
  PROVE  \E p1, p2 : Took(p1, p2)
<1>1. PICK p0 : p0 = AsIs
  OBVIOUS
<1>2. p0 \in Passes
  BY <1>1 DEF BatchTypeOK, AsIs, Passes, Ends
<1>3. PICK c, h \in BOOLEAN :
        LET p1 == IF c THEN Received(p0, Head(cdc)) ELSE p0
            p2 == IF h THEN Received(p1, hid) ELSE p1
        IN /\ c => cdc # <<>>
           /\ h => hid # None
           /\ c \/ h \/ BatchDue(batch)
           /\ cdc' = (IF c THEN Tail(cdc) ELSE cdc) /\ hid' = (IF h THEN None ELSE hid)
           /\ board' = p2.board /\ batch' = Checked(p2).batch /\ ended' = Checked(p2).ended
           /\ asks' = asks \o Asked(p2)
           /\ crossed' = (crossed \/ (Asked(p2) # <<>> /\ \E m \in ToSet(cdc') : m.t = "batch"))
  BY <1>1, ZenonT(40) DEF Step, AsIs
<1>4. PICK p1 : p1 = IF c THEN Received(p0, Head(cdc)) ELSE p0
  OBVIOUS
<1>5. PICK p2 : p2 = IF h THEN Received(p1, hid) ELSE p1
  OBVIOUS
<1>6. /\ board' = p2.board /\ batch' = Checked(p2).batch /\ ended' = Checked(p2).ended
      /\ asks' = asks \o Asked(p2)
      /\ crossed' = (crossed \/ (Asked(p2) # <<>> /\ \E m \in ToSet(cdc') : m.t = "batch"))
  BY <1>3, <1>4, <1>5, Zenon
<1>7. \/ p1 = p0 /\ cdc' = cdc /\ ~c
      \/ cdc # <<>> /\ p1 = Received(p0, Head(cdc)) /\ cdc' = Tail(cdc)
  BY <1>3, <1>4
<1>8. p1 \in Passes
  <2>1. cdc # <<>> => Head(cdc) \in DataMsgs \union BatchMsgs
    BY HeadAndTail DEF BatchTypeOK
  <2>. QED BY <1>2, <1>7, <2>1, ReceivedType
<1>9. hid # None => hid \in StateMsgs
  BY DEF BatchTypeOK
<1>10. \/ p2 = p1 /\ hid' = hid /\ ~h
       \/ hid # None /\ p2 = Received(p1, hid) /\ hid' = None
  BY <1>3, <1>5
<1>11. p2 \in Passes
  <2>1. StateMsgs \subseteq DataMsgs
    BY DEF DataMsgs
  <2>. QED BY <1>8, <1>9, <1>10, <2>1, ReceivedType
<1>12. cdc' # cdc \/ hid' # hid \/ BatchDue(batch)
  <2>1. CASE c
    <3>1. cdc # <<>> /\ cdc' = Tail(cdc)
      BY <1>3, <2>1
    <3>. QED BY <3>1, HeadAndTail DEF BatchTypeOK
  <2>2. CASE h
    BY <1>3, <2>2
  <2>. QED BY <1>3, <2>1, <2>2
<1>. QED BY <1>1, <1>2, <1>6, <1>7, <1>8, <1>9, <1>10, <1>11, <1>12 DEF Took

LEMMA TypeInit ==
  ASSUME BatchInit
  PROVE  BatchTypeInv
<1>1. mode \in ModeType
  BY BatchAssumption DEF BatchInit
<1>2. mode.maxLosses \in Nat /\ mode.maxSends \in Nat
  BY <1>1, BatchAssumption DEF ModeType
<1>3. board \in [Keys -> KeyStates] /\ memory \in [Keys -> KeyStates \union {None}]
  BY PowerOnType DEF BatchInit
<1>4. script \in Seq(DataMsgs \union BatchMsgs) /\ answering \in Seq(DataMsgs)
      /\ asks \in Seq(Asks) /\ cdc \in Seq(DataMsgs \union BatchMsgs)
  BY DEF BatchInit
<1>5. {lost, losses} \subseteq 0 .. mode.maxLosses /\ sends \in 0 .. mode.maxSends /\ lost <= losses
  BY <1>2 DEF BatchInit
<1>. QED BY <1>3, <1>4, <1>5 DEF BatchInit, BatchTypeInv, BatchTypeOK

LEMMA TypeFlush ==
  ASSUME BatchTypeInv, Flush
  PROVE  BatchTypeInv'
<1>1. sends + 1 \in Versions /\ sends' \in 0 .. mode.maxSends
  <2>1. sends < mode.maxSends /\ sends' = sends + 1 /\ sends \in 0 .. mode.maxSends
    BY DEF Flush, BatchTypeInv, BatchTypeOK
  <2>. QED BY <2>1, Bounds DEF BatchTypeInv
<1>2. PICK keys \in SUBSET Keys, glyphs \in SUBSET Keys : script' = Script(keys, glyphs, sends + 1)
  <2>1. PICK keys \in SUBSET Keys : \E glyphs \in SUBSET keys :
          script' = Script(keys, glyphs, sends + 1)
    BY DEF Flush
  <2>. QED BY <2>1
<1>3. Calls(keys, glyphs, sends + 1) \in Seq(DataMsgs)
  BY <1>1, CallsHold DEF Sends
<1>4. BatchMsg(glyphs, keys, sends + 1) \in BatchMsgs
  BY <1>1 DEF BatchMsgs
<1>5. script' \in Seq(DataMsgs \union BatchMsgs)
  BY <1>2, <1>3, <1>4 DEF Script
<1>. QED BY <1>1, <1>5 DEF Flush, host, pad, BatchTypeInv, BatchTypeOK

LEMMA TypeCall ==
  ASSUME BatchTypeInv, Call
  PROVE  BatchTypeInv'
<1>1. script # <<>> /\ script' = Tail(script)
  BY DEF Call
<1>2. PICK m : m = Head(script)
  OBVIOUS
<1>3. m \in DataMsgs \union BatchMsgs /\ script' \in Seq(DataMsgs \union BatchMsgs)
  BY <1>1, <1>2, HeadAndTail DEF BatchTypeInv, BatchTypeOK
<1>4. CASE m.t = "batch"
  <2>1. /\ cdc' = Append(cdc, m) /\ lost' = 0 /\ crossed' = (crossed \/ asks # <<>>)
        /\ UNCHANGED <<memory, hid, losses>>
    BY <1>2, <1>4 DEF Call
  <2>2. cdc' \in Seq(DataMsgs \union BatchMsgs)
    BY <1>3, <2>1 DEF BatchTypeInv, BatchTypeOK
  <2>3. lost' \in 0 .. mode.maxLosses /\ lost' <= losses'
    BY <2>1, Bounds DEF BatchTypeInv
  <2>4. crossed' \in BOOLEAN
    BY <2>1
  <2>. QED BY <1>3, <2>1, <2>2, <2>3, <2>4 DEF Call, pad, BatchTypeInv, BatchTypeOK
<1>5. CASE m.t # "batch"
  <2>1. m \in DataMsgs
    BY <1>3, <1>5, BatchKinds
  <2>2. Transmit(m) /\ Remember(m) /\ UNCHANGED crossed
    BY <1>2, <1>5 DEF Call
  <2>3. memory' \in [Keys -> KeyStates \union {None}]
    BY <2>1, <2>2, Remembered DEF BatchTypeInv
  <2>4. /\ cdc' \in Seq(DataMsgs \union BatchMsgs) /\ hid' \in StateMsgs \union {None}
        /\ {lost', losses'} \subseteq 0 .. mode.maxLosses /\ lost' <= losses'
    BY <2>1, <2>2, Transmitted
  <2>. QED BY <1>3, <2>2, <2>3, <2>4 DEF Call, pad, BatchTypeInv, BatchTypeOK
<1>. QED BY <1>4, <1>5

LEMMA TypeClientCall ==
  ASSUME BatchTypeInv, ClientCall
  PROVE  BatchTypeInv'
<1>1. sends + 1 \in Versions /\ sends' \in 0 .. mode.maxSends
  <2>1. sends < mode.maxSends /\ sends' = sends + 1 /\ sends \in 0 .. mode.maxSends
    BY DEF ClientCall, BatchTypeInv, BatchTypeOK
  <2>. QED BY <2>1, Bounds DEF BatchTypeInv
<1>2. PICK k \in Keys, c \in BOOLEAN :
        Transmit(StateMsg(k, sends + 1, c)) /\ Remember(StateMsg(k, sends + 1, c))
  BY DEF ClientCall
<1>3. PICK m : m = StateMsg(k, sends + 1, c)
  OBVIOUS
<1>4. m \in DataMsgs /\ Transmit(m) /\ Remember(m)
  BY <1>1, <1>2, <1>3 DEF DataMsgs, StateMsgs
<1>5. memory' \in [Keys -> KeyStates \union {None}]
  BY <1>4, Remembered DEF BatchTypeInv
<1>6. /\ cdc' \in Seq(DataMsgs \union BatchMsgs) /\ hid' \in StateMsgs \union {None}
      /\ {lost', losses'} \subseteq 0 .. mode.maxLosses /\ lost' <= losses'
  BY <1>4, Transmitted
<1>. QED BY <1>1, <1>5, <1>6 DEF ClientCall, pad, BatchTypeInv, BatchTypeOK

LEMMA TypeAnswers ==
  ASSUME BatchTypeInv, NEW i \in DOMAIN asks, HandleBatchIncomplete(i)
  PROVE  BatchTypeInv'
<1>1. asks[i] \in Asks /\ asks \in Seq(Asks)
  BY DEF BatchTypeInv, BatchTypeOK
<1>2. asks[i].glyphs \in SUBSET Keys /\ asks[i].states \in SUBSET Keys
  BY <1>1 DEF Asks
<1>3. answering' \in Seq(DataMsgs)
  <2>1. answering' = AnswersWith(asks[i].glyphs, asks[i].states)
    BY DEF HandleBatchIncomplete, Answers
  <2>. QED BY <1>2, <2>1, AnswersHold DEF BatchTypeInv, Says
<1>4. asks' \in Seq(Asks)
  BY <1>1 DEF HandleBatchIncomplete, RemoveAt
<1>. QED BY <1>3, <1>4 DEF HandleBatchIncomplete, pad, BatchTypeInv, BatchTypeOK

LEMMA TypeAnswer ==
  ASSUME BatchTypeInv, Answer
  PROVE  BatchTypeInv'
<1>1. answering # <<>> /\ answering' = Tail(answering) /\ answering \in Seq(DataMsgs)
  BY DEF Answer, BatchTypeInv, BatchTypeOK
<1>2. Head(answering) \in DataMsgs /\ answering' \in Seq(DataMsgs)
  BY <1>1, HeadAndTail
<1>3. /\ cdc' \in Seq(DataMsgs \union BatchMsgs) /\ hid' \in StateMsgs \union {None}
      /\ {lost', losses'} \subseteq 0 .. mode.maxLosses /\ lost' <= losses'
  BY <1>2, Transmitted DEF Answer
<1>. QED BY <1>2, <1>3 DEF Answer, pad, BatchTypeInv, BatchTypeOK

LEMMA TypeStep ==
  ASSUME BatchTypeInv, Step
  PROVE  BatchTypeInv'
<1>1. PICK p1, p2 : Took(p1, p2)
  BY Stepped DEF BatchTypeInv
<1>2. Checked(p2) \in Passes /\ Checked(p2).board = p2.board /\ Asked(p2) \in Seq(Asks)
  BY <1>1, PassChecked DEF Took
<1>3. board' \in [Keys -> KeyStates] /\ batch' \in OpenBatches \union {None} /\ ended' \in Ends
  BY <1>1, <1>2 DEF Took, Passes
<1>4. asks' \in Seq(Asks)
  <2>1. asks \in Seq(Asks)
    BY DEF BatchTypeInv, BatchTypeOK
  <2>. QED BY <1>1, <1>2, <2>1 DEF Took
<1>5. cdc' \in Seq(DataMsgs \union BatchMsgs)
  <2>1. cdc' = cdc \/ (cdc # <<>> /\ cdc' = Tail(cdc))
    BY <1>1, Zenon DEF Took
  <2>2. cdc \in Seq(DataMsgs \union BatchMsgs)
    BY DEF BatchTypeInv, BatchTypeOK
  <2>. QED BY <2>1, <2>2, HeadAndTail
<1>6. hid' \in StateMsgs \union {None}
  BY <1>1 DEF Took, BatchTypeInv, BatchTypeOK
<1>7. crossed' \in BOOLEAN
  BY Zenon DEF Step
<1>8. UNCHANGED <<mode, host, lost, sends, losses>>
  BY Zenon DEF Step
<1>. QED BY <1>3, <1>4, <1>5, <1>6, <1>7, <1>8 DEF host, Ends, BatchTypeInv, BatchTypeOK

LEMMA TypeDropGlyph ==
  ASSUME BatchTypeInv, DropGlyph
  PROVE  BatchTypeInv'
<1>1. cdc # <<>> /\ cdc' = Tail(cdc) /\ lost' = lost + 1 /\ losses' = losses + 1
      /\ losses < mode.maxLosses
  BY DEF DropGlyph
<1>2. cdc' \in Seq(DataMsgs \union BatchMsgs)
  BY <1>1, HeadAndTail DEF BatchTypeInv, BatchTypeOK
<1>3. {lost', losses'} \subseteq 0 .. mode.maxLosses /\ lost' <= losses'
  BY <1>1, Bounds DEF BatchTypeInv
<1>. QED BY <1>2, <1>3 DEF DropGlyph, host, pad, BatchTypeInv, BatchTypeOK

LEMMA TypeTick ==
  ASSUME BatchTypeInv, Tick
  PROVE  BatchTypeInv'
<1>1. batch' \in OpenBatches
  BY Ticked DEF BatchTypeInv
<1>. QED BY <1>1 DEF Tick, host, BatchTypeInv, BatchTypeOK

LEMMA TypeNext ==
  ASSUME BatchTypeInv, [BatchNext]_batchVars
  PROVE  BatchTypeInv'
<1>1. CASE UNCHANGED batchVars
  BY <1>1 DEF batchVars, host, pad, BatchTypeInv, BatchTypeOK
<1>. QED BY <1>1, TypeFlush, TypeCall, TypeClientCall, TypeAnswers, TypeAnswer, TypeStep,
            TypeDropGlyph, TypeTick DEF BatchNext

(* What the host, the wire and the board have is of its type.              *)
THEOREM BatchTypeCorrect == BatchSpec => []BatchTypeOK
<1>1. BatchInit => BatchTypeInv
  BY TypeInit
<1>2. BatchTypeInv /\ [BatchNext]_batchVars => BatchTypeInv'
  BY TypeNext
<1>3. BatchTypeInv => BatchTypeOK
  BY DEF BatchTypeInv
<1>. QED BY <1>1, <1>2, <1>3, PTL DEF BatchSpec

-----------------------------------------------------------------------------
(* BoardAgrees.  What is on its way makes of what the board has of a key   *)
(* what the host remembers of it: h lists what the board has of the key    *)
(* after each of the messages.                                             *)
After(k, key, m) == IF m.t # "batch" /\ m.key = k THEN WithData(key, m) ELSE key

Replays(k, h) ==
  /\ h \in [0 .. Len(cdc) -> KeyStates]
  /\ h[0] = board[k] /\ h[Len(cdc)] = Known(k)
  /\ \A i \in 1 .. Len(cdc) : h[i] = After(k, h[i - 1], cdc[i])

(* An answer says what is remembered, and nothing is remembered meanwhile. *)
SaysKnown(m) == WithData(Known(m.key), m) = Known(m.key)

BoardInv ==
  /\ ~mode.overHID => hid = None
  /\ \A k \in Keys : Known(k).custom \/ Known(k).glyph = None
  /\ \A i \in DOMAIN answering : SaysKnown(answering[i])
  /\ ~mode.overHID /\ losses = 0 => \A k \in Keys : \E h : Replays(k, h)

LEMMA AfterType ==
  ASSUME NEW k \in Keys, NEW key \in KeyStates, NEW m \in DataMsgs \union BatchMsgs
  PROVE  After(k, key, m) \in KeyStates
<1>1. CASE m.t = "batch"
  BY <1>1 DEF After
<1>2. CASE m.t # "batch"
  <2>1. m \in DataMsgs
    BY <1>2, BatchKinds
  <2>. QED BY <2>1, WithDataType DEF After
<1>. QED BY <1>1, <1>2

(* A message that is sent and makes of the host's key what it makes of the *)
(* board's.                                                                *)
LEMMA SentReplays ==
  ASSUME BatchTypeOK, NEW k \in Keys, NEW h, Replays(k, h),
         NEW m \in DataMsgs \union BatchMsgs, cdc' = Append(cdc, m), board' = board,
         Known(k)' = After(k, Known(k), m)
  PROVE  \E g : Replays(k, g)'
<1>1. PICK n \in Nat : n = Len(cdc) /\ n + 1 = Len(cdc') /\ cdc'[n + 1] = m
      /\ \A i \in 1 .. n : cdc'[i] = cdc[i]
  BY SMTT(30) DEF BatchTypeOK
<1>2. h \in [0 .. n -> KeyStates] /\ h[0] = board[k] /\ h[n] = Known(k)
      /\ \A i \in 1 .. n : h[i] = After(k, h[i - 1], cdc[i])
  BY <1>1 DEF Replays
<1>3. PICK new : new = After(k, h[n], m)
  OBVIOUS
<1>4. new \in KeyStates
  BY <1>1, <1>2, <1>3, AfterType
<1>5. PICK g : g = [i \in 0 .. n + 1 |-> IF i = n + 1 THEN new ELSE h[i]]
  OBVIOUS
<1>6. g \in [0 .. n + 1 -> KeyStates] /\ g[n + 1] = new /\ g[0] = h[0]
  BY <1>1, <1>2, <1>4, <1>5
<1>7. ASSUME NEW i \in 1 .. n + 1
      PROVE  g[i] = After(k, g[i - 1], cdc'[i])
  <2>1. CASE i = n + 1
    <3>1. g[i - 1] = h[n] /\ g[i] = new /\ cdc'[i] = m
      BY <1>1, <1>5, <1>6, <2>1
    <3>. QED BY <1>3, <3>1
  <2>2. CASE i \in 1 .. n
    <3>1. g[i - 1] = h[i - 1] /\ g[i] = h[i] /\ cdc'[i] = cdc[i]
      BY <1>1, <1>5, <2>2
    <3>. QED BY <1>2, <2>2, <3>1
  <2>. QED BY <1>1, <2>1, <2>2
<1>8. g[0] = board'[k] /\ g[n + 1] = Known(k)'
  BY <1>2, <1>3, <1>6
<1>. QED BY <1>1, <1>6, <1>7, <1>8 DEF Replays

(* A message that the board takes.                                         *)
LEMMA TakenReplays ==
  ASSUME BatchTypeOK, NEW k \in Keys, NEW h, Replays(k, h),
         cdc # <<>>, cdc' = Tail(cdc), board'[k] = After(k, board[k], Head(cdc)),
         Known(k)' = Known(k)
  PROVE  \E g : Replays(k, g)'
<1>1. PICK n \in Nat : n + 1 = Len(cdc) /\ n = Len(cdc')
      /\ \A i \in 1 .. n : cdc'[i] = cdc[i + 1]
  <2>1. PICK n : n = Len(cdc) - 1
    OBVIOUS
  <2>2. Len(cdc) \in Nat \ {0} /\ Len(cdc') = Len(cdc) - 1
        /\ \A i \in 1 .. Len(cdc) - 1 : cdc'[i] = cdc[i + 1]
    BY HeadAndTail DEF BatchTypeOK
  <2>. QED BY <2>1, <2>2
<1>2. h \in [0 .. n + 1 -> KeyStates] /\ h[0] = board[k] /\ h[n + 1] = Known(k)
      /\ \A i \in 1 .. n + 1 : h[i] = After(k, h[i - 1], cdc[i])
  BY <1>1 DEF Replays
<1>3. PICK g : g = [i \in 0 .. n |-> h[i + 1]]
  OBVIOUS
<1>4. g \in [0 .. n -> KeyStates] /\ g[0] = h[1] /\ g[n] = h[n + 1]
  BY <1>1, <1>2, <1>3
<1>5. ASSUME NEW i \in 1 .. n
      PROVE  g[i] = After(k, g[i - 1], cdc'[i])
  <2>1. g[i] = h[i + 1] /\ g[i - 1] = h[i] /\ cdc'[i] = cdc[i + 1]
    BY <1>1, <1>3
  <2>2. h[i + 1] = After(k, h[i], cdc[i + 1])
    <3>1. i + 1 \in 1 .. n + 1 /\ (i + 1) - 1 = i
      BY <1>1
    <3>. QED BY <1>2, <3>1
  <2>. QED BY <2>1, <2>2
<1>6. g[0] = board'[k]
  <2>1. h[1] = After(k, h[0], cdc[1])
    <3>1. 1 \in 1 .. n + 1 /\ 1 - 1 = 0
      BY <1>1
    <3>. QED BY <1>2, <3>1
  <2>2. cdc[1] = Head(cdc)
    BY HeadAndTail DEF BatchTypeOK
  <2>. QED BY <1>2, <1>4, <2>1, <2>2
<1>. QED BY <1>1, <1>2, <1>4, <1>5, <1>6 DEF Replays

(* What is remembered of a key has a glyph only with the sentinel.         *)
LEMMA RememberKeeps ==
  ASSUME BatchTypeOK, BoardInv, NEW m \in DataMsgs, Remember(m)
  PROVE  /\ \A k \in Keys : Known(k)' = After(k, Known(k), m)
         /\ \A k \in Keys : Known(k)'.custom \/ Known(k)'.glyph = None
<1>1. m.key \in Keys /\ m.t # "batch" /\ (m.t = "glyph" \/ m.t = "state")
  BY DataKinds
<1>2. \A k \in Keys : Known(k)' = After(k, Known(k), m)
  BY <1>1, Remembered DEF After
<1>3. ASSUME NEW k \in Keys
      PROVE  Known(k)'.custom \/ Known(k)'.glyph = None
  <2>1. PICK old : old = Known(k)
    OBVIOUS
  <2>2. old \in KeyStates /\ (old.custom \/ old.glyph = None)
    BY <2>1, KnownType DEF BoardInv
  <2>3. PICK new : new = After(k, old, m)
    OBVIOUS
  <2>4. CASE m.key # k
    BY <1>2, <2>1, <2>2, <2>4 DEF After
  <2>5. CASE m.key = k /\ m.t = "glyph"
    <3>1. new = [old EXCEPT !.glyph = m.glyph, !.custom = TRUE]
      BY <1>1, <2>3, <2>5 DEF After, WithData
    <3>2. new.custom
      BY <2>2, <3>1 DEF KeyStates
    <3>. QED BY <1>2, <2>1, <2>3, <3>2
  <2>6. CASE m.key = k /\ m.t = "state"
    <3>1. new = [state |-> m.state, custom |-> m.custom,
                 glyph |-> IF m.custom THEN old.glyph ELSE None]
      BY <1>1, <2>3, <2>6 DEF After, WithData
    <3>2. new.custom = m.custom /\ new.glyph = (IF m.custom THEN old.glyph ELSE None)
      BY <3>1
    <3>3. new.custom \/ new.glyph = None
      BY <3>2
    <3>. QED BY <1>2, <2>1, <2>3, <3>3
  <2>. QED BY <1>1, <2>4, <2>5, <2>6
<1>. QED BY <1>2, <1>3

(* A call: it is sent and remembered, while nothing is answered.           *)
LEMMA CallReplays ==
  ASSUME BatchTypeInv, BoardInv, NEW m \in DataMsgs, Transmit(m), Remember(m),
         answering = <<>>, answering' = answering, board' = board, mode' = mode
  PROVE  BoardInv'
<1>1. \A k \in Keys : Known(k)' = After(k, Known(k), m)
  BY RememberKeeps DEF BatchTypeInv
<1>2. \A k \in Keys : Known(k)'.custom \/ Known(k)'.glyph = None
  BY RememberKeeps DEF BatchTypeInv
<1>3. DOMAIN answering' = {}
  OBVIOUS
<1>4. CASE mode.overHID
  BY <1>2, <1>3, <1>4 DEF BoardInv
<1>5. CASE ~mode.overHID
  <2>1. cdc' = Append(cdc, m) /\ hid' = hid /\ losses' = losses
    BY <1>5, Transmitted
  <2>2. ASSUME losses' = 0, NEW k \in Keys
        PROVE  \E h : Replays(k, h)'
    <3>1. PICK h : Replays(k, h)
      BY <1>5, <2>1, <2>2 DEF BoardInv
    <3>. QED BY <1>1, <2>1, <3>1, SentReplays DEF BatchTypeInv
  <2>. QED BY <1>2, <1>3, <1>5, <2>1, <2>2 DEF BoardInv
<1>. QED BY <1>4, <1>5

LEMMA BoardCall ==
  ASSUME BatchTypeInv, BoardInv, Call
  PROVE  BoardInv'
<1>1. PICK m : m = Head(script)
  OBVIOUS
<1>2. m \in DataMsgs \union BatchMsgs
  BY <1>1, HeadAndTail DEF Call, BatchTypeInv, BatchTypeOK
<1>3. answering = <<>> /\ answering' = answering /\ board' = board /\ mode' = mode
  BY DEF Call, LockFree, pad
<1>4. CASE m.t = "batch"
  <2>1. cdc' = Append(cdc, m) /\ UNCHANGED <<memory, hid, losses>>
    BY <1>1, <1>4 DEF Call
  <2>2. \A k \in Keys : Known(k)' = Known(k)
    BY <2>1 DEF Known
  <2>3. ASSUME ~mode.overHID, losses = 0, NEW k \in Keys
        PROVE  \E h : Replays(k, h)'
    <3>1. PICK h : Replays(k, h)
      BY <2>3 DEF BoardInv
    <3>2. Known(k)' = After(k, Known(k), m)
      BY <1>4, <2>2 DEF After
    <3>. QED BY <1>2, <1>3, <2>1, <3>1, <3>2, SentReplays DEF BatchTypeInv
  <2>4. DOMAIN answering' = {}
    BY <1>3
  <2>. QED BY <1>3, <2>1, <2>2, <2>3, <2>4 DEF BoardInv
<1>5. CASE m.t # "batch"
  <2>1. m \in DataMsgs
    BY <1>2, <1>5, BatchKinds
  <2>2. Transmit(m) /\ Remember(m)
    BY <1>1, <1>5 DEF Call
  <2>. QED BY <1>3, <2>1, <2>2, CallReplays
<1>. QED BY <1>4, <1>5

LEMMA BoardClientCall ==
  ASSUME BatchTypeInv, BoardInv, ClientCall
  PROVE  BoardInv'
<1>1. sends + 1 \in Versions
  BY Bounds DEF ClientCall, BatchTypeInv
<1>2. PICK k \in Keys, c \in BOOLEAN :
        Transmit(StateMsg(k, sends + 1, c)) /\ Remember(StateMsg(k, sends + 1, c))
  BY DEF ClientCall
<1>3. PICK m : m = StateMsg(k, sends + 1, c)
  OBVIOUS
<1>4. m \in DataMsgs /\ Transmit(m) /\ Remember(m)
  BY <1>1, <1>2, <1>3 DEF DataMsgs, StateMsgs
<1>5. answering = <<>> /\ answering' = answering /\ board' = board /\ mode' = mode
  BY DEF ClientCall, LockFree, pad
<1>. QED BY <1>4, <1>5, CallReplays

(* What is left is left alone.                                             *)
LEMMA BoardSame ==
  ASSUME BoardInv, UNCHANGED <<mode, memory, cdc, hid, board, losses>>,
         \A i \in DOMAIN answering' : SaysKnown(answering'[i])
  PROVE  BoardInv'
<1>1. \A k \in Keys : Known(k)' = Known(k)
  BY DEF Known
<1>2. \A i \in DOMAIN answering' : SaysKnown(answering[i])'
  BY DEF SaysKnown, Known
<1>3. \A k \in Keys : \A h : Replays(k, h)' <=> Replays(k, h)
  BY <1>1 DEF Replays
<1>. QED BY <1>1, <1>2, <1>3 DEF BoardInv

LEMMA BoardAnswers ==
  ASSUME BatchTypeInv, BoardInv, NEW i \in DOMAIN asks, HandleBatchIncomplete(i)
  PROVE  BoardInv'
<1>1. asks[i].glyphs \in SUBSET Keys /\ asks[i].states \in SUBSET Keys
  <2>1. asks[i] \in Asks
    BY DEF BatchTypeInv, BatchTypeOK
  <2>. QED BY <2>1 DEF Asks
<1>2. PICK q : q = AnswersWith(asks[i].glyphs, asks[i].states)
  OBVIOUS
<1>3. answering' = q /\ UNCHANGED <<mode, memory, cdc, hid, board, losses>>
  BY <1>2 DEF HandleBatchIncomplete, Answers, pad
<1>4. ASSUME NEW j \in DOMAIN q
      PROVE  SaysKnown(q[j])
  <2>1. /\ q[j].key \in Keys /\ memory[q[j].key] # None
        /\ \/ /\ q[j].t = "glyph" /\ q[j].glyph = memory[q[j].key].glyph /\ q[j].glyph # None
           \/ /\ q[j].t = "state" /\ q[j].state = memory[q[j].key].state
              /\ q[j].custom = memory[q[j].key].custom
    BY <1>1, <1>2, AnswersHold DEF BatchTypeInv, Says
  <2>2. PICK key \in KeyStates : key = memory[q[j].key] /\ key = Known(q[j].key)
    BY <2>1, KnownType DEF BatchTypeInv, Known
  <2>3. key.custom \/ key.glyph = None
    BY <2>1, <2>2 DEF BoardInv
  <2>4. CASE q[j].t = "glyph"
    <3>1. WithData(key, q[j]) = [key EXCEPT !.glyph = key.glyph, !.custom = TRUE]
      BY <2>1, <2>2, <2>4 DEF WithData
    <3>2. key.custom = TRUE
      <4>1. key.glyph # None /\ key.custom \in BOOLEAN
        BY <2>1, <2>2, <2>4 DEF KeyStates
      <4>. QED BY <2>3, <4>1
    <3>3. WithData(key, q[j]) = key
      BY <3>1, <3>2 DEF KeyStates
    <3>. QED BY <2>2, <3>3 DEF SaysKnown
  <2>5. CASE q[j].t = "state"
    <3>1. WithData(key, q[j]) = [state |-> key.state, custom |-> key.custom,
                                 glyph |-> IF key.custom THEN key.glyph ELSE None]
      BY <2>1, <2>2, <2>5 DEF WithData
    <3>2. (IF key.custom THEN key.glyph ELSE None) = key.glyph
      BY <2>3
    <3>3. WithData(key, q[j]) = [state |-> key.state, custom |-> key.custom, glyph |-> key.glyph]
      BY <3>1, <3>2
    <3>4. WithData(key, q[j]) = key
      BY <3>3 DEF KeyStates
    <3>. QED BY <2>2, <3>4 DEF SaysKnown
  <2>. QED BY <2>1, <2>4, <2>5
<1>. QED BY <1>3, <1>4, BoardSame

LEMMA BoardAnswer ==
  ASSUME BatchTypeInv, BoardInv, Answer
  PROVE  BoardInv'
<1>1. PICK m : m = Head(answering)
  OBVIOUS
<1>2. /\ m \in DataMsgs /\ SaysKnown(m) /\ answering' = Tail(answering)
      /\ answering \in Seq(DataMsgs) /\ answering # <<>>
  BY <1>1, HeadAndTail DEF Answer, BatchTypeInv, BatchTypeOK, BoardInv
<1>3. Transmit(m) /\ UNCHANGED <<mode, memory, board>>
  BY <1>1 DEF Answer, pad
<1>4. \A k \in Keys : Known(k)' = Known(k)
  BY <1>3 DEF Known
<1>5. \A i \in DOMAIN answering' : SaysKnown(answering[i])'
  <2>1. ASSUME NEW i \in DOMAIN answering'
        PROVE  SaysKnown(answering'[i])
    <3>1. /\ Len(answering) \in Nat /\ i \in 1 .. Len(answering) - 1
          /\ answering'[i] = answering[i + 1]
      BY <1>2, HeadAndTail
    <3>2. i + 1 \in DOMAIN answering
      BY <1>2, <3>1
    <3>. QED BY <3>1, <3>2 DEF BoardInv
  <2>. QED BY <1>3, <2>1 DEF SaysKnown, Known
<1>6. CASE mode.overHID
  BY <1>3, <1>4, <1>5, <1>6 DEF BoardInv
<1>7. CASE ~mode.overHID
  <2>1. cdc' = Append(cdc, m) /\ hid' = hid /\ losses' = losses
    BY <1>2, <1>3, <1>7, Transmitted
  <2>2. ASSUME losses = 0, NEW k \in Keys
        PROVE  \E h : Replays(k, h)'
    <3>1. PICK h : Replays(k, h)
      BY <1>7, <2>2 DEF BoardInv
    <3>2. Known(k)' = After(k, Known(k), m)
      BY <1>2, <1>4 DEF After, SaysKnown
    <3>. QED BY <1>2, <1>3, <2>1, <3>1, <3>2, SentReplays DEF BatchTypeInv
  <2>. QED BY <1>3, <1>4, <1>5, <1>7, <2>1, <2>2 DEF BoardInv
<1>. QED BY <1>6, <1>7

LEMMA BoardStep ==
  ASSUME BatchTypeInv, BoardInv, Step
  PROVE  BoardInv'
<1>1. PICK p1, p2 : Took(p1, p2)
  BY Stepped DEF BatchTypeInv
<1>2. UNCHANGED <<mode, memory, answering, losses>>
  BY Zenon DEF Step, host
<1>3. \A k \in Keys : Known(k)' = Known(k)
  BY <1>2 DEF Known
<1>4. \A i \in DOMAIN answering' : SaysKnown(answering[i])'
  BY <1>2 DEF SaysKnown, Known, BoardInv
<1>5. CASE mode.overHID
  BY <1>2, <1>3, <1>4, <1>5 DEF BoardInv
<1>6. CASE ~mode.overHID
  <2>1. p2 = p1 /\ hid' = hid /\ hid = None
    BY <1>1, <1>6 DEF Took, BoardInv
  <2>2. board' = p1.board
    BY <1>1, <2>1 DEF Took
  <2>3. ASSUME losses = 0, NEW k \in Keys
        PROVE  \E h : Replays(k, h)'
    <3>1. PICK h : Replays(k, h)
      BY <1>6, <2>3 DEF BoardInv
    <3>2. CASE p1 = AsIs /\ cdc' = cdc
      <4>1. board' = board
        BY <2>2, <3>2 DEF AsIs
      <4>. QED BY <1>3, <3>1, <3>2, <4>1 DEF Replays
    <3>3. CASE cdc # <<>> /\ p1 = Received(AsIs, Head(cdc)) /\ cdc' = Tail(cdc)
      <4>1. Head(cdc) \in DataMsgs \union BatchMsgs
        BY <3>3, HeadAndTail DEF BatchTypeInv, BatchTypeOK
      <4>2. AsIs \in Passes /\ AsIs.board = board
        BY <1>1 DEF Took, AsIs
      <4>3. board'[k] = After(k, board[k], Head(cdc))
        <5>1. CASE Head(cdc) \in BatchMsgs
          BY <2>2, <3>3, <4>2, <5>1, BatchReceived, BatchKinds DEF After
        <5>2. CASE Head(cdc) \in DataMsgs
          <6>1. board' = [board EXCEPT ![Head(cdc).key] = WithData(@, Head(cdc))]
            BY <2>2, <3>3, <4>2, <5>2, DataReceived
          <6>2. Head(cdc).t # "batch" /\ Head(cdc).key \in Keys
            BY <5>2, DataKinds
          <6>. QED BY <6>1, <6>2 DEF After, BatchTypeInv, BatchTypeOK
        <5>. QED BY <4>1, <5>1, <5>2
      <4>. QED BY <1>3, <3>1, <3>3, <4>3, TakenReplays DEF BatchTypeInv
    <3>. QED BY <1>1, <3>2, <3>3 DEF Took
  <2>. QED BY <1>2, <1>3, <1>4, <2>1, <2>3 DEF BoardInv
<1>. QED BY <1>5, <1>6

LEMMA BoardDropGlyph ==
  ASSUME BatchTypeInv, BoardInv, DropGlyph
  PROVE  BoardInv'
<1>1. losses' = losses + 1 /\ UNCHANGED <<mode, memory, answering, hid>>
  BY DEF DropGlyph, host
<1>2. losses' # 0
  BY <1>1, Bounds DEF BatchTypeInv
<1>3. \A k \in Keys : Known(k)' = Known(k)
  BY <1>1 DEF Known
<1>4. \A i \in DOMAIN answering' : SaysKnown(answering[i])'
  BY <1>1 DEF SaysKnown, Known, BoardInv
<1>. QED BY <1>1, <1>2, <1>3, <1>4 DEF BoardInv

LEMMA BoardInit ==
  ASSUME BatchInit
  PROVE  BoardInv
<1>1. \A k \in Keys : Known(k) = PowerOn /\ board[k] = PowerOn
  BY DEF BatchInit, Known
<1>2. ASSUME NEW k \in Keys
      PROVE  \E h : Replays(k, h)
  <2>1. PICK h : h = [i \in 0 .. 0 |-> PowerOn]
    OBVIOUS
  <2>2. Len(cdc) = 0
    BY DEF BatchInit
  <2>3. h \in [0 .. 0 -> KeyStates] /\ h[0] = PowerOn
    BY <2>1, PowerOnType
  <2>. QED BY <1>1, <2>2, <2>3 DEF Replays
<1>3. DOMAIN answering = {}
  BY DEF BatchInit
<1>. QED BY <1>1, <1>2, <1>3, PowerOnType DEF BoardInv, BatchInit

LEMMA BoardNext ==
  ASSUME BatchTypeInv, BoardInv, [BatchNext]_batchVars
  PROVE  BoardInv'
<1>1. CASE UNCHANGED <<mode, memory, cdc, hid, board, losses, answering>>
  BY <1>1, BoardSame DEF BoardInv
<1>2. UNCHANGED batchVars => UNCHANGED <<mode, memory, cdc, hid, board, losses, answering>>
  BY DEF batchVars, host, pad
<1>3. Flush => UNCHANGED <<mode, memory, cdc, hid, board, losses, answering>>
  BY DEF Flush, pad
<1>4. Tick => UNCHANGED <<mode, memory, cdc, hid, board, losses, answering>>
  BY DEF Tick, host
<1>. QED BY <1>1, <1>2, <1>3, <1>4, BoardCall, BoardClientCall, BoardAnswers, BoardAnswer,
            BoardStep, BoardDropGlyph DEF BatchNext

(* Over CDC, when nothing is on its way and nothing was lost, the board    *)
(* has of every key what the host remembers, however the calls, the        *)
(* answers and the board's loop took turns.                                *)
THEOREM BoardAlwaysAgrees == BatchSpec => []BoardAgrees
<1>1. BatchInit => BatchTypeInv /\ BoardInv
  BY TypeInit, BoardInit
<1>2. BatchTypeInv /\ BoardInv /\ [BatchNext]_batchVars => (BatchTypeInv /\ BoardInv)'
  BY TypeNext, BoardNext
<1>3. BatchTypeInv /\ BoardInv => BoardAgrees
  <2>1. SUFFICES ASSUME BoardInv, ~mode.overHID, Silent, losses = 0,
                        NEW k \in Keys, memory[k] # None
                 PROVE  board[k] = memory[k]
    BY DEF BoardAgrees
  <2>2. PICK h : Replays(k, h)
    BY <2>1 DEF BoardInv
  <2>3. Len(cdc) = 0
    BY <2>1 DEF Silent
  <2>. QED BY <2>1, <2>2, <2>3 DEF Replays, Known
<1>. QED BY <1>1, <1>2, <1>3, PTL DEF BatchSpec

-----------------------------------------------------------------------------
(* LateMeansLost.  A part is the glyph or the key state of a key; a layer  *)
(* change and the open batch name parts, a message brings one.             *)
Part(m)     == <<m.t, m.key>>
Named(g, s) == ({"glyph"} \X g) \union ({"state"} \X s)

(* The parts that the host remembers, that it has still to send, and that  *)
(* are on their way or asked for: q and h are what is on CDC and HID, and  *)
(* a the Batch incompletes that wait.                                      *)
Base   == IF mode.overHID THEN 0 ELSE 1
Stored == {x \in Named(Keys, Keys) :
             memory[x[2]] # None /\ (x[1] = "glyph" => memory[x[2]].glyph # None)}
Ahead  == {Part(m) : m \in ToSet(script) \cap DataMsgs}
Flying(q, h) == ((ToSet(script) \union ToSet(q) \union ToSet(answering)) \cap DataMsgs)
                \union ({h} \cap StateMsgs)
Coming(q, h, a) ==
  {Part(m) : m \in Flying(q, h)} \union UNION {Named(a[i].glyphs, a[i].states) : i \in DOMAIN a}
Nothing(q, h, a) == script = <<>> /\ answering = <<>> /\ q = <<>> /\ h = None /\ a = <<>>

(* Of a batch that lacks the parts L after n nudges: the host has them or  *)
(* will, each nudge but one was lost, and if no more was lost, everything  *)
(* comes.                                                                  *)
Served(L, n, q, h, a) ==
  /\ L \subseteq Stored \union Ahead
  /\ \A m \in ToSet(script) \cap DataMsgs :
       m.t = "state" /\ ~m.custom => <<"glyph", m.key>> \notin L
  /\ lost + 1 >= n + Base
  /\ lost >= n + Base \/ L \subseteq Coming(q, h, a)

(* A prompt host lets time pass only when it has nothing more to say, so   *)
(* each unit of time is a nudge as long as there are any.                  *)
OnTime(b) ==
  /\ b.age >= Deadline => b.quiet >= 1
  /\ b.nudges < Nudges => b.age <= b.nudges + (IF b.quiet >= 1 THEN 1 ELSE 0)

(* The one batch is ahead in the script, then on CDC before the data, then *)
(* open, and then ended: e says how.                                       *)
Round(q, h, a, b, e) ==
  /\ \A i \in DOMAIN script : script[i] \in BatchMsgs =>
       /\ i = 1 /\ q = <<>> /\ h = None /\ a = <<>> /\ answering = <<>> /\ b = None /\ e = "none"
       /\ lost = 0 /\ Served(Named(script[i].glyphs, script[i].states), 0, q, h, a)
  /\ \A i \in DOMAIN q : q[i] \in BatchMsgs =>
       /\ i = 1 /\ a = <<>> /\ answering = <<>> /\ b = None /\ e = "none"
       /\ Served(Named(q[i].glyphs, q[i].states), 0, q, h, a)
  /\ b # None =>
       /\ e = "none" /\ OnTime(b) /\ (b.quiet >= 1 => Nothing(q, h, a))
       /\ Served(Named(b.glyphs, b.states), b.nudges, q, h, a)
  /\ a # <<>> => script = <<>> /\ Len(a) = 1
  /\ e = "late" => lost >= Nudges + Base

Untouched == Nothing(cdc, hid, asks) /\ batch = None /\ ended = "none" /\ lost = 0

LateInv ==
  mode.prompt /\ sends <= 1 =>
    (sends = 0 => Untouched) /\ Round(cdc, hid, asks, batch, ended)

LEMMA SetOfAppend ==
  ASSUME NEW S, NEW s \in Seq(S), NEW x \in S
  PROVE  ToSet(Append(s, x)) = ToSet(s) \union {x}
<1>1. PICK n, r : /\ n \in Nat /\ n = Len(s) /\ r = Append(s, x)
                  /\ Len(r) = n + 1 /\ r[n + 1] = x
                  /\ \A i \in 1 .. n : r[i] = s[i]
                  /\ DOMAIN s = 1 .. n /\ DOMAIN r = 1 .. n + 1
  <2>1. PICK n : n = Len(s)
    OBVIOUS
  <2>2. PICK r : r = Append(s, x)
    OBVIOUS
  <2>3. n \in Nat /\ DOMAIN s = 1 .. n
    BY <2>1
  <2>4. Len(r) = n + 1 /\ r[n + 1] = x /\ \A i \in 1 .. n : r[i] = s[i]
    BY <2>1, <2>2
  <2>5. r \in Seq(S)
    BY <2>2
  <2>6. DOMAIN r = 1 .. n + 1
    BY <2>4, <2>5
  <2>. QED BY <2>1, <2>2, <2>3, <2>4, <2>6
<1>2. ASSUME NEW y \in ToSet(r)
      PROVE  y \in ToSet(s) \union {x}
  <2>1. PICK i \in 1 .. n + 1 : y = r[i]
    BY <1>1, <1>2 DEF ToSet
  <2>2. CASE i = n + 1
    BY <1>1, <2>1, <2>2
  <2>3. CASE i \in 1 .. n
    BY <1>1, <2>1, <2>3 DEF ToSet
  <2>. QED BY <1>1, <2>1, <2>2, <2>3
<1>3. ASSUME NEW y \in ToSet(s) \union {x}
      PROVE  y \in ToSet(r)
  <2>1. CASE y = x
    <3>1. n + 1 \in DOMAIN r /\ r[n + 1] = y
      BY <1>1, <2>1
    <3>. QED BY <3>1 DEF ToSet
  <2>2. CASE y \in ToSet(s)
    <3>1. PICK i \in 1 .. n : y = s[i]
      BY <1>1, <2>2 DEF ToSet
    <3>2. i \in DOMAIN r /\ r[i] = y
      BY <1>1, <3>1
    <3>. QED BY <3>2 DEF ToSet
  <2>. QED BY <1>3, <2>1, <2>2
<1>. QED BY <1>1, <1>2, <1>3

LEMMA SetOfTail ==
  ASSUME NEW S, NEW s \in Seq(S), s # <<>>
  PROVE  ToSet(s) = ToSet(Tail(s)) \union {Head(s)}
<1>1. PICK n, r : /\ n \in Nat /\ n + 1 = Len(s) /\ r = Tail(s)
                  /\ \A i \in 1 .. n : r[i] = s[i + 1]
                  /\ DOMAIN s = 1 .. n + 1 /\ DOMAIN r = 1 .. n
  <2>1. PICK n : n = Len(s) - 1
    OBVIOUS
  <2>2. PICK r : r = Tail(s)
    OBVIOUS
  <2>3. Len(s) \in Nat \ {0} /\ r \in Seq(S) /\ Len(r) = Len(s) - 1
        /\ \A i \in 1 .. Len(s) - 1 : r[i] = s[i + 1]
    BY <2>2, HeadAndTail
  <2>4. n \in Nat /\ n + 1 = Len(s) /\ Len(r) = n
    BY <2>1, <2>3
  <2>5. DOMAIN s = 1 .. n + 1 /\ DOMAIN r = 1 .. n
    BY <2>3, <2>4
  <2>. QED BY <2>1, <2>2, <2>3, <2>4, <2>5
<1>2. Head(s) = s[1]
  BY HeadAndTail
<1>3. ASSUME NEW y \in ToSet(s)
      PROVE  y \in ToSet(r) \union {s[1]}
  <2>1. PICK i \in 1 .. n + 1 : y = s[i]
    BY <1>1, <1>3 DEF ToSet
  <2>2. CASE i = 1
    BY <2>1, <2>2
  <2>3. CASE i # 1
    <3>1. PICK j \in 1 .. n : j + 1 = i
      <4>1. i - 1 \in 1 .. n /\ (i - 1) + 1 = i
        BY <1>1, <2>1, <2>3
      <4>. QED BY <4>1
    <3>2. j \in DOMAIN r /\ r[j] = y
      BY <1>1, <2>1, <3>1
    <3>. QED BY <3>2 DEF ToSet
  <2>. QED BY <2>2, <2>3
<1>4. ASSUME NEW y \in ToSet(r) \union {s[1]}
      PROVE  y \in ToSet(s)
  <2>1. CASE y = s[1]
    <3>1. 1 \in DOMAIN s
      BY <1>1
    <3>. QED BY <2>1, <3>1 DEF ToSet
  <2>2. CASE y \in ToSet(r)
    <3>1. PICK i \in 1 .. n : y = r[i]
      BY <1>1, <2>2 DEF ToSet
    <3>2. i + 1 \in DOMAIN s /\ s[i + 1] = y
      BY <1>1, <3>1
    <3>. QED BY <3>2 DEF ToSet
  <2>. QED BY <1>4, <2>1, <2>2
<1>. QED BY <1>1, <1>2, <1>3, <1>4

LEMMA SetOfNone == ToSet(<<>>) = {}
BY DEF ToSet

(* What is served stays served when less is lacking, and everything that   *)
(* is still lacking comes as before.                                       *)
LEMMA ServedLess ==
  ASSUME NEW L, NEW M \in SUBSET L, NEW n, NEW q, NEW h, NEW a, NEW r, NEW g, NEW c,
         Served(L, n, q, h, a),
         M \cap Coming(q, h, a) \subseteq Coming(r, g, c)
  PROVE  Served(M, n, r, g, c)
BY DEF Served

LEMMA NamedPart ==
  ASSUME NEW g \in SUBSET Keys, NEW s \in SUBSET Keys
  PROVE  /\ Named(g, s) \in SUBSET Named(Keys, Keys)
         /\ Named(g, s) = {} <=> g = {} /\ s = {}
         /\ \A x \in Named(g, s) : \/ x[1] = "glyph" /\ x[2] \in g /\ x = <<"glyph", x[2]>>
                                   \/ x[1] = "state" /\ x[2] \in s /\ x = <<"state", x[2]>>
         /\ \A k \in g : <<"glyph", k>> \in Named(g, s)
         /\ \A k \in s : <<"state", k>> \in Named(g, s)
<1>1. \A x \in Named(g, s) : \/ x[1] = "glyph" /\ x[2] \in g /\ x = <<"glyph", x[2]>>
                             \/ x[1] = "state" /\ x[2] \in s /\ x = <<"state", x[2]>>
  BY DEF Named
<1>2. /\ \A k \in g : <<"glyph", k>> \in Named(g, s)
      /\ \A k \in s : <<"state", k>> \in Named(g, s)
  BY DEF Named
<1>3. Named(g, s) \in SUBSET Named(Keys, Keys)
  BY DEF Named
<1>4. Named(g, s) = {} <=> g = {} /\ s = {}
  BY <1>1, <1>2
<1>. QED BY <1>1, <1>2, <1>3, <1>4

Msgs == DataMsgs \union BatchMsgs

LEMMA NoneComes ==
  ASSUME NEW q, NEW h, NEW a, Nothing(q, h, a)
  PROVE  Coming(q, h, a) = {}
<1>1. ToSet(script) = {} /\ ToSet(q) = {} /\ ToSet(answering) = {} /\ h \notin StateMsgs
  BY SetOfNone, NothingAssumption DEF Nothing
<1>2. Flying(q, h) = {}
  BY <1>1 DEF Flying
<1>3. DOMAIN a = {}
  BY DEF Nothing
<1>. QED BY <1>2, <1>3 DEF Coming

(* A data message that is taken brings its part, and the rest still comes. *)
LEMMA TakenComes ==
  ASSUME NEW q \in Seq(Msgs), q # <<>>, NEW h, NEW a, NEW x \in Coming(q, h, a),
         Head(q) \in DataMsgs => x # Part(Head(q))
  PROVE  x \in Coming(Tail(q), h, a)
<1>1. ToSet(q) = ToSet(Tail(q)) \union {Head(q)} /\ Head(q) \in Msgs
  BY SetOfTail, HeadAndTail
<1>2. CASE \E m \in Flying(q, h) : x = Part(m)
  <2>1. PICK m \in Flying(q, h) : x = Part(m)
    BY <1>2
  <2>2. m \in Flying(Tail(q), h)
    BY <1>1, <2>1 DEF Flying
  <2>. QED BY <2>1, <2>2 DEF Coming
<1>3. CASE \E i \in DOMAIN a : x \in Named(a[i].glyphs, a[i].states)
  BY <1>3 DEF Coming
<1>. QED BY <1>2, <1>3 DEF Coming

LEMMA ReportComes ==
  ASSUME NEW q, NEW h \in StateMsgs, NEW a, NEW x \in Coming(q, h, a), x # Part(h)
  PROVE  x \in Coming(q, None, a)
<1>1. CASE \E m \in Flying(q, h) : x = Part(m)
  <2>1. PICK m \in Flying(q, h) : x = Part(m)
    BY <1>1
  <2>2. m \in Flying(q, None)
    BY <2>1 DEF Flying
  <2>. QED BY <2>1, <2>2 DEF Coming
<1>2. CASE \E i \in DOMAIN a : x \in Named(a[i].glyphs, a[i].states)
  BY <1>2 DEF Coming
<1>. QED BY <1>1, <1>2 DEF Coming

(* What the open batch lacks after a data message.                         *)
LEMMA DataLeaves ==
  ASSUME NEW p \in Passes, p.batch # None, NEW m \in DataMsgs
  PROVE  LET b == Received(p, m).batch
         IN /\ Named(b.glyphs, b.states) \subseteq Named(p.batch.glyphs, p.batch.states)
            /\ Part(m) \notin Named(b.glyphs, b.states)
            /\ b.nudges = p.batch.nudges /\ b.age = p.batch.age /\ b.quiet = 0 /\ b # None
<1>1. p.batch \in OpenBatches
  BY DEF Passes
<1>2. PICK b : b = Received(p, m).batch
  OBVIOUS
<1>3. b # None
      /\ b = [p.batch EXCEPT !.glyphs = IF m.t = "glyph" THEN @ \ {m.key} ELSE @,
                             !.states = IF m.t = "state" THEN @ \ {m.key} ELSE @,
                             !.quiet = 0]
  BY <1>2, DataReceived
<1>4. /\ b.glyphs = (IF m.t = "glyph" THEN p.batch.glyphs \ {m.key} ELSE p.batch.glyphs)
      /\ b.states = (IF m.t = "state" THEN p.batch.states \ {m.key} ELSE p.batch.states)
      /\ b.nudges = p.batch.nudges /\ b.age = p.batch.age /\ b.quiet = 0
  BY <1>1, <1>3 DEF OpenBatches
<1>5. b.glyphs \subseteq p.batch.glyphs /\ b.states \subseteq p.batch.states
  BY <1>4
<1>6. Named(b.glyphs, b.states) \subseteq Named(p.batch.glyphs, p.batch.states)
  BY <1>5 DEF Named
<1>7. CASE m.t = "glyph"
  <2>1. m.key \notin b.glyphs
    BY <1>4, <1>7
  <2>. QED BY <1>2, <1>3, <1>4, <1>6, <1>7, <2>1 DEF Named, Part
<1>8. CASE m.t = "state"
  <2>1. m.key \notin b.states
    BY <1>4, <1>8
  <2>. QED BY <1>2, <1>3, <1>4, <1>6, <1>8, <2>1 DEF Named, Part
<1>. QED BY <1>7, <1>8, DataKinds

LEMMA RoundCdc ==
  ASSUME BatchTypeOK, NEW p \in Passes, NEW q \in Seq(Msgs), q # <<>>, NEW h, NEW a,
         Round(q, h, a, p.batch, p.ended)
  PROVE  Round(Tail(q), h, a, Received(p, Head(q)).batch, Received(p, Head(q)).ended)
<1>1. PICK r : r = Tail(q)
  OBVIOUS
<1>2. PICK m : m = Head(q)
  OBVIOUS
<1>3. /\ m \in Msgs /\ m = q[1] /\ 1 \in DOMAIN q /\ r \in Seq(Msgs)
      /\ \A i \in DOMAIN r : i + 1 \in DOMAIN q /\ i + 1 # 1 /\ r[i] = q[i + 1]
  <2>1. Len(q) \in Nat \ {0} /\ Len(r) = Len(q) - 1 /\ r \in Seq(Msgs)
        /\ \A i \in 1 .. Len(q) - 1 : r[i] = q[i + 1]
    BY <1>1, HeadAndTail
  <2>2. PICK n \in Nat : n + 1 = Len(q) /\ DOMAIN q = 1 .. n + 1 /\ DOMAIN r = 1 .. n
        /\ \A i \in 1 .. n : r[i] = q[i + 1]
    <3>1. PICK n : n = Len(q) - 1
      OBVIOUS
    <3>. QED BY <2>1, <3>1
  <2>3. \A i \in DOMAIN r : i + 1 \in DOMAIN q /\ i + 1 # 1 /\ r[i] = q[i + 1]
    BY <2>2
  <2>. QED BY <1>2, <2>1, <2>3, HeadAndTail
<1>4. PICK b, e : b = Received(p, m).batch /\ e = Received(p, m).ended
  OBVIOUS
<1>5. \A i \in DOMAIN script : script[i] \notin BatchMsgs
  BY DEF Round
<1>6. \A i \in DOMAIN r : r[i] \notin BatchMsgs
  BY <1>3 DEF Round
<1>7. a # <<>> => script = <<>> /\ Len(a) = 1
  BY DEF Round
<1>8. CASE m \in BatchMsgs
  <2>1. /\ a = <<>> /\ answering = <<>> /\ p.batch = None /\ p.ended = "none"
        /\ Served(Named(m.glyphs, m.states), 0, q, h, a)
    BY <1>3, <1>8 DEF Round
  <2>2. /\ b # None /\ e = "none"
        /\ b = [glyphs |-> m.glyphs, states |-> m.states, keys |-> m.glyphs \union m.states,
               pictures |-> m.glyphs, n |-> m.n, age |-> 0, quiet |-> 0, nudges |-> 0]
    BY <1>4, <1>8, <2>1, BatchReceived
  <2>3. b.glyphs = m.glyphs /\ b.states = m.states /\ b.age = 0 /\ b.quiet = 0 /\ b.nudges = 0
    BY <2>2
  <2>4. m \notin DataMsgs
    BY <1>8, DataKinds
  <2>5. Served(Named(m.glyphs, m.states), 0, r, h, a)
    <3>1. Coming(q, h, a) \subseteq Coming(r, h, a)
      BY <1>1, <1>2, <2>4, TakenComes
    <3>. QED BY <2>1, <3>1, ServedLess
  <2>6. OnTime(b)
    BY <2>3, BatchAssumption DEF OnTime
  <2>7. Round(r, h, a, b, e)
    <3>1. ~(b.quiet >= 1)
      BY <2>3
    <3>. QED BY <1>5, <1>6, <1>7, <2>2, <2>3, <2>5, <2>6, <3>1 DEF Round
  <2>. QED BY <1>1, <1>2, <1>4, <2>7
<1>9. CASE m \in DataMsgs
  <2>1. e = p.ended
    BY <1>4, <1>9, DataReceived
  <2>2. CASE p.batch = None
    <3>1. b = None
      BY <1>4, <1>9, <2>2, DataReceived
    <3>2. Round(r, h, a, b, e)
      BY <1>5, <1>6, <1>7, <2>1, <2>2, <3>1 DEF Round
    <3>. QED BY <1>1, <1>2, <1>4, <3>2
  <2>3. CASE p.batch # None
    <3>1. /\ Named(b.glyphs, b.states) \subseteq Named(p.batch.glyphs, p.batch.states)
          /\ Part(m) \notin Named(b.glyphs, b.states)
          /\ b.nudges = p.batch.nudges /\ b.age = p.batch.age /\ b.quiet = 0 /\ b # None
      BY <1>4, <1>9, <2>3, DataLeaves
    <3>2. /\ p.ended = "none" /\ OnTime(p.batch) /\ ~(p.batch.quiet >= 1)
          /\ Served(Named(p.batch.glyphs, p.batch.states), p.batch.nudges, q, h, a)
      BY <2>3 DEF Round, Nothing
    <3>3. Served(Named(b.glyphs, b.states), b.nudges, r, h, a)
      <4>1. Named(b.glyphs, b.states) \cap Coming(q, h, a) \subseteq Coming(r, h, a)
        BY <1>1, <1>2, <3>1, TakenComes
      <4>. QED BY <3>1, <3>2, <4>1, ServedLess
    <3>4. OnTime(b)
      BY <3>1, <3>2 DEF OnTime
    <3>5. Round(r, h, a, b, e)
      <4>1. ~(b.quiet >= 1)
        BY <3>1
      <4>. QED BY <1>5, <1>6, <1>7, <2>1, <2>3, <3>2, <3>3, <3>4, <4>1 DEF Round
    <3>. QED BY <1>1, <1>2, <1>4, <3>5
  <2>. QED BY <2>2, <2>3
<1>. QED BY <1>3, <1>8, <1>9 DEF Msgs

LEMMA RoundHid ==
  ASSUME BatchTypeOK, mode.overHID, NEW p \in Passes, NEW q, NEW h \in StateMsgs, NEW a,
         Round(q, h, a, p.batch, p.ended)
  PROVE  Round(q, None, a, Received(p, h).batch, Received(p, h).ended)
<1>1. h \in DataMsgs /\ h # None
  BY NothingAssumption DEF DataMsgs
<1>2. PICK b, e : b = Received(p, h).batch /\ e = Received(p, h).ended
  OBVIOUS
<1>3. \A i \in DOMAIN script : script[i] \notin BatchMsgs
  BY <1>1 DEF Round
<1>4. e = p.ended
  BY <1>1, <1>2, DataReceived
<1>5. a # <<>> => script = <<>> /\ Len(a) = 1
  BY DEF Round
<1>6. CASE p.batch = None
  <2>1. b = None
    BY <1>1, <1>2, <1>6, DataReceived
  <2>2. ASSUME NEW i \in DOMAIN q, q[i] \in BatchMsgs
        PROVE  Served(Named(q[i].glyphs, q[i].states), 0, q, None, a)
    <3>1. Served(Named(q[i].glyphs, q[i].states), 0, q, h, a)
      BY <2>2 DEF Round
    <3>2. lost >= 0 + Base
      BY Bounds DEF Base
    <3>. QED BY <3>1, <3>2 DEF Served
  <2>3. Round(q, None, a, b, e)
    BY <1>3, <1>4, <1>5, <1>6, <2>1, <2>2 DEF Round
  <2>. QED BY <1>2, <2>3
<1>7. CASE p.batch # None
  <2>1. /\ Named(b.glyphs, b.states) \subseteq Named(p.batch.glyphs, p.batch.states)
        /\ Part(h) \notin Named(b.glyphs, b.states)
        /\ b.nudges = p.batch.nudges /\ b.age = p.batch.age /\ b.quiet = 0 /\ b # None
    BY <1>1, <1>2, <1>7, DataLeaves
  <2>2. /\ p.ended = "none" /\ OnTime(p.batch) /\ ~(p.batch.quiet >= 1)
        /\ Served(Named(p.batch.glyphs, p.batch.states), p.batch.nudges, q, h, a)
    BY <1>1, <1>7 DEF Round, Nothing
  <2>3. Served(Named(b.glyphs, b.states), b.nudges, q, None, a)
    <3>1. Named(b.glyphs, b.states) \cap Coming(q, h, a) \subseteq Coming(q, None, a)
      BY <2>1, ReportComes
    <3>. QED BY <2>1, <2>2, <3>1, ServedLess
  <2>4. OnTime(b)
    BY <2>1, <2>2 DEF OnTime
  <2>5. \A i \in DOMAIN q : q[i] \notin BatchMsgs
    BY <1>7 DEF Round
  <2>6. Round(q, None, a, b, e)
    <3>1. ~(b.quiet >= 1)
      BY <2>1
    <3>. QED BY <1>3, <1>4, <1>5, <1>7, <2>2, <2>3, <2>4, <2>5, <3>1 DEF Round
  <2>. QED BY <1>2, <2>6
<1>. QED BY <1>6, <1>7

LEMMA RoundChecked ==
  ASSUME BatchTypeOK, NEW p \in Passes, NEW q, NEW h, NEW a \in Seq(Asks),
         Round(q, h, a, p.batch, p.ended)
  PROVE  Round(q, h, a \o Asked(p), Checked(p).batch, Checked(p).ended)
<1>1. PICK s : s = Asked(p)
  OBVIOUS
<1>2. PICK b, e : b = Checked(p).batch /\ e = Checked(p).ended
  OBVIOUS
<1>3. PICK c : c = a \o s
  OBVIOUS
<1>4. Base \in {0, 1} /\ lost \in Nat /\ Nudges \in Nat /\ Deadline \in Nat /\ Nudges < Deadline
  BY Bounds, BatchAssumption DEF Base
<1>5. s = <<>> => c = a
  BY <1>3
<1>6. CASE s = <<>> /\ b = p.batch /\ e = p.ended
  BY <1>1, <1>2, <1>3, <1>5, <1>6
<1>7. CASE p.batch # None /\ Complete(p.batch) /\ s = <<>> /\ b = None /\ e = "complete"
  <2>1. /\ \A i \in DOMAIN script : script[i] \notin BatchMsgs
        /\ \A i \in DOMAIN q : q[i] \notin BatchMsgs
        /\ a # <<>> => script = <<>> /\ Len(a) = 1
    BY <1>7 DEF Round
  <2>2. Round(q, h, c, b, e)
    BY <1>5, <1>7, <2>1 DEF Round
  <2>. QED BY <1>1, <1>2, <1>3, <2>2
<1>8. ASSUME p.batch # None, ~Complete(p.batch), p.batch.quiet >= 1
      PROVE  /\ Nothing(q, h, a) /\ OnTime(p.batch) /\ p.ended = "none"
             /\ Served(Named(p.batch.glyphs, p.batch.states), p.batch.nudges, q, h, a)
             /\ lost >= p.batch.nudges + Base
  <2>1. /\ Nothing(q, h, a) /\ OnTime(p.batch) /\ p.ended = "none"
        /\ Served(Named(p.batch.glyphs, p.batch.states), p.batch.nudges, q, h, a)
    BY <1>8 DEF Round
  <2>2. Named(p.batch.glyphs, p.batch.states) # {}
    <3>1. /\ \A k \in p.batch.glyphs : <<"glyph", k>> \in Named(p.batch.glyphs, p.batch.states)
          /\ \A k \in p.batch.states : <<"state", k>> \in Named(p.batch.glyphs, p.batch.states)
      BY DEF Named
    <3>2. p.batch.glyphs # {} \/ p.batch.states # {}
      BY <1>8 DEF Complete
    <3>. QED BY <3>1, <3>2
  <2>3. Coming(q, h, a) = {}
    BY <2>1, NoneComes
  <2>. QED BY <2>1, <2>2, <2>3 DEF Served
<1>9. p.batch # None => /\ p.batch \in OpenBatches /\ p.batch.nudges \in 0 .. Nudges
                        /\ p.batch.age \in 0 .. Deadline /\ p.batch.quiet \in 0 .. Deadline
  BY DEF Passes, OpenBatches
<1>10. CASE /\ p.batch # None /\ ~Complete(p.batch) /\ Late(p.batch)
            /\ s = <<>> /\ b = None /\ e = "late"
  <2>1. p.batch.age >= Deadline
    BY <1>10 DEF Late
  <2>2. OnTime(p.batch)
    BY <1>10 DEF Round
  <2>3. p.batch.quiet >= 1
    BY <2>1, <2>2 DEF OnTime
  <2>4. lost >= p.batch.nudges + Base
    BY <1>8, <1>10, <2>3
  <2>5. ~(p.batch.nudges < Nudges)
    BY <1>4, <1>9, <1>10, <2>1, <2>2 DEF OnTime
  <2>6. lost >= Nudges + Base
    BY <1>4, <1>9, <1>10, <2>4, <2>5
  <2>7. /\ \A i \in DOMAIN script : script[i] \notin BatchMsgs
        /\ \A i \in DOMAIN q : q[i] \notin BatchMsgs
        /\ a # <<>> => script = <<>> /\ Len(a) = 1
    BY <1>10 DEF Round
  <2>8. Round(q, h, c, b, e)
    BY <1>5, <1>10, <2>6, <2>7 DEF Round
  <2>. QED BY <1>1, <1>2, <1>3, <2>8
<1>11. CASE /\ p.batch # None /\ ~Complete(p.batch) /\ ~Late(p.batch) /\ Quiet(p.batch)
            /\ s = <<[glyphs |-> p.batch.glyphs, states |-> p.batch.states]>>
            /\ b # None /\ e = p.ended
            /\ b = [p.batch EXCEPT !.nudges = @ + 1, !.quiet = 0]
  <2>1. /\ b.glyphs = p.batch.glyphs /\ b.states = p.batch.states /\ b.age = p.batch.age
        /\ b.nudges = p.batch.nudges + 1 /\ b.quiet = 0
    BY <1>9, <1>11 DEF OpenBatches
  <2>2. p.batch.quiet >= 1 /\ p.batch.nudges < Nudges /\ ~(p.batch.age >= Deadline)
    BY <1>11 DEF Quiet, Late
  <2>3. /\ Nothing(q, h, a) /\ OnTime(p.batch) /\ p.ended = "none"
        /\ Served(Named(p.batch.glyphs, p.batch.states), p.batch.nudges, q, h, a)
        /\ lost >= p.batch.nudges + Base
    BY <1>8, <1>11, <2>2
  <2>4. c = <<[glyphs |-> b.glyphs, states |-> b.states]>>
    <3>1. a = <<>>
      BY <2>3 DEF Nothing
    <3>2. s = <<[glyphs |-> b.glyphs, states |-> b.states]>>
      BY <1>11, <2>1
    <3>. QED BY <1>3, <3>1, <3>2
  <2>5. Named(b.glyphs, b.states) \subseteq Coming(q, h, c)
    <3>1. 1 \in DOMAIN c /\ c[1].glyphs = b.glyphs /\ c[1].states = b.states
      BY <2>4
    <3>. QED BY <3>1 DEF Coming
  <2>6. Served(Named(b.glyphs, b.states), b.nudges, q, h, c)
    <3>1. lost + 1 >= b.nudges + Base
      BY <1>4, <1>9, <1>11, <2>1, <2>3
    <3>. QED BY <2>1, <2>3, <2>5, <3>1 DEF Served
  <2>7. OnTime(b)
    BY <1>9, <1>11, <2>1, <2>2, <2>3, <1>4 DEF OnTime
  <2>8. /\ \A i \in DOMAIN script : script[i] \notin BatchMsgs
        /\ \A i \in DOMAIN q : q[i] \notin BatchMsgs
    BY <1>11 DEF Round
  <2>9. script = <<>> /\ Len(c) = 1 /\ ~(b.quiet >= 1)
    BY <2>1, <2>3, <2>4 DEF Nothing
  <2>10. Round(q, h, c, b, e)
    BY <1>11, <2>3, <2>6, <2>7, <2>8, <2>9 DEF Round
  <2>. QED BY <1>1, <1>2, <1>3, <2>10
<1>. QED BY <1>1, <1>2, <1>6, <1>7, <1>10, <1>11, PassChecked

(* The host sends a message of data: it is on its way, or one is lost.     *)
LEMMA SentServed ==
  ASSUME BatchTypeInv, NEW m \in DataMsgs, Transmit(m), asks' = asks, mode' = mode,
         \/ ToSet(script) = ToSet(script') \union {m} /\ answering' = answering
         \/ ToSet(answering) = ToSet(answering') \union {m} /\ script' = script,
         NEW L, NEW n \in Nat, Served(L, n, cdc, hid, asks)
  PROVE  /\ lost' + 1 >= n + Base'
         /\ lost' >= n + Base' \/ L \subseteq Coming(cdc, hid, asks)'
<1>1. Base \in {0, 1} /\ Base' = Base /\ lost \in Nat
  BY Bounds DEF Base, BatchTypeInv
<1>2. lost + 1 >= n + Base
  BY DEF Served
<1>3. lost' = lost \/ lost' = lost + 1
  BY Transmitted
<1>4. CASE lost' = lost + 1
  BY <1>1, <1>2, <1>4
<1>5. CASE lost' = lost /\ lost >= n + Base
  BY <1>1, <1>2, <1>5
<1>6. CASE lost' = lost /\ L \subseteq Coming(cdc, hid, asks)
  <2>1. \/ /\ hid' = m /\ hid = None /\ m \in StateMsgs /\ cdc' = cdc
        \/ /\ hid' = hid /\ cdc' = Append(cdc, m)
    <3>1. lost # lost + 1
      BY <1>1
    <3>. QED BY <1>6, <3>1, Transmitted, DataKinds
  <2>2. Flying(cdc, hid) \subseteq Flying(cdc, hid)'
    <3>1. CASE hid' = m /\ hid = None /\ m \in StateMsgs /\ cdc' = cdc
      <4>1. None \notin StateMsgs
        BY NothingAssumption
      <4>. QED BY <3>1, <4>1 DEF Flying
    <3>2. CASE hid' = hid /\ cdc' = Append(cdc, m)
      <4>1. ToSet(cdc') = ToSet(cdc) \union {m}
        <5>1. cdc \in Seq(DataMsgs \union BatchMsgs) /\ m \in DataMsgs \union BatchMsgs
          BY DEF BatchTypeInv, BatchTypeOK
        <5>. QED BY <3>2, <5>1, SetOfAppend
      <4>. QED BY <3>2, <4>1 DEF Flying
    <3>. QED BY <2>1, <3>1, <3>2
  <2>3. Coming(cdc, hid, asks) \subseteq Coming(cdc, hid, asks)'
    BY <2>2 DEF Coming
  <2>. QED BY <1>1, <1>2, <1>6, <2>3
<1>. QED BY <1>3, <1>4, <1>5, <1>6 DEF Served

(* A call of the script: the host remembers what it sends.                 *)
LEMMA CalledServed ==
  ASSUME BatchTypeInv, script # <<>>, script' = Tail(script), Head(script) \in DataMsgs,
         Transmit(Head(script)), Remember(Head(script)),
         UNCHANGED <<mode, asks, answering>>,
         NEW L \in SUBSET Named(Keys, Keys), NEW n \in Nat, Served(L, n, cdc, hid, asks)
  PROVE  Served(L, n, cdc, hid, asks)'
<1>1. PICK m : m = Head(script)
  OBVIOUS
<1>2. ToSet(script) = ToSet(script') \union {m}
  BY <1>1, SetOfTail DEF BatchTypeInv, BatchTypeOK
<1>3. m \in DataMsgs /\ m.key \in Keys
  BY <1>1, DataKinds
<1>4. ASSUME NEW x \in L
      PROVE  x \in Stored' \union Ahead'
  <2>1. /\ x \in Named(Keys, Keys) /\ x[2] \in Keys /\ (x[1] = "glyph" \/ x[1] = "state")
        /\ x = <<x[1], x[2]>>
    BY DEF Named
  <2>2. CASE \E y \in ToSet(script') \cap DataMsgs : x = Part(y)
    BY <2>2 DEF Ahead
  <2>3. CASE x = Part(m)
    <3>1. memory'[m.key] # None /\ memory'[m.key] = WithData(Known(m.key), m)
      BY <1>1, <1>3, Remembered DEF BatchTypeInv
    <3>2. x[1] = m.t /\ x[2] = m.key
      BY <2>3 DEF Part
    <3>3. m.t = "glyph" => memory'[m.key].glyph # None
      <4>1. SUFFICES ASSUME m.t = "glyph"
                     PROVE  memory'[m.key].glyph # None
        OBVIOUS
      <4>2. m.glyph \in Versions
        BY <1>3, <4>1, DataKinds
      <4>3. m.glyph # None
        BY <4>2, BatchAssumption DEF Versions
      <4>4. PICK old \in KeyStates : old = Known(m.key)
        BY <1>3, KnownType DEF BatchTypeInv
      <4>5. memory'[m.key].glyph = m.glyph
        BY <3>1, <4>1, <4>4 DEF WithData, KeyStates
      <4>. QED BY <4>3, <4>5
    <3>. QED BY <2>1, <3>1, <3>2, <3>3 DEF Stored
  <2>4. CASE x \in Stored /\ x[2] # m.key
    <3>1. memory'[x[2]] = memory[x[2]]
      BY <1>1, <1>3, <2>1, <2>4, Remembered DEF BatchTypeInv
    <3>. QED BY <2>1, <2>4, <3>1 DEF Stored
  <2>5. CASE x \in Stored /\ x[2] = m.key /\ x # Part(m)
    <3>1. memory'[m.key] # None /\ memory'[m.key] = WithData(Known(m.key), m)
      BY <1>1, <1>3, Remembered DEF BatchTypeInv
    <3>2. CASE x[1] = "state"
      BY <2>1, <2>5, <3>1, <3>2 DEF Stored
    <3>3. CASE x[1] = "glyph"
      <4>1. m.t = "state" /\ m.custom \in BOOLEAN
        BY <1>3, <2>1, <2>5, <3>3, DataKinds DEF Part
      <4>2. x = <<"glyph", m.key>>
        BY <2>1, <2>5, <3>3
      <4>3. m.custom
        <5>1. m \in ToSet(script) \cap DataMsgs
          BY <1>2, <1>3
        <5>. QED BY <4>1, <4>2, <5>1 DEF Served
      <4>4. Known(m.key).glyph # None
        BY <2>5, <3>3 DEF Stored, Known
      <4>5. memory'[m.key].glyph = Known(m.key).glyph
        BY <3>1, <4>1, <4>3 DEF WithData
      <4>. QED BY <2>1, <2>5, <3>1, <4>4, <4>5 DEF Stored
    <3>. QED BY <2>1, <3>2, <3>3
  <2>6. x \in Stored \/ \E y \in ToSet(script) \cap DataMsgs : x = Part(y)
    BY DEF Served, Ahead
  <2>. QED BY <1>2, <2>2, <2>3, <2>4, <2>5, <2>6
<1>5. \A y \in ToSet(script') \cap DataMsgs :
        y.t = "state" /\ ~y.custom => <<"glyph", y.key>> \notin L
  BY <1>2 DEF Served
<1>6. /\ lost' + 1 >= n + Base'
      /\ lost' >= n + Base' \/ L \subseteq Coming(cdc, hid, asks)'
  BY <1>1, <1>2, <1>3, SentServed
<1>. QED BY <1>4, <1>5, <1>6 DEF Served

LEMMA AnsweredServed ==
  ASSUME BatchTypeInv, answering # <<>>, answering' = Tail(answering),
         Transmit(Head(answering)), UNCHANGED <<mode, memory, script, asks>>,
         NEW L, NEW n \in Nat, Served(L, n, cdc, hid, asks)
  PROVE  Served(L, n, cdc, hid, asks)'
<1>1. PICK m : m = Head(answering)
  OBVIOUS
<1>2. ToSet(answering) = ToSet(answering') \union {m} /\ m \in DataMsgs
  BY <1>1, SetOfTail, HeadAndTail DEF BatchTypeInv, BatchTypeOK
<1>3. /\ lost' + 1 >= n + Base'
      /\ lost' >= n + Base' \/ L \subseteq Coming(cdc, hid, asks)'
  BY <1>1, <1>2, SentServed
<1>. QED BY <1>3 DEF Served, Stored, Ahead

LEMMA LateInitially ==
  ASSUME BatchInit
  PROVE  LateInv
<1>1. /\ script = <<>> /\ answering = <<>> /\ cdc = <<>> /\ hid = None /\ asks = <<>>
      /\ batch = None /\ ended = "none" /\ lost = 0
  BY DEF BatchInit
<1>2. DOMAIN script = {} /\ DOMAIN cdc = {} /\ ended # "late"
  BY <1>1
<1>3. Round(cdc, hid, asks, batch, ended)
  BY <1>1, <1>2 DEF Round
<1>. QED BY <1>1, <1>3 DEF LateInv, Untouched, Nothing

(* The script s of a layer change: its Begin batch b, and then data that   *)
(* covers the parts that b names, all of it with the number v.             *)
Number(m) == IF m.t = "glyph" THEN m.glyph ELSE m.state
Proper(m) == m.states # {} /\ m.glyphs \subseteq m.states

Begins(s, b, v) ==
  /\ 1 \in DOMAIN s /\ s[1] = b /\ Proper(b) /\ b.n = v
  /\ \A i \in DOMAIN s : s[i] \in BatchMsgs => i = 1
  /\ \A x \in Named(b.glyphs, b.states) : \E m \in ToSet(s) \cap DataMsgs : x = Part(m)
  /\ \A m \in ToSet(s) \cap DataMsgs :
       /\ Number(m) = v
       /\ m.t = "state" /\ ~m.custom => <<"glyph", m.key>> \notin Named(b.glyphs, b.states)

LEMMA Scripted ==
  ASSUME BatchTypeInv, Flush
  PROVE  \E b \in BatchMsgs : Begins(script', b, sends + 1)
<1>1. sends + 1 \in Versions
  BY Bounds DEF Flush, BatchTypeInv
<1>2. PICK keys \in SUBSET Keys, glyphs \in SUBSET Keys :
        keys # {} /\ glyphs \subseteq keys /\ script' = Script(keys, glyphs, sends + 1)
  <2>1. PICK keys \in SUBSET Keys : /\ Cardinality(keys) >= 2
                                   /\ \E glyphs \in SUBSET keys :
                                        script' = Script(keys, glyphs, sends + 1)
    BY DEF Flush
  <2>2. keys # {}
    BY <2>1, FS_EmptySet
  <2>. QED BY <2>1, <2>2
<1>3. PICK v \in Versions : v = sends + 1
  BY <1>1
<1>4. PICK b, r : b = BatchMsg(glyphs, keys, v) /\ r = Calls(keys, glyphs, v)
  OBVIOUS
<1>5. Sends(r, keys, glyphs, v)
  <2>1. Sends(Calls(keys, glyphs, v), keys, glyphs, v)
    BY CallsHold
  <2>. QED BY <1>4, <2>1
<1>6. b \in BatchMsgs /\ b.glyphs = glyphs /\ b.states = keys /\ b.n = v
  <2>1. b = BatchMsg(glyphs, keys, v)
    BY <1>4
  <2>2. b \in BatchMsgs
    BY <2>1 DEF BatchMsgs
  <2>3. b.glyphs = glyphs /\ b.states = keys /\ b.n = v
    BY <2>1 DEF BatchMsg
  <2>. QED BY <2>2, <2>3
<1>7. script' = <<b>> \o r
  BY <1>2, <1>3, <1>4 DEF Script
<1>8. PICK n \in Nat : n = Len(r) /\ DOMAIN r = 1 .. n
  BY <1>5 DEF Sends
<1>9. /\ DOMAIN script' = 1 .. n + 1 /\ script'[1] = b
       /\ \A i \in 1 .. n : script'[i + 1] = r[i]
  <2>1. /\ Len(<<b>>) = 1 /\ <<b>> \in Seq(Msgs) /\ r \in Seq(Msgs) /\ <<b>>[1] = b
    BY <1>5, <1>6 DEF Msgs, Sends
  <2>2. script' \in Seq(Msgs) /\ Len(script') = n + 1
    BY <1>7, <1>8, <2>1
  <2>3. script'[1] = b
    BY <1>7, <1>8, <2>1
  <2>4. \A i \in 1 .. n : script'[i + 1] = r[i]
    BY <1>7, <1>8, <2>1
  <2>. QED BY <2>2, <2>3, <2>4
<1>10. \A i \in 2 .. n + 1 : \E j \in 1 .. n : script'[i] = r[j]
  <2>1. ASSUME NEW i \in 2 .. n + 1
        PROVE  \E j \in 1 .. n : script'[i] = r[j]
    <3>1. i - 1 \in 1 .. n /\ (i - 1) + 1 = i
      BY <1>8
    <3>. QED BY <1>9, <3>1
  <2>. QED BY <2>1
<1>11. \A i \in DOMAIN script' : script'[i] \in BatchMsgs => i = 1
  <2>1. ASSUME NEW i \in 2 .. n + 1
        PROVE  script'[i] \notin BatchMsgs
    <3>1. PICK j \in 1 .. n : script'[i] = r[j]
      BY <1>10
    <3>2. r[j] \in DataMsgs
      BY <1>5, <1>8 DEF Sends
    <3>. QED BY <3>1, <3>2, DataKinds
  <2>. QED BY <1>8, <1>9, <2>1
<1>12. ToSet(script') \cap DataMsgs \subseteq {r[j] : j \in DOMAIN r}
  <2>1. ASSUME NEW m \in DataMsgs, NEW i \in DOMAIN script', m = script'[i]
        PROVE  \E j \in DOMAIN r : m = r[j]
    <3>1. i # 1
      BY <1>6, <1>9, <2>1, DataKinds
    <3>2. i \in 2 .. n + 1
      BY <1>8, <1>9, <3>1
    <3>. QED BY <1>8, <1>10, <2>1, <3>2
  <2>. QED BY <2>1 DEF ToSet
<1>13. \A j \in DOMAIN r : r[j] \in ToSet(script') \cap DataMsgs
  <2>1. ASSUME NEW j \in DOMAIN r
        PROVE  r[j] \in ToSet(script') \cap DataMsgs
    <3>1. j + 1 \in DOMAIN script' /\ script'[j + 1] = r[j] /\ r[j] \in DataMsgs
      BY <1>5, <1>8, <1>9 DEF Sends
    <3>. QED BY <3>1 DEF ToSet
  <2>. QED BY <2>1
<1>14. ASSUME NEW x \in Named(glyphs, keys)
       PROVE  \E m \in ToSet(script') \cap DataMsgs : x = Part(m)
  <2>1. \/ x[2] \in glyphs /\ x = <<"glyph", x[2]>>
        \/ x[2] \in keys /\ x = <<"state", x[2]>>
    BY NamedPart
  <2>2. CASE x[2] \in glyphs /\ x = <<"glyph", x[2]>>
    <3>1. PICK j \in DOMAIN r : r[j].t = "glyph" /\ r[j].key = x[2]
      BY <1>5, <2>2 DEF Sends
    <3>2. Part(r[j]) = <<"glyph", x[2]>>
      BY <3>1 DEF Part
    <3>. QED BY <1>13, <2>2, <3>2
  <2>3. CASE x[2] \in keys /\ x = <<"state", x[2]>>
    <3>1. PICK j \in DOMAIN r : r[j].t = "state" /\ r[j].key = x[2]
      BY <1>5, <2>3 DEF Sends
    <3>2. Part(r[j]) = <<"state", x[2]>>
      BY <3>1 DEF Part
    <3>. QED BY <1>13, <2>3, <3>2
  <2>. QED BY <2>1, <2>2, <2>3
<1>15. \A m \in ToSet(script') \cap DataMsgs :
         m.t = "state" /\ ~m.custom => <<"glyph", m.key>> \notin Named(glyphs, keys)
  <2>1. ASSUME NEW m \in ToSet(script') \cap DataMsgs, m.t = "state", ~m.custom
        PROVE  <<"glyph", m.key>> \notin Named(glyphs, keys)
    <3>1. PICK j \in DOMAIN r : m = r[j]
      BY <1>12
    <3>2. m.key \notin glyphs
      BY <1>5, <2>1, <3>1 DEF Sends
    <3>. QED BY <3>2 DEF Named
  <2>. QED BY <2>1
<1>16. ASSUME NEW m \in ToSet(script') \cap DataMsgs
       PROVE  Number(m) = v
  <2>1. PICK j \in DOMAIN r : m = r[j]
    BY <1>12
  <2>2. \/ m.t = "glyph" /\ m.glyph = v
        \/ m.t = "state" /\ m.state = v
    BY <1>5, <2>1 DEF Sends
  <2>. QED BY <2>2 DEF Number
<1>17. Begins(script', b, v)
  <2>1. 1 \in DOMAIN script'
    BY <1>8, <1>9
  <2>2. Proper(b)
    BY <1>2, <1>6 DEF Proper
  <2>. QED BY <1>6, <1>9, <1>11, <1>14, <1>15, <1>16, <2>1, <2>2 DEF Begins
<1>. QED BY <1>3, <1>6, <1>17

LEMMA LateFlush ==
  ASSUME BatchTypeInv, LateInv, Flush
  PROVE  LateInv'
<1>1. sends' = sends + 1 /\ sends \in Nat /\ sends + 1 \in Versions
  BY Bounds DEF Flush, BatchTypeInv, Versions
<1>2. SUFFICES ASSUME mode.prompt, sends = 0
               PROVE  sends' # 0 /\ Round(cdc, hid, asks, batch, ended)'
  BY <1>1 DEF LateInv, Flush
<1>3. /\ script = <<>> /\ answering = <<>> /\ cdc = <<>> /\ hid = None /\ asks = <<>>
      /\ batch = None /\ ended = "none" /\ lost = 0
  BY <1>1, <1>2 DEF LateInv, Untouched, Nothing
<1>4. UNCHANGED <<mode, memory, answering, cdc, hid, asks, batch, ended, lost>>
  BY DEF Flush, pad
<1>5. PICK b \in BatchMsgs : Begins(script', b, sends + 1)
  BY Scripted
<1>6. Served(Named(b.glyphs, b.states), 0, cdc, hid, asks)'
  <2>1. lost' + 1 >= 0 + Base'
    BY <1>3, <1>4 DEF Base
  <2>2. Named(b.glyphs, b.states) \subseteq Ahead'
    BY <1>5 DEF Ahead, Begins
  <2>3. Named(b.glyphs, b.states) \subseteq Coming(cdc, hid, asks)'
    BY <1>5 DEF Coming, Flying, Begins
  <2>. QED BY <1>5, <2>1, <2>2, <2>3 DEF Served, Begins
<1>7. DOMAIN cdc' = {} /\ asks' = <<>> /\ ended' = "none" /\ batch' = None /\ cdc' = <<>>
      /\ hid' = None /\ answering' = <<>> /\ lost' = 0
  BY <1>3, <1>4
<1>8. Round(cdc, hid, asks, batch, ended)'
  BY <1>5, <1>6, <1>7 DEF Round, Begins
<1>. QED BY <1>1, <1>2, <1>8

LEMMA LateClientCall ==
  ASSUME BatchTypeInv, LateInv, ClientCall
  PROVE  LateInv'
<1>1. sends' = sends + 1 /\ sends \in Nat /\ sends + 1 \in Versions
  BY Bounds DEF ClientCall, BatchTypeInv, Versions
<1>2. SUFFICES ASSUME mode.prompt, sends = 0
               PROVE  sends' # 0 /\ Round(cdc, hid, asks, batch, ended)'
  BY <1>1 DEF LateInv, ClientCall
<1>3. /\ script = <<>> /\ answering = <<>> /\ cdc = <<>> /\ hid = None /\ asks = <<>>
      /\ batch = None /\ ended = "none" /\ lost = 0
  BY <1>1, <1>2 DEF LateInv, Untouched, Nothing
<1>4. UNCHANGED <<script, asks, answering, batch, ended>>
  BY DEF ClientCall, pad
<1>5. PICK k \in Keys, c \in BOOLEAN :
        Transmit(StateMsg(k, sends + 1, c)) /\ Remember(StateMsg(k, sends + 1, c))
  BY DEF ClientCall
<1>6. PICK m : m = StateMsg(k, sends + 1, c)
  OBVIOUS
<1>7. m \in DataMsgs /\ Transmit(m)
  BY <1>1, <1>5, <1>6 DEF DataMsgs, StateMsgs
<1>8. \A i \in DOMAIN cdc' : cdc'[i] \notin BatchMsgs
  <2>1. m \notin BatchMsgs
    BY <1>7, DataKinds
  <2>2. cdc' = <<>> \/ cdc' = <<m>>
    BY <1>3, <1>7, Transmitted
  <2>. QED BY <2>1, <2>2
<1>9. DOMAIN script' = {} /\ ended' = "none" /\ batch' = None /\ asks' = <<>>
  BY <1>3, <1>4
<1>10. Round(cdc, hid, asks, batch, ended)'
  BY <1>8, <1>9 DEF Round
<1>. QED BY <1>1, <1>2, <1>10

LEMMA LateCall ==
  ASSUME BatchTypeInv, LateInv, Call
  PROVE  LateInv'
<1>1. UNCHANGED <<mode, asks, answering, board, batch, ended, sends>> /\ answering = <<>>
      /\ script # <<>> /\ script' = Tail(script) /\ sends \in Nat
  BY Bounds DEF Call, LockFree, pad, BatchTypeInv, Versions
<1>2. SUFFICES ASSUME mode.prompt, sends <= 1
               PROVE  sends # 0 /\ Round(cdc, hid, asks, batch, ended)'
  BY <1>1 DEF LateInv
<1>3. Round(cdc, hid, asks, batch, ended) /\ sends # 0
  BY <1>1, <1>2 DEF LateInv, Untouched, Nothing
<1>4. PICK m : m = Head(script)
  OBVIOUS
<1>5. m \in Msgs /\ m = script[1] /\ 1 \in DOMAIN script
      /\ \A i \in DOMAIN script' :
           i + 1 \in DOMAIN script /\ i + 1 # 1 /\ script'[i] = script[i + 1]
  <2>1. Len(script) \in Nat \ {0} /\ Len(script') = Len(script) - 1 /\ script' \in Seq(Msgs)
        /\ \A i \in 1 .. Len(script) - 1 : script'[i] = script[i + 1]
    BY <1>1, HeadAndTail DEF BatchTypeInv, BatchTypeOK, Msgs
  <2>2. PICK n \in Nat : DOMAIN script = 1 .. n + 1 /\ DOMAIN script' = 1 .. n
        /\ \A i \in 1 .. n : script'[i] = script[i + 1]
    <3>1. PICK n : n = Len(script) - 1
      OBVIOUS
    <3>2. n \in Nat /\ Len(script) = n + 1 /\ Len(script') = n
      BY <2>1, <3>1
    <3>3. DOMAIN script = 1 .. n + 1
      BY <3>2 DEF BatchTypeInv, BatchTypeOK
    <3>4. DOMAIN script' = 1 .. n
      BY <2>1, <3>2
    <3>. QED BY <2>1, <3>1, <3>2, <3>3, <3>4
  <2>3. \A i \in DOMAIN script' :
          i + 1 \in DOMAIN script /\ i + 1 # 1 /\ script'[i] = script[i + 1]
    BY <2>2
  <2>4. m \in Msgs /\ m = script[1] /\ 1 \in DOMAIN script
    BY <1>1, <1>4, HeadAndTail DEF BatchTypeInv, BatchTypeOK, Msgs
  <2>. QED BY <2>3, <2>4
<1>6. \A i \in DOMAIN script' : script'[i] \notin BatchMsgs
  BY <1>3, <1>5 DEF Round
<1>7. asks = <<>> /\ asks' = <<>>
  BY <1>1, <1>3 DEF Round
<1>8. ToSet(script) = ToSet(script') \union {m}
  BY <1>1, <1>4, SetOfTail DEF BatchTypeInv, BatchTypeOK
<1>9. CASE m \in BatchMsgs
  <2>1. /\ cdc = <<>> /\ hid = None /\ batch = None /\ ended = "none" /\ lost = 0
        /\ Served(Named(m.glyphs, m.states), 0, cdc, hid, asks)
    BY <1>3, <1>5, <1>9 DEF Round
  <2>2. cdc' = Append(cdc, m) /\ lost' = 0 /\ UNCHANGED <<memory, hid>>
    BY <1>4, <1>9, BatchKinds DEF Call
  <2>3. m \notin DataMsgs
    BY <1>9, DataKinds
  <2>4. cdc' = <<m>>
    BY <2>1, <2>2
  <2>5. ToSet(script) \cap DataMsgs = ToSet(script') \cap DataMsgs
    BY <1>8, <2>3
  <2>6. Coming(cdc, hid, asks) \subseteq Coming(cdc, hid, asks)'
    <3>1. ToSet(cdc) = {}
      BY <2>1, SetOfNone
    <3>2. Flying(cdc, hid) \subseteq Flying(cdc, hid)'
      BY <1>1, <2>2, <2>5, <3>1 DEF Flying
    <3>. QED BY <1>1, <3>2 DEF Coming
  <2>7. Served(Named(m.glyphs, m.states), 0, cdc, hid, asks)'
    BY <1>1, <2>1, <2>2, <2>5, <2>6 DEF Served, Stored, Ahead, Base
  <2>8. Round(cdc, hid, asks, batch, ended)'
    <3>1. \A i \in DOMAIN cdc' : i = 1 /\ cdc'[i] = m
      BY <2>4
    <3>2. ended' = "none" /\ batch' = None /\ answering' = <<>>
      BY <1>1, <2>1
    <3>. QED BY <1>6, <1>7, <2>7, <3>1, <3>2 DEF Round
  <2>. QED BY <1>3, <2>8
<1>10. CASE m \in DataMsgs
  <2>1. Transmit(m) /\ Remember(m)
    <3>1. m.t # "batch"
      BY <1>10, DataKinds
    <3>. QED BY <1>4, <3>1 DEF Call
  <2>2. ASSUME NEW L \in SUBSET Named(Keys, Keys), NEW n \in Nat, Served(L, n, cdc, hid, asks)
        PROVE  Served(L, n, cdc, hid, asks)'
    BY <1>1, <1>4, <1>10, <2>1, <2>2, CalledServed
  <2>3. ASSUME NEW i \in DOMAIN cdc', NEW c \in BatchMsgs, c = cdc'[i]
        PROVE  /\ i = 1 /\ batch = None /\ ended = "none"
               /\ Served(Named(c.glyphs, c.states), 0, cdc, hid, asks)'
    <3>1. i \in DOMAIN cdc /\ cdc[i] = cdc'[i]
      <4>1. CASE cdc' = cdc
        BY <2>3, <4>1
      <4>2. CASE cdc' = Append(cdc, m)
        <5>1. Append(cdc, m)[Len(cdc) + 1] = m /\ m \notin BatchMsgs
          BY <1>10, DataKinds DEF BatchTypeInv, BatchTypeOK
        <5>2. i # Len(cdc) + 1
          BY <2>3, <4>2, <5>1
        <5>3. cdc \in Seq(DataMsgs \union BatchMsgs)
          BY DEF BatchTypeInv, BatchTypeOK
        <5>. QED BY <2>3, <4>2, <5>2, <5>3
      <4>. QED BY <1>10, <2>1, <4>1, <4>2, Transmitted
    <3>2. /\ i = 1 /\ batch = None /\ ended = "none"
          /\ Served(Named(c.glyphs, c.states), 0, cdc, hid, asks)
      BY <1>3, <2>3, <3>1 DEF Round
    <3>3. Named(c.glyphs, c.states) \in SUBSET Named(Keys, Keys)
      BY BatchKinds, NamedPart
    <3>4. Served(Named(c.glyphs, c.states), 0, cdc, hid, asks)'
      BY <2>2, <3>2, <3>3
    <3>. QED BY <3>2, <3>4
  <2>4. ASSUME batch # None, NEW b, b = batch
        PROVE  /\ ended = "none" /\ OnTime(batch) /\ ~(batch.quiet >= 1)
               /\ Served(Named(b.glyphs, b.states), b.nudges, cdc, hid, asks)'
    <3>1. /\ ended = "none" /\ OnTime(batch) /\ ~(batch.quiet >= 1)
          /\ Served(Named(batch.glyphs, batch.states), batch.nudges, cdc, hid, asks)
      BY <1>1, <1>3, <2>4 DEF Round, Nothing
    <3>2. b \in OpenBatches
      BY <2>4 DEF BatchTypeInv, BatchTypeOK
    <3>3. Named(b.glyphs, b.states) \in SUBSET Named(Keys, Keys) /\ b.nudges \in Nat
      BY <3>2, BatchAssumption, NamedPart DEF OpenBatches
    <3>4. Served(Named(b.glyphs, b.states), b.nudges, cdc, hid, asks)'
      BY <2>2, <2>4, <3>1, <3>3
    <3>. QED BY <3>1, <3>4
  <2>5. ended = "late" => lost' >= Nudges + Base'
    <3>1. /\ lost' \in {lost, lost + 1} /\ lost \in Nat
          /\ Base' = Base /\ Base \in {0, 1} /\ Nudges \in Nat
      BY <1>1, <1>10, <2>1, Transmitted, Bounds, BatchAssumption DEF Base, BatchTypeInv
    <3>2. ended = "late" => lost >= Nudges + Base
      BY <1>3 DEF Round
    <3>. QED BY <3>1, <3>2
  <2>6. Round(cdc, hid, asks, batch, ended)'
    <3>1. batch' = batch /\ ended' = ended /\ answering' = <<>>
      BY <1>1
    <3>2. OnTime(batch) => OnTime(batch)'
      BY <3>1 DEF OnTime
    <3>3. batch' # None =>
            /\ ended' = "none" /\ OnTime(batch)' /\ ~(batch'.quiet >= 1)
            /\ \A b : b = batch' => Served(Named(b.glyphs, b.states), b.nudges, cdc, hid, asks)'
      BY <2>4, <3>1, <3>2
    <3>4. \A i \in DOMAIN cdc' : cdc'[i] \in BatchMsgs =>
            /\ i = 1 /\ asks' = <<>> /\ answering' = <<>> /\ batch' = None /\ ended' = "none"
            /\ \A c : c = cdc'[i] => Served(Named(c.glyphs, c.states), 0, cdc, hid, asks)'
      BY <1>7, <2>3, <3>1
    <3>. QED BY <1>6, <1>7, <2>5, <3>1, <3>3, <3>4 DEF Round
  <2>. QED BY <1>3, <2>6
<1>. QED BY <1>5, <1>9, <1>10 DEF Msgs

LEMMA LateAnswers ==
  ASSUME BatchTypeInv, LateInv, NEW i \in DOMAIN asks, HandleBatchIncomplete(i)
  PROVE  LateInv'
<1>1. UNCHANGED <<mode, memory, script, cdc, hid, board, batch, ended, lost, sends>>
      /\ answering = <<>>
  BY DEF HandleBatchIncomplete, LockFree, pad
<1>2. asks # <<>> /\ asks \in Seq(Asks)
  BY DEF BatchTypeInv, BatchTypeOK
<1>3. SUFFICES ASSUME mode.prompt, sends <= 1
               PROVE  sends # 0 /\ Round(cdc, hid, asks, batch, ended)'
  BY <1>1 DEF LateInv
<1>4. Round(cdc, hid, asks, batch, ended) /\ sends # 0
  BY <1>2, <1>3 DEF LateInv, Untouched, Nothing
<1>5. script = <<>> /\ Len(asks) = 1
  BY <1>2, <1>4 DEF Round
<1>6. i = 1 /\ DOMAIN asks = {1}
  BY <1>2, <1>5
<1>7. asks' = <<>>
  BY <1>2, <1>5, <1>6 DEF HandleBatchIncomplete, RemoveAt
<1>8. PICK ask \in Asks : ask = asks[1]
  BY <1>2, <1>6
<1>9. ask.glyphs \in SUBSET Keys /\ ask.states \in SUBSET Keys
  BY <1>8 DEF Asks
<1>10. PICK r : r = AnswersWith(ask.glyphs, ask.states)
  OBVIOUS
<1>11. answering' = r
  BY <1>6, <1>8, <1>10 DEF HandleBatchIncomplete, Answers
<1>12. Says(r, ask.glyphs, ask.states)
  BY <1>9, <1>10, AnswersHold DEF BatchTypeInv
<1>13. ToSet(script) = {} /\ ToSet(answering) = {}
  BY <1>1, <1>5, SetOfNone
<1>14. ASSUME NEW L \in SUBSET Named(Keys, Keys), NEW n \in Nat, Served(L, n, cdc, hid, asks)
       PROVE  Served(L, n, cdc, hid, asks)'
  <2>1. L \subseteq Stored
    BY <1>13, <1>14 DEF Served, Ahead
  <2>2. ASSUME NEW x \in L, x \in Coming(cdc, hid, asks)
        PROVE  x \in Coming(cdc, hid, asks)'
    <3>1. CASE \E m \in Flying(cdc, hid) : x = Part(m)
      <4>1. PICK m \in Flying(cdc, hid) : x = Part(m)
        BY <3>1
      <4>2. m \in Flying(cdc, hid)'
        BY <1>1, <1>13, <4>1 DEF Flying
      <4>. QED BY <4>1, <4>2 DEF Coming
    <3>2. CASE x \in Named(ask.glyphs, ask.states)
      <4>1. /\ memory[x[2]] # None /\ (x[1] = "glyph" => memory[x[2]].glyph # None)
        BY <2>1 DEF Stored
      <4>2. \/ x[1] = "glyph" /\ x[2] \in ask.glyphs /\ x = <<"glyph", x[2]>>
            \/ x[1] = "state" /\ x[2] \in ask.states /\ x = <<"state", x[2]>>
        BY <1>9, <3>2, NamedPart
      <4>3. PICK j \in DOMAIN r : r[j].t = x[1] /\ r[j].key = x[2]
        BY <1>12, <4>1, <4>2 DEF Says
      <4>4. x = Part(r[j])
        BY <4>2, <4>3 DEF Part
      <4>5. r[j] \in ToSet(answering') \cap DataMsgs
        BY <1>11, <1>12 DEF Says, ToSet
      <4>6. r[j] \in Flying(cdc, hid)'
        BY <4>5 DEF Flying
      <4>. QED BY <4>4, <4>6 DEF Coming
    <3>. QED BY <1>6, <1>8, <2>2, <3>1, <3>2 DEF Coming
  <2>. QED BY <1>1, <1>14, <2>2 DEF Served, Stored, Ahead, Base
<1>15. \A j \in DOMAIN cdc : cdc[j] \notin BatchMsgs
  BY <1>2, <1>4 DEF Round
<1>16. ASSUME batch # None, NEW b, b = batch
       PROVE  /\ ended = "none" /\ OnTime(batch) /\ ~(batch.quiet >= 1)
              /\ Served(Named(b.glyphs, b.states), b.nudges, cdc, hid, asks)'
  <2>1. /\ ended = "none" /\ OnTime(batch) /\ ~(batch.quiet >= 1)
        /\ Served(Named(b.glyphs, b.states), b.nudges, cdc, hid, asks)
    BY <1>2, <1>4, <1>16 DEF Round, Nothing
  <2>2. b \in OpenBatches
    BY <1>16 DEF BatchTypeInv, BatchTypeOK
  <2>3. Named(b.glyphs, b.states) \in SUBSET Named(Keys, Keys) /\ b.nudges \in Nat
    BY <2>2, BatchAssumption, NamedPart DEF OpenBatches
  <2>. QED BY <1>14, <2>1, <2>3
<1>17. Round(cdc, hid, asks, batch, ended)'
  <2>1. DOMAIN script' = {} /\ (OnTime(batch) => OnTime(batch)')
    BY <1>1, <1>5 DEF OnTime
  <2>2. batch' # None =>
          /\ ended' = "none" /\ OnTime(batch)' /\ ~(batch'.quiet >= 1)
          /\ \A b : b = batch' => Served(Named(b.glyphs, b.states), b.nudges, cdc, hid, asks)'
    BY <1>1, <1>16, <2>1
  <2>3. ended' = "late" => lost' >= Nudges + Base'
    BY <1>1, <1>4 DEF Round, Base
  <2>4. \A j \in DOMAIN cdc' : cdc'[j] \notin BatchMsgs
    BY <1>1, <1>15
  <2>. QED BY <1>7, <2>1, <2>2, <2>3, <2>4 DEF Round
<1>. QED BY <1>4, <1>17

LEMMA LateAnswer ==
  ASSUME BatchTypeInv, LateInv, Answer
  PROVE  LateInv'
<1>1. UNCHANGED <<mode, memory, script, asks, board, batch, ended, sends>>
      /\ answering # <<>> /\ answering' = Tail(answering) /\ Transmit(Head(answering))
  BY DEF Answer, pad
<1>2. Head(answering) \in DataMsgs
  BY <1>1, HeadAndTail DEF BatchTypeInv, BatchTypeOK
<1>3. SUFFICES ASSUME mode.prompt, sends <= 1
               PROVE  sends # 0 /\ Round(cdc, hid, asks, batch, ended)'
  BY <1>1 DEF LateInv
<1>4. Round(cdc, hid, asks, batch, ended) /\ sends # 0
  BY <1>1, <1>3 DEF LateInv, Untouched, Nothing
<1>5. /\ \A i \in DOMAIN script : script[i] \notin BatchMsgs
      /\ \A i \in DOMAIN cdc : cdc[i] \notin BatchMsgs
      /\ asks # <<>> => script = <<>> /\ Len(asks) = 1
  BY <1>1, <1>4 DEF Round
<1>6. \A i \in DOMAIN cdc' : cdc'[i] \notin BatchMsgs
  <2>1. PICK m : m = Head(answering)
    OBVIOUS
  <2>2. CASE cdc' = cdc
    BY <1>5, <2>2
  <2>3. CASE cdc' = Append(cdc, m)
    <3>1. cdc \in Seq(DataMsgs \union BatchMsgs)
      BY DEF BatchTypeInv, BatchTypeOK
    <3>2. m \notin BatchMsgs /\ m \in DataMsgs \union BatchMsgs
      BY <1>2, <2>1, DataKinds
    <3>3. ASSUME NEW i \in DOMAIN cdc'
          PROVE  cdc'[i] \notin BatchMsgs
      <4>1. \/ i \in DOMAIN cdc /\ cdc'[i] = cdc[i]
            \/ cdc'[i] = m
        BY <2>3, <3>1, <3>2
      <4>. QED BY <1>5, <3>2, <4>1
    <3>. QED BY <3>3
  <2>. QED BY <1>1, <1>2, <2>1, <2>2, <2>3, Transmitted
<1>7. ASSUME batch # None, NEW b, b = batch
      PROVE  /\ ended = "none" /\ OnTime(batch) /\ ~(batch.quiet >= 1)
             /\ Served(Named(b.glyphs, b.states), b.nudges, cdc, hid, asks)'
  <2>1. /\ ended = "none" /\ OnTime(batch) /\ ~(batch.quiet >= 1)
        /\ Served(Named(b.glyphs, b.states), b.nudges, cdc, hid, asks)
    BY <1>1, <1>4, <1>7 DEF Round, Nothing
  <2>2. b \in OpenBatches
    BY <1>7 DEF BatchTypeInv, BatchTypeOK
  <2>3. b.nudges \in Nat
    BY <2>2, BatchAssumption DEF OpenBatches
  <2>. QED BY <1>1, <2>1, <2>3, AnsweredServed
<1>8. ended = "late" => lost' >= Nudges + Base'
  <2>1. /\ lost' \in {lost, lost + 1} /\ lost \in Nat
        /\ Base' = Base /\ Base \in {0, 1} /\ Nudges \in Nat
    BY <1>1, <1>2, Transmitted, Bounds, BatchAssumption DEF Base, BatchTypeInv
  <2>2. ended = "late" => lost >= Nudges + Base
    BY <1>4 DEF Round
  <2>. QED BY <2>1, <2>2
<1>9. Round(cdc, hid, asks, batch, ended)'
  <2>1. OnTime(batch) => OnTime(batch)'
    BY <1>1 DEF OnTime
  <2>2. batch' # None =>
          /\ ended' = "none" /\ OnTime(batch)' /\ ~(batch'.quiet >= 1)
          /\ \A b : b = batch' => Served(Named(b.glyphs, b.states), b.nudges, cdc, hid, asks)'
    BY <1>1, <1>7, <2>1
  <2>3. /\ \A i \in DOMAIN script' : script'[i] \notin BatchMsgs
        /\ asks' # <<>> => script' = <<>> /\ Len(asks') = 1
        /\ ended' = ended
    BY <1>1, <1>5
  <2>. QED BY <1>6, <1>8, <2>2, <2>3 DEF Round
<1>. QED BY <1>4, <1>9

(* The board's loop and the clock leave what the host has as it is.        *)
LEMMA ServedSame ==
  ASSUME UNCHANGED <<mode, memory, script, answering, lost>>,
         NEW L, NEW n, NEW q, NEW h, NEW a, Served(L, n, q, h, a)
  PROVE  Served(L, n, q, h, a)'
<1>1. Base' = Base /\ Stored' = Stored /\ Ahead' = Ahead /\ Flying(q, h)' = Flying(q, h)
  BY DEF Base, Stored, Ahead, Flying
<1>2. Coming(q, h, a)' = Coming(q, h, a)
  BY <1>1 DEF Coming
<1>. QED BY <1>1, <1>2 DEF Served

LEMMA RoundSame ==
  ASSUME UNCHANGED <<mode, memory, script, answering, lost>>,
         NEW q, NEW h, NEW a, NEW b, NEW e, Round(q, h, a, b, e)
  PROVE  Round(q, h, a, b, e)'
<1>1. \A L, n : Served(L, n, q, h, a) => Served(L, n, q, h, a)'
  BY ServedSame
<1>2. Base' = Base
  BY DEF Base
<1>. QED BY <1>1, <1>2 DEF Round, Nothing

LEMMA LateStep ==
  ASSUME BatchTypeInv, BoardInv, LateInv, Step
  PROVE  LateInv'
<1>1. PICK p1, p2 : Took(p1, p2)
  BY Stepped DEF BatchTypeInv
<1>2. UNCHANGED <<mode, memory, script, answering, lost, sends>>
  BY Zenon DEF Step, host
<1>3. SUFFICES ASSUME mode.prompt, sends <= 1
               PROVE  sends # 0 /\ Round(cdc, hid, asks, batch, ended)'
  BY <1>2 DEF LateInv
<1>4. Round(cdc, hid, asks, batch, ended)
  BY <1>3 DEF LateInv
<1>5. sends # 0
  <2>1. SUFFICES ASSUME Untouched
                 PROVE  FALSE
    BY <1>3 DEF LateInv
  <2>2. cdc = <<>> /\ hid = None /\ batch = None
    BY <2>1 DEF Untouched, Nothing
  <2>. QED BY <1>1, <2>2 DEF Took, BatchDue
<1>6. PICK p0 : p0 = AsIs /\ p0.batch = batch /\ p0.ended = ended /\ p0 \in Passes
  BY <1>1 DEF Took, AsIs
<1>7. PICK q, h, a : q = cdc' /\ h = hid' /\ a = asks
  OBVIOUS
<1>8. Round(q, hid, a, p1.batch, p1.ended)
  <2>1. CASE p1 = AsIs /\ cdc' = cdc
    BY <1>4, <1>6, <1>7, <2>1
  <2>2. CASE cdc # <<>> /\ p1 = Received(AsIs, Head(cdc)) /\ cdc' = Tail(cdc)
    <3>1. Round(cdc, hid, a, p0.batch, p0.ended)
      BY <1>4, <1>6, <1>7
    <3>2. cdc \in Seq(Msgs)
      BY DEF BatchTypeInv, BatchTypeOK, Msgs
    <3>3. PICK c, r : c = cdc /\ r = hid
      OBVIOUS
    <3>4. Round(Tail(c), r, a, Received(p0, Head(c)).batch, Received(p0, Head(c)).ended)
      BY <1>6, <2>2, <3>1, <3>2, <3>3, RoundCdc DEF BatchTypeInv
    <3>. QED BY <1>6, <1>7, <2>2, <3>3, <3>4
  <2>. QED BY <1>1, <2>1, <2>2 DEF Took
<1>9. Round(q, h, a, p2.batch, p2.ended)
  <2>1. CASE p2 = p1 /\ hid' = hid
    BY <1>7, <1>8, <2>1
  <2>2. CASE hid \in StateMsgs /\ hid # None /\ p2 = Received(p1, hid) /\ hid' = None
    <3>1. mode.overHID /\ p1 \in Passes
      BY <1>1, <2>2 DEF BoardInv, Took
    <3>2. PICK r : r = hid
      OBVIOUS
    <3>3. Round(q, None, a, Received(p1, r).batch, Received(p1, r).ended)
      BY <1>8, <2>2, <3>1, <3>2, RoundHid DEF BatchTypeInv
    <3>. QED BY <1>7, <2>2, <3>2, <3>3
  <2>. QED BY <1>1, <2>1, <2>2 DEF Took
<1>10. p2 \in Passes /\ a \in Seq(Asks)
  BY <1>1, <1>7 DEF Took, BatchTypeInv, BatchTypeOK
<1>11. PICK c, b, e : c = asks' /\ b = batch' /\ e = ended'
  OBVIOUS
<1>12. Round(q, h, c, b, e)
  <2>1. Round(q, h, a \o Asked(p2), Checked(p2).batch, Checked(p2).ended)
    BY <1>9, <1>10, RoundChecked DEF BatchTypeInv
  <2>2. c = a \o Asked(p2) /\ b = Checked(p2).batch /\ e = Checked(p2).ended
    BY <1>1, <1>7, <1>11 DEF Took
  <2>. QED BY <2>1, <2>2
<1>13. Round(q, h, c, b, e)'
  BY <1>2, <1>12, RoundSame
<1>14. Round(cdc, hid, asks, batch, ended)'
  BY <1>7, <1>11, <1>13
<1>. QED BY <1>5, <1>14

LEMMA LateDropGlyph ==
  ASSUME BatchTypeInv, LateInv, DropGlyph
  PROVE  LateInv'
<1>1. UNCHANGED <<mode, memory, script, answering, asks, hid, board, batch, ended, sends>>
      /\ cdc # <<>> /\ cdc' = Tail(cdc) /\ lost' = lost + 1
  BY DEF DropGlyph, host, pad
<1>2. SUFFICES ASSUME mode.prompt, sends <= 1
               PROVE  sends # 0 /\ Round(cdc, hid, asks, batch, ended)'
  BY <1>1 DEF LateInv
<1>3. Round(cdc, hid, asks, batch, ended) /\ sends # 0
  BY <1>1, <1>2 DEF LateInv, Untouched, Nothing
<1>4. /\ \A i \in DOMAIN script : script[i] \notin BatchMsgs
      /\ asks # <<>> => script = <<>> /\ Len(asks) = 1
  BY <1>1, <1>3 DEF Round
<1>5. \A i \in DOMAIN cdc' : cdc'[i] \notin BatchMsgs
  <2>1. PICK n \in Nat : DOMAIN cdc = 1 .. n + 1 /\ DOMAIN cdc' = 1 .. n
        /\ \A i \in 1 .. n : cdc'[i] = cdc[i + 1]
    <3>1. PICK n : n = Len(cdc) - 1
      OBVIOUS
    <3>2. Len(cdc) \in Nat \ {0} /\ Len(cdc') = Len(cdc) - 1 /\ cdc' \in Seq(Msgs)
          /\ \A i \in 1 .. Len(cdc) - 1 : cdc'[i] = cdc[i + 1]
      BY <1>1, HeadAndTail DEF BatchTypeInv, BatchTypeOK, Msgs
    <3>3. n \in Nat /\ Len(cdc) = n + 1 /\ Len(cdc') = n
      BY <3>1, <3>2
    <3>4. DOMAIN cdc = 1 .. n + 1
      BY <3>3 DEF BatchTypeInv, BatchTypeOK
    <3>5. DOMAIN cdc' = 1 .. n
      BY <3>2, <3>3
    <3>. QED BY <3>1, <3>2, <3>3, <3>4, <3>5
  <2>2. ASSUME NEW i \in 1 .. n
        PROVE  cdc[i + 1] \notin BatchMsgs
    <3>1. i + 1 \in DOMAIN cdc /\ i + 1 # 1
      BY <2>1
    <3>. QED BY <1>3, <3>1 DEF Round
  <2>. QED BY <2>1, <2>2
<1>6. lost \in Nat /\ Base' = Base /\ Base \in {0, 1} /\ Nudges \in Nat
  BY <1>1, Bounds, BatchAssumption DEF Base, BatchTypeInv
<1>7. ASSUME batch # None, NEW b, b = batch
      PROVE  /\ ended = "none" /\ OnTime(batch) /\ ~(batch.quiet >= 1)
             /\ Served(Named(b.glyphs, b.states), b.nudges, cdc, hid, asks)'
  <2>1. /\ ended = "none" /\ OnTime(batch) /\ ~(batch.quiet >= 1)
        /\ Served(Named(b.glyphs, b.states), b.nudges, cdc, hid, asks)
    BY <1>1, <1>3, <1>7 DEF Round, Nothing
  <2>2. b \in OpenBatches
    BY <1>7 DEF BatchTypeInv, BatchTypeOK
  <2>3. b.nudges \in Nat
    BY <2>2, BatchAssumption DEF OpenBatches
  <2>4. lost' + 1 >= b.nudges + Base' /\ lost' >= b.nudges + Base'
    BY <1>1, <1>6, <2>1, <2>3 DEF Served
  <2>. QED BY <1>1, <2>1, <2>4 DEF Served, Stored, Ahead
<1>8. ended = "late" => lost' >= Nudges + Base'
  <2>1. ended = "late" => lost >= Nudges + Base
    BY <1>3 DEF Round
  <2>. QED BY <1>1, <1>6, <2>1
<1>9. Round(cdc, hid, asks, batch, ended)'
  <2>1. OnTime(batch) => OnTime(batch)'
    BY <1>1 DEF OnTime
  <2>2. batch' # None =>
          /\ ended' = "none" /\ OnTime(batch)' /\ ~(batch'.quiet >= 1)
          /\ \A b : b = batch' => Served(Named(b.glyphs, b.states), b.nudges, cdc, hid, asks)'
    BY <1>1, <1>7, <2>1
  <2>3. /\ \A i \in DOMAIN script' : script'[i] \notin BatchMsgs
        /\ asks' # <<>> => script' = <<>> /\ Len(asks') = 1
        /\ ended' = ended
    BY <1>1, <1>4
  <2>. QED BY <1>5, <1>8, <2>2, <2>3 DEF Round
<1>. QED BY <1>3, <1>9

LEMMA LateTick ==
  ASSUME BatchTypeInv, LateInv, Tick
  PROVE  LateInv'
<1>1. UNCHANGED <<mode, memory, script, answering, asks, cdc, hid, board, ended, lost, sends>>
  BY DEF Tick, host
<1>2. SUFFICES ASSUME mode.prompt, sends <= 1
               PROVE  sends # 0 /\ Round(cdc, hid, asks, batch, ended)'
  BY <1>1 DEF LateInv
<1>3. Silent /\ ~BatchDue(batch)
  BY <1>2 DEF Tick
<1>4. /\ batch # None /\ batch \in OpenBatches /\ batch' # None /\ batch' \in OpenBatches
      /\ batch' = [batch EXCEPT !.age = batch'.age, !.quiet = batch'.quiet]
      /\ batch'.age = (IF batch.age + 1 <= Deadline THEN batch.age + 1 ELSE Deadline)
      /\ batch'.quiet = (IF batch.quiet + 1 <= Deadline THEN batch.quiet + 1 ELSE Deadline)
  BY Ticked DEF BatchTypeInv
<1>5. Round(cdc, hid, asks, batch, ended) /\ sends # 0
  BY <1>2, <1>4 DEF LateInv, Untouched
<1>6. PICK b, c : b = batch /\ c = batch'
  OBVIOUS
<1>7. /\ c.glyphs = b.glyphs /\ c.states = b.states /\ c.nudges = b.nudges
      /\ c.age = (IF b.age + 1 <= Deadline THEN b.age + 1 ELSE Deadline)
      /\ c.quiet = (IF b.quiet + 1 <= Deadline THEN b.quiet + 1 ELSE Deadline)
  <2>1. c = [b EXCEPT !.age = c.age, !.quiet = c.quiet] /\ b \in OpenBatches
    BY <1>4, <1>6
  <2>2. c.glyphs = b.glyphs /\ c.states = b.states /\ c.nudges = b.nudges
    BY <2>1 DEF OpenBatches
  <2>. QED BY <1>4, <1>6, <2>2
<1>8. /\ b.age \in 0 .. Deadline /\ b.quiet \in 0 .. Deadline /\ b.nudges \in 0 .. Nudges
      /\ Nudges \in Nat /\ Deadline \in Nat /\ Nudges < Deadline
  BY <1>4, <1>6, BatchAssumption DEF OpenBatches
<1>9. /\ ended = "none" /\ OnTime(b)
      /\ Served(Named(b.glyphs, b.states), b.nudges, cdc, hid, asks)
  BY <1>4, <1>5, <1>6 DEF Round
<1>10. c.quiet >= 1
  BY <1>7, <1>8
<1>11. b.nudges < Nudges => ~(b.quiet >= 1)
  BY <1>3, <1>4, <1>6 DEF BatchDue, Quiet
<1>12. OnTime(c)
  BY <1>7, <1>8, <1>9, <1>10, <1>11 DEF OnTime
<1>13. Served(Named(c.glyphs, c.states), c.nudges, cdc, hid, asks)'
  <2>1. PICK q, h, a : q = cdc /\ h = hid /\ a = asks
    OBVIOUS
  <2>2. Served(Named(c.glyphs, c.states), c.nudges, q, h, a)'
    BY <1>1, <1>7, <1>9, <2>1, ServedSame
  <2>. QED BY <1>1, <2>1, <2>2
<1>14. Round(cdc, hid, asks, batch, ended)'
  <2>1. /\ script' = <<>> /\ answering' = <<>> /\ cdc' = <<>> /\ hid' = None /\ asks' = <<>>
    BY <1>1, <1>3 DEF Silent
  <2>2. DOMAIN script' = {} /\ DOMAIN cdc' = {} /\ ended' = "none"
    BY <1>1, <1>9, <2>1
  <2>3. OnTime(batch)'
    BY <1>6, <1>12 DEF OnTime
  <2>4. \A d : d = batch' => Served(Named(d.glyphs, d.states), d.nudges, cdc, hid, asks)'
    BY <1>6, <1>13
  <2>. QED BY <2>1, <2>2, <2>3, <2>4 DEF Round, Nothing
<1>. QED BY <1>5, <1>14

LEMMA LateNext ==
  ASSUME BatchTypeInv, BoardInv, LateInv, [BatchNext]_batchVars
  PROVE  LateInv'
<1>1. CASE UNCHANGED batchVars
  <2>1. UNCHANGED <<mode, memory, script, answering, asks, cdc, hid, batch, ended, lost, sends>>
    BY <1>1 DEF batchVars, host, pad
  <2>2. Untouched => Untouched'
    BY <2>1 DEF Untouched, Nothing
  <2>3. PICK q, h, a, b, e : q = cdc /\ h = hid /\ a = asks /\ b = batch /\ e = ended
    OBVIOUS
  <2>4. Round(q, h, a, b, e) => Round(q, h, a, b, e)'
    BY <2>1, RoundSame
  <2>. QED BY <2>1, <2>2, <2>3, <2>4 DEF LateInv
<1>. QED BY <1>1, LateFlush, LateCall, LateClientCall, LateAnswers, LateAnswer, LateStep,
            LateDropGlyph, LateTick DEF BatchNext

(* The batch of a layer change that a prompt host completes ends late only *)
(* when its data and every answer to the nudges was lost.                  *)
THEOREM LateAlwaysMeansLost == BatchSpec => []LateMeansLost
<1>1. BatchInit => BatchTypeInv /\ BoardInv /\ LateInv
  BY TypeInit, BoardInit, LateInitially
<1>2. BatchTypeInv /\ BoardInv /\ LateInv /\ [BatchNext]_batchVars
        => (BatchTypeInv /\ BoardInv /\ LateInv)'
  BY TypeNext, BoardNext, LateNext
<1>3. BatchTypeInv /\ LateInv => LateMeansLost
  BY DEF BatchTypeInv, LateInv, Round, LateMeansLost, Base
<1>. QED BY <1>1, <1>2, <1>3, PTL DEF BatchSpec

-----------------------------------------------------------------------------
(* CompleteIsCurrent.  Of a layer change: the keys and pictures it names,  *)
(* and its number.                                                         *)
Change(m)  == [keys |-> m.states, pictures |-> m.glyphs, n |-> m.n]
Opener(b)  == [keys |-> b.keys, pictures |-> b.pictures, n |-> b.n]
Changes    == [keys : SUBSET Keys, pictures : SUBSET Keys, n : Versions]

NewData(m, g) == /\ m.t = "state" /\ m.key \in g.keys => m.state >= g.n
                 /\ m.t = "glyph" /\ m.key \in g.pictures => m.glyph >= g.n

(* The parts that the host sends before the next Begin batch.              *)
Soon == {x \in Ahead : script[1] \notin BatchMsgs}

(* What an answer would send is of the layer change g or a later one, or   *)
(* the host will have sent that first.                                     *)
Kept(g) ==
  /\ \A k \in g.keys : \/ <<"state", k>> \in Soon
                       \/ memory[k] # None /\ memory[k].state >= g.n
  /\ \A k \in g.pictures : \/ <<"glyph", k>> \in Soon
                           \/ memory[k] = None \/ memory[k].glyph = None \/ memory[k].glyph >= g.n

InPlay(g) ==
  /\ g.n <= sends /\ Kept(g)
  /\ \A m \in ToSet(script) \cap DataMsgs : Number(m) >= g.n

(* What the board has got of a batch, on the board key.                    *)
Got(b, key, k) ==
  /\ k \in b.keys \ b.states => key.state >= b.n
  /\ k \in b.pictures \ b.glyphs => key.glyph = None \/ key.glyph >= b.n

HasBatch(q) == \E i \in DOMAIN q : q[i] \in BatchMsgs

(* The batch of the script comes first, and the data that it names after.  *)
Scripts ==
  \A i \in DOMAIN script : script[i] \in BatchMsgs =>
    /\ i = 1 /\ Proper(script[i]) /\ script[i].n <= sends
    /\ Named(script[i].glyphs, script[i].states) \subseteq Ahead
    /\ \A m \in ToSet(script) \cap DataMsgs : Number(m) >= script[i].n

(* As Round, q is what is on CDC, a the Batch incompletes that wait, b the *)
(* batch, and keys what the board has.                                     *)
Currency(q, a, b, keys) ==
  /\ Scripts
  /\ \A i \in DOMAIN q : q[i] \in BatchMsgs =>
       /\ a = <<>> /\ answering = <<>> /\ Proper(q[i]) /\ InPlay(Change(q[i]))
       /\ \A j \in DOMAIN q : j > i /\ q[j] \in DataMsgs => NewData(q[j], Change(q[i]))
  /\ b # None =>
       /\ InPlay(Opener(b)) /\ (b.quiet >= 1 => Soon = {} \/ HasBatch(q))
       /\ \A m \in (ToSet(q) \union ToSet(answering)) \cap DataMsgs : NewData(m, Opener(b))
       /\ \A k \in Keys : Got(b, keys[k], k)
  /\ a # <<>> => Soon = {}

CurrentInv == ~mode.overHID /\ mode.prompt /\ ~crossed => Currency(cdc, asks, batch, board)

LEMMA ChangeType ==
  /\ \A m \in BatchMsgs : Change(m) \in Changes
  /\ \A b \in OpenBatches : Opener(b) \in Changes
<1>1. \A m \in BatchMsgs : Change(m) \in Changes
  BY BatchKinds DEF Change, Changes
<1>2. \A b \in OpenBatches : Opener(b) \in Changes
  BY DEF Opener, Changes, OpenBatches
<1>. QED BY <1>1, <1>2

LEMMA NumberType ==
  ASSUME NEW m \in DataMsgs
  PROVE  /\ Number(m) \in Versions
         /\ \A g \in Changes : Number(m) >= g.n => NewData(m, g)
<1>1. \/ m.t = "glyph" /\ m.glyph \in Versions
      \/ m.t = "state" /\ m.state \in Versions
  BY DataKinds
<1>. QED BY <1>1 DEF Number, NewData

(* The tail of a sequence, place by place.                                 *)
LEMMA TailPlaces ==
  ASSUME NEW S, NEW s \in Seq(S), s # <<>>
  PROVE  \E n \in Nat : /\ DOMAIN s = 1 .. n + 1 /\ DOMAIN Tail(s) = 1 .. n
                        /\ \A i \in 1 .. n : Tail(s)[i] = s[i + 1] /\ i + 1 \in DOMAIN s
                        /\ \A i \in 2 .. n + 1 : i - 1 \in 1 .. n /\ Tail(s)[i - 1] = s[i]
<1>1. PICK n, r : n = Len(s) - 1 /\ r = Tail(s)
  OBVIOUS
<1>2. Len(s) \in Nat \ {0} /\ Len(r) = Len(s) - 1 /\ r \in Seq(S)
      /\ \A i \in 1 .. Len(s) - 1 : r[i] = s[i + 1]
  BY <1>1, HeadAndTail
<1>3. n \in Nat /\ Len(s) = n + 1 /\ Len(r) = n
  BY <1>1, <1>2
<1>4. DOMAIN s = 1 .. n + 1
  BY <1>3
<1>5. DOMAIN r = 1 .. n
  BY <1>2, <1>3
<1>6. \A i \in 1 .. n : r[i] = s[i + 1] /\ i + 1 \in DOMAIN s
  BY <1>1, <1>2, <1>3, <1>4
<1>7. ASSUME NEW i \in 2 .. n + 1
      PROVE  i - 1 \in 1 .. n /\ r[i - 1] = s[i]
  <2>1. i - 1 \in 1 .. n /\ (i - 1) + 1 = i
    BY <1>3
  <2>. QED BY <1>6, <2>1
<1>. QED BY <1>1, <1>3, <1>4, <1>5, <1>6, <1>7

(* The sequence r is s and then x.                                         *)
Grown(s, r, x) == \E n \in Nat : /\ DOMAIN s = 1 .. n /\ DOMAIN r = 1 .. n + 1
                                 /\ \A i \in 1 .. n : r[i] = s[i]
                                 /\ r[n + 1] = x

LEMMA AppendPlaces ==
  ASSUME NEW S, NEW s \in Seq(S), NEW x \in S
  PROVE  Grown(s, Append(s, x), x)
<1>1. PICK n, r : n = Len(s) /\ r = Append(s, x)
  OBVIOUS
<1>2. n \in Nat /\ DOMAIN s = 1 .. n
  BY <1>1
<1>3. Len(r) = n + 1 /\ r[n + 1] = x /\ \A i \in 1 .. n : r[i] = s[i]
  BY <1>1
<1>4. r \in Seq(S)
  BY <1>1
<1>5. DOMAIN r = 1 .. n + 1
  BY <1>3, <1>4
<1>. QED BY <1>1, <1>2, <1>3, <1>5 DEF Grown

(* Glyphs and key states that are remembered, one after the other.         *)
LEMMA KeptCalled ==
  ASSUME BatchTypeInv, NEW m \in DataMsgs, Remember(m), NEW g \in Changes, InPlay(g),
         Number(m) >= g.n, sends <= sends', sends' \in Nat,
         \/ script' = script
         \/ /\ script # <<>> /\ script' = Tail(script) /\ m = Head(script)
            /\ \A i \in DOMAIN script' : script'[i] \notin BatchMsgs
  PROVE  InPlay(g)'
<1>1. m.key \in Keys /\ (m.t = "glyph" \/ m.t = "state") /\ g.keys \subseteq Keys
      /\ g.pictures \subseteq Keys /\ g.n \in Versions
  BY DataKinds DEF Changes
<1>2. PICK new : new = memory'[m.key]
  OBVIOUS
<1>3. PICK old \in KeyStates : old = Known(m.key)
  BY <1>1, KnownType DEF BatchTypeInv
<1>4. new # None /\ new = WithData(old, m) /\ \A k \in Keys \ {m.key} : memory'[k] = memory[k]
  BY <1>2, <1>3, Remembered DEF BatchTypeInv
<1>5. m.t = "glyph" => new.glyph = m.glyph /\ new.state = old.state
  BY <1>3, <1>4 DEF WithData, KeyStates
<1>6. m.t = "state" => new.state = m.state /\ (new.glyph = old.glyph \/ new.glyph = None)
  BY <1>4 DEF WithData
<1>7. \A x \in Soon : x = Part(m) \/ x \in Soon'
  <2>1. CASE script' = script
    BY <2>1 DEF Soon, Ahead
  <2>2. CASE /\ script # <<>> /\ script' = Tail(script) /\ m = Head(script)
             /\ \A i \in DOMAIN script' : script'[i] \notin BatchMsgs
    <3>1. ToSet(script) = ToSet(script') \union {m}
      BY <2>2, SetOfTail DEF BatchTypeInv, BatchTypeOK
    <3>2. script' \in Seq(Msgs)
      BY <2>2, HeadAndTail DEF BatchTypeInv, BatchTypeOK, Msgs
    <3>3. ASSUME NEW x \in Soon, x # Part(m)
          PROVE  x \in Soon'
      <4>1. PICK y \in ToSet(script) \cap DataMsgs : x = Part(y)
        BY DEF Soon, Ahead
      <4>2. y \in ToSet(script') \cap DataMsgs
        BY <3>1, <3>3, <4>1
      <4>3. 1 \in DOMAIN script'
        BY <3>2, <4>2 DEF ToSet
      <4>. QED BY <2>2, <4>1, <4>2, <4>3 DEF Soon, Ahead
    <3>. QED BY <3>3
  <2>. QED BY <2>1, <2>2
<1>8. ASSUME NEW k \in g.keys
      PROVE  \/ <<"state", k>> \in Soon'
             \/ memory'[k] # None /\ memory'[k].state >= g.n
  <2>1. CASE <<"state", k>> = Part(m)
    <3>1. m.t = "state" /\ k = m.key
      BY <2>1 DEF Part
    <3>. QED BY <1>2, <1>4, <1>6, <3>1 DEF Number
  <2>2. CASE <<"state", k>> # Part(m) /\ <<"state", k>> \in Soon
    BY <1>7, <2>2
  <2>3. CASE memory[k] # None /\ memory[k].state >= g.n /\ <<"state", k>> # Part(m)
    <3>1. CASE k # m.key
      BY <1>1, <1>4, <2>3, <3>1
    <3>2. CASE k = m.key
      <4>1. m.t = "glyph" /\ old = memory[k]
        BY <1>1, <1>3, <2>3, <3>2 DEF Part, Known
      <4>. QED BY <1>2, <1>4, <1>5, <2>3, <3>2, <4>1
    <3>. QED BY <3>1, <3>2
  <2>. QED BY <2>1, <2>2, <2>3 DEF InPlay, Kept
<1>9. ASSUME NEW k \in g.pictures
      PROVE  \/ <<"glyph", k>> \in Soon'
             \/ memory'[k] = None \/ memory'[k].glyph = None \/ memory'[k].glyph >= g.n
  <2>1. CASE <<"glyph", k>> = Part(m)
    <3>1. m.t = "glyph" /\ k = m.key
      BY <2>1 DEF Part
    <3>. QED BY <1>2, <1>4, <1>5, <3>1 DEF Number
  <2>2. CASE <<"glyph", k>> # Part(m) /\ <<"glyph", k>> \in Soon
    BY <1>7, <2>2
  <2>3. CASE /\ memory[k] = None \/ memory[k].glyph = None \/ memory[k].glyph >= g.n
             /\ <<"glyph", k>> # Part(m)
    <3>1. CASE k # m.key
      BY <1>1, <1>4, <2>3, <3>1
    <3>2. CASE k = m.key
      <4>1. m.t = "state" /\ (memory[k] = None => old.glyph = None)
            /\ (memory[k] # None => old = memory[k])
        BY <1>1, <1>3, <2>3, <3>2, PowerOnType DEF Part, Known
      <4>. QED BY <1>2, <1>4, <1>6, <2>3, <3>2, <4>1
    <3>. QED BY <3>1, <3>2
  <2>. QED BY <2>1, <2>2, <2>3 DEF InPlay, Kept
<1>10. \A y \in ToSet(script') \cap DataMsgs : Number(y) >= g.n
  <2>1. ToSet(script') \subseteq ToSet(script)
    BY SetOfTail DEF BatchTypeInv, BatchTypeOK
  <2>. QED BY <2>1 DEF InPlay
<1>11. g.n <= sends'
  <2>1. g.n <= sends /\ g.n \in Nat /\ sends \in Nat
    BY <1>1, Bounds, BatchAssumption DEF InPlay, Versions, BatchTypeInv
  <2>. QED BY <2>1
<1>. QED BY <1>8, <1>9, <1>10, <1>11 DEF InPlay, Kept

LEMMA KeptSame ==
  ASSUME NEW g, InPlay(g), memory' = memory, Soon \subseteq Soon', g.n <= sends',
         \A m \in ToSet(script') \cap DataMsgs : Number(m) >= g.n
  PROVE  InPlay(g)'
BY DEF InPlay, Kept

(* A message of data leaves CDC: nothing else changes.                     *)
LEMMA CurrencyTail ==
  ASSUME NEW q \in Seq(Msgs), q # <<>>, Head(q) \in DataMsgs, NEW a, NEW b, NEW keys,
         Currency(q, a, b, keys)
  PROVE  Currency(Tail(q), a, b, keys)
<1>1. PICK r : r = Tail(q)
  OBVIOUS
<1>2. PICK n \in Nat : /\ DOMAIN q = 1 .. n + 1 /\ DOMAIN r = 1 .. n
                       /\ \A i \in 1 .. n : r[i] = q[i + 1] /\ i + 1 \in DOMAIN q
                       /\ \A i \in 2 .. n + 1 : i - 1 \in 1 .. n /\ r[i - 1] = q[i]
  BY <1>1, TailPlaces
<1>3. ASSUME NEW i \in DOMAIN r, r[i] \in BatchMsgs
      PROVE  /\ a = <<>> /\ answering = <<>> /\ Proper(r[i]) /\ InPlay(Change(r[i]))
             /\ \A j \in DOMAIN r : j > i /\ r[j] \in DataMsgs => NewData(r[j], Change(r[i]))
  <2>1. i + 1 \in DOMAIN q /\ q[i + 1] = r[i]
    BY <1>2
  <2>2. /\ a = <<>> /\ answering = <<>> /\ Proper(r[i]) /\ InPlay(Change(r[i]))
        /\ \A j \in DOMAIN q : j > i + 1 /\ q[j] \in DataMsgs => NewData(q[j], Change(r[i]))
    BY <1>3, <2>1 DEF Currency
  <2>3. ASSUME NEW j \in DOMAIN r, j > i, r[j] \in DataMsgs
        PROVE  NewData(r[j], Change(r[i]))
    <3>1. j + 1 \in DOMAIN q /\ j + 1 > i + 1 /\ q[j + 1] = r[j]
      BY <1>2, <2>3
    <3>. QED BY <2>2, <2>3, <3>1
  <2>. QED BY <2>2, <2>3
<1>4. HasBatch(q) => HasBatch(r)
  <2>1. SUFFICES ASSUME NEW i \in DOMAIN q, q[i] \in BatchMsgs
                 PROVE  HasBatch(r)
    BY DEF HasBatch
  <2>2. i # 1
    BY <2>1, HeadAndTail, DataKinds
  <2>3. i \in 2 .. n + 1
    BY <1>2, <2>1, <2>2
  <2>. QED BY <1>2, <2>1, <2>3 DEF HasBatch
<1>5. ToSet(r) \subseteq ToSet(q)
  BY <1>1, SetOfTail
<1>6. b # None => (b.quiet >= 1 => Soon = {} \/ HasBatch(r))
  BY <1>4 DEF Currency
<1>7. b # None =>
        \A m \in (ToSet(r) \union ToSet(answering)) \cap DataMsgs : NewData(m, Opener(b))
  BY <1>5 DEF Currency
<1>8. Currency(r, a, b, keys)
  BY <1>3, <1>6, <1>7 DEF Currency
<1>. QED BY <1>1, <1>8

LEMMA CurrencyCdc ==
  ASSUME NEW p \in Passes, NEW q \in Seq(Msgs), q # <<>>, NEW a,
         Currency(q, a, p.batch, p.board)
  PROVE  Currency(Tail(q), a, Received(p, Head(q)).batch, Received(p, Head(q)).board)
<1>1. PICK r, m : r = Tail(q) /\ m = Head(q)
  OBVIOUS
<1>2. m \in Msgs /\ m = q[1] /\ 1 \in DOMAIN q /\ m \in ToSet(q)
  BY <1>1, HeadAndTail DEF ToSet
<1>3. PICK b, keys : b = Received(p, m).batch /\ keys = Received(p, m).board
  OBVIOUS
<1>4. CASE m \in BatchMsgs
  <2>1. /\ a = <<>> /\ answering = <<>> /\ Proper(m) /\ InPlay(Change(m))
        /\ \A j \in DOMAIN q : j > 1 /\ q[j] \in DataMsgs => NewData(q[j], Change(m))
    BY <1>2, <1>4 DEF Currency
  <2>2. /\ b # None /\ keys = p.board
        /\ b = [glyphs |-> m.glyphs, states |-> m.states, keys |-> m.glyphs \union m.states,
               pictures |-> m.glyphs, n |-> m.n, age |-> 0, quiet |-> 0, nudges |-> 0]
    BY <1>3, <1>4, BatchReceived
  <2>3. /\ b.glyphs = m.glyphs /\ b.states = m.states /\ b.keys = m.glyphs \union m.states
        /\ b.pictures = m.glyphs /\ b.n = m.n /\ b.quiet = 0
    BY <2>2
  <2>4. b.keys = m.states
    BY <2>1, <2>3 DEF Proper
  <2>5. Opener(b) = Change(m)
    BY <2>3, <2>4 DEF Opener, Change
  <2>6. PICK n \in Nat : /\ DOMAIN q = 1 .. n + 1 /\ DOMAIN r = 1 .. n
                         /\ \A i \in 1 .. n : r[i] = q[i + 1] /\ i + 1 \in DOMAIN q
                         /\ \A i \in 2 .. n + 1 : i - 1 \in 1 .. n /\ r[i - 1] = q[i]
    BY <1>1, TailPlaces
  <2>7. ASSUME NEW i \in DOMAIN r, r[i] \in BatchMsgs
        PROVE  /\ a = <<>> /\ answering = <<>> /\ Proper(r[i]) /\ InPlay(Change(r[i]))
               /\ \A j \in DOMAIN r : j > i /\ r[j] \in DataMsgs => NewData(r[j], Change(r[i]))
    <3>1. i + 1 \in DOMAIN q /\ q[i + 1] = r[i]
      BY <2>6
    <3>2. /\ Proper(r[i]) /\ InPlay(Change(r[i]))
          /\ \A j \in DOMAIN q : j > i + 1 /\ q[j] \in DataMsgs => NewData(q[j], Change(r[i]))
      BY <2>7, <3>1 DEF Currency
    <3>3. ASSUME NEW j \in DOMAIN r, j > i, r[j] \in DataMsgs
          PROVE  NewData(r[j], Change(r[i]))
      <4>1. j + 1 \in DOMAIN q /\ j + 1 > i + 1 /\ q[j + 1] = r[j]
        BY <2>6, <3>3
      <4>. QED BY <3>2, <3>3, <4>1
    <3>. QED BY <2>1, <3>2, <3>3
  <2>8. ASSUME NEW y \in (ToSet(r) \union ToSet(answering)) \cap DataMsgs
        PROVE  NewData(y, Opener(b))
    <3>1. ToSet(answering) = {}
      BY <2>1, SetOfNone
    <3>2. PICK i \in DOMAIN r : y = r[i]
      BY <3>1 DEF ToSet
    <3>3. i + 1 \in DOMAIN q /\ i + 1 > 1 /\ q[i + 1] = y
      BY <2>6, <3>2
    <3>. QED BY <2>1, <2>5, <3>3
  <2>9. \A k \in Keys : Got(b, keys[k], k)
    BY <2>3, <2>4 DEF Got
  <2>10. ~(b.quiet >= 1)
    BY <2>3
  <2>11. Currency(r, a, b, keys)
    BY <2>1, <2>5, <2>7, <2>8, <2>9, <2>10 DEF Currency
  <2>. QED BY <1>1, <1>3, <2>11
<1>5. CASE m \in DataMsgs
  <2>1. Currency(r, a, p.batch, p.board)
    BY <1>1, <1>5, CurrencyTail
  <2>2. CASE p.batch = None
    <3>1. b = None
      BY <1>3, <1>5, <2>2, DataReceived
    <3>2. Currency(r, a, b, keys)
      BY <2>1, <2>2, <3>1 DEF Currency
    <3>. QED BY <1>1, <1>3, <3>2
  <2>3. CASE p.batch # None
    <3>1. PICK o \in OpenBatches : o = p.batch
      BY <2>3 DEF Passes
    <3>2. /\ b # None /\ keys = [p.board EXCEPT ![m.key] = WithData(@, m)]
          /\ b = [o EXCEPT !.glyphs = IF m.t = "glyph" THEN @ \ {m.key} ELSE @,
                           !.states = IF m.t = "state" THEN @ \ {m.key} ELSE @,
                           !.quiet = 0]
      BY <1>3, <1>5, <2>3, <3>1, DataReceived
    <3>3. /\ b.glyphs = (IF m.t = "glyph" THEN o.glyphs \ {m.key} ELSE o.glyphs)
          /\ b.states = (IF m.t = "state" THEN o.states \ {m.key} ELSE o.states)
          /\ b.keys = o.keys /\ b.pictures = o.pictures /\ b.n = o.n /\ b.quiet = 0
      BY <3>1, <3>2 DEF OpenBatches
    <3>4. Opener(b) = Opener(o)
      BY <3>3 DEF Opener
    <3>5. /\ NewData(m, Opener(o)) /\ InPlay(Opener(o))
          /\ \A k \in Keys : Got(o, p.board[k], k)
      BY <1>2, <1>5, <2>3, <3>1 DEF Currency
    <3>6. m.key \in Keys /\ (m.t = "glyph" \/ m.t = "state") /\ p.board \in [Keys -> KeyStates]
      BY <1>5, DataKinds DEF Passes
    <3>7. ASSUME NEW k \in Keys
          PROVE  Got(b, keys[k], k)
      <4>1. Got(o, p.board[k], k)
        BY <3>5
      <4>2. CASE k # m.key
        <5>1. keys[k] = p.board[k]
          BY <3>2, <3>6, <4>2
        <5>. QED BY <3>3, <4>1, <4>2, <5>1 DEF Got
      <4>3. CASE k = m.key
        <5>1. PICK old \in KeyStates : old = p.board[k]
          BY <3>6
        <5>2. keys[k] = WithData(old, m)
          BY <3>2, <3>6, <4>3, <5>1
        <5>3. CASE m.t = "glyph"
          <6>1. keys[k].state = old.state /\ keys[k].glyph = m.glyph
            BY <5>1, <5>2, <5>3 DEF WithData, KeyStates
          <6>2. b.states = o.states
            BY <3>3, <5>3
          <6>3. k \in o.pictures => m.glyph >= o.n
            BY <3>5, <4>3, <5>3 DEF NewData, Opener
          <6>. QED BY <3>3, <4>1, <5>1, <6>1, <6>2, <6>3 DEF Got
        <5>4. CASE m.t = "state"
          <6>1. keys[k].state = m.state /\ (keys[k].glyph = old.glyph \/ keys[k].glyph = None)
            BY <5>2, <5>4 DEF WithData
          <6>2. b.glyphs = o.glyphs
            BY <3>3, <5>4
          <6>3. k \in o.keys => m.state >= o.n
            BY <3>5, <4>3, <5>4 DEF NewData, Opener
          <6>. QED BY <3>3, <4>1, <5>1, <6>1, <6>2, <6>3 DEF Got
        <5>. QED BY <3>6, <5>3, <5>4
      <4>. QED BY <4>2, <4>3
    <3>8. \A y \in (ToSet(r) \union ToSet(answering)) \cap DataMsgs : NewData(y, Opener(b))
      BY <2>1, <2>3, <3>1, <3>4 DEF Currency
    <3>9. Currency(r, a, b, keys)
      <4>1. ~(b.quiet >= 1)
        BY <3>3
      <4>. QED BY <2>1, <2>3, <3>4, <3>5, <3>7, <3>8, <4>1 DEF Currency
    <3>. QED BY <1>1, <1>3, <3>9
  <2>. QED BY <2>2, <2>3
<1>. QED BY <1>2, <1>4, <1>5 DEF Msgs

LEMMA CurrencyChecked ==
  ASSUME NEW p \in Passes, NEW q, NEW a \in Seq(Asks), Currency(q, a, p.batch, p.board),
         Asked(p) # <<>> => ~HasBatch(q)
  PROVE  Currency(q, a \o Asked(p), Checked(p).batch, p.board)
<1>1. PICK s, b, c : s = Asked(p) /\ b = Checked(p).batch /\ c = a \o s
  OBVIOUS
<1>2. s = <<>> => c = a
  BY <1>1
<1>3. CASE s = <<>> /\ b = p.batch
  BY <1>1, <1>2, <1>3
<1>4. CASE s = <<>> /\ b = None
  <2>1. Currency(q, c, b, p.board)
    BY <1>2, <1>4 DEF Currency
  <2>. QED BY <1>1, <2>1
<1>5. CASE /\ p.batch # None /\ Quiet(p.batch) /\ b # None /\ s # <<>>
           /\ b = [p.batch EXCEPT !.nudges = @ + 1, !.quiet = 0]
  <2>1. PICK o \in OpenBatches : o = p.batch
    BY <1>5 DEF Passes
  <2>2. /\ b.glyphs = o.glyphs /\ b.states = o.states /\ b.keys = o.keys
        /\ b.pictures = o.pictures /\ b.n = o.n /\ b.quiet = 0
    BY <1>5, <2>1 DEF OpenBatches
  <2>3. Opener(b) = Opener(o) /\ ~(b.quiet >= 1)
    BY <2>2 DEF Opener
  <2>4. ~HasBatch(q)
    BY <1>1, <1>5
  <2>5. Soon = {}
    BY <1>5, <2>4 DEF Currency, Quiet
  <2>6. \A k \in Keys : Got(b, p.board[k], k)
    BY <1>5, <2>1, <2>2 DEF Currency, Got
  <2>7. Currency(q, c, b, p.board)
    BY <1>5, <2>1, <2>3, <2>4, <2>5, <2>6 DEF Currency, HasBatch
  <2>. QED BY <1>1, <2>7
<1>6. \/ s = <<>> /\ b = p.batch
      \/ s = <<>> /\ b = None
      \/ /\ p.batch # None /\ Quiet(p.batch) /\ b # None
         /\ s = <<[glyphs |-> p.batch.glyphs, states |-> p.batch.states]>>
         /\ b = [p.batch EXCEPT !.nudges = @ + 1, !.quiet = 0]
  BY <1>1, PassChecked
<1>7. \A x : <<x>> # <<>>
  OBVIOUS
<1>. QED BY <1>3, <1>4, <1>5, <1>6, <1>7

(* A message of data goes out: what is in play stays in play.              *)
LEMMA CurrentSent ==
  ASSUME BatchTypeInv, Currency(cdc, asks, batch, board), Scripts',
         NEW m \in DataMsgs, cdc' = Append(cdc, m), UNCHANGED <<asks, batch, board>>,
         ToSet(answering') \subseteq ToSet(answering), answering = <<>> => answering' = <<>>,
         Soon' \subseteq Soon,
         \A g \in Changes : InPlay(g) => InPlay(g)',
         \A i \in DOMAIN cdc : cdc[i] \in BatchMsgs => NewData(m, Change(cdc[i])),
         batch # None => NewData(m, Opener(batch))
  PROVE  Currency(cdc, asks, batch, board)'
<1>1. cdc \in Seq(Msgs) /\ m \in Msgs
  BY DEF BatchTypeInv, BatchTypeOK, Msgs
<1>2. PICK n \in Nat : /\ DOMAIN cdc = 1 .. n /\ DOMAIN cdc' = 1 .. n + 1
                       /\ \A i \in 1 .. n : cdc'[i] = cdc[i]
                       /\ cdc'[n + 1] = m
  <2>1. Grown(cdc, cdc', m)
    BY <1>1, AppendPlaces
  <2>. QED BY <2>1 DEF Grown
<1>3. m \notin BatchMsgs
  BY DataKinds
<1>4. ASSUME NEW i \in DOMAIN cdc', cdc'[i] \in BatchMsgs
      PROVE  /\ asks' = <<>> /\ answering' = <<>> /\ Proper(cdc'[i])
             /\ \A c : c = Change(cdc'[i]) => InPlay(c)'
             /\ \A j \in DOMAIN cdc' : j > i /\ cdc'[j] \in DataMsgs =>
                  NewData(cdc'[j], Change(cdc'[i]))
  <2>1. i \in 1 .. n /\ cdc'[i] = cdc[i]
    BY <1>2, <1>3, <1>4
  <2>2. /\ asks = <<>> /\ answering = <<>> /\ Proper(cdc[i]) /\ InPlay(Change(cdc[i]))
        /\ \A j \in DOMAIN cdc : j > i /\ cdc[j] \in DataMsgs => NewData(cdc[j], Change(cdc[i]))
    BY <1>2, <1>4, <2>1 DEF Currency
  <2>3. PICK c \in Changes : c = Change(cdc[i])
    BY <1>4, <2>1, ChangeType
  <2>4. InPlay(c)'
    BY <2>2, <2>3
  <2>5. ASSUME NEW j \in DOMAIN cdc', j > i, cdc'[j] \in DataMsgs
        PROVE  NewData(cdc'[j], c)
    <3>1. CASE j = n + 1
      BY <1>2, <1>4, <2>1, <2>3, <3>1
    <3>2. CASE j \in 1 .. n
      BY <1>2, <2>2, <2>3, <2>5, <3>2
    <3>. QED BY <1>2, <3>1, <3>2
  <2>. QED BY <2>1, <2>2, <2>3, <2>4, <2>5
<1>5. HasBatch(cdc) => HasBatch(cdc)'
  <2>1. SUFFICES ASSUME NEW i \in DOMAIN cdc, cdc[i] \in BatchMsgs
                 PROVE  \E j \in DOMAIN cdc' : cdc'[j] \in BatchMsgs
    BY DEF HasBatch
  <2>2. i \in DOMAIN cdc' /\ cdc'[i] = cdc[i]
    BY <1>2
  <2>. QED BY <2>1, <2>2
<1>6. ToSet(cdc') = ToSet(cdc) \union {m}
  BY <1>1, SetOfAppend
<1>7. ASSUME batch # None
      PROVE  /\ InPlay(Opener(batch))'
             /\ batch.quiet >= 1 => Soon' = {} \/ HasBatch(cdc)'
             /\ \A x \in (ToSet(cdc') \union ToSet(answering')) \cap DataMsgs :
                  NewData(x, Opener(batch))
  <2>1. PICK c \in Changes : c = Opener(batch)
    BY <1>7, ChangeType DEF BatchTypeInv, BatchTypeOK
  <2>2. InPlay(c)'
    BY <1>7, <2>1 DEF Currency
  <2>3. Opener(batch)' = c
    BY <2>1 DEF Opener
  <2>4. batch.quiet >= 1 => Soon' = {} \/ HasBatch(cdc)'
    BY <1>5, <1>7 DEF Currency
  <2>5. \A x \in (ToSet(cdc) \union ToSet(answering)) \cap DataMsgs : NewData(x, Opener(batch))
    BY <1>7 DEF Currency
  <2>6. \A x \in (ToSet(cdc') \union ToSet(answering')) \cap DataMsgs : NewData(x, Opener(batch))
    BY <1>6, <1>7, <2>5
  <2>7. InPlay(Opener(batch))'
    BY <2>2, <2>3 DEF InPlay, Kept
  <2>. QED BY <2>4, <2>6, <2>7
<1>8. batch # None => \A k \in Keys : Got(batch, board[k], k)
  BY DEF Currency
<1>9. asks # <<>> => Soon' = {}
  BY DEF Currency
<1>10. Opener(batch)' = Opener(batch) /\ \A k : Got(batch, board[k], k)' <=> Got(batch, board[k], k)
  BY DEF Opener, Got
<1>11. \A x, c : NewData(x, c)' <=> NewData(x, c)
  BY DEF NewData
<1>12. \A i \in DOMAIN cdc' : cdc'[i] \in BatchMsgs =>
         /\ asks' = <<>> /\ answering' = <<>> /\ Proper(cdc[i])' /\ InPlay(Change(cdc[i]))'
         /\ \A j \in DOMAIN cdc' : j > i /\ cdc'[j] \in DataMsgs =>
              NewData(cdc'[j], Change(cdc'[i]))
  BY <1>4 DEF InPlay, Kept, Proper, Change
<1>13. batch' # None =>
         /\ InPlay(Opener(batch))' /\ (batch'.quiet >= 1 => Soon' = {} \/ HasBatch(cdc)')
         /\ \A x \in (ToSet(cdc') \union ToSet(answering')) \cap DataMsgs :
              NewData(x, Opener(batch'))
         /\ \A k \in Keys : Got(batch', board'[k], k)
  BY <1>7, <1>8, <1>10
<1>. QED BY <1>9, <1>12, <1>13 DEF Currency

(* Nothing that the invariant is about changes, apart from the board.      *)
LEMMA CurrencySame ==
  ASSUME UNCHANGED <<memory, script, answering, sends>>,
         NEW q, NEW a, NEW b, NEW keys, Currency(q, a, b, keys)
  PROVE  Currency(q, a, b, keys)'
<1>1. Soon' = Soon /\ Ahead' = Ahead
  BY DEF Soon, Ahead
<1>2. \A g : InPlay(g) => InPlay(g)'
  BY <1>1 DEF InPlay, Kept
<1>3. Scripts => Scripts'
  BY <1>1 DEF Scripts
<1>. QED BY <1>1, <1>2, <1>3 DEF Currency

LEMMA CurrentInitially ==
  ASSUME BatchInit
  PROVE  CurrentInv
<1>1. DOMAIN script = {} /\ DOMAIN cdc = {} /\ batch = None /\ asks = <<>>
  BY DEF BatchInit
<1>. QED BY <1>1 DEF CurrentInv, Currency, Scripts

LEMMA CurrentFlush ==
  ASSUME BatchTypeInv, CurrentInv, Flush
  PROVE  CurrentInv'
<1>1. /\ UNCHANGED <<mode, memory, answering, cdc, asks, board, batch, crossed>>
      /\ script = <<>> /\ sends' = sends + 1 /\ sends \in Nat
  BY Bounds DEF Flush, pad, BatchTypeInv, Versions
<1>2. SUFFICES ASSUME Currency(cdc, asks, batch, board)
               PROVE  Currency(cdc, asks, batch, board)'
  BY <1>1 DEF CurrentInv
<1>3. PICK v \in Nat : v = sends + 1
  BY <1>1
<1>4. PICK b \in BatchMsgs : Begins(script', b, v)
  BY <1>3, Scripted
<1>5. Scripts'
  <2>1. \A i \in DOMAIN script' : script'[i] \in BatchMsgs => i = 1 /\ script'[i] = b
    BY <1>4 DEF Begins
  <2>2. Named(b.glyphs, b.states) \subseteq Ahead'
    BY <1>4 DEF Ahead, Begins
  <2>3. \A m \in ToSet(script') \cap DataMsgs : Number(m) >= b.n
    <3>1. b.n = v /\ \A m \in ToSet(script') \cap DataMsgs : Number(m) = v
      BY <1>4 DEF Begins
    <3>2. v >= v
      BY <1>3
    <3>. QED BY <3>1, <3>2
  <2>4. Proper(b) /\ b.n <= sends'
    BY <1>1, <1>3, <1>4 DEF Begins
  <2>5. \A i \in DOMAIN script' : script'[i] \in BatchMsgs =>
          /\ i = 1 /\ Proper(script'[i]) /\ script'[i].n <= sends'
          /\ Named(script'[i].glyphs, script'[i].states) \subseteq Ahead'
          /\ \A m \in ToSet(script') \cap DataMsgs : Number(m) >= script'[i].n
    BY <2>1, <2>2, <2>3, <2>4
  <2>. QED BY <2>5 DEF Scripts, Proper, Number
<1>6. Soon = {} /\ Soon' = {}
  <2>1. Ahead = {}
    BY <1>1, SetOfNone DEF Ahead
  <2>2. script'[1] \in BatchMsgs
    BY <1>4 DEF Begins
  <2>. QED BY <2>1, <2>2 DEF Soon
<1>7. ASSUME NEW g \in Changes, InPlay(g)
      PROVE  InPlay(g)'
  <2>1. g.n \in Nat /\ g.n <= sends
    BY <1>7, BatchAssumption DEF InPlay, Changes, Versions
  <2>2. g.n <= sends' /\ v >= g.n
    BY <1>1, <1>3, <2>1
  <2>3. \A m \in ToSet(script') \cap DataMsgs : Number(m) = v
    BY <1>4 DEF Begins
  <2>. QED BY <1>1, <1>6, <1>7, <2>2, <2>3, KeptSame
<1>8. \A i \in DOMAIN cdc :
        cdc[i] \in BatchMsgs /\ InPlay(Change(cdc[i])) => InPlay(Change(cdc[i]))'
  <2>1. ASSUME NEW i \in DOMAIN cdc, cdc[i] \in BatchMsgs, InPlay(Change(cdc[i]))
        PROVE  InPlay(Change(cdc[i]))'
    <3>1. PICK c \in Changes : c = Change(cdc[i]) /\ c = Change(cdc[i])'
      BY <1>1, <2>1, ChangeType DEF Change
    <3>2. InPlay(c)'
      BY <1>7, <2>1, <3>1
    <3>. QED BY <3>1, <3>2 DEF InPlay, Kept
  <2>. QED BY <2>1
<1>9. batch # None /\ InPlay(Opener(batch)) => InPlay(Opener(batch))'
  <2>1. SUFFICES ASSUME batch # None, InPlay(Opener(batch))
                 PROVE  InPlay(Opener(batch))'
    OBVIOUS
  <2>2. PICK c \in Changes : c = Opener(batch) /\ c = Opener(batch)'
    BY <1>1, <2>1, ChangeType DEF Opener, BatchTypeInv, BatchTypeOK
  <2>3. InPlay(c)'
    BY <1>7, <2>1, <2>2
  <2>. QED BY <2>2, <2>3 DEF InPlay, Kept
<1>10. /\ Opener(batch)' = Opener(batch)
       /\ \A i \in DOMAIN cdc : Change(cdc[i])' = Change(cdc[i])
       /\ \A k : Got(batch, board[k], k)' <=> Got(batch, board[k], k)
  BY <1>1 DEF Opener, Change, Got
<1>11. \A i \in DOMAIN cdc' : cdc'[i] \in BatchMsgs =>
         /\ asks' = <<>> /\ answering' = <<>> /\ Proper(cdc[i])' /\ InPlay(Change(cdc[i]))'
         /\ \A j \in DOMAIN cdc' : j > i /\ cdc'[j] \in DataMsgs =>
              NewData(cdc'[j], Change(cdc'[i]))
  BY <1>1, <1>2, <1>8, <1>10 DEF Currency, Proper
<1>12. batch' # None =>
         /\ InPlay(Opener(batch))'
         /\ \A x \in (ToSet(cdc') \union ToSet(answering')) \cap DataMsgs :
              NewData(x, Opener(batch'))
         /\ \A k \in Keys : Got(batch', board'[k], k)
  BY <1>1, <1>2, <1>9, <1>10 DEF Currency
<1>. QED BY <1>5, <1>6, <1>11, <1>12 DEF Currency

LEMMA CurrentClientCall ==
  ASSUME BatchTypeInv, CurrentInv, ClientCall
  PROVE  CurrentInv'
<1>1. PICK v \in Versions : v = sends + 1
  BY Bounds DEF ClientCall, BatchTypeInv
<1>2. PICK k \in Keys, c \in BOOLEAN :
        Transmit(StateMsg(k, sends + 1, c)) /\ Remember(StateMsg(k, sends + 1, c))
  BY DEF ClientCall
<1>3. PICK m : m = StateMsg(k, v, c)
  OBVIOUS
<1>4. m \in DataMsgs /\ Transmit(m) /\ Remember(m) /\ Number(m) = v
  BY <1>1, <1>2, <1>3 DEF DataMsgs, StateMsgs, StateMsg, Number
<1>5. UNCHANGED <<mode, script, asks, answering, board, batch, crossed>> /\ sends' = v
      /\ sends \in Nat
  BY <1>1, Bounds DEF ClientCall, pad, BatchTypeInv, Versions
<1>6. SUFFICES ASSUME ~mode.overHID, Currency(cdc, asks, batch, board)
               PROVE  Currency(cdc, asks, batch, board)'
  BY <1>5 DEF CurrentInv
<1>7. cdc' = Append(cdc, m)
  BY <1>4, <1>6, Transmitted
<1>8. Soon' = Soon /\ Ahead' = Ahead
  BY <1>5 DEF Soon, Ahead
<1>9. ASSUME NEW g \in Changes, InPlay(g)
      PROVE  NewData(m, g) /\ InPlay(g)'
  <2>1. g.n \in Nat /\ g.n <= sends
    BY <1>9, BatchAssumption DEF InPlay, Changes, Versions
  <2>2. v >= g.n /\ sends <= sends' /\ sends' \in Nat
    BY <1>1, <1>5, <2>1
  <2>. QED BY <1>4, <1>5, <1>9, <2>2, NumberType, KeptCalled
<1>10. Scripts'
  <2>1. \A i \in DOMAIN script : script[i] \in BatchMsgs => script[i].n <= sends'
    <3>1. \A i \in DOMAIN script : script[i] \in BatchMsgs =>
            script[i].n <= sends /\ script[i].n \in Versions
      BY <1>6, BatchKinds DEF Currency, Scripts
    <3>. QED BY <1>1, <1>5, <3>1, BatchAssumption DEF Versions
  <2>. QED BY <1>5, <1>6, <1>8, <2>1 DEF Currency, Scripts
<1>11. \A i \in DOMAIN cdc : cdc[i] \in BatchMsgs => NewData(m, Change(cdc[i]))
  BY <1>6, <1>9, ChangeType DEF Currency
<1>12. batch # None => NewData(m, Opener(batch))
  BY <1>6, <1>9, ChangeType DEF Currency, BatchTypeInv, BatchTypeOK
<1>. QED BY <1>4, <1>5, <1>6, <1>7, <1>8, <1>9, <1>10, <1>11, <1>12, CurrentSent

LEMMA CurrentCall ==
  ASSUME BatchTypeInv, CurrentInv, Call
  PROVE  CurrentInv'
<1>1. PICK m : m = Head(script)
  OBVIOUS
<1>2. /\ script # <<>> /\ script' = Tail(script) /\ m \in Msgs /\ m = script[1]
      /\ 1 \in DOMAIN script /\ script' \in Seq(Msgs) /\ cdc \in Seq(Msgs)
      /\ ToSet(script) = ToSet(script') \union {m}
  BY <1>1, HeadAndTail, SetOfTail DEF Call, BatchTypeInv, BatchTypeOK, Msgs
<1>3. UNCHANGED <<mode, asks, answering, board, batch, sends>> /\ answering = <<>>
  BY DEF Call, pad, LockFree
<1>4. m \in BatchMsgs <=> m.t = "batch"
  BY <1>2, BatchKinds, DataKinds DEF Msgs
<1>5. ~crossed' => ~crossed /\ (m \in BatchMsgs => asks = <<>>)
  <2>1. CASE m.t = "batch"
    <3>1. crossed' = (crossed \/ asks # <<>>)
      BY <1>1, <2>1 DEF Call
    <3>. QED BY <3>1
  <2>2. CASE m.t # "batch"
    <3>1. crossed' = crossed
      BY <1>1, <2>2 DEF Call
    <3>. QED BY <1>4, <2>2, <3>1
  <2>. QED BY <2>1, <2>2
<1>6. SUFFICES ASSUME ~mode.overHID, Currency(cdc, asks, batch, board),
                      m \in BatchMsgs => asks = <<>>
               PROVE  Currency(cdc, asks, batch, board)'
  BY <1>3, <1>5 DEF CurrentInv
<1>7. \A i \in DOMAIN script' : script'[i] \notin BatchMsgs
  <2>1. PICK n \in Nat : /\ DOMAIN script' = 1 .. n
                         /\ \A i \in 1 .. n : script'[i] = script[i + 1] /\ i + 1 \in DOMAIN script
    <3>1. PICK r : r = script
      OBVIOUS
    <3>2. r \in Seq(Msgs) /\ r # <<>>
      BY <1>2, <3>1 DEF BatchTypeInv, BatchTypeOK, Msgs
    <3>3. \E n \in Nat : /\ DOMAIN r = 1 .. n + 1 /\ DOMAIN Tail(r) = 1 .. n
                         /\ \A i \in 1 .. n : Tail(r)[i] = r[i + 1] /\ i + 1 \in DOMAIN r
                         /\ \A i \in 2 .. n + 1 : i - 1 \in 1 .. n /\ Tail(r)[i - 1] = r[i]
      BY <3>2, TailPlaces
    <3>. QED BY <1>2, <3>1, <3>3
  <2>2. ASSUME NEW i \in 1 .. n
        PROVE  script[i + 1] \notin BatchMsgs
    <3>1. i + 1 # 1
      OBVIOUS
    <3>2. i + 1 # 1 /\ i + 1 \in DOMAIN script
      BY <2>1, <3>1
    <3>. QED BY <1>6, <3>2 DEF Currency, Scripts
  <2>. QED BY <2>1, <2>2
<1>8. Scripts'
  BY <1>7 DEF Scripts
<1>9. ASSUME m \in DataMsgs
       PROVE  Currency(cdc, asks, batch, board)'
  <2>1. Transmit(m) /\ Remember(m)
    BY <1>1, <1>4, <1>9, DataKinds DEF Call
  <2>2. cdc' = Append(cdc, m)
    BY <1>6, <1>9, <2>1, Transmitted
  <2>3. m \in ToSet(script) \cap DataMsgs
    BY <1>2, <1>9
  <2>4. ASSUME NEW g \in Changes, InPlay(g)
        PROVE  NewData(m, g) /\ InPlay(g)'
    <3>1. Number(m) >= g.n
      BY <2>3, <2>4 DEF InPlay
    <3>2. sends <= sends' /\ sends' \in Nat
      BY <1>3, Bounds, BatchAssumption DEF BatchTypeInv, Versions
    <3>. QED BY <1>1, <1>2, <1>7, <1>9, <2>1, <2>4, <3>1, <3>2, NumberType, KeptCalled
  <2>5. Soon' \subseteq Soon
    <3>1. Ahead' \subseteq Ahead
      BY <1>2 DEF Ahead
    <3>2. script[1] \notin BatchMsgs
      BY <1>2, <1>9, DataKinds
    <3>. QED BY <3>1, <3>2 DEF Soon
  <2>6. \A i \in DOMAIN cdc : cdc[i] \in BatchMsgs => NewData(m, Change(cdc[i]))
    BY <1>6, <2>4, ChangeType DEF Currency
  <2>7. batch # None => NewData(m, Opener(batch))
    BY <1>6, <2>4, ChangeType DEF Currency, BatchTypeInv, BatchTypeOK
  <2>. QED BY <1>3, <1>6, <1>8, <1>9, <2>2, <2>4, <2>5, <2>6, <2>7, CurrentSent
<1>10. ASSUME m \in BatchMsgs
       PROVE  Currency(cdc, asks, batch, board)'
  <2>1. cdc' = Append(cdc, m) /\ memory' = memory /\ asks = <<>>
    BY <1>1, <1>4, <1>6, <1>10 DEF Call
  <2>2. PICK n \in Nat : /\ DOMAIN cdc = 1 .. n /\ DOMAIN cdc' = 1 .. n + 1
                         /\ \A i \in 1 .. n : cdc'[i] = cdc[i]
                         /\ cdc'[n + 1] = m
    <3>1. cdc \in Seq(Msgs) /\ m \in Msgs /\ cdc' = Append(cdc, m)
      BY <1>2, <2>1
    <3>2. Grown(cdc, cdc', m)
      BY <3>1, AppendPlaces
    <3>. QED BY <3>2 DEF Grown
  <2>3. /\ Proper(m) /\ m.n <= sends /\ Named(m.glyphs, m.states) \subseteq Ahead
        /\ \A x \in ToSet(script) \cap DataMsgs : Number(x) >= m.n
    BY <1>2, <1>6, <1>10 DEF Currency, Scripts
  <2>4. m \notin DataMsgs
    BY <1>10, DataKinds
  <2>5. Ahead' = Ahead
    BY <1>2, <2>4 DEF Ahead
  <2>6. Soon = {}
    BY <1>2, <1>10 DEF Soon
  <2>7. \A x \in Ahead : x \in Soon'
    <3>1. SUFFICES ASSUME NEW x \in Ahead'
                   PROVE  script'[1] \notin BatchMsgs
      BY <2>5 DEF Soon
    <3>2. ToSet(script') # {}
      BY <3>1 DEF Ahead
    <3>3. 1 \in DOMAIN script'
      BY <1>2, <3>2 DEF ToSet
    <3>. QED BY <1>7, <3>3
  <2>8. \A g \in Changes : InPlay(g) => InPlay(g)'
    <3>1. SUFFICES ASSUME NEW g \in Changes, InPlay(g)
                   PROVE  InPlay(g)'
      OBVIOUS
    <3>2. g.n <= sends' /\ \A x \in ToSet(script') \cap DataMsgs : Number(x) >= g.n
      BY <1>2, <1>3, <3>1 DEF InPlay
    <3>. QED BY <2>1, <2>6, <3>1, <3>2, KeptSame
  <2>9. PICK c \in Changes : c = Change(m)
    BY <1>10, ChangeType
  <2>10. InPlay(c)'
    <3>1. /\ c.keys = m.states /\ c.pictures = m.glyphs /\ c.n = m.n
          /\ m.glyphs \in SUBSET Keys /\ m.states \in SUBSET Keys
      BY <1>10, <2>9, BatchKinds DEF Change
    <3>2. /\ \A k \in m.glyphs : <<"glyph", k>> \in Named(m.glyphs, m.states)
          /\ \A k \in m.states : <<"state", k>> \in Named(m.glyphs, m.states)
      BY <3>1, NamedPart
    <3>3. /\ \A k \in c.keys : <<"state", k>> \in Soon'
          /\ \A k \in c.pictures : <<"glyph", k>> \in Soon'
      BY <2>3, <2>7, <3>1, <3>2
    <3>. QED BY <1>2, <1>3, <2>3, <3>1, <3>3 DEF InPlay, Kept, Number
  <2>11. ASSUME NEW i \in DOMAIN cdc', cdc'[i] \in BatchMsgs
         PROVE  /\ answering' = <<>> /\ Proper(cdc'[i])
                /\ \A d : d = Change(cdc'[i]) => InPlay(d)'
                /\ \A j \in DOMAIN cdc' : j > i /\ cdc'[j] \in DataMsgs =>
                     NewData(cdc'[j], Change(cdc'[i]))
    <3>1. CASE i = n + 1
      <4>1. \A j \in DOMAIN cdc' : ~(j > i)
        BY <2>2, <3>1
      <4>. QED BY <1>3, <2>2, <2>3, <2>9, <2>10, <3>1, <4>1
    <3>2. CASE i \in 1 .. n
      <4>1. cdc'[i] = cdc[i] /\ i \in DOMAIN cdc
        BY <2>2, <3>2
      <4>2. /\ Proper(cdc[i]) /\ InPlay(Change(cdc[i]))
            /\ \A j \in DOMAIN cdc : j > i /\ cdc[j] \in DataMsgs =>
                 NewData(cdc[j], Change(cdc[i]))
        BY <1>6, <2>11, <4>1 DEF Currency
      <4>3. PICK d \in Changes : d = Change(cdc[i])
        BY <2>11, <4>1, ChangeType
      <4>4. InPlay(d)'
        BY <2>8, <4>2, <4>3
      <4>5. ASSUME NEW j \in DOMAIN cdc', j > i, cdc'[j] \in DataMsgs
            PROVE  NewData(cdc'[j], d)
        <5>1. j \in 1 .. n
          BY <2>2, <2>4, <4>5
        <5>. QED BY <2>2, <4>2, <4>3, <4>5, <5>1
      <4>. QED BY <1>3, <4>1, <4>2, <4>3, <4>4, <4>5
    <3>. QED BY <2>2, <3>1, <3>2
  <2>12. \A i \in DOMAIN cdc' : cdc'[i] \in BatchMsgs =>
           /\ asks' = <<>> /\ answering' = <<>> /\ Proper(cdc[i])' /\ InPlay(Change(cdc[i]))'
           /\ \A j \in DOMAIN cdc' : j > i /\ cdc'[j] \in DataMsgs =>
                NewData(cdc'[j], Change(cdc'[i]))
    BY <1>3, <2>1, <2>11 DEF InPlay, Kept, Proper, Change
  <2>13. HasBatch(cdc)'
    <3>1. n + 1 \in DOMAIN cdc' /\ cdc'[n + 1] \in BatchMsgs
      BY <1>10, <2>2
    <3>. QED BY <3>1 DEF HasBatch
  <2>14. ASSUME batch # None
         PROVE  /\ InPlay(Opener(batch))'
                /\ \A x \in (ToSet(cdc') \union ToSet(answering')) \cap DataMsgs :
                     NewData(x, Opener(batch'))
                /\ \A k \in Keys : Got(batch', board'[k], k)
    <3>1. PICK d \in Changes : d = Opener(batch) /\ d = Opener(batch)'
      BY <1>3, <2>14, ChangeType DEF Opener, BatchTypeInv, BatchTypeOK
    <3>2. InPlay(d)'
      BY <1>6, <2>8, <2>14, <3>1 DEF Currency
    <3>3. InPlay(Opener(batch))'
      BY <3>1, <3>2 DEF InPlay, Kept
    <3>4. ToSet(cdc') = ToSet(cdc) \union {m}
      BY <1>2, <2>1, SetOfAppend
    <3>5. \A x \in (ToSet(cdc) \union ToSet(answering)) \cap DataMsgs : NewData(x, Opener(batch))
      BY <1>6, <2>14 DEF Currency
    <3>6. \A k \in Keys : Got(batch, board[k], k)
      BY <1>6, <2>14 DEF Currency
    <3>. QED BY <1>3, <2>4, <3>3, <3>4, <3>5, <3>6
  <2>. QED BY <1>3, <1>8, <2>1, <2>12, <2>13, <2>14 DEF Currency
<1>. QED BY <1>2, <1>9, <1>10 DEF Msgs

LEMMA CurrentAnswers ==
  ASSUME BatchTypeInv, CurrentInv, NEW i \in DOMAIN asks, HandleBatchIncomplete(i)
  PROVE  CurrentInv'
<1>1. UNCHANGED <<mode, memory, script, cdc, board, batch, crossed, sends>>
      /\ answering' = Answers(asks[i])
  BY DEF HandleBatchIncomplete, pad
<1>2. asks[i].glyphs \in SUBSET Keys /\ asks[i].states \in SUBSET Keys
  <2>1. asks[i] \in Asks
    BY DEF BatchTypeInv, BatchTypeOK
  <2>. QED BY <2>1 DEF Asks
<1>3. SUFFICES ASSUME Currency(cdc, asks, batch, board)
               PROVE  Currency(cdc, asks, batch, board)'
  BY <1>1 DEF CurrentInv
<1>4. asks # <<>>
  OBVIOUS
<1>5. Soon = {} /\ Soon' = {} /\ Ahead' = Ahead
  BY <1>1, <1>3, <1>4 DEF Currency, Soon, Ahead
<1>6. \A j \in DOMAIN cdc : cdc[j] \notin BatchMsgs
  BY <1>3, <1>4 DEF Currency
<1>7. Scripts'
  BY <1>1, <1>3, <1>5 DEF Currency, Scripts
<1>8. ASSUME batch # None
      PROVE  /\ InPlay(Opener(batch))'
             /\ \A x \in (ToSet(cdc') \union ToSet(answering')) \cap DataMsgs :
                  NewData(x, Opener(batch'))
             /\ \A k \in Keys : Got(batch', board'[k], k)
  <2>1. PICK g \in Changes : g = Opener(batch) /\ g = Opener(batch)'
    BY <1>1, <1>8, ChangeType DEF Opener, BatchTypeInv, BatchTypeOK
  <2>2. InPlay(g) /\ InPlay(g)'
    BY <1>1, <1>3, <1>5, <1>8, <2>1 DEF Currency, InPlay, Kept
  <2>3. InPlay(Opener(batch))'
    BY <2>1, <2>2 DEF InPlay, Kept
  <2>4. PICK r : r = answering'
    OBVIOUS
  <2>5. Says(r, asks[i].glyphs, asks[i].states)
    <3>1. r = AnswersWith(asks[i].glyphs, asks[i].states)
      BY <1>1, <2>4 DEF Answers
    <3>. QED BY <1>2, <3>1, AnswersHold DEF BatchTypeInv
  <2>6. ASSUME NEW x \in ToSet(r)
        PROVE  NewData(x, g)
    <3>1. PICK j \in DOMAIN r : x = r[j]
      BY DEF ToSet
    <3>2. /\ x.key \in Keys /\ memory[x.key] # None
          /\ \/ x.t = "glyph" /\ x.glyph = memory[x.key].glyph /\ x.glyph # None
             \/ x.t = "state" /\ x.state = memory[x.key].state
      BY <2>5, <3>1 DEF Says
    <3>3. /\ x.key \in g.keys => memory[x.key].state >= g.n
          /\ x.key \in g.pictures => memory[x.key].glyph = None \/ memory[x.key].glyph >= g.n
      BY <1>5, <2>2, <3>2 DEF InPlay, Kept
    <3>. QED BY <3>2, <3>3 DEF NewData
  <2>7. \A x \in ToSet(cdc) \cap DataMsgs : NewData(x, g)
    BY <1>3, <1>8, <2>1 DEF Currency
  <2>8. \A k \in Keys : Got(batch, board[k], k)
    BY <1>3, <1>8 DEF Currency
  <2>. QED BY <1>1, <2>1, <2>3, <2>4, <2>6, <2>7, <2>8
<1>. QED BY <1>1, <1>5, <1>6, <1>7, <1>8 DEF Currency

LEMMA CurrentAnswer ==
  ASSUME BatchTypeInv, CurrentInv, Answer
  PROVE  CurrentInv'
<1>1. PICK m : m = Head(answering)
  OBVIOUS
<1>2. /\ answering # <<>> /\ answering' = Tail(answering) /\ m \in DataMsgs
      /\ ToSet(answering) = ToSet(answering') \union {m} /\ Transmit(m)
  BY <1>1, HeadAndTail, SetOfTail DEF Answer, BatchTypeInv, BatchTypeOK
<1>3. UNCHANGED <<mode, memory, script, asks, board, batch, crossed, sends>>
  BY DEF Answer, pad
<1>4. SUFFICES ASSUME ~mode.overHID, Currency(cdc, asks, batch, board)
               PROVE  Currency(cdc, asks, batch, board)'
  BY <1>3 DEF CurrentInv
<1>5. cdc' = Append(cdc, m)
  BY <1>2, <1>4, Transmitted
<1>6. Soon' = Soon /\ Ahead' = Ahead
  BY <1>3 DEF Soon, Ahead
<1>7. \A g \in Changes : InPlay(g) => InPlay(g)'
  BY <1>3, <1>6 DEF InPlay, Kept
<1>8. Scripts'
  BY <1>3, <1>4, <1>6 DEF Currency, Scripts
<1>9. \A i \in DOMAIN cdc : cdc[i] \notin BatchMsgs
  BY <1>2, <1>4 DEF Currency
<1>10. batch # None => NewData(m, Opener(batch))
  BY <1>2, <1>4 DEF Currency
<1>11. ToSet(answering') \subseteq ToSet(answering)
  BY <1>2
<1>. QED BY <1>2, <1>3, <1>4, <1>5, <1>6, <1>7, <1>8, <1>9, <1>10, <1>11, CurrentSent

LEMMA CurrentStep ==
  ASSUME BatchTypeInv, BoardInv, CurrentInv, Step
  PROVE  CurrentInv'
<1>1. PICK p1, p2 : Took(p1, p2)
  BY Stepped DEF BatchTypeInv
<1>2. UNCHANGED <<mode, memory, script, answering, sends>>
  BY Zenon DEF Step, host
<1>3. ~crossed' => ~crossed /\ (Asked(p2) # <<>> => ~HasBatch(cdc'))
  <2>1. crossed' = (crossed \/ (Asked(p2) # <<>> /\ \E m \in ToSet(cdc') : m.t = "batch"))
    BY <1>1, Zenon DEF Took
  <2>2. SUFFICES ASSUME ~crossed', Asked(p2) # <<>>, HasBatch(cdc')
                 PROVE  FALSE
    BY <2>1
  <2>3. PICK i \in DOMAIN cdc' : cdc'[i] \in BatchMsgs
    BY <2>2 DEF HasBatch
  <2>4. cdc'[i] \in ToSet(cdc') /\ cdc'[i].t = "batch"
    BY <2>3, BatchKinds DEF ToSet
  <2>. QED BY <2>1, <2>2, <2>4
<1>4. SUFFICES ASSUME ~mode.overHID, Currency(cdc, asks, batch, board),
                      Asked(p2) # <<>> => ~HasBatch(cdc')
               PROVE  Currency(cdc, asks, batch, board)'
  BY <1>2, <1>3 DEF CurrentInv
<1>5. p2 = p1 /\ hid = None
  BY <1>1, <1>4 DEF Took, BoardInv
<1>6. PICK p0 : p0 = AsIs /\ p0.batch = batch /\ p0.board = board /\ p0 \in Passes
  BY <1>1 DEF Took, AsIs
<1>7. PICK q, a : q = cdc' /\ a = asks
  OBVIOUS
<1>8. Currency(q, a, p1.batch, p1.board)
  <2>1. CASE p1 = AsIs /\ cdc' = cdc
    BY <1>4, <1>6, <1>7, <2>1
  <2>2. CASE cdc # <<>> /\ p1 = Received(AsIs, Head(cdc)) /\ cdc' = Tail(cdc)
    <3>1. PICK c \in Seq(Msgs) : c = cdc
      BY DEF BatchTypeInv, BatchTypeOK, Msgs
    <3>2. Currency(c, a, p0.batch, p0.board)
      BY <1>4, <1>6, <1>7, <3>1
    <3>3. Currency(Tail(c), a, Received(p0, Head(c)).batch, Received(p0, Head(c)).board)
      BY <1>6, <2>2, <3>1, <3>2, CurrencyCdc
    <3>. QED BY <1>6, <1>7, <2>2, <3>1, <3>3
  <2>. QED BY <1>1, <2>1, <2>2 DEF Took
<1>9. p1 \in Passes /\ a \in Seq(Asks)
  BY <1>1, <1>7 DEF Took, BatchTypeInv, BatchTypeOK
<1>10. Currency(q, a \o Asked(p1), Checked(p1).batch, p1.board)
  <2>1. Asked(p1) # <<>> => ~HasBatch(q)
    BY <1>4, <1>5, <1>7
  <2>. QED BY <1>8, <1>9, <2>1, CurrencyChecked
<1>11. PICK c, b, k : c = asks' /\ b = batch' /\ k = board'
  OBVIOUS
<1>12. c = a \o Asked(p1) /\ b = Checked(p1).batch /\ k = p1.board
  BY <1>1, <1>5, <1>7, <1>11 DEF Took
<1>13. Currency(q, c, b, k)'
  <2>1. Currency(q, c, b, k)
    BY <1>10, <1>12
  <2>. QED BY <1>2, <2>1, CurrencySame
<1>. QED BY <1>7, <1>11, <1>13

LEMMA CurrentDropGlyph ==
  ASSUME BatchTypeInv, CurrentInv, DropGlyph
  PROVE  CurrentInv'
<1>1. /\ UNCHANGED <<mode, memory, script, answering, asks, board, batch, crossed, sends>>
      /\ cdc # <<>> /\ cdc' = Tail(cdc) /\ Head(cdc).t = "glyph"
  BY DEF DropGlyph, host, pad
<1>2. SUFFICES ASSUME Currency(cdc, asks, batch, board)
               PROVE  Currency(cdc, asks, batch, board)'
  BY <1>1 DEF CurrentInv
<1>3. PICK q, a, b, keys : q \in Seq(Msgs) /\ q = cdc /\ a = asks /\ b = batch /\ keys = board
  BY DEF BatchTypeInv, BatchTypeOK, Msgs
<1>4. Head(q) \in DataMsgs
  <2>1. Head(q) \in Msgs
    BY <1>1, <1>3, HeadAndTail
  <2>. QED BY <1>1, <1>3, <2>1, BatchKinds DEF Msgs
<1>5. Currency(Tail(q), a, b, keys)
  BY <1>1, <1>2, <1>3, <1>4, CurrencyTail
<1>6. PICK r : r = Tail(q)
  OBVIOUS
<1>7. Currency(r, a, b, keys)'
  BY <1>1, <1>5, <1>6, CurrencySame
<1>. QED BY <1>1, <1>3, <1>6, <1>7

LEMMA CurrentTick ==
  ASSUME BatchTypeInv, CurrentInv, Tick
  PROVE  CurrentInv'
<1>1. UNCHANGED <<mode, memory, script, answering, asks, cdc, board, crossed, sends>>
  BY DEF Tick, host
<1>2. SUFFICES ASSUME mode.prompt, Currency(cdc, asks, batch, board)
               PROVE  Currency(cdc, asks, batch, board)'
  BY <1>1 DEF CurrentInv
<1>3. script = <<>>
  BY <1>2 DEF Tick, Silent
<1>4. Soon = {}
  BY <1>3, SetOfNone DEF Soon, Ahead
<1>5. PICK q, a, b, c, keys : q = cdc /\ a = asks /\ b = batch /\ c = batch' /\ keys = board
  OBVIOUS
<1>6. /\ b # None /\ c.glyphs = b.glyphs /\ c.states = b.states /\ c.keys = b.keys
      /\ c.pictures = b.pictures /\ c.n = b.n
  <2>1. b # None /\ b \in OpenBatches /\ c = [b EXCEPT !.age = c.age, !.quiet = c.quiet]
    BY <1>5, Ticked DEF BatchTypeInv
  <2>2. PICK u, v : u = c.age /\ v = c.quiet
    OBVIOUS
  <2>3. c = [b EXCEPT !.age = u, !.quiet = v]
    BY <2>1, <2>2
  <2>. QED BY <2>1, <2>3 DEF OpenBatches
<1>7. Opener(c) = Opener(b) /\ \A k : Got(c, keys[k], k) <=> Got(b, keys[k], k)
  BY <1>6 DEF Opener, Got
<1>8. Currency(q, a, c, keys)
  <2>1. Currency(q, a, b, keys)
    BY <1>2, <1>5
  <2>. QED BY <1>4, <1>6, <1>7, <2>1 DEF Currency
<1>9. Currency(q, a, c, keys)'
  BY <1>1, <1>8, CurrencySame
<1>. QED BY <1>1, <1>5, <1>9

LEMMA CurrentNext ==
  ASSUME BatchTypeInv, BoardInv, CurrentInv, [BatchNext]_batchVars
  PROVE  CurrentInv'
<1>1. CASE UNCHANGED batchVars
  <2>1. UNCHANGED <<mode, memory, script, answering, asks, cdc, board, batch, crossed, sends>>
    BY <1>1 DEF batchVars, host, pad
  <2>2. PICK q, a, b, keys : q = cdc /\ a = asks /\ b = batch /\ keys = board
    OBVIOUS
  <2>3. Currency(q, a, b, keys) => Currency(q, a, b, keys)'
    BY <2>1, CurrencySame
  <2>. QED BY <2>1, <2>2, <2>3 DEF CurrentInv
<1>. QED BY <1>1, CurrentFlush, CurrentCall, CurrentClientCall, CurrentAnswers, CurrentAnswer,
            CurrentStep, CurrentDropGlyph, CurrentTick DEF BatchNext

(* A pass that completes a batch has seen all that it names.               *)
LEMMA CompleteStep ==
  ASSUME BatchTypeInv, BoardInv, CurrentInv, [BatchNext]_batchVars,
         batch # None, batch' = None, ended' = "complete",
         ~mode.overHID, mode.prompt, ~crossed
  PROVE  \A k \in batch.keys : Current(k, batch, board'[k])
<1>1. Step
  <2>1. UNCHANGED batchVars => batch' = batch
    BY DEF batchVars, pad
  <2>2. /\ Flush => batch' = batch
        /\ Call => batch' = batch
        /\ ClientCall => batch' = batch
        /\ Answer => batch' = batch
        /\ DropGlyph => batch' = batch
        /\ \A i \in DOMAIN asks : HandleBatchIncomplete(i) => batch' = batch
    BY DEF Flush, Call, ClientCall, Answer, DropGlyph, HandleBatchIncomplete, pad
  <2>3. Tick => batch' # None
    BY Ticked DEF BatchTypeInv
  <2>. QED BY <2>1, <2>2, <2>3 DEF BatchNext
<1>2. PICK p1, p2 : Took(p1, p2)
  BY <1>1, Stepped DEF BatchTypeInv
<1>3. p2 = p1 /\ hid = None
  BY <1>2 DEF Took, BoardInv
<1>4. PICK p0 : p0 = AsIs /\ p0.batch = batch /\ p0.board = board /\ p0 \in Passes
  BY <1>2 DEF Took, AsIs
<1>5. PICK c, a : c \in Seq(Msgs) /\ c = cdc /\ a = asks
  BY DEF BatchTypeInv, BatchTypeOK, Msgs
<1>6. Currency(c, a, p0.batch, p0.board)
  BY <1>4, <1>5 DEF CurrentInv
<1>7. PICK b : b = batch /\ b \in OpenBatches
  BY DEF BatchTypeInv, BatchTypeOK
<1>8. PICK q : Currency(q, a, p1.batch, p1.board)
  <2>1. CASE p1 = p0
    BY <1>6, <2>1
  <2>2. CASE c # <<>> /\ p1 = Received(p0, Head(c))
    <3>1. Currency(Tail(c), a, Received(p0, Head(c)).batch, Received(p0, Head(c)).board)
      BY <1>4, <1>5, <1>6, <2>2, CurrencyCdc
    <3>. QED BY <2>2, <3>1
  <2>. QED BY <1>2, <1>4, <1>5, <2>1, <2>2 DEF Took
<1>9. /\ p1.batch # None
      /\ Complete(p1.batch) =>
           p1.batch.keys = b.keys /\ p1.batch.pictures = b.pictures /\ p1.batch.n = b.n
  <2>1. CASE p1 = p0
    BY <1>4, <1>7, <2>1
  <2>2. CASE c # <<>> /\ p1 = Received(p0, Head(c))
    <3>1. PICK m \in Msgs : m = Head(c) /\ m = c[1] /\ 1 \in DOMAIN c
      BY <1>5, <2>2, HeadAndTail
    <3>2. CASE m \in BatchMsgs
      <4>1. m.states # {}
        BY <1>6, <3>1, <3>2 DEF Currency, Proper
      <4>2. /\ p1.batch # None
            /\ p1.batch = [glyphs |-> m.glyphs, states |-> m.states,
                           keys |-> m.glyphs \union m.states, pictures |-> m.glyphs,
                           n |-> m.n, age |-> 0, quiet |-> 0, nudges |-> 0]
        BY <1>4, <2>2, <3>1, <3>2, BatchReceived
      <4>3. p1.batch.states = m.states
        BY <4>2
      <4>. QED BY <4>1, <4>2, <4>3 DEF Complete
    <3>3. CASE m \in DataMsgs
      <4>1. p0.batch = b /\ b # None /\ p1 = Received(p0, m)
        BY <1>4, <1>7, <2>2, <3>1
      <4>2. PICK d : d = p1.batch
        OBVIOUS
      <4>3. /\ d # None
            /\ d = [b EXCEPT !.glyphs = IF m.t = "glyph" THEN @ \ {m.key} ELSE @,
                             !.states = IF m.t = "state" THEN @ \ {m.key} ELSE @,
                             !.quiet = 0]
        BY <1>4, <3>3, <4>1, <4>2, DataReceived
      <4>4. d.keys = b.keys /\ d.pictures = b.pictures /\ d.n = b.n
        BY <1>7, <4>3 DEF OpenBatches
      <4>. QED BY <4>2, <4>3, <4>4
    <3>. QED BY <3>1, <3>2, <3>3 DEF Msgs
  <2>. QED BY <1>2, <1>4, <1>5, <2>1, <2>2 DEF Took
<1>10. Complete(p1.batch) /\ board' = p1.board
  <2>1. board' = p1.board /\ Checked(p1).batch = None /\ Checked(p1).ended = "complete"
        /\ p1 \in Passes
    BY <1>2, <1>3 DEF Took
  <2>2. \/ Checked(p1) = p1
        \/ Complete(p1.batch)
        \/ Checked(p1).ended = "late"
        \/ Checked(p1).batch # None
    BY <2>1, PassChecked
  <2>. QED BY <1>9, <2>1, <2>2
<1>11. \A k \in Keys : Got(p1.batch, p1.board[k], k)
  BY <1>8, <1>9 DEF Currency
<1>12. \A k \in b.keys : k \in Keys
  BY <1>7 DEF OpenBatches
<1>. QED BY <1>7, <1>9, <1>10, <1>11, <1>12 DEF Got, Complete, Current

(* A batch that is complete has, of every key that it names, the key state *)
(* and the glyph that were sent for it or later ones, over CDC, if the     *)
(* host did not answer for an earlier batch after it.                      *)
THEOREM CompleteAlwaysCurrent == BatchSpec => CompleteIsCurrent
<1>1. BatchInit => BatchTypeInv /\ BoardInv /\ CurrentInv
  BY TypeInit, BoardInit, CurrentInitially
<1>2. BatchTypeInv /\ BoardInv /\ CurrentInv /\ [BatchNext]_batchVars
        => (BatchTypeInv /\ BoardInv /\ CurrentInv)'
  BY TypeNext, BoardNext, CurrentNext
<1>3. BatchTypeInv /\ BoardInv /\ CurrentInv /\ [BatchNext]_batchVars
        => [(batch # None /\ batch' = None /\ ended' = "complete")
              => \/ mode.overHID \/ ~mode.prompt \/ crossed
                 \/ \A k \in batch.keys : Current(k, batch, board'[k])]_batchVars
  BY CompleteStep
<1>. QED BY <1>1, <1>2, <1>3, PTL DEF BatchSpec, CompleteIsCurrent
=============================================================================
