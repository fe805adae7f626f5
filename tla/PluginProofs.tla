---------------------------- MODULE PluginProofs ----------------------------
(***************************************************************************)
(* Proofs about package plugin, for any number of clients, writers, keys,  *)
(* presses and clicks and any length of the queues: a client that lost     *)
(* nothing knows the last that was said of every key and holds no stale    *)
(* image, it hears of presses before their children, and no click counts   *)
(* twice.                                                                  *)
(***************************************************************************)
EXTENDS PluginServer, ClickResolver, FiniteSetTheorems, SequenceTheorems, WellFoundedInduction, TLAPS

-----------------------------------------------------------------------------
(* The keys of the cache, listed in order: each of them has a place.       *)
Rank(S, k) == Cardinality({j \in S : j <= k})

LEMMA RanksDiffer ==
  ASSUME NEW S \in SUBSET Int, IsFiniteSet(S)
  PROVE  /\ \A k \in S : Rank(S, k) \in 1 .. Cardinality(S)
         /\ \A k, l \in S : Rank(S, k) = Rank(S, l) => k = l
<1>1. ASSUME NEW k \in S
      PROVE  Rank(S, k) \in 1 .. Cardinality(S)
  <2>1. PICK U : U = {j \in S : j <= k}
    OBVIOUS
  <2>2. k \in U /\ U \in SUBSET S
    BY <2>1
  <2>3. IsFiniteSet(U) /\ Cardinality(U) <= Cardinality(S)
    BY <2>2, FS_Subset
  <2>4. Cardinality(U) \in Nat /\ Cardinality(S) \in Nat /\ Cardinality(U) # 0
    BY <2>2, <2>3, FS_CardinalityType, FS_EmptySet
  <2>. QED BY <2>1, <2>3, <2>4 DEF Rank
<1>2. ASSUME NEW k \in S, NEW l \in S, k < l
      PROVE  Rank(S, k) < Rank(S, l)
  <2>1. PICK A : A = {j \in S : j <= k}
    OBVIOUS
  <2>2. PICK B : B = {j \in S : j <= l}
    OBVIOUS
  <2>3. k \in Int /\ l \in Int /\ \A j \in S : j \in Int
    OBVIOUS
  <2>4. A \in SUBSET B /\ l \in B /\ l \notin A /\ B \in SUBSET S
    <3>1. \A j \in Int : j <= k => j <= l
      BY <1>2, <2>3
    <3>2. l \in B /\ B \in SUBSET S
      BY <2>2, <2>3
    <3>3. l \notin A
      BY <1>2, <2>1, <2>3
    <3>. QED BY <2>1, <2>2, <2>3, <3>1, <3>2, <3>3
  <2>5. IsFiniteSet(B)
    BY <2>4, FS_Subset
  <2>6. Cardinality(A) <= Cardinality(B) /\ IsFiniteSet(A) /\ Cardinality(A) # Cardinality(B)
    BY <2>4, <2>5, FS_Subset
  <2>7. Cardinality(A) \in Nat /\ Cardinality(B) \in Nat
    BY <2>5, <2>6, FS_CardinalityType
  <2>8. Cardinality(A) < Cardinality(B)
    BY <2>6, <2>7
  <2>. QED BY <2>1, <2>2, <2>8 DEF Rank
<1>3. \A k \in S : Rank(S, k) \in Int /\ k \in Int
  BY <1>1
<1>4. ASSUME NEW k \in S, NEW l \in S, Rank(S, k) = Rank(S, l)
      PROVE  k = l
  <2>1. ~(k < l) /\ ~(l < k)
    BY <1>2, <1>3, <1>4
  <2>. QED BY <1>3, <2>1
<1>. QED BY <1>1, <1>4

LEMMA InOrderLists ==
  ASSUME NEW S \in SUBSET Int, IsFiniteSet(S)
  PROVE  /\ InOrder(S) \in Seq(S)
         /\ \A k \in S : \E i \in DOMAIN InOrder(S) : InOrder(S)[i] = k
<1>1. PICK n \in Nat : n = Cardinality(S)
  BY FS_CardinalityType
<1>2. PICK f : f = [k \in S |-> Rank(S, k)]
  OBVIOUS
<1>3. f \in Injection(S, 1 .. n)
  <2>1. f \in [S -> 1 .. n]
    BY <1>1, <1>2, RanksDiffer
  <2>2. \A k, l \in S : f[k] = f[l] => k = l
    BY <1>2, RanksDiffer
  <2>. QED BY <2>1, <2>2 DEF Injection, IsInjective
<1>4. IsFiniteSet(1 .. n) /\ Cardinality(1 .. n) = n
  BY FS_Interval
<1>5. \A i \in 1 .. n : \E k \in S : Rank(S, k) = i
  <2>1. f \in Surjection(S, 1 .. n)
    BY <1>1, <1>3, <1>4, FS_Injection
  <2>2. \A i \in 1 .. n : \E k \in S : f[k] = i
    BY <2>1 DEF Surjection
  <2>. QED BY <1>2, <2>2
<1>6. \A i \in 1 .. n : InOrder(S)[i] \in S /\ Rank(S, InOrder(S)[i]) = i
  BY <1>1, <1>5 DEF InOrder, Rank
<1>7. DOMAIN InOrder(S) = 1 .. n /\ InOrder(S) \in [1 .. n -> S]
  <2>1. DOMAIN InOrder(S) = 1 .. n
    BY <1>1 DEF InOrder
  <2>. QED BY <1>6, <2>1 DEF InOrder
<1>8. ASSUME NEW k \in S
      PROVE  \E i \in 1 .. n : InOrder(S)[i] = k
  <2>1. PICK i \in 1 .. n : i = Rank(S, k)
    BY <1>1, RanksDiffer
  <2>2. InOrder(S)[i] \in S /\ Rank(S, InOrder(S)[i]) = Rank(S, k)
    BY <1>6, <2>1
  <2>3. \A l \in S : Rank(S, l) = Rank(S, k) => l = k
    BY RanksDiffer
  <2>. QED BY <2>2, <2>3
<1>9. InOrder(S) \in Seq(S)
  BY <1>7
<1>. QED BY <1>7, <1>8, <1>9

(* A set of numbers with a bound has a greatest one.                       *)
LEMMA Greatest ==
  ASSUME NEW n \in Nat, NEW S \in SUBSET (1 .. n), S # {}
  PROVE  \E i \in S : \A j \in S : j <= i
<1>1. PICK T : T = {m \in 0 .. n : n - m \in S}
  OBVIOUS
<1>2. T \in SUBSET Nat /\ T # {}
  <2>1. PICK i \in S : i \in 1 .. n
    OBVIOUS
  <2>2. n - i \in 0 .. n /\ n - (n - i) = i
    BY <2>1
  <2>3. n - i \in T
    BY <1>1, <2>1, <2>2
  <2>4. \A m \in 0 .. n : m \in Nat
    OBVIOUS
  <2>. QED BY <1>1, <2>3, <2>4
<1>3. PICK m \in T : \A y \in T : ~(<<y, m>> \in OpToRel(<, Nat))
  BY <1>2, NatLessThanWellFounded, WFMin
<1>4. \A y \in T : ~(y < m)
  BY <1>2, <1>3 DEF OpToRel
<1>5. n - m \in S /\ m \in 0 .. n
  BY <1>1
<1>6. ASSUME NEW j \in S
      PROVE  j <= n - m
  <2>1. j \in 1 .. n /\ n - j \in 0 .. n /\ n - (n - j) = j
    OBVIOUS
  <2>2. n - j \in T
    BY <1>1, <2>1
  <2>3. ~(n - j < m)
    BY <1>4, <2>2
  <2>. QED BY <1>5, <2>1, <2>3
<1>. QED BY <1>5, <1>6

-----------------------------------------------------------------------------
(* The messages and the last one of a list about a key.                    *)
LEMMA MessageKinds ==
  /\ \A k, v : KeyMsg(k, v).value = v
  /\ \A k, v, j, P : About(KeyMsg(k, v), j, P) <=> (k = j /\ v.part \in P)
  /\ \A l, j, P : ~About(LayerMsg(l), j, P)
  /\ \A n, j, P : ~About(EventMsg(n), j, P) /\ ~About(ChildMsg(n), j, P)
  /\ \A k, v, n : KeyMsg(k, v) # ChildMsg(n) /\ KeyMsg(k, v) # EventMsg(n)
  /\ \A l, n : LayerMsg(l) # ChildMsg(n) /\ LayerMsg(l) # EventMsg(n)
  /\ \A n, m : EventMsg(n) # ChildMsg(m) /\ (ChildMsg(n) = ChildMsg(m) => n = m)
               /\ (EventMsg(n) = EventMsg(m) => n = m)
<1>1. \A k, v : KeyMsg(k, v).kind = "key" /\ KeyMsg(k, v).key = k /\ KeyMsg(k, v).value = v
  BY DEF KeyMsg
<1>2. \A l : LayerMsg(l).kind = "layer"
  BY DEF LayerMsg
<1>3. \A n : EventMsg(n).kind = "event" /\ EventMsg(n).press = n
  BY DEF EventMsg
<1>4. \A n : ChildMsg(n).kind = "child" /\ ChildMsg(n).press = n
  BY DEF ChildMsg
<1>. QED BY <1>1, <1>2, <1>3, <1>4 DEF About

(* The two parts of what is said of a key.                                 *)
LEMMA SaidParts ==
  /\ \A v \in Said : v.part \in {"state", "image"} /\ v # None
  /\ \A v \in Values : /\ State(v) \in Said /\ State(v).part = "state"
                        /\ Image(v) \in Said /\ Image(v).part = "image"
<1>1. \A v \in Said : v.part \in {"state", "image"}
  BY DEF Said, State, Image
<1>2. \A v \in Values : State(v).part = "state" /\ Image(v).part = "image"
  BY DEF State, Image
<1>3. \A v \in Said : v # None
  BY ServerAssumption
<1>. QED BY <1>1, <1>2, <1>3 DEF Said

LEMMA MessagesTyped ==
  /\ \A k \in Keys, v \in Said : KeyMsg(k, v) \in Messages
  /\ \A l \in 0 .. MaxLayers : LayerMsg(l) \in Messages
  /\ \A n \in 1 .. MaxWork : EventMsg(n) \in Messages /\ ChildMsg(n) \in Messages
BY DEF Messages

LEMMA LastIs ==
  ASSUME NEW s \in Seq(Messages), NEW k, NEW P, NEW i \in 1 .. Len(s), About(s[i], k, P),
         \A j \in i + 1 .. Len(s) : ~About(s[j], k, P)
  PROVE  LastAbout(s, k, P) = s[i].value
<1>1. PICK n \in Nat : n = Len(s) /\ DOMAIN s = 1 .. n
  OBVIOUS
<1>2. PICK A : A = {j \in DOMAIN s : About(s[j], k, P)}
  OBVIOUS
<1>3. i \in A
  BY <1>1, <1>2
<1>4. \A j \in A : j <= i
  BY <1>1, <1>2
<1>5. A \in SUBSET Int
  BY <1>1, <1>2
<1>6. (CHOOSE l \in A : \A j \in A : j <= l) = i
  <2>1. \A l \in A : (\A j \in A : j <= l) => l = i
    BY <1>3, <1>4, <1>5
  <2>. QED BY <1>3, <1>4, <2>1
<1>. QED BY <1>2, <1>3, <1>6 DEF LastAbout

LEMMA LastEmpty == \A k, P : LastAbout(<<>>, k, P) = None
<1>1. \A k, P : {i \in DOMAIN <<>> : About(<<>>[i], k, P)} = {}
  OBVIOUS
<1>. QED BY <1>1 DEF LastAbout

LEMMA LastNone ==
  ASSUME NEW s \in Seq(Messages), NEW k, NEW P, \A j \in 1 .. Len(s) : ~About(s[j], k, P)
  PROVE  LastAbout(s, k, P) = None
BY DEF LastAbout

(* Either no message is about the key, or one is the last.                 *)
LEMMA LastOrNone ==
  ASSUME NEW s \in Seq(Messages), NEW k, NEW P, ~\A j \in 1 .. Len(s) : ~About(s[j], k, P)
  PROVE  \E i \in 1 .. Len(s) :
            About(s[i], k, P) /\ \A j \in i + 1 .. Len(s) : ~About(s[j], k, P)
<1>1. PICK n \in Nat : n = Len(s)
  OBVIOUS
<1>2. PICK A : A = {j \in 1 .. n : About(s[j], k, P)}
  OBVIOUS
<1>3. A \in SUBSET (1 .. n) /\ A # {}
  BY <1>1, <1>2
<1>4. PICK i \in A : \A j \in A : j <= i
  BY <1>3, Greatest
<1>5. i \in 1 .. n /\ About(s[i], k, P)
  BY <1>2
<1>6. \A j \in i + 1 .. n : ~About(s[j], k, P)
  <2>. SUFFICES ASSUME NEW j \in i + 1 .. n, About(s[j], k, P) PROVE FALSE
    OBVIOUS
  <2>1. j \in 1 .. n /\ ~(j <= i)
    BY <1>5
  <2>. QED BY <2>1, <1>2, <1>4
<1>. QED BY <1>1, <1>5, <1>6

(* What a list says of a key after one more message, or some more.         *)
LEMMA LastAppended ==
  ASSUME NEW s \in Seq(Messages), NEW m \in Messages, NEW k, NEW P
  PROVE  /\ About(m, k, P) => LastAbout(Append(s, m), k, P) = m.value
         /\ ~About(m, k, P) => LastAbout(Append(s, m), k, P) = LastAbout(s, k, P)
<1>1. PICK n \in Nat : n = Len(s)
  OBVIOUS
<1>2. PICK t \in Seq(Messages) : t = Append(s, m)
  BY AppendProperties
<1>3. Len(t) = n + 1 /\ t[n + 1] = m /\ \A i \in 1 .. n : t[i] = s[i]
  BY <1>1, <1>2
<1>4. CASE About(m, k, P)
  <2>1. n + 1 \in 1 .. Len(t) /\ \A j \in (n + 1) + 1 .. Len(t) : ~About(t[j], k, P)
    BY <1>3
  <2>2. LastAbout(t, k, P) = t[n + 1].value
    BY <1>3, <1>4, <2>1, LastIs
  <2>. QED BY <1>2, <1>3, <1>4, <2>2
<1>5. CASE ~About(m, k, P) /\ \A j \in 1 .. n : ~About(s[j], k, P)
  <2>1. \A j \in 1 .. Len(t) : j \in 1 .. n \/ j = n + 1
    BY <1>3
  <2>2. \A j \in 1 .. Len(t) : ~About(t[j], k, P)
    BY <1>3, <1>5, <2>1
  <2>3. LastAbout(t, k, P) = None
    BY <2>2, LastNone
  <2>4. LastAbout(s, k, P) = None
    BY <1>1, <1>5, LastNone
  <2>. QED BY <1>2, <1>5, <2>3, <2>4
<1>6. CASE ~About(m, k, P) /\ ~\A j \in 1 .. n : ~About(s[j], k, P)
  <2>1. PICK i \in 1 .. n : About(s[i], k, P) /\ \A j \in i + 1 .. n : ~About(s[j], k, P)
    BY <1>1, <1>6, LastOrNone
  <2>2. i \in 1 .. Len(t) /\ t[i] = s[i]
    BY <1>3
  <2>3. \A j \in i + 1 .. Len(t) : j = n + 1 \/ (j \in i + 1 .. n /\ j \in 1 .. n)
    BY <1>3
  <2>4. \A j \in i + 1 .. Len(t) : ~About(t[j], k, P)
    BY <1>3, <1>6, <2>1, <2>3
  <2>5. LastAbout(t, k, P) = t[i].value
    BY <2>1, <2>2, <2>4, LastIs
  <2>6. LastAbout(s, k, P) = s[i].value
    BY <1>1, <2>1, LastIs
  <2>. QED BY <1>2, <1>6, <2>2, <2>5, <2>6
<1>. QED BY <1>4, <1>5, <1>6

(* Of two places, the earlier one is not the last.                         *)
LEMMA NotLast ==
  ASSUME NEW l \in Nat, NEW i \in 1 .. l + 1, NEW j \in 1 .. l + 1, i < j
  PROVE  i \in 1 .. l
OBVIOUS

LEMMA Joined ==
  ASSUME NEW s \in Seq(Messages), NEW t \in Seq(Messages)
  PROVE  /\ s \o t \in Seq(Messages) /\ Len(s \o t) = Len(s) + Len(t)
         /\ \A i \in 1 .. Len(s) : (s \o t)[i] = s[i]
         /\ \A i \in 1 .. Len(t) : Len(s) + i \in 1 .. Len(s \o t) /\ (s \o t)[Len(s) + i] = t[i]
         /\ \A i \in 1 .. Len(s \o t) : i \in 1 .. Len(s)
              \/ (i - Len(s) \in 1 .. Len(t) /\ (s \o t)[i] = t[i - Len(s)])
OBVIOUS

(* A list that does not name a key leaves what was said of it.             *)
LEMMA LastUntouched ==
  ASSUME NEW s \in Seq(Messages), NEW t \in Seq(Messages), NEW k, NEW P,
         \A i \in 1 .. Len(t) : ~About(t[i], k, P)
  PROVE  LastAbout(s \o t, k, P) = LastAbout(s, k, P)
<1>1. PICK n \in Nat : n = Len(s)
  OBVIOUS
<1>2. PICK u \in Seq(Messages) : u = s \o t
  BY Joined
<1>3. /\ \A i \in 1 .. n : u[i] = s[i] /\ i \in 1 .. Len(u)
      /\ \A i \in 1 .. Len(u) : i \in 1 .. n \/ ~About(u[i], k, P)
  <2>1. Len(u) = n + Len(t) /\ Len(t) \in Nat
    BY <1>1, <1>2, Joined
  <2>2. \A i \in 1 .. n : u[i] = s[i]
    BY <1>1, <1>2, Joined
  <2>3. \A i \in 1 .. n : i \in 1 .. Len(u)
    BY <2>1
  <2>4. \A i \in 1 .. Len(u) : i \in 1 .. n \/ (i - n \in 1 .. Len(t) /\ u[i] = t[i - n])
    BY <1>1, <1>2, Joined
  <2>. QED BY <2>2, <2>3, <2>4
<1>4. CASE \A j \in 1 .. n : ~About(s[j], k, P)
  <2>1. \A j \in 1 .. Len(u) : ~About(u[j], k, P)
    BY <1>3, <1>4
  <2>2. LastAbout(u, k, P) = None
    BY <2>1, LastNone
  <2>3. LastAbout(s, k, P) = None
    BY <1>1, <1>4, LastNone
  <2>. QED BY <1>2, <2>2, <2>3
<1>5. CASE ~\A j \in 1 .. n : ~About(s[j], k, P)
  <2>1. PICK i \in 1 .. n : About(s[i], k, P) /\ \A j \in i + 1 .. n : ~About(s[j], k, P)
    BY <1>1, <1>5, LastOrNone
  <2>2. i \in 1 .. Len(u) /\ u[i] = s[i] /\ About(u[i], k, P)
    BY <1>3, <2>1
  <2>3. ASSUME NEW j \in i + 1 .. Len(u)
        PROVE  ~About(u[j], k, P)
    <3>1. j \in 1 .. Len(u)
      BY <2>2
    <3>2. CASE j \in 1 .. n
      <4>1. j \in i + 1 .. n /\ u[j] = s[j]
        BY <1>3, <3>2
      <4>. QED BY <4>1, <2>1
    <3>. QED BY <1>3, <3>1, <3>2
  <2>4. LastAbout(u, k, P) = u[i].value
    BY <2>2, <2>3, LastIs
  <2>5. LastAbout(s, k, P) = s[i].value
    BY <1>1, <2>1, LastIs
  <2>. QED BY <1>2, <2>2, <2>4, <2>5
<1>. QED BY <1>4, <1>5

(* A list that names a key, with one value, has the last word on it.       *)
LEMMA LastJoined ==
  ASSUME NEW s \in Seq(Messages), NEW t \in Seq(Messages), NEW k, NEW P, NEW v,
         \A i \in 1 .. Len(t) : About(t[i], k, P) => t[i].value = v
  PROVE  /\ (\E i \in 1 .. Len(t) : About(t[i], k, P)) => LastAbout(s \o t, k, P) = v
         /\ (\A i \in 1 .. Len(t) : ~About(t[i], k, P)) => LastAbout(s \o t, k, P) = LastAbout(s, k, P)
<1>1. PICK n \in Nat : n = Len(s)
  OBVIOUS
<1>2. PICK l \in Nat : l = Len(t)
  OBVIOUS
<1>3. PICK u \in Seq(Messages) : u = s \o t
  BY Joined
<1>4. /\ Len(u) = n + l
      /\ \A i \in 1 .. n : u[i] = s[i]
      /\ \A i \in 1 .. l : n + i \in 1 .. Len(u) /\ u[n + i] = t[i]
      /\ \A i \in 1 .. Len(u) : i \in 1 .. n \/ (i - n \in 1 .. l /\ u[i] = t[i - n])
  <2>1. Len(u) = n + l
    BY <1>1, <1>2, <1>3, Joined
  <2>2. \A i \in 1 .. n : u[i] = s[i]
    BY <1>1, <1>3, Joined
  <2>3. \A i \in 1 .. l : u[n + i] = t[i]
    BY <1>1, <1>2, <1>3, Joined
  <2>4. ASSUME NEW i \in 1 .. Len(u), i \notin 1 .. n
        PROVE  i - n \in 1 .. l /\ u[i] = t[i - n]
    <3>1. i - n \in 1 .. l /\ n + (i - n) = i
      BY <2>1, <2>4
    <3>. QED BY <2>3, <3>1
  <2>5. \A i \in 1 .. l : n + i \in 1 .. Len(u)
    BY <2>1
  <2>. QED BY <2>1, <2>2, <2>3, <2>4, <2>5
<1>5. ASSUME NEW e \in 1 .. l, About(t[e], k, P)
      PROVE  LastAbout(u, k, P) = v
  <2>1. n + e \in 1 .. Len(u) /\ About(u[n + e], k, P)
    BY <1>4, <1>5
  <2>2. PICK i \in 1 .. Len(u) :
               About(u[i], k, P) /\ \A j \in i + 1 .. Len(u) : ~About(u[j], k, P)
    BY <2>1, LastOrNone
  <2>3. ~(n + e \in i + 1 .. Len(u))
    BY <2>1, <2>2
  <2>4. i \notin 1 .. n
    BY <1>4, <2>1, <2>3
  <2>5. i - n \in 1 .. l /\ u[i] = t[i - n]
    BY <1>4, <2>4
  <2>6. u[i].value = v
    BY <1>2, <2>2, <2>5
  <2>7. LastAbout(u, k, P) = u[i].value
    BY <2>2, LastIs
  <2>. QED BY <2>6, <2>7
<1>6. ASSUME \A i \in 1 .. l : ~About(t[i], k, P)
      PROVE  LastAbout(u, k, P) = LastAbout(s, k, P)
  BY <1>2, <1>3, <1>6, LastUntouched
<1>. QED BY <1>2, <1>3, <1>5, <1>6

(* The parts of a list that fits.                                          *)
LEMMA FittingIs ==
  ASSUME NEW s \in Seq(Messages), NEW room \in Nat
  PROVE  /\ Fitting(s, room) \in Seq(Messages) /\ Len(Fitting(s, room)) <= room
         /\ Len(Fitting(s, room)) <= Len(s)
         /\ \A i \in 1 .. Len(Fitting(s, room)) : Fitting(s, room)[i] = s[i]
         /\ Len(s) <= room => Fitting(s, room) = s
<1>1. PICK n \in Nat : n = Len(s)
  OBVIOUS
<1>2. CASE n <= room
  <2>1. Fitting(s, room) = s
    BY <1>1, <1>2 DEF Fitting
  <2>. QED BY <1>1, <1>2, <2>1
<1>3. CASE ~(n <= room)
  <2>1. PICK t : t = SubSeq(s, 1, room)
    OBVIOUS
  <2>2. t \in Seq(Messages) /\ Len(t) = room /\ \A i \in 1 .. room : t[i] = s[i]
    BY <1>1, <1>3, <2>1
  <2>3. Fitting(s, room) = t
    BY <1>1, <1>3, <2>1 DEF Fitting
  <2>. QED BY <1>1, <1>3, <2>2, <2>3
<1>. QED BY <1>2, <1>3

(* What is replayed: the state of each key in the cache, once.             *)
LEMMA RememberedIs ==
  ASSUME NumKeys \in Nat, cache \in [Keys -> Said \union {None}]
  PROVE  /\ Remembered \in Seq(Messages)
         /\ \A i \in 1 .. Len(Remembered) :
              \E k \in Keys : cache[k] # None /\ Remembered[i] = KeyMsg(k, cache[k])
         /\ \A k \in Keys : cache[k] # None =>
              \E i \in 1 .. Len(Remembered) : Remembered[i] = KeyMsg(k, cache[k])
<1>1. PICK S : S = {k \in Keys : cache[k] # None}
  OBVIOUS
<1>2. S \in SUBSET Int /\ IsFiniteSet(S) /\ S \in SUBSET Keys
  <2>1. IsFiniteSet(Keys)
    BY FS_Interval DEF Keys
  <2>2. S \in SUBSET Keys
    BY <1>1
  <2>3. \A k \in Keys : k \in Int
    BY DEF Keys
  <2>. QED BY <2>1, <2>2, <2>3, FS_Subset
<1>3. PICK keys : keys = InOrder(S)
  OBVIOUS
<1>4. keys \in Seq(S) /\ \A k \in S : \E i \in DOMAIN keys : keys[i] = k
  BY <1>2, <1>3, InOrderLists
<1>5. PICK n \in Nat : n = Len(keys) /\ DOMAIN keys = 1 .. n
  BY <1>4
<1>6. Remembered = [i \in 1 .. n |-> KeyMsg(keys[i], cache[keys[i]])]
  BY <1>1, <1>3, <1>5 DEF Remembered
<1>7. \A k \in S : cache[k] \in Said /\ cache[k] # None /\ k \in Keys
  BY <1>1
<1>8. \A i \in 1 .. n : keys[i] \in S
  BY <1>4, <1>5
<1>9. \A i \in 1 .. n : KeyMsg(keys[i], cache[keys[i]]) \in Messages
  BY <1>7, <1>8, MessagesTyped
<1>10. Remembered \in Seq(Messages) /\ Len(Remembered) = n
  <2>1. Remembered \in [1 .. n -> Messages]
    BY <1>6, <1>9
  <2>. QED BY <2>1
<1>11. \A i \in 1 .. n : Remembered[i] = KeyMsg(keys[i], cache[keys[i]])
  BY <1>6
<1>12. \A i \in 1 .. n : \E k \in Keys : cache[k] # None /\ Remembered[i] = KeyMsg(k, cache[k])
  BY <1>7, <1>8, <1>11
<1>13. ASSUME NEW k \in Keys, cache[k] # None
       PROVE  \E i \in 1 .. n : Remembered[i] = KeyMsg(k, cache[k])
  <2>1. k \in S
    BY <1>1, <1>13
  <2>2. PICK i \in 1 .. n : keys[i] = k
    BY <1>4, <1>5, <2>1
  <2>. QED BY <1>11, <2>2
<1>. QED BY <1>10, <1>12, <1>13

(* So the replay tells a client what the cache says.                       *)
LEMMA ReplayTells ==
  ASSUME NumKeys \in Nat, cache \in [Keys -> Said \union {None}],
         NEW s \in Seq(Messages), NEW k \in Keys
  PROVE  LastAbout(s \o Remembered, k, {"state", "image"})
           = IF cache[k] = None THEN LastAbout(s, k, {"state", "image"}) ELSE cache[k]
<1>1. PICK t \in Seq(Messages) : t = Remembered
  BY RememberedIs
<1>2. PICK v : v = cache[k]
  OBVIOUS
<1>3. \A i \in 1 .. Len(t) : \E j \in Keys : cache[j] # None /\ t[i] = KeyMsg(j, cache[j])
  BY <1>1, RememberedIs
<1>4. ASSUME NEW i \in 1 .. Len(t), About(t[i], k, {"state", "image"})
      PROVE  t[i].value = v /\ v # None
  <2>1. PICK j \in Keys : cache[j] # None /\ t[i] = KeyMsg(j, cache[j])
    BY <1>3
  <2>2. j = k
    BY <2>1, <1>4, MessageKinds
  <2>. QED BY <2>1, <2>2, <1>2, MessageKinds
<1>5. CASE v # None
  <2>0. v.part \in {"state", "image"}
    BY <1>2, <1>5, SaidParts
  <2>1. PICK i \in 1 .. Len(t) : t[i] = KeyMsg(k, v)
    BY <1>1, <1>2, <1>5, RememberedIs
  <2>2. About(t[i], k, {"state", "image"})
    BY <2>0, <2>1, MessageKinds
  <2>3. LastAbout(s \o t, k, {"state", "image"}) = v
    BY <1>4, <2>2, LastJoined
  <2>. QED BY <2>3, <1>1, <1>2, <1>5
<1>6. CASE v = None
  <2>1. \A i \in 1 .. Len(t) : ~About(t[i], k, {"state", "image"})
    BY <1>4, <1>6
  <2>2. LastAbout(s \o t, k, {"state", "image"}) = LastAbout(s, k, {"state", "image"})
    BY <2>1, LastUntouched
  <2>. QED BY <2>2, <1>1, <1>2, <1>6
<1>. QED BY <1>5, <1>6

-----------------------------------------------------------------------------
(* The calls under way about a key, and counters within their bounds.      *)
Active(k) == {w \in Writers : writer[w].step # "none" /\ writer[w].key = k}

Counts ==
  /\ calls \in Nat /\ presses \in Nat /\ presses <= MaxWork
  /\ \A w \in Writers :
       /\ writer[w].step = "none" => writer[w] = NoCall
       /\ writer[w].step # "none" =>
            /\ writer[w].key \in Keys /\ writer[w].value \in Said
            /\ writer[w].next # None => writer[w].next.part = "state"
  /\ \A i \in DOMAIN waiting : waiting[i] <= presses
  /\ (pressed # None => pressed <= presses) /\ (child # None => child <= presses)

Registered ==
  /\ \A c \in clients : stage[c] \notin {"out", "rejected"} /\ ~closed[c]
  /\ \A c \in Clients : c \in leaving \/ closed[c] => stage[c] # "out"

(* The calls of the writers, and the last that a call says of its key.     *)
Calls == [Writers -> [step : {"none", "remember", "broadcast"}, key : Keys \union {0},
                      value : Said \union {None}, next : Said \union {None}]]
LastOf(w) == IF writer[w].next = None THEN writer[w].value ELSE writer[w].next

(* The device and the cache: one call at a time about a key that did not   *)
(* race, and the two differ only while the call is between them.           *)
Settled(k) ==
  /\ \A w, u \in Active(k) : w = u
  /\ Active(k) = {} => cache[k] = device[k]
  /\ \A w \in Active(k) : device[k] = LastOf(w)
  /\ \A w \in Active(k) : writer[w].step = "broadcast" => cache[k] = writer[w].value
Told(k) ==
  /\ k \notin raced => Settled(k)
  /\ \A w \in Active(k) : writer[w].step = "broadcast" => cache[k] # None

(* A client that lost nothing, past its replay, has heard what the cache   *)
(* says, unless a call has still to broadcast it.                          *)
Kept(c) == c \in clients /\ c \notin cut /\ drops[c] = 0
Current(c, k) ==
  /\ Kept(c) /\ stage[c] # "replay" /\ k \notin raced
  /\ \A w \in Active(k) : writer[w].step = "remember"
Knows(c, k) ==
  /\ cache[k] = None => LastPart(c, k) = None
  /\ Current(c, k) => LastPart(c, k) = cache[k]

Agree == \A k \in Keys : Told(k) /\ \A c \in Clients : Knows(c, k)

(* The presses go on in their order, and every child that a client has     *)
(* heard of is of an earlier press.                                        *)
Line ==
  /\ \A i, j \in DOMAIN waiting : i < j => waiting[i] < waiting[j]
  /\ pressed # None => child = None /\ \A i \in DOMAIN waiting : pressed < waiting[i]
  /\ child # None => \A i \in DOMAIN waiting : child < waiting[i]
Ahead(n) ==
  /\ n <= presses /\ (pressed # None => n < pressed) /\ (child # None => n < child)
  /\ \A i \in DOMAIN waiting : n < waiting[i]
Names(s, n) == \E i \in DOMAIN s : s[i] = ChildMsg(n)
Sorted(s) ==
  \A n \in 1 .. MaxWork : \A i, j \in DOMAIN s : i < j /\ s[i] = ChildMsg(n) =>
     s[j] # EventMsg(n) /\ \A m \in 1 .. n - 1 : s[j] # ChildMsg(m)
Ordered ==
  /\ Line
  /\ \A c \in Clients :
       Sorted(Heard(c)) /\ \A n \in 1 .. MaxWork : Names(Heard(c), n) => Ahead(n)

IInv == TypeOK /\ Counts /\ Registered /\ Agree /\ Ordered

-----------------------------------------------------------------------------
(* Lists that grow, and what they name.                                    *)
LEMMA SortedEmpty == Sorted(<<>>) /\ \A n : ~Names(<<>>, n)
BY DEF Sorted, Names

LEMMA SortedAppended ==
  ASSUME NEW s \in Seq(Messages), Sorted(s), NEW m \in Messages,
         \A n \in 1 .. MaxWork : Names(s, n) =>
            m # EventMsg(n) /\ \A l \in 1 .. n - 1 : m # ChildMsg(l)
  PROVE  /\ Sorted(Append(s, m))
         /\ \A n \in 1 .. MaxWork : Names(Append(s, m), n) => Names(s, n) \/ m = ChildMsg(n)
<1>1. PICK l \in Nat : l = Len(s) /\ DOMAIN s = 1 .. l
  OBVIOUS
<1>2. PICK t \in Seq(Messages) : t = Append(s, m)
  BY AppendProperties
<1>3. DOMAIN t = 1 .. l + 1 /\ t[l + 1] = m /\ \A i \in 1 .. l : t[i] = s[i]
  BY <1>1, <1>2
<1>4. Sorted(t)
  <2>. SUFFICES ASSUME NEW n \in 1 .. MaxWork, NEW i \in 1 .. l + 1, NEW j \in 1 .. l + 1,
                       i < j, t[i] = ChildMsg(n)
                PROVE  t[j] # EventMsg(n) /\ \A q \in 1 .. n - 1 : t[j] # ChildMsg(q)
    BY <1>3 DEF Sorted
  <2>1. i \in 1 .. l /\ s[i] = ChildMsg(n)
    BY <1>3
  <2>2. CASE j \in 1 .. l
    BY <2>1, <2>2, <1>1, <1>3 DEF Sorted
  <2>3. CASE j = l + 1
    <3>1. Names(s, n)
      BY <2>1, <1>1 DEF Names
    <3>. QED BY <3>1, <2>3, <1>3
  <2>. QED BY <2>2, <2>3
<1>5. ASSUME NEW n \in 1 .. MaxWork, Names(t, n)
      PROVE  Names(s, n) \/ m = ChildMsg(n)
  BY <1>1, <1>3, <1>5 DEF Names
<1>. QED BY <1>2, <1>4, <1>5

(* States and layers alone leave the order of presses and children.        *)
Silent(m) == \A n : m # ChildMsg(n) /\ m # EventMsg(n)

LEMMA SilentKinds ==
  (\A k, v : Silent(KeyMsg(k, v))) /\ (\A l : Silent(LayerMsg(l)))
BY MessageKinds DEF Silent

LEMMA SortedJoined ==
  ASSUME NEW s \in Seq(Messages), Sorted(s), NEW t \in Seq(Messages),
         \A i \in 1 .. Len(t) : Silent(t[i])
  PROVE  Sorted(s \o t) /\ \A n \in 1 .. MaxWork : Names(s \o t, n) => Names(s, n)
<1>1. PICK l \in Nat : l = Len(s) /\ DOMAIN s = 1 .. l
  OBVIOUS
<1>2. PICK u \in Seq(Messages) : u = s \o t
  BY Joined
<1>3. \A i \in DOMAIN u : (i \in 1 .. l /\ u[i] = s[i]) \/ Silent(u[i])
  <2>1. DOMAIN u = 1 .. Len(u)
    OBVIOUS
  <2>. QED BY <1>1, <1>2, <2>1, Joined
<1>4. Sorted(u)
  <2>. SUFFICES ASSUME NEW n \in 1 .. MaxWork, NEW i \in DOMAIN u, NEW j \in DOMAIN u,
                       i < j, u[i] = ChildMsg(n)
                PROVE  u[j] # EventMsg(n) /\ \A q \in 1 .. n - 1 : u[j] # ChildMsg(q)
    BY DEF Sorted
  <2>1. i \in 1 .. l /\ s[i] = ChildMsg(n)
    BY <1>3 DEF Silent
  <2>2. CASE Silent(u[j])
    BY <2>2 DEF Silent
  <2>3. CASE j \in 1 .. l /\ u[j] = s[j]
    BY <2>1, <2>3, <1>1 DEF Sorted
  <2>. QED BY <1>3, <2>2, <2>3
<1>5. ASSUME NEW n \in 1 .. MaxWork, Names(u, n)
      PROVE  Names(s, n)
  BY <1>1, <1>3, <1>5 DEF Names, Silent
<1>. QED BY <1>2, <1>4, <1>5

-----------------------------------------------------------------------------
(* How the calls of the server change what a client has heard.             *)
LEMMA HeardTyped ==
  ASSUME TypeOK, NEW c \in Clients
  PROVE  /\ got[c] \in Seq(Messages) /\ queue[c] \in Seq(Messages)
         /\ Heard(c) \in Seq(Messages) /\ Heard(c) = got[c] \o queue[c]
<1>1. got[c] \in Seq(Messages) /\ queue[c] \in Seq(Messages)
  BY DEF TypeOK
<1>. QED BY <1>1, Joined DEF Heard

LEMMA BroadcastHeard ==
  ASSUME TypeOK, NEW m \in Messages, Broadcast(m), got' = got
  PROVE  /\ queue' \in [Clients -> Seq(Messages)] /\ got' \in [Clients -> Seq(Messages)]
         /\ drops' \in [Clients -> Nat]
         /\ \A c \in Clients : Len(queue'[c]) <= QueueSize
         /\ \A c \in Clients : Heard(c)' = Heard(c) \/ Heard(c)' = Append(Heard(c), m)
         /\ \A c \in clients : drops'[c] = 0 =>
              drops[c] = 0 /\ Heard(c)' = Append(Heard(c), m)
         /\ leaving' \subseteq leaving \union clients /\ leaving \subseteq leaving'
<1>. USE ServerAssumption
<1>1. ASSUME NEW c \in Clients, c \in clients, ~Full(c)
      PROVE  /\ queue'[c] \in Seq(Messages) /\ Len(queue'[c]) <= QueueSize
             /\ Heard(c)' = Append(Heard(c), m) /\ drops'[c] = drops[c]
  <2>1. queue'[c] = Append(queue[c], m) /\ drops'[c] = drops[c]
    BY <1>1 DEF Broadcast
  <2>2. PICK q \in Seq(Messages) : q = queue[c]
    BY HeardTyped
  <2>3. PICK g \in Seq(Messages) : g = got[c]
    BY HeardTyped
  <2>4. Append(q, m) \in Seq(Messages) /\ Len(Append(q, m)) = Len(q) + 1 /\ Len(q) \in Nat
    OBVIOUS
  <2>5. Len(q) <= QueueSize /\ Len(q) # QueueSize /\ QueueSize \in Nat
    BY <1>1, <2>2 DEF TypeOK, Full
  <2>6. g \o Append(q, m) = Append(g \o q, m)
    OBVIOUS
  <2>. QED BY <2>1, <2>2, <2>3, <2>4, <2>5, <2>6 DEF Heard
<1>2. ASSUME NEW c \in Clients, ~(c \in clients /\ ~Full(c))
      PROVE  /\ queue'[c] = queue[c] /\ Heard(c)' = Heard(c)
             /\ drops'[c] = IF c \in clients THEN drops[c] + 1 ELSE drops[c]
  BY <1>2 DEF Broadcast, Heard
<1>3. queue' \in [Clients -> Seq(Messages)]
  <2>1. \A c \in Clients : queue'[c] \in Seq(Messages)
    BY <1>1, <1>2, HeardTyped
  <2>2. queue' = [c \in Clients |-> queue'[c]]
    BY DEF Broadcast
  <2>. QED BY <2>1, <2>2
<1>4. drops' \in [Clients -> Nat] /\ \A c \in Clients : drops[c] \in Nat
  BY DEF Broadcast, TypeOK
<1>5. \A c \in Clients : Len(queue'[c]) <= QueueSize
  <2>1. \A c \in Clients : Len(queue[c]) <= QueueSize
    BY DEF TypeOK
  <2>. QED BY <2>1, <1>1, <1>2
<1>6. \A c \in Clients : Heard(c)' = Heard(c) \/ Heard(c)' = Append(Heard(c), m)
  BY <1>1, <1>2
<1>7. ASSUME NEW c \in clients, drops'[c] = 0
      PROVE  drops[c] = 0 /\ Heard(c)' = Append(Heard(c), m)
  <2>1. c \in Clients
    BY DEF TypeOK
  <2>2. ~Full(c)
    BY <1>2, <1>4, <1>7, <2>1
  <2>. QED BY <1>1, <1>7, <2>1, <2>2
<1>8. leaving' \subseteq leaving \union clients /\ leaving \subseteq leaving'
  BY DEF Broadcast
<1>9. got' \in [Clients -> Seq(Messages)]
  BY DEF TypeOK
<1>. QED BY <1>3, <1>4, <1>5, <1>6, <1>7, <1>8, <1>9

(* What was written, what waits and what is put after it, in one line.     *)
LEMMA Regrouped ==
  ASSUME NEW s \in Seq(Messages), NEW t \in Seq(Messages), NEW u \in Seq(Messages)
  PROVE  s \o (t \o u) = (s \o t) \o u
  BY ConcatAssociative, SMTT(30)

LEMMA SendHeard ==
  ASSUME TypeOK, NEW c \in Clients, NEW ms \in Seq(Messages), SendAlone(c, ms), got' = got
  PROVE  /\ queue' \in [Clients -> Seq(Messages)] /\ got' \in [Clients -> Seq(Messages)]
         /\ \A d \in Clients : Len(queue'[d]) <= QueueSize
         /\ \A d \in Clients \ {c} : Heard(d)' = Heard(d)
         /\ \E r \in Seq(Messages) : /\ Heard(c)' = Heard(c) \o r /\ Len(r) <= Len(ms)
                                     /\ \A i \in 1 .. Len(r) : r[i] = ms[i]
                                     /\ c \notin cut' /\ ~closed[c] => r = ms
         /\ cut \subseteq cut' /\ cut' \subseteq cut \union {c}
<1>. USE ServerAssumption
<1>1. PICK q \in Seq(Messages) : q = queue[c]
  BY HeardTyped
<1>2. PICK g \in Seq(Messages) : g = got[c]
  BY HeardTyped
<1>3. PICK room \in Nat : room = QueueSize - Len(q)
  <2>1. Len(q) <= QueueSize /\ Len(q) \in Nat /\ QueueSize \in Nat
    BY <1>1 DEF TypeOK
  <2>. QED BY <2>1
<1>4. PICK f \in Seq(Messages) : f = Fitting(ms, room)
  BY FittingIs
<1>5. /\ Len(f) <= room /\ Len(f) <= Len(ms) /\ \A i \in 1 .. Len(f) : f[i] = ms[i]
      /\ Len(ms) <= room => f = ms
  BY <1>4, FittingIs
<1>6. PICK r \in Seq(Messages) : r = IF closed[c] THEN <<>> ELSE f
  <2>1. <<>> \in Seq(Messages)
    OBVIOUS
  <2>. QED BY <2>1
<1>7. queue'[c] = q \o r /\ \A d \in Clients \ {c} : queue'[d] = queue[d]
  <2>1. queue \in [Clients -> Seq(Messages)]
    BY DEF TypeOK
  <2>2. queue' = [queue EXCEPT ![c] = IF closed[c] THEN q
                                      ELSE q \o Fitting(ms, QueueSize - Len(q))]
    BY <1>1 DEF SendAlone
  <2>3. q \o <<>> = q
    OBVIOUS
  <2>. QED BY <2>1, <2>2, <2>3, <1>3, <1>4, <1>6
<1>8. q \o r \in Seq(Messages) /\ Len(q \o r) = Len(q) + Len(r) /\ Len(r) <= room
  <2>1. Len(<<>>) = 0
    OBVIOUS
  <2>. QED BY <2>1, <1>5, <1>6
<1>9. queue' \in [Clients -> Seq(Messages)] /\ \A d \in Clients : Len(queue'[d]) <= QueueSize
  <2>1. queue' \in [Clients -> Seq(Messages)]
    <3>1. DOMAIN queue' = Clients /\ queue' = [d \in Clients |-> queue'[d]]
      BY DEF SendAlone, TypeOK
    <3>2. \A d \in Clients : queue'[d] \in Seq(Messages)
      BY <1>7, <1>8, HeardTyped
    <3>. QED BY <3>1, <3>2
  <2>2. Len(q \o r) <= QueueSize
    <3>1. Len(q) \in Nat /\ Len(r) \in Nat /\ QueueSize \in Nat
      OBVIOUS
    <3>. QED BY <3>1, <1>3, <1>8
  <2>3. \A d \in Clients : Len(queue[d]) <= QueueSize
    BY DEF TypeOK
  <2>. QED BY <2>1, <2>2, <2>3, <1>7
<1>10. \A d \in Clients \ {c} : Heard(d)' = Heard(d)
  BY <1>7 DEF Heard
<1>11. Heard(c)' = Heard(c) \o r
  <2>1. g \o (q \o r) = (g \o q) \o r
    BY Regrouped, ZenonT(30)
  <2>. QED BY <2>1, <1>1, <1>2, <1>7 DEF Heard
<1>12. Len(r) <= Len(ms) /\ \A i \in 1 .. Len(r) : r[i] = ms[i]
  <2>1. CASE closed[c]
    <3>1. Len(r) = 0 /\ Len(ms) \in Nat
      BY <2>1, <1>6
    <3>. QED BY <3>1
  <2>. QED BY <2>1, <1>5, <1>6
<1>13. ASSUME c \notin cut', ~closed[c]
       PROVE  r = ms
  <2>1. ~(Len(ms) > QueueSize - Len(q))
    BY <1>1, <1>13 DEF SendAlone
  <2>2. Len(ms) \in Nat
    OBVIOUS
  <2>. QED BY <2>1, <2>2, <1>3, <1>5, <1>6, <1>13
<1>14. cut \subseteq cut' /\ cut' \subseteq cut \union {c}
  BY DEF SendAlone
<1>15. got' \in [Clients -> Seq(Messages)]
  BY DEF TypeOK
<1>. QED BY <1>9, <1>10, <1>11, <1>12, <1>13, <1>14, <1>15

-----------------------------------------------------------------------------
(* What a step may do to the parts of the invariant.                       *)
LEMMA AgreeKept ==
  ASSUME Agree, UNCHANGED <<cache, told, raced, writer>>,
         \A c \in Clients, k \in Keys :
            /\ LastPart(c, k)' = LastPart(c, k) \/ LastPart(c, k)' = None
            /\ Kept(c)' /\ stage'[c] # "replay" =>
                 Kept(c) /\ stage[c] # "replay" /\ LastPart(c, k)' = LastPart(c, k)
  PROVE  Agree'
<1>1. ASSUME NEW k \in Keys
      PROVE  Active(k)' = Active(k) /\ Told(k)'
  BY DEF Agree, Told, Settled, Active, LastOf, told
<1>2. ASSUME NEW k \in Keys, NEW c \in Clients
      PROVE  Knows(c, k)'
  <2>1. Knows(c, k)
    BY DEF Agree
  <2>2. Active(k)' = Active(k)
    BY <1>1
  <2>3. cache'[k] = None => LastPart(c, k)' = None
    BY <2>1 DEF Knows
  <2>4. ASSUME Current(c, k)'
        PROVE  LastPart(c, k)' = cache'[k]
    <3>1. Kept(c)' /\ stage'[c] # "replay" /\ k \notin raced
      BY <2>4 DEF Current
    <3>2. Kept(c) /\ stage[c] # "replay" /\ LastPart(c, k)' = LastPart(c, k)
      BY <3>1
    <3>3. \A w \in Active(k) : writer[w].step = "remember"
      BY <2>2, <2>4 DEF Current
    <3>. QED BY <2>1, <3>1, <3>2, <3>3 DEF Knows, Current
  <2>. QED BY <2>3, <2>4 DEF Knows
<1>. QED BY <1>1, <1>2 DEF Agree

Quiet(s, t) ==
  (Sorted(s) => Sorted(t)) /\ \A n \in 1 .. MaxWork : Names(t, n) => Names(s, n)

LEMMA QuietSteps ==
  ASSUME NEW s \in Seq(Messages), Sorted(s)
  PROVE  /\ Quiet(s, s) /\ Quiet(s, <<>>)
         /\ \A m \in Messages : Silent(m) => Quiet(s, Append(s, m))
         /\ \A t \in Seq(Messages) : (\A i \in 1 .. Len(t) : Silent(t[i])) => Quiet(s, s \o t)
<1>1. Quiet(s, s) /\ Quiet(s, <<>>)
  BY SortedEmpty DEF Quiet
<1>2. ASSUME NEW m \in Messages, Silent(m)
      PROVE  Quiet(s, Append(s, m))
  <2>1. \A n : m # ChildMsg(n) /\ m # EventMsg(n)
    BY <1>2 DEF Silent
  <2>2. \A n \in 1 .. MaxWork : Names(s, n) =>
            m # EventMsg(n) /\ \A l \in 1 .. n - 1 : m # ChildMsg(l)
    BY <2>1
  <2>. QED BY <2>1, <2>2, SortedAppended DEF Quiet
<1>3. ASSUME NEW t \in Seq(Messages), \A i \in 1 .. Len(t) : Silent(t[i])
      PROVE  Quiet(s, s \o t)
  BY <1>3, SortedJoined DEF Quiet
<1>. QED BY <1>1, <1>2, <1>3

LEMMA OrderedKept ==
  ASSUME Ordered, Line', \A n \in 1 .. MaxWork : Ahead(n) => Ahead(n)',
         \A c \in Clients : Quiet(Heard(c), Heard(c)')
  PROVE  Ordered'
<1>1. ASSUME NEW c \in Clients
      PROVE  Sorted(Heard(c))' /\ \A n \in 1 .. MaxWork : Names(Heard(c), n)' => Ahead(n)'
  <2>1. PICK s : s = Heard(c)
    OBVIOUS
  <2>2. PICK t : t = Heard(c)'
    OBVIOUS
  <2>3. Sorted(s) /\ Quiet(s, t) /\ \A n \in 1 .. MaxWork : Names(s, n) => Ahead(n)
    BY <2>1, <2>2 DEF Ordered
  <2>4. Sorted(t) /\ \A n \in 1 .. MaxWork : Names(t, n) => Ahead(n)'
    BY <2>3 DEF Quiet
  <2>. QED BY <2>2, <2>4
<1>. QED BY <1>1 DEF Ordered

LEMMA SameInput ==
  ASSUME UNCHANGED input, Line
  PROVE  Line' /\ \A n : Ahead(n) => Ahead(n)'
BY DEF input, Line, Ahead

(* The last state and the order of a client that hears nothing new.        *)
LEMMA SameHeard ==
  ASSUME IInv, NEW c \in Clients, Heard(c)' = Heard(c)
  PROVE  Quiet(Heard(c), Heard(c)') /\ \A k : LastPart(c, k)' = LastPart(c, k)
<1>1. PICK s \in Seq(Messages) : s = Heard(c)
  BY HeardTyped DEF IInv
<1>2. Sorted(s)
  BY <1>1 DEF IInv, Ordered
<1>. QED BY <1>1, <1>2, QuietSteps DEF LastPart

(* A broadcast that is not about a key.                                    *)
LEMMA OtherBroadcast ==
  ASSUME IInv, NEW m \in Messages, Broadcast(m), \A k, P : ~About(m, k, P),
         UNCHANGED <<clients, closed, got, stage, cut, cache, told, raced, writer>>
  PROVE  Agree' /\ Registered'
<1>0. TypeOK /\ Agree /\ Registered
  BY DEF IInv
<1>1. ASSUME NEW c \in Clients, NEW k \in Keys
      PROVE  LastPart(c, k)' = LastPart(c, k)
  <2>1. PICK s \in Seq(Messages) : s = Heard(c)
    BY <1>0, HeardTyped
  <2>2. LastAbout(Append(s, m), k, {"state", "image"}) = LastAbout(s, k, {"state", "image"})
    BY LastAppended
  <2>3. Heard(c)' = s \/ Heard(c)' = Append(s, m)
    BY <1>0, <2>1, BroadcastHeard
  <2>. QED BY <2>1, <2>2, <2>3 DEF LastPart
<1>2. \A c \in Clients : Kept(c)' => Kept(c)
  <2>1. \A c \in clients : drops'[c] = 0 => drops[c] = 0
    BY <1>0, BroadcastHeard
  <2>. QED BY <2>1 DEF Kept
<1>3. Agree'
  BY <1>0, <1>1, <1>2, AgreeKept
<1>4. Registered'
  <2>1. leaving' \subseteq leaving \union clients
    BY <1>0, BroadcastHeard
  <2>. QED BY <1>0, <2>1 DEF Registered
<1>. QED BY <1>3, <1>4

(* A broadcast that no client takes for a press or a child.                *)
LEMMA SilentBroadcast ==
  ASSUME IInv, NEW m \in Messages, Broadcast(m), got' = got, Silent(m), UNCHANGED input
  PROVE  Ordered'
<1>0. TypeOK /\ Ordered /\ Line
  BY DEF IInv, Ordered
<1>1. ASSUME NEW c \in Clients
      PROVE  Quiet(Heard(c), Heard(c)')
  <2>1. PICK s \in Seq(Messages) : s = Heard(c)
    BY <1>0, HeardTyped
  <2>2. Sorted(s)
    BY <1>0, <2>1 DEF Ordered
  <2>3. Heard(c)' = s \/ Heard(c)' = Append(s, m)
    BY <1>0, <2>1, BroadcastHeard
  <2>4. Quiet(s, s) /\ Quiet(s, Append(s, m))
    BY <2>2, QuietSteps
  <2>. QED BY <2>1, <2>3, <2>4
<1>. QED BY <1>0, <1>1, SameInput, OrderedKept

(* Steps that change none of the parts that the rest is about.             *)
LEMMA QuietStep ==
  ASSUME IInv, UNCHANGED <<cache, told, raced, writer>>, UNCHANGED input,
         \A c \in Clients : Heard(c)' = Heard(c),
         \A c \in Clients : Kept(c)' /\ stage'[c] # "replay" => Kept(c) /\ stage[c] # "replay"
  PROVE  Agree' /\ Ordered'
<1>0. Agree /\ Ordered /\ Line
  BY DEF IInv, Ordered
<1>1. \A c \in Clients : Quiet(Heard(c), Heard(c)') /\ \A k : LastPart(c, k)' = LastPart(c, k)
  BY SameHeard
<1>2. Agree'
  BY <1>0, <1>1, AgreeKept
<1>3. Ordered'
  BY <1>0, <1>1, SameInput, OrderedKept
<1>. QED BY <1>2, <1>3

-----------------------------------------------------------------------------
(* Each step keeps the invariant.                                          *)
LEMMA InitHolds == Init => IInv
<1>. SUFFICES ASSUME Init PROVE IInv
  OBVIOUS
<1>. USE ServerAssumption
<1>1. TypeOK
  <2>1. /\ \A c \in Clients : queue[c] = <<>> /\ got[c] = <<>> /\ Len(<<>>) = 0
        /\ <<>> \in Seq(Messages) /\ <<>> \in Seq(1 .. MaxWork)
    BY DEF Init
  <2>2. /\ queue \in [Clients -> Seq(Messages)] /\ got \in [Clients -> Seq(Messages)]
        /\ \A c \in Clients : Len(queue[c]) <= QueueSize
    BY <2>1 DEF Init
  <2>3. waiting \in Seq(1 .. MaxWork) /\ Len(waiting) <= PressQueue
    BY <2>1 DEF Init
  <2>4. /\ clients \subseteq Clients /\ leaving \subseteq Clients /\ cut \subseteq Clients
        /\ stage \in [Clients -> {"out", "rejected", "replay", "layer", "send", "live"}]
        /\ path \in [Clients -> 0 .. MaxLayers] /\ drops \in [Clients -> Nat]
        /\ cache \in [Keys -> Said \union {None}] /\ device \in [Keys -> Said \union {None}]
        /\ image \in [Keys -> Said \union {None}]
        /\ raced \subseteq Keys /\ layer \in 0 .. MaxLayers
        /\ {pressed, child} \subseteq 1 .. MaxWork \union {None}
        /\ calls + presses \in 0 .. MaxWork
    BY DEF Init
  <2>5. writer \in Calls
    BY DEF Init, NoCall, Calls
  <2>6. closed \in [Clients -> BOOLEAN] /\ untold \in BOOLEAN /\ panicked \in BOOLEAN
    BY DEF Init
  <2>. QED BY <2>2, <2>3, <2>4, <2>5, <2>6 DEF TypeOK, Calls
<1>2. Counts
  BY DEF Init, Counts, NoCall
<1>3. Registered
  BY DEF Init, Registered
<1>4. Agree
  <2>1. \A k \in Keys : Active(k) = {} /\ cache[k] = None /\ device[k] = None
    BY DEF Init, Active, NoCall
  <2>2. ASSUME NEW c \in Clients, NEW k \in Keys
        PROVE  LastPart(c, k) = None
    <3>1. Heard(c) = <<>>
      BY DEF Init, Heard
    <3>. QED BY <3>1, LastEmpty DEF LastPart
  <2>. QED BY <2>1, <2>2 DEF Agree, Told, Settled, Knows
<1>5. Ordered
  <2>1. ASSUME NEW c \in Clients
        PROVE  Heard(c) = <<>>
    BY DEF Init, Heard
  <2>2. Line
    BY DEF Init, Line
  <2>. QED BY <2>1, <2>2, SortedEmpty DEF Ordered
<1>. QED BY <1>1, <1>2, <1>3, <1>4, <1>5 DEF IInv

LEMMA ConnectHolds ==
  ASSUME IInv, NEW c \in Clients, Connect(c)
  PROVE  IInv'
<1>. USE DEF Connect, channels, states, told, layers, input
<1>1. TypeOK' /\ Counts'
  <2>1. /\ stage' \in [Clients -> {"out", "rejected", "replay", "layer", "send", "live"}]
        /\ clients' \subseteq Clients
    BY DEF IInv, TypeOK
  <2>2. Counts'
    BY DEF IInv, Counts
  <2>. QED BY <2>1, <2>2 DEF IInv, TypeOK
<1>2. Registered'
  BY DEF IInv, TypeOK, Registered
<1>3. Agree' /\ Ordered'
  <2>1. \A d \in Clients : Heard(d)' = Heard(d)
    BY DEF Heard
  <2>2. \A d \in Clients : Kept(d)' /\ stage'[d] # "replay" => Kept(d) /\ stage[d] # "replay"
    BY DEF IInv, TypeOK, Kept
  <2>. QED BY <2>1, <2>2, QuietStep
<1>. QED BY <1>1, <1>2, <1>3 DEF IInv

LEMMA WritePumpHeard ==
  ASSUME IInv, NEW c \in Clients, WritePump(c)
  PROVE  \A d \in Clients : Heard(d)' = Heard(d)
<1>. USE DEF WritePump
<1>1. PICK q \in Seq(Messages) : q = queue[c] /\ q # <<>>
  BY HeardTyped DEF IInv
<1>2. PICK g \in Seq(Messages) : g = got[c]
  BY HeardTyped DEF IInv
<1>3. /\ Head(q) \in Messages /\ Tail(q) \in Seq(Messages) /\ Len(Tail(q)) = Len(q) - 1
      /\ Append(g, Head(q)) \in Seq(Messages) /\ Append(g, Head(q)) \o Tail(q) = g \o q
  <2>1. Head(q) \in Messages /\ Tail(q) \in Seq(Messages) /\ Len(Tail(q)) = Len(q) - 1
    BY <1>1
  <2>2. PICK h \in Messages : h = Head(q)
    BY <2>1
  <2>3. PICK t \in Seq(Messages) : t = Tail(q)
    BY <2>1
  <2>4. q = <<h>> \o t /\ <<h>> \in Seq(Messages)
    BY <1>1, <2>2, <2>3
  <2>5. Append(g, h) = g \o <<h>> /\ Append(g, h) \in Seq(Messages)
    BY AppendIsConcat, AppendProperties
  <2>6. (g \o <<h>>) \o t = g \o (<<h>> \o t)
    BY <2>4, ConcatAssociative
  <2>. QED BY <2>1, <2>2, <2>3, <2>4, <2>5, <2>6
<1>4. \A d \in Clients : Heard(d)' = Heard(d)
  <2>1. ASSUME NEW d \in Clients, d # c
        PROVE  Heard(d)' = Heard(d)
    BY <2>1 DEF IInv, TypeOK, Heard
  <2>2. Heard(c)' = Heard(c)
    <3>1. queue'[c] = Tail(q) /\ got'[c] = Append(g, Head(q))
      BY <1>1, <1>2 DEF IInv, TypeOK
    <3>. QED BY <3>1, <1>1, <1>2, <1>3 DEF Heard
  <2>. QED BY <2>1, <2>2
<1>. QED BY <1>4

LEMMA WritePumpHolds ==
  ASSUME IInv, NEW c \in Clients, WritePump(c)
  PROVE  IInv'
<1>. USE DEF WritePump, registry, joining, states, told, layers, input
<1>1. PICK q \in Seq(Messages) : q = queue[c] /\ q # <<>>
  BY HeardTyped DEF IInv
<1>2. PICK g \in Seq(Messages) : g = got[c]
  BY HeardTyped DEF IInv
<1>3. /\ Head(q) \in Messages /\ Tail(q) \in Seq(Messages) /\ Len(Tail(q)) = Len(q) - 1
      /\ Append(g, Head(q)) \in Seq(Messages)
  <2>1. Head(q) \in Messages /\ Tail(q) \in Seq(Messages) /\ Len(Tail(q)) = Len(q) - 1
    BY <1>1
  <2>. QED BY <2>1, AppendProperties
<1>4. \A d \in Clients : Heard(d)' = Heard(d)
  BY WritePumpHeard
<1>5. TypeOK'
  <2>1. /\ queue' \in [Clients -> Seq(Messages)] /\ got' \in [Clients -> Seq(Messages)]
    BY <1>1, <1>2, <1>3 DEF IInv, TypeOK
  <2>2. \A d \in Clients : Len(queue'[d]) <= QueueSize
    <3>1. Len(Tail(q)) <= QueueSize
      <4>1. Len(q) <= QueueSize /\ Len(q) \in Nat /\ QueueSize \in Nat
        BY <1>1, ServerAssumption DEF IInv, TypeOK
      <4>. QED BY <4>1, <1>3
    <3>. QED BY <3>1, <1>1 DEF IInv, TypeOK
  <2>. QED BY <2>1, <2>2 DEF IInv, TypeOK
<1>6. Counts' /\ Registered'
  BY DEF IInv, Counts, Registered
<1>7. Agree' /\ Ordered'
  <2>1. \A d \in Clients : Kept(d)' => Kept(d)
    BY DEF Kept
  <2>. QED BY <1>4, <2>1, QuietStep
<1>. QED BY <1>5, <1>6, <1>7 DEF IInv

LEMMA ConnectionFailsHolds ==
  ASSUME IInv, NEW c \in Clients, ConnectionFails(c)
  PROVE  IInv'
<1>. USE DEF ConnectionFails, joining, channels, states, told, layers, input
<1>1. TypeOK' /\ Counts' /\ Registered'
  BY DEF IInv, TypeOK, Counts, Registered
<1>2. Agree' /\ Ordered'
  <2>1. \A d \in Clients : Heard(d)' = Heard(d) /\ (Kept(d)' => Kept(d))
    BY DEF Heard, Kept
  <2>. QED BY <2>1, QuietStep
<1>. QED BY <1>1, <1>2 DEF IInv

LEMMA RemoveClientHolds ==
  ASSUME IInv, NEW c \in Clients, RemoveClient(c)
  PROVE  IInv'
<1>. USE DEF RemoveClient, joining, states, told, layers, input
<1>1. CASE Unregister(c)
  <2>. USE <1>1 DEF Unregister, channels
  <2>1. TypeOK' /\ Counts' /\ Registered'
    BY DEF IInv, TypeOK, Counts, Registered
  <2>2. Agree' /\ Ordered'
    <3>1. \A d \in Clients : Heard(d)' = Heard(d) /\ (Kept(d)' => Kept(d))
      BY DEF Heard, Kept
    <3>. QED BY <3>1, QuietStep
  <2>. QED BY <2>1, <2>2 DEF IInv
<1>2. CASE CloseQueue(c)
  <2>. USE <1>2 DEF CloseQueue
  <2>1. /\ queue' \in [Clients -> Seq(Messages)] /\ got' \in [Clients -> Seq(Messages)]
        /\ \A d \in Clients : Len(queue'[d]) <= QueueSize
    <3>1. <<>> \in Seq(Messages) /\ Len(<<>>) = 0
      OBVIOUS
    <3>. QED BY <3>1, ServerAssumption DEF IInv, TypeOK
  <2>2. TypeOK'
    BY <2>1 DEF IInv, TypeOK
  <2>3. Counts' /\ Registered'
    BY DEF IInv, TypeOK, Counts, Registered
  <2>4. Heard(c)' = <<>>
    BY DEF IInv, TypeOK, Heard
  <2>5. \A d \in Clients \ {c} : Heard(d)' = Heard(d)
    BY DEF IInv, TypeOK, Heard
  <2>6. ASSUME NEW d \in Clients
        PROVE  /\ Quiet(Heard(d), Heard(d)')
               /\ \A k : LastPart(d, k)' = LastPart(d, k) \/ LastPart(d, k)' = None
    <3>1. PICK s \in Seq(Messages) : s = Heard(d) /\ Sorted(s)
      BY HeardTyped DEF IInv, Ordered
    <3>2. CASE d = c
      BY <2>4, <3>1, <3>2, LastEmpty, QuietSteps DEF LastPart
    <3>3. CASE d # c
      BY <2>5, <3>3, SameHeard
    <3>. QED BY <3>2, <3>3
  <2>7. Agree'
    <3>1. ASSUME NEW d \in Clients, NEW k \in Keys, Kept(d)', stage'[d] # "replay"
          PROVE  Kept(d) /\ stage[d] # "replay" /\ LastPart(d, k)' = LastPart(d, k)
      <4>1. d # c
        BY <3>1 DEF Kept
      <4>2. Kept(d)
        BY <3>1, <4>1 DEF Kept, IInv, TypeOK
      <4>. QED BY <2>5, <3>1, <4>1, <4>2, SameHeard
    <3>. QED BY <2>6, <3>1, AgreeKept DEF IInv
  <2>8. Ordered'
    BY <2>6, SameInput, OrderedKept DEF IInv, Ordered
  <2>. QED BY <2>2, <2>3, <2>7, <2>8 DEF IInv
<1>. QED BY <1>1, <1>2

(* The calls of the writers: the device, the cache, the clients.           *)
LEMMA CallWriters ==
  ASSUME IInv, NEW w \in Writers, NEW k \in Keys, NEW v \in Said,
         NEW n \in Said \union {None}, Call(w, k, v, n)
  PROVE  /\ writer[w].step = "none" /\ Active(k)' = Active(k) \union {w}
         /\ writer'[w].step = "remember" /\ writer'[w].key = k /\ writer'[w].value = v
         /\ \A u \in Writers \ {w} : writer'[u] = writer[u]
         /\ k \notin raced' => Active(k) = {}
<1>. USE DEF Call
<1>1. /\ writer[w].step = "none" /\ \A u \in Writers \ {w} : writer'[u] = writer[u]
      /\ writer'[w].step = "remember" /\ writer'[w].key = k /\ writer'[w].value = v
  BY DEF IInv, TypeOK, NoCall
<1>2. Active(k)' = Active(k) \union {w}
  BY <1>1 DEF Active
<1>3. ASSUME k \notin raced'
      PROVE  Active(k) = {}
  <2>. SUFFICES ASSUME NEW u \in Active(k) PROVE k \in raced'
    BY <1>3
  <2>1. u \in Writers /\ writer[u].step # "none" /\ writer[u].key = k
    BY DEF Active
  <2>2. writer[u] # NoCall
    BY <2>1 DEF NoCall
  <2>3. k \in {k : x \in {y \in Writers : writer[y] # NoCall /\ writer[y].key = k}}
    BY <2>1, <2>2
  <2>. QED BY <2>3
<1>. QED BY <1>1, <1>2, <1>3

LEMMA CallHolds ==
  ASSUME IInv, NEW w \in Writers, NEW k \in Keys, NEW v \in Said,
         NEW n \in Said \union {None}, n # None => n.part = "state", Call(w, k, v, n)
  PROVE  IInv'
<1>11. k \notin raced' => Active(k) = {}
  BY CallWriters
<1>. USE DEF Call, registry, joining, channels, layers, input
<1>1. /\ writer[w] = NoCall /\ writer[w].step = "none"
      /\ writer'[w] = [step |-> "remember", key |-> k, value |-> v, next |-> n]
      /\ \A u \in Writers \ {w} : writer'[u] = writer[u]
  BY DEF IInv, TypeOK, NoCall
<1>2. /\ writer'[w].step = "remember" /\ writer'[w].key = k /\ writer'[w].value = v
      /\ writer'[w].next = n /\ LastOf(w)' = IF n = None THEN v ELSE n
  BY <1>1 DEF LastOf
<1>3. TypeOK'
  <2>1. writer' \in Calls
    BY DEF IInv, TypeOK, Calls
  <2>2. /\ raced' \subseteq Keys /\ device' \in [Keys -> Said \union {None}]
        /\ image' \in [Keys -> Said \union {None}]
    BY DEF IInv, TypeOK
  <2>3. calls' + presses' \in 0 .. MaxWork
    BY ServerAssumption DEF IInv, Counts
  <2>. QED BY <2>1, <2>2, <2>3 DEF IInv, TypeOK, Calls
<1>4. Counts'
  <2>1. \A u \in Writers :
          /\ writer'[u].step = "none" => writer'[u] = NoCall
          /\ writer'[u].step # "none" =>
               /\ writer'[u].key \in Keys /\ writer'[u].value \in Said
               /\ writer'[u].next # None => writer'[u].next.part = "state"
    BY <1>1, <1>2 DEF IInv, Counts
  <2>. QED BY <2>1 DEF IInv, Counts
<1>5. Registered'
  BY DEF IInv, Registered
<1>6. \A c \in Clients : Heard(c)' = Heard(c) /\ \A l : LastPart(c, l)' = LastPart(c, l)
  BY SameHeard DEF Heard
<1>7. Ordered'
  <2>1. \A c \in Clients : Quiet(Heard(c), Heard(c)')
    BY <1>6, SameHeard
  <2>. QED BY <2>1, SameInput, OrderedKept DEF IInv, Ordered
<1>8. \A l \in Keys : l # k => Active(l)' = Active(l) /\ device'[l] = device[l]
  BY <1>1, <1>2 DEF Active, IInv, TypeOK
<1>9. Active(k)' = Active(k) \union {w} /\ device'[k] = IF n = None THEN v ELSE n
  BY <1>1, <1>2 DEF Active, IInv, TypeOK
<1>10. \A l : l \notin raced' => l \notin raced
  OBVIOUS
<1>12. ASSUME NEW l \in Keys
       PROVE  Told(l)'
  <2>1. Told(l) /\ (l \notin raced' => l \notin raced)
    BY <1>10 DEF IInv, Agree
  <2>2. CASE l # k
    <3>1. \A u \in Active(l) : writer'[u] = writer[u] /\ LastOf(u)' = LastOf(u)
      BY <1>1, <2>2 DEF Active, LastOf
    <3>. QED BY <3>1, <1>8, <2>1, <2>2 DEF Told, Settled
  <2>3. CASE l = k
    <3>1. l \notin raced' => Settled(l)'
      BY <1>2, <1>9, <1>11, <2>3 DEF Settled
    <3>2. \A u \in Active(l)' : writer'[u].step = "broadcast" => cache'[l] # None
      BY <1>1, <1>2, <1>9, <2>1, <2>3 DEF Told
    <3>. QED BY <3>1, <3>2 DEF Told
  <2>. QED BY <2>2, <2>3
<1>13. ASSUME NEW l \in Keys, NEW c \in Clients
       PROVE  Knows(c, l)'
  <2>1. Knows(c, l) /\ LastPart(c, l)' = LastPart(c, l)
    BY <1>6 DEF IInv, Agree
  <2>2. ASSUME Current(c, l)'
        PROVE  Current(c, l)
    <3>1. /\ Kept(c) /\ stage[c] # "replay" /\ l \notin raced' /\ l \notin raced
          /\ \A u \in Active(l)' : writer'[u].step = "remember"
      BY <1>10, <2>2 DEF Current, Kept
    <3>2. \A u \in Active(l) : writer[u].step = "remember"
      <4>1. CASE l = k
        BY <4>1, <3>1, <1>11
      <4>2. CASE l # k
        BY <4>2, <3>1, <1>1, <1>8 DEF Active
      <4>. QED BY <4>1, <4>2
    <3>. QED BY <3>1, <3>2 DEF Current
  <2>. QED BY <2>1, <2>2 DEF Knows
<1>. QED BY <1>3, <1>4, <1>5, <1>7, <1>12, <1>13 DEF IInv, Agree

(* The record of a call that goes on, and of the others.                   *)
LEMMA CallsTyped ==
  ASSUME IInv, NEW w \in Writers, writer[w].step # "none"
  PROVE  /\ writer[w].key \in Keys /\ writer[w].value \in Said /\ w \in Active(writer[w].key)
         /\ writer[w].next \in Said \union {None}
         /\ writer[w].key \notin raced => \A u \in Active(writer[w].key) : u = w
         /\ writer[w].key \notin raced => device[writer[w].key] = LastOf(w)
<1>1. writer[w].key \in Keys /\ writer[w].value \in Said /\ w \in Active(writer[w].key)
  BY DEF IInv, Counts, Active
<1>2. Told(writer[w].key)
  BY <1>1 DEF IInv, Agree
<1>3. writer[w].next \in Said \union {None}
  BY DEF IInv, TypeOK
<1>. QED BY <1>1, <1>2, <1>3 DEF Told, Settled

(* A call that goes on to its broadcast is a call still.                   *)
LEMMA CallGoesOn ==
  ASSUME NEW f \in Calls, NEW w \in Writers
  PROVE  [f EXCEPT ![w].step = "broadcast"] \in Calls
  BY DEF Calls

LEMMA NextCall ==
  ASSUME NEW f \in Calls, NEW w \in Writers, NEW k \in Keys, NEW n \in Said
  PROVE  /\ [f EXCEPT ![w] = NoCall] \in Calls
         /\ [f EXCEPT ![w] = [step |-> "remember", key |-> k, value |-> n, next |-> None]]
              \in Calls
  BY DEF Calls, NoCall

LEMMA RememberStateHolds ==
  ASSUME IInv, NEW w \in Writers, RememberState(w)
  PROVE  IInv'
<1>. USE DEF RememberState, registry, joining, channels, told, layers, input
<1>1. PICK k \in Keys : /\ k = writer[w].key /\ w \in Active(k)
                        /\ k \notin raced => device[k] = LastOf(w)
                                             /\ \A u \in Active(k) : u = w
  BY CallsTyped
<1>2. PICK v \in Said : v = writer[w].value
  BY CallsTyped
<1>3. v # None
  BY ServerAssumption
<1>4. /\ writer'[w].step = "broadcast" /\ writer'[w].key = k /\ writer'[w].value = v
      /\ writer'[w].next = writer[w].next
      /\ \A u \in Writers \ {w} : writer'[u] = writer[u]
      /\ \A u \in Writers : LastOf(u)' = LastOf(u)
  BY <1>1, <1>2 DEF IInv, TypeOK, LastOf
<1>5. cache'[k] = v /\ \A l \in Keys \ {k} : cache'[l] = cache[l]
  BY <1>1, <1>2 DEF IInv, TypeOK
<1>6. TypeOK'
  <2>1. writer' \in Calls
    <3>1. writer \in Calls
      BY DEF IInv, TypeOK, Calls
    <3>. QED BY <3>1, CallGoesOn
  <2>2. cache' \in [Keys -> Said \union {None}]
    BY <1>1, <1>2 DEF IInv, TypeOK
  <2>. QED BY <2>1, <2>2 DEF IInv, TypeOK, Calls
<1>7. Counts'
  <2>1. \A u \in Writers :
          /\ writer'[u].step = "none" => writer'[u] = NoCall
          /\ writer'[u].step # "none" =>
               /\ writer'[u].key \in Keys /\ writer'[u].value \in Said
               /\ writer'[u].next # None => writer'[u].next.part = "state"
    BY <1>4 DEF IInv, Counts
  <2>. QED BY <2>1 DEF IInv, Counts
<1>8. Registered'
  BY DEF IInv, Registered
<1>9. \A c \in Clients : Heard(c)' = Heard(c) /\ \A l : LastPart(c, l)' = LastPart(c, l)
  BY SameHeard DEF Heard
<1>10. Ordered'
  <2>1. \A c \in Clients : Quiet(Heard(c), Heard(c)')
    BY <1>9, SameHeard
  <2>. QED BY <2>1, SameInput, OrderedKept DEF IInv, Ordered
<1>11. \A l \in Keys : Active(l)' = Active(l)
  BY <1>1, <1>4 DEF Active
<1>12. ASSUME NEW l \in Keys
       PROVE  Told(l)'
  <2>1. Told(l)
    BY DEF IInv, Agree
  <2>2. CASE l # k
    <3>1. w \notin Active(l)
      BY <1>1, <2>2 DEF Active
    <3>2. \A u \in Active(l) : writer'[u] = writer[u] /\ LastOf(u)' = LastOf(u)
      BY <3>1, <1>4 DEF Active, LastOf
    <3>3. cache'[l] = cache[l] /\ device'[l] = device[l] /\ raced' = raced
      BY <1>5, <2>2
    <3>4. Settled(l) => Settled(l)'
      BY <1>11, <3>2, <3>3 DEF Settled
    <3>. QED BY <1>11, <2>1, <3>2, <3>3, <3>4 DEF Told
  <2>3. CASE l = k
    BY <1>1, <1>2, <1>3, <1>4, <1>5, <1>11, <2>3 DEF Told, Settled
  <2>. QED BY <2>2, <2>3
<1>13. ASSUME NEW l \in Keys, NEW c \in Clients
       PROVE  Knows(c, l)'
  <2>1. Knows(c, l) /\ LastPart(c, l)' = LastPart(c, l)
    BY <1>9 DEF IInv, Agree
  <2>2. CASE l = k
    BY <1>1, <1>3, <1>4, <1>5, <1>11, <2>2 DEF Knows, Current
  <2>3. CASE l # k
    <3>1. w \notin Active(l)
      BY <1>1, <2>3 DEF Active
    <3>2. \A u \in Active(l) : writer'[u] = writer[u]
      BY <3>1, <1>4 DEF Active
    <3>. QED BY <1>5, <1>11, <2>1, <2>3, <3>2 DEF Knows, Current, Kept
  <2>. QED BY <2>2, <2>3
<1>. QED BY <1>6, <1>7, <1>8, <1>10, <1>12, <1>13 DEF IInv, Agree

LEMMA BroadcastStateHolds ==
  ASSUME IInv, NEW w \in Writers, BroadcastState(w)
  PROVE  IInv'
<1>. USE DEF BroadcastState, joining, told, layers, input
<1>1. PICK k \in Keys : /\ k = writer[w].key /\ w \in Active(k)
                        /\ k \notin raced => device[k] = LastOf(w)
                                             /\ \A u \in Active(k) : u = w
  BY CallsTyped
<1>2. PICK v \in Said : v = writer[w].value
  BY CallsTyped
<1>3. PICK m \in Messages : m = KeyMsg(k, v)
  BY MessagesTyped
<1>4. Broadcast(m) /\ got' = got
  BY <1>1, <1>2, <1>3
<1>5. Silent(m) /\ m.value = v /\ \A l : About(m, l, {"state", "image"}) <=> l = k
  BY <1>3, SilentKinds, MessageKinds, SaidParts
<1>6. \A u \in Writers \ {w} : writer'[u] = writer[u] /\ LastOf(u)' = LastOf(u)
  BY DEF IInv, TypeOK, LastOf
<1>7. \/ /\ writer[w].next = None /\ writer'[w] = NoCall /\ writer'[w].step = "none"
      \/ /\ writer[w].next \in Said
         /\ writer'[w] = [step |-> "remember", key |-> k, value |-> writer[w].next,
                          next |-> None]
  <2>1. writer[w] \in [step : {"none", "remember", "broadcast"}, key : Keys \union {0},
                      value : Said \union {None}, next : Said \union {None}]
    BY DEF IInv, TypeOK
  <2>2. CASE writer[w].next = None
    BY <2>2 DEF IInv, TypeOK, NoCall
  <2>3. CASE writer[w].next # None
    BY <2>1, <2>3, <1>1 DEF IInv, TypeOK
  <2>. QED BY <2>2, <2>3
<1>8. TypeOK'
  <2>1. writer' \in Calls
    <3>1. writer \in Calls
      BY DEF IInv, TypeOK, Calls
    <3>2. writer' = [writer EXCEPT ![w] = writer'[w]]
      BY <3>1 DEF Calls
    <3>3. CASE writer'[w] = NoCall
      BY <1>2, <3>1, <3>2, <3>3, NextCall
    <3>4. CASE /\ writer[w].next \in Said
               /\ writer'[w] = [step |-> "remember", key |-> k, value |-> writer[w].next,
                                next |-> None]
      <4>1. PICK n \in Said : n = writer[w].next
        BY <3>4
      <4>2. writer' = [writer EXCEPT ![w] = [step |-> "remember", key |-> k, value |-> n,
                                             next |-> None]]
        BY <3>2, <3>4, <4>1
      <4>3. [writer EXCEPT ![w] = [step |-> "remember", key |-> k, value |-> n,
                                   next |-> None]] \in Calls
        BY <3>1, NextCall
      <4>. QED BY <4>2, <4>3
    <3>. QED BY <1>7, <3>3, <3>4
  <2>2. /\ queue' \in [Clients -> Seq(Messages)] /\ got' \in [Clients -> Seq(Messages)]
        /\ drops' \in [Clients -> Nat] /\ \A c \in Clients : Len(queue'[c]) <= QueueSize
        /\ leaving' \subseteq Clients
    BY <1>4, BroadcastHeard DEF IInv, TypeOK
  <2>. QED BY <2>1, <2>2 DEF IInv, TypeOK, Calls
<1>9. Counts'
  <2>1. \A u \in Writers :
          /\ writer'[u].step = "none" => writer'[u] = NoCall
          /\ writer'[u].step # "none" =>
               /\ writer'[u].key \in Keys /\ writer'[u].value \in Said
               /\ writer'[u].next # None => writer'[u].next.part = "state"
    BY <1>6, <1>7 DEF IInv, Counts
  <2>. QED BY <2>1 DEF IInv, Counts
<1>10. Registered'
  <2>1. leaving' \subseteq leaving \union clients
    BY <1>4, BroadcastHeard DEF IInv
  <2>. QED BY <2>1 DEF IInv, Registered
<1>11. Ordered'
  BY <1>4, <1>5, SilentBroadcast
<1>12. \A l \in Keys : l # k => w \notin Active(l) /\ Active(l)' = Active(l)
  BY <1>1, <1>6, <1>7 DEF Active, NoCall
<1>13. Active(k)' = IF writer[w].next = None THEN Active(k) \ {w} ELSE Active(k)
  BY <1>1, <1>6, <1>7, SaidParts DEF Active
<1>14. \A l \in Keys : \A u \in Active(l)' : u # w => u \in Active(l) /\ writer'[u] = writer[u]
  BY <1>6, <1>12, <1>13
<1>15. cache[k] # None /\ (k \notin raced => cache[k] = v /\ device[k] = LastOf(w))
  <2>1. Told(k) /\ writer[w].step = "broadcast"
    BY DEF IInv, Agree
  <2>. QED BY <2>1, <1>1, <1>2 DEF Told, Settled
<1>16. ASSUME NEW l \in Keys
       PROVE  Told(l)'
  <2>1. Told(l)
    BY DEF IInv, Agree
  <2>2. CASE l # k
    <3>1. \A u \in Active(l) : writer'[u] = writer[u] /\ LastOf(u)' = LastOf(u)
      BY <1>6, <1>12, <2>2 DEF Active
    <3>. QED BY <3>1, <1>12, <2>1, <2>2 DEF Told, Settled
  <2>3. CASE l = k /\ writer[w].next = None
    <3>1. l \notin raced => Active(l)' = {}
      BY <1>1, <1>13, <2>3
    <3>2. w \notin Active(l)'
      BY <1>13, <2>3
    <3>3. l \notin raced => cache[l] = device[l]
      BY <1>2, <1>15, <2>3 DEF LastOf
    <3>. QED BY <3>1, <3>2, <3>3, <1>14, <1>15, <2>3 DEF Told, Settled
  <2>4. CASE l = k /\ writer[w].next \in Said
    <3>1. writer[w].next # None
      BY <2>4, SaidParts
    <3>2. writer'[w].step = "remember" /\ LastOf(w)' = LastOf(w)
      BY <3>1, <1>7 DEF LastOf
    <3>3. l \notin raced => Active(l)' = {w}
      BY <3>1, <1>1, <1>13, <2>4
    <3>. QED BY <3>2, <3>3, <1>14, <1>15, <2>4 DEF Told, Settled
  <2>. QED BY <1>7, <2>2, <2>3, <2>4
<1>17. ASSUME NEW l \in Keys, NEW c \in Clients
       PROVE  Knows(c, l)'
  <2>1. Knows(c, l)
    BY DEF IInv, Agree
  <2>2. PICK s \in Seq(Messages) : s = Heard(c)
    BY HeardTyped DEF IInv
  <2>3. Heard(c)' = s \/ Heard(c)' = Append(s, m)
    BY <1>4, <2>2, BroadcastHeard DEF IInv
  <2>4. Kept(c)' => Kept(c) /\ Heard(c)' = Append(s, m)
    <3>1. c \in clients /\ drops'[c] = 0 => drops[c] = 0 /\ Heard(c)' = Append(s, m)
      BY <1>4, <2>2, BroadcastHeard DEF IInv
    <3>. QED BY <3>1 DEF Kept
  <2>5. CASE l = k
    <3>1. cache'[l] # None
      BY <1>15, <2>5
    <3>2. Current(c, l)' => LastPart(c, l)' = cache'[l]
      <4>1. LastAbout(Append(s, m), l, {"state", "image"}) = v
        BY <1>5, <2>5, LastAppended
      <4>. QED BY <4>1, <1>15, <2>4, <2>5 DEF LastPart, Current
    <3>. QED BY <3>1, <3>2 DEF Knows
  <2>6. CASE l # k
    <3>1. LastAbout(Append(s, m), l, {"state", "image"}) = LastAbout(s, l, {"state", "image"})
      BY <1>5, <2>6, LastAppended
    <3>2. LastPart(c, l)' = LastPart(c, l)
      BY <3>1, <2>2, <2>3 DEF LastPart
    <3>3. Active(l)' = Active(l) /\ \A u \in Active(l) : writer'[u] = writer[u]
      BY <1>6, <1>12, <2>6 DEF Active
    <3>4. Current(c, l)' => Current(c, l)
      BY <3>3, <2>4 DEF Current
    <3>. QED BY <2>1, <3>2, <3>4 DEF Knows
  <2>. QED BY <2>5, <2>6
<1>. QED BY <1>8, <1>9, <1>10, <1>11, <1>16, <1>17 DEF IInv, Agree

-----------------------------------------------------------------------------
(* A client joins: the replay, and the layer that it reads and is sent.    *)
LEMMA SnapshotToHolds ==
  ASSUME IInv, NEW c \in Clients, SnapshotTo(c)
  PROVE  IInv'
<1>. USE DEF SnapshotTo, registry, states, told, layers, input
<1>0. TypeOK /\ NumKeys \in Nat /\ cache \in [Keys -> Said \union {None}]
  BY ServerAssumption DEF IInv, TypeOK
<1>1. PICK ms \in Seq(Messages) : ms = Remembered
  BY <1>0, RememberedIs
<1>2. SendAlone(c, ms) /\ got' = got
  BY <1>1
<1>3. PICK s \in Seq(Messages) : s = Heard(c) /\ Sorted(s)
  BY HeardTyped DEF IInv, Ordered
<1>4. PICK r \in Seq(Messages) : /\ Heard(c)' = s \o r /\ Len(r) <= Len(ms)
                                 /\ \A i \in 1 .. Len(r) : r[i] = ms[i]
                                 /\ c \notin cut' /\ ~closed[c] => r = ms
  BY <1>0, <1>2, <1>3, SendHeard
<1>5. \A i \in 1 .. Len(ms) : \E j \in Keys : cache[j] # None /\ ms[i] = KeyMsg(j, cache[j])
  BY <1>0, <1>1, RememberedIs
<1>6. \A i \in 1 .. Len(r) : \E j \in Keys : cache[j] # None /\ r[i] = KeyMsg(j, cache[j])
  <2>1. \A i \in 1 .. Len(r) : i \in 1 .. Len(ms)
    BY <1>4
  <2>. QED BY <2>1, <1>4, <1>5
<1>7. TypeOK'
  <2>1. /\ queue' \in [Clients -> Seq(Messages)] /\ got' \in [Clients -> Seq(Messages)]
        /\ \A d \in Clients : Len(queue'[d]) <= QueueSize
        /\ cut' \subseteq cut \union {c}
    BY <1>0, <1>2, SendHeard
  <2>2. stage' \in [Clients -> {"out", "rejected", "replay", "layer", "send", "live"}]
    BY <1>0 DEF TypeOK
  <2>3. panicked' \in BOOLEAN /\ cut \subseteq Clients
    BY <1>0 DEF TypeOK, SendAlone
  <2>. QED BY <1>0, <2>1, <2>2, <2>3 DEF TypeOK
<1>8. Counts' /\ Registered'
  BY <1>0 DEF IInv, TypeOK, Counts, Registered
<1>9. \A d \in Clients \ {c} : Heard(d)' = Heard(d)
  BY <1>0, <1>2, SendHeard
<1>10. ASSUME NEW d \in Clients
       PROVE  Quiet(Heard(d), Heard(d)')
  <2>1. CASE d = c
    <3>1. \A i \in 1 .. Len(r) : Silent(r[i])
      BY <1>6, SilentKinds
    <3>2. Quiet(s, s \o r)
      BY <3>1, <1>3, QuietSteps
    <3>. QED BY <3>2, <2>1, <1>3, <1>4
  <2>2. CASE d # c
    BY <2>2, <1>9, SameHeard
  <2>. QED BY <2>1, <2>2
<1>11. Ordered'
  BY <1>10, SameInput, OrderedKept DEF IInv, Ordered
<1>12. ASSUME NEW k \in Keys
       PROVE  Told(k)' /\ Active(k)' = Active(k)
  BY DEF IInv, Agree, Told, Settled, Active, LastOf
<1>13. ASSUME NEW k \in Keys, NEW d \in Clients
       PROVE  Knows(d, k)'
  <2>1. Knows(d, k)
    BY DEF IInv, Agree
  <2>2. CASE d # c
    <3>1. LastPart(d, k)' = LastPart(d, k)
      BY <2>2, <1>9, SameHeard
    <3>2. stage'[d] = stage[d] /\ (d \in cut' <=> d \in cut)
      <4>1. cut \subseteq cut' /\ cut' \subseteq cut \union {c}
        BY <1>0, <1>2, SendHeard
      <4>. QED BY <4>1, <2>2, <1>0 DEF TypeOK
    <3>3. Current(d, k)' => Current(d, k)
      BY <3>2, <1>12 DEF Current, Kept
    <3>. QED BY <2>1, <3>1, <3>3 DEF Knows
  <2>3. CASE d = c
    <3>1. cache[k] = None => LastPart(c, k)' = None
      <4>1. SUFFICES ASSUME cache[k] = None PROVE LastAbout(s \o r, k, {"state", "image"}) = None
        BY <1>4 DEF LastPart
      <4>2. LastAbout(s, k, {"state", "image"}) = None
        BY <2>1, <2>3, <4>1, <1>3 DEF Knows, LastPart
      <4>3. \A i \in 1 .. Len(r) : ~About(r[i], k, {"state", "image"})
        BY <4>1, <1>6, MessageKinds
      <4>. QED BY <4>2, <4>3, LastUntouched
    <3>2. ASSUME Current(c, k)'
          PROVE  LastPart(c, k)' = cache[k]
      <4>1. c \in clients /\ c \notin cut'
        BY <3>2 DEF Current, Kept
      <4>2. r = ms
        BY <4>1, <1>4 DEF IInv, Registered
      <4>3. LastAbout(s \o ms, k, {"state", "image"}) = IF cache[k] = None THEN LastAbout(s, k, {"state", "image"}) ELSE cache[k]
        BY <1>0, <1>1, ReplayTells
      <4>. QED BY <3>1, <4>2, <4>3, <1>4 DEF LastPart
    <3>. QED BY <2>3, <3>1, <3>2 DEF Knows
  <2>. QED BY <2>2, <2>3
<1>. QED BY <1>7, <1>8, <1>11, <1>12, <1>13 DEF IInv, Agree

LEMMA ReadLayerHolds ==
  ASSUME IInv, NEW c \in Clients, ReadLayer(c)
  PROVE  IInv'
<1>. USE DEF ReadLayer, registry, channels, states, told, layers, input
<1>1. TypeOK' /\ Counts' /\ Registered'
  BY DEF IInv, TypeOK, Counts, Registered
<1>2. Agree' /\ Ordered'
  <2>1. \A d \in Clients : Heard(d)' = Heard(d)
    BY DEF Heard
  <2>2. \A d \in Clients : Kept(d)' /\ stage'[d] # "replay" => Kept(d) /\ stage[d] # "replay"
    BY DEF IInv, TypeOK, Kept
  <2>. QED BY <2>1, <2>2, QuietStep
<1>. QED BY <1>1, <1>2 DEF IInv

LEMMA LayerUnheard ==
  ASSUME IInv, NEW c \in Clients, SendLayer(c)
  PROVE  \A k : LastImage(c, k)' = LastImage(c, k)
<1>. USE ServerAssumption DEF SendLayer
<1>0. TypeOK
  BY DEF IInv
<1>1. PICK m \in Messages : m = LayerMsg(path[c])
  BY <1>0, MessagesTyped DEF TypeOK
<1>2. PICK ms \in Seq(Messages) : ms = <<m>> /\ Len(ms) = 1 /\ ms[1] = m
  <2>1. <<m>> \in Seq(Messages) /\ Len(<<m>>) = 1 /\ <<m>>[1] = m
    OBVIOUS
  <2>. QED BY <2>1
<1>3. SendAlone(c, ms) /\ got' = got
  BY <1>1, <1>2
<1>4. PICK s \in Seq(Messages) : s = Heard(c)
  BY <1>0, HeardTyped
<1>5. PICK r \in Seq(Messages) : /\ Heard(c)' = s \o r /\ Len(r) <= Len(ms)
                                 /\ \A i \in 1 .. Len(r) : r[i] = ms[i]
  <2>1. \E r \in Seq(Messages) : /\ Heard(c)' = Heard(c) \o r /\ Len(r) <= Len(ms)
                                 /\ \A i \in 1 .. Len(r) : r[i] = ms[i]
    BY <1>0, <1>3, SendHeard, ZenonT(30)
  <2>. QED BY <1>4, <2>1
<1>6. \A i \in 1 .. Len(r) : r[i] = m
  <2>1. \A i \in 1 .. Len(r) : i = 1
    BY <1>2, <1>5
  <2>. QED BY <2>1, <1>2, <1>5
<1>7. ASSUME NEW k
      PROVE  LastAbout(s \o r, k, {"image"}) = LastAbout(s, k, {"image"})
  <2>1. \A i \in 1 .. Len(r) : ~About(r[i], k, {"image"})
    BY <1>1, <1>6, MessageKinds
  <2>. QED BY <2>1, LastUntouched
<1>. QED BY <1>4, <1>5, <1>7 DEF LastImage

LEMMA SendLayerHolds ==
  ASSUME IInv, NEW c \in Clients, SendLayer(c)
  PROVE  IInv'
<1>. USE ServerAssumption DEF SendLayer, registry, states, told, layers, input
<1>0. TypeOK
  BY DEF IInv
<1>1. PICK m \in Messages : m = LayerMsg(path[c])
  BY <1>0, MessagesTyped DEF TypeOK
<1>2. PICK ms \in Seq(Messages) : ms = <<m>> /\ Len(ms) = 1 /\ ms[1] = m
  <2>1. <<m>> \in Seq(Messages) /\ Len(<<m>>) = 1 /\ <<m>>[1] = m
    OBVIOUS
  <2>. QED BY <2>1
<1>3. SendAlone(c, ms) /\ got' = got
  BY <1>1, <1>2
<1>4. PICK s \in Seq(Messages) : s = Heard(c) /\ Sorted(s)
  BY HeardTyped DEF IInv, Ordered
<1>5. PICK r \in Seq(Messages) : /\ Heard(c)' = s \o r /\ Len(r) <= Len(ms)
                                 /\ \A i \in 1 .. Len(r) : r[i] = ms[i]
  <2>1. \E r \in Seq(Messages) : /\ Heard(c)' = Heard(c) \o r /\ Len(r) <= Len(ms)
                                 /\ \A i \in 1 .. Len(r) : r[i] = ms[i]
    BY <1>0, <1>3, SendHeard, ZenonT(30)
  <2>. QED BY <1>4, <2>1
<1>6. \A i \in 1 .. Len(r) : r[i] = m
  <2>1. \A i \in 1 .. Len(r) : i = 1
    BY <1>2, <1>5
  <2>. QED BY <2>1, <1>2, <1>5
<1>7. TypeOK'
  <2>1. /\ queue' \in [Clients -> Seq(Messages)] /\ got' \in [Clients -> Seq(Messages)]
        /\ \A d \in Clients : Len(queue'[d]) <= QueueSize
        /\ cut' \subseteq cut \union {c}
    BY <1>0, <1>3, SendHeard
  <2>2. /\ stage' \in [Clients -> {"out", "rejected", "replay", "layer", "send", "live"}]
        /\ path' \in [Clients -> 0 .. MaxLayers]
    BY <1>0 DEF TypeOK
  <2>3. panicked' \in BOOLEAN /\ cut \subseteq Clients
    BY <1>0 DEF TypeOK, SendAlone
  <2>. QED BY <1>0, <2>1, <2>2, <2>3 DEF TypeOK
<1>8. Counts' /\ Registered'
  BY <1>0 DEF IInv, TypeOK, Counts, Registered
<1>9. \A d \in Clients \ {c} : Heard(d)' = Heard(d)
  BY <1>0, <1>3, SendHeard
<1>10. ASSUME NEW d \in Clients
       PROVE  Quiet(Heard(d), Heard(d)') /\ \A k : LastPart(d, k)' = LastPart(d, k)
  <2>1. CASE d = c
    <3>1. \A i \in 1 .. Len(r) : Silent(r[i]) /\ \A k, P : ~About(r[i], k, P)
      BY <1>1, <1>6, SilentKinds, MessageKinds
    <3>2. Quiet(s, s \o r)
      BY <3>1, <1>4, QuietSteps
    <3>3. ASSUME NEW k
          PROVE  LastAbout(s \o r, k, {"state", "image"}) = LastAbout(s, k, {"state", "image"})
      <4>1. \A i \in 1 .. Len(r) : ~About(r[i], k, {"state", "image"})
        BY <3>1
      <4>. QED BY <4>1, LastUntouched
    <3>. QED BY <3>2, <3>3, <2>1, <1>4, <1>5 DEF LastPart
  <2>2. CASE d # c
    BY <2>2, <1>9, SameHeard
  <2>. QED BY <2>1, <2>2
<1>11. Ordered'
  BY <1>10, SameInput, OrderedKept DEF IInv, Ordered
<1>12. \A d \in Clients : Kept(d)' /\ stage'[d] # "replay" => Kept(d) /\ stage[d] # "replay"
  <2>1. cut \subseteq cut'
    BY <1>0, <1>3, SendHeard
  <2>. QED BY <1>0, <2>1 DEF TypeOK, Kept
<1>13. Agree'
  BY <1>10, <1>12, AgreeKept DEF IInv
<1>. QED BY <1>7, <1>8, <1>11, <1>13 DEF IInv

(* The controller opens a layer, and tells the clients.                    *)
LEMMA ChangeLayerHolds ==
  ASSUME IInv, ChangeLayer
  PROVE  IInv'
<1>. USE ServerAssumption DEF ChangeLayer, OpenLayer, registry, joining, channels, states, told, input
<1>1. TypeOK' /\ Counts' /\ Registered'
  BY DEF IInv, TypeOK, Counts, Registered
<1>2. Agree' /\ Ordered'
  <2>1. \A d \in Clients : Heard(d)' = Heard(d) /\ (Kept(d)' => Kept(d))
    BY DEF Heard, Kept
  <2>. QED BY <2>1, QuietStep
<1>. QED BY <1>1, <1>2 DEF IInv

LEMMA LayerChangedHolds ==
  ASSUME IInv, LayerChanged
  PROVE  IInv'
<1>. USE DEF LayerChanged, joining, states, told, input
<1>1. PICK m \in Messages : m = LayerMsg(layer)
  BY MessagesTyped DEF IInv, TypeOK
<1>2. Broadcast(m) /\ Silent(m) /\ \A k, P : ~About(m, k, P)
  BY <1>1, SilentKinds, MessageKinds
<1>3. TypeOK'
  <2>1. /\ queue' \in [Clients -> Seq(Messages)] /\ got' \in [Clients -> Seq(Messages)]
        /\ drops' \in [Clients -> Nat] /\ \A c \in Clients : Len(queue'[c]) <= QueueSize
        /\ leaving' \subseteq Clients
    BY <1>2, BroadcastHeard DEF IInv, TypeOK
  <2>. QED BY <2>1 DEF IInv, TypeOK
<1>4. Counts'
  BY DEF IInv, Counts
<1>5. Agree' /\ Registered'
  BY <1>2, OtherBroadcast
<1>6. Ordered'
  BY <1>2, SilentBroadcast
<1>. QED BY <1>3, <1>4, <1>5, <1>6 DEF IInv

-----------------------------------------------------------------------------
(* A press goes to the clients, waits, is taken, and may name a child.     *)
LEMMA DispatchPressHolds ==
  ASSUME IInv, DispatchPress
  PROVE  IInv'
<1>. USE ServerAssumption DEF DispatchPress, joining, states, told, layers
<1>0. TypeOK /\ Counts /\ Ordered /\ Line
  BY DEF IInv, Ordered
<1>1. PICK n \in 1 .. MaxWork : n = presses + 1
  BY <1>0 DEF Counts
<1>2. PICK m \in Messages : m = EventMsg(n)
  BY MessagesTyped
<1>3. Broadcast(m) /\ QueuePress(n) /\ presses' = n /\ n = presses + 1 /\ presses \in Nat
  BY <1>0, <1>1, <1>2 DEF Counts
<1>4. PICK w \in Seq(1 .. MaxWork) : w = waiting /\ Len(w) <= PressQueue
  BY <1>0 DEF TypeOK
<1>5. PICK l \in Nat : l = Len(w) /\ DOMAIN w = 1 .. l
  BY <1>4
<1>6. PICK v \in Seq(1 .. MaxWork) : v = waiting' /\ Len(v) <= PressQueue
                                     /\ (v = w \/ v = Append(w, n))
  <2>1. CASE l < PressQueue
    <3>1. waiting' = Append(w, n)
      BY <2>1, <1>3, <1>4, <1>5 DEF QueuePress
    <3>2. Append(w, n) \in Seq(1 .. MaxWork) /\ Len(Append(w, n)) = l + 1
      BY <1>4, <1>5
    <3>3. l + 1 <= PressQueue
      BY <2>1
    <3>. QED BY <3>1, <3>2, <3>3
  <2>2. CASE ~(l < PressQueue)
    <3>1. waiting' = w
      BY <2>2, <1>3, <1>4, <1>5 DEF QueuePress
    <3>. QED BY <3>1, <1>4
  <2>. QED BY <2>1, <2>2
<1>7. \A i \in DOMAIN v : (i \in 1 .. l /\ v[i] = w[i]) \/ (i = l + 1 /\ v[i] = n)
  <2>1. CASE v = w
    BY <2>1, <1>5
  <2>2. CASE v = Append(w, n)
    <3>1. DOMAIN v = 1 .. l + 1 /\ v[l + 1] = n /\ \A i \in 1 .. l : v[i] = w[i]
      BY <2>2, <1>5
    <3>. QED BY <3>1
  <2>. QED BY <1>6, <2>1, <2>2
<1>8. \A i \in 1 .. l : w[i] \in Nat /\ w[i] <= presses
  <2>1. \A i \in 1 .. l : w[i] \in 1 .. MaxWork
    BY <1>4, <1>5
  <2>. QED BY <2>1, <1>0, <1>4, <1>5 DEF Counts
<1>9. TypeOK'
  <2>1. /\ queue' \in [Clients -> Seq(Messages)] /\ got' \in [Clients -> Seq(Messages)]
        /\ drops' \in [Clients -> Nat] /\ \A c \in Clients : Len(queue'[c]) <= QueueSize
        /\ leaving' \subseteq Clients
    BY <1>0, <1>3, BroadcastHeard DEF TypeOK
  <2>2. calls' + presses' \in 0 .. MaxWork
    BY <1>0, <1>3 DEF Counts
  <2>. QED BY <1>0, <1>6, <2>1, <2>2 DEF TypeOK
<1>10. (pressed # None => pressed \in Nat) /\ (child # None => child \in Nat)
  BY <1>0 DEF TypeOK
<1>11. Counts'
  <2>1. \A i \in DOMAIN waiting' : waiting'[i] <= presses'
    <3>. SUFFICES ASSUME NEW i \in DOMAIN v PROVE v[i] <= n
      BY <1>3, <1>6
    <3>1. n \in Nat /\ presses \in Nat /\ presses < n
      BY <1>3
    <3>2. v[i] = n \/ (v[i] \in Nat /\ v[i] <= presses)
      BY <1>7, <1>8
    <3>. QED BY <3>1, <3>2
  <2>2. presses' \in Nat /\ presses' <= MaxWork
    BY <1>1, <1>3
  <2>3. (pressed # None => pressed <= presses') /\ (child # None => child <= presses')
    BY <1>0, <1>3, <1>10 DEF Counts
  <2>. QED BY <1>0, <2>1, <2>2, <2>3 DEF Counts
<1>12. Agree' /\ Registered'
  <2>1. \A k, P : ~About(m, k, P)
    BY <1>2, MessageKinds
  <2>. QED BY <1>3, <2>1, OtherBroadcast
<1>13. Line'
  <2>1. \A i, j \in DOMAIN v : i < j => v[i] < v[j]
    <3>. SUFFICES ASSUME NEW i \in DOMAIN v, NEW j \in DOMAIN v, i < j PROVE v[i] < v[j]
      OBVIOUS
    <3>1. i \in 1 .. l /\ v[i] = w[i]
      <4>1. i \in 1 .. l + 1 /\ j \in 1 .. l + 1 /\ l \in Nat
        BY <1>5, <1>7, SMTT(30)
      <4>2. i \in 1 .. l
        BY <4>1, NotLast
      <4>. QED BY <4>2, <1>7
    <3>2. CASE j \in 1 .. l /\ v[j] = w[j]
      <4>1. \A a, b \in 1 .. l : a < b => w[a] < w[b]
        BY <1>0, <1>4, <1>5 DEF Line
      <4>. QED BY <3>1, <3>2, <4>1
    <3>3. CASE v[j] = n
      BY <3>1, <3>3, <1>3, <1>8
    <3>. QED BY <1>7, <3>2, <3>3
  <2>2. ASSUME pressed # None
        PROVE  child = None /\ \A i \in DOMAIN v : pressed < v[i]
    <3>1. pressed \in Nat /\ pressed < n /\ child = None
      BY <2>2, <1>0, <1>3, <1>10 DEF Line, Counts
    <3>2. \A i \in 1 .. l : pressed < w[i]
      BY <2>2, <1>0, <1>4, <1>5 DEF Line
    <3>. QED BY <3>1, <3>2, <1>7
  <2>3. ASSUME child # None
        PROVE  \A i \in DOMAIN v : child < v[i]
    <3>1. child \in Nat /\ child < n
      BY <2>3, <1>0, <1>3, <1>10 DEF Counts
    <3>2. \A i \in 1 .. l : child < w[i]
      BY <2>3, <1>0, <1>4, <1>5 DEF Line
    <3>. QED BY <3>1, <3>2, <1>7
  <2>. QED BY <1>6, <2>1, <2>2, <2>3 DEF Line
<1>14. ASSUME NEW q \in 1 .. MaxWork, Ahead(q)
       PROVE  Ahead(q)' /\ q < n
  <2>1. q < n
    BY <1>3, <1>14 DEF Ahead
  <2>2. \A i \in DOMAIN v : q < v[i]
    BY <2>1, <1>4, <1>5, <1>7, <1>14 DEF Ahead
  <2>3. q <= presses'
    BY <2>1, <1>3
  <2>. QED BY <1>6, <1>14, <2>1, <2>2, <2>3 DEF Ahead
<1>15. ASSUME NEW c \in Clients
       PROVE  Sorted(Heard(c))' /\ \A q \in 1 .. MaxWork : Names(Heard(c), q)' => Ahead(q)'
  <2>1. PICK s \in Seq(Messages) : s = Heard(c)
    BY <1>0, HeardTyped
  <2>2. PICK t : t = Heard(c)'
    OBVIOUS
  <2>3. Sorted(s) /\ \A q \in 1 .. MaxWork : Names(s, q) => Ahead(q)
    BY <1>0, <2>1 DEF Ordered
  <2>4. t = s \/ t = Append(s, m)
    BY <1>0, <1>3, <2>1, <2>2, BroadcastHeard
  <2>5. \A q \in 1 .. MaxWork : Names(s, q) =>
           m # EventMsg(q) /\ \A i \in 1 .. q - 1 : m # ChildMsg(i)
    <3>1. \A q \in 1 .. MaxWork : Names(s, q) => q # n
      BY <1>14, <2>3
    <3>. QED BY <3>1, <1>2, MessageKinds
  <2>6. /\ Sorted(Append(s, m))
        /\ \A q \in 1 .. MaxWork : Names(Append(s, m), q) => Names(s, q) \/ m = ChildMsg(q)
    BY <2>3, <2>5, SortedAppended
  <2>7. \A q \in 1 .. MaxWork : m # ChildMsg(q)
    BY <1>2, MessageKinds
  <2>8. Sorted(t) /\ \A q \in 1 .. MaxWork : Names(t, q) => Names(s, q)
    BY <2>3, <2>4, <2>6, <2>7
  <2>9. \A q \in 1 .. MaxWork : Names(t, q) => Ahead(q)'
    BY <1>14, <2>3, <2>8
  <2>. QED BY <2>2, <2>8, <2>9
<1>. QED BY <1>9, <1>11, <1>12, <1>13, <1>15 DEF IInv, Ordered

LEMMA TakePressHolds ==
  ASSUME IInv, TakePress
  PROVE  IInv'
<1>. USE ServerAssumption DEF TakePress, Taken, registry, joining, channels, states, told, layers
<1>0. TypeOK /\ Counts /\ Ordered /\ Line
  BY DEF IInv, Ordered
<1>1. PICK w \in Seq(1 .. MaxWork) : w = waiting /\ Len(w) <= PressQueue /\ w # <<>>
  BY <1>0 DEF TypeOK
<1>2. PICK l \in Nat : l = Len(w) /\ DOMAIN w = 1 .. l /\ l >= 1
  BY <1>1
<1>3. PICK v \in Seq(1 .. MaxWork) : /\ v = waiting' /\ Len(v) = l - 1
                                      /\ \A i \in 1 .. l - 1 : v[i] = w[i + 1]
  <2>1. PICK e : e = SubSeq(w, 1, 0)
    OBVIOUS
  <2>2. PICK t : t = SubSeq(w, 2, l)
    OBVIOUS
  <2>3. e = <<>>
    BY <2>1, SubSeqEmpty
  <2>4. t \in Seq(1 .. MaxWork) /\ Len(t) = l - 1 /\ \A i \in 1 .. l - 1 : t[i] = w[i + 1]
    <3>1. \A i \in 2 .. l : w[i] \in 1 .. MaxWork
      BY <1>1, <1>2
    <3>2. Len(t) = l - 1 /\ \A i \in 1 .. l - 1 : t[i] = w[i + 1]
      BY <1>2, <2>2
    <3>3. t \in Seq(1 .. MaxWork)
      BY <1>2, <2>2, <3>1, SubSeqProperties
    <3>. QED BY <3>2, <3>3
  <2>5. waiting' = e \o t
    BY <1>1, <1>2, <2>1, <2>2
  <2>6. <<>> \o t = t
    BY <2>4
  <2>. QED BY <2>3, <2>4, <2>5, <2>6
<1>4. DOMAIN v = 1 .. l - 1 /\ Len(v) = l - 1 /\ \A i \in 1 .. l - 1 : v[i] = w[i + 1]
  BY <1>3
<1>5. \A i \in 1 .. l : w[i] \in 1 .. MaxWork /\ w[i] <= presses
  <2>1. \A i \in 1 .. l : w[i] \in 1 .. MaxWork
    BY <1>1, <1>2
  <2>. QED BY <2>1, <1>0, <1>1, <1>2 DEF Counts
<1>6. pressed' = w[1] /\ w[1] \in 1 .. MaxWork /\ w[1] <= presses /\ child = None /\ child' = None
      /\ pressed = None
  BY <1>1, <1>2, <1>5
<1>7. \A i \in 1 .. l - 1 : i + 1 \in 1 .. l /\ 1 \in 1 .. l /\ 1 < i + 1
  BY <1>2
<1>8. \A i \in 1 .. l - 1 : w[1] < v[i] /\ v[i] <= presses
  BY <1>0, <1>1, <1>2, <1>4, <1>5, <1>7 DEF Line
<1>9. TypeOK'
  <2>1. waiting' \in Seq(1 .. MaxWork) /\ Len(waiting') <= PressQueue
    BY <1>1, <1>2, <1>3, <1>4
  <2>. QED BY <1>0, <1>6, <2>1 DEF TypeOK
<1>10. Counts'
  BY <1>0, <1>3, <1>4, <1>6, <1>8 DEF Counts
<1>11. Registered'
  BY DEF IInv, Registered
<1>12. Line'
  <2>1. \A i, j \in DOMAIN v : i < j => v[i] < v[j]
    <3>. SUFFICES ASSUME NEW i \in 1 .. l - 1, NEW j \in 1 .. l - 1, i < j PROVE v[i] < v[j]
      BY <1>4
    <3>1. i + 1 \in DOMAIN w /\ j + 1 \in DOMAIN w /\ i + 1 < j + 1
      BY <1>2
    <3>2. w[i + 1] < w[j + 1]
      BY <3>1, <1>0, <1>1 DEF Line
    <3>. QED BY <3>2, <1>4
  <2>. QED BY <2>1, <1>3, <1>4, <1>6, <1>8 DEF Line
<1>13. ASSUME NEW q \in 1 .. MaxWork, Ahead(q)
       PROVE  Ahead(q)'
  <2>1. q <= presses /\ \A i \in DOMAIN waiting : q < waiting[i]
    BY <1>13 DEF Ahead
  <2>2. q < pressed' /\ \A i \in 1 .. l - 1 : q < v[i]
    <3>1. \A i \in 1 .. l : q < w[i]
      BY <2>1, <1>1, <1>2
    <3>2. 1 \in 1 .. l /\ \A i \in 1 .. l - 1 : i + 1 \in 1 .. l
      BY <1>2
    <3>3. q < pressed'
      BY <3>1, <3>2, <1>6
    <3>4. \A i \in 1 .. l - 1 : q < v[i]
      BY <3>1, <3>2, <1>4
    <3>. QED BY <3>3, <3>4
  <2>. QED BY <2>1, <2>2, <1>3, <1>4, <1>6 DEF Ahead
<1>14. \A c \in Clients : Heard(c)' = Heard(c) /\ (Kept(c)' => Kept(c))
  BY DEF Heard, Kept
<1>15. \A c \in Clients : Quiet(Heard(c), Heard(c)') /\ \A k : LastPart(c, k)' = LastPart(c, k)
  BY <1>14, SameHeard
<1>16. Agree'
  BY <1>14, <1>15, AgreeKept DEF IInv
<1>17. Ordered'
  BY <1>0, <1>12, <1>13, <1>15, OrderedKept
<1>. QED BY <1>9, <1>10, <1>11, <1>16, <1>17 DEF IInv

(* A press that leads to a layer, to a child or to nothing.                *)
LEMMA PressEnds ==
  ASSUME IInv, pressed # None, pressed' = None, child' \in {None, pressed},
         UNCHANGED <<registry, joining, channels, got, states, waiting, presses, panicked>>,
         layer' \in 0 .. MaxLayers, untold' \in BOOLEAN
  PROVE  IInv'
<1>. USE ServerAssumption DEF registry, joining, channels, states, told
<1>0. TypeOK /\ Counts /\ Ordered /\ Line
  BY DEF IInv, Ordered
<1>1. TypeOK'
  <2>1. {pressed', child'} \subseteq 1 .. MaxWork \union {None}
    BY <1>0 DEF TypeOK
  <2>. QED BY <1>0, <2>1 DEF TypeOK
<1>2. Counts' /\ Registered'
  BY DEF IInv, Counts, Registered
<1>3. \A c \in Clients : Heard(c)' = Heard(c) /\ (Kept(c)' => Kept(c))
  BY DEF Heard, Kept
<1>4. \A c \in Clients : Quiet(Heard(c), Heard(c)') /\ \A k : LastPart(c, k)' = LastPart(c, k)
  BY <1>3, SameHeard
<1>5. Agree'
  BY <1>3, <1>4, AgreeKept DEF IInv
<1>6. Line' /\ \A q \in 1 .. MaxWork : Ahead(q) => Ahead(q)'
  BY <1>0 DEF Line, Ahead
<1>7. Ordered'
  BY <1>0, <1>4, <1>6, OrderedKept
<1>. QED BY <1>1, <1>2, <1>5, <1>7 DEF IInv

LEMMA PressLayerHolds ==
  ASSUME IInv, PressLayer
  PROVE  IInv'
<1>1. layer' \in 0 .. MaxLayers /\ untold' \in BOOLEAN
  BY ServerAssumption DEF PressLayer, OpenLayer, IInv, TypeOK
<1>2. child' \in {None, pressed}
  BY DEF PressLayer, IInv, Ordered, Line
<1>. QED BY <1>1, <1>2, PressEnds DEF PressLayer

LEMMA PressNodeHolds ==
  ASSUME IInv, PressNode
  PROVE  IInv'
<1>1. layer' \in 0 .. MaxLayers /\ untold' \in BOOLEAN
  BY DEF PressNode, layers, IInv, TypeOK
<1>. QED BY <1>1, PressEnds DEF PressNode

LEMMA NameChildHolds ==
  ASSUME IInv, NameChild
  PROVE  IInv'
<1>. USE ServerAssumption DEF NameChild, joining, states, told, layers
<1>0. TypeOK /\ Counts /\ Ordered /\ Line
  BY DEF IInv, Ordered
<1>1. PICK n \in 1 .. MaxWork : n = child /\ n <= presses
  BY <1>0 DEF TypeOK, Counts
<1>2. PICK m \in Messages : m = ChildMsg(n)
  BY MessagesTyped
<1>3. Broadcast(m) /\ got' = got
  BY <1>1, <1>2
<1>4. TypeOK'
  <2>1. /\ queue' \in [Clients -> Seq(Messages)] /\ got' \in [Clients -> Seq(Messages)]
        /\ drops' \in [Clients -> Nat] /\ \A c \in Clients : Len(queue'[c]) <= QueueSize
        /\ leaving' \subseteq Clients
    BY <1>0, <1>3, BroadcastHeard DEF TypeOK
  <2>. QED BY <1>0, <2>1 DEF TypeOK
<1>5. Counts'
  BY <1>0 DEF Counts
<1>6. Agree' /\ Registered'
  <2>1. \A k, P : ~About(m, k, P)
    BY <1>2, MessageKinds
  <2>. QED BY <1>3, <2>1, OtherBroadcast
<1>7. Line' /\ \A q \in 1 .. MaxWork : Ahead(q) => Ahead(q)' /\ q < n
  BY <1>0, <1>1 DEF Line, Ahead
<1>8. Ahead(n)'
  <2>1. pressed = None
    BY <1>0 DEF Line
  <2>. QED BY <1>0, <1>1, <2>1 DEF Line, Ahead
<1>9. ASSUME NEW c \in Clients
      PROVE  Sorted(Heard(c))' /\ \A q \in 1 .. MaxWork : Names(Heard(c), q)' => Ahead(q)'
  <2>1. PICK s \in Seq(Messages) : s = Heard(c)
    BY <1>0, HeardTyped
  <2>2. PICK t : t = Heard(c)'
    OBVIOUS
  <2>3. Sorted(s) /\ \A q \in 1 .. MaxWork : Names(s, q) => Ahead(q)
    BY <1>0, <2>1 DEF Ordered
  <2>4. t = s \/ t = Append(s, m)
    BY <1>0, <1>3, <2>1, <2>2, BroadcastHeard
  <2>5. \A q \in 1 .. MaxWork : Names(s, q) =>
           m # EventMsg(q) /\ \A i \in 1 .. q - 1 : m # ChildMsg(i)
    <3>1. \A q \in 1 .. MaxWork : Names(s, q) => q < n
      BY <1>7, <2>3
    <3>2. \A q \in 1 .. MaxWork : q < n => \A i \in 1 .. q - 1 : i # n
      OBVIOUS
    <3>. QED BY <3>1, <3>2, <1>2, MessageKinds
  <2>6. /\ Sorted(Append(s, m))
        /\ \A q \in 1 .. MaxWork : Names(Append(s, m), q) => Names(s, q) \/ m = ChildMsg(q)
    BY <2>3, <2>5, SortedAppended
  <2>7. \A q \in 1 .. MaxWork : m = ChildMsg(q) => q = n
    BY <1>2, MessageKinds
  <2>8. Sorted(t) /\ \A q \in 1 .. MaxWork : Names(t, q) => Names(s, q) \/ q = n
    BY <2>3, <2>4, <2>6, <2>7
  <2>9. \A q \in 1 .. MaxWork : Names(t, q) => Ahead(q)'
    BY <1>7, <1>8, <2>3, <2>8
  <2>. QED BY <2>2, <2>8, <2>9
<1>. QED BY <1>4, <1>5, <1>6, <1>7, <1>9 DEF IInv, Ordered

-----------------------------------------------------------------------------
LEMMA StutterHolds ==
  ASSUME IInv, UNCHANGED vars
  PROVE  IInv'
<1>. USE DEF vars, registry, joining, channels, states, told, layers, input
<1>1. TypeOK' /\ Counts' /\ Registered'
  BY DEF IInv, TypeOK, Counts, Registered
<1>2. Agree' /\ Ordered'
  <2>1. \A d \in Clients : Heard(d)' = Heard(d) /\ (Kept(d)' => Kept(d))
    BY DEF Heard, Kept
  <2>. QED BY <2>1, QuietStep
<1>. QED BY <1>1, <1>2 DEF IInv

LEMMA NextHolds == IInv /\ [Next]_vars => IInv'
<1>. SUFFICES ASSUME IInv, [Next]_vars PROVE IInv'
  OBVIOUS
<1>1. CASE \E c \in Clients : Connect(c) \/ WritePump(c) \/ ConnectionFails(c) \/ RemoveClient(c)
  BY <1>1, ConnectHolds, WritePumpHolds, ConnectionFailsHolds, RemoveClientHolds
<1>2. CASE \E w \in Writers, k \in Keys, v \in Values :
              ApplyKeyState(w, k, v) \/ ApplyCustomGlyph(w, k, v) \/ ShowFrames(w, k, v)
  BY <1>2, CallHolds, SaidParts DEF ApplyKeyState, ApplyCustomGlyph, ShowFrames
<1>3. CASE \E w \in Writers : Finish(w)
  BY <1>3, RememberStateHolds, BroadcastStateHolds DEF Finish
<1>4. CASE Join
  BY <1>4, SnapshotToHolds, ReadLayerHolds, SendLayerHolds DEF Join
<1>5. CASE ChangeLayer \/ DispatchPress \/ Loops
  BY <1>5, ChangeLayerHolds, DispatchPressHolds, TakePressHolds, PressLayerHolds,
     PressNodeHolds, NameChildHolds, LayerChangedHolds DEF Loops
<1>6. CASE UNCHANGED vars
  BY <1>6, StutterHolds
<1>. QED BY <1>1, <1>2, <1>3, <1>4, <1>5, <1>6 DEF Next

LEMMA Invariance == Spec => []IInv
  BY InitHolds, NextHolds, PTL DEF Spec

-----------------------------------------------------------------------------
(* The image that is left of a key: a call that brings another one is still *)
(* about to tell it, or the cache and every client that lost nothing hold   *)
(* it or none.  What a client has not heard before it connects is nothing.  *)
Coming(k)  == \E w \in Active(k) : writer[w].value.part = "image"
Listens(c) == c \in clients /\ drops[c] = 0
Pictured(k) ==
  /\ \A w \in Active(k) : writer[w].value.part = "image" => writer[w].value = image[k]
  /\ cache[k] # None /\ cache[k].part = "image" => cache[k] = image[k] \/ Coming(k)
Saw(c, k) == Listens(c) => LastImage(c, k) \in {None, image[k]} \/ Coming(k)
Unheard == \A c \in Clients : stage[c] = "out" => Heard(c) = <<>>

Images ==
  Unheard /\ \A k \in Keys : k \notin raced => Pictured(k) /\ \A c \in Clients : Saw(c, k)

LEMMA ImagesKept ==
  ASSUME Images, Unheard', UNCHANGED <<cache, told, raced, writer>>,
         \A c \in Clients, k \in Keys : Listens(c)' =>
            LastImage(c, k)' = None \/ (Listens(c) /\ LastImage(c, k)' = LastImage(c, k))
  PROVE  Images'
<1>1. ASSUME NEW k \in Keys
      PROVE  Active(k)' = Active(k) /\ (Coming(k)' <=> Coming(k)) /\ image'[k] = image[k]
  BY DEF Active, Coming, told
<1>2. ASSUME NEW k \in Keys, k \notin raced
      PROVE  Pictured(k)'
  BY <1>1, <1>2 DEF Images, Pictured
<1>3. ASSUME NEW k \in Keys, k \notin raced, NEW c \in Clients
      PROVE  Saw(c, k)'
  BY <1>1, <1>3 DEF Images, Saw
<1>. QED BY <1>2, <1>3 DEF Images

LEMMA SameImage ==
  ASSUME NEW c \in Clients, Heard(c)' = Heard(c)
  PROVE  \A k : LastImage(c, k)' = LastImage(c, k)
BY DEF LastImage

LEMMA ImagesStay ==
  ASSUME Images, UNCHANGED <<cache, told, raced, writer>>,
         \A c \in Clients : Heard(c)' = Heard(c),
         \A c \in Clients : (stage'[c] = "out" => stage[c] = "out") /\ (Listens(c)' => Listens(c))
  PROVE  Images'
<1>1. Unheard'
  BY DEF Images, Unheard
<1>2. \A c \in Clients, k \in Keys : LastImage(c, k)' = LastImage(c, k)
  BY SameImage
<1>. QED BY <1>1, <1>2, ImagesKept

LEMMA BroadcastListens ==
  ASSUME IInv, Images, NEW m \in Messages, Broadcast(m), UNCHANGED <<clients, got, stage>>
  PROVE  /\ Unheard'
         /\ \A c \in Clients : Listens(c)' => Listens(c) /\ Heard(c)' = Append(Heard(c), m)
<1>0. TypeOK
  BY DEF IInv
<1>1. ASSUME NEW c \in Clients, stage'[c] = "out"
      PROVE  Heard(c)' = <<>>
  <2>1. c \notin clients /\ Heard(c) = <<>>
    BY <1>1 DEF IInv, Registered, Images, Unheard
  <2>2. queue'[c] = queue[c]
    BY <2>1 DEF Broadcast
  <2>. QED BY <2>1, <2>2 DEF Heard
<1>2. \A c \in clients : drops'[c] = 0 => drops[c] = 0 /\ Heard(c)' = Append(Heard(c), m)
  BY <1>0, BroadcastHeard
<1>. QED BY <1>1, <1>2 DEF Unheard, Listens

LEMMA OtherBroadcastImages ==
  ASSUME IInv, Images, NEW m \in Messages, Broadcast(m), \A k, P : ~About(m, k, P),
         UNCHANGED <<clients, got, stage, cache, told, raced, writer>>
  PROVE  Images'
<1>1. ASSUME NEW c \in Clients, NEW k \in Keys, Listens(c)'
      PROVE  Listens(c) /\ LastImage(c, k)' = LastImage(c, k)
  <2>1. PICK s \in Seq(Messages) : s = Heard(c)
    BY HeardTyped DEF IInv
  <2>2. Listens(c) /\ Heard(c)' = Append(s, m)
    BY <1>1, <2>1, BroadcastListens
  <2>3. LastAbout(Append(s, m), k, {"image"}) = LastAbout(s, k, {"image"})
    BY LastAppended
  <2>. QED BY <2>1, <2>2, <2>3 DEF LastImage
<1>2. Unheard'
  BY BroadcastListens
<1>. QED BY <1>1, <1>2, ImagesKept

-----------------------------------------------------------------------------
LEMMA ImagesConnect ==
  ASSUME IInv, Images, NEW c \in Clients, Connect(c)
  PROVE  Images'
<1>. USE DEF Connect, channels, states, told
<1>1. \A d \in Clients : Heard(d)' = Heard(d)
  BY DEF Heard
<1>2. \A d \in Clients : (stage'[d] = "out" => stage[d] = "out")
                         /\ (d # c /\ Listens(d)' => Listens(d))
  BY DEF IInv, TypeOK, Listens
<1>3. Unheard'
  BY <1>1, <1>2 DEF Images, Unheard
<1>4. \A k : LastImage(c, k)' = None
  <2>1. Heard(c)' = <<>>
    BY <1>1 DEF Images, Unheard
  <2>. QED BY <2>1, LastEmpty DEF LastImage
<1>5. \A d \in Clients, k \in Keys : LastImage(d, k)' = LastImage(d, k)
  BY <1>1, SameImage
<1>. QED BY <1>2, <1>3, <1>4, <1>5, ImagesKept

LEMMA ImagesRemove ==
  ASSUME IInv, Images, NEW c \in Clients, RemoveClient(c)
  PROVE  Images'
<1>. USE DEF RemoveClient, joining, states, told
<1>1. CASE Unregister(c)
  <2>1. \A d \in Clients : Heard(d)' = Heard(d) /\ (Listens(d)' => Listens(d))
    BY <1>1 DEF Unregister, channels, Heard, Listens
  <2>. QED BY <2>1, ImagesStay
<1>2. CASE CloseQueue(c)
  <2>1. Heard(c)' = <<>> /\ c \notin clients /\ clients' = clients
    BY <1>2 DEF CloseQueue, IInv, TypeOK, Heard
  <2>2. \A d \in Clients \ {c} : Heard(d)' = Heard(d) /\ drops'[d] = drops[d]
    BY <1>2 DEF CloseQueue, IInv, TypeOK, Heard
  <2>3. Unheard'
    BY <2>1, <2>2 DEF Images, Unheard
  <2>4. \A d \in Clients, k \in Keys : Listens(d)' =>
           Listens(d) /\ LastImage(d, k)' = LastImage(d, k)
    BY <2>1, <2>2, SameImage DEF Listens
  <2>. QED BY <2>3, <2>4, ImagesKept
<1>. QED BY <1>1, <1>2

LEMMA ImagesCall ==
  ASSUME IInv, Images, NEW w \in Writers, NEW k \in Keys, NEW v \in Said,
         NEW n \in Said \union {None}, Call(w, k, v, n)
  PROVE  Images'
<1>1. /\ \A l \in Keys \ {k} : image'[l] = image[l]
      /\ image'[k] = (IF v.part = "image" THEN v ELSE image[k])
      /\ cache' = cache /\ clients' = clients /\ drops' = drops /\ stage' = stage
      /\ \A l : l \notin raced' => l \notin raced
  BY DEF Call, IInv, TypeOK, registry, joining, channels
<1>2. \A c \in Clients : Heard(c)' = Heard(c)
  BY DEF Call, channels, Heard
<1>3. Unheard'
  BY <1>1, <1>2 DEF Images, Unheard
<1>4. ASSUME NEW l \in Keys \ {k}
      PROVE  Active(l)' = Active(l) /\ \A u \in Active(l) : writer'[u] = writer[u]
  BY CallWriters DEF Active, NoCall
<1>5. ASSUME NEW l \in Keys \ {k}, l \notin raced'
      PROVE  Pictured(l)' /\ \A c \in Clients : Saw(c, l)'
  <2>1. Coming(l)' <=> Coming(l)
    BY <1>4 DEF Coming
  <2>2. Pictured(l) /\ \A c \in Clients : Saw(c, l)
    BY <1>1, <1>5 DEF Images
  <2>3. Pictured(l)'
    BY <1>1, <1>4, <2>1, <2>2 DEF Pictured
  <2>. QED BY <1>1, <1>2, <2>1, <2>2, <2>3, SameImage DEF Saw, Listens
<1>6. ASSUME k \notin raced'
      PROVE  Pictured(k)' /\ \A c \in Clients : Saw(c, k)'
  <2>1. Active(k) = {} /\ Active(k)' = {w} /\ writer'[w].value = v /\ k \notin raced
    BY <1>1, <1>6, CallWriters
  <2>2. CASE v.part = "image"
    <3>1. Coming(k)'
      BY <2>1, <2>2 DEF Coming
    <3>. QED BY <1>1, <2>1, <2>2, <3>1 DEF Pictured, Saw
  <2>3. CASE v.part # "image"
    <3>1. ~Coming(k) /\ ~Coming(k)'
      BY <2>1, <2>3 DEF Coming
    <3>2. Pictured(k) /\ \A c \in Clients : Saw(c, k)
      BY <2>1 DEF Images
    <3>3. Pictured(k)'
      BY <1>1, <2>1, <2>3, <3>1, <3>2 DEF Pictured
    <3>. QED BY <1>1, <1>2, <2>3, <3>1, <3>2, <3>3, SameImage DEF Saw, Listens
  <2>. QED BY <2>2, <2>3
<1>. QED BY <1>3, <1>5, <1>6 DEF Images

LEMMA ImagesRemember ==
  ASSUME IInv, Images, NEW w \in Writers, RememberState(w)
  PROVE  Images'
<1>1. /\ clients' = clients /\ drops' = drops /\ stage' = stage /\ raced' = raced
      /\ image' = image
  BY DEF RememberState, registry, joining, channels, told
<1>2. \A c \in Clients : Heard(c)' = Heard(c)
  BY DEF RememberState, channels, Heard
<1>3. Unheard'
  BY <1>1, <1>2 DEF Images, Unheard
<1>4. PICK k \in Keys : k = writer[w].key /\ w \in Active(k)
  BY CallsTyped DEF RememberState
<1>5. /\ cache'[k] = writer[w].value /\ \A l \in Keys \ {k} : cache'[l] = cache[l]
      /\ \A u \in Writers : /\ writer'[u].key = writer[u].key
                            /\ writer'[u].value = writer[u].value
                            /\ writer'[u].step = "none" <=> writer[u].step = "none"
  BY <1>4 DEF RememberState, IInv, TypeOK
<1>6. \A l \in Keys : Active(l)' = Active(l) /\ (Coming(l)' <=> Coming(l))
  BY <1>5 DEF Active, Coming
<1>7. ASSUME NEW l \in Keys, l \notin raced
      PROVE  Pictured(l)' /\ \A c \in Clients : Saw(c, l)'
  <2>1. Pictured(l) /\ \A c \in Clients : Saw(c, l)
    BY <1>7 DEF Images
  <2>2. \A u \in Active(l) : writer'[u].value = writer[u].value
    BY <1>5 DEF Active
  <2>3. Pictured(l)'
    BY <1>1, <1>4, <1>5, <1>6, <2>1, <2>2 DEF Pictured
  <2>. QED BY <1>1, <1>2, <1>6, <2>1, <2>3, SameImage DEF Saw, Listens
<1>. QED BY <1>1, <1>3, <1>7 DEF Images

LEMMA ImagesBroadcast ==
  ASSUME IInv, Images, NEW w \in Writers, BroadcastState(w)
  PROVE  Images'
<1>0. writer[w].step = "broadcast"
  BY DEF BroadcastState
<1>1. PICK k \in Keys : /\ k = writer[w].key /\ w \in Active(k)
                        /\ k \notin raced => \A u \in Active(k) : u = w
  BY <1>0, CallsTyped
<1>2. PICK v \in Said : v = writer[w].value
  BY <1>0, CallsTyped
<1>3. PICK m \in Messages : m = KeyMsg(k, v)
  BY MessagesTyped
<1>4. /\ Broadcast(m) /\ clients' = clients /\ got' = got /\ stage' = stage
      /\ image' = image /\ cache' = cache /\ raced' = raced
  BY <1>1, <1>2, <1>3 DEF BroadcastState, joining, told
<1>5. m.value = v /\ \A l : About(m, l, {"image"}) <=> (l = k /\ v.part = "image")
  BY <1>3, MessageKinds
<1>6. \A u \in Writers \ {w} : writer'[u] = writer[u]
  BY DEF BroadcastState, IInv, TypeOK
<1>7. writer'[w].step # "none" => /\ writer[w].next # None /\ writer'[w].value = writer[w].next
                                  /\ writer'[w].key = k
  BY <1>1 DEF BroadcastState, IInv, TypeOK, NoCall
<1>8. writer[w].next # None => writer[w].next.part = "state"
  BY <1>0 DEF IInv, Counts
<1>9. Unheard' /\ \A c \in Clients : Listens(c)' => Listens(c) /\ Heard(c)' = Append(Heard(c), m)
  BY <1>4, BroadcastListens
<1>10. ASSUME NEW l \in Keys \ {k}, l \notin raced
       PROVE  Pictured(l)' /\ \A c \in Clients : Saw(c, l)'
  <2>1. w \notin Active(l) /\ w \notin Active(l)'
    BY <1>1, <1>7, <1>10 DEF Active
  <2>2. Active(l)' = Active(l) /\ \A u \in Active(l) : writer'[u] = writer[u]
    BY <1>6, <2>1 DEF Active
  <2>3. Coming(l)' <=> Coming(l)
    BY <2>2 DEF Coming
  <2>4. Pictured(l) /\ \A c \in Clients : Saw(c, l)
    BY <1>10 DEF Images
  <2>5. Pictured(l)'
    BY <1>4, <2>2, <2>3, <2>4 DEF Pictured
  <2>6. ASSUME NEW c \in Clients, Listens(c)'
        PROVE  Listens(c) /\ LastImage(c, l)' = LastImage(c, l)
    <3>1. PICK s \in Seq(Messages) : s = Heard(c)
      BY HeardTyped DEF IInv
    <3>2. Listens(c) /\ Heard(c)' = Append(s, m)
      BY <1>9, <2>6, <3>1
    <3>3. LastAbout(Append(s, m), l, {"image"}) = LastAbout(s, l, {"image"})
      BY <1>5, LastAppended
    <3>. QED BY <3>1, <3>2, <3>3 DEF LastImage
  <2>. QED BY <1>4, <2>3, <2>4, <2>5, <2>6 DEF Saw
<1>11. ASSUME k \notin raced
       PROVE  Pictured(k)' /\ \A c \in Clients : Saw(c, k)'
  <2>1. cache[k] = v /\ (v.part = "image" => v = image[k])
    <3>1. Told(k) /\ Pictured(k)
      BY <1>11 DEF IInv, Agree, Images
    <3>. QED BY <1>0, <1>1, <1>2, <1>11, <3>1 DEF Told, Settled, Pictured
  <2>2. \A u \in Active(k)' : u = w
    BY <1>1, <1>6, <1>11 DEF Active
  <2>3. \A u \in Active(k)' : writer'[u].value.part # "image"
    <3>1. w \in Active(k)' => writer'[w].value.part = "state"
      BY <1>7, <1>8 DEF Active
    <3>. QED BY <2>2, <3>1
  <2>4. Pictured(k)'
    BY <1>4, <2>1, <2>3 DEF Pictured
  <2>5. ASSUME NEW c \in Clients, Listens(c)'
        PROVE  LastImage(c, k)' \in {None, image[k]}
    <3>1. PICK s \in Seq(Messages) : s = Heard(c)
      BY HeardTyped DEF IInv
    <3>2. Listens(c) /\ Heard(c)' = Append(s, m)
      BY <1>9, <2>5, <3>1
    <3>3. CASE v.part = "image"
      <4>1. LastAbout(Append(s, m), k, {"image"}) = v
        BY <1>5, <3>3, LastAppended
      <4>. QED BY <2>1, <3>2, <3>3, <4>1 DEF LastImage
    <3>4. CASE v.part # "image"
      <4>1. LastAbout(Append(s, m), k, {"image"}) = LastAbout(s, k, {"image"})
        BY <1>5, <3>4, LastAppended
      <4>2. ~Coming(k)
        BY <1>1, <1>2, <1>11, <3>4 DEF Coming
      <4>3. LastImage(c, k) \in {None, image[k]}
        BY <1>11, <3>2, <4>2 DEF Images, Saw
      <4>. QED BY <3>1, <3>2, <4>1, <4>3 DEF LastImage
    <3>. QED BY <3>3, <3>4
  <2>. QED BY <1>4, <2>4, <2>5 DEF Saw
<1>. QED BY <1>4, <1>9, <1>10, <1>11 DEF Images

LEMMA ImagesSnapshot ==
  ASSUME IInv, Images, NEW c \in Clients, SnapshotTo(c)
  PROVE  Images'
<1>0. TypeOK /\ NumKeys \in Nat /\ cache \in [Keys -> Said \union {None}]
  BY ServerAssumption DEF IInv, TypeOK
<1>1. PICK ms \in Seq(Messages) : ms = Remembered
  BY <1>0, RememberedIs
<1>2. SendAlone(c, ms) /\ got' = got
  BY <1>1 DEF SnapshotTo
<1>3. PICK s \in Seq(Messages) : s = Heard(c)
  BY HeardTyped DEF IInv
<1>4. PICK r \in Seq(Messages) : /\ Heard(c)' = s \o r /\ Len(r) <= Len(ms)
                                 /\ \A i \in 1 .. Len(r) : r[i] = ms[i]
                                 /\ c \notin cut' /\ ~closed[c] => r = ms
  BY <1>0, <1>2, <1>3, SendHeard
<1>5. \A i \in 1 .. Len(r) : \E j \in Keys : cache[j] # None /\ r[i] = KeyMsg(j, cache[j])
  <2>1. \A i \in 1 .. Len(r) : i \in 1 .. Len(ms)
    BY <1>4
  <2>. QED BY <2>1, <1>0, <1>1, <1>4, RememberedIs
<1>6. \A d \in Clients \ {c} : Heard(d)' = Heard(d)
  BY <1>0, <1>2, SendHeard
<1>7. /\ UNCHANGED <<cache, told, raced, writer, clients, drops>>
      /\ stage'[c] = "layer" /\ \A d \in Clients \ {c} : stage'[d] = stage[d]
  BY <1>0 DEF SnapshotTo, registry, states, TypeOK
<1>8. Unheard'
  BY <1>6, <1>7 DEF Images, Unheard
<1>9. ASSUME NEW k \in Keys
      PROVE  Active(k)' = Active(k) /\ (Coming(k)' <=> Coming(k)) /\ image'[k] = image[k]
  BY <1>7 DEF Active, Coming, told
<1>10. ASSUME NEW k \in Keys, k \notin raced
       PROVE  Pictured(k)'
  BY <1>7, <1>9, <1>10 DEF Images, Pictured
<1>11. ASSUME NEW k \in Keys, k \notin raced, NEW d \in Clients
       PROVE  Saw(d, k)'
  <2>1. Saw(d, k) /\ Pictured(k)
    BY <1>11 DEF Images
  <2>2. CASE d # c
    BY <1>6, <1>7, <1>9, <2>1, <2>2, SameImage DEF Saw, Listens
  <2>3. CASE d = c
    <3>1. PICK v : v = cache[k]
      OBVIOUS
    <3>2. \A i \in 1 .. Len(r) : About(r[i], k, {"image"}) =>
             r[i].value = v /\ v # None /\ v.part = "image"
      BY <1>5, <3>1, MessageKinds
    <3>3. LastAbout(s \o r, k, {"image"}) = LastAbout(s, k, {"image"})
          \/ (LastAbout(s \o r, k, {"image"}) = v /\ v # None /\ v.part = "image")
      <4>1. CASE \A i \in 1 .. Len(r) : ~About(r[i], k, {"image"})
        BY <4>1, LastUntouched
      <4>2. CASE \E i \in 1 .. Len(r) : About(r[i], k, {"image"})
        <5>1. LastAbout(s \o r, k, {"image"}) = v
          BY <3>2, <4>2, LastJoined
        <5>. QED BY <3>2, <4>2, <5>1
      <4>. QED BY <4>1, <4>2
    <3>4. LastImage(c, k)' = LastImage(c, k) \/ LastImage(c, k)' = image[k] \/ Coming(k)
      BY <1>3, <1>4, <2>1, <3>1, <3>3 DEF LastImage, Pictured
    <3>. QED BY <1>7, <1>9, <2>1, <2>3, <3>4 DEF Saw, Listens
  <2>. QED BY <2>2, <2>3
<1>. QED BY <1>7, <1>8, <1>10, <1>11 DEF Images

LEMMA ImagesSendLayer ==
  ASSUME IInv, Images, NEW c \in Clients, SendLayer(c)
  PROVE  Images'
<1>. USE DEF SendLayer, registry, states
<1>0. TypeOK
  BY DEF IInv
<1>1. \A d \in Clients \ {c} : Heard(d)' = Heard(d) /\ stage'[d] = stage[d]
  <2>1. PICK m \in Messages : m = LayerMsg(path[c])
    BY <1>0, MessagesTyped DEF TypeOK
  <2>2. PICK ms \in Seq(Messages) : ms = <<m>>
    <3>1. <<m>> \in Seq(Messages)
      OBVIOUS
    <3>. QED BY <3>1
  <2>3. SendAlone(c, ms) /\ got' = got
    BY <2>1, <2>2
  <2>4. \A d \in Clients \ {c} : Heard(d)' = Heard(d)
    BY <1>0, <2>3, SendHeard
  <2>5. \A d \in Clients \ {c} : stage'[d] = stage[d]
    BY <1>0 DEF TypeOK
  <2>. QED BY <2>4, <2>5
<1>2. stage'[c] = "live" /\ Unheard'
  BY <1>0, <1>1 DEF TypeOK, Images, Unheard
<1>3. \A k : LastImage(c, k)' = LastImage(c, k)
  BY LayerUnheard
<1>4. \A d \in Clients : Listens(d)' => Listens(d)
  BY DEF Listens
<1>. QED BY <1>1, <1>2, <1>3, <1>4, SameImage, ImagesKept

-----------------------------------------------------------------------------
LEMMA ImagesHold == IInv /\ Images /\ [Next]_vars => Images'
<1>. SUFFICES ASSUME IInv, Images, [Next]_vars PROVE Images'
  OBVIOUS
<1>1. ASSUME NEW c \in Clients, Connect(c) \/ WritePump(c) \/ ConnectionFails(c) \/ RemoveClient(c)
      PROVE  Images'
  <2>1. CASE WritePump(c)
    <3>1. \A d \in Clients : Heard(d)' = Heard(d)
      BY <2>1, WritePumpHeard
    <3>2. UNCHANGED <<cache, told, raced, writer, clients, drops, stage>>
      BY <2>1 DEF WritePump, registry, joining, states
    <3>. QED BY <3>1, <3>2, ImagesStay DEF Listens
  <2>2. CASE ConnectionFails(c)
    <3>1. UNCHANGED <<cache, told, raced, writer, clients, drops, stage, queue, got>>
      BY <2>2 DEF ConnectionFails, joining, channels, states
    <3>. QED BY <3>1, ImagesStay DEF Listens, Heard
  <2>. QED BY <1>1, <2>1, <2>2, ImagesConnect, ImagesRemove
<1>2. ASSUME NEW w \in Writers, NEW k \in Keys, NEW v \in Values,
             ApplyKeyState(w, k, v) \/ ApplyCustomGlyph(w, k, v) \/ ShowFrames(w, k, v)
      PROVE  Images'
  BY <1>2, ImagesCall, SaidParts DEF ApplyKeyState, ApplyCustomGlyph, ShowFrames
<1>3. ASSUME NEW w \in Writers, Finish(w)
      PROVE  Images'
  BY <1>3, ImagesRemember, ImagesBroadcast DEF Finish
<1>4. ASSUME NEW c \in Clients, SnapshotTo(c) \/ ReadLayer(c) \/ SendLayer(c)
      PROVE  Images'
  <2>1. CASE ReadLayer(c)
    <3>1. UNCHANGED <<cache, told, raced, writer, clients, drops, queue, got>>
      BY <2>1 DEF ReadLayer, registry, channels, states
    <3>2. \A d \in Clients : stage'[d] = "out" => stage[d] = "out"
      BY <2>1 DEF ReadLayer, IInv, TypeOK
    <3>. QED BY <3>1, <3>2, ImagesStay DEF Listens, Heard
  <2>. QED BY <1>4, <2>1, ImagesSnapshot, ImagesSendLayer
<1>5. CASE ChangeLayer \/ TakePress \/ PressLayer \/ PressNode \/ UNCHANGED vars
  <2>1. UNCHANGED <<cache, told, raced, writer, clients, drops, stage, queue, got>>
    BY <1>5 DEF ChangeLayer, TakePress, PressLayer, PressNode, vars, registry, joining,
                channels, states
  <2>. QED BY <2>1, ImagesStay DEF Listens, Heard
<1>6. CASE LayerChanged
  <2>1. PICK m \in Messages : m = LayerMsg(layer)
    BY MessagesTyped DEF IInv, TypeOK
  <2>2. Broadcast(m) /\ \A k, P : ~About(m, k, P)
    BY <1>6, <2>1, MessageKinds DEF LayerChanged
  <2>3. UNCHANGED <<clients, got, stage, cache, told, raced, writer>>
    BY <1>6 DEF LayerChanged, joining, states
  <2>. QED BY <2>2, <2>3, OtherBroadcastImages
<1>7. CASE DispatchPress
  <2>1. presses + 1 \in 1 .. MaxWork
    BY <1>7, ServerAssumption DEF DispatchPress, IInv, Counts, TypeOK
  <2>2. PICK m \in Messages : m = EventMsg(presses + 1)
    BY <2>1, MessagesTyped
  <2>3. Broadcast(m) /\ \A k, P : ~About(m, k, P)
    BY <1>7, <2>2, MessageKinds DEF DispatchPress
  <2>4. UNCHANGED <<clients, got, stage, cache, told, raced, writer>>
    BY <1>7 DEF DispatchPress, joining, states
  <2>. QED BY <2>3, <2>4, OtherBroadcastImages
<1>8. CASE NameChild
  <2>1. child \in 1 .. MaxWork
    BY <1>8 DEF NameChild, IInv, TypeOK
  <2>2. PICK m \in Messages : m = ChildMsg(child)
    BY <2>1, MessagesTyped
  <2>3. Broadcast(m) /\ \A k, P : ~About(m, k, P)
    BY <1>8, <2>2, MessageKinds DEF NameChild
  <2>4. UNCHANGED <<clients, got, stage, cache, told, raced, writer>>
    BY <1>8 DEF NameChild, joining, states
  <2>. QED BY <2>3, <2>4, OtherBroadcastImages
<1>. QED BY <1>1, <1>2, <1>3, <1>4, <1>5, <1>6, <1>7, <1>8 DEF Next, Join, Loops

LEMMA InitImages == Init => Images
<1>. SUFFICES ASSUME Init PROVE Images
  OBVIOUS
<1>1. \A c \in Clients : Heard(c) = <<>> /\ c \notin clients
  BY DEF Init, Heard
<1>2. \A k \in Keys : Active(k) = {} /\ cache[k] = None
  BY DEF Init, Active, NoCall
<1>. QED BY <1>1, <1>2 DEF Images, Unheard, Pictured, Saw, Listens

LEMMA ImagesInvariance == Spec => [](IInv /\ Images)
<1>1. Init => IInv /\ Images
  BY InitHolds, InitImages
<1>2. (IInv /\ Images) /\ [Next]_vars => (IInv /\ Images)'
  BY NextHolds, ImagesHold
<1>. QED BY <1>1, <1>2, PTL DEF Spec

-----------------------------------------------------------------------------
(* Every state of the server has the types of TypeOK (NewServer).          *)
THEOREM TypeCorrect == Spec => []TypeOK
<1>1. IInv => TypeOK
  BY DEF IInv
<1>. QED BY <1>1, Invariance, PTL

(* A client that lost nothing ends with the last message about every key   *)
(* that the board was given, whenever it connected, and with the image     *)
(* that the board was given or none; no registered client has a closed     *)
(* queue (addClient, snapshotTo, showFrames, broadcast, removeClient).     *)
THEOREM ClientsAlwaysAgree == Spec => []ClientsAgree
<1>1. IInv /\ Images => ClientsAgree
  <2>. SUFFICES ASSUME IInv, Images PROVE ClientsAgree
    OBVIOUS
  <2>1. RegisteredAreOpen
    BY DEF IInv, Registered, RegisteredAreOpen
  <2>2. ASSUME AtRest, NEW c \in Served, NEW k \in Keys \ raced
        PROVE  LastPart(c, k) = device[k] /\ LastImage(c, k) \in {None, image[k]}
    <3>1. Active(k) = {}
      BY <2>2 DEF AtRest, Active, NoCall
    <3>2. c \in Clients /\ Kept(c) /\ stage[c] # "replay"
      BY DEF Served, Kept, IInv, TypeOK
    <3>3. Current(c, k)
      BY <3>1, <3>2 DEF Current
    <3>4. cache[k] = device[k]
      BY <3>1 DEF IInv, Agree, Told, Settled
    <3>5. LastPart(c, k) = device[k]
      BY <3>2, <3>3, <3>4 DEF IInv, Agree, Knows
    <3>6. ~Coming(k) /\ Listens(c)
      BY <3>1, <3>2 DEF Coming, Kept, Listens
    <3>. QED BY <3>2, <3>5, <3>6 DEF Images, Saw
  <2>. QED BY <2>1, <2>2 DEF IInv, ClientsAgree
<1>. QED BY <1>1, ImagesInvariance, PTL

(* A client hears of a press before its child, and of children in the      *)
(* order of the presses (dispatchLoop, layerPressLoop).                    *)
THEOREM ChildrenAlwaysInOrder == Spec => []ChildrenInOrder
<1>1. IInv => ChildrenInOrder
  <2>. SUFFICES ASSUME IInv, NEW c \in Clients, NEW n \in 1 .. MaxWork,
                       NEW i \in Place(c, ChildMsg(n))
                PROVE  /\ \A j \in Place(c, EventMsg(n)) : j < i
                       /\ \A m \in 1 .. n - 1 : \A j \in Place(c, ChildMsg(m)) : j < i
    BY DEF ChildrenInOrder
  <2>1. PICK s \in Seq(Messages) : s = Heard(c) /\ Sorted(s)
    BY HeardTyped DEF IInv, Ordered
  <2>2. i \in DOMAIN s /\ s[i] = ChildMsg(n)
    BY <2>1 DEF Place
  <2>3. \A j \in DOMAIN s : j \in Int
    BY <2>1
  <2>4. \A j \in DOMAIN s : i < j =>
           s[j] # EventMsg(n) /\ \A m \in 1 .. n - 1 : s[j] # ChildMsg(m)
    BY <2>1, <2>2 DEF Sorted
  <2>5. s[i] # EventMsg(n) /\ \A m \in 1 .. n - 1 : s[i] # ChildMsg(m)
    BY <2>2, MessageKinds
  <2>6. \A j \in Place(c, EventMsg(n)) : j < i
    BY <2>1, <2>2, <2>3, <2>4, <2>5 DEF Place
  <2>7. ASSUME NEW m \in 1 .. n - 1, NEW j \in Place(c, ChildMsg(m))
        PROVE  j < i
    BY <2>1, <2>2, <2>3, <2>4, <2>5 DEF Place
  <2>. QED BY <2>6, <2>7
<1>. QED BY <1>1, Invariance, PTL

-----------------------------------------------------------------------------
(* Signals and the wait are about clicks that have happened.               *)
ClickKnown ==
  /\ \A s \in Decided : s.of \subseteq 1 .. clicks
  /\ awaited # NoClick => awaited \in 1 .. clicks

ClickOnce ==
  /\ \A s, t \in Decided : s # t => s.of \intersect t.of = {}
  /\ \A s \in Decided : awaited \notin s.of

(* When fired timers run before the next event, the only timer that can    *)
(* still run is the one of the click that waits, and a press stops it.     *)
ClickLive(c) == timers[c] \in {"armed", "fired"}
ClickOneTimer ==
  prompt => \A c \in Clicks : ClickLive(c) => pendingTimer = c /\ awaited = c /\ ~down

ClickInv ==
  /\ ClickTypeOK /\ ClickKnown /\ ClickOnce /\ OwnTimerDecides /\ ClickOneTimer

-----------------------------------------------------------------------------
(* What one more signal does: it may be about clicks that no other signal  *)
(* is about, and about none that still waits.                              *)
LEMMA EmitHolds ==
  ASSUME ClickInv, NEW name \in {"single", "double", "long"}, NEW of \in SUBSET Clicks,
         NEW by \in {Loop} \union Clicks, Emit(name, of, by), emitted' = emitted,
         clicks' \in 0 .. MaxClicks, clicks <= clicks', of \subseteq 1 .. clicks',
         \A s \in Decided : s.of \intersect of = {},
         awaited' = NoClick, prompt' = prompt,
         prompt => (name = "single" => of = {by})
  PROVE  /\ emitting' \subseteq Signals /\ emitted' \subseteq Signals
         /\ ClickKnown' /\ ClickOnce' /\ OwnTimerDecides'
<1>. DEFINE n == [name |-> name, of |-> of, by |-> by]
<1>0. MaxClicks \in Nat /\ MaxPresses \in Nat /\ NoClick \notin Nat
  BY ClickAssumption DEF ClickAssumption
<1>. USE <1>0
<1>1. n \in Signals /\ n.of = of /\ n.name = name /\ n.by = by
  BY DEF Signals
<1>2. Decided' = Decided \union {n}
  BY DEF Decided, Emit
<1>3. emitting' \subseteq Signals /\ emitted' \subseteq Signals
  BY <1>1 DEF Emit, ClickInv, ClickTypeOK
<1>. HIDE DEF n
<1>4. clicks \in Nat /\ clicks' \in Nat /\ Decided \subseteq Signals
  BY DEF ClickInv, ClickTypeOK, Decided
<1>5. \A s \in Decided' : s = n \/ s \in Decided
  BY <1>2
<1>6. ClickKnown'
  <2>1. ASSUME NEW s \in Decided'
        PROVE  s.of \subseteq 1 .. clicks'
    <3>1. CASE s \in Decided
      <4>1. s.of \subseteq 1 .. clicks
        BY <3>1 DEF ClickInv, ClickKnown
      <4>. QED BY <1>4, <4>1
    <3>. QED BY <1>1, <1>5, <2>1, <3>1
  <2>. QED BY <2>1 DEF ClickKnown
<1>7. ClickOnce'
  <2>1. \A s \in Decided' : s.of \subseteq Clicks
    BY <1>1, <1>4, <1>5 DEF Signals
  <2>2. NoClick \notin Clicks
    BY DEF Clicks
  <2>3. ASSUME NEW s \in Decided', NEW t \in Decided', s # t
        PROVE  s.of \intersect t.of = {}
    BY <1>1, <1>5, <2>3 DEF ClickInv, ClickOnce
  <2>. QED BY <2>1, <2>2, <2>3 DEF ClickOnce
<1>8. OwnTimerDecides'
  BY <1>1, <1>5 DEF ClickInv, OwnTimerDecides
<1>. QED BY <1>3, <1>6, <1>7, <1>8

-----------------------------------------------------------------------------
LEMMA ClickInitHolds == ClickInit => ClickInv
<1>0. MaxClicks \in Nat /\ MaxPresses \in Nat /\ NoClick \notin Nat
  BY ClickAssumption DEF ClickAssumption
<1>. USE <1>0
<1>. SUFFICES ASSUME ClickInit PROVE ClickInv
  OBVIOUS
<1>1. ClickTypeOK
  <2>1. clicks \in 0 .. MaxClicks /\ downs \in 0 .. MaxPresses
    BY DEF ClickInit
  <2>2. awaitingSecond <=> awaited # NoClick
    BY DEF ClickInit
  <2>3. timers \in [Clicks -> {"none", "armed", "stopped", "fired", "over"}]
    BY DEF ClickInit
  <2>. QED BY <2>1, <2>2, <2>3, Zenon DEF ClickInit, ClickTypeOK
<1>2. ClickKnown /\ ClickOnce /\ OwnTimerDecides
  BY DEF ClickInit, ClickKnown, ClickOnce, OwnTimerDecides, Decided
<1>3. ClickOneTimer
  BY DEF ClickInit, ClickOneTimer, ClickLive
<1>. QED BY <1>1, <1>2, <1>3 DEF ClickInv

LEMMA ClickPressHolds ==
  ASSUME ClickInv, Press
  PROVE  ClickInv'
<1>0. MaxClicks \in Nat /\ MaxPresses \in Nat /\ NoClick \notin Nat
  BY ClickAssumption DEF ClickAssumption
<1>. USE <1>0 DEF ClickInv, Press
<1>1. ClickTypeOK'
  BY DEF ClickTypeOK, StopPending
<1>2. ClickKnown' /\ ClickOnce' /\ OwnTimerDecides'
  BY DEF ClickKnown, ClickOnce, OwnTimerDecides, Decided
<1>3. ClickOneTimer'
  <2>. SUFFICES ASSUME prompt, NEW c \in Clicks, ClickLive(c)'
                PROVE  FALSE
    BY DEF ClickOneTimer
  <2>1. timers[c] # "fired"
    BY DEF LoopFree
  <2>. QED BY <2>1 DEF StopPending, ClickLive, ClickOneTimer, ClickTypeOK
<1>. QED BY <1>1, <1>2, <1>3

(* The facts that the three releases share.                                *)
LEMMA ReleaseFacts ==
  ASSUME ClickInv, Release
  PROVE  /\ clicks \in Nat /\ clicks' = clicks + 1 /\ clicks + 1 \in Clicks
         /\ clicks' \in 0 .. MaxClicks /\ clicks + 1 \in 1 .. clicks'
         /\ 1 .. clicks \subseteq 1 .. clicks' /\ clicks <= clicks'
         /\ prompt' = prompt
         /\ \A s \in Decided : clicks + 1 \notin s.of
         /\ prompt => \A c \in Clicks : ~ClickLive(c)
<1>0. MaxClicks \in Nat /\ MaxPresses \in Nat /\ NoClick \notin Nat
  BY ClickAssumption DEF ClickAssumption
<1>. USE <1>0 DEF ClickInv, Release
<1>1. clicks \in Nat /\ clicks < MaxClicks
  BY DEF ClickTypeOK
<1>2. \A s \in Decided : clicks + 1 \notin s.of
  BY <1>1 DEF ClickKnown
<1>3. prompt => \A c \in Clicks : ~ClickLive(c)
  BY DEF ClickOneTimer
<1>. QED BY <1>1, <1>2, <1>3 DEF Clicks

LEMMA LongReleaseHolds ==
  ASSUME ClickInv, LongRelease
  PROVE  ClickInv'
<1>0. MaxClicks \in Nat /\ MaxPresses \in Nat /\ NoClick \notin Nat
  BY ClickAssumption DEF ClickAssumption
<1>. USE <1>0 DEF LongRelease
<1>1. /\ emitting' \subseteq Signals /\ emitted' \subseteq Signals
      /\ ClickKnown' /\ ClickOnce' /\ OwnTimerDecides'
  <2>1. \A s \in Decided : s.of \intersect {clicks + 1} = {}
    BY ReleaseFacts
  <2>2. {clicks + 1} \in SUBSET Clicks /\ {clicks + 1} \subseteq 1 .. clicks'
    BY ReleaseFacts
  <2>3. Loop \in {Loop} \union Clicks /\ "long" \in {"single", "double", "long"}
    OBVIOUS
  <2>. QED BY <2>1, <2>2, <2>3, EmitHolds, ReleaseFacts DEF Release
<1>2. ClickTypeOK'
  BY <1>1, ReleaseFacts DEF ClickInv, ClickTypeOK, Release
<1>3. ClickOneTimer'
  BY ReleaseFacts DEF ClickOneTimer, ClickLive, Release
<1>. QED BY <1>1, <1>2, <1>3 DEF ClickInv

LEMMA SecondReleaseHolds ==
  ASSUME ClickInv, SecondRelease
  PROVE  ClickInv'
<1>0. MaxClicks \in Nat /\ MaxPresses \in Nat /\ NoClick \notin Nat
  BY ClickAssumption DEF ClickAssumption
<1>. USE <1>0 DEF SecondRelease
<1>. DEFINE of == {awaited, clicks + 1}
<1>1. awaited \in Clicks /\ awaited \in 1 .. clicks
  BY DEF ClickInv, ClickTypeOK, ClickKnown
<1>2. /\ of \in SUBSET Clicks /\ of \subseteq 1 .. clicks'
      /\ \A s \in Decided : s.of \intersect of = {}
  BY <1>1, ReleaseFacts DEF ClickInv, ClickOnce
<1>3. /\ emitting' \subseteq Signals /\ emitted' \subseteq Signals
      /\ ClickKnown' /\ ClickOnce' /\ OwnTimerDecides'
  BY <1>2, EmitHolds, ReleaseFacts DEF Release
<1>4. ClickTypeOK'
  BY <1>3, ReleaseFacts DEF ClickInv, ClickTypeOK, Release
<1>5. ClickOneTimer'
  BY ReleaseFacts DEF ClickOneTimer, ClickLive, Release
<1>. QED BY <1>3, <1>4, <1>5 DEF ClickInv

LEMMA FirstReleaseHolds ==
  ASSUME ClickInv, FirstRelease
  PROVE  ClickInv'
<1>0. MaxClicks \in Nat /\ MaxPresses \in Nat /\ NoClick \notin Nat
  BY ClickAssumption DEF ClickAssumption
<1>. USE <1>0 DEF FirstRelease
<1>1. clicks + 1 # NoClick
  BY ReleaseFacts
<1>2. ClickTypeOK'
  BY <1>1, ReleaseFacts DEF ClickInv, ClickTypeOK, Release
<1>3. ClickKnown' /\ ClickOnce' /\ OwnTimerDecides'
  BY ReleaseFacts DEF ClickInv, ClickKnown, ClickOnce, OwnTimerDecides, Decided,
                      Release
<1>4. ClickOneTimer'
  BY ReleaseFacts DEF ClickInv, ClickTypeOK, ClickOneTimer, ClickLive, Release
<1>. QED BY <1>2, <1>3, <1>4 DEF ClickInv

LEMMA FireHolds ==
  ASSUME ClickInv, NEW c \in Clicks, Fire(c)
  PROVE  ClickInv'
  BY DEF ClickInv, ClickTypeOK, ClickKnown, ClickOnce, OwnTimerDecides, ClickOneTimer,
         ClickLive, Decided, Fire, state

(* A timer that runs late finds that nothing waits, or decides the click   *)
(* that does; of prompt timers only the own one is left.                   *)
LEMMA TimerRunsHolds ==
  ASSUME ClickInv, NEW c \in Clicks, TimerRuns(c)
  PROVE  ClickInv'
<1>0. MaxClicks \in Nat /\ MaxPresses \in Nat /\ NoClick \notin Nat
  BY ClickAssumption DEF ClickAssumption
<1>. USE <1>0 DEF TimerRuns
<1>1. CASE awaitingSecond
  <2>1. awaited \in Clicks /\ awaited \in 1 .. clicks /\ clicks \in 0 .. MaxClicks
    BY <1>1 DEF ClickInv, ClickTypeOK, ClickKnown
  <2>2. prompt => awaited = c
    BY DEF ClickInv, ClickOneTimer, ClickLive
  <2>3. /\ emitting' \subseteq Signals /\ emitted' \subseteq Signals
        /\ ClickKnown' /\ ClickOnce' /\ OwnTimerDecides'
    <3>1. /\ Emit("single", {awaited}, c) /\ emitted' = emitted /\ prompt' = prompt
          /\ awaited' = NoClick /\ clicks' = clicks
      BY <1>1
    <3>2. clicks' \in 0 .. MaxClicks /\ clicks <= clicks' /\ {awaited} \subseteq 1 .. clicks'
      BY <2>1, <3>1
    <3>3. \A s \in Decided : s.of \intersect {awaited} = {}
      BY DEF ClickInv, ClickOnce
    <3>4. prompt => ("single" = "single" => {awaited} = {c})
      BY <2>2
    <3>5. {awaited} \in SUBSET Clicks /\ c \in {Loop} \union Clicks
      BY <2>1
    <3>. HIDE DEF TimerRuns
    <3>. QED BY <3>1, <3>2, <3>3, <3>4, <3>5, EmitHolds
  <2>4. ClickTypeOK'
    BY <1>1, <2>3 DEF ClickInv, ClickTypeOK
  <2>5. ClickOneTimer'
    BY <1>1 DEF ClickInv, ClickTypeOK, ClickOneTimer, ClickLive
  <2>. QED BY <2>3, <2>4, <2>5 DEF ClickInv
<1>2. CASE ~awaitingSecond
  BY <1>2 DEF ClickInv, ClickTypeOK, ClickKnown, ClickOnce, OwnTimerDecides,
              ClickOneTimer, ClickLive, Decided
<1>. QED BY <1>1, <1>2

LEMMA ClickBroadcastHolds ==
  ASSUME ClickInv, BroadcastSignal
  PROVE  ClickInv'
<1>1. Decided' = Decided
  BY DEF BroadcastSignal, Decided
<1>. QED
  BY <1>1 DEF ClickInv, ClickTypeOK, ClickKnown, ClickOnce, OwnTimerDecides,
              ClickOneTimer, ClickLive, BroadcastSignal, state

LEMMA ClickNextHolds == ClickInv /\ [ClickNext]_clickVars => ClickInv'
<1>. SUFFICES ASSUME ClickInv, [ClickNext]_clickVars PROVE ClickInv'
  OBVIOUS
<1>1. CASE UNCHANGED clickVars
  BY <1>1 DEF ClickInv, ClickTypeOK, ClickKnown, ClickOnce, OwnTimerDecides,
              ClickOneTimer, ClickLive, Decided, clickVars, state
<1>. QED
  BY <1>1, ClickPressHolds, LongReleaseHolds, SecondReleaseHolds, FirstReleaseHolds, FireHolds,
     TimerRunsHolds, ClickBroadcastHolds DEF ClickNext, Timer

LEMMA ClickInvariance == ClickSpec => []ClickInv
  BY ClickInitHolds, ClickNextHolds, PTL DEF ClickSpec

-----------------------------------------------------------------------------
(* A click counts once: no two signals are about it, none is about a click *)
(* that still waits, and a single press comes from its own timer when      *)
(* timers are prompt (keyResolver.handleEvent).                            *)
THEOREM ClicksAlwaysCountOnce == ClickSpec => []ClicksCountOnce
<1>1. ClickInv => ClicksCountOnce
  BY DEF ClickInv, ClickOnce, ClicksCountOnce
<1>. QED BY <1>1, ClickInvariance, PTL
=============================================================================
