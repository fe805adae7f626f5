---------------------------- MODULE InboxProofs -----------------------------
(***************************************************************************)
(* Proofs about the inbox daemon.                                          *)
(*                                                                         *)
(* It misses no write that it polls for, for any number of channels,       *)
(* writes, failures and restarts: the version that it holds is never ahead *)
(* of the store's.  So a commit of another process always makes the two    *)
(* differ, and what the daemon writes itself leaves it with a query to     *)
(* make.                                                                   *)
(*                                                                         *)
(* And one daemon runs for each plugin, for any number of daemons and      *)
(* plugins, crashes and recycled pids, as long as no two start at once:    *)
(* what a daemon that starts alone has read stays true until it acts on    *)
(* it, so it takes away no file of a daemon that is alive.                 *)
(*                                                                         *)
(* And not all refuse, for any number of plugins, as long as no third      *)
(* comes between two that start at once, and no pid that is read has gone  *)
(* to a process that is no daemon: who was refused was refused by one that *)
(* got the plugin, and that one is refused by nobody.                      *)
(***************************************************************************)
EXTENDS InboxDaemon, PidFile, FiniteSetTheorems, SequenceTheorems, TLAPS

(* The version is one that the store has had.                              *)
VersionOfStore == version \in Nat /\ commits \in Nat /\ version <= commits

CoverInv == VersionOfStore /\ VersionCoversRows

(* A push changes what the renderer believes and what is on its way.       *)
LEMMA UnwrittenRows ==
  ASSUME UNCHANGED store
  PROVE  Rows' = Rows /\ commits' = commits
BY DEF store, Rows, Row, Unseen, Newest

(* Steps that leave the store, the copy and the daemon's query alone.      *)
LEMMA ApartKeeps ==
  ASSUME CoverInv, UNCHANGED <<store, life, query, copy>>
  PROVE  CoverInv'
BY UnwrittenRows DEF CoverInv, VersionOfStore, VersionCoversRows, Idle, copy

(* Steps after which the daemon is down or has a query to make.            *)
LEMMA BusyKeeps ==
  ASSUME VersionOfStore', ~Idle'
  PROVE  CoverInv'
BY DEF CoverInv, VersionCoversRows

LEMMA InitCovers == Init => CoverInv
BY DEF Init, CoverInv, VersionOfStore, VersionCoversRows, Idle

LEMMA QueriesCover ==
  ASSUME CoverInv, ReadVersion \/ ReadRows \/ Poll \/ GuardRead \/ QueryFails
  PROVE  CoverInv'
<1>1. CASE ReadVersion \/ Poll
  <2>1. ~Idle' BY <1>1 DEF ReadVersion, Poll, Idle
  <2>2. VersionOfStore' BY <1>1 DEF CoverInv, VersionOfStore, ReadVersion, Poll, Takes, store
  <2> QED BY <2>1, <2>2, BusyKeeps
<1>2. CASE ReadRows
  <2>1. unseen' = Rows /\ version' = version /\ UNCHANGED store BY <1>2 DEF ReadRows, Takes
  <2> QED BY <2>1, UnwrittenRows DEF CoverInv, VersionOfStore, VersionCoversRows
<1>3. CASE GuardRead
  <2>1. unseen' = Rows /\ version' = version /\ UNCHANGED store BY <1>3 DEF GuardRead
  <2> QED BY <2>1, UnwrittenRows DEF CoverInv, VersionOfStore, VersionCoversRows
<1>4. CASE QueryFails
  <2>1. stale' /\ version' = version /\ UNCHANGED store BY <1>4 DEF QueryFails
  <2> QED BY <2>1, UnwrittenRows DEF CoverInv, VersionOfStore, VersionCoversRows
<1> QED BY <1>1, <1>2, <1>3, <1>4

(* What the daemon writes itself: the mark of a press, and its feed.       *)
LEMMA OwnWritesCover ==
  ASSUME CoverInv, TakePress \/ \E c \in Channels : FeedWrites(c)
  PROVE  CoverInv'
<1>1. VersionOfStore' BY DEF CoverInv, VersionOfStore, TakePress, FeedWrites, copy
<1>2. CASE UNCHANGED <<mark, query>> /\ TakePress
  BY <1>2, ApartKeeps DEF TakePress, store, copy
<1>3. CASE query' = "version"
  BY <1>1, <1>3, BusyKeeps DEF Idle
<1> QED BY <1>2, <1>3 DEF TakePress, FeedWrites

(* What others write gives the store a version that the daemon has not.    *)
LEMMA OthersWritesCover ==
  ASSUME CoverInv, NEW c \in Channels, Insert(c) \/ MarkAllSeen(c)
  PROVE  CoverInv'
<1>1. commits' = commits + 1 /\ version' = version
  BY DEF Insert, MarkAllSeen, Apart, copy
<1>2. VersionOfStore' /\ version' # commits' BY <1>1 DEF CoverInv, VersionOfStore
<1> QED BY <1>2 DEF CoverInv, VersionCoversRows

LEMMA LifeCovers ==
  ASSUME CoverInv, End \/ Start
  PROVE  CoverInv'
<1>1. ~Idle' BY DEF End, Start, Idle
<1>2. VersionOfStore' BY DEF CoverInv, VersionOfStore, End, Start, store, copy
<1> QED BY <1>1, <1>2, BusyKeeps

LEMMA NextCovers == CoverInv /\ [Next]_vars => CoverInv'
<1> SUFFICES ASSUME CoverInv, [Next]_vars PROVE CoverInv'
  OBVIOUS
<1>1. CASE ReadVersion \/ ReadRows \/ Poll \/ GuardRead \/ QueryFails BY <1>1, QueriesCover
<1>2. CASE TakePress \/ \E c \in Channels : FeedWrites(c) BY <1>2, OwnWritesCover
<1>3. CASE \E c \in Channels : Insert(c) \/ MarkAllSeen(c) BY <1>3, OthersWritesCover
<1>4. CASE End \/ Start BY <1>4, LifeCovers
<1>5. CASE Connect \/ ReadLayer \/ SendLayer \/ TakeLayer \/ Ended \/ Lose \/ LayerTimeout
  BY <1>5, ApartKeeps DEF Connect, ReadLayer, SendLayer, TakeLayer, Ended, Lose, LayerTimeout
<1>6. CASE Deliver \/ User
  BY <1>6, ApartKeeps DEF Deliver, User, Toggle, Press
<1>7. CASE UNCHANGED vars BY <1>7, ApartKeeps DEF vars
<1> QED BY <1>1, <1>2, <1>3, <1>4, <1>5, <1>6, <1>7 DEF Next, Program, Handler, Others, Writer

(* A daemon between two handlers that holds the store's version, and whose *)
(* last read did not fail, holds the store's rows (reread, poll of         *)
(* daemon.js), whatever other processes wrote between its two queries.     *)
THEOREM PolledRowsAreCurrent == Spec => []VersionCoversRows
<1>1. CoverInv => VersionCoversRows BY DEF CoverInv
<1> QED BY <1>1, InitCovers, NextCovers, PTL DEF Spec

-----------------------------------------------------------------------------
(* The pid files.  A process names each plugin once, and there is one to   *)
(* name.                                                                   *)
LEMMA ListsHold ==
  ASSUME PidFileAssumption, NEW s \in Lists
  PROVE  /\ s \in Seq(Plugins) /\ s # <<>>
         /\ \A i, j \in DOMAIN s : s[i] = s[j] => i = j
<1>1. PICK n \in Nat \ {0} : n = Cardinality(Plugins)
  BY FS_CardinalityType, FS_EmptySet DEF PidFileAssumption
<1>2. CASE s \in SetToSeqs(Plugins)
  <2>1. /\ s \in [1 .. n -> Plugins]
        /\ \A i, j \in 1 .. n : i # j => s[i] # s[j]
    BY <1>1, <1>2 DEF SetToSeqs
  <2>2. s \in Seq(Plugins) /\ DOMAIN s = 1 .. n
    BY <1>1, <2>1
  <2>3. s # <<>>
    BY <1>1, <2>2
  <2>. QED BY <2>1, <2>2, <2>3
<1>3. CASE \E p \in Plugins : s = <<p>>
  BY <1>3
<1>. QED BY <1>2, <1>3 DEF Lists

-----------------------------------------------------------------------------
(* What the variables hold, and where a process is in its plugins: it      *)
(* holds the first ones that it names, and one is left while it starts.    *)
Kinds ==
  /\ file \in [Plugins -> Texts \union {NoPid}]
  /\ at \in [Daemons -> {"create", "fill", "read", "judge", "unlink", "off", "run", "release",
                         "remove"}]
  /\ shows \in [Daemons -> Seq(Plugins)] /\ held \in [Daemons -> Seq(Plugins)]
  /\ tries \in [Daemons -> 0 .. MaxTries] /\ seen \in [Daemons -> Pids \union {NoPid}]
  /\ starts \in 0 .. MaxStarts /\ ends \in 0 .. MaxEnds /\ overlapped \in BOOLEAN
  /\ others \subseteq Pids /\ misled \in BOOLEAN

Placed(d) ==
  /\ shows[d] \in Lists \union {<<>>}
  /\ \A i, j \in DOMAIN shows[d] : shows[d][i] = shows[d][j] => i = j
  /\ \A i \in DOMAIN held[d] : \E j \in DOMAIN shows[d] : held[d][i] = shows[d][j]
  /\ at[d] \in Starting => tries[d] < MaxTries /\ Len(held[d]) < Len(shows[d])
  /\ at[d] \in Starting \union {"run"} =>
       /\ Len(held[d]) <= Len(shows[d])
       /\ \A i \in DOMAIN held[d] : held[d][i] = shows[d][i]
  /\ at[d] = "remove" => held[d] # <<>>

(* A file was written by a process that holds it, or is about to fill it,  *)
(* or by one that has crashed.                                             *)
Holds(d, p) == \E i \in DOMAIN held[d] : held[d][i] = p

Written(p) ==
  file[p] # NoPid /\ file[p].by # Ghost =>
    /\ at[file[p].by] # "off"
    /\ \/ /\ file[p].pid = NoPid /\ at[file[p].by] = "fill" /\ p = NextPlugin(file[p].by)
       \/ file[p].pid = file[p].by /\ Holds(file[p].by, p)

(* As long as no two start at once, who starts is alone: what it holds is  *)
(* its own, what it read is still there, what it is about to remove is     *)
(* nobody's that lives.                                                    *)
Careful(d) ==
  /\ at[d] \in Starting \union {"run"} =>
       \A p \in Plugins : Holds(d, p) => file[p] = [by |-> d, pid |-> d]
  /\ at[d] = "fill" => file[NextPlugin(d)] = [by |-> d, pid |-> NoPid]
  /\ at[d] = "judge" => Pid(NextPlugin(d)) \in {NoPid, seen[d]}
  /\ at[d] = "unlink" => \/ Pid(NextPlugin(d)) \in {NoPid, d}
                         \/ ~Runs(Pid(NextPlugin(d)))
  /\ at[d] = "remove" => Pid(Head(held[d])) = d

OneStarts == \A d, e \in Daemons : at[d] \in Starting /\ at[e] \in Starting => d = e

LockInv ==
  /\ PidFileAssumption
  /\ Kinds /\ (\A d \in Daemons : Placed(d)) /\ (\A p \in Plugins : Written(p))
  /\ ~overlapped => OneStarts /\ \A d \in Daemons : Careful(d)

(* The plugin that a starting process wants is one that it does not hold.  *)
LEMMA WantedIs ==
  ASSUME LockInv, NEW d \in Daemons, at[d] \in Starting
  PROVE  NextPlugin(d) \in Plugins /\ ~Holds(d, NextPlugin(d))
<1>1. PICK h \in Seq(Plugins) : h = held[d]
  BY DEF LockInv, Kinds
<1>2. PICK s \in Seq(Plugins) : s = shows[d]
  BY DEF LockInv, Kinds
<1>3. /\ Len(h) < Len(s) /\ \A i \in DOMAIN h : h[i] = s[i]
      /\ \A i, j \in DOMAIN s : s[i] = s[j] => i = j
  BY <1>1, <1>2 DEF LockInv, Placed
<1>4. PICK n \in 1 .. Len(s) : n = Len(h) + 1
  BY <1>3
<1>5. NextPlugin(d) = s[n] /\ s[n] \in Plugins
  BY <1>1, <1>2, <1>4 DEF NextPlugin
<1>6. \A i \in DOMAIN h : h[i] # s[n]
  BY <1>3, <1>4
<1>. QED BY <1>1, <1>5, <1>6 DEF Holds

(* What the file of a plugin may hold.                                     *)
LEMMA FileIs ==
  ASSUME LockInv, NEW p \in Plugins
  PROVE  /\ file[p] # NoPid => /\ file[p].by \in Daemons \union {Ghost}
                              /\ file[p].pid \in Daemons \union {Ghost, NoPid}
                              /\ file[p] = [by |-> file[p].by, pid |-> file[p].pid]
                              /\ Pid(p) = file[p].pid
         /\ file[p] = NoPid => Pid(p) = NoPid
  BY DEF LockInv, Kinds, Texts, Pids, Pid

(* Constants that differ.                                                  *)
LEMMA Distinct ==
  ASSUME PidFileAssumption
  PROVE  /\ Ghost \notin Daemons /\ NoPid \notin Daemons /\ NoPid # Ghost
         /\ MaxTries \in Nat \ {0} /\ MaxStarts \in Nat /\ MaxEnds \in Nat
         /\ \A d \in Daemons, t \in Daemons \union {NoPid} :
              [by |-> d, pid |-> t] \in Texts /\ [by |-> d, pid |-> t] # NoPid
  BY DEF PidFileAssumption, Pids, Texts

(* The invariant is what is promised of the files.                         *)
LEMMA LockPromise == LockInv => OneRuns
<1>. SUFFICES ASSUME LockInv PROVE OneRuns
  OBVIOUS
<1>1. PidTypeOK
  <2>1. ASSUME NEW d \in Daemons
        PROVE  \/ IsPrefix(held[d], shows[d])
               \/ /\ at[d] \in {"release", "remove", "off"}
                  /\ ToSet(held[d]) \subseteq ToSet(shows[d])
    <3>1. PICK h \in Seq(Plugins) : h = held[d]
      BY DEF LockInv, Kinds
    <3>2. PICK s \in Seq(Plugins) : s = shows[d]
      BY DEF LockInv, Kinds
    <3>3. CASE at[d] \in Starting \union {"run"}
      <4>1. Len(h) <= Len(s) /\ \A i \in DOMAIN h : h[i] = s[i]
        BY <3>1, <3>2, <3>3 DEF LockInv, Placed
      <4>2. SubSeq(h, 1, Len(h)) = SubSeq(s, 1, Len(h))
        BY <4>1
      <4>. QED BY <3>1, <3>2, <4>1, <4>2 DEF IsPrefix
    <3>4. CASE at[d] \notin Starting \union {"run"}
      <4>1. at[d] \in {"release", "remove", "off"}
        BY <3>4 DEF LockInv, Kinds, Starting
      <4>2. \A i \in DOMAIN held[d] : \E j \in DOMAIN shows[d] : held[d][i] = shows[d][j]
        BY DEF LockInv, Placed
      <4>. QED BY <4>1, <4>2 DEF ToSet
    <3>. QED BY <3>3, <3>4
  <2>2. shows \in [Daemons -> Lists \union {<<>>}]
    BY DEF LockInv, Kinds, Placed
  <2>. QED BY <2>1, <2>2 DEF LockInv, Kinds, PidTypeOK, Starting
<1>2. FilesHaveHolders
  <2>1. ASSUME NEW p \in Plugins, file[p] # NoPid, file[p].by # Ghost, file[p].pid # NoPid
        PROVE  p \in ToSet(held[file[p].by])
    <3>1. Holds(file[p].by, p)
      BY <2>1 DEF LockInv, Written
    <3>. QED BY <3>1 DEF Holds, ToSet
  <2>. QED BY <2>1 DEF FilesHaveHolders
<1>3. ASSUME ~overlapped, NEW p \in Plugins, NEW d \in Running(p), NEW e \in Running(p)
      PROVE  d = e
  <2>1. /\ d \in Daemons /\ at[d] = "run" /\ Holds(d, p)
        /\ e \in Daemons /\ at[e] = "run" /\ Holds(e, p)
    BY DEF Running, ToSet, Holds
  <2>2. file[p] = [by |-> d, pid |-> d] /\ file[p] = [by |-> e, pid |-> e]
    BY <1>3, <2>1 DEF LockInv, Careful
  <2>. QED BY <2>2
<1>. QED BY <1>1, <1>2, <1>3 DEF OneRuns

-----------------------------------------------------------------------------
(* What a step of d does to the others: it leaves all of theirs but their  *)
(* files, and of these it changes none that is their own.                  *)
Same(e) ==
  /\ at'[e] = at[e] /\ held'[e] = held[e] /\ shows'[e] = shows[e]
  /\ tries'[e] = tries[e] /\ seen'[e] = seen[e]

Spares(e, p) ==
  \/ file'[p] = file[p]
  \/ /\ Pid(p) # e /\ file[p] # [by |-> e, pid |-> NoPid]
     /\ Pid(p)' \in {NoPid, Pid(p)} \/ at[e] \notin Starting

LEMMA WrittenKept ==
  ASSUME LockInv, NEW d \in Daemons, \A e \in Daemons \ {d} : Same(e), NEW p \in Plugins,
         file'[p] = file[p],
         file[p] # NoPid /\ file[p].by = d =>
            /\ at'[d] # "off"
            /\ \/ file[p].pid = NoPid /\ at'[d] = "fill" /\ p = NextPlugin(d)'
               \/ file[p].pid = d /\ Holds(d, p)'
  PROVE  Written(p)'
<1>1. CASE file[p] = NoPid \/ file[p].by = Ghost
  BY <1>1 DEF Written
<1>2. CASE file[p] # NoPid /\ file[p].by = d
  BY <1>2 DEF Written, Holds
<1>3. CASE file[p] # NoPid /\ file[p].by # Ghost /\ file[p].by # d
  <2>1. PICK e \in Daemons \ {d} : e = file[p].by
    BY <1>3, FileIs
  <2>2. /\ at[e] # "off"
        /\ \/ file[p].pid = NoPid /\ at[e] = "fill" /\ p = NextPlugin(e)
           \/ file[p].pid = e /\ Holds(e, p)
    BY <1>3, <2>1 DEF LockInv, Written
  <2>3. NextPlugin(e)' = NextPlugin(e) /\ Holds(e, p)' = Holds(e, p) /\ at'[e] = at[e]
    BY <2>1 DEF Same, NextPlugin, Holds
  <2>. QED BY <2>1, <2>2, <2>3 DEF Written
<1>. QED BY <1>1, <1>2, <1>3

LEMMA CarefulKept ==
  ASSUME LockInv, ~overlapped, NEW e \in Daemons, Same(e), \A p \in Plugins : Spares(e, p),
         at[e] \in Starting => \A d \in Daemons : at'[d] # "off" => at[d] # "off"
  PROVE  Careful(e)'
<1>1. Careful(e) /\ Placed(e)
  BY DEF LockInv
<1>2. /\ at'[e] = at[e] /\ held'[e] = held[e] /\ seen'[e] = seen[e]
      /\ NextPlugin(e)' = NextPlugin(e)
      /\ \A p \in Plugins : Holds(e, p)' = Holds(e, p)
  BY DEF Same, NextPlugin, Holds
<1>3. \A p \in Plugins : file[p] = [by |-> e, pid |-> e] => file'[p] = [by |-> e, pid |-> e]
  <2>1. ASSUME NEW p \in Plugins, file[p] = [by |-> e, pid |-> e]
        PROVE  file'[p] = file[p]
    <3>1. Pid(p) = e
      BY <2>1, FileIs, Distinct DEF LockInv
    <3>. QED BY <3>1 DEF Spares
  <2>. QED BY <2>1
<1>4. CASE at[e] \in {"fill", "judge", "unlink"}
  <2>1. PICK w \in Plugins : w = NextPlugin(e) /\ w = NextPlugin(e)'
    BY <1>2, <1>4, WantedIs DEF Starting
  <2>2. at[e] \in Starting
    BY <1>4 DEF Starting
  <2>3. file[w] = [by |-> e, pid |-> NoPid] => file'[w] = file[w]
    BY DEF Spares
  <2>4. Pid(w)' = Pid(w) \/ Pid(w)' = NoPid
    BY <2>2 DEF Spares, Pid
  <2>5. ~Runs(Pid(w)) /\ Pid(w)' = Pid(w) => ~Runs(Pid(w))'
    BY <2>2 DEF Runs
  <2>6. Pid(NextPlugin(e))' = Pid(w)'
    BY <2>1 DEF Pid
  <2>7. Runs(Pid(NextPlugin(e)))' = Runs(Pid(w))'
    BY <2>6 DEF Runs
  <2>8. /\ at[e] = "fill" => file'[w] = [by |-> e, pid |-> NoPid]
        /\ at[e] = "judge" => Pid(w)' \in {NoPid, seen[e]}
        /\ at[e] = "unlink" => Pid(w)' \in {NoPid, e} \/ ~Runs(Pid(w))'
    BY <1>1, <2>1, <2>3, <2>4, <2>5 DEF Careful
  <2>9. file'[NextPlugin(e)'] = file'[w]
    BY <2>1
  <2>10. \A p \in Plugins : Holds(e, p)' => file'[p] = [by |-> e, pid |-> e]
    BY <1>1, <1>2, <1>3, <2>2 DEF Careful
  <2>. QED BY <1>2, <1>4, <2>6, <2>7, <2>8, <2>9, <2>10 DEF Careful
<1>5. CASE at[e] = "remove"
  <2>1. PICK p \in Plugins : p = Head(held[e])
    BY <1>1, <1>5 DEF LockInv, Kinds, Placed
  <2>2. Pid(p) = e
    BY <1>1, <1>5, <2>1 DEF Careful
  <2>3. file'[p] = file[p]
    BY <2>2 DEF Spares
  <2>. QED BY <1>2, <1>5, <2>1, <2>2, <2>3 DEF Careful, Pid, Starting
<1>6. CASE at[e] \notin {"fill", "judge", "unlink", "remove"}
  BY <1>1, <1>2, <1>3, <1>6 DEF Careful
<1>. QED BY <1>4, <1>5, <1>6

LEMMA OthersKept ==
  ASSUME LockInv, NEW d \in Daemons, \A e \in Daemons \ {d} : Same(e), Kinds', Placed(d)',
         overlapped' = overlapped, \A p \in Plugins : Written(p)',
         at[d] = "off" => at'[d] = "off", at[d] \notin Starting => at'[d] \notin Starting,
         ~overlapped => /\ Careful(d)'
                        /\ \A e \in Daemons \ {d} : at[e] # "off" =>
                             \A p \in Plugins : Spares(e, p)
  PROVE  LockInv'
<1>1. \A e \in Daemons : Placed(e)'
  BY DEF LockInv, Same, Placed
<1>2. ASSUME ~overlapped
      PROVE  OneStarts'
  BY <1>2 DEF LockInv, OneStarts, Same
<1>3. ASSUME ~overlapped, NEW e \in Daemons \ {d}
      PROVE  Careful(e)'
  <2>1. CASE at[e] = "off"
    BY <2>1 DEF Same, Careful, Starting
  <2>2. CASE at[e] # "off"
    <3>1. \A c \in Daemons : at'[c] # "off" => at[c] # "off"
      BY DEF Same
    <3>. QED BY <1>3, <2>2, <3>1, CarefulKept
  <2>. QED BY <2>1, <2>2
<1>4. PidFileAssumption'
  BY DEF LockInv, PidFileAssumption
<1>. QED BY <1>1, <1>2, <1>3, <1>4 DEF LockInv

-----------------------------------------------------------------------------
(* The starts and the attempts of one process.                             *)
LEMMA LockInit ==
  ASSUME PidFileAssumption, PidInit
  PROVE  LockInv
<1>. USE DEF PidInit
<1>1. \A p \in Plugins : file[p] # NoPid => file[p].by = Ghost
  OBVIOUS
<1>2. Kinds
  <2>1. file \in [Plugins -> Texts \union {NoPid}]
    <3>1. \A t \in StalePids : [by |-> Ghost, pid |-> t] \in Texts
      BY DEF PidFileAssumption, Texts, Pids
    <3>. QED BY <3>1
  <2>2. shows \in [Daemons -> Seq(Plugins)] /\ held \in [Daemons -> Seq(Plugins)]
    OBVIOUS
  <2>3. tries \in [Daemons -> 0 .. MaxTries] /\ starts \in 0 .. MaxStarts /\ ends \in 0 .. MaxEnds
    BY Distinct
  <2>4. others \subseteq Pids /\ misled \in BOOLEAN
    OBVIOUS
  <2>. QED BY <2>1, <2>2, <2>3, <2>4 DEF Kinds
<1>3. \A d \in Daemons : Placed(d)
  BY DEF Placed, Starting
<1>4. \A d \in Daemons : Careful(d)
  BY DEF Careful, Starting
<1>5. OneStarts
  BY DEF OneStarts, Starting
<1>. QED BY <1>1, <1>2, <1>3, <1>4, <1>5 DEF LockInv, Written

LEMMA LockStart ==
  ASSUME LockInv, NEW d \in Daemons, RunDaemon(d)
  PROVE  LockInv'
<1>. USE DEF RunDaemon, Go
<1>1. PICK s \in Lists : shows' = [shows EXCEPT ![d] = s]
  OBVIOUS
<1>2. s \in Seq(Plugins) /\ s # <<>> /\ \A i, j \in DOMAIN s : s[i] = s[j] => i = j
  BY ListsHold DEF LockInv
<1>3. \A e \in Daemons \ {d} : Same(e)
  BY <1>1 DEF LockInv, Kinds, Same
<1>4. at[d] = "off" /\ at'[d] = "create" /\ held'[d] = <<>> /\ shows'[d] = s /\ tries'[d] = 0
  BY <1>1 DEF LockInv, Kinds
<1>5. Kinds'
  <2>1. shows' \in [Daemons -> Seq(Plugins)] /\ held' \in [Daemons -> Seq(Plugins)]
    BY <1>1, <1>2 DEF LockInv, Kinds
  <2>2. tries' \in [Daemons -> 0 .. MaxTries] /\ starts' \in 0 .. MaxStarts
    BY Distinct DEF LockInv, Kinds
  <2>3. overlapped' \in BOOLEAN
    BY DEF LockInv, Kinds
  <2>. QED BY <2>1, <2>2, <2>3 DEF LockInv, Kinds
<1>6. Placed(d)'
  <2>1. Len(s) > 0 /\ 0 < MaxTries
    BY <1>2, Distinct DEF LockInv
  <2>. QED BY <1>2, <1>4, <2>1 DEF Placed
<1>7. ASSUME NEW p \in Plugins
      PROVE  Written(p)'
  <2>1. ~(file[p] # NoPid /\ file[p].by = d)
    BY <1>4, Distinct DEF LockInv, Written
  <2>. QED BY <2>1, <1>3, WrittenKept
<1>8. \A e \in Daemons : Placed(e)'
  BY <1>3, <1>6 DEF LockInv, Same, Placed
<1>9. ASSUME ~overlapped'
      PROVE  OneStarts' /\ \A e \in Daemons : Careful(e)'
  <2>1. ~overlapped /\ \A e \in Daemons : at[e] \notin Starting
    BY <1>9 DEF LockInv, Kinds
  <2>2. OneStarts'
    BY <1>3, <2>1 DEF OneStarts, Same
  <2>3. Careful(d)'
    BY <1>4 DEF Careful, Holds
  <2>4. ASSUME NEW e \in Daemons \ {d} PROVE Careful(e)'
    <3>1. \A p \in Plugins : Spares(e, p)
      BY DEF Spares
    <3>. QED BY <2>1, <3>1, <1>3, CarefulKept
  <2>. QED BY <2>2, <2>3, <2>4
<1>10. PidFileAssumption'
  BY DEF LockInv, PidFileAssumption
<1>. QED BY <1>5, <1>7, <1>8, <1>9, <1>10 DEF LockInv

LEMMA LockCreate ==
  ASSUME LockInv, NEW d \in Daemons, Create(d)
  PROVE  LockInv'
<1>. USE DEF Create, Go
<1>1. PICK w \in Plugins : w = NextPlugin(d) /\ ~Holds(d, w)
  BY WantedIs DEF Starting
<1>2. \A e \in Daemons \ {d} : Same(e)
  BY DEF LockInv, Kinds, Same
<1>3. /\ at[d] = "create" /\ held'[d] = held[d] /\ shows'[d] = shows[d] /\ tries'[d] = tries[d]
      /\ NextPlugin(d)' = w
  BY <1>1 DEF NextPlugin
<1>4. Placed(d)'
  BY <1>3 DEF LockInv, Kinds, Placed, Starting
<1>5. PICK new \in Texts : /\ new = [by |-> d, pid |-> NoPid] /\ new # NoPid
                               /\ new.by = d /\ new.pid = NoPid
  <2>1. [by |-> d, pid |-> NoPid] \in Texts /\ [by |-> d, pid |-> NoPid] # NoPid
    BY Distinct DEF LockInv
  <2>. QED BY <2>1
<1>6. CASE file[w] = NoPid
  <2>0. /\ at' = [at EXCEPT ![d] = "fill"] /\ file' = [file EXCEPT ![w] = new]
        /\ shows' = shows /\ held' = held /\ tries' = tries /\ seen' = seen
        /\ starts' = starts /\ ends' = ends /\ overlapped' = overlapped
        /\ others' = others /\ misled' = misled
    BY <1>1, <1>5, <1>6
  <2>1. /\ at'[d] = "fill" /\ file'[w] = new /\ \A p \in Plugins \ {w} : file'[p] = file[p]
    BY <2>0 DEF LockInv, Kinds
  <2>2. Kinds'
    <3>. HIDE DEF Create, Go
    <3>1. LockInv => Kinds
      BY DEF LockInv
    <3>2. file' \in [Plugins -> Texts \union {NoPid}]
      BY <2>0, <3>1 DEF Kinds
    <3>3. at' \in [Daemons -> {"create", "fill", "read", "judge", "unlink", "off", "run",
                              "release", "remove"}]
      BY <2>0, <3>1 DEF Kinds
    <3>. QED BY <2>0, <3>1, <3>2, <3>3, Zenon DEF Kinds
  <2>3. ASSUME NEW p \in Plugins
        PROVE  Written(p)'
    <3>1. CASE p = w
      BY <1>3, <1>5, <2>1, <3>1 DEF Written
    <3>2. CASE p # w
      <4>1. file[p] # NoPid /\ file[p].by = d => file[p].pid = d /\ Holds(d, p)
        BY <1>3, Distinct DEF LockInv, Written
      <4>2. Holds(d, p)' = Holds(d, p)
        BY <1>3 DEF Holds
      <4>. QED BY <1>2, <2>1, <3>2, <4>1, <4>2, WrittenKept
    <3>. QED BY <3>1, <3>2
  <2>4. ASSUME ~overlapped
        PROVE  Careful(d)'
    <3>1. \A p \in Plugins : Holds(d, p)' => Holds(d, p) /\ p # w
      BY <1>1, <1>3 DEF Holds
    <3>2. \A p \in Plugins : Holds(d, p) => file[p] = [by |-> d, pid |-> d]
      BY <1>3, <2>4 DEF LockInv, Careful, Starting
    <3>. QED BY <1>3, <1>5, <2>1, <3>1, <3>2 DEF Careful
  <2>5. ASSUME NEW e \in Daemons \ {d}, NEW p \in Plugins
        PROVE  Spares(e, p)
    <3>1. CASE p = w
      <4>1. Pid(p) = NoPid /\ Pid(p)' = NoPid
        BY <1>5, <1>6, <2>1, <3>1 DEF Pid
      <4>2. [by |-> e, pid |-> NoPid] # NoPid /\ NoPid # e
        BY Distinct DEF LockInv
      <4>. QED BY <1>6, <3>1, <4>1, <4>2 DEF Spares
    <3>2. CASE p # w
      BY <2>1, <3>2 DEF Spares
    <3>. QED BY <3>1, <3>2
  <2>. QED BY <1>2, <1>3, <1>4, <2>2, <2>3, <2>4, <2>5, OthersKept DEF Starting
<1>7. CASE file[w] # NoPid
  <2>1. at'[d] = "read" /\ file' = file
    BY <1>1, <1>7 DEF LockInv, Kinds
  <2>2. Kinds'
    BY <2>1 DEF LockInv, Kinds
  <2>3. ASSUME NEW p \in Plugins
        PROVE  Written(p)'
    <3>1. file[p] # NoPid /\ file[p].by = d => file[p].pid = d /\ Holds(d, p)
      BY <1>3, Distinct DEF LockInv, Written
    <3>2. Holds(d, p)' = Holds(d, p)
      BY <1>3 DEF Holds
    <3>. QED BY <1>2, <2>1, <3>1, <3>2, WrittenKept
  <2>4. ASSUME ~overlapped
        PROVE  Careful(d)'
    <3>1. \A p \in Plugins : Holds(d, p)' = Holds(d, p)
      BY <1>3 DEF Holds
    <3>2. \A p \in Plugins : Holds(d, p) => file[p] = [by |-> d, pid |-> d]
      BY <1>3, <2>4 DEF LockInv, Careful, Starting
    <3>. QED BY <2>1, <3>1, <3>2 DEF Careful
  <2>. QED BY <1>2, <1>3, <1>4, <2>1, <2>2, <2>3, <2>4, OthersKept DEF Starting, Spares
<1>. QED BY <1>6, <1>7

(* The file gets its text, and is held.                                    *)
LEMMA PlacedNext ==
  ASSUME NEW d, NEW g \in Seq(Plugins), NEW s \in Seq(Plugins), held'[d] = g, shows'[d] = s,
         shows'[d] \in Lists \union {<<>>},
         \A i, j \in DOMAIN s : s[i] = s[j] => i = j,
         \A i \in DOMAIN g : \E j \in DOMAIN s : g[i] = s[j],
         Len(g) <= Len(s), \A i \in DOMAIN g : g[i] = s[i],
         tries'[d] < MaxTries, at'[d] \in Starting => Len(g) < Len(s), at'[d] # "remove"
  PROVE  Placed(d)'
  BY DEF Placed

LEMMA LockFill ==
  ASSUME LockInv, NEW d \in Daemons, Fill(d)
  PROVE  LockInv'
<1>. USE DEF Fill, Go
<1>1. PICK w \in Plugins : w = NextPlugin(d) /\ ~Holds(d, w)
  BY WantedIs DEF Starting
<1>2. PICK h \in Seq(Plugins) : h = held[d]
  BY DEF LockInv, Kinds
<1>3. PICK s \in Seq(Plugins) : s = shows[d]
  BY DEF LockInv, Kinds
<1>4. \A e \in Daemons \ {d} : Same(e)
  BY <1>1 DEF LockInv, Kinds, Same
<1>5. PICK g \in Seq(Plugins) : /\ g = Append(h, w) /\ Len(g) = Len(h) + 1 /\ g[Len(h) + 1] = w
                                /\ \A i \in DOMAIN h : g[i] = h[i]
                                /\ \A i \in DOMAIN g : i \in DOMAIN h \/ i = Len(h) + 1
  <2>1. /\ Append(h, w) \in Seq(Plugins) /\ Len(Append(h, w)) = Len(h) + 1
        /\ Append(h, w)[Len(h) + 1] = w /\ \A i \in 1 .. Len(h) : Append(h, w)[i] = h[i]
    BY AppendProperties
  <2>2. DOMAIN h = 1 .. Len(h) /\ DOMAIN Append(h, w) = 1 .. Len(h) + 1 /\ Len(h) \in Nat
    BY <2>1
  <2>3. /\ \A i \in DOMAIN h : Append(h, w)[i] = h[i]
        /\ \A i \in DOMAIN Append(h, w) : i \in DOMAIN h \/ i = Len(h) + 1
    BY <2>1, <2>2
  <2>. QED BY <2>1, <2>3
<1>6. held'[d] = g /\ shows'[d] = s /\ tries'[d] = 0 /\ at[d] = "fill"
  BY <1>1, <1>2, <1>3, <1>5 DEF LockInv, Kinds
<1>7. Len(h) < Len(s) /\ (\A i \in DOMAIN h : h[i] = s[i]) /\ w = s[Len(h) + 1]
  BY <1>1, <1>2, <1>3, <1>6 DEF LockInv, Placed, Starting, NextPlugin
<1>8. Len(g) <= Len(s) /\ \A i \in DOMAIN g : g[i] = s[i]
  BY <1>5, <1>7
<1>9. at'[d] = IF g = s THEN "run" ELSE "create"
  BY <1>6, <1>3 DEF LockInv, Kinds
<1>10. g # s => Len(g) < Len(s)
  BY <1>8
<1>11. Placed(d)'
  <2>1. \A i \in DOMAIN g : i \in DOMAIN s
    BY <1>8
  <2>2. 0 < MaxTries
    BY Distinct DEF LockInv
  <2>3. /\ shows[d] \in Lists \union {<<>>}
        /\ \A i, j \in DOMAIN s : s[i] = s[j] => i = j
    BY <1>3 DEF LockInv, Placed
  <2>4. tries'[d] < MaxTries /\ (at'[d] \in Starting => Len(g) < Len(s)) /\ at'[d] # "remove"
    BY <1>6, <1>9, <1>10, <2>2 DEF Starting
  <2>5. \A i \in DOMAIN g : \E j \in DOMAIN s : g[i] = s[j]
    BY <1>8, <2>1
  <2>6. shows'[d] \in Lists \union {<<>>}
    BY <1>3, <1>6, <2>3
  <2>. QED BY <1>6, <1>8, <2>3, <2>4, <2>5, <2>6, PlacedNext, ZenonT(30)
<1>12. \A p \in Plugins : Holds(d, p)' <=> (Holds(d, p) \/ p = w)
  <2>1. \A p \in Plugins : Holds(d, p)' <=> \E i \in DOMAIN g : g[i] = p
    BY <1>6 DEF Holds
  <2>2. \A p \in Plugins : Holds(d, p) <=> \E i \in DOMAIN h : h[i] = p
    BY <1>2 DEF Holds
  <2>3. Len(h) + 1 \in DOMAIN g /\ \A i \in DOMAIN h : i \in DOMAIN g
    BY <1>5
  <2>. QED BY <1>5, <2>1, <2>2, <2>3
<1>13. PICK own \in Texts : own = [by |-> d, pid |-> d] /\ own.by = d /\ own.pid = d
  <2>1. [by |-> d, pid |-> d] \in Texts
    BY Distinct DEF LockInv
  <2>. QED BY <2>1
<1>14. /\ \A p \in Plugins \ {w} : file'[p] = file[p]
       /\ file[w] # NoPid /\ file[w].by = d => file'[w] = own
       /\ ~(file[w] # NoPid /\ file[w].by = d) => file'[w] = file[w]
  <2>1. file[w] # NoPid /\ file[w].by = d => [file[w] EXCEPT !.pid = d] = own
    BY <1>13, FileIs
  <2>. QED BY <1>1, <2>1 DEF LockInv, Kinds
<1>15. Kinds'
  <2>1. file' \in [Plugins -> Texts \union {NoPid}]
    <3>1. \A p \in Plugins : file'[p] \in Texts \union {NoPid}
      BY <1>14 DEF LockInv, Kinds
    <3>2. file' = file \/ file' = [file EXCEPT ![w].pid = d]
      BY <1>1
    <3>3. file' = [p \in Plugins |-> file'[p]]
      BY <3>2 DEF LockInv, Kinds
    <3>. QED BY <3>1, <3>3
  <2>2. held' \in [Daemons -> Seq(Plugins)]
    BY <1>1, <1>2, <1>5 DEF LockInv, Kinds
  <2>3. tries' \in [Daemons -> 0 .. MaxTries]
    BY Distinct DEF LockInv, Kinds
  <2>. QED BY <2>1, <2>2, <2>3 DEF LockInv, Kinds
<1>16. ASSUME NEW p \in Plugins
       PROVE  Written(p)'
  <2>1. CASE p = w /\ file[p] # NoPid /\ file[p].by = d
    <3>1. file'[p] = own /\ Holds(d, p)' /\ at'[d] # "off"
      BY <2>1, <1>9, <1>12, <1>14
    <3>. QED BY <3>1, <1>13 DEF Written
  <2>2. CASE ~(p = w /\ file[p] # NoPid /\ file[p].by = d)
    <3>1. file'[p] = file[p]
      BY <2>2, <1>14
    <3>2. file[p] # NoPid /\ file[p].by = d => file[p].pid = d /\ Holds(d, p)
      BY <1>1, <2>2, Distinct DEF LockInv, Written
    <3>3. at'[d] # "off" /\ (Holds(d, p) => Holds(d, p)')
      BY <1>9, <1>12
    <3>. QED BY <1>4, <3>1, <3>2, <3>3, WrittenKept
  <2>. QED BY <2>1, <2>2
<1>17. ASSUME ~overlapped
       PROVE  Careful(d)' /\ file[w] = [by |-> d, pid |-> NoPid]
  <2>1. /\ \A p \in Plugins : Holds(d, p) => file[p] = [by |-> d, pid |-> d]
        /\ file[w] = [by |-> d, pid |-> NoPid]
    BY <1>1, <1>6, <1>17 DEF LockInv, Careful, Starting
  <2>2. file'[w] = own
    BY <2>1, <1>14, Distinct DEF LockInv
  <2>3. \A p \in Plugins : Holds(d, p)' => file'[p] = own
    BY <1>1, <1>12, <1>13, <1>14, <2>1, <2>2
  <2>. QED BY <1>9, <1>13, <2>1, <2>3 DEF Careful
<1>18. ASSUME ~overlapped, NEW e \in Daemons \ {d}, NEW p \in Plugins
       PROVE  Spares(e, p)
  <2>1. CASE p = w
    <3>1. file[p] = [by |-> d, pid |-> NoPid]
      BY <1>17, <1>18, <2>1
    <3>2. Pid(p) = NoPid
      <4>1. file[p] # NoPid /\ file[p].pid = NoPid
        BY <3>1, Distinct DEF LockInv
      <4>. QED BY <4>1 DEF Pid
    <3>3. NoPid # e /\ [by |-> d, pid |-> NoPid] # [by |-> e, pid |-> NoPid]
      BY Distinct DEF LockInv
    <3>4. at[e] \notin Starting
      BY <1>6, <1>18 DEF LockInv, OneStarts, Starting
    <3>. QED BY <3>1, <3>2, <3>3, <3>4 DEF Spares
  <2>2. CASE p # w
    BY <1>14, <2>2 DEF Spares
  <2>. QED BY <2>1, <2>2
<1>. QED BY <1>4, <1>6, <1>11, <1>15, <1>16, <1>17, <1>18, OthersKept DEF Starting

(* Steps of d that change no file and not what it holds.                   *)
LEMMA FilesAlone ==
  ASSUME LockInv, NEW d \in Daemons, \A e \in Daemons \ {d} : Same(e), Kinds', Placed(d)',
         file' = file, held' = held, shows' = shows, overlapped' = overlapped,
         at[d] \notin {"off", "fill"}, at'[d] # "off",
         at[d] \notin Starting => at'[d] \notin Starting, ~overlapped => Careful(d)'
  PROVE  LockInv'
<1>1. ASSUME NEW p \in Plugins
      PROVE  Written(p)'
  <2>1. file[p] # NoPid /\ file[p].by = d => file[p].pid = d /\ Holds(d, p)
    BY Distinct DEF LockInv, Written
  <2>2. Holds(d, p)' = Holds(d, p)
    BY DEF Holds
  <2>. QED BY <2>1, <2>2, WrittenKept
<1>. QED BY <1>1, OthersKept DEF Spares

LEMMA LockReadPid ==
  ASSUME LockInv, NEW d \in Daemons, ReadPid(d)
  PROVE  LockInv'
<1>. USE DEF ReadPid, Go
<1>1. PICK w \in Plugins : w = NextPlugin(d) /\ w = NextPlugin(d)'
  BY WantedIs DEF Starting, NextPlugin
<1>2. PICK pid \in Pids \union {NoPid} : pid = Pid(w)
  BY FileIs DEF Pids
<1>3. \A e \in Daemons \ {d} : Same(e)
  BY DEF LockInv, Kinds, Same
<1>4. at[d] = "read" /\ at'[d] = "judge" /\ seen'[d] = pid
  BY <1>1, <1>2 DEF LockInv, Kinds
<1>5. Kinds'
  BY <1>1, <1>2 DEF LockInv, Kinds
<1>6. Placed(d)'
  BY <1>4 DEF LockInv, Placed, Starting
<1>7. ASSUME ~overlapped
      PROVE  Careful(d)'
  <2>1. \A p \in Plugins : Holds(d, p)' => file'[p] = [by |-> d, pid |-> d]
    <3>1. \A p \in Plugins : Holds(d, p) => file[p] = [by |-> d, pid |-> d]
      BY <1>4, <1>7 DEF LockInv, Careful, Starting
    <3>. QED BY <3>1 DEF Holds
  <2>2. Pid(NextPlugin(d))' = pid
    BY <1>1, <1>2 DEF Pid
  <2>. QED BY <1>4, <2>1, <2>2 DEF Careful
<1>. QED BY <1>3, <1>4, <1>5, <1>6, <1>7, FilesAlone DEF Starting

LEMMA LockJudge ==
  ASSUME LockInv, NEW d \in Daemons, Judge(d)
  PROVE  LockInv'
<1>. USE DEF Judge, Go
<1>1. PICK w \in Plugins : w = NextPlugin(d) /\ w = NextPlugin(d)'
  BY WantedIs DEF Starting, NextPlugin
<1>2. \A e \in Daemons \ {d} : Same(e)
  BY DEF LockInv, Kinds, Same
<1>3. /\ at[d] = "judge" /\ at'[d] \in {"release", "unlink"}
      /\ at'[d] = "unlink" => ~RunsAlready(d, seen[d])
  BY DEF LockInv, Kinds
<1>4. Kinds'
  BY DEF LockInv, Kinds
<1>5. Placed(d)'
  BY <1>3 DEF LockInv, Placed, Starting
<1>6. ASSUME ~overlapped
      PROVE  Careful(d)'
  <2>1. /\ \A p \in Plugins : Holds(d, p) => file[p] = [by |-> d, pid |-> d]
        /\ Pid(w) \in {NoPid, seen[d]}
    BY <1>1, <1>3, <1>6 DEF LockInv, Careful, Starting
  <2>2. ~RunsAlready(d, seen[d]) => Pid(w) \in {NoPid, d} \/ ~Runs(Pid(w))
    BY <2>1 DEF RunsAlready, Alive
  <2>3. Runs(Pid(w))' => Runs(Pid(w))
    BY <1>3 DEF Runs, Pid, LockInv, Kinds
  <2>4. Pid(NextPlugin(d))' = Pid(w)
    BY <1>1 DEF Pid
  <2>5. Runs(Pid(NextPlugin(d)))' = Runs(Pid(w))'
    BY <1>1 DEF Pid, Runs
  <2>6. \A p \in Plugins : Holds(d, p)' => file'[p] = [by |-> d, pid |-> d]
    BY <2>1 DEF Holds
  <2>. QED BY <1>3, <2>2, <2>3, <2>4, <2>5, <2>6 DEF Careful
<1>. QED BY <1>2, <1>3, <1>4, <1>5, <1>6, FilesAlone DEF Starting

(* A stale file is removed: it is nobody's who lives.                      *)
LEMMA LockUnlink ==
  ASSUME LockInv, NEW d \in Daemons, Unlink(d)
  PROVE  LockInv'
<1>. USE DEF Unlink, Go
<1>1. PICK w \in Plugins : w = NextPlugin(d) /\ ~Holds(d, w)
  BY WantedIs DEF Starting
<1>2. \A e \in Daemons \ {d} : Same(e)
  BY DEF LockInv, Kinds, Same
<1>3. /\ at[d] = "unlink" /\ file'[w] = NoPid /\ \A p \in Plugins \ {w} : file'[p] = file[p]
      /\ held' = held /\ shows' = shows
  BY <1>1 DEF LockInv, Kinds
<1>4. PICK t \in 0 .. MaxTries : t = tries[d] /\ t < MaxTries
  BY <1>3 DEF LockInv, Kinds, Placed, Starting
<1>5. tries'[d] = t + 1 /\ at'[d] = IF t + 1 = MaxTries THEN "release" ELSE "create"
  BY <1>4 DEF LockInv, Kinds
<1>6. t + 1 \in 0 .. MaxTries /\ (t + 1 # MaxTries => t + 1 < MaxTries)
  BY <1>4, Distinct DEF LockInv
<1>7. Kinds'
  <2>1. tries' \in [Daemons -> 0 .. MaxTries]
    BY <1>4, <1>6 DEF LockInv, Kinds
  <2>2. file' \in [Plugins -> Texts \union {NoPid}]
    BY <1>1 DEF LockInv, Kinds
  <2>3. at' \in [Daemons -> {"create", "fill", "read", "judge", "unlink", "off", "run", "release",
                             "remove"}]
    BY DEF LockInv, Kinds
  <2>. QED BY <2>1, <2>2, <2>3 DEF LockInv, Kinds
<1>8. Placed(d)'
  BY <1>3, <1>5, <1>6 DEF LockInv, Placed, Starting
<1>9. ASSUME NEW p \in Plugins
      PROVE  Written(p)'
  <2>1. CASE p = w
    BY <1>3, <2>1 DEF Written
  <2>2. CASE p # w
    <3>1. file[p] # NoPid /\ file[p].by = d => file[p].pid = d /\ Holds(d, p)
      BY <1>3, Distinct DEF LockInv, Written
    <3>2. Holds(d, p)' = Holds(d, p) /\ at'[d] # "off"
      BY <1>3, <1>5 DEF Holds
    <3>. QED BY <1>2, <1>3, <2>2, <3>1, <3>2, WrittenKept
  <2>. QED BY <2>1, <2>2
<1>10. ASSUME ~overlapped
       PROVE  Careful(d)'
  <2>1. \A p \in Plugins : Holds(d, p)' => Holds(d, p) /\ p # w
    BY <1>1, <1>3 DEF Holds
  <2>2. \A p \in Plugins : Holds(d, p) => file[p] = [by |-> d, pid |-> d]
    BY <1>3, <1>10 DEF LockInv, Careful, Starting
  <2>. QED BY <1>3, <1>5, <2>1, <2>2 DEF Careful
<1>11. ASSUME ~overlapped, NEW e \in Daemons \ {d}, at[e] # "off", NEW p \in Plugins
       PROVE  Spares(e, p)
  <2>1. CASE p = w
    <3>1. Pid(w) \in {NoPid, d} \/ ~Runs(Pid(w))
      BY <1>1, <1>3, <1>11 DEF LockInv, Careful
    <3>2. Pid(w) # e
      BY <1>11, <3>1, Distinct DEF LockInv, Runs
    <3>3. file[w] # [by |-> e, pid |-> NoPid]
      <4>. SUFFICES ASSUME file[w] = [by |-> e, pid |-> NoPid] PROVE FALSE
        OBVIOUS
      <4>1. file[w] # NoPid /\ file[w].by = e /\ file[w].pid = NoPid /\ e # Ghost /\ e # NoPid
        BY Distinct DEF LockInv
      <4>2. at[e] = "fill"
        BY <4>1 DEF LockInv, Written
      <4>. QED BY <1>3, <1>11, <4>2 DEF LockInv, OneStarts, Starting
    <3>4. Pid(w)' = NoPid
      BY <1>3 DEF Pid
    <3>. QED BY <2>1, <3>2, <3>3, <3>4 DEF Spares
  <2>2. CASE p # w
    BY <1>3, <2>2 DEF Spares
  <2>. QED BY <2>1, <2>2
<1>. QED BY <1>2, <1>3, <1>7, <1>8, <1>9, <1>10, <1>11, OthersKept DEF Starting

-----------------------------------------------------------------------------
(* The end of a process.                                                   *)
LEMMA LockSignal ==
  ASSUME LockInv, NEW d \in Daemons, Signal(d)
  PROVE  LockInv'
<1>. USE DEF Signal, Go
<1>1. \A e \in Daemons \ {d} : Same(e)
  BY DEF LockInv, Kinds, Same
<1>2. at[d] = "run" /\ at'[d] = "release"
  BY DEF LockInv, Kinds
<1>3. Kinds'
  BY Distinct DEF LockInv, Kinds
<1>4. Placed(d)'
  BY <1>2 DEF LockInv, Placed, Starting
<1>5. Careful(d)'
  BY <1>2 DEF Careful, Starting
<1>. QED BY <1>1, <1>2, <1>3, <1>4, <1>5, FilesAlone DEF Starting

LEMMA TailHolds ==
  ASSUME NEW s \in Seq(Plugins), s # <<>>
  PROVE  /\ Tail(s) \in Seq(Plugins) /\ Head(s) \in Plugins
         /\ \A i \in DOMAIN Tail(s) : i + 1 \in DOMAIN s /\ Tail(s)[i] = s[i + 1]
         /\ \A i \in DOMAIN s : s[i] = Head(s) \/ \E j \in DOMAIN Tail(s) : Tail(s)[j] = s[i]
<1>1. Tail(s) \in Seq(Plugins) /\ Head(s) = s[1] /\ Len(Tail(s)) = Len(s) - 1 /\ Len(s) # 0
      /\ \A i \in 1 .. Len(Tail(s)) : Tail(s)[i] = s[i + 1]
  BY HeadTailProperties, EmptySeq
<1>2. DOMAIN s = 1 .. Len(s) /\ DOMAIN Tail(s) = 1 .. Len(Tail(s)) /\ Len(s) \in Nat
  BY <1>1
<1>3. ASSUME NEW i \in DOMAIN s, i # 1
      PROVE  \E j \in DOMAIN Tail(s) : Tail(s)[j] = s[i]
  <2>1. i - 1 \in DOMAIN Tail(s) /\ (i - 1) + 1 = i
    BY <1>1, <1>2, <1>3
  <2>. QED BY <1>1, <1>2, <2>1
<1>. QED BY <1>1, <1>2, <1>3

(* What d drops first in its list: the rest it holds as before.            *)
LEMMA DropsFirst ==
  ASSUME LockInv, NEW d \in Daemons, at[d] \in {"release", "remove"}, at'[d] = "release",
         held[d] # <<>>, held' = [held EXCEPT ![d] = Tail(@)], shows' = shows
  PROVE  /\ Placed(d)' /\ held' \in [Daemons -> Seq(Plugins)] /\ Head(held[d]) \in Plugins
         /\ \A p \in Plugins \ {Head(held[d])} : Holds(d, p) => Holds(d, p)'
<1>1. PICK h \in Seq(Plugins) : h = held[d] /\ h # <<>>
  BY DEF LockInv, Kinds
<1>2. PICK t \in Seq(Plugins) : /\ t = Tail(h) /\ Head(h) \in Plugins
                                /\ \A i \in DOMAIN t : i + 1 \in DOMAIN h /\ t[i] = h[i + 1]
                                /\ \A i \in DOMAIN h : h[i] = Head(h) \/ \E j \in DOMAIN t : t[j] = h[i]
  <2>1. /\ Tail(h) \in Seq(Plugins) /\ Head(h) \in Plugins
        /\ \A i \in DOMAIN Tail(h) : i + 1 \in DOMAIN h /\ Tail(h)[i] = h[i + 1]
        /\ \A i \in DOMAIN h : h[i] = Head(h) \/ \E j \in DOMAIN Tail(h) : Tail(h)[j] = h[i]
    BY <1>1, TailHolds
  <2>. QED BY <2>1
<1>3. held'[d] = t /\ held' \in [Daemons -> Seq(Plugins)]
  BY <1>1, <1>2 DEF LockInv, Kinds
<1>4. /\ shows[d] \in Lists \union {<<>>}
      /\ \A i, j \in DOMAIN shows[d] : shows[d][i] = shows[d][j] => i = j
      /\ \A i \in DOMAIN h : \E j \in DOMAIN shows[d] : h[i] = shows[d][j]
  BY <1>1 DEF LockInv, Placed
<1>5. \A i \in DOMAIN t : \E j \in DOMAIN shows[d] : t[i] = shows[d][j]
  BY <1>2, <1>4
<1>6. Placed(d)'
  BY <1>3, <1>4, <1>5 DEF Placed, Starting
<1>7. ASSUME NEW p \in Plugins \ {Head(h)}, Holds(d, p)
      PROVE  Holds(d, p)'
  <2>1. PICK i \in DOMAIN h : h[i] = p
    BY <1>1, <1>7 DEF Holds
  <2>2. PICK j \in DOMAIN t : t[j] = p
    BY <1>2, <1>7, <2>1
  <2>. QED BY <1>3, <2>2 DEF Holds
<1>. QED BY <1>1, <1>2, <1>3, <1>6, <1>7

LEMMA LockRelease ==
  ASSUME LockInv, NEW d \in Daemons, Release(d)
  PROVE  LockInv'
<1>. USE DEF Release, Go
<1>1. \A e \in Daemons \ {d} : Same(e)
  BY DEF LockInv, Kinds, Same
<1>2. at[d] = "release" /\ file' = file /\ shows' = shows /\ overlapped' = overlapped
  OBVIOUS
<1>3. \A p \in Plugins : file[p] # NoPid /\ file[p].by = d => file[p].pid = d /\ Holds(d, p)
  BY <1>2, Distinct DEF LockInv, Written
<1>4. CASE held[d] = <<>>
  <2>1. held' = held /\ at'[d] = "off" /\ Kinds'
    BY <1>4 DEF LockInv, Kinds
  <2>2. \A p \in Plugins : ~Holds(d, p)
    BY <1>4 DEF Holds
  <2>3. \A p \in Plugins : Written(p)'
    BY <1>1, <1>2, <1>3, <2>2, WrittenKept
  <2>4. Placed(d)' /\ Careful(d)'
    BY <1>2, <2>1 DEF LockInv, Placed, Careful, Starting
  <2>. QED BY <1>1, <1>2, <2>1, <2>3, <2>4, OthersKept DEF Starting, Spares
<1>5. CASE held[d] # <<>> /\ Pid(Head(held[d])) = d
  <2>1. held' = held /\ at'[d] = "remove" /\ Kinds'
    BY <1>5 DEF LockInv, Kinds
  <2>2. Placed(d)'
    BY <1>2, <1>5, <2>1 DEF LockInv, Placed, Starting
  <2>3. Pid(Head(held[d]))' = Pid(Head(held[d]))
    BY <1>2, <2>1 DEF Pid
  <2>4. Careful(d)'
    BY <1>5, <2>1, <2>3 DEF Careful, Starting
  <2>. QED BY <1>1, <1>2, <2>1, <2>2, <2>4, FilesAlone DEF Starting
<1>6. CASE held[d] # <<>> /\ Pid(Head(held[d])) # d
  <2>1. held' = [held EXCEPT ![d] = Tail(@)] /\ at' = at
    BY <1>6
  <2>2. /\ Placed(d)' /\ held' \in [Daemons -> Seq(Plugins)] /\ Head(held[d]) \in Plugins
        /\ \A p \in Plugins \ {Head(held[d])} : Holds(d, p) => Holds(d, p)'
    BY <1>2, <1>6, <2>1, DropsFirst
  <2>3. Kinds'
    BY <2>1, <2>2 DEF LockInv, Kinds
  <2>4. ASSUME NEW p \in Plugins
        PROVE  Written(p)'
    <3>1. file[p] # NoPid /\ file[p].by = d => p # Head(held[d])
      BY <1>3, <1>6, FileIs
    <3>. QED BY <1>1, <1>2, <1>3, <2>1, <2>2, <3>1, WrittenKept
  <2>5. Careful(d)'
    BY <1>2, <2>1 DEF Careful, Starting
  <2>. QED BY <1>1, <1>2, <2>1, <2>2, <2>3, <2>4, <2>5, OthersKept DEF Starting, Spares
<1>. QED BY <1>4, <1>5, <1>6

LEMMA LockRemoveFile ==
  ASSUME LockInv, NEW d \in Daemons, RemoveFile(d)
  PROVE  LockInv'
<1>. USE DEF RemoveFile, Go
<1>1. \A e \in Daemons \ {d} : Same(e)
  BY DEF LockInv, Kinds, Same
<1>2. /\ at[d] = "remove" /\ at'[d] = "release" /\ shows' = shows /\ overlapped' = overlapped
      /\ held' = [held EXCEPT ![d] = Tail(@)]
  BY DEF LockInv, Kinds
<1>3. held[d] # <<>>
  BY <1>2 DEF LockInv, Placed
<1>4. /\ Placed(d)' /\ held' \in [Daemons -> Seq(Plugins)] /\ Head(held[d]) \in Plugins
      /\ \A p \in Plugins \ {Head(held[d])} : Holds(d, p) => Holds(d, p)'
  BY <1>2, <1>3, DropsFirst
<1>5. PICK w \in Plugins : w = Head(held[d])
  BY <1>4
<1>6. file'[w] = NoPid /\ \A p \in Plugins \ {w} : file'[p] = file[p]
  BY <1>5 DEF LockInv, Kinds
<1>7. Kinds'
  BY <1>4, <1>5 DEF LockInv, Kinds
<1>8. ASSUME NEW p \in Plugins
      PROVE  Written(p)'
  <2>1. CASE p = w
    BY <1>6, <2>1 DEF Written
  <2>2. CASE p # w
    <3>1. file[p] # NoPid /\ file[p].by = d => file[p].pid = d /\ Holds(d, p)
      BY <1>2, Distinct DEF LockInv, Written
    <3>2. Holds(d, p) => Holds(d, p)'
      BY <1>4, <1>5, <2>2
    <3>. QED BY <1>1, <1>2, <1>6, <2>2, <3>1, <3>2, WrittenKept
  <2>. QED BY <2>1, <2>2
<1>9. Careful(d)'
  BY <1>2 DEF Careful, Starting
<1>10. ASSUME ~overlapped, NEW e \in Daemons \ {d}, NEW p \in Plugins
       PROVE  Spares(e, p)
  <2>1. CASE p = w
    <3>1. Pid(w) = d
      BY <1>2, <1>5, <1>10 DEF LockInv, Careful
    <3>2. file[w].pid = d /\ d # NoPid
      BY <3>1, FileIs, Distinct DEF LockInv
    <3>3. Pid(w)' = NoPid
      BY <1>6 DEF Pid
    <3>. QED BY <2>1, <3>1, <3>2, <3>3 DEF Spares
  <2>2. CASE p # w
    BY <1>6, <2>2 DEF Spares
  <2>. QED BY <2>1, <2>2
<1>. QED BY <1>1, <1>2, <1>4, <1>7, <1>8, <1>9, <1>10, OthersKept DEF Starting

LEMMA LockCrash ==
  ASSUME LockInv, NEW d \in Daemons, Crash(d)
  PROVE  LockInv'
<1>. USE DEF Crash, Go
<1>1. \A e \in Daemons \ {d} : Same(e)
  BY DEF LockInv, Kinds, Same
<1>2. /\ at[d] # "off" /\ at'[d] = "off" /\ held' = held /\ shows' = shows
      /\ overlapped' = overlapped
  BY DEF LockInv, Kinds
<1>3. ASSUME NEW p \in Plugins
      PROVE  /\ file[p] # NoPid /\ file[p].by = d =>
                  /\ file'[p] = [by |-> Ghost, pid |-> file[p].pid]
                  /\ file'[p] \in Texts /\ file'[p] # NoPid
                  /\ file'[p].by = Ghost /\ file'[p].pid = file[p].pid
             /\ ~(file[p] # NoPid /\ file[p].by = d) => file'[p] = file[p]
  <2>1. CASE file[p] # NoPid /\ file[p].by = d
    <3>1. file'[p] = [file[p] EXCEPT !.by = Ghost]
      BY <2>1 DEF LockInv, Kinds
    <3>2. file[p] = [by |-> d, pid |-> file[p].pid] /\ file[p].pid \in Daemons \union {Ghost, NoPid}
      BY <2>1, FileIs
    <3>3. file'[p] = [by |-> Ghost, pid |-> file[p].pid]
      BY <3>1, <3>2
    <3>4. [by |-> Ghost, pid |-> file[p].pid] \in Texts
      BY <3>2 DEF Texts, Pids
    <3>5. file'[p] # NoPid
      BY <3>3, <3>4 DEF LockInv, PidFileAssumption
    <3>. QED BY <2>1, <3>3, <3>4, <3>5
  <2>2. CASE ~(file[p] # NoPid /\ file[p].by = d)
    BY <2>2
  <2>. QED BY <2>1, <2>2
<1>4. Kinds'
  <2>1. \A p \in Plugins : file'[p] \in Texts \union {NoPid}
    BY <1>3 DEF LockInv, Kinds
  <2>2. file' = [p \in Plugins |-> file'[p]]
    OBVIOUS
  <2>3. file' \in [Plugins -> Texts \union {NoPid}]
    BY <2>1, <2>2
  <2>4. ends' \in 0 .. MaxEnds
    BY Distinct DEF LockInv, Kinds
  <2>5. at' \in [Daemons -> {"create", "fill", "read", "judge", "unlink", "off", "run", "release",
                             "remove"}]
    BY DEF LockInv, Kinds
  <2>. QED BY <1>2, <2>3, <2>4, <2>5 DEF LockInv, Kinds
<1>5. Placed(d)' /\ Careful(d)'
  BY <1>2 DEF LockInv, Placed, Careful, Starting
<1>6. ASSUME NEW p \in Plugins
      PROVE  Written(p)'
  <2>1. CASE file[p] # NoPid /\ file[p].by = d
    BY <1>3, <2>1 DEF Written
  <2>2. CASE ~(file[p] # NoPid /\ file[p].by = d)
    BY <1>1, <1>3, <2>2, WrittenKept
  <2>. QED BY <2>1, <2>2
<1>7. ASSUME NEW e \in Daemons \ {d}, NEW p \in Plugins
      PROVE  Spares(e, p)
  <2>1. CASE file[p] # NoPid /\ file[p].by = d
    <3>1. file[p].pid \in {NoPid, d} /\ d # Ghost /\ NoPid # e
      BY <2>1, Distinct DEF LockInv, Written
    <3>2. Pid(p) = file[p].pid /\ Pid(p)' = file[p].pid
      BY <1>3, <2>1 DEF Pid
    <3>. QED BY <2>1, <3>1, <3>2 DEF Spares
  <2>2. CASE ~(file[p] # NoPid /\ file[p].by = d)
    BY <1>3, <2>2 DEF Spares
  <2>. QED BY <2>1, <2>2
<1>. QED BY <1>1, <1>2, <1>4, <1>5, <1>6, <1>7, OthersKept DEF Starting

(* Other processes take no pid of a daemon, and touch no file.             *)
LEMMA LockOthers ==
  ASSUME LockInv, OtherProcesses
  PROVE  LockInv'
<1>1. /\ file' = file /\ at' = at /\ shows' = shows /\ held' = held /\ tries' = tries
      /\ seen' = seen /\ starts' = starts /\ ends' = ends /\ overlapped' = overlapped
      /\ misled' = misled
  BY DEF OtherProcesses
<1>2. others' \subseteq Pids
  BY DEF OtherProcesses, SymDiff, LockInv, Kinds
<1>3. Kinds' /\ OneStarts' = OneStarts
  BY <1>1, <1>2 DEF LockInv, Kinds, OneStarts
<1>. USE <1>1 DEF Holds, NextPlugin, Pid, Runs
<1>4. \A d \in Daemons : Placed(d)' = Placed(d)
  BY DEF Placed
<1>5. \A p \in Plugins : Written(p)' = Written(p)
  BY DEF Written
<1>6. \A d \in Daemons : Careful(d)' = Careful(d)
  BY DEF Careful
<1>7. PidFileAssumption'
  BY DEF LockInv, PidFileAssumption
<1>. QED BY <1>3, <1>4, <1>5, <1>6, <1>7 DEF LockInv

-----------------------------------------------------------------------------
LEMMA LockNext == LockInv /\ [PidNext]_pidVars => LockInv'
<1>. SUFFICES ASSUME LockInv, [PidNext]_pidVars PROVE LockInv'
  OBVIOUS
<1>1. CASE UNCHANGED pidVars
  <2>. USE <1>1 DEF pidVars, Holds, NextPlugin, Pid, Runs
  <2>1. Kinds' = Kinds /\ OneStarts' = OneStarts
    BY DEF Kinds, OneStarts
  <2>2. \A d \in Daemons : Placed(d)' = Placed(d)
    BY DEF Placed
  <2>3. \A p \in Plugins : Written(p)' = Written(p)
    BY DEF Written
  <2>4. \A d \in Daemons : Careful(d)' = Careful(d)
    BY DEF Careful
  <2>5. PidFileAssumption'
    BY DEF LockInv, PidFileAssumption
  <2>. QED BY <2>1, <2>2, <2>3, <2>4, <2>5 DEF LockInv
<1>2. CASE PidNext
  BY <1>2, LockStart, LockCreate, LockFill, LockReadPid, LockJudge, LockUnlink, LockSignal,
     LockRelease, LockRemoveFile, LockCrash, LockOthers DEF PidNext
<1>. QED BY <1>1, <1>2

(* Of the daemons that did not start at once, one runs for each plugin:    *)
(* and every file was written by a process that holds it, or that crashed  *)
(* (acquirePidFile, runDaemon).                                            *)
THEOREM OneAlwaysRuns == PidSpec => []OneRuns
<1>. QED BY PidFileAssumption, LockInit, LockNext, LockPromise, PTL DEF PidSpec

-----------------------------------------------------------------------------
(* SomeoneRuns.  A process that was refused gives up its files and ends.   *)
(* One gets a plugin when it has created the file of it, or will when it   *)
(* goes on.  A file of a process that is gone (Stale) does not come back.  *)
Refused == {"release", "remove", "off"}
Took(d, p) == Holds(d, p) \/ (at[d] = "fill" /\ NextPlugin(d) = p)
WillTake(d, p) == at[d] = "create" /\ NextPlugin(d) = p /\ file[p] = NoPid
Gets(d, p) == Took(d, p) \/ WillTake(d, p)
Stale(p) == file[p] # NoPid /\ file[p].by = Ghost
Names(p, d) == Stale(p) /\ file[p].pid = d

Fresh(d) ==
  /\ \A p \in Plugins : Took(d, p) => ~Stale(p)
  /\ at[d] \in Starting /\ tries[d] >= 1 => ~Stale(NextPlugin(d))

(* No e stands in the way of d: where d reads of e, it is in a file of a   *)
(* process that is gone, and one attempt is enough.                        *)
Unhindered(d, e) ==
  /\ at[d] = "judge" /\ seen[d] = e => Names(NextPlugin(d), e)
  /\ tries[d] >= 1 => at[d] = "fill" \/ WillTake(d, NextPlugin(d))

(* While both start, d makes way only for an e that gets the plugin, or    *)
(* for a file that names e.                                                *)
Yields(d, e) ==
  /\ at[d] = "judge" /\ seen[d] = e => Names(NextPlugin(d), e) \/ Gets(e, NextPlugin(d))
  /\ tries[d] >= 1 => at[d] = "fill" \/ WillTake(d, NextPlugin(d)) \/ Took(e, NextPlugin(d))

(* e was refused for the plugin q, which comes after all that e holds:     *)
(* the file of q names d, or d got q.                                      *)
Precedes(s, r, q) == \E i, j \in DOMAIN s : i < j /\ s[i] = r /\ s[j] = q
Beats(d, e, q) ==
  /\ \A r \in Plugins : Holds(e, r) => Precedes(shows[e], r, q)
  /\ Names(q, d) \/ (Gets(d, q) /\ Unhindered(d, e))

Duel(d, e) ==
  /\ at[d] \in Starting /\ at[e] \in Starting => Yields(d, e) /\ Yields(e, d)
  /\ at[d] \in Starting /\ at[e] \in Refused => \E q \in Plugins : Beats(d, e, q)
  /\ at[e] \in Starting /\ at[d] \in Refused => \E q \in Plugins : Beats(e, d, q)
  /\ at[d] \in Refused /\ at[e] \in Refused => \E q \in Plugins : Names(q, d) \/ Names(q, e)

Single(d) ==
  /\ at[d] \in Starting /\ Fresh(d)
  /\ \A e \in Daemons : at[d] = "judge" /\ seen[d] = e => Names(NextPlugin(d), e)
  /\ tries[d] >= 1 => at[d] = "fill" \/ WillTake(d, NextPlugin(d))
  /\ \A e \in Daemons \ {d} : at[e] = "off"
Pair(d, e) ==
  /\ d # e /\ at[d] \in Starting \union Refused /\ at[e] \in Starting \union Refused
  /\ Fresh(d) /\ Fresh(e) /\ Duel(d, e)
  /\ \A x \in Daemons \ {d, e} : at[x] = "off"

SomeInv ==
  ends = 0 /\ ~misled /\ (\A d \in Daemons : at[d] # "run") =>
    /\ starts = 0 => \A d \in Daemons : at[d] = "off"
    /\ starts = 1 => \E d \in Daemons : Single(d)
    /\ starts >= 2 => overlapped
    /\ starts = 2 /\ SameOrder => \E d, e \in Daemons : Pair(d, e)

LEMMA Frame ==
  ASSUME NEW e, Same(e)
  PROVE  /\ at'[e] = at[e] /\ tries'[e] = tries[e] /\ seen'[e] = seen[e] /\ shows'[e] = shows[e]
         /\ NextPlugin(e)' = NextPlugin(e)
         /\ \A r \in Plugins : Holds(e, r)' = Holds(e, r) /\ Took(e, r)' = Took(e, r)
<1>1. /\ at'[e] = at[e] /\ tries'[e] = tries[e] /\ seen'[e] = seen[e]
      /\ shows'[e] = shows[e] /\ held'[e] = held[e]
  BY DEF Same
<1>2. NextPlugin(e)' = NextPlugin(e)
  BY <1>1 DEF NextPlugin
<1>3. ASSUME NEW r \in Plugins
      PROVE  Holds(e, r)' = Holds(e, r)
  BY <1>1 DEF Holds
<1>. QED BY <1>1, <1>2, <1>3 DEF Took

LEMMA FreshKept ==
  ASSUME LockInv, NEW e \in Daemons, Same(e), Fresh(e),
         \A r \in Plugins : Stale(r)' => Stale(r)
  PROVE  Fresh(e)'
<1>1. /\ at'[e] = at[e] /\ tries'[e] = tries[e] /\ NextPlugin(e)' = NextPlugin(e)
      /\ \A r \in Plugins : Took(e, r)' = Took(e, r)
  BY Frame
<1>2. ASSUME at[e] \in Starting, tries[e] >= 1
      PROVE  ~Stale(NextPlugin(e))'
  <2>1. NextPlugin(e) \in Plugins /\ ~Stale(NextPlugin(e))
    BY <1>2, WantedIs DEF Fresh
  <2>2. PICK w \in Plugins : w = NextPlugin(e)
    BY <2>1
  <2>3. ~Stale(w)'
    BY <2>1, <2>2
  <2>. QED BY <1>1, <2>2, <2>3 DEF Stale
<1>. QED BY <1>1, <1>2 DEF Fresh, Starting

(* What a process wants comes after what it holds, and two processes do    *)
(* not name two plugins the other way round.                               *)
LEMMA WantedAfter ==
  ASSUME LockInv, NEW d \in Daemons, at[d] \in Starting, NEW r \in Plugins, Holds(d, r)
  PROVE  Precedes(shows[d], r, NextPlugin(d))
<1>1. PICK h \in Seq(Plugins) : h = held[d]
  BY DEF LockInv, Kinds
<1>2. PICK s \in Seq(Plugins) : s = shows[d]
  BY DEF LockInv, Kinds
<1>3. Len(h) < Len(s) /\ \A i \in DOMAIN h : h[i] = s[i]
  BY <1>1, <1>2 DEF LockInv, Placed
<1>4. PICK i \in DOMAIN h : h[i] = r
  BY <1>1 DEF Holds
<1>5. i \in DOMAIN s /\ Len(h) + 1 \in DOMAIN s /\ i < Len(h) + 1
  BY <1>3, <1>4
<1>6. s[i] = r /\ NextPlugin(d) = s[Len(h) + 1]
  BY <1>1, <1>2, <1>3, <1>4 DEF NextPlugin
<1>. QED BY <1>2, <1>5, <1>6 DEF Precedes

LEMMA OneOrder ==
  ASSUME LockInv, SameOrder, NEW d \in Daemons, NEW e \in Daemons, NEW a, NEW b,
         Precedes(shows[d], a, b), Precedes(shows[e], b, a)
  PROVE  FALSE
<1>1. PICK i \in DOMAIN shows[d], j \in DOMAIN shows[d] :
        i < j /\ shows[d][i] = a /\ shows[d][j] = b
  BY DEF Precedes
<1>2. PICK k \in DOMAIN shows[e], l \in DOMAIN shows[e] :
        k < l /\ shows[e][k] = b /\ shows[e][l] = a
  BY DEF Precedes
<1>3. l < k
  BY <1>1, <1>2 DEF SameOrder
<1>4. k \in Nat /\ l \in Nat
  <2>1. shows[e] \in Seq(Plugins)
    BY DEF LockInv, Kinds
  <2>. QED BY <1>2, <2>1
<1>. QED BY <1>2, <1>3, <1>4

(* A pid that is read is of a process that holds the file, or the file is  *)
(* of one that is gone.                                                    *)
LEMMA ReadsOf ==
  ASSUME LockInv, NEW p \in Plugins, NEW e \in Daemons, Pid(p) = e
  PROVE  Names(p, e) \/ (at[e] # "off" /\ Holds(e, p))
<1>1. file[p] # NoPid /\ file[p].pid = e /\ e # NoPid
  BY FileIs, Distinct DEF LockInv, Pid
<1>2. CASE file[p].by = Ghost
  BY <1>1, <1>2 DEF Names, Stale
<1>3. CASE file[p].by # Ghost
  BY <1>1, <1>3 DEF LockInv, Written
<1>. QED BY <1>2, <1>3

(* Who was refused for p, when e got it or its file names e, is beaten by  *)
(* e: for if d got what e wants, the two would name the plugins the other  *)
(* way round.                                                              *)
LEMMA Unchallenged ==
  ASSUME LockInv, SameOrder, NEW d \in Daemons, NEW e \in Daemons, d # e,
         at[d] \in {"judge", "unlink"}, at[e] \in Starting, Yields(e, d), Gets(e, NextPlugin(d))
  PROVE  Unhindered(e, d)
<1>1. PICK p \in Plugins : p = NextPlugin(d)
  BY WantedIs DEF Starting
<1>2. PICK w \in Plugins : w = NextPlugin(e)
  BY WantedIs
<1>3. ASSUME at[e] # "fill", Gets(d, w), ~WillTake(e, w)
      PROVE  FALSE
  <2>1. Holds(d, w)
    BY <1>3 DEF Gets, Took, WillTake
  <2>2. Holds(e, p)
    BY <1>1, <1>2, <1>3 DEF Gets, Took, WillTake
  <2>3. Precedes(shows[d], w, p) /\ Precedes(shows[e], p, w)
    BY <1>1, <1>2, <2>1, <2>2, WantedAfter DEF Starting
  <2>. QED BY <2>3, OneOrder
<1>4. at[e] = "judge" => ~WillTake(e, w) /\ at[e] # "fill"
  BY DEF WillTake
<1>5. Took(d, w) => Gets(d, w)
  BY DEF Gets
<1>. QED BY <1>2, <1>3, <1>4, <1>5 DEF Yields, Unhindered

(* A step of d, from which it starts on.                                   *)
LEMMA PairStep ==
  ASSUME NEW d \in Daemons, NEW e \in Daemons, Pair(d, e), at[d] \in Starting, at'[d] \in Starting,
         \A x \in Daemons \ {d} : Same(x), Fresh(d)', Fresh(e)',
         at[e] \in Starting => Yields(d, e)' /\ Yields(e, d)',
         \A q \in Plugins :
          at[e] \in Refused /\ Beats(d, e, q) => \E r \in Plugins : Beats(d, e, r)'
  PROVE  Pair(d, e)'
<1>1. d # e /\ at'[e] = at[e] /\ \A x \in Daemons \ {d, e} : at'[x] = at[x]
  BY DEF Pair, Same
<1>2. at[d] \notin Refused /\ at'[d] \notin Refused
  BY DEF Starting, Refused
<1>3. at[e] \in Refused => \E r \in Plugins : Beats(d, e, r)'
  BY DEF Pair, Duel
<1>4. Duel(d, e)'
  BY <1>1, <1>2, <1>3 DEF Duel, Starting, Refused
<1>. QED BY <1>1, <1>4 DEF Pair, Starting, Refused

LEMMA PairCreate ==
  ASSUME LockInv, NEW d \in Daemons, NEW e \in Daemons, Pair(d, e), Create(d)
  PROVE  Pair(d, e)'
<1>. USE DEF Create, Go
<1>1. PICK w \in Plugins : w = NextPlugin(d) /\ ~Holds(d, w)
  BY WantedIs DEF Starting
<1>2. \A x \in Daemons \ {d} : Same(x)
  BY DEF LockInv, Kinds, Same
<1>3. /\ at[d] = "create" /\ tries'[d] = tries[d] /\ shows'[d] = shows[d]
      /\ NextPlugin(d)' = w /\ \A r \in Plugins : Holds(d, r)' = Holds(d, r)
  BY <1>1 DEF NextPlugin, Holds
<1>4. PICK new \in Texts : new = [by |-> d, pid |-> NoPid] /\ new # NoPid /\ new.by = d /\ d # Ghost
  <2>1. [by |-> d, pid |-> NoPid] \in Texts /\ [by |-> d, pid |-> NoPid] # NoPid /\ d # Ghost
    BY Distinct DEF LockInv
  <2>. QED BY <2>1
<1>5. \/ /\ file[w] = NoPid /\ at'[d] = "fill" /\ file'[w] = new
         /\ \A r \in Plugins \ {w} : file'[r] = file[r]
      \/ file[w] # NoPid /\ at'[d] = "read" /\ \A r \in Plugins : file'[r] = file[r]
  BY <1>1, <1>4 DEF LockInv, Kinds
<1>. HIDE DEF Create, Go
<1>6. \A r \in Plugins : Stale(r)' = Stale(r) /\ \A x \in Daemons : Names(r, x)' = Names(r, x)
  <2>1. ASSUME NEW r \in Plugins
        PROVE  Stale(r)' = Stale(r) /\ \A x \in Daemons : Names(r, x)' = Names(r, x)
    <3>1. CASE file'[r] = file[r]
      BY <3>1 DEF Names, Stale
    <3>2. CASE file'[r] # file[r]
      BY <1>4, <1>5, <3>2 DEF Names, Stale
    <3>. QED BY <3>1, <3>2
  <2>. QED BY <2>1
<1>7. d # e /\ Same(e) /\ Fresh(d) /\ Fresh(e) /\ e \in Daemons \ {d}
  BY <1>2 DEF Pair
<1>8. /\ at'[e] = at[e] /\ tries'[e] = tries[e] /\ seen'[e] = seen[e] /\ shows'[e] = shows[e]
      /\ NextPlugin(e)' = NextPlugin(e)
      /\ \A r \in Plugins : Holds(e, r)' = Holds(e, r) /\ Took(e, r)' = Took(e, r)
  BY <1>7, Frame
<1>9. /\ \A r \in Plugins : Took(d, r)' => Took(d, r) \/ (r = w /\ ~Stale(w))
      /\ \A r \in Plugins : Gets(d, r) => Gets(d, r)' /\ (at'[d] = "read" => Holds(d, r))
      /\ WillTake(d, w) <=> file[w] = NoPid
  BY <1>1, <1>3, <1>5 DEF Took, Gets, WillTake, Stale
<1>10. Fresh(d)'
  <2>1. tries[d] >= 1 => ~Stale(w)
    BY <1>1, <1>3, <1>7 DEF Fresh, Starting
  <2>2. Stale(NextPlugin(d))' = Stale(w)'
    BY <1>3 DEF Stale
  <2>. QED BY <1>3, <1>6, <1>7, <1>9, <2>1, <2>2 DEF Fresh
<1>11. Fresh(e)'
  BY <1>6, <1>7, FreshKept
<1>12. ASSUME at[e] \in Starting
       PROVE  Yields(d, e)' /\ Yields(e, d)'
  <2>1. Yields(d, e) /\ Yields(e, d)
    BY <1>3, <1>12 DEF Pair, Duel, Starting
  <2>2. PICK v \in Plugins : v = NextPlugin(e)
    BY <1>12, WantedIs
  <2>3. Yields(d, e)'
    BY <1>1, <1>3, <1>5, <1>8, <1>9, <2>1 DEF Yields
  <2>4. WillTake(e, v) => WillTake(e, v)' \/ Took(d, v)'
    BY <1>1, <1>3, <1>5, <1>8 DEF WillTake, Took
  <2>5. \A r \in Plugins : Took(d, r) => Took(d, r)'
    BY <1>3 DEF Took
  <2>. QED BY <1>6, <1>8, <1>9, <2>1, <2>2, <2>3, <2>4, <2>5 DEF Yields
<1>13. ASSUME NEW q \in Plugins, Beats(d, e, q)
       PROVE  Beats(d, e, q)'
  <2>1. \A r \in Plugins : Holds(e, r)' => Precedes(shows[e], r, q)'
    BY <1>8, <1>13 DEF Beats, Precedes
  <2>2. ASSUME Unhindered(d, e)
        PROVE  Unhindered(d, e)'
    BY <1>1, <1>3, <1>5, <1>9, <2>2 DEF Unhindered
  <2>. QED BY <1>6, <1>9, <1>13, <2>1, <2>2 DEF Beats
<1>14. at[d] \in Starting /\ at'[d] \in Starting
  BY <1>3, <1>5 DEF Starting
<1>. QED BY <1>2, <1>10, <1>11, <1>12, <1>13, <1>14, PairStep

LEMMA PairFill ==
  ASSUME LockInv, LockInv', NEW d \in Daemons, NEW e \in Daemons, Pair(d, e), Fill(d)
  PROVE  at'[d] = "run" \/ Pair(d, e)'
<1>. USE DEF Fill, Go
<1>1. PICK w \in Plugins : w = NextPlugin(d) /\ ~Holds(d, w)
  BY WantedIs DEF Starting
<1>2. \A x \in Daemons \ {d} : Same(x)
  BY DEF LockInv, Kinds, Same
<1>3. /\ at[d] = "fill" /\ at'[d] \in {"create", "run"} /\ tries'[d] = 0 /\ shows'[d] = shows[d]
      /\ held'[d] = Append(held[d], w)
  BY <1>1 DEF LockInv, Kinds
<1>4. \A r \in Plugins : Holds(d, r)' <=> Holds(d, r) \/ r = w
  <2>1. PICK h \in Seq(Plugins) : h = held[d]
    BY DEF LockInv, Kinds
  <2>2. ASSUME NEW r \in Plugins
        PROVE  (\E i \in DOMAIN Append(h, w) : Append(h, w)[i] = r)
               <=> (\E i \in DOMAIN h : h[i] = r) \/ r = w
    <3>1. /\ \A i \in DOMAIN h : i \in DOMAIN Append(h, w) /\ Append(h, w)[i] = h[i]
          /\ Len(h) + 1 \in DOMAIN Append(h, w) /\ Append(h, w)[Len(h) + 1] = w
          /\ \A i \in DOMAIN Append(h, w) : i \in DOMAIN h \/ i = Len(h) + 1
      OBVIOUS
    <3>. QED BY <3>1
  <2>. QED BY <1>3, <2>1, <2>2 DEF Holds
<1>5. PICK t : /\ file[w] # NoPid /\ file[w].by = d => t.by = d
               /\ \/ file[w] # NoPid /\ file[w].by = d /\ file'[w] = t /\ t # NoPid
                  \/ file'[w] = file[w]
               /\ \A r \in Plugins \ {w} : file'[r] = file[r]
  <2>1. CASE file[w] # NoPid /\ file[w].by = d
    <3>1. file[w] = [by |-> d, pid |-> file[w].pid]
      BY <2>1, FileIs
    <3>2. file'[w] = [by |-> d, pid |-> d] /\ \A r \in Plugins \ {w} : file'[r] = file[r]
      BY <1>1, <2>1, <3>1 DEF LockInv, Kinds
    <3>3. [by |-> d, pid |-> d] # NoPid
      BY Distinct DEF LockInv
    <3>. QED BY <2>1, <3>2, <3>3
  <2>2. CASE ~(file[w] # NoPid /\ file[w].by = d)
    BY <1>1, <2>2
  <2>. QED BY <2>1, <2>2
<1>6. d # Ghost
  BY Distinct DEF LockInv
<1>. HIDE DEF Fill, Go
<1>7. \A r \in Plugins : /\ Stale(r)' = Stale(r) /\ (file[r] = NoPid) = (file'[r] = NoPid)
                         /\ \A x \in Daemons : Names(r, x)' = Names(r, x)
  <2>1. ASSUME NEW r \in Plugins
        PROVE  /\ Stale(r)' = Stale(r) /\ (file[r] = NoPid) = (file'[r] = NoPid)
               /\ \A x \in Daemons : Names(r, x)' = Names(r, x)
    <3>1. CASE file'[r] = file[r]
      BY <3>1 DEF Names, Stale
    <3>2. CASE file'[r] # file[r]
      BY <1>5, <1>6, <3>2 DEF Names, Stale
    <3>. QED BY <3>1, <3>2
  <2>. QED BY <2>1
<1>8. d # e /\ Same(e) /\ Fresh(d) /\ Fresh(e) /\ e \in Daemons \ {d}
  BY <1>2 DEF Pair
<1>9. /\ at'[e] = at[e] /\ tries'[e] = tries[e] /\ seen'[e] = seen[e] /\ shows'[e] = shows[e]
      /\ NextPlugin(e)' = NextPlugin(e)
      /\ \A r \in Plugins : Holds(e, r)' = Holds(e, r) /\ Took(e, r)' = Took(e, r)
  BY <1>8, Frame
<1>. SUFFICES ASSUME at'[d] = "create" PROVE Pair(d, e)'
  BY <1>3
<1>10. \A r \in Plugins : (Took(d, r)' <=> Took(d, r)) /\ (Gets(d, r) => Gets(d, r)')
  BY <1>1, <1>3, <1>4 DEF Took, Gets, WillTake
<1>11. Fresh(d)'
  BY <1>3, <1>7, <1>8, <1>10 DEF Fresh
<1>12. Fresh(e)'
  BY <1>7, <1>8, FreshKept
<1>13. ASSUME at[e] \in Starting
       PROVE  Yields(d, e)' /\ Yields(e, d)'
  <2>1. Yields(e, d)
    BY <1>3, <1>13 DEF Pair, Duel, Starting
  <2>2. PICK v \in Plugins : v = NextPlugin(e)
    BY <1>13, WantedIs
  <2>3. Yields(d, e)'
    BY <1>3 DEF Yields
  <2>4. WillTake(e, v) => WillTake(e, v)'
    BY <1>7, <1>9 DEF WillTake
  <2>. QED BY <1>7, <1>9, <1>10, <2>1, <2>2, <2>3, <2>4 DEF Yields
<1>14. ASSUME NEW q \in Plugins, Beats(d, e, q)
       PROVE  Beats(d, e, q)'
  <2>1. \A r \in Plugins : Holds(e, r)' => Precedes(shows[e], r, q)'
    BY <1>9, <1>14 DEF Beats, Precedes
  <2>2. Unhindered(d, e)'
    BY <1>3 DEF Unhindered
  <2>. QED BY <1>7, <1>10, <1>14, <2>1, <2>2 DEF Beats
<1>15. at[d] \in Starting /\ at'[d] \in Starting
  BY <1>3 DEF Starting
<1>. QED BY <1>2, <1>11, <1>12, <1>13, <1>14, <1>15, PairStep

LEMMA PairReadPid ==
  ASSUME LockInv, SameOrder, NEW d \in Daemons, NEW e \in Daemons, Pair(d, e), ReadPid(d)
  PROVE  Pair(d, e)'
<1>. USE DEF ReadPid, Go
<1>1. PICK w \in Plugins : w = NextPlugin(d) /\ ~Holds(d, w)
  BY WantedIs DEF Starting
<1>2. \A x \in Daemons \ {d} : Same(x)
  BY DEF LockInv, Kinds, Same
<1>3. /\ at[d] = "read" /\ at'[d] = "judge" /\ tries'[d] = tries[d] /\ shows'[d] = shows[d]
      /\ seen'[d] = Pid(w) /\ file' = file
      /\ NextPlugin(d)' = w /\ \A r \in Plugins : Holds(d, r)' = Holds(d, r)
  BY <1>1 DEF LockInv, Kinds, NextPlugin, Holds
<1>. HIDE DEF ReadPid, Go
<1>4. \A r \in Plugins : /\ Stale(r)' = Stale(r) /\ \A x \in Daemons : Names(r, x)' = Names(r, x)
                         /\ (Took(d, r) <=> Holds(d, r)) /\ (Took(d, r)' <=> Holds(d, r))
                         /\ (Gets(d, r) <=> Holds(d, r)) /\ (Gets(d, r)' <=> Holds(d, r))
  <2>1. ASSUME NEW r \in Plugins
        PROVE  /\ Stale(r)' = Stale(r) /\ \A x \in Daemons : Names(r, x)' = Names(r, x)
    BY <1>3 DEF Names, Stale
  <2>2. ASSUME NEW r \in Plugins
        PROVE  /\ (Took(d, r) <=> Holds(d, r)) /\ (Took(d, r)' <=> Holds(d, r))
    BY <1>3 DEF Took
  <2>3. ASSUME NEW r \in Plugins
        PROVE  ~WillTake(d, r) /\ ~WillTake(d, r)'
    BY <1>3 DEF WillTake
  <2>. QED BY <2>1, <2>2, <2>3 DEF Gets
<1>5. d # e /\ Same(e) /\ Fresh(d) /\ Fresh(e) /\ e \in Daemons \ {d}
  BY <1>2 DEF Pair
<1>6. /\ at'[e] = at[e] /\ tries'[e] = tries[e] /\ seen'[e] = seen[e] /\ shows'[e] = shows[e]
      /\ NextPlugin(e)' = NextPlugin(e)
      /\ \A r \in Plugins : Holds(e, r)' = Holds(e, r) /\ Took(e, r)' = Took(e, r)
  BY <1>5, Frame
<1>7. Fresh(d)'
  <2>1. Stale(NextPlugin(d))' = Stale(w)'
    BY <1>3 DEF Stale
  <2>. QED BY <1>1, <1>3, <1>4, <1>5, <2>1 DEF Fresh, Starting
<1>8. Fresh(e)'
  BY <1>4, <1>5, FreshKept
<1>9. seen'[d] = e => Names(w, e) \/ Holds(e, w)
  BY <1>3, ReadsOf
<1>10. ASSUME at[e] \in Starting
       PROVE  Yields(d, e)' /\ Yields(e, d)'
  <2>1. Yields(d, e) /\ Yields(e, d)
    BY <1>3, <1>10 DEF Pair, Duel, Starting
  <2>2. PICK v \in Plugins : v = NextPlugin(e)
    BY <1>10, WantedIs
  <2>3. Yields(d, e)'
    <3>1. at'[d] = "judge" /\ seen'[d] = e => Names(w, e)' \/ Gets(e, w)'
      BY <1>4, <1>6, <1>9 DEF Gets, Took
    <3>2. tries[d] >= 1 => Took(e, w)
      BY <1>1, <1>3, <2>1 DEF Yields, WillTake
    <3>. QED BY <1>3, <1>6, <3>1, <3>2 DEF Yields
  <2>4. WillTake(e, v) => WillTake(e, v)'
    BY <1>3, <1>6 DEF WillTake
  <2>5. Gets(d, v) => Gets(d, v)'
    BY <1>4
  <2>. QED BY <1>4, <1>6, <2>1, <2>2, <2>3, <2>4, <2>5 DEF Yields
<1>11. ASSUME NEW q \in Plugins, Beats(d, e, q)
       PROVE  Beats(d, e, q)'
  <2>1. \A r \in Plugins : Holds(e, r)' => Precedes(shows[e], r, q)'
    BY <1>6, <1>11 DEF Beats, Precedes
  <2>2. ASSUME Gets(d, q), Unhindered(d, e)
        PROVE  Unhindered(d, e)'
    <3>1. ~Holds(e, w)
      <4>. SUFFICES ASSUME Holds(e, w) PROVE FALSE
        OBVIOUS
      <4>1. Precedes(shows[e], w, q) /\ Precedes(shows[d], q, w)
        BY <1>1, <1>3, <1>4, <1>11, <2>2, WantedAfter DEF Beats, Starting
      <4>. QED BY <4>1, OneOrder
    <3>2. ~(tries[d] >= 1)
      BY <1>1, <1>3, <2>2 DEF Unhindered, WillTake
    <3>. QED BY <1>3, <1>4, <1>9, <3>1, <3>2 DEF Unhindered
  <2>. QED BY <1>4, <1>11, <2>1, <2>2 DEF Beats
<1>12. at[d] \in Starting /\ at'[d] \in Starting
  BY <1>3 DEF Starting
<1>. QED BY <1>2, <1>7, <1>8, <1>10, <1>11, <1>12, PairStep

(* d was refused for its next plugin, and e goes on.                       *)
LEMMA PairRefused ==
  ASSUME LockInv, NEW d \in Daemons, NEW e \in Daemons, Pair(d, e), at[d] \in Starting,
         at'[d] = "release", \A x \in Daemons \ {d} : Same(x), Fresh(d)', Fresh(e)',
         at[e] \in Starting => \E q \in Plugins : Beats(e, d, q)',
         at[e] \in Refused => \E q \in Plugins : Names(q, d)' \/ Names(q, e)'
  PROVE  Pair(d, e)'
<1>1. d # e /\ at'[e] = at[e] /\ \A x \in Daemons \ {d, e} : at'[x] = at[x]
  BY DEF Pair, Same
<1>2. at'[d] \in Refused /\ at'[d] \notin Starting
  BY DEF Starting, Refused
<1>3. Duel(d, e)'
  BY <1>1, <1>2 DEF Duel, Starting, Refused
<1>. QED BY <1>1, <1>2, <1>3 DEF Pair, Starting, Refused

LEMMA PairJudge ==
  ASSUME LockInv, SameOrder, NEW d \in Daemons, NEW e \in Daemons, Pair(d, e), Judge(d),
         ~misled'
  PROVE  Pair(d, e)'
<1>. USE DEF Judge, Go
<1>1. PICK w \in Plugins : w = NextPlugin(d) /\ ~Holds(d, w)
  BY WantedIs DEF Starting
<1>2. \A x \in Daemons \ {d} : Same(x)
  BY DEF LockInv, Kinds, Same
<1>3. /\ at[d] = "judge" /\ tries'[d] = tries[d] /\ shows'[d] = shows[d] /\ file' = file
      /\ seen'[d] = seen[d]
      /\ at'[d] = (IF RunsAlready(d, seen[d]) THEN "release" ELSE "unlink")
      /\ NextPlugin(d)' = w /\ \A r \in Plugins : Holds(d, r)' = Holds(d, r)
      /\ RunsAlready(d, seen[d]) => seen[d] \notin others
  BY <1>1 DEF LockInv, Kinds, NextPlugin, Holds
<1>. HIDE DEF Judge, Go
<1>4. \A r \in Plugins : /\ Stale(r)' = Stale(r) /\ \A x \in Daemons : Names(r, x)' = Names(r, x)
                         /\ (Took(d, r) <=> Holds(d, r)) /\ (Took(d, r)' <=> Holds(d, r))
                         /\ (Gets(d, r) <=> Holds(d, r)) /\ (Gets(d, r)' <=> Holds(d, r))
  <2>1. ASSUME NEW r \in Plugins
        PROVE  /\ Stale(r)' = Stale(r) /\ \A x \in Daemons : Names(r, x)' = Names(r, x)
    BY <1>3 DEF Names, Stale
  <2>2. ASSUME NEW r \in Plugins
        PROVE  /\ (Took(d, r) <=> Holds(d, r)) /\ (Took(d, r)' <=> Holds(d, r))
    BY <1>3 DEF Took
  <2>3. ASSUME NEW r \in Plugins
        PROVE  ~WillTake(d, r) /\ ~WillTake(d, r)'
    BY <1>3 DEF WillTake
  <2>. QED BY <2>1, <2>2, <2>3 DEF Gets
<1>5. d # e /\ Same(e) /\ Fresh(d) /\ Fresh(e) /\ e \in Daemons \ {d}
  BY <1>2 DEF Pair
<1>6. /\ at'[e] = at[e] /\ tries'[e] = tries[e] /\ seen'[e] = seen[e] /\ shows'[e] = shows[e]
      /\ NextPlugin(e)' = NextPlugin(e)
      /\ \A r \in Plugins : Holds(e, r)' = Holds(e, r) /\ Took(e, r)' = Took(e, r)
  BY <1>5, Frame
<1>7. Fresh(d)'
  <2>1. Stale(NextPlugin(d))' = Stale(w)'
    BY <1>3 DEF Stale
  <2>. QED BY <1>1, <1>3, <1>4, <1>5, <2>1 DEF Fresh, Starting
<1>8. Fresh(e)'
  BY <1>4, <1>5, FreshKept
<1>9. at[d] \in Starting
  BY <1>3 DEF Starting
<1>10. \A r \in Plugins : (WillTake(e, r)' <=> WillTake(e, r)) /\ (Gets(e, r)' <=> Gets(e, r))
  <2>1. \A r \in Plugins : WillTake(e, r)' <=> WillTake(e, r)
    BY <1>3, <1>6 DEF WillTake
  <2>. QED BY <1>6, <2>1 DEF Gets
<1>11. CASE ~RunsAlready(d, seen[d])
  <2>1. at'[d] = "unlink"
    BY <1>3, <1>11
  <2>2. ASSUME at[e] \in Starting
        PROVE  Yields(d, e)' /\ Yields(e, d)'
    <3>1. Yields(d, e) /\ Yields(e, d)
      BY <1>9, <2>2 DEF Pair, Duel
    <3>2. PICK v \in Plugins : v = NextPlugin(e)
      BY <2>2, WantedIs
    <3>3. Yields(d, e)'
      <4>1. tries[d] >= 1 => Took(e, w)
        BY <1>1, <1>3, <3>1 DEF Yields, WillTake
      <4>. QED BY <1>3, <1>6, <2>1, <4>1 DEF Yields
    <3>4. Gets(d, v) => Gets(d, v)'
      BY <1>4
    <3>. QED BY <1>4, <1>6, <1>10, <3>1, <3>2, <3>3, <3>4 DEF Yields
  <2>3. ASSUME NEW q \in Plugins, Beats(d, e, q)
        PROVE  Beats(d, e, q)'
    <3>1. \A r \in Plugins : Holds(e, r)' => Precedes(shows[e], r, q)'
      BY <1>6, <2>3 DEF Beats, Precedes
    <3>2. ASSUME Unhindered(d, e)
          PROVE  Unhindered(d, e)'
      BY <1>1, <1>3, <2>1, <3>2 DEF Unhindered, WillTake
    <3>. QED BY <1>4, <2>3, <3>1, <3>2 DEF Beats
  <2>4. at'[d] \in Starting
    BY <2>1 DEF Starting
  <2>. QED BY <1>2, <1>7, <1>8, <1>9, <2>2, <2>3, <2>4, PairStep
<1>12. CASE RunsAlready(d, seen[d])
  <2>1. at'[d] = "release" /\ seen[d] = e /\ at[e] # "off"
    <3>1. seen[d] # NoPid /\ seen[d] # d /\ seen[d] \in Daemons /\ at[seen[d]] # "off"
      BY <1>3, <1>12 DEF RunsAlready, Alive, Runs
    <3>. QED BY <1>3, <1>12, <3>1 DEF Pair
  <2>2. ASSUME at[e] \in Starting
        PROVE  Beats(e, d, w)'
    <3>1. Yields(d, e) /\ Yields(e, d)
      BY <1>9, <2>2 DEF Pair, Duel
    <3>2. \A r \in Plugins : Holds(d, r)' => Precedes(shows[d], r, w)'
      BY <1>1, <1>3, <1>9, WantedAfter DEF Precedes
    <3>3. Names(w, e) \/ Gets(e, w)
      BY <1>1, <1>3, <2>1, <3>1 DEF Yields
    <3>4. ASSUME Gets(e, w)
          PROVE  Unhindered(e, d)'
      <4>1. Unhindered(e, d)
        BY <1>1, <1>3, <1>5, <2>2, <3>1, <3>4, Unchallenged
      <4>2. PICK v \in Plugins : v = NextPlugin(e)
        BY <2>2, WantedIs
      <4>. QED BY <1>4, <1>6, <1>10, <4>1, <4>2 DEF Unhindered
    <3>. QED BY <1>4, <1>10, <3>2, <3>3, <3>4 DEF Beats
  <2>3. ASSUME at[e] \in Refused
        PROVE  \E q \in Plugins : Names(q, d)' \/ Names(q, e)'
    <3>1. PICK q \in Plugins : Beats(d, e, q)
      BY <1>9, <2>3 DEF Pair, Duel
    <3>2. Names(q, d) \/ Names(w, e)
      BY <1>1, <1>3, <2>1, <3>1 DEF Beats, Unhindered
    <3>. QED BY <1>4, <3>2
  <2>. QED BY <1>2, <1>7, <1>8, <1>9, <2>1, <2>2, <2>3, PairRefused
<1>. QED BY <1>11, <1>12

LEMMA PairUnlink ==
  ASSUME LockInv, SameOrder, MaxTries >= 2, NEW d \in Daemons, NEW e \in Daemons, Pair(d, e),
         Unlink(d)
  PROVE  Pair(d, e)'
<1>. USE DEF Unlink, Go
<1>1. PICK w \in Plugins : w = NextPlugin(d) /\ ~Holds(d, w)
  BY WantedIs DEF Starting
<1>2. \A x \in Daemons \ {d} : Same(x)
  BY DEF LockInv, Kinds, Same
<1>3. /\ at[d] = "unlink" /\ tries'[d] = tries[d] + 1 /\ shows'[d] = shows[d]
      /\ at'[d] = (IF tries'[d] = MaxTries THEN "release" ELSE "create")
      /\ NextPlugin(d)' = w /\ \A r \in Plugins : Holds(d, r)' = Holds(d, r)
      /\ file'[w] = NoPid /\ \A r \in Plugins \ {w} : file'[r] = file[r]
  BY <1>1 DEF LockInv, Kinds, NextPlugin, Holds
<1>. HIDE DEF Unlink, Go
<1>4. \A r \in Plugins : /\ Stale(r)' <=> Stale(r) /\ r # w
                         /\ \A x \in Daemons : Names(r, x)' <=> Names(r, x) /\ r # w
                         /\ (Took(d, r) <=> Holds(d, r)) /\ (Took(d, r)' <=> Holds(d, r))
                         /\ (Gets(d, r) <=> Holds(d, r)) /\ (Holds(d, r) => Gets(d, r)')
  <2>1. ASSUME NEW r \in Plugins
        PROVE  /\ Stale(r)' <=> Stale(r) /\ r # w
               /\ \A x \in Daemons : Names(r, x)' <=> Names(r, x) /\ r # w
    BY <1>3 DEF Names, Stale
  <2>2. ASSUME NEW r \in Plugins
        PROVE  (Took(d, r) <=> Holds(d, r)) /\ (Took(d, r)' <=> Holds(d, r))
    BY <1>3 DEF Took
  <2>3. ASSUME NEW r \in Plugins
        PROVE  ~WillTake(d, r)
    BY <1>3 DEF WillTake
  <2>. QED BY <2>1, <2>2, <2>3 DEF Gets
<1>5. d # e /\ Same(e) /\ Fresh(d) /\ Fresh(e) /\ e \in Daemons \ {d}
  BY <1>2 DEF Pair
<1>6. /\ at'[e] = at[e] /\ tries'[e] = tries[e] /\ seen'[e] = seen[e] /\ shows'[e] = shows[e]
      /\ NextPlugin(e)' = NextPlugin(e)
      /\ \A r \in Plugins : Holds(e, r)' = Holds(e, r) /\ Took(e, r)' = Took(e, r)
  BY <1>5, Frame
<1>7. Fresh(d)'
  <2>1. Stale(NextPlugin(d))' = Stale(w)'
    BY <1>3 DEF Stale
  <2>. QED BY <1>1, <1>3, <1>4, <1>5, <2>1 DEF Fresh
<1>8. Fresh(e)'
  BY <1>4, <1>5, FreshKept
<1>9. at[d] \in Starting /\ tries[d] \in Nat
  BY <1>3, Distinct DEF Starting, LockInv, Kinds
<1>10. \A r \in Plugins : (WillTake(e, r) => WillTake(e, r)') /\ (Gets(e, r) => Gets(e, r)')
  <2>1. \A r \in Plugins : WillTake(e, r) => WillTake(e, r)'
    BY <1>3, <1>6 DEF WillTake
  <2>. QED BY <1>6, <2>1 DEF Gets
<1>11. CASE tries'[d] # MaxTries
  <2>1. at'[d] = "create" /\ WillTake(d, w)' /\ Gets(d, w)' /\ WillTake(d, NextPlugin(d))'
    <3>1. at'[d] = "create" /\ WillTake(d, w)'
      BY <1>3, <1>11 DEF WillTake
    <3>2. WillTake(d, NextPlugin(d))'
      BY <1>3, <3>1 DEF WillTake
    <3>. QED BY <3>1, <3>2 DEF Gets
  <2>2. ASSUME at[e] \in Starting
        PROVE  Yields(d, e)' /\ Yields(e, d)'
    <3>1. Yields(d, e) /\ Yields(e, d)
      BY <1>9, <2>2 DEF Pair, Duel
    <3>2. PICK v \in Plugins : v = NextPlugin(e)
      BY <2>2, WantedIs
    <3>3. Yields(d, e)'
      BY <2>1 DEF Yields
    <3>4. Gets(d, v) => Gets(d, v)'
      BY <1>4
    <3>5. Took(d, v) => Took(d, v)'
      BY <1>4
    <3>6. Names(v, d) => Names(v, d)' \/ Gets(d, v)'
      BY <1>4, <2>1
    <3>. QED BY <1>6, <1>10, <3>1, <3>2, <3>3, <3>4, <3>5, <3>6 DEF Yields
  <2>3. ASSUME NEW q \in Plugins, Beats(d, e, q)
        PROVE  Beats(d, e, q)'
    <3>1. \A r \in Plugins : Holds(e, r)' => Precedes(shows[e], r, q)'
      BY <1>6, <2>3 DEF Beats, Precedes
    <3>2. Unhindered(d, e)'
      BY <2>1 DEF Unhindered
    <3>. QED BY <1>4, <2>1, <2>3, <3>1, <3>2 DEF Beats
  <2>4. at'[d] \in Starting
    BY <2>1 DEF Starting
  <2>. QED BY <1>2, <1>7, <1>8, <1>9, <2>2, <2>3, <2>4, PairStep
<1>12. CASE tries'[d] = MaxTries
  <2>1. at'[d] = "release" /\ tries[d] >= 1
    BY <1>3, <1>9, <1>12, Distinct DEF LockInv
  <2>2. ASSUME at[e] \in Starting
        PROVE  Beats(e, d, w)'
    <3>1. Yields(d, e) /\ Yields(e, d)
      BY <1>9, <2>2 DEF Pair, Duel
    <3>2. \A r \in Plugins : Holds(d, r)' => Precedes(shows[d], r, w)'
      BY <1>1, <1>3, <1>9, WantedAfter DEF Precedes
    <3>3. Took(e, w) /\ Gets(e, w)
      BY <1>1, <1>3, <2>1, <3>1 DEF Yields, WillTake, Gets
    <3>4. Unhindered(e, d)
      BY <1>1, <1>3, <1>5, <2>2, <3>1, <3>3, Unchallenged
    <3>5. PICK v \in Plugins : v = NextPlugin(e) /\ ~Holds(e, v)
      BY <2>2, WantedIs
    <3>6. at[e] = "judge" => v # w
      BY <3>3, <3>5 DEF Took
    <3>7. Unhindered(e, d)'
      BY <1>4, <1>6, <1>10, <3>4, <3>5, <3>6 DEF Unhindered
    <3>. QED BY <1>10, <3>2, <3>3, <3>7 DEF Beats
  <2>3. ASSUME at[e] \in Refused
        PROVE  \E q \in Plugins : Names(q, d)' \/ Names(q, e)'
    <3>1. PICK q \in Plugins : Beats(d, e, q)
      BY <1>9, <2>3 DEF Pair, Duel
    <3>2. ~Stale(w)
      BY <1>1, <1>5, <1>9, <2>1 DEF Fresh
    <3>3. ~Unhindered(d, e)
      BY <1>3, <2>1 DEF Unhindered, WillTake
    <3>4. Names(q, d) /\ q # w
      BY <3>1, <3>2, <3>3 DEF Beats, Names
    <3>. QED BY <1>4, <3>4
  <2>. QED BY <1>2, <1>7, <1>8, <1>9, <2>1, <2>2, <2>3, PairRefused
<1>. QED BY <1>11, <1>12

(* Who was refused gives up what it has, which is of no process that is    *)
(* gone.                                                                   *)
LEMMA PairGivesUp ==
  ASSUME LockInv, NEW d \in Daemons, NEW e \in Daemons, Pair(d, e), at[d] \in Refused,
         at'[d] \in Refused, \A x \in Daemons \ {d} : Same(x), shows' = shows,
         \A r \in Plugins : Holds(d, r)' => Holds(d, r),
         \A r \in Plugins : file'[r] = file[r] \/ (file'[r] = NoPid /\ Holds(d, r))
  PROVE  Pair(d, e)'
<1>1. d # e /\ Same(e) /\ Fresh(d) /\ Fresh(e) /\ e \in Daemons \ {d}
  BY DEF Pair
<1>2. /\ at'[e] = at[e] /\ tries'[e] = tries[e] /\ seen'[e] = seen[e] /\ shows'[e] = shows[e]
      /\ NextPlugin(e)' = NextPlugin(e)
      /\ \A r \in Plugins : Holds(e, r)' = Holds(e, r) /\ Took(e, r)' = Took(e, r)
  BY <1>1, Frame
<1>3. \A r \in Plugins : Holds(d, r) => ~Stale(r)
  BY <1>1 DEF Fresh, Took
<1>4. \A r \in Plugins : /\ Stale(r)' => Stale(r)
                         /\ \A x \in Daemons : Names(r, x) => Names(r, x)'
                         /\ file[r] = NoPid => file'[r] = NoPid
  <2>1. ASSUME NEW r \in Plugins
        PROVE  /\ Stale(r)' => Stale(r)
               /\ \A x \in Daemons : Names(r, x) => Names(r, x)'
               /\ file[r] = NoPid => file'[r] = NoPid
    <3>1. CASE file'[r] = file[r]
      BY <3>1 DEF Names, Stale
    <3>2. CASE file'[r] = NoPid /\ Holds(d, r)
      BY <1>3, <3>2 DEF Names, Stale
    <3>. QED BY <3>1, <3>2
  <2>. QED BY <2>1
<1>5. at[d] \notin Starting /\ at'[d] \notin Starting /\ at'[d] # "fill"
  BY DEF Starting, Refused
<1>6. Fresh(d)'
  <2>1. \A r \in Plugins : Took(d, r)' => ~Stale(r)'
    BY <1>3, <1>4, <1>5 DEF Took
  <2>. QED BY <1>5, <2>1 DEF Fresh, Starting
<1>7. Fresh(e)'
  BY <1>1, <1>4, FreshKept
<1>8. ASSUME at[e] \in Starting
      PROVE  \E q \in Plugins : Beats(e, d, q)'
  <2>1. PICK q \in Plugins : Beats(e, d, q)
    BY <1>8 DEF Pair, Duel
  <2>2. \A r \in Plugins : Holds(d, r)' => Precedes(shows[d], r, q)'
    BY <2>1 DEF Beats, Precedes
  <2>3. \A r \in Plugins : (WillTake(e, r) => WillTake(e, r)') /\ (Gets(e, r) => Gets(e, r)')
    <3>1. \A r \in Plugins : WillTake(e, r) => WillTake(e, r)'
      BY <1>2, <1>4 DEF WillTake
    <3>. QED BY <1>2, <3>1 DEF Gets
  <2>4. ASSUME Unhindered(e, d)
        PROVE  Unhindered(e, d)'
    <3>1. PICK v \in Plugins : v = NextPlugin(e)
      BY <1>8, WantedIs
    <3>. QED BY <1>2, <1>4, <2>3, <2>4, <3>1 DEF Unhindered
  <2>. QED BY <1>4, <2>1, <2>2, <2>3, <2>4 DEF Beats
<1>9. ASSUME at[e] \in Refused
      PROVE  \E q \in Plugins : Names(q, d)' \/ Names(q, e)'
  BY <1>4, <1>9 DEF Pair, Duel
<1>10. Duel(d, e)'
  BY <1>2, <1>5, <1>8, <1>9 DEF Duel, Starting, Refused
<1>11. \A x \in Daemons \ {d, e} : at'[x] = "off"
  BY DEF Pair, Same
<1>. QED BY <1>1, <1>2, <1>6, <1>7, <1>10, <1>11 DEF Pair, Starting, Refused

LEMMA PairRelease ==
  ASSUME LockInv, NEW d \in Daemons, NEW e \in Daemons, Pair(d, e), Release(d) \/ RemoveFile(d)
  PROVE  Pair(d, e)'
<1>1. \A x \in Daemons \ {d} : Same(x)
  BY DEF LockInv, Kinds, Same, Release, RemoveFile, Go
<1>2. at[d] \in {"release", "remove"} /\ at'[d] \in {"release", "remove", "off"} /\ shows' = shows
  BY DEF LockInv, Kinds, Release, RemoveFile, Go
<1>3. held' = held \/ (held[d] # <<>> /\ held' = [held EXCEPT ![d] = Tail(@)])
  BY DEF LockInv, Placed, Release, RemoveFile
<1>4. \A r \in Plugins : Holds(d, r)' => Holds(d, r)
  <2>1. CASE held' = held
    BY <2>1 DEF Holds
  <2>2. CASE held[d] # <<>> /\ held' = [held EXCEPT ![d] = Tail(@)]
    <3>1. PICK h \in Seq(Plugins) : h = held[d] /\ h # <<>>
      BY <2>2 DEF LockInv, Kinds
    <3>2. \A i \in DOMAIN Tail(h) : i + 1 \in DOMAIN h /\ Tail(h)[i] = h[i + 1]
      BY <3>1, TailHolds
    <3>3. held'[d] = Tail(h)
      BY <2>2, <3>1 DEF LockInv, Kinds
    <3>. QED BY <3>1, <3>2, <3>3 DEF Holds
  <2>. QED BY <1>3, <2>1, <2>2
<1>5. ASSUME NEW r \in Plugins
      PROVE  file'[r] = file[r] \/ (file'[r] = NoPid /\ Holds(d, r))
  <2>1. CASE Release(d)
    BY <2>1 DEF Release
  <2>2. CASE RemoveFile(d)
    <3>1. PICK h \in Seq(Plugins) : h = held[d] /\ h # <<>>
      BY <2>2 DEF LockInv, Kinds, Placed, RemoveFile
    <3>2. Head(h) = h[1] /\ 1 \in DOMAIN h
      BY <3>1
    <3>3. Holds(d, Head(h))
      BY <3>1, <3>2 DEF Holds
    <3>4. file' = [file EXCEPT ![Head(h)] = NoPid]
      BY <2>2, <3>1 DEF RemoveFile
    <3>. QED BY <3>3, <3>4 DEF LockInv, Kinds
  <2>. QED BY <2>1, <2>2
<1>. QED BY <1>1, <1>2, <1>4, <1>5, PairGivesUp DEF Refused

(* One that starts while there is no other.                                *)
LEMMA SingleNext ==
  ASSUME LockInv, MaxTries >= 2, NEW d \in Daemons, Single(d),
         Create(d) \/ Fill(d) \/ ReadPid(d) \/ Judge(d) \/ Unlink(d), at'[d] # "run",
         ~misled'
  PROVE  Single(d)'
<1>1. PICK w \in Plugins : w = NextPlugin(d) /\ ~Holds(d, w)
  BY WantedIs DEF Single
<1>2. \A x \in Daemons \ {d} : at'[x] = "off"
  BY DEF LockInv, Kinds, Single, Create, Fill, ReadPid, Judge, Unlink, Go
<1>3. Fresh(d)
  BY DEF Single
<1>4. d # Ghost /\ tries[d] \in Nat /\ MaxTries \in Nat
  BY Distinct DEF LockInv, Kinds
<1>5. ASSUME Create(d)
      PROVE  Single(d)'
  <2>1. /\ at[d] = "create" /\ tries'[d] = tries[d] /\ NextPlugin(d)' = w
        /\ \A r \in Plugins : Holds(d, r)' = Holds(d, r)
    BY <1>1, <1>5 DEF Create, NextPlugin, Holds
  <2>2. \/ at'[d] = "fill" /\ \A r \in Plugins \ {w} : file'[r] = file[r]
        \/ file[w] # NoPid /\ at'[d] = "read" /\ file' = file
    BY <1>1, <1>5 DEF Create, Go, LockInv, Kinds
  <2>3. at'[d] = "fill" => ~Stale(w)'
    <3>1. at'[d] = "fill" => file'[w] = [by |-> d, pid |-> NoPid]
      BY <1>1, <1>5 DEF Create, Go, LockInv, Kinds
    <3>. QED BY <1>4, <3>1 DEF Stale
  <2>4. at'[d] = "read" => ~(tries[d] >= 1)
    BY <1>1, <2>1, <2>2 DEF Single, WillTake
  <2>5. \A r \in Plugins : Took(d, r)' => ~Stale(r)'
    <3>1. ASSUME NEW r \in Plugins \ {w}, Took(d, r)'
          PROVE  ~Stale(r)'
      BY <1>3, <2>1, <2>2, <3>1 DEF Took, Fresh, Stale
    <3>2. Took(d, w)' => at'[d] = "fill"
      BY <1>1, <2>1 DEF Took
    <3>. QED BY <2>3, <3>1, <3>2
  <2>6. Stale(NextPlugin(d))' = Stale(w)'
    BY <2>1 DEF Stale
  <2>7. Fresh(d)'
    BY <2>1, <2>2, <2>3, <2>4, <2>5, <2>6 DEF Fresh
  <2>. QED BY <1>2, <2>1, <2>2, <2>4, <2>7 DEF Single, Starting
<1>6. ASSUME Fill(d)
      PROVE  Single(d)'
  <2>1. /\ at[d] = "fill" /\ at'[d] = "create" /\ tries'[d] = 0
        /\ held'[d] = Append(held[d], w)
    BY <1>1, <1>6 DEF Fill, Go, LockInv, Kinds
  <2>2. \A r \in Plugins : Holds(d, r)' => Took(d, r)
    <3>1. PICK h \in Seq(Plugins) : h = held[d]
      BY DEF LockInv, Kinds
    <3>2. \A i \in DOMAIN Append(h, w) :
            Append(h, w)[i] = w \/ \E j \in DOMAIN h : h[j] = Append(h, w)[i]
      <4>1. /\ \A i \in DOMAIN h : Append(h, w)[i] = h[i]
            /\ Append(h, w)[Len(h) + 1] = w
            /\ \A i \in DOMAIN Append(h, w) : i \in DOMAIN h \/ i = Len(h) + 1
        OBVIOUS
      <4>. QED BY <4>1
    <3>. QED BY <1>1, <2>1, <3>1, <3>2 DEF Holds, Took
  <2>3. \A r \in Plugins : Stale(r)' => Stale(r)
    <3>1. ASSUME NEW r \in Plugins, file'[r] # file[r]
          PROVE  ~Stale(r)'
      <4>1. /\ file[w] # NoPid /\ file[w].by = d /\ r = w
            /\ file'[w] = [file[w] EXCEPT !.pid = d]
        BY <1>1, <1>6, <3>1 DEF Fill, LockInv, Kinds
      <4>2. file'[w] = [by |-> d, pid |-> d]
        BY <4>1, FileIs
      <4>. QED BY <1>4, <4>1, <4>2 DEF Stale
    <3>. QED BY <3>1 DEF Stale
  <2>4. Fresh(d)'
    BY <1>3, <2>1, <2>2, <2>3 DEF Fresh, Took
  <2>. QED BY <1>2, <2>1, <2>4 DEF Single, Starting
<1>7. ASSUME ReadPid(d)
      PROVE  Single(d)'
  <2>1. /\ at[d] = "read" /\ at'[d] = "judge" /\ tries'[d] = tries[d] /\ NextPlugin(d)' = w
        /\ \A r \in Plugins : Holds(d, r)' = Holds(d, r)
        /\ seen'[d] = Pid(w) /\ file' = file
    BY <1>1, <1>7 DEF ReadPid, Go, NextPlugin, Holds, LockInv, Kinds
  <2>2. ~(tries[d] >= 1)
    BY <1>1, <2>1 DEF Single, WillTake
  <2>3. Fresh(d)'
    BY <1>3, <2>1, <2>2 DEF Fresh, Took, Stale
  <2>4. ASSUME NEW e \in Daemons, seen'[d] = e
        PROVE  Names(NextPlugin(d), e)'
    <3>1. Names(w, e)
      BY <1>1, <2>1, <2>4, ReadsOf DEF Single
    <3>. QED BY <2>1, <3>1 DEF Names, Stale
  <2>. QED BY <1>2, <2>1, <2>2, <2>3, <2>4 DEF Single, Starting
<1>8. ASSUME Judge(d)
      PROVE  Single(d)'
  <2>1. /\ at[d] = "judge" /\ tries'[d] = tries[d] /\ NextPlugin(d)' = w
        /\ \A r \in Plugins : Holds(d, r)' = Holds(d, r)
        /\ at'[d] = (IF RunsAlready(d, seen[d]) THEN "release" ELSE "unlink") /\ file' = file
        /\ RunsAlready(d, seen[d]) => seen[d] \notin others
    BY <1>1, <1>8 DEF Judge, Go, NextPlugin, Holds, LockInv, Kinds
  <2>2. at'[d] = "unlink"
    BY <2>1 DEF RunsAlready, Alive, Runs, Single
  <2>3. ~(tries[d] >= 1)
    BY <1>1, <2>1 DEF Single, WillTake
  <2>4. Fresh(d)'
    BY <1>3, <2>1, <2>2, <2>3 DEF Fresh, Took, Stale
  <2>. QED BY <1>2, <2>1, <2>2, <2>3, <2>4 DEF Single, Starting
<1>9. ASSUME Unlink(d)
      PROVE  Single(d)'
  <2>1. /\ at[d] = "unlink" /\ tries'[d] = tries[d] + 1 /\ NextPlugin(d)' = w
        /\ \A r \in Plugins : Holds(d, r)' = Holds(d, r)
        /\ at'[d] = (IF tries'[d] = MaxTries THEN "release" ELSE "create")
        /\ file'[w] = NoPid /\ \A r \in Plugins \ {w} : file'[r] = file[r]
    BY <1>1, <1>9 DEF Unlink, Go, NextPlugin, Holds, LockInv, Kinds
  <2>2. ~(tries[d] >= 1)
    BY <1>1, <2>1 DEF Single, WillTake
  <2>3. at'[d] = "create"
    BY <1>4, <2>1, <2>2
  <2>4. \A r \in Plugins : Stale(r)' => Stale(r) /\ r # w
    BY <2>1 DEF Stale
  <2>5. Stale(NextPlugin(d))' = Stale(w)'
    BY <2>1 DEF Stale
  <2>6. Fresh(d)'
    BY <1>3, <2>1, <2>3, <2>4, <2>5 DEF Fresh, Took
  <2>7. WillTake(d, NextPlugin(d))'
    BY <2>1, <2>3 DEF WillTake
  <2>. QED BY <1>2, <2>1, <2>3, <2>6, <2>7 DEF Single, Starting
<1>. QED BY <1>5, <1>6, <1>7, <1>8, <1>9

(* The starts: the first is alone, the second finds the first starting.    *)
LEMMA SomeStart ==
  ASSUME LockInv, SomeInv, NEW d \in Daemons, RunDaemon(d)
  PROVE  SomeInv'
<1>. SUFFICES ASSUME ends' = 0, ~misled', \A x \in Daemons : at'[x] # "run"
             PROVE  /\ starts' # 0
                    /\ starts' = 1 => \E x \in Daemons : Single(x)'
                    /\ starts' >= 2 => overlapped'
                    /\ starts' = 2 => \E x, e \in Daemons : Pair(x, e)'
  BY DEF SomeInv
<1>1. /\ at[d] = "off" /\ at'[d] = "create" /\ held'[d] = <<>> /\ tries'[d] = 0
      /\ file' = file /\ ends' = ends /\ starts' = starts + 1 /\ starts \in Nat
      /\ overlapped' = (overlapped \/ \E x \in Daemons : at[x] \in Starting)
  BY Distinct DEF RunDaemon, Go, LockInv, Kinds
<1>2. \A x \in Daemons \ {d} : Same(x)
  BY DEF RunDaemon, Go, LockInv, Kinds, Same
<1>3. ~misled /\ \A x \in Daemons : at[x] # "run"
  BY <1>1, <1>2 DEF Same, RunDaemon
<1>4. /\ starts = 0 => \A x \in Daemons : at[x] = "off"
      /\ starts = 1 => \E x \in Daemons : Single(x)
      /\ starts >= 2 => overlapped
  BY <1>1, <1>3 DEF SomeInv
<1>5. Fresh(d)' /\ at'[d] \in Starting
  BY <1>1 DEF Fresh, Took, Holds, Starting
<1>6. CASE starts = 0
  <2>1. Single(d)'
    BY <1>1, <1>2, <1>4, <1>5, <1>6 DEF Single, Starting, Same
  <2>. QED BY <1>1, <1>6, <2>1
<1>7. CASE starts = 1
  <2>1. PICK c \in Daemons : Single(c)
    BY <1>4, <1>7
  <2>2. c # d /\ at[c] \in Starting /\ Same(c) /\ Fresh(c)
    BY <1>1, <1>2, <2>1 DEF Single, Starting
  <2>3. /\ at'[c] = at[c] /\ tries'[c] = tries[c] /\ seen'[c] = seen[c]
        /\ NextPlugin(c)' = NextPlugin(c)
    BY <2>2, Frame
  <2>4. Fresh(c)'
    BY <1>1, <2>2, FreshKept DEF Stale
  <2>5. PICK v \in Plugins : v = NextPlugin(c)
    BY <2>2, WantedIs
  <2>6. Yields(c, d)'
    <3>1. WillTake(c, v) => WillTake(c, v)'
      BY <1>1, <2>3 DEF WillTake
    <3>2. Names(v, d) => Names(v, d)'
      BY <1>1 DEF Names, Stale
    <3>3. at[c] = "judge" /\ seen[c] = d => Names(v, d)
      BY <2>1, <2>5 DEF Single
    <3>4. tries[c] >= 1 => at[c] = "fill" \/ WillTake(c, v)
      BY <2>1, <2>5 DEF Single
    <3>. QED BY <2>3, <2>5, <3>1, <3>2, <3>3, <3>4 DEF Yields
  <2>7. Yields(d, c)'
    BY <1>1 DEF Yields
  <2>8. Duel(c, d)'
    BY <1>5, <2>2, <2>3, <2>6, <2>7 DEF Duel, Starting, Refused
  <2>9. \A x \in Daemons \ {c, d} : at'[x] = "off"
    BY <1>2, <2>1 DEF Single, Same
  <2>10. Pair(c, d)'
    BY <1>5, <2>2, <2>3, <2>4, <2>8, <2>9 DEF Pair, Starting
  <2>11. overlapped'
    BY <1>1, <2>2
  <2>. QED BY <1>1, <1>7, <2>10, <2>11
<1>8. CASE starts >= 2
  <2>1. overlapped'
    BY <1>1, <1>4, <1>8, Zenon
  <2>2. starts' # 0 /\ starts' # 1 /\ starts' # 2
    BY <1>1, <1>8
  <2>. QED BY <2>1, <2>2
<1>. QED BY <1>1, <1>6, <1>7, <1>8

LEMMA PairTurns ==
  ASSUME NEW d \in Daemons, NEW e \in Daemons
  PROVE  (Pair(d, e) <=> Pair(e, d)) /\ (Pair(d, e)' <=> Pair(e, d)')
<1>1. Duel(d, e) <=> Duel(e, d)
  BY DEF Duel
<1>2. Duel(d, e)' <=> Duel(e, d)'
  BY DEF Duel
<1>. QED BY <1>1, <1>2 DEF Pair

(* The steps of one that has started, and was not stopped.                 *)
LEMMA SomeStep ==
  ASSUME LockInv, LockInv', MaxTries >= 2, SomeInv, NEW d \in Daemons,
         \/ Create(d) \/ Fill(d) \/ ReadPid(d) \/ Judge(d) \/ Unlink(d)
         \/ Release(d) \/ RemoveFile(d)
  PROVE  SomeInv'
<1>1. /\ ends' = ends /\ starts' = starts /\ overlapped' = overlapped /\ shows' = shows
  BY DEF Create, Fill, ReadPid, Judge, Unlink, Release, RemoveFile
<1>2. /\ at[d] \in {"create", "fill", "read", "judge", "unlink", "release", "remove"}
      /\ \A x \in Daemons \ {d} : at'[x] = at[x]
  BY DEF Create, Fill, ReadPid, Judge, Unlink, Release, RemoveFile, Go, LockInv, Kinds
<1>3. SameOrder' <=> SameOrder
  BY <1>1 DEF SameOrder
<1>. SUFFICES ASSUME ends = 0, ~misled', \A x \in Daemons : at'[x] # "run"
             PROVE  /\ starts # 0
                    /\ starts = 1 => \E x \in Daemons : Single(x)'
                    /\ starts >= 2 => overlapped
                    /\ starts = 2 /\ SameOrder => \E x, e \in Daemons : Pair(x, e)'
  BY <1>1, <1>3 DEF SomeInv
<1>4. ~misled /\ \A x \in Daemons : at[x] # "run"
  <2>1. misled => misled'
    BY DEF Create, Fill, ReadPid, Judge, Unlink, Release, RemoveFile
  <2>. QED BY <1>2, <2>1
<1>5. /\ starts = 0 => \A x \in Daemons : at[x] = "off"
      /\ starts = 1 => \E x \in Daemons : Single(x)
      /\ starts >= 2 => overlapped
      /\ starts = 2 /\ SameOrder => \E x, e \in Daemons : Pair(x, e)
  BY <1>4 DEF SomeInv
<1>6. ASSUME starts = 1
      PROVE  \E x \in Daemons : Single(x)'
  <2>1. PICK c \in Daemons : Single(c)
    BY <1>5, <1>6
  <2>2. c = d /\ at[d] \in Starting
    BY <1>2, <2>1 DEF Single
  <2>3. ~Release(d) /\ ~RemoveFile(d)
    BY <2>2 DEF Release, RemoveFile, Starting
  <2>4. Single(d)'
    BY <2>1, <2>2, <2>3, SingleNext
  <2>. QED BY <2>4
<1>7. ASSUME starts = 2, SameOrder
      PROVE  \E x, e \in Daemons : Pair(x, e)'
  <2>1. PICK a \in Daemons, b \in Daemons : Pair(a, b)
    BY <1>5, <1>7
  <2>2. PICK e \in Daemons : Pair(d, e)
    <3>1. d = a \/ d = b
      BY <1>2, <2>1 DEF Pair
    <3>. QED BY <2>1, <3>1, PairTurns
  <2>3. Pair(d, e)'
    BY <1>7, <2>2, PairCreate, PairFill, PairReadPid, PairJudge, PairUnlink, PairRelease
  <2>. QED BY <2>3
<1>. QED BY <1>2, <1>5, <1>6, <1>7

LEMMA SomeInit == PidInit => SomeInv
  BY DEF PidInit, SomeInv

LEMMA SomeNext ==
  ASSUME LockInv, LockInv', MaxTries >= 2, SomeInv, [PidNext]_pidVars
  PROVE  SomeInv'
<1>1. CASE OtherProcesses \/ UNCHANGED pidVars
  <2>0. /\ file' = file /\ at' = at /\ shows' = shows /\ held' = held /\ tries' = tries
        /\ seen' = seen /\ starts' = starts /\ ends' = ends /\ overlapped' = overlapped
        /\ misled' = misled
    BY <1>1 DEF OtherProcesses, pidVars
  <2>. USE <2>0
  <2>1. \A d \in Daemons, p \in Plugins :
          Stale(p)' = Stale(p) /\ Took(d, p)' = Took(d, p) /\ WillTake(d, p)' = WillTake(d, p)
    BY DEF Stale, Took, WillTake, Holds, NextPlugin
  <2>2. \A d, e \in Daemons : Pair(d, e)' = Pair(d, e)
    BY DEF Pair, Duel, Fresh, Beats, Yields, Unhindered, Precedes, Gets, Took, WillTake, Holds,
           Names, Stale, NextPlugin
  <2>3. \A d \in Daemons : Single(d)' = Single(d)
    BY DEF Single, Fresh, Took, WillTake, Holds, Names, Stale, NextPlugin
  <2>4. SameOrder' = SameOrder
    BY DEF SameOrder
  <2>. QED BY <2>2, <2>3, <2>4 DEF SomeInv
<1>2. ASSUME NEW d \in Daemons, Signal(d) \/ Crash(d)
      PROVE  SomeInv'
  <2>1. ends' = ends + 1 /\ ends \in Nat
    BY <1>2, Distinct DEF Signal, Crash, LockInv, Kinds
  <2>2. ends' # 0
    BY <2>1
  <2>. QED BY <2>2 DEF SomeInv
<1>3. CASE PidNext
  BY <1>1, <1>2, <1>3, SomeStart, SomeStep DEF PidNext
<1>. QED BY <1>1, <1>3

LEMMA SomePromise == LockInv /\ SomeInv => SomeoneRuns
<1>. SUFFICES ASSUME LockInv, SomeInv, Settled, starts > 0, ends = 0, SameOrder,
                    ~misled,
                    overlapped => starts <= 2 /\ \A p \in Plugins : ~Recycled(p),
                    \A d \in Daemons : at[d] # "run"
             PROVE  FALSE
  BY DEF SomeoneRuns
<1>1. \A d \in Daemons : at[d] = "off"
  BY DEF Settled
<1>2. starts \in Nat
  BY Distinct DEF LockInv, Kinds
<1>3. /\ starts = 1 => \E d \in Daemons : Single(d)
      /\ starts >= 2 => overlapped
      /\ starts = 2 => \E d, e \in Daemons : Pair(d, e)
  BY DEF SomeInv
<1>4. starts # 1
  BY <1>1, <1>3 DEF Single, Starting
<1>5. starts = 2 /\ \A p \in Plugins : ~Recycled(p)
  BY <1>2, <1>3, <1>4
<1>6. PICK d \in Daemons, e \in Daemons : Pair(d, e)
  BY <1>3, <1>5
<1>7. PICK q \in Plugins : Names(q, d) \/ Names(q, e)
  BY <1>1, <1>6 DEF Pair, Duel, Refused
<1>8. Recycled(q)
  BY <1>7 DEF Names, Stale, Recycled
<1>. QED BY <1>5, <1>8

(* Not all refuse, unless one of them was refused because of a process     *)
(* that is no daemon (isAlive asks for any process): of daemons that start *)
(* one after the other one runs, and of two that start at once and name    *)
(* their plugins in the same order, if no file that is left has the pid of *)
(* one of them.  Two attempts for a file are enough; acquirePidFile has    *)
(* five.                                                                   *)
THEOREM SomeoneAlwaysRuns == MaxTries >= 2 /\ PidSpec => []SomeoneRuns
<1>1. MaxTries >= 2 /\ LockInv /\ SomeInv /\ [PidNext]_pidVars => LockInv' /\ SomeInv'
  BY LockNext, SomeNext
<1>. QED
  <2>1. CASE MaxTries >= 2
    BY <2>1, <1>1, PidFileAssumption, LockInit, SomeInit, SomePromise, PTL DEF PidSpec
  <2>2. CASE ~(MaxTries >= 2)
    BY <2>2
  <2>. QED BY <2>1, <2>2
=============================================================================
