------------------------------ MODULE PidFile ------------------------------
(***************************************************************************)
(* inbox/src/daemon.js, acquirePidFile, as cli.js calls it: an inbox       *)
(* daemon takes the pid file of each plugin that it shows before it draws  *)
(* a key.  The processes share nothing but the files.  A process is its    *)
(* pid; Ghost is the pid of one that is long gone.  A pid that no daemon   *)
(* has may be that of a process which has nothing to do with them.         *)
(***************************************************************************)
EXTENDS Integers, Sequences, FiniteSets, SequencesExt

CONSTANTS
  Daemons, Plugins,
  StalePids,                 \* pids that files of earlier processes may hold
  MaxTries,                  \* attempts of acquirePidFile
  MaxStarts, MaxEnds,        \* bounds on starts, and on signals and crashes
  Ghost, NoPid

Pids == Daemons \union {Ghost}
Texts == [by : Pids, pid : Pids \union {NoPid}]

ASSUME PidFileAssumption ==
  /\ MaxTries \in Nat \ {0} /\ MaxStarts \in Nat /\ MaxEnds \in Nat
  /\ StalePids \subseteq Pids /\ Ghost \notin Daemons
  /\ NoPid \notin Pids \union Texts /\ Plugins # {} /\ IsFiniteSet(Plugins)

VARIABLES
  file,              \* the pid file of each plugin: the process that created it (Ghost
                     \* when it is gone), and its text
  at,                \* where each process is
  shows, held,       \* the plugins that a process shows, and those it has a file of
  tries, seen,       \* attempts for this file, and the pid that was read
  starts, ends,
  overlapped,        \* a daemon started while another one was starting
  others,            \* the pids that processes have which are no inbox daemons
  misled             \* a daemon was refused because of one of them

pidVars == <<file, at, shows, held, tries, seen, starts, ends, overlapped, others, misled>>

Lists == SetToSeqs(Plugins) \union {<<p>> : p \in Plugins}   \* --plugin A,B or --plugin A

Starting == {"create", "fill", "read", "judge", "unlink"}
Runs(pid) == pid \in Daemons /\ at[pid] # "off"
Alive(pid) == Runs(pid) \/ pid \in others
NextPlugin(d) == shows[d][Len(held[d]) + 1]
Pid(p) == IF file[p] = NoPid THEN NoPid ELSE file[p].pid

Go(d, step) == at' = [at EXCEPT ![d] = step]

-----------------------------------------------------------------------------
RunDaemon(d) ==
  /\ at[d] = "off" /\ d \notin others /\ starts < MaxStarts /\ starts' = starts + 1
  /\ overlapped' = (overlapped \/ \E e \in Daemons : at[e] \in Starting)
  /\ shows' \in {[shows EXCEPT ![d] = s] : s \in Lists}
  /\ held' = [held EXCEPT ![d] = <<>>] /\ tries' = [tries EXCEPT ![d] = 0]
  /\ Go(d, "create")
  /\ UNCHANGED <<file, seen, ends, others, misled>>

(* writeFileSync with wx: the file is created, and then gets its text.     *)
CreateAnyway(d) ==
  /\ at[d] = "create" /\ Go(d, "fill")
  /\ file' = [file EXCEPT ![NextPlugin(d)] = [by |-> d, pid |-> NoPid]]
  /\ UNCHANGED <<shows, held, tries, seen, starts, ends, overlapped, others, misled>>
Create(d) ==
  /\ at[d] = "create"
  /\ IF file[NextPlugin(d)] = NoPid
     THEN file' = [file EXCEPT ![NextPlugin(d)] = [by |-> d, pid |-> NoPid]] /\ Go(d, "fill")
     ELSE UNCHANGED file /\ Go(d, "read")
  /\ UNCHANGED <<shows, held, tries, seen, starts, ends, overlapped, others, misled>>
Fill(d) ==
  LET p == NextPlugin(d)
  IN /\ at[d] = "fill"
     /\ file' = IF file[p] # NoPid /\ file[p].by = d THEN [file EXCEPT ![p].pid = d] ELSE file
     /\ held' = [held EXCEPT ![d] = Append(@, p)] /\ tries' = [tries EXCEPT ![d] = 0]
     /\ Go(d, IF held'[d] = shows[d] THEN "run" ELSE "create")
     /\ UNCHANGED <<shows, seen, starts, ends, overlapped, others, misled>>

(* The file exists: its pid is read, and the process looked for.           *)
ReadPid(d) ==
  /\ at[d] = "read" /\ Go(d, "judge")
  /\ seen' = [seen EXCEPT ![d] = Pid(NextPlugin(d))]
  /\ UNCHANGED <<file, shows, held, tries, starts, ends, overlapped, others, misled>>
OthersAndOwn(d, pid) == pid # NoPid /\ Alive(pid)
RunsAlready(d, pid) == pid # NoPid /\ pid # d /\ Alive(pid)
Judge(d) ==
  /\ at[d] = "judge" /\ Go(d, IF RunsAlready(d, seen[d]) THEN "release" ELSE "unlink")
  /\ misled' = (misled \/ (seen[d] \in others /\ RunsAlready(d, seen[d])))
  /\ UNCHANGED <<file, shows, held, tries, seen, starts, ends, overlapped, others>>
Unlink(d) ==
  /\ at[d] = "unlink"
  /\ file' = [file EXCEPT ![NextPlugin(d)] = NoPid]
  /\ tries' = [tries EXCEPT ![d] = @ + 1]
  /\ Go(d, IF tries'[d] = MaxTries THEN "release" ELSE "create")
  /\ UNCHANGED <<shows, held, seen, starts, ends, overlapped, others, misled>>

-----------------------------------------------------------------------------
(* A signal; then every file is released, in the order of the plugins: the *)
(* pid is read, and the file removed when it is the own one.               *)
Signal(d) ==
  /\ at[d] = "run" /\ ends < MaxEnds /\ ends' = ends + 1 /\ Go(d, "release")
  /\ UNCHANGED <<file, shows, held, tries, seen, starts, overlapped, others, misled>>

Release(d) ==
  /\ at[d] = "release"
  /\ IF held[d] = <<>> THEN Go(d, "off") /\ UNCHANGED held
     ELSE IF Pid(Head(held[d])) = d THEN Go(d, "remove") /\ UNCHANGED held
     ELSE held' = [held EXCEPT ![d] = Tail(@)] /\ UNCHANGED at
  /\ UNCHANGED <<file, shows, tries, seen, starts, ends, overlapped, others, misled>>
RemoveFile(d) ==
  /\ at[d] = "remove" /\ Go(d, "release")
  /\ file' = [file EXCEPT ![Head(held[d])] = NoPid]
  /\ held' = [held EXCEPT ![d] = Tail(@)]
  /\ UNCHANGED <<shows, tries, seen, starts, ends, overlapped, others, misled>>

(* Other processes come and go, with pids that no daemon has.              *)
OtherProcesses ==
  /\ \E pid \in Pids : ~Runs(pid) /\ others' = SymDiff(others, {pid})
  /\ UNCHANGED <<file, at, shows, held, tries, seen, starts, ends, overlapped, misled>>

Crash(d) ==
  /\ at[d] # "off" /\ ends < MaxEnds /\ ends' = ends + 1
  /\ Go(d, "off")
  /\ file' = [p \in Plugins |->
                IF file[p] # NoPid /\ file[p].by = d THEN [file[p] EXCEPT !.by = Ghost] ELSE file[p]]
  /\ UNCHANGED <<shows, held, tries, seen, starts, overlapped, others, misled>>

PidInit ==
  /\ file \in [Plugins -> {NoPid} \union {[by |-> Ghost, pid |-> t] : t \in StalePids}]
  /\ at = [d \in Daemons |-> "off"]
  /\ shows = [d \in Daemons |-> <<>>] /\ held = shows
  /\ tries = [d \in Daemons |-> 0] /\ seen = [d \in Daemons |-> NoPid]
  /\ starts = 0 /\ ends = 0 /\ overlapped = FALSE
  /\ others \in SUBSET Pids /\ misled = FALSE

PidNext ==
  \/ OtherProcesses
  \/ \E d \in Daemons :
    \/ RunDaemon(d) \/ Create(d) \/ Fill(d) \/ ReadPid(d) \/ Judge(d) \/ Unlink(d)
    \/ Signal(d) \/ Release(d) \/ RemoveFile(d) \/ Crash(d)

PidSpec == PidInit /\ [][PidNext]_pidVars

-----------------------------------------------------------------------------
PidTypeOK ==
  /\ file \in [Plugins -> Texts \union {NoPid}]
  /\ at \in [Daemons -> Starting \union {"off", "run", "release", "remove"}]
  /\ shows \in [Daemons -> Lists \union {<<>>}]
  /\ \A d \in Daemons :
       IsPrefix(held[d], shows[d])
       \/ (at[d] \in {"release", "remove", "off"} /\ ToSet(held[d]) \subseteq ToSet(shows[d]))
  /\ tries \in [Daemons -> 0 .. MaxTries] /\ seen \in [Daemons -> Pids \union {NoPid}]
  /\ starts \in 0 .. MaxStarts /\ ends \in 0 .. MaxEnds /\ overlapped \in BOOLEAN
  /\ others \subseteq Pids /\ misled \in BOOLEAN

(* One daemon runs per store and plugin (inbox/README.md), if no two start *)
(* at once: the second of two that do reads an empty file, or one that the *)
(* first has replaced, and removes it.  And a process that was refused, or *)
(* stopped, leaves no file behind: whoever wrote one that is there holds   *)
(* it, or has crashed (runDaemon, releaseAll).                             *)
Running(p) == {d \in Daemons : at[d] = "run" /\ p \in ToSet(held[d])}
FilesHaveHolders ==
  \A p \in Plugins :
    (file[p] # NoPid /\ file[p].by # Ghost /\ file[p].pid # NoPid) => p \in ToSet(held[file[p].by])
OneRuns ==
  /\ PidTypeOK /\ FilesHaveHolders
  /\ ~overlapped => \A p \in Plugins : \A d, e \in Running(p) : d = e

(* Daemons that name their plugins in the same order do not all refuse:    *)
(* when none was stopped, one of them runs ("A pid file whose process is   *)
(* gone is replaced", inbox/README.md).  There are two exceptions.  A file *)
(* whose pid has gone to a process that is no daemon refuses every start:  *)
(* isAlive asks for any process.  And when two start at once, a third      *)
(* start or a stale file with the pid that one of them was given can make  *)
(* all refuse: each finds another one that is still there.                 *)
SameOrder ==
  \A d, e \in Daemons : \A i, j \in DOMAIN shows[d], k, l \in DOMAIN shows[e] :
    (i < j /\ shows[d][i] = shows[e][k] /\ shows[d][j] = shows[e][l]) => k < l
Settled == \A d \in Daemons : at[d] \in {"off", "run"}
Recycled(p) == file[p] # NoPid /\ file[p].by = Ghost /\ file[p].pid \in Daemons
SomeoneRuns ==
  (/\ Settled /\ starts > 0 /\ ends = 0 /\ SameOrder /\ ~misled
   /\ overlapped => starts <= 2 /\ \A p \in Plugins : ~Recycled(p))
    => \E d \in Daemons : at[d] = "run"
=============================================================================
