----------------------------- MODULE StateStore -----------------------------
(***************************************************************************)
(* The state directory of driver/transport: keys.json, one file for each   *)
(* distinct glyph named by the hash of its pixels, and the glyph files of  *)
(* an older daemon, one for each key.  A call of Reconnecting records its  *)
(* keys and writes what changed; the daemon may end between two writes.    *)
(* A picture is its own hash.  Emoji ids but the custom-glyph sentinel     *)
(* ("image") are part of a look, and so are color and blink.               *)
(***************************************************************************)
EXTENDS Integers, FiniteSets

CONSTANTS
  NumKeys, Looks, Pictures,
  OldGlyphs,       \* the glyph files of an older daemon: a picture for a key, or None
  BareSentinel,    \* whether a client sends the sentinel for a key without a glyph
  DefaultLook,     \* the look of a key that gets a glyph before any key state
  None, Cut,       \* nothing there; a file of the wrong length
  MaxCalls, MaxStarts, MaxFailures, MaxDamage       \* bounds

Keys == 0 .. NumKeys - 1

ASSUME StoreAssumption ==
  /\ NumKeys \in Nat \ {0} /\ DefaultLook \in Looks
  /\ None \notin Pictures /\ Cut \notin Pictures /\ None # Cut
  /\ OldGlyphs \in [Keys -> Pictures \union {None}] /\ BareSentinel \in BOOLEAN
  /\ MaxCalls \in Nat /\ MaxStarts \in Nat /\ MaxFailures \in Nat /\ MaxDamage \in Nat

VARIABLES
  \* what Reconnecting remembers, and the hashes it has files for (onDisk)
  keys, glyphs, onDisk,
  \* the directory: keys.json, the hashed files by name, and the old files
  file, hashed, legacy,
  \* the daemon: where it is, the call that waits for sendMu, the one that
  \* holds it, the keys it has still to record, and whether they changed
  pc, asked, call, todo, changed,
  \* the pictures that each key was ever given
  given,
  calls, starts, failures, damage

memory == <<keys, glyphs, onDisk>>
disk   == <<file, hashed, legacy>>
bounds == <<calls, starts, failures, damage>>
vars   == <<memory, disk, pc, asked, call, todo, changed, given, bounds>>

PictureOrNone == Pictures \union {None}
KeyStates  == [look : Looks, image : BOOLEAN]
StoredKeys == [look : Looks, image : BOOLEAN, glyph : PictureOrNone]
Frames     == [look : Looks, picture : PictureOrNone]

-----------------------------------------------------------------------------
(* The calls that record a key: SendKeyState, SendCustomGlyph, and a Show  *)
(* frames, which names a frame or nothing for each key.                    *)
Requests ==
  [kind : {"state"}, on : Keys, state : KeyStates]
  \union [kind : {"glyph"}, on : Keys, picture : Pictures]
  \union [kind : {"show"}, frames : [Keys -> Frames \union {None}]]

ASSUME NoneAssumption ==
  /\ None \notin KeyStates /\ None \notin StoredKeys /\ None \notin Frames
  /\ None \notin Requests
  /\ \A n \in {None, Cut} : n \notin [Keys -> StoredKeys \union {None}]

Names(r) == IF r.kind = "show" THEN {k \in Keys : r.frames[k] # None} ELSE {r.on}

StateFor(r, k) ==
  CASE r.kind = "state" -> r.state
    [] r.kind = "glyph" -> [look |-> IF keys[k] = None THEN DefaultLook ELSE keys[k].look,
                            image |-> TRUE]
    [] r.kind = "show"  -> [look |-> r.frames[k].look,
                            image |-> r.frames[k].picture # None]

(* The glyph handed to recordKeyLocked, if any.                            *)
GlyphFor(r, k) ==
  CASE r.kind = "state" -> IF r.state.image THEN glyphs[k] ELSE None
    [] r.kind = "glyph" -> r.picture
    [] r.kind = "show"  -> r.frames[k].picture

(* A write to the directory succeeds, or fails and leaves the old file.    *)
Writes(ok) == IF ok THEN UNCHANGED failures
              ELSE failures < MaxFailures /\ failures' = failures + 1

SaveGlyphAndPrune(g) ==
  /\ onDisk' = (onDisk \intersect {glyphs[k] : k \in Keys}) \union ({g} \ {None})
  /\ hashed' = [p \in Pictures |-> IF p \in onDisk' THEN p ELSE None]
  /\ UNCHANGED failures
SaveGlyph(g) ==
  IF g = None \/ g \in onDisk
  THEN UNCHANGED <<onDisk, hashed, failures>>
  ELSE \E ok \in BOOLEAN :
         /\ Writes(ok)
         /\ onDisk' = IF ok THEN onDisk \union {g} ELSE onDisk
         /\ hashed' = IF ok THEN [hashed EXCEPT ![g] = g] ELSE hashed

Differs(k) == keys'[k] # keys[k] \/ glyphs'[k] # glyphs[k]

(* recordKeyLocked.  A daemon that ends between the memory and the glyph   *)
(* file loses the memory, so the two are one step.                         *)
RecordKey(k) ==
  LET s == StateFor(call, k)
      g == GlyphFor(call, k)
  IN /\ pc = "record" /\ k \in todo /\ \A j \in todo : k <= j
     /\ todo' = todo \ {k}
     /\ keys' = [keys EXCEPT ![k] = s]
     /\ glyphs' = [glyphs EXCEPT ![k] = IF g # None THEN g ELSE IF s.image THEN @ ELSE None]
     /\ changed' = (changed \/ Differs(k))
     /\ SaveGlyph(g)
     /\ given' = [given EXCEPT ![k] = @ \union ({g} \ {None})]
     /\ UNCHANGED <<file, legacy, pc, asked, call, calls, starts, damage>>

Stored(k) ==
  IF keys[k] = None THEN None
  ELSE [look |-> keys[k].look, image |-> keys[k].image,
        glyph |-> IF keys[k].image THEN glyphs[k] ELSE None]

(* saveKeysLocked, and then the write to the board, with sendMu held.      *)
SaveKeys ==
  /\ pc = "record" /\ todo = {}
  /\ pc' = "upload"
  /\ IF ~changed THEN UNCHANGED <<file, failures>>
     ELSE \E ok \in BOOLEAN :
            /\ Writes(ok)
            /\ file' = IF ok THEN [k \in Keys |-> Stored(k)] ELSE file
  /\ UNCHANGED <<memory, hashed, legacy, asked, call, todo, changed, given, calls, starts,
                 damage>>

Uploaded ==
  /\ pc = "upload" /\ pc' = "idle" /\ call' = None
  /\ UNCHANGED <<memory, disk, asked, todo, changed, given, bounds>>

(* A goroutine asks for a call, and gets sendMu when nobody holds it.      *)
Ask(r) ==
  /\ pc \notin {"down", "prune"} /\ asked = None /\ calls < MaxCalls
  /\ asked' = r /\ calls' = calls + 1
  /\ UNCHANGED <<memory, disk, pc, call, todo, changed, given, starts, failures, damage>>

Sendable(r) == r.kind = "state" /\ r.state.image => BareSentinel \/ glyphs[r.on] # None

Begin ==
  /\ pc = "idle" /\ asked # None
  /\ asked' = None
  /\ IF Sendable(asked)
     THEN pc' = "record" /\ call' = asked /\ todo' = Names(asked) /\ changed' = FALSE
     ELSE UNCHANGED <<pc, call, todo, changed>>
  /\ UNCHANGED <<memory, disk, given, bounds>>

-----------------------------------------------------------------------------
(* load.  A key whose glyph cannot be read keeps its look and shows none.  *)
Source(k) == IF file[k].glyph # None THEN hashed[file[k].glyph] ELSE legacy[k]

ReadableUnchecked(k) == Source(k) \in Pictures
Readable(k) == Source(k) \in Pictures /\ (file[k].glyph # None => Source(k) = file[k].glyph)

HasKey(k) == file \notin {None, Cut} /\ file[k] # None
HasGlyph(k) == HasKey(k) /\ file[k].image /\ Readable(k)

LoadedGlyph(k) == IF HasGlyph(k) THEN Source(k) ELSE None
LoadedState(k) == IF HasKey(k) THEN [look |-> file[k].look, image |-> HasGlyph(k)] ELSE None

(* The glyphs that load moves from an old file to their hashed name.       *)
Moved == {Source(k) : k \in {j \in Keys : HasGlyph(j) /\ file[j].glyph = None}}
Named == {Source(k) : k \in {j \in Keys : HasGlyph(j) /\ file[j].glyph # None}}

(* The daemon starts: it loads, and then prunes unless keys.json did not   *)
(* parse, which moves that file aside.                                     *)
Start ==
  /\ pc = "down" /\ starts < MaxStarts /\ starts' = starts + 1
  /\ keys' = [k \in Keys |-> LoadedState(k)] /\ glyphs' = [k \in Keys |-> LoadedGlyph(k)]
  /\ pc' = IF file = Cut THEN "idle" ELSE "prune"
  /\ file' = IF file = Cut THEN None ELSE file
  /\ \E failed \in SUBSET (Moved \ Named) :
       /\ failures + Cardinality(failed) <= MaxFailures
       /\ failures' = failures + Cardinality(failed)
       /\ onDisk' = Named \union (Moved \ failed)
       /\ hashed' = [p \in Pictures |-> IF p \in Moved \ (Named \union failed) THEN p
                                        ELSE hashed[p]]
  /\ UNCHANGED <<legacy, asked, call, todo, changed, given, calls, damage>>

(* prune deletes the hashed files that no key shows, one at a time.        *)
Kept == {glyphs[k] : k \in Keys}

Prunable == {p \in Pictures : hashed[p] # None} \ Kept

PruneFile(p) ==
  /\ pc = "prune" /\ p \in Prunable
  /\ hashed' = [hashed EXCEPT ![p] = None] /\ onDisk' = onDisk \ {p}
  /\ UNCHANGED <<keys, glyphs, file, legacy, pc, asked, call, todo, changed, given, bounds>>

(* A file that cannot be removed stays.                                    *)
Pruned ==
  /\ pc = "prune" /\ pc' = "idle"
  /\ Writes(Prunable = {})
  /\ UNCHANGED <<memory, disk, asked, call, todo, changed, given, calls, starts, damage>>

(* The daemon ends, between two steps of a call or in peace.  Nothing is   *)
(* written when it ends.                                                   *)
End ==
  /\ pc # "down" /\ pc' = "down"
  /\ keys' = [k \in Keys |-> None] /\ glyphs' = [k \in Keys |-> None] /\ onDisk' = {}
  /\ asked' = None /\ call' = None /\ todo' = {} /\ changed' = FALSE
  /\ UNCHANGED <<disk, given, bounds>>

(* Something else spoils a file while the daemon is down.                  *)
Spoil ==
  /\ pc = "down" /\ damage < MaxDamage /\ damage' = damage + 1
  /\ \/ file' = Cut /\ UNCHANGED hashed
     \/ \E p \in Pictures, c \in Pictures \union {None, Cut} :
          hashed[p] # None /\ hashed' = [hashed EXCEPT ![p] = c] /\ UNCHANGED file
  /\ UNCHANGED <<memory, legacy, pc, asked, call, todo, changed, given, calls, starts, failures>>

-----------------------------------------------------------------------------
(* The directory is empty, or an older daemon left it: every key shows the *)
(* glyph in its own file, and keys.json names no hash.                     *)
OldFile == [k \in Keys |-> IF OldGlyphs[k] = None THEN None
                           ELSE [look |-> DefaultLook, image |-> TRUE, glyph |-> None]]

Init ==
  /\ pc = "down" /\ asked = None /\ call = None /\ todo = {} /\ changed = FALSE
  /\ keys = [k \in Keys |-> None] /\ glyphs = [k \in Keys |-> None] /\ onDisk = {}
  /\ legacy \in {OldGlyphs, [k \in Keys |-> None]}
  /\ file = IF legacy = OldGlyphs THEN OldFile ELSE None
  /\ hashed = [p \in Pictures |-> None]
  /\ given = [k \in Keys |-> {legacy[k]} \ {None}]
  /\ calls = 0 /\ starts = 0 /\ failures = 0 /\ damage = 0

Next ==
  \/ \E r \in Requests : Ask(r)
  \/ Begin \/ SaveKeys \/ Uploaded \/ Start \/ Pruned \/ End \/ Spoil
  \/ \E k \in Keys : RecordKey(k)
  \/ \E p \in Pictures : PruneFile(p)

Spec == Init /\ [][Next]_vars

-----------------------------------------------------------------------------
TypeOK ==
  /\ keys \in [Keys -> KeyStates \union {None}]
  /\ glyphs \in [Keys -> PictureOrNone] /\ onDisk \subseteq Pictures
  /\ file \in {None, Cut} \union [Keys -> StoredKeys \union {None}]
  /\ hashed \in [Pictures -> Pictures \union {None, Cut}] /\ legacy \in [Keys -> PictureOrNone]
  /\ pc \in {"down", "prune", "idle", "record", "upload"}
  /\ asked \in Requests \union {None} /\ call \in Requests \union {None}
  /\ todo \subseteq Keys /\ changed \in BOOLEAN
  /\ given \in [Keys -> SUBSET Pictures]
  /\ calls \in Nat /\ starts \in Nat /\ failures \in Nat /\ damage \in Nat

(* What a key shows: its look, and the picture if it shows one.  A key at  *)
(* the sentinel without a glyph shows none.                                *)
Shown(k) == IF keys[k] = None THEN None
            ELSE [look |-> keys[k].look, picture |-> IF keys[k].image THEN glyphs[k] ELSE None]
Recovered(k) == IF HasKey(k) THEN [look |-> file[k].look, picture |-> LoadedGlyph(k)] ELSE None

(* The directory implements DurableState: a call that has recorded its     *)
(* keys and saved them survives any end of the daemon, one that has not    *)
(* leaves no trace, and writing glyph files, moving old ones and pruning   *)
(* change nothing that a restart finds, until a write fails or a file is   *)
(* spoiled.                                                                *)
Promise == INSTANCE DurableState WITH
  stage      <- IF pc = "down" THEN "down" ELSE IF pc = "record" THEN "call" ELSE "idle",
  remembered <- [k \in Keys |-> IF pc = "down" THEN Recovered(k) ELSE Shown(k)],
  saved      <- [k \in Keys |-> Recovered(k)],
  whole      <- failures = 0 /\ damage = 0
Durable == Promise!Spec

(* Whatever fails or is spoiled, a restart gives no key a picture that the *)
(* key was never given: it keeps its look and shows no picture instead.    *)
NoForeignPicture ==
  TypeOK /\ \A k \in Keys : LoadedGlyph(k) = None \/ LoadedGlyph(k) \in given[k]
=============================================================================
