------------------------- MODULE StateStoreProofs -------------------------
(***************************************************************************)
(* Proofs about the state directory, for any number of keys, any set of    *)
(* pictures and any directory that an older daemon left: a restart gives   *)
(* no key a picture of another, whatever fails or is spoiled; and          *)
(* StateStore implements DurableState, unless a client sends the sentinel  *)
(* for a key that has no glyph.                                            *)
(***************************************************************************)
EXTENDS StateStore, FiniteSetTheorems, TLAPS

(* Where a picture of a key can come from was given to the key; a call is  *)
(* under way while keys are recorded.                                      *)
GlyphsGiven == \A k \in Keys : {glyphs[k], legacy[k]} \ {None} \subseteq given[k]
FileGiven   == \A k \in Keys : HasKey(k) => {file[k].glyph} \ {None} \subseteq given[k]
CallInOrder == /\ pc = "record" => call # None /\ todo \subseteq Names(call)
               /\ pc \in {"idle", "prune", "down"} => call = None

Inv == TypeOK /\ GlyphsGiven /\ FileGiven /\ CallInOrder

-----------------------------------------------------------------------------
(* What the three kinds of request are made of.                            *)
LEMMA RequestParts ==
  ASSUME NEW r \in Requests
  PROVE  /\ r.kind \in {"state", "glyph", "show"}
         /\ r.kind = "state" => r.on \in Keys /\ r.state \in KeyStates
         /\ r.kind = "glyph" => r.on \in Keys /\ r.picture \in Pictures
         /\ r.kind = "show" => r.frames \in [Keys -> Frames \union {None}]
         /\ Names(r) \subseteq Keys
         /\ \A k \in Names(r) : r.kind = "show" => r.frames[k] \in Frames
  BY DEF Requests, Names

(* What a request makes of a key that it names.                            *)
LEMMA RecordedParts ==
  ASSUME TypeOK, NEW r \in Requests, NEW k \in Names(r)
  PROVE  /\ StateFor(r, k) \in KeyStates
         /\ GlyphFor(r, k) \in PictureOrNone
  <1>1. k \in Keys
    BY RequestParts
  <1>2. CASE r.kind = "state"
    BY <1>1, <1>2, RequestParts DEF StateFor, GlyphFor, TypeOK, PictureOrNone, KeyStates
  <1>3. CASE r.kind = "glyph"
    <2>1. StateFor(r, k) = [look |-> IF keys[k] = None THEN DefaultLook ELSE keys[k].look,
                            image |-> TRUE]
      BY <1>3 DEF StateFor
    <2>2. GlyphFor(r, k) = r.picture
      BY <1>3 DEF GlyphFor
    <2>3. (IF keys[k] = None THEN DefaultLook ELSE keys[k].look) \in Looks
      BY <1>1, StoreAssumption DEF TypeOK, KeyStates
    <2> QED
      BY <1>3, <2>1, <2>2, <2>3, RequestParts DEF KeyStates, PictureOrNone
  <1>4. CASE r.kind = "show"
    <2>1. r.frames[k] \in Frames
      BY <1>4, RequestParts
    <2>2. /\ StateFor(r, k) = [look |-> r.frames[k].look, image |-> r.frames[k].picture # None]
          /\ GlyphFor(r, k) = r.frames[k].picture
      BY <1>4 DEF StateFor, GlyphFor
    <2> QED
      BY <2>1, <2>2 DEF Frames, KeyStates, PictureOrNone
  <1> QED
    BY <1>2, <1>3, <1>4, RequestParts

-----------------------------------------------------------------------------
(* The first state: nothing is remembered, and the old files are the       *)
(* keys' own.                                                              *)
LEMMA InitInv == Init => Inv
  <1> SUFFICES ASSUME Init PROVE Inv
    OBVIOUS
  <1>1. legacy \in [Keys -> PictureOrNone]
    BY StoreAssumption DEF Init, PictureOrNone
  <1>2. OldFile \in [Keys -> StoredKeys \union {None}]
    BY StoreAssumption DEF OldFile, StoredKeys, PictureOrNone
  <1>3. file \in {None, Cut} \union [Keys -> StoredKeys \union {None}]
    BY <1>2 DEF Init
  <1>4. given \in [Keys -> SUBSET Pictures]
    BY <1>1 DEF Init, PictureOrNone
  <1>5. FileGiven
    BY DEF Init, FileGiven, HasKey, OldFile
  <1>6. GlyphsGiven /\ CallInOrder
    BY DEF Init, GlyphsGiven, CallInOrder
  <1> QED
    BY <1>1, <1>3, <1>4, <1>5, <1>6 DEF Init, Inv, TypeOK, PictureOrNone

(* The files that the glyphs of this directory come from are finitely      *)
(* many.                                                                   *)
LEMMA KeysAreFinite == IsFiniteSet(Keys)
  BY StoreAssumption, FS_Interval DEF Keys

LEMMA MovedIsFinite == IsFiniteSet(Moved) /\ \A S \in SUBSET Moved : Cardinality(S) \in Nat
  <1> DEFINE S == {j \in Keys : HasGlyph(j) /\ file[j].glyph = None}
             f == [x \in S |-> Source(x)]
  <1>1. IsFiniteSet(S)
    BY KeysAreFinite, FS_Subset
  <1>2. f \in Surjection(S, Moved)
    BY DEF Surjection, Moved
  <1>3. IsFiniteSet(Moved)
    BY <1>1, <1>2, FS_Surjection
  <1> QED
    BY <1>3, FS_Subset, FS_CardinalityType

(* A glyph that load reads is a picture.                                   *)
LEMMA LoadedParts ==
  ASSUME TypeOK, NEW k \in Keys
  PROVE  /\ LoadedGlyph(k) \in PictureOrNone
         /\ LoadedState(k) \in KeyStates \union {None}
         /\ HasKey(k) => file[k] \in StoredKeys
         /\ HasGlyph(k) => Source(k) \in Pictures
         /\ HasGlyph(k) \in BOOLEAN
  <1>1. HasKey(k) => file[k] \in StoredKeys
    BY DEF HasKey, TypeOK
  <1>2. HasGlyph(k) => Source(k) \in Pictures
    BY DEF HasGlyph, Readable
  <1>3. HasGlyph(k) \in BOOLEAN
    BY <1>1 DEF HasGlyph, HasKey, Readable, StoredKeys
  <1> QED
    BY <1>1, <1>2, <1>3 DEF LoadedGlyph, LoadedState, PictureOrNone, KeyStates, StoredKeys

(* A glyph file that is saved holds the picture of its name, and a write   *)
(* that fails is counted.                                                  *)
LEMMA SavedGlyph ==
  ASSUME TypeOK, NEW g \in PictureOrNone, SaveGlyph(g)
  PROVE  /\ onDisk' \subseteq Pictures /\ hashed' \in [Pictures -> Pictures \union {None, Cut}]
         /\ failures' \in Nat /\ failures' >= failures
         /\ \A p \in Pictures : hashed'[p] # hashed[p] => p = g /\ hashed'[p] = p
         /\ onDisk \subseteq onDisk' /\ onDisk' \subseteq onDisk \union {g}
         /\ g \in onDisk' \ onDisk => hashed'[g] = g
         /\ failures' = failures /\ g # None => g \in onDisk'
  <1>1. CASE g = None \/ g \in onDisk
    BY <1>1 DEF SaveGlyph, TypeOK
  <1>2. CASE ~(g = None \/ g \in onDisk)
    <2>1. g \in Pictures
      BY <1>2 DEF PictureOrNone
    <2>2. PICK ok \in BOOLEAN :
            /\ Writes(ok)
            /\ onDisk' = (IF ok THEN onDisk \union {g} ELSE onDisk)
            /\ hashed' = (IF ok THEN [hashed EXCEPT ![g] = g] ELSE hashed)
      BY <1>2, Zenon DEF SaveGlyph
    <2>3. CASE ok = TRUE
      BY <2>1, <2>2, <2>3 DEF TypeOK, Writes
    <2>4. CASE ok = FALSE
      BY <2>1, <2>2, <2>4 DEF TypeOK, Writes
    <2> QED
      BY <2>3, <2>4
  <1> QED
    BY <1>1, <1>2

(* A key is recorded with a picture that was given to it.                  *)
LEMMA RecordKeyInv ==
  ASSUME Inv, NEW k \in Keys, RecordKey(k)
  PROVE  Inv'
  <1> DEFINE s == StateFor(call, k)
             g == GlyphFor(call, k)
  <1>1. /\ pc = "record" /\ k \in todo /\ call # None
        /\ todo' = todo \ {k}
        /\ keys' = [keys EXCEPT ![k] = s]
        /\ glyphs' = [glyphs EXCEPT ![k] = IF g # None THEN g ELSE IF s.image THEN @ ELSE None]
        /\ changed' = (changed \/ Differs(k))
        /\ SaveGlyph(g)
        /\ given' = [given EXCEPT ![k] = @ \union ({g} \ {None})]
        /\ UNCHANGED <<file, legacy, pc, asked, call, calls, starts, damage>>
    BY DEF RecordKey, Inv, CallInOrder
  <1> HIDE DEF s, g
  <1>2. s \in KeyStates /\ g \in PictureOrNone
    <2>1. call \in Requests
      BY <1>1 DEF Inv, TypeOK
    <2>2. k \in Names(call)
      BY <2>1, <1>1 DEF Inv, CallInOrder
    <2> QED
      BY <2>1, <2>2, RecordedParts DEF Inv, s, g
  <1>3. /\ onDisk' \subseteq Pictures /\ hashed' \in [Pictures -> Pictures \union {None, Cut}]
        /\ failures' \in Nat
    BY <1>1, <1>2, SavedGlyph DEF Inv
  <1>4. /\ keys' \in [Keys -> KeyStates \union {None}] /\ glyphs' \in [Keys -> PictureOrNone]
        /\ given' \in [Keys -> SUBSET Pictures]
    BY <1>1, <1>2 DEF Inv, TypeOK, PictureOrNone
  <1>5. TypeOK'
    BY <1>1, <1>3, <1>4, Zenon DEF Inv, TypeOK
  <1>6. GlyphsGiven'
    BY <1>1, <1>2 DEF Inv, TypeOK, GlyphsGiven
  <1>7. FileGiven' /\ CallInOrder'
    BY <1>1, <1>2 DEF Inv, TypeOK, FileGiven, CallInOrder, HasKey
  <1> QED
    BY <1>5, <1>6, <1>7 DEF Inv

(* keys.json names pictures that the keys show when it is written.         *)
LEMMA SaveKeysInv ==
  ASSUME Inv, SaveKeys
  PROVE  Inv'
  <1>1. PICK ok \in BOOLEAN :
          /\ failures' \in Nat
          /\ file' = (IF changed /\ ok THEN [k \in Keys |-> Stored(k)] ELSE file)
    <2>1. CASE ~changed
      <3>1. failures' \in Nat /\ file' = file
        BY <2>1 DEF SaveKeys, Inv, TypeOK
      <3> QED
        BY <2>1, <3>1, Zenon
    <2>2. CASE changed
      <3>1. PICK ok \in BOOLEAN :
              /\ Writes(ok)
              /\ file' = (IF ok THEN [k \in Keys |-> Stored(k)] ELSE file)
        BY <2>2, Zenon DEF SaveKeys
      <3>2. failures' \in Nat
        BY <3>1 DEF Writes, Inv, TypeOK
      <3> QED
        BY <2>2, <3>1, <3>2, Zenon
    <2> QED
      BY <2>1, <2>2
  <1>2. /\ pc = "record" /\ pc' = "upload"
        /\ UNCHANGED <<memory, hashed, legacy, asked, call, todo, changed, given, calls,
                       starts, damage>>
    BY Zenon DEF SaveKeys
  <1>3. \A k \in Keys : Stored(k) \in StoredKeys \union {None}
    BY DEF Inv, TypeOK, Stored, StoredKeys, KeyStates, PictureOrNone
  <1>4. CASE file' = file
    <2>1. TypeOK'
      BY <1>1, <1>2, <1>4 DEF Inv, TypeOK, memory
    <2>2. GlyphsGiven' /\ FileGiven' /\ CallInOrder'
      BY <1>1, <1>2, <1>4 DEF Inv, TypeOK, memory, GlyphsGiven, FileGiven, CallInOrder, HasKey
    <2> QED
      BY <2>1, <2>2 DEF Inv
  <1>5. CASE file' = [k \in Keys |-> Stored(k)]
    <2>1. TypeOK'
      BY <1>1, <1>2, <1>3, <1>5 DEF Inv, TypeOK, memory
    <2>2. GlyphsGiven' /\ CallInOrder'
      BY <1>1, <1>2 DEF Inv, TypeOK, memory, GlyphsGiven, CallInOrder
    <2>3. ASSUME NEW k \in Keys, file'[k] # None
          PROVE  {file'[k].glyph} \ {None} \subseteq given[k]
      <3>1. file'[k] = Stored(k) /\ keys[k] # None
        BY <1>5, <2>3 DEF Stored
      <3>2. file'[k].glyph \in {glyphs[k], None}
        BY <3>1 DEF Stored
      <3> QED
        BY <3>2 DEF Inv, GlyphsGiven
    <2>4. FileGiven'
      BY <1>2, <2>3 DEF FileGiven, HasKey
    <2> QED
      BY <2>1, <2>2, <2>4 DEF Inv
  <1> QED
    BY <1>1, <1>4, <1>5

(* What is loaded has the types of what is remembered, and every picture   *)
(* that is loaded is the key's own.                                        *)
LEMMA LoadedIsGiven ==
  ASSUME Inv, NEW k \in Keys
  PROVE  LoadedGlyph(k) = None \/ LoadedGlyph(k) \in given[k]
  <1> SUFFICES ASSUME HasGlyph(k)
               PROVE  Source(k) \in given[k]
    BY DEF LoadedGlyph
  <1>1. HasKey(k) /\ Source(k) \in Pictures /\ file[k].glyph \in PictureOrNone
    BY LoadedParts DEF HasGlyph, Readable, StoredKeys, Inv
  <1>2. CASE file[k].glyph # None
    BY <1>1, <1>2 DEF Inv, FileGiven, HasGlyph, Readable
  <1>3. CASE file[k].glyph = None
    BY <1>1, <1>3, StoreAssumption DEF Inv, GlyphsGiven, Source
  <1> QED
    BY <1>2, <1>3

LEMMA StartInv ==
  ASSUME Inv, Start
  PROVE  Inv'
  <1>1. /\ pc = "down" /\ starts' = starts + 1
        /\ keys' = [k \in Keys |-> LoadedState(k)] /\ glyphs' = [k \in Keys |-> LoadedGlyph(k)]
        /\ pc' = (IF file = Cut THEN "idle" ELSE "prune")
        /\ file' = (IF file = Cut THEN None ELSE file)
        /\ UNCHANGED <<legacy, asked, call, todo, changed, given, calls, damage>>
    BY Zenon DEF Start
  <1>2. PICK failed \in SUBSET (Moved \ Named) :
          /\ failures' = failures + Cardinality(failed)
          /\ onDisk' = Named \union (Moved \ failed)
          /\ hashed' = [p \in Pictures |-> IF p \in Moved \ (Named \union failed) THEN p
                                           ELSE hashed[p]]
    BY Zenon DEF Start
  <1>3. failures' \in Nat
    <2>1. Cardinality(failed) \in Nat
      BY MovedIsFinite
    <2> QED
      BY <1>2, <2>1 DEF Inv, TypeOK
  <1>4. onDisk' \subseteq Pictures
    BY <1>2, LoadedParts DEF Inv, Named, Moved
  <1>5. hashed' \in [Pictures -> Pictures \union {None, Cut}]
    BY <1>2 DEF Inv, TypeOK
  <1>6. keys' \in [Keys -> KeyStates \union {None}] /\ glyphs' \in [Keys -> PictureOrNone]
    BY <1>1, LoadedParts DEF Inv
  <1>7. TypeOK'
    BY <1>1, <1>3, <1>4, <1>5, <1>6 DEF Inv, TypeOK
  <1>8. GlyphsGiven'
    BY <1>1, LoadedIsGiven DEF Inv, GlyphsGiven
  <1>9. FileGiven' /\ CallInOrder'
    BY <1>1 DEF Inv, FileGiven, CallInOrder, HasKey
  <1> QED
    BY <1>7, <1>8, <1>9 DEF Inv

(* The steps that touch neither a picture of a key nor keys.json.          *)
LEMMA CallInv ==
  ASSUME Inv, (\E r \in Requests : Ask(r)) \/ Begin \/ Uploaded
  PROVE  Inv'
  <1>1. UNCHANGED <<memory, disk, given>>
    BY Zenon DEF Ask, Begin, Uploaded
  <1>2. TypeOK' /\ CallInOrder'
    <2>1. CASE \E r \in Requests : Ask(r)
      BY <2>1 DEF Inv, TypeOK, CallInOrder, Ask, memory, disk
    <2>2. CASE Begin
      BY <2>2, RequestParts, NoneAssumption DEF Inv, TypeOK, CallInOrder, Begin, memory, disk, bounds
    <2>3. CASE Uploaded
      BY <2>3 DEF Inv, TypeOK, CallInOrder, Uploaded, memory, disk, bounds
    <2> QED
      BY <2>1, <2>2, <2>3
  <1> QED
    BY <1>1, <1>2 DEF Inv, GlyphsGiven, FileGiven, HasKey, memory, disk

LEMMA PruneInv ==
  ASSUME Inv, (\E p \in Pictures : PruneFile(p)) \/ Pruned
  PROVE  Inv'
  <1>1. /\ UNCHANGED <<keys, glyphs, file, legacy, asked, call, todo, changed, given>>
        /\ pc = "prune" /\ pc' \in {"prune", "idle"}
    BY Zenon DEF PruneFile, Pruned, memory, disk
  <1>2. TypeOK'
    <2>1. CASE \E p \in Pictures : PruneFile(p)
      BY <2>1 DEF Inv, TypeOK, PruneFile, bounds
    <2>2. CASE Pruned
      BY <2>2 DEF Inv, TypeOK, Pruned, memory, disk, Writes
    <2> QED
      BY <2>1, <2>2
  <1> QED
    BY <1>1, <1>2 DEF Inv, GlyphsGiven, FileGiven, CallInOrder, HasKey

(* The daemon ends, or a file is spoiled while it is down.                 *)
LEMMA DownInv ==
  ASSUME Inv, End \/ Spoil
  PROVE  Inv'
  <1>1. CASE End
    BY <1>1 DEF End, Inv, TypeOK, GlyphsGiven, FileGiven, CallInOrder, HasKey, PictureOrNone,
                disk, bounds
  <1>2. CASE Spoil
    <2>1. TypeOK'
      BY <1>2 DEF Spoil, Inv, TypeOK, memory
    <2>2. GlyphsGiven' /\ CallInOrder'
      BY <1>2 DEF Spoil, Inv, GlyphsGiven, CallInOrder, memory
    <2>3. FileGiven'
      BY <1>2 DEF Spoil, Inv, FileGiven, HasKey
    <2> QED
      BY <2>1, <2>2, <2>3 DEF Inv
  <1> QED
    BY <1>1, <1>2

LEMMA StepInv == Inv /\ [Next]_vars => Inv'
  <1> SUFFICES ASSUME Inv, [Next]_vars PROVE Inv'
    OBVIOUS
  <1>1. CASE UNCHANGED vars
    BY <1>1 DEF Inv, TypeOK, GlyphsGiven, FileGiven, CallInOrder, HasKey, vars, memory, disk,
                bounds
  <1>2. CASE \E k \in Keys : RecordKey(k)
    BY <1>2, RecordKeyInv
  <1>3. CASE (\E r \in Requests : Ask(r)) \/ Begin \/ Uploaded
    BY <1>3, CallInv
  <1>4. CASE (\E p \in Pictures : PruneFile(p)) \/ Pruned
    BY <1>4, PruneInv
  <1>5. CASE SaveKeys \/ Start \/ End \/ Spoil
    BY <1>5, SaveKeysInv, StartInv, DownInv
  <1> QED
    BY <1>1, <1>2, <1>3, <1>4, <1>5 DEF Next

LEMMA AlwaysInv == Spec => []Inv
  BY InitInv, StepInv, PTL DEF Spec

(* The variables keep their types, failed writes and spoiled files         *)
(* included (the state of Reconnecting and of StateDir).                   *)
THEOREM TypeCorrect == Spec => []TypeOK
  BY AlwaysInv, PTL DEF Inv

(* Whatever write of the state directory fails and whatever file is        *)
(* spoiled, load gives no key a picture that the key was never given.      *)
THEOREM RestartsGiveOwnPictures == Spec => []NoForeignPicture
  <1>1. Inv => NoForeignPicture
    BY LoadedIsGiven DEF Inv, NoForeignPicture
  <1> QED
    BY <1>1, AlwaysInv, PTL

-----------------------------------------------------------------------------
(* The state of DurableState that a state of StateStore stands for.        *)
Stage      == IF pc = "down" THEN "down" ELSE IF pc = "record" THEN "call" ELSE "idle"
Remembered == [k \in Keys |-> IF pc = "down" THEN Recovered(k) ELSE Shown(k)]
Saved      == [k \in Keys |-> Recovered(k)]
Whole      == failures = 0 /\ damage = 0
Image      == <<Stage, Remembered, Saved, Whole>>

(* A hashed file that Reconnecting counts on holds its picture; keys.json  *)
(* and the memory name only such files; but for a call that has changed    *)
(* the memory, a restart finds what is shown; and a key that is about to   *)
(* show its glyph has one.                                                 *)
DiskHeld == (pc = "down" => onDisk = {}) /\ \A p \in onDisk : hashed[p] = p
SentinelBacked ==
  pc = "record" /\ call.kind = "state" /\ call.state.image /\ call.on \in todo
    => glyphs[call.on] # None

FileBacked   == \A k \in Keys : HasKey(k) /\ file[k].glyph # None
                  => file[k].image /\ hashed[file[k].glyph] = file[k].glyph
MemoryBacked == \A k \in Keys : keys[k] # None /\ keys[k].image
                  => glyphs[k] # None /\ hashed[glyphs[k]] = glyphs[k]
Settled      == pc \in {"idle", "prune", "upload"} \/ (pc = "record" /\ ~changed)
SavedIsShown == Settled => \A k \in Keys : Recovered(k) = Shown(k)

Backed == FileBacked /\ MemoryBacked /\ SavedIsShown
DurInv == Inv /\ DiskHeld /\ SentinelBacked /\ (Whole => Backed)

-----------------------------------------------------------------------------
(* Harm is never undone.                                                   *)
LEMMA HarmLasts ==
  ASSUME Inv, [Next]_vars, Whole'
  PROVE  Whole /\ failures' = failures /\ damage' = damage
  <1>1. /\ failures \in Nat /\ damage \in Nat /\ failures' = 0 /\ damage' = 0
    BY DEF Inv, TypeOK, Whole
  <1>2. failures' >= failures /\ damage' >= damage
    <2>1. CASE UNCHANGED bounds
      BY <1>1, <2>1 DEF bounds
    <2>2. CASE \E k \in Keys : RecordKey(k)
      <3>1. PICK k \in Keys : RecordKey(k)
        BY <2>2
      <3>2. call \in Requests /\ k \in Names(call)
        BY <3>1 DEF RecordKey, Inv, TypeOK, CallInOrder
      <3>3. SaveGlyph(GlyphFor(call, k)) /\ damage' = damage
        BY <3>1 DEF RecordKey
      <3> QED
        BY <1>1, <3>2, <3>3, RecordedParts, SavedGlyph DEF Inv
    <2>3. CASE SaveKeys \/ Pruned
      BY <1>1, <2>3 DEF SaveKeys, Pruned, Writes
    <2>4. CASE Start
      <3>1. PICK failed \in SUBSET (Moved \ Named) : failures' = failures + Cardinality(failed)
        BY <2>4, Zenon DEF Start
      <3>2. Cardinality(failed) \in Nat
        BY MovedIsFinite
      <3> QED
        BY <1>1, <2>4, <3>1, <3>2 DEF Start
    <2>5. CASE (\E r \in Requests : Ask(r)) \/ Spoil
      BY <1>1, <2>5 DEF Ask, Spoil
    <2>6. CASE Begin \/ Uploaded \/ End \/ UNCHANGED vars
      BY <2>1, <2>6 DEF Begin, Uploaded, End, vars
    <2>7. CASE \E p \in Pictures : PruneFile(p)
      BY <2>1, <2>7 DEF PruneFile
    <2> QED
      BY <2>2, <2>3, <2>4, <2>5, <2>6, <2>7 DEF Next
  <1> QED
    BY <1>1, <1>2 DEF Whole

(* What load finds in the directory under a hash is its picture.           *)
LEMMA NamedHeld == \A p \in Named : hashed[p] = p
  BY DEF Named, HasGlyph, Readable, Source

(* A recorded key, with the parts that the proofs use.                     *)
LEMMA RecordKeyParts ==
  ASSUME Inv, NEW k \in Keys, RecordKey(k)
  PROVE  /\ pc = "record" /\ pc' = pc /\ call' = call /\ call \in Requests /\ k \in Names(call)
         /\ k \in todo /\ todo' = todo \ {k}
         /\ file' = file /\ legacy' = legacy
         /\ keys' = [keys EXCEPT ![k] = StateFor(call, k)]
         /\ glyphs' = [glyphs EXCEPT ![k] = IF GlyphFor(call, k) # None THEN GlyphFor(call, k)
                                            ELSE IF StateFor(call, k).image THEN @ ELSE None]
         /\ SaveGlyph(GlyphFor(call, k))
         /\ StateFor(call, k) \in KeyStates /\ GlyphFor(call, k) \in PictureOrNone
  <1>1. /\ pc = "record" /\ pc' = pc /\ call' = call /\ call \in Requests /\ k \in Names(call)
    BY DEF RecordKey, Inv, TypeOK, CallInOrder
  <1> QED
    BY <1>1, RecordedParts DEF RecordKey, Inv

LEMMA DiskHeldStep ==
  ASSUME Inv, DiskHeld, [Next]_vars
  PROVE  DiskHeld'
  <1>1. CASE UNCHANGED <<pc, onDisk, hashed>>
    BY <1>1 DEF DiskHeld
  <1>2. CASE \E k \in Keys : RecordKey(k)
    <2>1. PICK k \in Keys : RecordKey(k)
      BY <1>2
    <2>2. PICK g \in PictureOrNone : SaveGlyph(g)
      BY <2>1, RecordKeyParts
    <2>3. pc' # "down"
      BY <2>1, RecordKeyParts
    <2> QED
      BY <2>2, <2>3, SavedGlyph DEF DiskHeld, Inv, TypeOK
  <1>3. CASE Start
    <2>1. PICK failed \in SUBSET (Moved \ Named) :
            /\ onDisk' = Named \union (Moved \ failed)
            /\ hashed' = [p \in Pictures |-> IF p \in Moved \ (Named \union failed) THEN p
                                             ELSE hashed[p]]
      BY <1>3, Zenon DEF Start
    <2>2. onDisk' \subseteq Pictures /\ pc' # "down"
      BY <1>3, StartInv DEF Inv, TypeOK, Start
    <2> QED
      BY <2>1, <2>2, NamedHeld DEF DiskHeld
  <1>4. CASE SaveKeys \/ Uploaded \/ Pruned \/ (\E r \in Requests : Ask(r)) \/ Begin
    <2>1. UNCHANGED <<onDisk, hashed>> /\ pc' # "down"
      BY <1>4 DEF SaveKeys, Uploaded, Pruned, Ask, Begin, memory, disk, Inv, TypeOK
    <2> QED
      BY <2>1 DEF DiskHeld
  <1>5. CASE \E p \in Pictures : PruneFile(p)
    BY <1>5 DEF PruneFile, DiskHeld, Inv, TypeOK
  <1>6. CASE End \/ Spoil
    BY <1>6 DEF End, Spoil, DiskHeld, memory
  <1> QED
    BY <1>1, <1>2, <1>3, <1>4, <1>5, <1>6 DEF Next, vars, memory, disk

(* A key state with the sentinel is recorded only for a key with a glyph.  *)
LEMMA SentinelBackedStep ==
  ASSUME ~BareSentinel, Inv, SentinelBacked, [Next]_vars
  PROVE  SentinelBacked'
  <1>1. CASE UNCHANGED <<pc, call, todo, glyphs>>
    BY <1>1 DEF SentinelBacked
  <1>2. CASE \E k \in Keys : RecordKey(k)
    <2>1. PICK k \in Keys : RecordKey(k)
      BY <1>2
    <2> QED
      BY <2>1, RecordKeyParts DEF SentinelBacked, Inv, TypeOK
  <1>3. CASE Begin
    <2>1. CASE Sendable(asked)
      BY <1>3, <2>1 DEF Begin, Sendable, SentinelBacked, memory
    <2>2. CASE ~Sendable(asked)
      BY <1>3, <2>2 DEF Begin, SentinelBacked, memory
    <2> QED
      BY <2>1, <2>2
  <1>4. CASE \E r \in Requests : Ask(r)
    BY <1>1, <1>4 DEF Ask, memory
  <1>5. CASE SaveKeys \/ Uploaded \/ Start \/ Pruned \/ End \/ Spoil
             \/ \E p \in Pictures : PruneFile(p)
    <2>1. pc' # "record"
      BY <1>5 DEF SaveKeys, Uploaded, Start, Pruned, End, Spoil, PruneFile
    <2> QED
      BY <2>1 DEF SentinelBacked
  <1> QED
    BY <1>1, <1>2, <1>3, <1>4, <1>5 DEF Next, vars, memory

-----------------------------------------------------------------------------
(* What load finds of a key depends on its entry in keys.json, its old     *)
(* file and the file that the entry names.                                 *)
LEMMA RecoveredSame ==
  ASSUME NEW k \in Keys, file' = file, legacy' = legacy,
         HasKey(k) /\ file[k].image /\ file[k].glyph # None
           => hashed'[file[k].glyph] = hashed[file[k].glyph]
  PROVE  Recovered(k)' = Recovered(k)
  <1>1. HasKey(k)' = HasKey(k)
    BY DEF HasKey
  <1>2. HasGlyph(k)' = HasGlyph(k) /\ (HasGlyph(k) => Source(k)' = Source(k))
    BY <1>1 DEF HasGlyph, HasKey, Readable, Source
  <1> QED
    BY <1>1, <1>2 DEF Recovered, LoadedGlyph

(* Steps that leave the directory, and what is shown, alone.               *)
LEMMA SameSaved ==
  ASSUME \A k \in Keys : Recovered(k)' = Recovered(k)
  PROVE  Saved' = Saved
  BY DEF Saved

LEMMA SameShown ==
  ASSUME UNCHANGED <<keys, glyphs>>
  PROVE  \A k \in Keys : Shown(k)' = Shown(k)
  BY DEF Shown

LEMMA SameDirectory ==
  ASSUME UNCHANGED disk
  PROVE  \A k \in Keys : Recovered(k)' = Recovered(k)
  BY RecoveredSame DEF disk

(* Recording a key is a Change: the directory restores what it did.        *)
LEMMA RecordKeyMaps ==
  ASSUME DurInv, Whole, Whole', failures' = failures, NEW k \in Keys, RecordKey(k)
  PROVE  Backed' /\ Promise!Next
  <1> DEFINE st == StateFor(call, k)
             gl == GlyphFor(call, k)
  <1>1. /\ pc = "record" /\ pc' = pc /\ call' = call /\ call \in Requests /\ k \in Names(call)
        /\ k \in todo /\ todo' = todo \ {k}
        /\ file' = file /\ legacy' = legacy
        /\ keys' = [keys EXCEPT ![k] = st]
        /\ glyphs' = [glyphs EXCEPT ![k] = IF gl # None THEN gl ELSE IF st.image THEN @ ELSE None]
        /\ SaveGlyph(gl)
        /\ st \in KeyStates /\ gl \in PictureOrNone
    BY RecordKeyParts DEF DurInv
  <1>2. st.image => gl # None
    <2>1. CASE call.kind = "state"
      BY <1>1, <2>1, RequestParts DEF DurInv, SentinelBacked, StateFor, GlyphFor, Names
    <2>2. CASE call.kind = "glyph"
      BY <1>1, <2>2, RequestParts, StoreAssumption DEF GlyphFor
    <2>3. CASE call.kind = "show"
      BY <2>3 DEF StateFor, GlyphFor
    <2> QED
      BY <1>1, <2>1, <2>2, <2>3, RequestParts
  <1>3. changed' = (changed \/ Differs(k))
    BY DEF RecordKey
  <1> HIDE DEF st, gl
  <1>4. /\ \A p \in Pictures : hashed[p] = p => hashed'[p] = p
        /\ gl # None => hashed'[gl] = gl
    <2>1. \A p \in Pictures : hashed'[p] # hashed[p] => p = gl /\ hashed'[p] = p
      BY <1>1, SavedGlyph DEF DurInv, Inv
    <2>2. gl # None => gl \in onDisk' /\ (gl \in onDisk' \ onDisk => hashed'[gl] = gl)
      BY <1>1, SavedGlyph DEF DurInv, Inv
    <2>3. gl \in onDisk => hashed[gl] = gl
      BY DEF DurInv, DiskHeld
    <2>4. gl # None => gl \in Pictures
      BY <1>1 DEF PictureOrNone
    <2> QED
      BY <2>1, <2>2, <2>3, <2>4
  <1>5. FileBacked' /\ \A j \in Keys : Recovered(j)' = Recovered(j)
    <2>1. ASSUME NEW j \in Keys, HasKey(j), file[j].glyph # None
          PROVE  file[j].image /\ hashed[file[j].glyph] = file[j].glyph
                 /\ hashed'[file[j].glyph] = file[j].glyph
      <3>1. file[j].image /\ hashed[file[j].glyph] = file[j].glyph
        BY <2>1 DEF DurInv, Backed, FileBacked
      <3>2. file[j].glyph \in Pictures
        BY <2>1, LoadedParts DEF DurInv, Inv, StoredKeys, PictureOrNone
      <3> QED
        BY <1>4, <3>1, <3>2
    <2>2. FileBacked'
      BY <1>1, <2>1 DEF FileBacked, HasKey
    <2> QED
      BY <1>1, <2>1, <2>2, RecoveredSame
  <1>6. MemoryBacked'
    <2> SUFFICES ASSUME NEW j \in Keys, keys'[j] # None, keys'[j].image
                 PROVE  glyphs'[j] # None /\ hashed'[glyphs'[j]] = glyphs'[j]
      BY DEF MemoryBacked
    <2>1. CASE j = k
      BY <1>1, <1>2, <1>4, <2>1 DEF DurInv, Inv, TypeOK
    <2>2. CASE j # k
      <3>1. keys'[j] = keys[j] /\ glyphs'[j] = glyphs[j] /\ glyphs[j] \in PictureOrNone
        BY <1>1, <2>2 DEF DurInv, Inv, TypeOK
      <3>2. glyphs[j] # None /\ hashed[glyphs[j]] = glyphs[j]
        BY <3>1 DEF DurInv, Backed, MemoryBacked
      <3> QED
        BY <1>4, <3>1, <3>2 DEF PictureOrNone
    <2> QED
      BY <2>1, <2>2
  <1>7. SavedIsShown'
    <2> SUFFICES ASSUME Settled', NEW j \in Keys
                 PROVE  Recovered(j)' = Shown(j)'
      BY DEF SavedIsShown
    <2>1. ~changed' /\ ~changed
      BY <1>1, <1>3 DEF Settled
    <2>2. keys'[k] = keys[k] /\ glyphs'[k] = glyphs[k]
      BY <1>3, <2>1 DEF Differs
    <2>3. keys'[j] = keys[j] /\ glyphs'[j] = glyphs[j]
      BY <1>1, <2>2 DEF DurInv, Inv, TypeOK
    <2>4. Recovered(j) = Shown(j)
      BY <1>1, <2>1 DEF DurInv, Backed, SavedIsShown, Settled
    <2> QED
      BY <1>5, <2>3, <2>4 DEF Shown
  <1>8. Saved' = Saved
    BY <1>5, SameSaved
  <1> QED
    BY <1>1, <1>5, <1>6, <1>7, <1>8 DEF Backed, Promise!Next, Promise!Change, Saved, Whole

(* Saving the keys is a Return: the directory then restores what is shown. *)
LEMMA SaveKeysMaps ==
  ASSUME DurInv, Whole, Whole', failures' = failures, SaveKeys
  PROVE  Backed' /\ Promise!Next
  <1>1. /\ pc = "record" /\ pc' = "upload"
        /\ UNCHANGED <<keys, glyphs, hashed, legacy>>
    BY Zenon DEF SaveKeys, memory
  <1>2. MemoryBacked'
    BY <1>1 DEF DurInv, Backed, MemoryBacked
  <1>3. FileBacked' /\ \A k \in Keys : Recovered(k)' = Shown(k)
    <2>1. CASE ~changed
      <3>1. file' = file
        BY <2>1 DEF SaveKeys
      <3>2. \A k \in Keys : Recovered(k)' = Recovered(k)
        BY <1>1, <3>1, RecoveredSame
      <3>3. \A k \in Keys : Recovered(k) = Shown(k)
        BY <1>1, <2>1 DEF DurInv, Backed, SavedIsShown, Settled
      <3> QED
        BY <1>1, <3>1, <3>2, <3>3 DEF DurInv, Backed, FileBacked, HasKey
    <2>2. CASE changed
      <3>1. PICK ok \in BOOLEAN :
              /\ Writes(ok)
              /\ file' = (IF ok THEN [k \in Keys |-> Stored(k)] ELSE file)
        BY <2>2, Zenon DEF SaveKeys
      <3>2. ok = TRUE
        <4>1. CASE ok = FALSE
          BY <3>1, <4>1 DEF Writes, DurInv, Inv, TypeOK
        <4> QED
          BY <4>1
      <3>3. file' = [k \in Keys |-> Stored(k)]
        BY <3>1, <3>2
      <3>4. file' \notin {None, Cut}
        <4>1. \A k \in Keys : Stored(k) \in StoredKeys \union {None}
          BY DEF DurInv, Inv, TypeOK, Stored, StoredKeys, KeyStates, PictureOrNone
        <4> QED
          BY <3>3, <4>1, NoneAssumption
      <3>5. ASSUME NEW k \in Keys
            PROVE  /\ Recovered(k)' = Shown(k)
                   /\ file'[k] # None /\ file'[k].glyph # None
                        => file'[k].image /\ hashed[file'[k].glyph] = file'[k].glyph
        <4>1. CASE keys[k] = None
          <5>1. file'[k] = None /\ Shown(k) = None
            BY <3>3, <4>1 DEF Stored, Shown
          <5> QED
            BY <5>1 DEF Recovered, HasKey
        <4>2. CASE keys[k] # None
          <5>1. file'[k] = [look |-> keys[k].look, image |-> keys[k].image,
                            glyph |-> IF keys[k].image THEN glyphs[k] ELSE None]
            BY <3>3, <4>2 DEF Stored
          <5>2. /\ file'[k].look = keys[k].look /\ file'[k].image = keys[k].image
                /\ file'[k].glyph = (IF keys[k].image THEN glyphs[k] ELSE None)
                /\ keys[k].image \in BOOLEAN
            BY <4>2, <5>1 DEF DurInv, Inv, TypeOK, KeyStates
          <5>3. file'[k] # None
            <6>1. file'[k] \in StoredKeys
              BY <4>2, <5>1 DEF DurInv, Inv, TypeOK, KeyStates, StoredKeys, PictureOrNone
            <6> QED
              BY <6>1, NoneAssumption
          <5>4. HasKey(k)'
            BY <3>4, <5>3 DEF HasKey
          <5>5. keys[k].image => /\ glyphs[k] # None /\ hashed[glyphs[k]] = glyphs[k]
                                 /\ glyphs[k] \in Pictures
            BY <4>2 DEF DurInv, Backed, MemoryBacked, Inv, TypeOK, PictureOrNone
          <5>6. LoadedGlyph(k)' = (IF keys[k].image THEN glyphs[k] ELSE None)
            BY <1>1, <5>2, <5>4, <5>5 DEF LoadedGlyph, HasGlyph, Readable, Source
          <5>7. Recovered(k)' = [look |-> file'[k].look, picture |-> LoadedGlyph(k)']
            BY <5>4 DEF Recovered
          <5> QED
            BY <4>2, <5>2, <5>5, <5>6, <5>7 DEF Shown
        <4> QED
          BY <4>1, <4>2
      <3> QED
        BY <1>1, <3>5 DEF FileBacked, HasKey
    <2> QED
      BY <2>1, <2>2
  <1>4. \A k \in Keys : Shown(k)' = Shown(k)
    BY <1>1, SameShown
  <1>5. SavedIsShown'
    BY <1>3, <1>4 DEF SavedIsShown
  <1> QED
    BY <1>1, <1>2, <1>3, <1>4, <1>5 DEF Backed, Promise!Next, Promise!Return, Whole

(* A daemon that starts remembers what the directory holds.                *)
LEMMA StartMaps ==
  ASSUME DurInv, Whole, Whole', failures' = failures, Start
  PROVE  Backed' /\ Promise!Next
  <1>1. /\ pc = "down" /\ pc' \in {"idle", "prune"}
        /\ keys' = [k \in Keys |-> LoadedState(k)] /\ glyphs' = [k \in Keys |-> LoadedGlyph(k)]
        /\ file' = (IF file = Cut THEN None ELSE file)
        /\ legacy' = legacy
    BY Zenon DEF Start
  <1>2. hashed' = [p \in Pictures |-> IF p \in Moved \ Named THEN p ELSE hashed[p]]
    <2>1. PICK failed \in SUBSET (Moved \ Named) :
            /\ failures' = failures + Cardinality(failed)
            /\ hashed' = [p \in Pictures |-> IF p \in Moved \ (Named \union failed) THEN p
                                             ELSE hashed[p]]
      BY <1>1, Zenon DEF Start
    <2>2. IsFiniteSet(failed) /\ Cardinality(failed) \in Nat
      BY MovedIsFinite, FS_Subset
    <2>3. Cardinality(failed) = 0
      BY <2>1, <2>2 DEF DurInv, Inv, TypeOK
    <2>4. failed = {}
      BY <2>2, <2>3, FS_EmptySet
    <2> QED
      BY <2>1, <2>4
  <1>3. \A p \in Pictures : hashed[p] = p => hashed'[p] = p
    BY <1>2
  <1>4. \A k \in Keys : HasKey(k)' = HasKey(k) /\ (HasKey(k) => file'[k] = file[k])
    BY <1>1 DEF HasKey
  <1>5. FileBacked'
    <2> SUFFICES ASSUME NEW k \in Keys, HasKey(k), file[k].glyph # None
                 PROVE  file[k].image /\ hashed'[file[k].glyph] = file[k].glyph
      BY <1>4 DEF FileBacked
    <2>1. file[k].glyph \in Pictures
      BY LoadedParts DEF DurInv, Inv, StoredKeys, PictureOrNone
    <2> QED
      BY <1>3, <2>1 DEF DurInv, Backed, FileBacked
  <1>6. ASSUME NEW k \in Keys
        PROVE  Recovered(k)' = Recovered(k)
    <2>1. CASE ~HasKey(k)
      BY <1>4, <2>1 DEF Recovered
    <2>2. CASE HasKey(k)
      <3>1. file' = file
        BY <1>1, <2>2 DEF HasKey
      <3>2. file[k].glyph # None => hashed'[file[k].glyph] = hashed[file[k].glyph]
        <4>1. file[k].glyph # None => file[k].glyph \in Pictures
          BY <2>2, LoadedParts DEF DurInv, Inv, StoredKeys, PictureOrNone
        <4> QED
          BY <1>3, <2>2, <4>1 DEF DurInv, Backed, FileBacked
      <3> QED
        BY <1>1, <3>1, <3>2, RecoveredSame
    <2> QED
      BY <2>1, <2>2
  <1>7. ASSUME NEW k \in Keys
        PROVE  /\ Shown(k)' = Recovered(k)
               /\ keys'[k] # None /\ keys'[k].image
                    => glyphs'[k] # None /\ hashed'[glyphs'[k]] = glyphs'[k]
    <2>1. keys'[k] = LoadedState(k) /\ glyphs'[k] = LoadedGlyph(k)
      BY <1>1
    <2>2. CASE ~HasKey(k)
      BY <2>1, <2>2 DEF LoadedState, Recovered, Shown
    <2>3. CASE HasKey(k)
      <3>1. keys'[k] = [look |-> file[k].look, image |-> HasGlyph(k)]
        BY <2>1, <2>3 DEF LoadedState
      <3>2. keys'[k] # None
        <4>1. HasGlyph(k) \in BOOLEAN /\ file[k].look \in Looks
          BY <2>3, LoadedParts DEF DurInv, Inv, StoredKeys
        <4>2. keys'[k] \in KeyStates
          BY <3>1, <4>1 DEF KeyStates
        <4> QED
          BY <4>2, NoneAssumption
      <3>3. Shown(k)' = [look |-> file[k].look,
                         picture |-> IF HasGlyph(k) THEN LoadedGlyph(k) ELSE None]
        BY <2>1, <3>1, <3>2 DEF Shown
      <3>4. Shown(k)' = Recovered(k)
        BY <2>3, <3>3 DEF Recovered, LoadedGlyph
      <3>5. ASSUME HasGlyph(k)
            PROVE  LoadedGlyph(k) # None /\ hashed'[LoadedGlyph(k)] = LoadedGlyph(k)
        <4>1. LoadedGlyph(k) = Source(k) /\ Source(k) \in Pictures
          BY <3>5, LoadedParts DEF LoadedGlyph, DurInv, Inv
        <4>2. Source(k) \in Named \/ Source(k) \in Moved
          BY <3>5 DEF Named, Moved
        <4> QED
          BY <1>2, <4>1, <4>2, NamedHeld, StoreAssumption
      <3> QED
        BY <2>1, <3>1, <3>4, <3>5
    <2> QED
      BY <2>2, <2>3
  <1>8. MemoryBacked' /\ SavedIsShown'
    BY <1>6, <1>7 DEF MemoryBacked, SavedIsShown
  <1> QED
    BY <1>1, <1>5, <1>6, <1>7, <1>8 DEF Backed, Promise!Next, Promise!Start, Whole

(* The end of the daemon: what it will remember is what was saved.         *)
LEMMA EndMaps ==
  ASSUME DurInv, Whole, Whole', End
  PROVE  Backed' /\ Promise!Next
  <1>1. /\ pc # "down" /\ pc' = "down"
        /\ keys' = [k \in Keys |-> None] /\ UNCHANGED disk
    BY Zenon DEF End
  <1>2. \A k \in Keys : Recovered(k)' = Recovered(k)
    BY <1>1, SameDirectory
  <1>3. Backed'
    BY <1>1 DEF DurInv, Backed, FileBacked, MemoryBacked, SavedIsShown, Settled, HasKey, disk
  <1> QED
    BY <1>1, <1>2, <1>3 DEF Promise!Next, Promise!End, Whole

(* A glyph file that prune removes is named by nothing that a restart      *)
(* shows.                                                                  *)
LEMMA PruneFileMaps ==
  ASSUME DurInv, Whole, Whole', NEW p \in Pictures, PruneFile(p)
  PROVE  Backed' /\ UNCHANGED Image
  <1>1. /\ pc = "prune" /\ pc' = pc /\ p \notin Kept
        /\ hashed' = [hashed EXCEPT ![p] = None]
        /\ UNCHANGED <<keys, glyphs, file, legacy, changed>>
    BY DEF PruneFile, Prunable
  <1>2. ASSUME NEW k \in Keys, HasKey(k), file[k].glyph # None
        PROVE  file[k].image /\ hashed[file[k].glyph] = file[k].glyph
               /\ hashed'[file[k].glyph] = file[k].glyph
    <2>1. file[k].image /\ hashed[file[k].glyph] = file[k].glyph
      BY <1>2 DEF DurInv, Backed, FileBacked
    <2>2. file[k].glyph \in Pictures
      BY <1>2, LoadedParts DEF DurInv, Inv, StoredKeys, PictureOrNone
    <2>3. LoadedGlyph(k) = file[k].glyph
      BY <1>2, <2>1, <2>2 DEF LoadedGlyph, HasGlyph, Readable, Source
    <2>4. Recovered(k) = [look |-> file[k].look, picture |-> file[k].glyph]
      BY <1>2, <2>3 DEF Recovered
    <2>5. Recovered(k) = Shown(k)
      BY <1>1 DEF DurInv, Backed, SavedIsShown, Settled
    <2>6. keys[k] # None
      <3>1. Recovered(k) \in Frames
        BY <1>2, <2>2, <2>4, LoadedParts DEF DurInv, Inv, StoredKeys, Frames, PictureOrNone
      <3> QED
        BY <2>5, <3>1, NoneAssumption DEF Shown
    <2>7. file[k].glyph = (IF keys[k].image THEN glyphs[k] ELSE None)
      BY <2>4, <2>5, <2>6 DEF Shown
    <2>8. file[k].glyph # p
      BY <1>1, <1>2, <2>7 DEF Kept
    <2> QED
      BY <1>1, <2>1, <2>2, <2>8 DEF DurInv, Inv, TypeOK
  <1>3. FileBacked'
    BY <1>1, <1>2 DEF FileBacked, HasKey
  <1>4. \A k \in Keys : Recovered(k)' = Recovered(k) /\ Shown(k)' = Shown(k)
    <2>1. \A k \in Keys : Recovered(k)' = Recovered(k)
      BY <1>1, <1>2, RecoveredSame
    <2> QED
      BY <1>1, <2>1, SameShown
  <1>5. MemoryBacked'
    <2> SUFFICES ASSUME NEW k \in Keys, keys[k] # None, keys[k].image
                 PROVE  glyphs[k] # None /\ hashed'[glyphs[k]] = glyphs[k]
      BY <1>1 DEF MemoryBacked
    <2>1. glyphs[k] # None /\ hashed[glyphs[k]] = glyphs[k] /\ glyphs[k] \in Pictures
      BY DEF DurInv, Backed, MemoryBacked, Inv, TypeOK, PictureOrNone
    <2>2. glyphs[k] # p
      BY <1>1 DEF Kept
    <2> QED
      BY <1>1, <2>1, <2>2 DEF DurInv, Inv, TypeOK
  <1>6. SavedIsShown'
    BY <1>1, <1>4 DEF DurInv, Backed, SavedIsShown, Settled
  <1>7. Remembered' = Remembered /\ Saved' = Saved /\ Stage' = Stage
    BY <1>1, <1>4 DEF Remembered, Saved, Stage
  <1> QED
    BY <1>3, <1>5, <1>6, <1>7 DEF Backed, Image, Whole

(* A call that waits or gets the turn, an upload, and the last step of     *)
(* prune leave the memory and the directory alone.                         *)
LEMMA TurnMaps ==
  ASSUME DurInv, Whole, Whole', (\E r \in Requests : Ask(r)) \/ Begin \/ Uploaded \/ Pruned
  PROVE  Backed' /\ (Promise!Next \/ UNCHANGED Image)
  <1>1. UNCHANGED <<keys, glyphs, disk>>
    BY Zenon DEF Ask, Begin, Uploaded, Pruned, memory
  <1>2. /\ \A k \in Keys : Recovered(k)' = Recovered(k)
        /\ \A k \in Keys : Shown(k)' = Shown(k)
    BY <1>1, SameDirectory, SameShown
  <1>3. FileBacked' /\ MemoryBacked'
    BY <1>1 DEF DurInv, Backed, FileBacked, MemoryBacked, HasKey, disk
  <1>4. /\ Settled' => Settled
        /\ \/ Stage' = Stage /\ (pc' = "down" <=> pc = "down")
           \/ pc = "idle" /\ pc' = "record"
    <2>1. CASE \E r \in Requests : Ask(r)
      BY <2>1 DEF Ask, Settled, Stage
    <2>2. CASE Begin
      BY <2>2 DEF Begin, Settled, Stage
    <2>3. CASE Uploaded \/ Pruned
      BY <2>3 DEF Uploaded, Pruned, Settled, Stage
    <2> QED
      BY <2>1, <2>2, <2>3
  <1>5. SavedIsShown'
    BY <1>2, <1>4 DEF DurInv, Backed, SavedIsShown
  <1>6. Saved' = Saved
    BY <1>2, SameSaved
  <1>7. CASE Stage' = Stage /\ (pc' = "down" <=> pc = "down")
    <2>1. Remembered' = Remembered
      BY <1>2, <1>7 DEF Remembered
    <2> QED
      BY <1>3, <1>5, <1>6, <1>7, <2>1 DEF Backed, Image, Whole
  <1>8. CASE pc = "idle" /\ pc' = "record"
    BY <1>2, <1>3, <1>5, <1>8 DEF Backed, Promise!Next, Promise!Call, Whole
  <1> QED
    BY <1>4, <1>7, <1>8

-----------------------------------------------------------------------------
LEMMA InitDurInv == Init => DurInv /\ Promise!Init
  <1> SUFFICES ASSUME Init PROVE DurInv /\ Promise!Init
    OBVIOUS
  <1>1. Inv /\ pc = "down" /\ onDisk = {} /\ failures = 0 /\ damage = 0
    BY InitInv DEF Init
  <1>2. FileBacked
    BY DEF Init, FileBacked, HasKey, OldFile
  <1>3. MemoryBacked /\ SavedIsShown
    BY DEF Init, MemoryBacked, SavedIsShown, Settled
  <1>4. DiskHeld /\ SentinelBacked
    BY <1>1 DEF DiskHeld, SentinelBacked
  <1> QED
    BY <1>1, <1>2, <1>3, <1>4 DEF DurInv, Backed, Promise!Init

LEMMA StepDurInv ==
  ASSUME ~BareSentinel, DurInv, [Next]_vars
  PROVE  DurInv' /\ (Promise!Next \/ UNCHANGED Image)
  <1>1. Inv' /\ DiskHeld' /\ SentinelBacked'
    BY StepInv, DiskHeldStep, SentinelBackedStep DEF DurInv
  <1>2. CASE ~Whole'
    BY <1>1, <1>2 DEF DurInv, Promise!Next, Promise!Harmed, Whole
  <1>3. CASE Whole'
    <2>1. Whole /\ failures' = failures /\ damage' = damage
      BY <1>3, HarmLasts DEF DurInv
    <2>2. CASE UNCHANGED vars
      <3>1. \A k \in Keys : Recovered(k)' = Recovered(k) /\ Shown(k)' = Shown(k)
        BY <2>2, SameDirectory, SameShown DEF vars, memory
      <3>2. UNCHANGED Image
        BY <2>2, <3>1 DEF Image, Stage, Remembered, Saved, Whole, vars, bounds
      <3>3. Backed'
        BY <2>1, <2>2, <3>1 DEF DurInv, Backed, FileBacked, MemoryBacked, SavedIsShown, Settled,
           HasKey, vars, memory, disk
      <3> QED
        BY <1>1, <3>2, <3>3 DEF DurInv
    <2>3. CASE \E k \in Keys : RecordKey(k)
      BY <1>1, <1>3, <2>1, <2>3, RecordKeyMaps DEF DurInv
    <2>4. CASE SaveKeys
      BY <1>1, <1>3, <2>1, <2>4, SaveKeysMaps DEF DurInv
    <2>5. CASE Start
      BY <1>1, <1>3, <2>1, <2>5, StartMaps DEF DurInv
    <2>6. CASE End
      BY <1>1, <1>3, <2>1, <2>6, EndMaps DEF DurInv
    <2>7. CASE \E p \in Pictures : PruneFile(p)
      BY <1>1, <1>3, <2>1, <2>7, PruneFileMaps DEF DurInv
    <2>8. CASE (\E r \in Requests : Ask(r)) \/ Begin \/ Uploaded \/ Pruned
      BY <1>1, <1>3, <2>1, <2>8, TurnMaps DEF DurInv
    <2>9. CASE Spoil
      <3>1. damage' = damage + 1 /\ damage \in Nat
        BY <2>9 DEF Spoil, DurInv, Inv, TypeOK
      <3> QED
        BY <2>1, <3>1
    <2> QED
      BY <2>2, <2>3, <2>4, <2>5, <2>6, <2>7, <2>8, <2>9 DEF Next
  <1> QED
    BY <1>2, <1>3

(* While no write fails and no file is spoiled, a call of Reconnecting     *)
(* that has returned is in the directory, one that the end of the daemon   *)
(* cut off leaves no trace, and writing, moving and pruning glyph files    *)
(* change nothing that a restart finds (recordKeyLocked, saveKeysLocked,   *)
(* load and prune), for clients that send the sentinel only for keys that  *)
(* have a glyph.                                                           *)
THEOREM StateStoreIsDurable == ASSUME ~BareSentinel PROVE Spec => Durable
  <1>1. DurInv /\ [Next]_vars => DurInv' /\ [Promise!Next]_Image
    BY StepDurInv
  <1> QED
    BY <1>1, InitDurInv, PTL DEF Spec, Durable, Promise!Spec, Image, Stage, Remembered, Saved,
       Whole
=============================================================================
