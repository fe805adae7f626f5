----------------------------- MODULE LayerTree -----------------------------
(***************************************************************************)
(* The layer tree of driver/layers: the object of layers.json, what a      *)
(* client or a press does to it, the redraw of the keys that changed, the  *)
(* notice of the open layer, and the file, which a ticker writes every few *)
(* seconds and Close once more.  The daemon may be killed between any two  *)
(* steps; what the transport remembers of the keys (keys.json, StateStore) *)
(* survives at once.                                                       *)
(*                                                                         *)
(* A node is known by its path, the ids from a top-level key down to it.   *)
(* Its face is all that it shows: status, icon, count and pictures.        *)
(***************************************************************************)
EXTENDS Pages, Sequences, FiniteSets

CONSTANTS
  Ids, Faces,
  Empty,                              \* the face that shows nothing
  MaxChildren, MaxDepth, MaxNodes,    \* the limits of a document
  SavedDocs,                          \* documents an earlier daemon may have left
  Requests,                           \* what clients may ask
  None,                               \* no id, no slot, no document
  Mixed,                              \* what a key shows after a draw that failed half-way
  MaxChanges, MaxFailures, MaxStarts  \* bounds

VARIABLES
  \* the object, and whether it changed since the last save; guarded by mu
  doc, dirty,
  \* the redraw that holds sendMu: the keys it has still to draw, and
  \* whether it reports a new layer at its end
  busy, left, announce,
  \* what the controller believes each key shows; guarded by sendMu
  shown,
  \* the daemon's life, and the object that the save under way writes, or
  \* <<>> when there is none
  stage, saving,
  \* layers.json, what the transport remembers of each key, and the layer
  \* that clients were last told of
  file, pad, notice,
  \* keys that the last redraw failed to draw; an end of the daemon lost a
  \* change or interrupted a redraw
  failed, lost,
  changes, failures, starts

object == <<doc, dirty>>
redraw == <<busy, left, announce>>
bounds == <<changes, failures, starts>>
vars == <<object, redraw, shown, stage, saving, file, pad, notice, failed, lost, bounds>>

-----------------------------------------------------------------------------
(* The document.  nodes maps each path to the node's face and to the ids   *)
(* of its children in order; active is the path of the open layer, and     *)
(* parents the page that each layer above it showed.                       *)

IdOrNone == Ids \union {None}
Node(face, kids) == [face |-> face, kids |-> kids]

NewDoc == [keys |-> [k \in Keys |-> None], nodes |-> [p \in {} |-> None],
           active |-> <<>>, page |-> 0, parents |-> <<>>]

Has(d, path)  == path \in DOMAIN d.nodes
Kids(d, path) == d.nodes[path].kids
Opens(d, path) == Has(d, path) /\ Kids(d, path) # <<>>
Upto(path, i) == SubSeq(path, 1, i)
Elems(s)      == {s[i] : i \in DOMAIN s}
IsUnder(p, path) == Len(p) >= Len(path) /\ Upto(p, Len(path)) = path

(* A document stands for a tree: a node's children are nodes, a node's     *)
(* path leads over children, the top-level keys are the nodes without a    *)
(* parent, and no two of them are the same.                                *)
Docs(d) ==
  /\ d = [keys |-> d.keys, nodes |-> d.nodes, active |-> d.active, page |-> d.page,
          parents |-> d.parents]
  /\ d.keys \in [Keys -> IdOrNone] /\ DOMAIN d.nodes \subseteq Seq(Ids) \ {<<>>}
  /\ \A p \in DOMAIN d.nodes : d.nodes[p] \in [face : Faces, kids : Seq(Ids)]
  /\ d.active \in Seq(Ids) /\ d.page \in Nat /\ d.parents \in Seq(Nat)
  /\ \A id \in Ids : Has(d, <<id>>) <=> \E k \in Keys : d.keys[k] = id
  /\ \A j, k \in Keys : d.keys[j] = d.keys[k] /\ d.keys[j] # None => j = k
  /\ \A p \in DOMAIN d.nodes : \A id \in Elems(Kids(d, p)) : Has(d, Append(p, id))
  /\ \A p \in DOMAIN d.nodes : \A i \in 1 .. Len(p) - 1 :
       Has(d, Upto(p, i)) /\ p[i + 1] \in Elems(Kids(d, Upto(p, i)))

Fits(d) ==
  /\ Cardinality(DOMAIN d.nodes) <= MaxNodes
  /\ \A p \in DOMAIN d.nodes : Len(p) <= MaxDepth /\ Len(Kids(d, p)) <= MaxChildren

PageOf(d, i) == IF i = Len(d.active) THEN d.page ELSE d.parents[i]

(* Validate.                                                               *)
Valid(d) ==
  /\ Fits(d)
  /\ \A p \in DOMAIN d.nodes : Cardinality(Elems(Kids(d, p))) = Len(Kids(d, p))
  /\ IF d.active = <<>> THEN d.page = 0 /\ d.parents = <<>>
     ELSE /\ Len(d.parents) = Len(d.active) - 1
          /\ \A i \in 1 .. Len(d.active) :
               /\ Opens(d, Upto(d.active, i))
               /\ PageOf(d, i) \in 0 .. PageCount(Len(Kids(d, Upto(d.active, i)))) - 1

(* up: close the open layer and show the one above, on the page it showed. *)
Up(d) ==
  LET above == Len(d.active) - 1 IN
  [d EXCEPT !.active = Upto(d.active, above),
            !.page = IF above = 0 THEN 0 ELSE d.parents[above],
            !.parents = IF above = 0 THEN <<>> ELSE Upto(@, above - 1)]

(* settle: up to the deepest layer that is left on the active path, and    *)
(* every page clamped to its layer.                                        *)
ClampedAt(d, i) == Clamp(PageOf(d, i), Len(Kids(d, Upto(d.active, i))))

DepthLeft(d) ==
  CHOOSE i \in 0 .. Len(d.active) :
    /\ i = 0 \/ Opens(d, Upto(d.active, i))
    /\ \A j \in i + 1 .. Len(d.active) : ~Opens(d, Upto(d.active, j))

SettleOpenPage(d) ==
  LET i == DepthLeft(d) IN
  IF i = 0 THEN [d EXCEPT !.active = <<>>, !.page = 0, !.parents = <<>>]
  ELSE [d EXCEPT !.active = Upto(d.active, i), !.page = ClampedAt(d, i),
                 !.parents = Upto(@, i - 1)]
SettleToTop(d) ==
  LET i == DepthLeft(d) IN
  IF i < Len(d.active) \/ i = 0 THEN [d EXCEPT !.active = <<>>, !.page = 0, !.parents = <<>>]
  ELSE [d EXCEPT !.page = ClampedAt(d, i), !.parents = [j \in 1 .. i - 1 |-> ClampedAt(d, j)]]
Settle(d) ==
  LET i == DepthLeft(d) IN
  IF i = 0 THEN [d EXCEPT !.active = <<>>, !.page = 0, !.parents = <<>>]
  ELSE [d EXCEPT !.active = Upto(d.active, i), !.page = ClampedAt(d, i),
                 !.parents = [j \in 1 .. i - 1 |-> ClampedAt(d, j)]]

-----------------------------------------------------------------------------
(* What a client asks: setLayerKey and removeLayerKey; a child has no      *)
(* slot.  A result of None is an error, or an update that changes nothing. *)
ASSUME LayerAssumption ==
  /\ None \notin Ids /\ None \notin Int /\ Empty \in Faces
  /\ MaxChildren \in Nat /\ MaxDepth \in Nat /\ MaxNodes \in Nat
  /\ MaxChanges \in Nat /\ MaxFailures \in Nat /\ MaxStarts \in Nat
  /\ \A u \in Requests :
       /\ u.op \in {"set", "remove"} /\ u.id \in Ids /\ u.path \in Seq(Ids)
       /\ u.op = "set" => /\ u.face \in Faces /\ u.slot \in Keys \union {None}
                          /\ u.path # <<>> => u.slot = None

(* A node set to a face keeps its children.                                *)
WithNode(d, path, face) ==
  [p \in DOMAIN d.nodes \union {path} |->
     IF p # path THEN d.nodes[p]
     ELSE Node(face, IF Has(d, path) THEN Kids(d, path) ELSE <<>>)]

SetChild(d, u) ==
  LET path == Append(u.path, u.id) IN
  IF ~Has(d, u.path) THEN None
  ELSE IF Has(d, path) THEN [d EXCEPT !.nodes = WithNode(d, path, u.face)]
  ELSE [d EXCEPT !.nodes = [WithNode(d, path, u.face) EXCEPT ![u.path].kids = Append(@, u.id)]]

Free(d) == {k \in Keys : d.keys[k] = None}

(* The slot an update names, where the key is, or the first free one.      *)
Target(d, u) ==
  IF u.slot # None THEN {k \in {u.slot} : d.keys[k] \in {None, u.id}}
  ELSE IF Has(d, <<u.id>>) THEN {k \in Keys : d.keys[k] = u.id}
  ELSE {k \in Free(d) : \A j \in Free(d) : k <= j}

SetTop(d, u) ==
  IF Target(d, u) = {} THEN None
  ELSE [d EXCEPT !.nodes = WithNode(d, <<u.id>>, u.face),
                 !.keys  = [k \in Keys |-> IF k \in Target(d, u) THEN u.id
                                           ELSE IF d.keys[k] = u.id THEN None ELSE d.keys[k]]]

(* The child leaves its place to those after it.                           *)
Spliced(kids, id) ==
  LET i == CHOOSE i \in DOMAIN kids : kids[i] = id
  IN SubSeq(kids, 1, i - 1) \o SubSeq(kids, i + 1, Len(kids))

Remove(d, u) ==
  LET path == Append(u.path, u.id)
      rest == [p \in {q \in DOMAIN d.nodes : ~IsUnder(q, path)} |-> d.nodes[p]]
  IN IF ~Has(d, path) THEN None
     ELSE IF u.path = <<>>
     THEN [d EXCEPT !.nodes = rest,
                    !.keys = [k \in Keys |-> IF d.keys[k] = u.id THEN None ELSE d.keys[k]]]
     ELSE [d EXCEPT !.nodes = [rest EXCEPT ![u.path].kids = Spliced(@, u.id)]]

Applied(d, u) ==
  IF u.op = "remove" THEN Remove(d, u)
  ELSE IF u.path = <<>> THEN SetTop(d, u) ELSE SetChild(d, u)

(* A press on a key of the pad (PressNode).  A press on a child with no    *)
(* children only names it to the plugins.                                  *)
OpenLayer(d, path) ==
  [d EXCEPT !.active = path, !.page = 0,
            !.parents = IF d.active = <<>> THEN <<>> ELSE Append(@, d.page)]

ChildPath(d, k) == Append(d.active, Kids(d, d.active)[ChildOn(d.page, k) + 1])

PressedChild(d, k) ==
  IF Kids(d, ChildPath(d, k)) = <<>> THEN None ELSE OpenLayer(d, ChildPath(d, k))

Pressed(d, k) ==
  IF d.active = <<>>
  THEN IF d.keys[k] = None \/ ~Opens(d, <<d.keys[k]>>) THEN None
       ELSE OpenLayer(d, <<d.keys[k]>>)
  ELSE LET role == Role(Len(Kids(d, d.active)), d.page, k) IN
       CASE role = "child" -> PressedChild(d, k)
         [] role = "up"    -> Up(d)
         [] role = "left"  -> [d EXCEPT !.page = @ - 1]
         [] role = "right" -> [d EXCEPT !.page = @ + 1]
         [] role = "blank" -> None

-----------------------------------------------------------------------------
(* What the keys must show, and what clients are told.                     *)
View(kind, face) == [kind |-> kind, face |-> face]
Unknown == View("unknown", Empty)
Blank   == View("blank", Empty)
Arrows  == {View(r, Empty) : r \in {"up", "left", "right"}}
Views   == {View("key", f) : f \in Faces} \union Arrows \union {Blank}

HasContent(d, path) == d.nodes[path].face # Empty \/ Opens(d, path)

DesiredTop(d, k) ==
  IF d.keys[k] # None /\ HasContent(d, <<d.keys[k]>>)
  THEN View("key", d.nodes[<<d.keys[k]>>].face) ELSE Blank

DesiredInLayer(d, k) ==
  LET role == Role(Len(Kids(d, d.active)), d.page, k) IN
  CASE role = "child" -> View("key", d.nodes[ChildPath(d, k)].face)
    [] role = "blank" -> Blank
    [] OTHER          -> View(role, Empty)

Desired(d) ==
  [k \in Keys |-> IF d.active = <<>> THEN DesiredTop(d, k) ELSE DesiredInLayer(d, k)]

LayerOf(d) ==
  [path |-> d.active, page |-> d.page,
   pages |-> IF d.active = <<>> THEN 0 ELSE PageCount(Len(Kids(d, d.active)))]

-----------------------------------------------------------------------------
(* A mutation (mutate): it takes sendMu, works on a copy, and swaps the    *)
(* settled copy in when it validates.  A key that was never drawn and      *)
(* should be blank stays as it is.                                         *)
Running == stage \in {"up", "closing", "closed"}

ToDraw(d) ==
  {k \in Keys : Desired(d)[k] # shown[k] /\ ~(Desired(d)[k] = Blank /\ shown[k] = Unknown)}

PathChanges(next)  == LayerOf(doc).path # LayerOf(next).path
LayerChanges(next) == LayerOf(doc) # LayerOf(next)

SwapIn(next) ==
  /\ doc' = next /\ dirty' = (dirty \/ doc # next)
  /\ announce' = LayerChanges(next)

Mutate(next) ==
  /\ Running /\ ~busy /\ changes < MaxChanges
  /\ Valid(next)
  /\ SwapIn(next)
  /\ busy' = TRUE /\ left' = ToDraw(next)
  /\ failed' = {}
  /\ changes' = changes + 1
  /\ UNCHANGED <<shown, stage, saving, file, pad, notice, lost, failures, starts>>

Set(u)   == Applied(doc, u) # None /\ Mutate(Settle(Applied(doc, u)))
Press(k) == Pressed(doc, k) # None /\ Mutate(Settle(Pressed(doc, k)))

(* The keys go out one after the other (flush), or all that have a slot of *)
(* the frame cache in one message (flushFrames, LayerFrames).  A draw that *)
(* fails leaves the key unknown.                                           *)
DrawsKeeping(ks, ok) == shown' = [k \in Keys |-> IF k \in ks THEN Desired(doc)[k] ELSE shown[k]]
Draws(ks, ok) ==
  shown' = [k \in Keys |-> IF k \in ks THEN (IF ok THEN Desired(doc)[k] ELSE Unknown)
                           ELSE shown[k]]

Drawable(ks) == ks # {} /\ (ks = left \/ \E k \in left : ks = {k} /\ \A j \in left : k <= j)

Draw(ks) ==
  /\ busy /\ stage # "down" /\ Drawable(ks)
  /\ left' = left \ ks
  /\ \E ok \in BOOLEAN :
       /\ Draws(ks, ok)
       /\ IF ok THEN UNCHANGED failures ELSE failures < MaxFailures /\ failures' = failures + 1
       /\ failed' = IF ok THEN failed ELSE failed \union ks
       /\ pad' \in {[k \in Keys |-> IF k \in ks THEN (IF mixed THEN Mixed ELSE Desired(doc)[k])
                                    ELSE pad[k]] : mixed \in {FALSE, ~ok}}
  /\ UNCHANGED <<object, busy, announce, stage, saving, file, notice, lost, changes, starts>>

(* All keys are out: LayerChanged, and sendMu is free.                     *)
EndMutate ==
  /\ busy /\ stage # "down" /\ left = {}
  /\ busy' = FALSE /\ announce' = FALSE
  /\ notice' = IF announce THEN LayerOf(doc) ELSE notice
  /\ UNCHANGED <<object, left, shown, stage, saving, file, pad, failed, lost, bounds>>

-----------------------------------------------------------------------------
(* save: a copy and a clean flag under mu, then the file, by a rename; a   *)
(* write that fails makes the object dirty again.  Close waits for the     *)
(* saver, which may tick once more, and saves a last time; the handlers of *)
(* the server go on until the process exits.                               *)
Copy == saving' = <<doc>> /\ dirty' = FALSE

Tick ==
  /\ stage \in {"up", "closing"} /\ saving = <<>> /\ dirty
  /\ Copy
  /\ UNCHANGED <<doc, redraw, shown, stage, file, pad, notice, failed, lost, bounds>>

(* No file is a file that holds an empty document.                         *)
Holding(d) == [parses |-> TRUE, doc |-> d]

AfterWriteForgotten(ok) == UNCHANGED dirty
AfterWriteClean(ok)     == dirty' = ~ok
AfterWrite(ok)          == dirty' = (dirty \/ ~ok)

Write ==
  /\ stage # "down" /\ saving # <<>>
  /\ \E ok \in BOOLEAN :
       /\ AfterWrite(ok)
       /\ file' = IF ok THEN Holding(saving[1]) ELSE file
       /\ IF ok THEN UNCHANGED failures ELSE failures < MaxFailures /\ failures' = failures + 1
  /\ saving' = <<>>
  /\ stage' = IF stage = "last" THEN "closed" ELSE stage
  /\ UNCHANGED <<doc, redraw, shown, pad, notice, failed, lost, changes, starts>>

Close ==
  /\ stage = "up" /\ stage' = "closing"
  /\ UNCHANGED <<object, redraw, shown, saving, file, pad, notice, failed, lost, bounds>>

LastSave ==
  /\ stage = "closing" /\ saving = <<>>
  /\ IF dirty THEN Copy /\ stage' = "last" ELSE UNCHANGED <<saving, dirty>> /\ stage' = "closed"
  /\ UNCHANGED <<doc, redraw, shown, file, pad, notice, failed, lost, bounds>>

-----------------------------------------------------------------------------
ASSUME SavedAssumption == \A d \in SavedDocs : Docs(d) /\ Valid(d)

(* The process ends: killed anywhere, or after Close.                      *)
Loaded == IF file.parses /\ Valid(file.doc) THEN file.doc ELSE NewDoc

End ==
  /\ stage # "down" /\ stage' = "down"
  /\ lost' = (lost \/ Loaded # doc \/ left # {})
  /\ doc' = NewDoc /\ dirty' = FALSE /\ saving' = <<>>
  /\ busy' = FALSE /\ left' = {} /\ announce' = FALSE
  /\ shown' = [k \in Keys |-> Unknown] /\ notice' = LayerOf(NewDoc)
  /\ UNCHANGED <<file, pad, failed, bounds>>

(* Open: a file that does not load moves aside.  It draws the keys that    *)
(* the object holds; clients come later and read the layer.                *)
Start ==
  /\ stage = "down" /\ starts < MaxStarts /\ starts' = starts + 1
  /\ stage' = "up"
  /\ doc' = Loaded /\ file' = Holding(Loaded)
  /\ busy' = TRUE /\ left' = {k \in Keys : Desired(Loaded)[k] # Blank}
  /\ notice' = LayerOf(Loaded) /\ failed' = {}
  /\ UNCHANGED <<dirty, announce, shown, saving, pad, lost, changes, failures>>

(* An earlier daemon left its file and its keys, or somebody edited the    *)
(* file so that it no longer parses.                                       *)
Init ==
  /\ stage = "down" /\ doc = NewDoc /\ dirty = FALSE /\ saving = <<>>
  /\ busy = FALSE /\ left = {} /\ announce = FALSE
  /\ shown = [k \in Keys |-> Unknown] /\ notice = LayerOf(NewDoc)
  /\ \E d \in SavedDocs \union {NewDoc} :
       pad = Desired(d) /\ file \in [parses : BOOLEAN, doc : {d}]
  /\ lost = ~file.parses /\ failed = {}
  /\ changes = 0 /\ failures = 0 /\ starts = 0

Change  == (\E u \in Requests : Set(u)) \/ \E k \in Keys : Press(k)
Redraw  == (\E ks \in SUBSET Keys : Draw(ks)) \/ EndMutate
Saver   == Tick \/ Write \/ LastSave

Next == Change \/ Redraw \/ Saver \/ Close \/ End \/ Start

Spec == Init /\ [][Next]_vars

(* The goroutine that redraws and the saver run.                           *)
FairSpec == Spec /\ WF_vars(Redraw) /\ WF_vars(Saver)

-----------------------------------------------------------------------------
TypeOK ==
  /\ Docs(doc) /\ dirty \in BOOLEAN
  /\ busy \in BOOLEAN /\ left \subseteq Keys /\ announce \in BOOLEAN
  /\ shown \in [Keys -> Views \union {Unknown}]
  /\ stage \in {"up", "closing", "last", "closed", "down"}
  /\ (saving # <<>> => saving = <<saving[1]>> /\ Docs(saving[1]))
  /\ file.parses \in BOOLEAN /\ Docs(file.doc)
  /\ pad \in [Keys -> Views \union {Mixed}]
  /\ failed \subseteq Keys /\ lost \in BOOLEAN
  /\ changes \in Nat /\ failures \in Nat /\ starts \in Nat

(* Whatever a client sets or removes and whatever is pressed, the settled  *)
(* result validates unless it breaks a limit of the tree: no change is     *)
(* refused, and no file of the daemon's own moved aside, because of the    *)
(* open layer or its pages (settle before Validate).                       *)
EveryChangeFits ==
  /\ TypeOK
  /\ ~busy =>
       /\ \A u \in Requests :
            LET d == Applied(doc, u) IN
            IF d = None THEN TRUE ELSE Fits(d) => Valid(Settle(d))
       /\ \A k \in Keys :
            LET d == Pressed(doc, k) IN IF d = None THEN TRUE ELSE Valid(Settle(d))

(* Between two redraws every key shows what the tree says, over mutations, *)
(* restarts and saves, except a key that the last redraw failed to draw,   *)
(* and a blank key after a draw that failed or an end of the daemon that   *)
(* lost a change or cut a redraw short (flush leaves a blank key that was  *)
(* never drawn as it is).                                                  *)
PadShowsTree ==
  stage # "down" /\ ~busy =>
    \A k \in Keys : \/ pad[k] = Desired(doc)[k]
                    \/ k \in failed
                    \/ (lost \/ failures > 0) /\ Desired(doc)[k] = Blank

(* Between two redraws, clients know the open layer, its page and how many *)
(* pages it has, also after a change that only adds a page (LayerChanged). *)
NoticesAgree == stage # "down" /\ ~busy => notice = LayerOf(doc)

(* An object that is not dirty is in the file or on its way there, however *)
(* changes, failed writes and Close interleave with the saver.             *)
CleanMeansSaved ==
  stage # "down" /\ ~dirty => IF saving # <<>> THEN saving = <<doc>> ELSE Loaded = doc

(* A change that is not a press closes no layer but one that it took away, *)
(* and keeps the page unless the layer no longer has it.                   *)
LayerStaysOpen ==
  [][Running /\ Running' /\ <<doc.keys, doc.nodes>>' # <<doc.keys, doc.nodes>> =>
       LET i == Len(doc'.active) IN
       /\ i <= Len(doc.active) /\ doc'.active = Upto(doc.active, i)
       /\ i < Len(doc.active) => ~Opens(doc', Upto(doc.active, i + 1))
       /\ i > 0 =>
            \/ doc'.page = PageOf(doc, i)
            \/ /\ doc'.page < PageOf(doc, i)
               /\ doc'.page + 1 = PageCount(Len(Kids(doc', doc'.active)))]_vars

(* A running daemon's changes reach the file, over writes that fail.       *)
ChangesAreSaved ==
  stage = "up" /\ Loaded # doc ~> Loaded = doc \/ stage # "up"

=============================================================================
