---------------------------- MODULE MCLayerTree ----------------------------
(* A layer with two pages, one layer inside another, and two keys.         *)
EXTENDS LayerTree

CONSTANTS a, b, c, dull, lit

Tree(keys, nodes, active, page, parents) ==
  [keys |-> keys, nodes |-> nodes, active |-> active, page |-> page, parents |-> parents]

Leaf(face) == Node(face, <<>>)

Paged ==
  LET nodes == [p \in {<<a>>, <<a, a>>, <<a, b>>, <<a, c>>} |->
                  CASE p = <<a>> -> Node(dull, <<a, b, c>>)
                    [] p = <<a, b>> -> Leaf(lit)
                    [] OTHER -> Leaf(dull)]
  IN Tree([k \in Keys |-> IF k = 0 THEN a ELSE None], nodes, <<a>>, 1, <<>>)

Nested ==
  LET nodes == [p \in {<<a>>, <<a, a>>, <<a, b>>, <<a, c>>, <<a, c, a>>} |->
                  CASE p = <<a>> -> Node(lit, <<a, b, c>>)
                    [] p = <<a, c>> -> Node(dull, <<a>>)
                    [] p = <<a, c, a>> -> Leaf(lit)
                    [] OTHER -> Leaf(dull)]
  IN Tree([k \in Keys |-> IF k = 2 THEN a ELSE None], nodes, <<a, c>>, 0, <<1>>)

TwoKeys ==
  LET nodes == [p \in {<<a>>, <<b>>, <<b, a>>} |->
                  CASE p = <<b>> -> Node(dull, <<a>>)
                    [] OTHER -> Leaf(lit)]
  IN Tree([k \in Keys |-> CASE k = 0 -> a [] k = 1 -> b [] OTHER -> None], nodes, <<>>, 0, <<>>)

Saved == {Paged, Nested, TwoKeys}

(* Keys come, move and go; children are added, changed and removed on two  *)
(* levels, below the open layer, in it and above it.                       *)
SetKey(id, slot)   == [op |-> "set", path |-> <<>>, id |-> id, face |-> dull, slot |-> slot]
SetChildOf(p, id, face) == [op |-> "set", path |-> p, id |-> id, face |-> face, slot |-> None]
RemoveNode(p, id)  == [op |-> "remove", path |-> p, id |-> id]

Asked ==
  {SetKey(a, 1), SetKey(b, 1), SetKey(c, None), SetKey(b, None)}
  \union {SetChildOf(<<a>>, b, dull), SetChildOf(<<a>>, c, lit), SetChildOf(<<b>>, c, lit),
          SetChildOf(<<a, c>>, b, lit), SetChildOf(<<a, c, a>>, a, lit)}
  \union {RemoveNode(<<>>, id) : id \in {a, b}}
  \union {RemoveNode(<<a>>, id) : id \in {a, b, c}}
  \union {RemoveNode(<<a, c>>, a), RemoveNode(<<b>>, a)}
=============================================================================
