-------------------------- MODULE LayerTreeProofs --------------------------
(***************************************************************************)
(* The safety of LayerTree's redraw, notices and saves, for every document *)
(* and every request: what the pad shows, what clients are told and what   *)
(* the file holds between steps, restarts and failures.                    *)
(***************************************************************************)
EXTENDS LayerTree, FiniteSetTheorems, SequenceTheorems, TLAPS

-----------------------------------------------------------------------------
(* Pages: every child of a layer has a key, and only one, on a page that   *)
(* the arrows lead to, for every number of keys and of children.           *)
LEMMA Quotient ==
  ASSUME NEW a \in Nat, NEW p \in Nat, p >= 1
  PROVE  /\ a \div p \in Nat
         /\ (a \div p) * p <= a
         /\ a < (a \div p) * p + p
  OBVIOUS

LEMMA Monotone ==
  ASSUME NEW p \in Nat, NEW q \in Nat, NEW P \in Nat, p <= q
  PROVE  p * P <= q * P
  OBVIOUS

LEMMA PagesHold ==
  ASSUME NEW n \in Nat, n > OnePage
  PROVE  /\ PageCount(n) \in Nat /\ PageCount(n) >= 2
         /\ PageCount(n) * PerPage >= n - 1
         /\ PageCount(n) * PerPage < n - 1 + PerPage
<1>. DEFINE a == n - 1 + PerPage - 1
<1>. DEFINE p == a \div PerPage
<1>1. PerPage \in Nat /\ PerPage >= 1 /\ OnePage = PerPage + 1 /\ a \in Nat
  BY PagesAssumption DEF PerPage, OnePage
<1>2. p \in Nat /\ p * PerPage <= a /\ a < p * PerPage + PerPage
  <2>. HIDE DEF a
  <2>. QED BY <1>1, Quotient
<1>3. PageCount(n) = p
  BY <1>1 DEF PageCount
<1>4. p >= 2
  <2>1. CASE p = 0
    BY <1>1, <1>2, <2>1
  <2>2. CASE p = 1
    BY <1>1, <1>2, <2>2
  <2>. HIDE DEF p
  <2>. QED BY <1>2, <2>1, <2>2
<1>. HIDE DEF p
<1>. QED BY <1>1, <1>2, <1>3, <1>4

LEMMA OnePageHolds ==
  ASSUME NEW n \in Nat, n <= OnePage
  PROVE  PageCount(n) = 1
  BY DEF PageCount

LEMMA Sizes ==
  /\ PerPage \in Nat /\ PerPage >= 1 /\ OnePage = PerPage + 1
  /\ KeyCount = PerPage + 2 /\ RightKey = PerPage + 1 /\ RightKey \in Keys
  /\ UpKey \in Keys /\ UpKey # RightKey /\ UpKey \in 0 .. PerPage
  BY PagesAssumption DEF PerPage, OnePage, RightKey, Keys

(* The places are 0 to PerPage, one for each key but UpKey, and RightKey   *)
(* has the last one.                                                       *)
LEMMA Places ==
  /\ \A k \in Keys \ {UpKey} : ChildPlace(k) \in 0 .. PerPage
  /\ \A k \in Keys \ {UpKey} : ChildPlace(k) = PerPage <=> k = RightKey
  /\ \A j, k \in Keys \ {UpKey} : ChildPlace(j) = ChildPlace(k) => j = k
  /\ \A i \in 0 .. PerPage : \E k \in Keys \ {UpKey} : ChildPlace(k) = i
<1>1. \A k \in Keys \ {UpKey} : ChildPlace(k) \in 0 .. PerPage
  BY Sizes DEF ChildPlace, Keys
<1>2. \A k \in Keys \ {UpKey} : ChildPlace(k) = PerPage <=> k = RightKey
  BY Sizes DEF ChildPlace, Keys
<1>3. \A j, k \in Keys \ {UpKey} : ChildPlace(j) = ChildPlace(k) => j = k
  BY Sizes DEF ChildPlace, Keys
<1>4. ASSUME NEW i \in 0 .. PerPage
      PROVE  \E k \in Keys \ {UpKey} : ChildPlace(k) = i
  <2>1. CASE i < UpKey
    <3>1. i \in Keys \ {UpKey} /\ ChildPlace(i) = i
      BY <2>1, Sizes DEF ChildPlace, Keys
    <3>. QED BY <3>1
  <2>2. CASE i >= UpKey
    <3>1. i + 1 \in Keys \ {UpKey} /\ ChildPlace(i + 1) = i
      BY <2>2, Sizes DEF ChildPlace, Keys
    <3>. QED BY <3>1
  <2>. QED BY <2>1, <2>2, Sizes
<1>. QED BY <1>1, <1>2, <1>3, <1>4

(* What a key shows, by its place: a child wherever there is one, unless   *)
(* the right arrow has the key.                                            *)
LEMMA RoleOf ==
  ASSUME NEW n \in Nat, NEW page \in Nat, NEW k \in Keys
  PROVE  Role(n, page, k) = "child" <=>
           /\ k # UpKey /\ ChildOn(page, k) < n
           /\ ~(k = RightKey /\ page < PageCount(n) - 1)
  BY Sizes DEF Role

LEMMA PagesAreNumbers ==
  ASSUME NEW n \in Nat
  PROVE  PageCount(n) \in Nat /\ PageCount(n) >= 1
<1>1. CASE n <= OnePage
  BY <1>1, OnePageHolds
<1>2. CASE n > OnePage
  BY <1>2, PagesHold
<1>. QED BY <1>1, <1>2, Sizes

(* A place on a page is enough to show the child.                          *)
LEMMA ShownAt ==
  ASSUME NEW n \in Nat, NEW c \in 0 .. n - 1,
         NEW page \in 0 .. PageCount(n) - 1, NEW i \in 0 .. PerPage,
         c = page * PerPage + i,
         i = PerPage => page = PageCount(n) - 1
  PROVE  \E p \in 0 .. PageCount(n) - 1, k \in Keys : Shows(n, p, k, c)
<1>1. PICK k \in Keys \ {UpKey} : ChildPlace(k) = i
  BY Places
<1>2. ChildOn(page, k) = c
  BY <1>1 DEF ChildOn
<1>3. ~(k = RightKey /\ page < PageCount(n) - 1)
  BY <1>1, Places, PagesAreNumbers
<1>4. Role(n, page, k) = "child"
  BY <1>1, <1>2, <1>3, RoleOf, PagesAreNumbers
<1>5. Shows(n, page, k, c)
  BY <1>1, <1>2, <1>4 DEF Shows
<1>. QED BY <1>1, <1>5

LEMMA ChildIsShown ==
  ASSUME NEW n \in Nat, NEW c \in 0 .. n - 1
  PROVE  \E p \in 0 .. PageCount(n) - 1, k \in Keys : Shows(n, p, k, c)
<1>1. CASE n <= OnePage
  <2>1. 0 \in 0 .. PageCount(n) - 1 /\ 0 = PageCount(n) - 1
    BY <1>1, OnePageHolds
  <2>2. c \in 0 .. PerPage /\ c = 0 * PerPage + c
    BY <1>1, Sizes
  <2>. QED BY <2>1, <2>2, ShownAt
<1>2. CASE n > OnePage
  <2>. DEFINE q == c \div PerPage
  <2>1. q \in Nat /\ q * PerPage <= c /\ c < q * PerPage + PerPage
    BY Sizes, Quotient
  <2>2. /\ PageCount(n) \in Nat /\ PageCount(n) >= 2
        /\ PageCount(n) * PerPage >= n - 1
        /\ PageCount(n) * PerPage < n - 1 + PerPage
    BY <1>2, PagesHold
  <2>. HIDE DEF q
  <2>3. CASE q <= PageCount(n) - 1
    <3>1. q \in 0 .. PageCount(n) - 1
      BY <2>1, <2>2, <2>3
    <3>2. c - q * PerPage \in 0 .. PerPage - 1
      BY <2>1, Sizes
    <3>3. c = q * PerPage + (c - q * PerPage)
      BY <2>1, Sizes
    <3>4. /\ c - q * PerPage \in 0 .. PerPage
          /\ c - q * PerPage # PerPage
      BY <3>2, Sizes
    <3>. QED BY <3>1, <3>3, <3>4, ShownAt
  <2>4. CASE q >= PageCount(n)
    <3>. DEFINE l == PageCount(n) - 1
    <3>1. l \in Nat /\ l + 1 = PageCount(n)
      BY <2>2
    <3>2. q * PerPage >= PageCount(n) * PerPage
      BY <2>1, <2>2, <2>4, Monotone, Sizes
    <3>3. c = PageCount(n) * PerPage
      BY <2>1, <2>2, <3>2, Sizes
    <3>4. PageCount(n) * PerPage = l * PerPage + PerPage
      BY <3>1, Sizes
    <3>5. l \in 0 .. PageCount(n) - 1 /\ PerPage \in 0 .. PerPage
      BY <3>1, Sizes
    <3>. QED BY <3>3, <3>4, <3>5, ShownAt
  <2>. QED BY <2>1, <2>2, <2>3, <2>4
<1>. QED BY <1>1, <1>2, Sizes

LEMMA ShownOnce ==
  ASSUME NEW n \in Nat, NEW c \in 0 .. n - 1,
         NEW p \in 0 .. PageCount(n) - 1, NEW q \in 0 .. PageCount(n) - 1,
         NEW j \in Keys, NEW k \in Keys,
         Shows(n, p, j, c), Shows(n, q, k, c)
  PROVE  p <= q
<1>. SUFFICES ASSUME q < p PROVE FALSE
  BY PagesAreNumbers
<1>1. k \in Keys \ {UpKey} /\ k # RightKey
  BY RoleOf, PagesAreNumbers DEF Shows
<1>2. ChildPlace(k) \in 0 .. PerPage - 1
  BY <1>1, Places, Sizes
<1>3. c < q * PerPage + PerPage
  BY <1>2, Sizes, PagesAreNumbers DEF Shows, ChildOn
<1>4. j \in Keys \ {UpKey} /\ ChildPlace(j) \in 0 .. PerPage
  BY RoleOf, PagesAreNumbers, Places DEF Shows
<1>5. c >= p * PerPage
  BY <1>4, Sizes, PagesAreNumbers DEF Shows, ChildOn
<1>6. (q + 1) * PerPage <= p * PerPage
  BY Monotone, Sizes, PagesAreNumbers
<1>7. (q + 1) * PerPage = q * PerPage + PerPage
  BY Sizes, PagesAreNumbers
<1>. QED BY <1>3, <1>5, <1>6, <1>7, Sizes, PagesAreNumbers

(* However many children a node has, each of them is on one page of its    *)
(* layer and on one key of that page (PageCount and pageLayout).           *)
THEOREM ChildHasOneKey ==
  ASSUME NEW n \in Nat
  PROVE  EachChildOnce(n)
<1>. SUFFICES ASSUME NEW c \in 0 .. n - 1
     PROVE /\ \E p \in 0 .. PageCount(n) - 1, k \in Keys : Shows(n, p, k, c)
           /\ \A p, q \in 0 .. PageCount(n) - 1, j, k \in Keys :
                Shows(n, p, j, c) /\ Shows(n, q, k, c) => p = q /\ j = k
  BY DEF EachChildOnce
<1>1. \E p \in 0 .. PageCount(n) - 1, k \in Keys : Shows(n, p, k, c)
  BY ChildIsShown
<1>2. ASSUME NEW p \in 0 .. PageCount(n) - 1, NEW q \in 0 .. PageCount(n) - 1,
             NEW j \in Keys, NEW k \in Keys,
             Shows(n, p, j, c), Shows(n, q, k, c)
      PROVE  p = q /\ j = k
  <2>1. p = q
    <3>1. p <= q
      BY <1>2, ShownOnce
    <3>2. q <= p
      BY <1>2, ShownOnce
    <3>. QED BY <3>1, <3>2, PagesAreNumbers
  <2>2. j \in Keys \ {UpKey} /\ k \in Keys \ {UpKey}
    BY <1>2, RoleOf, PagesAreNumbers DEF Shows
  <2>3. ChildPlace(j) \in 0 .. PerPage /\ ChildPlace(k) \in 0 .. PerPage
    BY <2>2, Places
  <2>4. ChildPlace(j) = ChildPlace(k)
    BY <1>2, <2>1, <2>3, Sizes, PagesAreNumbers DEF Shows, ChildOn
  <2>. QED BY <2>1, <2>2, <2>4, Places
<1>. QED BY <1>1, <1>2

(* The arrows reach every page of a layer and lead nowhere else, and no    *)
(* page is empty.                                                          *)
THEOREM ArrowsReachThePages ==
  ASSUME NEW n \in Nat, n >= 1
  PROVE  ArrowsLead(n)
<1>. SUFFICES ASSUME NEW page \in 0 .. PageCount(n) - 1
     PROVE /\ Role(n, page, RightKey) = "right" <=> page + 1 \in 0 .. PageCount(n) - 1
           /\ Role(n, page, UpKey) = "left" <=> page - 1 \in 0 .. PageCount(n) - 1
           /\ \E k \in Keys : Role(n, page, k) = "child"
  BY DEF ArrowsLead
<1>0. PageCount(n) \in Nat /\ PageCount(n) >= 1 /\ page \in Nat /\ page <= PageCount(n) - 1
  BY PagesAreNumbers
<1>1. Role(n, page, RightKey) = "right" <=> page + 1 \in 0 .. PageCount(n) - 1
  BY <1>0, Sizes DEF Role
<1>2. Role(n, page, UpKey) = "left" <=> page - 1 \in 0 .. PageCount(n) - 1
  BY <1>0, Sizes DEF Role
<1>3. \E k \in Keys : Role(n, page, k) = "child"
  <2>1. page * PerPage < n
    <3>1. CASE n <= OnePage
      <4>1. page = 0
        BY <3>1, <1>0, OnePageHolds
      <4>. QED BY <4>1, Sizes
    <3>2. CASE n > OnePage
      <4>1. PageCount(n) * PerPage < n - 1 + PerPage
        BY <3>2, PagesHold
      <4>2. (page + 1) * PerPage <= PageCount(n) * PerPage
        BY <1>0, Monotone, Sizes
      <4>3. (page + 1) * PerPage = page * PerPage + PerPage
        BY <1>0, Sizes
      <4>. QED BY <4>1, <4>2, <4>3, <1>0, Sizes
    <3>. QED BY <3>1, <3>2, Sizes
  <2>2. PICK k \in Keys \ {UpKey} : ChildPlace(k) = 0
    BY Places, Sizes
  <2>3. k # RightKey
    BY <2>2, Places, Sizes
  <2>4. ChildOn(page, k) < n
    BY <2>1, <2>2, <1>0, Sizes DEF ChildOn
  <2>. QED BY <2>2, <2>3, <2>4, <1>0, RoleOf
<1>. QED BY <1>1, <1>2, <1>3

-----------------------------------------------------------------------------
(* The layer tree.                                                         *)
LEMMA RoleIsRole ==
  ASSUME NEW n, NEW page, NEW k
  PROVE  Role(n, page, k) \in Roles
  BY Zenon DEF Role, Roles

LEMMA DesiredIsKnown ==
  ASSUME NEW d, NEW k \in Keys
  PROVE  Desired(d)[k] # Unknown
<1>1. DesiredTop(d, k) # Unknown
  BY DEF DesiredTop, View, Unknown, Blank
<1>2. DesiredInLayer(d, k) # Unknown
  <2>. DEFINE role == Role(Len(Kids(d, d.active)), d.page, k)
  <2>1. role \in Roles
    BY RoleIsRole
  <2>2. CASE role = "child"
    BY <2>2, Zenon DEF DesiredInLayer, View, Unknown
  <2>. QED BY <2>1, <2>2 DEF DesiredInLayer, View, Unknown, Blank, Roles
<1>. QED BY <1>1, <1>2 DEF Desired

-----------------------------------------------------------------------------
(* A document as a tree.  The parts of Docs, and what validation asks of   *)
(* the children, as facts about nodes and top-level keys.                  *)
NodesOK(N) ==
  /\ DOMAIN N \subseteq Seq(Ids) \ {<<>>}
  /\ \A p \in DOMAIN N : N[p] \in [face : Faces, kids : Seq(Ids)]
  /\ \A p \in DOMAIN N : \A id \in Elems(N[p].kids) : Append(p, id) \in DOMAIN N
  /\ \A p \in DOMAIN N : \A i \in 1 .. Len(p) - 1 :
       Upto(p, i) \in DOMAIN N /\ p[i + 1] \in Elems(N[Upto(p, i)].kids)

TopsOK(K, N) ==
  /\ K \in [Keys -> IdOrNone]
  /\ \A id \in Ids : <<id>> \in DOMAIN N <=> \E k \in Keys : K[k] = id
  /\ \A j, k \in Keys : K[j] = K[k] /\ K[j] # None => j = k

PlaceOK(d) == d.active \in Seq(Ids) /\ d.page \in Nat /\ d.parents \in Seq(Nat)

IsDoc(d) ==
  d = [keys |-> d.keys, nodes |-> d.nodes, active |-> d.active, page |-> d.page,
       parents |-> d.parents]

Distinct(s)     == \A i, j \in 1 .. Len(s) : s[i] = s[j] => i = j
KidsDistinct(N) == \A p \in DOMAIN N : Distinct(N[p].kids)

LEMMA DocsParts ==
  ASSUME NEW d
  PROVE  Docs(d) <=> IsDoc(d) /\ TopsOK(d.keys, d.nodes) /\ NodesOK(d.nodes) /\ PlaceOK(d)
  BY Zenon DEF Docs, IsDoc, TopsOK, NodesOK, PlaceOK, Has, Kids

(* Ids are distinct when there are as many as places.                      *)
LEMMA CountDistinct ==
  ASSUME NEW S, NEW s \in Seq(S)
  PROVE  Cardinality(Elems(s)) = Len(s) <=> Distinct(s)
<1>. DEFINE P == 1 .. Len(s)
<1>1. DOMAIN s = P /\ Len(s) \in Nat
  OBVIOUS
<1>2. IsFiniteSet(P) /\ Cardinality(P) = Len(s)
  BY <1>1, FS_Interval
<1>3. s \in Surjection(P, Elems(s))
  <2>1. s = [i \in P |-> s[i]]
    OBVIOUS
  <2>2. \A i \in P : s[i] \in Elems(s)
    BY <1>1 DEF Elems
  <2>3. s \in [P -> Elems(s)]
    BY <2>1, <2>2
  <2>4. \A t \in Elems(s) : \E i \in P : s[i] = t
    BY <1>1 DEF Elems
  <2>. QED BY <2>3, <2>4 DEF Surjection
<1>4. Cardinality(Elems(s)) = Cardinality(P) <=> s \in Injection(P, Elems(s))
  BY <1>2, <1>3, FS_Surjection
<1>5. s \in Injection(P, Elems(s)) <=> Distinct(s)
  BY <1>3 DEF Injection, IsInjective, Surjection, Distinct
<1>. QED BY <1>2, <1>4, <1>5

(* A child that is taken out leaves the others, once each.                 *)
LEMMA SplicedKids ==
  ASSUME NEW s \in Seq(Ids), Distinct(s), NEW id \in Elems(s)
  PROVE  /\ Spliced(s, id) \in Seq(Ids)
         /\ Elems(Spliced(s, id)) = Elems(s) \ {id}
         /\ Distinct(Spliced(s, id))
<1>. DEFINE at == CHOOSE i \in DOMAIN s : s[i] = id
<1>1. at \in DOMAIN s /\ s[at] = id
  BY DEF Elems
<1>2. PICK i \in 1 .. Len(s) : i = at
  BY <1>1
<1>3. s[i] = id
  BY <1>1, <1>2
<1>0. Len(s) \in Nat
  OBVIOUS
<1>4. PICK a : a = SubSeq(s, 1, i - 1)
  OBVIOUS
<1>a. a \in Seq(Ids) /\ Len(a) = i - 1 /\ \A j \in 1 .. i - 1 : a[j] = s[j]
  BY <1>4
<1>5. PICK b : b = SubSeq(s, i + 1, Len(s))
  OBVIOUS
<1>b. b \in Seq(Ids) /\ Len(b) = Len(s) - i /\ \A j \in 1 .. Len(s) - i : b[j] = s[j + i]
  BY <1>5
<1>6. PICK c : c = a \o b
  OBVIOUS
<1>c. /\ c \in Seq(Ids) /\ Len(c) = Len(a) + Len(b)
      /\ \A j \in 1 .. Len(a) + Len(b) : c[j] = IF j <= Len(a) THEN a[j] ELSE b[j - Len(a)]
  BY <1>6, <1>a, <1>b, ConcatProperties
<1>7. /\ Len(c) = Len(s) - 1 /\ Spliced(s, id) = c
      /\ \A j \in 1 .. i - 1 : c[j] = s[j]
      /\ \A j \in i .. Len(s) - 1 : c[j] = s[j + 1]
  <2>1. Spliced(s, id) = c
    BY <1>2, <1>4, <1>5, <1>6 DEF Spliced
  <2>2. Len(c) = Len(s) - 1
    BY <1>0, <1>a, <1>b, <1>c
  <2>3. ASSUME NEW j \in 1 .. i - 1 PROVE c[j] = s[j]
    <3>1. j \in 1 .. Len(a) + Len(b) /\ j <= Len(a)
      BY <1>0, <1>a, <1>b
    <3>. QED BY <3>1, <1>a, <1>c
  <2>4. ASSUME NEW j \in i .. Len(s) - 1 PROVE c[j] = s[j + 1]
    <3>1. /\ j \in 1 .. Len(a) + Len(b) /\ ~(j <= Len(a))
          /\ j - Len(a) \in 1 .. Len(s) - i /\ (j - Len(a)) + i = j + 1
      BY <1>0, <1>a, <1>b
    <3>. QED BY <3>1, <1>b, <1>c
  <2>. QED BY <2>1, <2>2, <2>3, <2>4
<1>8. Distinct(c)
  <2>1. SUFFICES ASSUME NEW x \in 1 .. Len(c), NEW y \in 1 .. Len(c), c[x] = c[y]
                 PROVE  x = y
    BY DEF Distinct
  <2>2. PICK v \in 1 .. Len(s) : c[x] = s[v] /\ v = IF x < i THEN x ELSE x + 1
    BY <1>0, <1>7, <1>c
  <2>3. PICK w \in 1 .. Len(s) : c[y] = s[w] /\ w = IF y < i THEN y ELSE y + 1
    BY <1>0, <1>7, <1>c
  <2>4. v = w
    BY <2>1, <2>2, <2>3 DEF Distinct
  <2>. QED BY <2>2, <2>3, <2>4, <1>0, <1>c
<1>9. DOMAIN c = 1 .. Len(s) - 1 /\ DOMAIN s = 1 .. Len(s)
  BY <1>c, <1>7
<1>10. Elems(c) \subseteq Elems(s) \ {id}
  <2>. SUFFICES ASSUME NEW j \in 1 .. Len(s) - 1 PROVE c[j] \in Elems(s) \ {id}
    BY <1>9 DEF Elems
  <2>1. PICK l \in 1 .. Len(s) : l # i /\ c[j] = s[l]
    <3>1. CASE j < i
      BY <3>1, <1>7
    <3>2. CASE j >= i
      BY <3>2, <1>7
    <3>. QED BY <3>1, <3>2
  <2>2. s[l] # id
    BY <2>1, <1>3 DEF Distinct
  <2>. QED BY <2>1, <2>2, <1>9 DEF Elems
<1>11. Elems(s) \ {id} \subseteq Elems(c)
  <2>. SUFFICES ASSUME NEW e \in Elems(s), e # id PROVE e \in Elems(c)
    OBVIOUS
  <2>0. PICK j \in 1 .. Len(s) : s[j] = e
    BY <1>9 DEF Elems
  <2>1. CASE j < i
    <3>1. c[j] = s[j] /\ j \in DOMAIN c
      BY <2>1, <1>7, <1>9
    <3>. QED BY <3>1, <2>0 DEF Elems
  <2>2. CASE j > i
    <3>1. c[j - 1] = s[j] /\ j - 1 \in DOMAIN c
      BY <2>2, <1>7, <1>9
    <3>. QED BY <3>1, <2>0 DEF Elems
  <2>. QED BY <2>0, <2>1, <2>2, <1>3
<1>. QED BY <1>c, <1>7, <1>8, <1>10, <1>11

LEMMA AppendedKids ==
  ASSUME NEW s \in Seq(Ids), Distinct(s), NEW id \in Ids, id \notin Elems(s)
  PROVE  /\ Append(s, id) \in Seq(Ids)
         /\ Elems(Append(s, id)) = Elems(s) \union {id}
         /\ Distinct(Append(s, id))
<1>1. /\ Append(s, id) \in Seq(Ids) /\ Len(Append(s, id)) = Len(s) + 1
      /\ \A i \in 1 .. Len(s) : Append(s, id)[i] = s[i]
      /\ Append(s, id)[Len(s) + 1] = id
      /\ DOMAIN Append(s, id) = 1 .. Len(s) + 1 /\ DOMAIN s = 1 .. Len(s) /\ Len(s) \in Nat
  OBVIOUS
<1>2. Elems(Append(s, id)) = Elems(s) \union {id}
  BY <1>1 DEF Elems
<1>3. \A i \in 1 .. Len(s) : s[i] # id
  BY <1>1 DEF Elems
<1>4. Distinct(Append(s, id))
  BY <1>1, <1>3 DEF Distinct
<1>. QED BY <1>1, <1>2, <1>4

(* Paths and their beginnings.                                             *)
LEMMA UptoIs ==
  ASSUME NEW p \in Seq(Ids), NEW i \in 0 .. Len(p)
  PROVE  /\ Upto(p, i) \in Seq(Ids) /\ Len(Upto(p, i)) = i
         /\ \A j \in 1 .. i : Upto(p, i)[j] = p[j]
  BY DEF Upto

LEMMA UptoAll ==
  ASSUME NEW p \in Seq(Ids)
  PROVE  Upto(p, Len(p)) = p
  BY DEF Upto

LEMMA UptoUpto ==
  ASSUME NEW p \in Seq(Ids), NEW i \in 0 .. Len(p), NEW j \in 0 .. i
  PROVE  Upto(Upto(p, i), j) = Upto(p, j)
<1>1. PICK q \in Seq(Ids) : /\ q = Upto(p, i) /\ Len(q) = i
                            /\ \A k \in 1 .. i : q[k] = p[k]
  BY UptoIs
<1>2. PICK r \in Seq(Ids) : /\ r = Upto(q, j) /\ Len(r) = j
                            /\ \A k \in 1 .. j : r[k] = q[k]
  BY <1>1, UptoIs
<1>3. PICK t \in Seq(Ids) : /\ t = Upto(p, j) /\ Len(t) = j
                            /\ \A k \in 1 .. j : t[k] = p[k]
  BY UptoIs
<1>4. r = t
  <2>1. Len(r) = Len(t) /\ \A k \in 1 .. Len(r) : r[k] = t[k]
    BY <1>1, <1>2, <1>3
  <2>. QED BY <2>1, SeqEqual
<1>. QED BY <1>1, <1>2, <1>3, <1>4

LEMMA UptoAppend ==
  ASSUME NEW p \in Seq(Ids), NEW id \in Ids, NEW j \in 0 .. Len(p)
  PROVE  Upto(Append(p, id), j) = Upto(p, j)
<1>0. PICK q : q = Append(p, id)
  OBVIOUS
<1>1. /\ q \in Seq(Ids) /\ Len(q) = Len(p) + 1 /\ Len(p) \in Nat
      /\ \A k \in 1 .. Len(p) : q[k] = p[k]
  BY <1>0
<1>2. q \in Seq(Ids) /\ j \in 0 .. Len(q)
  BY <1>1
<1>3. PICK r \in Seq(Ids) : /\ r = Upto(q, j) /\ Len(r) = j
                            /\ \A k \in 1 .. j : r[k] = q[k]
  BY <1>2, UptoIs
<1>4. PICK t \in Seq(Ids) : /\ t = Upto(p, j) /\ Len(t) = j
                            /\ \A k \in 1 .. j : t[k] = p[k]
  BY UptoIs
<1>5. r = t
  <2>1. Len(r) = j /\ Len(t) = j
    BY <1>3, <1>4
  <2>2. ASSUME NEW k \in 1 .. j
        PROVE  r[k] = t[k]
    <3>1. k \in 1 .. Len(p)
      BY <1>1
    <3>2. r[k] = q[k] /\ t[k] = p[k]
      BY <1>3, <1>4
    <3>. QED BY <3>1, <3>2, <1>1
  <2>. QED BY <2>1, <2>2, SeqEqual
<1>. QED BY <1>0, <1>1, <1>3, <1>4, <1>5

LEMMA UptoOne ==
  ASSUME NEW p \in Seq(Ids), Len(p) >= 1
  PROVE  Upto(p, 1) = <<p[1]>> /\ p[1] \in Ids
<1>1. p[1] \in Ids /\ <<p[1]>> \in Seq(Ids) /\ Len(<<p[1]>>) = 1
  OBVIOUS
<1>2. 1 \in 0 .. Len(p)
  OBVIOUS
<1>3. PICK a \in Seq(Ids) : a = Upto(p, 1) /\ Len(a) = 1 /\ \A j \in 1 .. 1 : a[j] = p[j]
  BY <1>2, UptoIs
<1>4. a[1] = p[1]
  BY <1>3
<1>5. PICK b \in Seq(Ids) : b = <<p[1]>> /\ Len(b) = 1 /\ b[1] = p[1]
  BY <1>1
<1>6. a = b
  BY <1>3, <1>4, <1>5
<1>. QED BY <1>1, <1>3, <1>5, <1>6

LEMMA AppendIs ==
  ASSUME NEW p \in Seq(Ids), NEW id \in Ids
  PROVE  /\ Append(p, id) \in Seq(Ids) \ {<<>>} /\ Len(Append(p, id)) = Len(p) + 1
         /\ \A i \in 1 .. Len(p) : Append(p, id)[i] = p[i]
         /\ Append(p, id)[Len(p) + 1] = id
  OBVIOUS

LEMMA SameAppend ==
  ASSUME NEW p \in Seq(Ids), NEW q \in Seq(Ids), NEW i \in Ids, NEW j \in Ids,
         Append(p, i) = Append(q, j)
  PROVE  p = q /\ i = j
<1>1. Len(p) = Len(q)
  <2>1. Len(Append(p, i)) = Len(p) + 1 /\ Len(Append(q, j)) = Len(q) + 1
    OBVIOUS
  <2>2. Len(p) \in Nat /\ Len(q) \in Nat
    OBVIOUS
  <2>. QED BY <2>1, <2>2
<1>2. i = j
  BY <1>1, AppendIs
<1>3. \A k \in 1 .. Len(p) : p[k] = q[k]
  BY <1>1, AppendIs
<1>. QED BY <1>1, <1>2, <1>3
-----------------------------------------------------------------------------
(* What is under a path: its nodes' paths all have it as their beginning.  *)
LEMMA UnderUpto ==
  ASSUME NEW p \in Seq(Ids), NEW path \in Seq(Ids), NEW i \in 0 .. Len(p),
         IsUnder(Upto(p, i), path)
  PROVE  IsUnder(p, path)
<1>1. PICK q \in Seq(Ids) : q = Upto(p, i) /\ Len(q) = i
  BY UptoIs
<1>2. PICK n \in Nat : n = Len(path)
  OBVIOUS
<1>3. i >= n /\ Upto(q, n) = path
  BY <1>1, <1>2 DEF IsUnder
<1>4. n \in 0 .. i /\ Len(p) \in Nat
  BY <1>2, <1>3
<1>5. Upto(p, n) = path
  BY <1>1, <1>3, <1>4, UptoUpto
<1>. QED BY <1>2, <1>4, <1>5 DEF IsUnder

LEMMA UnderAppend ==
  ASSUME NEW p \in Seq(Ids), NEW path \in Seq(Ids), NEW id \in Ids,
         ~IsUnder(p, path), IsUnder(Append(p, id), path)
  PROVE  Append(p, id) = path
<1>1. PICK q : q = Append(p, id)
  OBVIOUS
<1>2. q \in Seq(Ids) /\ Len(q) = Len(p) + 1
  BY <1>1
<1>3. PICK n \in Nat : n = Len(path)
  OBVIOUS
<1>4. PICK m \in Nat : m = Len(p)
  OBVIOUS
<1>5. m + 1 >= n /\ Upto(q, n) = path
  BY <1>1, <1>2, <1>3, <1>4 DEF IsUnder
<1>6. CASE n = m + 1
  BY <1>1, <1>2, <1>4, <1>5, <1>6, UptoAll
<1>7. CASE n <= m
  <2>1. Upto(q, n) = Upto(p, n)
    BY <1>1, <1>4, <1>7, UptoAppend
  <2>. QED BY <2>1, <1>3, <1>4, <1>5, <1>7 DEF IsUnder
<1>. QED BY <1>5, <1>6, <1>7

LEMMA UnderItself ==
  ASSUME NEW p \in Seq(Ids)
  PROVE  IsUnder(p, p)
<1>1. Len(p) \in Nat
  OBVIOUS
<1>. QED BY <1>1, UptoAll DEF IsUnder

LEMMA LongerIsUnder ==
  ASSUME NEW p \in Seq(Ids), NEW path \in Seq(Ids), Len(p) < Len(path)
  PROVE  ~IsUnder(p, path)
<1>1. Len(p) \in Nat /\ Len(path) \in Nat
  OBVIOUS
<1>. QED BY <1>1 DEF IsUnder

(* Siblings at the top are not under each other.                           *)
LEMMA TopsApart ==
  ASSUME NEW i \in Ids, NEW j \in Ids, IsUnder(<<i>>, <<j>>)
  PROVE  i = j
<1>1. <<i>> \in Seq(Ids) /\ <<j>> \in Seq(Ids) /\ Len(<<i>>) = 1 /\ Len(<<j>>) = 1
  OBVIOUS
<1>2. Upto(<<i>>, 1) = <<j>>
  BY <1>1 DEF IsUnder
<1>3. Upto(<<i>>, 1) = <<i>>
  BY <1>1, UptoAll
<1>4. <<i>>[1] = i /\ <<j>>[1] = j
  OBVIOUS
<1>. QED BY <1>2, <1>3, <1>4

-----------------------------------------------------------------------------
(* A tree stays one: a node changes its face, comes, or goes with all that *)
(* is under it.                                                            *)
LEMMA Parent ==
  ASSUME NEW N, NodesOK(N), NEW q \in Seq(Ids) \ {<<>>}, NEW id \in Ids,
         Append(q, id) \in DOMAIN N
  PROVE  q \in DOMAIN N /\ id \in Elems(N[q].kids)
<1>1. PICK p : p = Append(q, id)
  OBVIOUS
<1>2. PICK n \in Nat : n = Len(q) /\ n >= 1
  OBVIOUS
<1>3. Len(p) = n + 1 /\ p[n + 1] = id
  BY <1>1, <1>2, AppendIs
<1>4. n \in 1 .. Len(p) - 1
  BY <1>2, <1>3
<1>5. Upto(p, n) = q
  BY <1>1, <1>2, UptoAppend, UptoAll
<1>6. Upto(p, n) \in DOMAIN N /\ p[n + 1] \in Elems(N[Upto(p, n)].kids)
  BY <1>1, <1>4 DEF NodesOK
<1>. QED BY <1>3, <1>5, <1>6

LEMMA SameKids ==
  ASSUME NEW N, NodesOK(N), KidsDistinct(N),
         NEW M, DOMAIN M = DOMAIN N,
         \A p \in DOMAIN N : M[p] \in [face : Faces, kids : Seq(Ids)] /\ M[p].kids = N[p].kids
  PROVE  NodesOK(M) /\ KidsDistinct(M)
<1>1. DOMAIN M \subseteq Seq(Ids) \ {<<>>}
  BY DEF NodesOK
<1>2. \A p \in DOMAIN M : \A id \in Elems(M[p].kids) : Append(p, id) \in DOMAIN M
  BY DEF NodesOK
<1>3. ASSUME NEW p \in DOMAIN M, NEW i \in 1 .. Len(p) - 1
      PROVE  Upto(p, i) \in DOMAIN M /\ p[i + 1] \in Elems(M[Upto(p, i)].kids)
  BY DEF NodesOK
<1>4. KidsDistinct(M)
  BY DEF KidsDistinct
<1>. QED BY <1>1, <1>2, <1>3, <1>4 DEF NodesOK

LEMMA TopAdded ==
  ASSUME NEW N, NodesOK(N), KidsDistinct(N), NEW id \in Ids, NEW face \in Faces,
         <<id>> \notin DOMAIN N,
         NEW M, DOMAIN M = DOMAIN N \union {<<id>>},
         M[<<id>>] = Node(face, <<>>), \A p \in DOMAIN N : M[p] = N[p]
  PROVE  NodesOK(M) /\ KidsDistinct(M)
<1>0. PICK t : t = <<id>>
  OBVIOUS
<1>1. t \in Seq(Ids) \ {<<>>} /\ Len(t) = 1
  BY <1>0
<1>2. DOMAIN M \subseteq Seq(Ids) \ {<<>>}
  BY <1>0, <1>1 DEF NodesOK
<1>3. M[t] \in [face : Faces, kids : Seq(Ids)] /\ M[t].kids = <<>>
  <2>1. <<>> \in Seq(Ids)
    OBVIOUS
  <2>2. PICK kids \in Seq(Ids) : kids = <<>>
    BY <2>1
  <2>3. M[t] = [face |-> face, kids |-> kids]
    BY <1>0, <2>2 DEF Node
  <2>4. [face |-> face, kids |-> kids] \in [face : Faces, kids : Seq(Ids)]
    BY <2>2
  <2>5. [face |-> face, kids |-> kids].kids = kids
    OBVIOUS
  <2>. QED BY <2>2, <2>3, <2>4, <2>5
<1>4. Elems(<<>>) = {} /\ Distinct(<<>>)
  <2>1. DOMAIN <<>> = {} /\ 1 .. Len(<<>>) = {}
    OBVIOUS
  <2>. QED BY <2>1 DEF Elems, Distinct
<1>5. ASSUME NEW p \in DOMAIN M, NEW i \in Elems(M[p].kids)
      PROVE  Append(p, i) \in DOMAIN M
  BY <1>0, <1>3, <1>4 DEF NodesOK
<1>6. ASSUME NEW p \in DOMAIN M, NEW i \in 1 .. Len(p) - 1
      PROVE  Upto(p, i) \in DOMAIN M /\ p[i + 1] \in Elems(M[Upto(p, i)].kids)
  <2>0. Len(p) # 1
    <3>1. PICK n \in Nat : n = Len(p)
      BY <1>2
    <3>2. i \in Int /\ 1 <= i /\ i <= n - 1
      BY <3>1
    <3>. QED BY <3>1, <3>2
  <2>1. p \in DOMAIN N
    BY <2>0, <1>0, <1>1
  <2>2. Upto(p, i) \in DOMAIN N /\ p[i + 1] \in Elems(N[Upto(p, i)].kids)
    BY <2>1 DEF NodesOK
  <2>. QED BY <2>2
<1>7. KidsDistinct(M)
  BY <1>0, <1>3, <1>4 DEF KidsDistinct
<1>8. \A p \in DOMAIN M : M[p] \in [face : Faces, kids : Seq(Ids)]
  BY <1>0, <1>3 DEF NodesOK
<1>. QED BY <1>2, <1>5, <1>6, <1>7, <1>8 DEF NodesOK

LEMMA ChildAdded ==
  ASSUME NEW N, NodesOK(N), KidsDistinct(N), NEW q \in DOMAIN N, NEW id \in Ids,
         NEW t, t = Append(q, id), t \notin DOMAIN N, NEW face \in Faces,
         NEW M, DOMAIN M = DOMAIN N \union {t},
         M[t] = Node(face, <<>>), M[q] = Node(N[q].face, Append(N[q].kids, id)),
         \A p \in DOMAIN N : p = q \/ M[p] = N[p]
  PROVE  NodesOK(M) /\ KidsDistinct(M)
<1>0. t = Append(q, id)
  OBVIOUS
<1>q. q \in Seq(Ids) \ {<<>>} /\ N[q].kids \in Seq(Ids) /\ N[q].face \in Faces
  BY DEF NodesOK
<1>1. t \in Seq(Ids) \ {<<>>} /\ Len(t) = Len(q) + 1 /\ t # q /\ t[Len(q) + 1] = id
  BY <1>0, <1>q, AppendIs
<1>2. DOMAIN M \subseteq Seq(Ids) \ {<<>>}
  BY <1>0, <1>1 DEF NodesOK
<1>3. M[t] \in [face : Faces, kids : Seq(Ids)] /\ M[t].kids = <<>>
  <2>1. <<>> \in Seq(Ids)
    OBVIOUS
  <2>2. PICK kids \in Seq(Ids) : kids = <<>>
    BY <2>1
  <2>3. M[t] = [face |-> face, kids |-> kids]
    BY <1>0, <2>2 DEF Node
  <2>4. [face |-> face, kids |-> kids] \in [face : Faces, kids : Seq(Ids)]
    BY <2>2
  <2>5. [face |-> face, kids |-> kids].kids = kids
    OBVIOUS
  <2>. QED BY <2>2, <2>3, <2>4, <2>5
<1>4. Elems(<<>>) = {} /\ Distinct(<<>>)
  <2>1. DOMAIN <<>> = {} /\ 1 .. Len(<<>>) = {}
    OBVIOUS
  <2>. QED BY <2>1 DEF Elems, Distinct
<1>a. id \notin Elems(N[q].kids)
  BY DEF NodesOK
<1>b. /\ Append(N[q].kids, id) \in Seq(Ids)
      /\ Elems(Append(N[q].kids, id)) = Elems(N[q].kids) \union {id}
      /\ Distinct(Append(N[q].kids, id))
  <2>1. Distinct(N[q].kids)
    BY DEF KidsDistinct
  <2>. QED BY <2>1, <1>q, <1>a, AppendedKids
<1>c. /\ M[q] \in [face : Faces, kids : Seq(Ids)]
      /\ Elems(M[q].kids) = Elems(N[q].kids) \union {id} /\ Distinct(M[q].kids)
  BY <1>b, <1>q DEF Node
<1>d. \A p \in DOMAIN N : Elems(N[p].kids) \subseteq Elems(M[p].kids)
  BY <1>c
<1>5. ASSUME NEW p \in DOMAIN M, NEW i \in Elems(M[p].kids)
      PROVE  Append(p, i) \in DOMAIN M
  <2>1. CASE p = t
    BY <2>1, <1>3, <1>4
  <2>2. CASE p = q
    BY <2>2, <1>c, <1>0 DEF NodesOK
  <2>3. CASE p \in DOMAIN N \ {q}
    BY <2>3 DEF NodesOK
  <2>. QED BY <2>1, <2>2, <2>3, <1>0
<1>6. ASSUME NEW p \in DOMAIN M, NEW i \in 1 .. Len(p) - 1
      PROVE  Upto(p, i) \in DOMAIN M /\ p[i + 1] \in Elems(M[Upto(p, i)].kids)
  <2>1. CASE p \in DOMAIN N
    <3>1. Upto(p, i) \in DOMAIN N /\ p[i + 1] \in Elems(N[Upto(p, i)].kids)
      BY <2>1 DEF NodesOK
    <3>. QED BY <3>1, <1>d
  <2>2. CASE p = t /\ i = Len(q)
    <3>1. Upto(p, i) = q
      BY <2>2, <1>0, <1>q, UptoAppend, UptoAll
    <3>. QED BY <3>1, <2>2, <1>1, <1>c
  <2>3. CASE p = t /\ i # Len(q)
    <3>1. /\ i \in 1 .. Len(q) - 1 /\ i \in 1 .. Len(q) /\ i + 1 \in 1 .. Len(q)
          /\ i \in 0 .. Len(q)
      BY <2>3, <1>1, <1>q
    <3>2. Upto(p, i) = Upto(q, i)
      BY <2>3, <3>1, <1>0, <1>q, UptoAppend
    <3>3. p[i + 1] = q[i + 1]
      BY <2>3, <3>1, <1>0, <1>q, AppendIs
    <3>4. Upto(q, i) \in DOMAIN N /\ q[i + 1] \in Elems(N[Upto(q, i)].kids)
      BY <3>1 DEF NodesOK
    <3>. QED BY <3>2, <3>3, <3>4, <1>d
  <2>. QED BY <2>1, <2>2, <2>3, <1>0
<1>7. KidsDistinct(M)
  BY <1>0, <1>3, <1>4, <1>c DEF KidsDistinct
<1>8. \A p \in DOMAIN M : M[p] \in [face : Faces, kids : Seq(Ids)]
  BY <1>0, <1>3, <1>c DEF NodesOK
<1>. QED BY <1>2, <1>5, <1>6, <1>7, <1>8 DEF NodesOK
LEMMA UptoNext ==
  ASSUME NEW p \in Seq(Ids), NEW i \in 0 .. Len(p) - 1
  PROVE  p[i + 1] \in Ids /\ Append(Upto(p, i), p[i + 1]) = Upto(p, i + 1)
<1>0. PICK n \in Nat : n = Len(p)
  OBVIOUS
<1>1. i \in 0 .. Len(p) /\ i + 1 \in 0 .. Len(p) /\ i + 1 \in 1 .. Len(p)
  BY <1>0
<1>2. p[i + 1] \in Ids
  BY <1>1
<1>3. PICK q \in Seq(Ids) : /\ q = Upto(p, i) /\ Len(q) = i
                            /\ \A k \in 1 .. i : q[k] = p[k]
  BY <1>1, UptoIs
<1>4. PICK r \in Seq(Ids) : /\ r = Upto(p, i + 1) /\ Len(r) = i + 1
                            /\ \A k \in 1 .. i + 1 : r[k] = p[k]
  BY <1>1, UptoIs
<1>5. PICK t : t = Append(q, p[i + 1])
  OBVIOUS
<1>6. /\ t \in Seq(Ids) /\ Len(t) = i + 1 /\ t[i + 1] = p[i + 1]
      /\ \A k \in 1 .. i : t[k] = q[k]
  BY <1>2, <1>3, <1>5
<1>7. t = r
  <2>1. \A k \in 1 .. i + 1 : t[k] = r[k]
    <3>. SUFFICES ASSUME NEW k \in 1 .. i + 1 PROVE t[k] = r[k]
      OBVIOUS
    <3>1. k = i + 1 \/ k \in 1 .. i
      OBVIOUS
    <3>. QED BY <3>1, <1>3, <1>4, <1>6
  <2>. QED BY <2>1, <1>4, <1>6, SeqEqual
<1>. QED BY <1>2, <1>3, <1>4, <1>5, <1>7

LEMMA Pruned ==
  ASSUME NEW N, NodesOK(N), NEW path \in Seq(Ids) \ {<<>>},
         NEW M, DOMAIN M = {p \in DOMAIN N : ~IsUnder(p, path)},
         \A p \in DOMAIN M :
           /\ M[p] \in [face : Faces, kids : Seq(Ids)] /\ Distinct(M[p].kids)
           /\ \A i : i \in Elems(M[p].kids) <=> i \in Elems(N[p].kids) /\ Append(p, i) # path
  PROVE  NodesOK(M) /\ KidsDistinct(M)
<1>1. DOMAIN M \subseteq Seq(Ids) \ {<<>>} /\ DOMAIN M \subseteq DOMAIN N
  BY DEF NodesOK
<1>2. ASSUME NEW p \in DOMAIN M, NEW id \in Elems(M[p].kids)
      PROVE  Append(p, id) \in DOMAIN M
  <2>1. id \in Elems(N[p].kids) /\ Append(p, id) # path
    OBVIOUS
  <2>2. Append(p, id) \in DOMAIN N
    BY <2>1, <1>1 DEF NodesOK
  <2>3. id \in Ids
    <3>1. PICK s \in Seq(Ids) : s = N[p].kids
      BY <1>1 DEF NodesOK
    <3>. QED BY <2>1, <3>1 DEF Elems
  <2>4. ~IsUnder(Append(p, id), path)
    BY <2>1, <2>3, <1>1, UnderAppend
  <2>. QED BY <2>2, <2>4
<1>3. ASSUME NEW p \in DOMAIN M, NEW i \in 1 .. Len(p) - 1
      PROVE  Upto(p, i) \in DOMAIN M /\ p[i + 1] \in Elems(M[Upto(p, i)].kids)
  <2>1. Upto(p, i) \in DOMAIN N /\ p[i + 1] \in Elems(N[Upto(p, i)].kids)
    BY <1>1 DEF NodesOK
  <2>2. p \in Seq(Ids) /\ ~IsUnder(p, path) /\ i \in 0 .. Len(p) - 1
    <3>1. p \in Seq(Ids) /\ ~IsUnder(p, path)
      BY <1>1
    <3>. QED BY <3>1
  <2>3. i \in 0 .. Len(p) /\ i + 1 \in 0 .. Len(p)
    BY <2>2
  <2>4. ~IsUnder(Upto(p, i), path)
    BY <2>2, <2>3, UnderUpto
  <2>5. Append(Upto(p, i), p[i + 1]) # path
    <3>1. ~IsUnder(Upto(p, i + 1), path)
      BY <2>2, <2>3, UnderUpto
    <3>. QED BY <3>1, <2>2, UptoNext, UnderItself
  <2>. QED BY <2>1, <2>4, <2>5
<1>4. KidsDistinct(M)
  BY DEF KidsDistinct
<1>5. \A p \in DOMAIN M : M[p] \in [face : Faces, kids : Seq(Ids)]
  OBVIOUS
<1>. QED BY <1>1, <1>2, <1>3, <1>4, <1>5 DEF NodesOK

LEMMA TopRemoved ==
  ASSUME NEW N, NodesOK(N), KidsDistinct(N), NEW id \in Ids,
         NEW M, DOMAIN M = {p \in DOMAIN N : ~IsUnder(p, <<id>>)},
         \A p \in DOMAIN M : M[p] = N[p]
  PROVE  NodesOK(M) /\ KidsDistinct(M)
<1>1. PICK t : t = <<id>>
  OBVIOUS
<1>2. t \in Seq(Ids) \ {<<>>} /\ Len(t) = 1
  BY <1>1
<1>3. ASSUME NEW p \in DOMAIN M, NEW i \in Elems(N[p].kids)
      PROVE  Append(p, i) # t
  <2>1. p \in Seq(Ids) \ {<<>>} /\ N[p].kids \in Seq(Ids)
    BY DEF NodesOK
  <2>2. Len(p) \in Nat /\ Len(p) >= 1 /\ i \in Ids
    BY <2>1 DEF Elems
  <2>. QED BY <1>2, <2>1, <2>2, AppendIs
<1>4. ASSUME NEW p \in DOMAIN M
      PROVE  /\ M[p] \in [face : Faces, kids : Seq(Ids)] /\ Distinct(M[p].kids)
             /\ \A i : i \in Elems(M[p].kids) <=> i \in Elems(N[p].kids) /\ Append(p, i) # t
  <2>1. M[p] \in [face : Faces, kids : Seq(Ids)] /\ Distinct(M[p].kids)
    BY DEF NodesOK, KidsDistinct
  <2>2. M[p] = N[p] /\ p \in DOMAIN N
    OBVIOUS
  <2>3. \A i \in Elems(N[p].kids) : Append(p, i) # t
    BY <1>3
  <2>. QED BY <2>1, <2>2, <2>3
<1>5. DOMAIN M = {p \in DOMAIN N : ~IsUnder(p, t)}
  BY <1>1
<1>9. \A p \in DOMAIN M :
        /\ M[p] \in [face : Faces, kids : Seq(Ids)] /\ Distinct(M[p].kids)
        /\ \A i : i \in Elems(M[p].kids) <=> i \in Elems(N[p].kids) /\ Append(p, i) # t
  BY <1>4
<1>. QED BY <1>2, <1>5, <1>9, Pruned

LEMMA ChildRemoved ==
  ASSUME NEW N, NodesOK(N), KidsDistinct(N), NEW q \in Seq(Ids) \ {<<>>}, NEW id \in Ids,
         Append(q, id) \in DOMAIN N,
         NEW M, DOMAIN M = {p \in DOMAIN N : ~IsUnder(p, Append(q, id))},
         M[q] = Node(N[q].face, Spliced(N[q].kids, id)),
         \A p \in DOMAIN M \ {q} : M[p] = N[p]
  PROVE  NodesOK(M) /\ KidsDistinct(M)
<1>1. PICK t : t = Append(q, id)
  OBVIOUS
<1>2. t \in Seq(Ids) \ {<<>>}
  BY <1>1
<1>3. q \in DOMAIN N /\ id \in Elems(N[q].kids)
  BY Parent
<1>4. N[q].face \in Faces /\ N[q].kids \in Seq(Ids) /\ Distinct(N[q].kids)
  BY <1>3 DEF NodesOK, KidsDistinct
<1>5. /\ Spliced(N[q].kids, id) \in Seq(Ids) /\ Distinct(Spliced(N[q].kids, id))
      /\ Elems(Spliced(N[q].kids, id)) = Elems(N[q].kids) \ {id}
  BY <1>3, <1>4, SplicedKids
<1>6. ASSUME NEW p \in DOMAIN N, NEW i \in Elems(N[p].kids)
      PROVE  Append(p, i) = t <=> p = q /\ i = id
  <2>1. p \in Seq(Ids) /\ N[p].kids \in Seq(Ids)
    BY DEF NodesOK
  <2>2. i \in Ids
    BY <2>1 DEF Elems
  <2>. QED BY <1>1, <2>1, <2>2, SameAppend
<1>7. ASSUME NEW p \in DOMAIN M
      PROVE  /\ M[p] \in [face : Faces, kids : Seq(Ids)] /\ Distinct(M[p].kids)
             /\ \A i : i \in Elems(M[p].kids) <=> i \in Elems(N[p].kids) /\ Append(p, i) # t
  <2>1. CASE p = q
    <3>1. M[q] = [face |-> N[q].face, kids |-> Spliced(N[q].kids, id)]
      BY DEF Node
    <3>2. M[q] \in [face : Faces, kids : Seq(Ids)]
      BY <3>1, <1>4, <1>5
    <3>3. M[q].kids = Spliced(N[q].kids, id)
      BY <3>1
    <3>4. \A i : i \in Elems(M[q].kids) <=> i \in Elems(N[q].kids) /\ Append(q, i) # t
      BY <3>3, <1>3, <1>5, <1>6
    <3>. QED BY <2>1, <3>2, <3>3, <3>4, <1>5
  <2>2. CASE p # q
    <3>1. M[p] = N[p] /\ p \in DOMAIN N
      BY <2>2
    <3>2. M[p] \in [face : Faces, kids : Seq(Ids)] /\ Distinct(M[p].kids)
      BY <3>1 DEF NodesOK, KidsDistinct
    <3>3. \A i \in Elems(N[p].kids) : Append(p, i) # t
      BY <2>2, <3>1, <1>6
    <3>. QED BY <3>1, <3>2, <3>3
  <2>. QED BY <2>1, <2>2
<1>8. DOMAIN M = {p \in DOMAIN N : ~IsUnder(p, t)}
  BY <1>1
<1>9. \A p \in DOMAIN M :
        /\ M[p] \in [face : Faces, kids : Seq(Ids)] /\ Distinct(M[p].kids)
        /\ \A i : i \in Elems(M[p].kids) <=> i \in Elems(N[p].kids) /\ Append(p, i) # t
  BY <1>7
<1>. QED BY <1>2, <1>8, <1>9, Pruned

-----------------------------------------------------------------------------
(* A new document: no keys, no nodes, nothing open.                        *)
LEMMA NewDocHolds == Docs(NewDoc) /\ Valid(NewDoc)
<1>. DEFINE none == [p \in {} |-> None]
<1>1. /\ IsDoc(NewDoc) /\ NewDoc.nodes = none /\ NewDoc.keys = [k \in Keys |-> None]
      /\ NewDoc.active = <<>> /\ NewDoc.page = 0 /\ NewDoc.parents = <<>>
  BY DEF NewDoc, IsDoc
<1>2. DOMAIN none = {}
  OBVIOUS
<1>. HIDE DEF none
<1>3. NodesOK(none)
  BY <1>2 DEF NodesOK
<1>4. TopsOK(NewDoc.keys, none)
  BY <1>1, <1>2, LayerAssumption DEF TopsOK, IdOrNone
<1>5. PlaceOK(NewDoc)
  BY <1>1 DEF PlaceOK
<1>6. Docs(NewDoc)
  BY <1>1, <1>3, <1>4, <1>5, DocsParts
<1>7. Valid(NewDoc)
  BY <1>1, <1>2, FS_EmptySet, LayerAssumption DEF Valid, Fits
<1>. QED BY <1>6, <1>7
-----------------------------------------------------------------------------
(* Settling: the open path is cut at the deepest layer that is left, and   *)
(* every page on it is one that its layer has.                             *)
LEMMA DeepestLeft ==
  ASSUME NEW d, d.active \in Seq(Ids)
  PROVE  /\ DepthLeft(d) \in 0 .. Len(d.active)
         /\ DepthLeft(d) = 0 \/ Opens(d, Upto(d.active, DepthLeft(d)))
         /\ \A j \in DepthLeft(d) + 1 .. Len(d.active) : ~Opens(d, Upto(d.active, j))
<1>1. PICK n \in Nat : n = Len(d.active)
  OBVIOUS
<1>. DEFINE Found == {i \in 0 .. n : i = 0 \/ Opens(d, Upto(d.active, i))}
<1>. DEFINE S == {m \in 0 .. n : \E i \in Found : i + m = n}
<1>2. S \in SUBSET Nat /\ n \in S
  OBVIOUS
<1>3. PICK m \in S : \A y \in S : m <= y
  <2>1. PICK m \in S : \A y \in S : ~(<<y, m>> \in OpToRel(<, Nat))
    BY <1>2, NatLessThanWellFounded, WFMin
  <2>2. \A y \in S : ~(y < m)
    BY <2>1, <1>2 DEF OpToRel
  <2>. QED BY <2>2, <1>2
<1>4. PICK i \in Found : i + m = n
  OBVIOUS
<1>5. ASSUME NEW j \in i + 1 .. n
      PROVE  j \notin Found
  <2>1. n - j \in 0 .. n /\ ~(m <= n - j) /\ j + (n - j) = n
    BY <1>4
  <2>. QED BY <2>1, <1>3
<1>6. i = 0 \/ Opens(d, Upto(d.active, i))
  BY <1>4
<1>7. \A j \in i + 1 .. n : ~Opens(d, Upto(d.active, j))
  BY <1>4, <1>5
<1>. DEFINE Deepest(depth) ==
       /\ depth = 0 \/ Opens(d, Upto(d.active, depth))
       /\ \A j \in depth + 1 .. Len(d.active) : ~Opens(d, Upto(d.active, j))
<1>8. DepthLeft(d) = CHOOSE depth \in 0 .. Len(d.active) : Deepest(depth)
  BY DEF DepthLeft
<1>9. \E depth \in 0 .. Len(d.active) : Deepest(depth)
  BY <1>1, <1>4, <1>6, <1>7
<1>10. DepthLeft(d) \in 0 .. Len(d.active) /\ Deepest(DepthLeft(d))
  <2>. HIDE DEF Deepest
  <2>. QED BY <1>8, <1>9
<1>. QED BY <1>10

(* A layer that opens is under layers that open.                           *)
LEMMA OpenAbove ==
  ASSUME NEW d, NodesOK(d.nodes), NEW p \in Seq(Ids), NEW i \in 1 .. Len(p),
         Opens(d, Upto(p, i)), NEW j \in 1 .. i
  PROVE  Opens(d, Upto(p, j))
<1>1. CASE j = i
  BY <1>1
<1>2. CASE j < i
  <2>1. PICK q \in Seq(Ids) : q = Upto(p, i) /\ Len(q) = i
    BY UptoIs
  <2>2. q \in DOMAIN d.nodes /\ j \in 1 .. Len(q) - 1
    BY <2>1, <1>2 DEF Opens, Has
  <2>3. Upto(q, j) \in DOMAIN d.nodes /\ q[j + 1] \in Elems(d.nodes[Upto(q, j)].kids)
    BY <2>2 DEF NodesOK
  <2>4. Upto(q, j) = Upto(p, j)
    BY <2>1, UptoUpto
  <2>5. Elems(<<>>) = {}
    BY DEF Elems
  <2>. QED BY <2>3, <2>4, <2>5 DEF Opens, Has, Kids
<1>. QED BY <1>1, <1>2

Steady(d) == d.active # <<>> => Len(d.parents) = Len(d.active) - 1

LEMMA PageKnown ==
  ASSUME NEW d, PlaceOK(d), Steady(d), NEW i \in 1 .. Len(d.active)
  PROVE  PageOf(d, i) \in Nat
<1>1. CASE i = Len(d.active)
  BY <1>1 DEF PageOf, PlaceOK
<1>2. CASE i # Len(d.active)
  <2>1. d.active # <<>>
    OBVIOUS
  <2>2. i \in 1 .. Len(d.parents)
    BY <2>1, <1>2 DEF Steady
  <2>. QED BY <2>2, <1>2 DEF PageOf, PlaceOK
<1>. QED BY <1>1, <1>2

LEMMA ClampHolds ==
  ASSUME NEW page \in Nat, NEW n \in Nat
  PROVE  Clamp(page, n) \in 0 .. PageCount(n) - 1
  BY PagesAreNumbers DEF Clamp

LEMMA ValidParts ==
  ASSUME NEW d, NodesOK(d.nodes)
  PROVE  Valid(d) <=>
           /\ Fits(d) /\ KidsDistinct(d.nodes)
           /\ IF d.active = <<>> THEN d.page = 0 /\ d.parents = <<>>
              ELSE /\ Len(d.parents) = Len(d.active) - 1
                   /\ \A i \in 1 .. Len(d.active) :
                        /\ Opens(d, Upto(d.active, i))
                        /\ PageOf(d, i) \in 0 .. PageCount(Len(Kids(d, Upto(d.active, i)))) - 1
<1>1. \A p \in DOMAIN d.nodes :
        Cardinality(Elems(Kids(d, p))) = Len(Kids(d, p)) <=> Distinct(d.nodes[p].kids)
  <2>. TAKE p \in DOMAIN d.nodes
  <2>1. d.nodes[p].kids \in Seq(Ids)
    BY DEF NodesOK
  <2>. QED BY <2>1, CountDistinct DEF Kids
<1>. QED BY <1>1 DEF Valid, KidsDistinct

LEMMA SettleHolds ==
  ASSUME NEW d, Docs(d), Steady(d), KidsDistinct(d.nodes)
  PROVE  /\ Docs(Settle(d))
         /\ Settle(d).keys = d.keys /\ Settle(d).nodes = d.nodes
         /\ Fits(d) => Valid(Settle(d))
<1>1. IsDoc(d) /\ TopsOK(d.keys, d.nodes) /\ NodesOK(d.nodes) /\ PlaceOK(d)
  BY DocsParts
<1>2. PICK i : i = DepthLeft(d)
  OBVIOUS
<1>3. PICK e : e = Settle(d)
  OBVIOUS
<1>4. /\ i \in 0 .. Len(d.active) /\ Len(d.active) \in Nat
      /\ i = 0 \/ Opens(d, Upto(d.active, i))
  BY <1>1, <1>2, DeepestLeft DEF PlaceOK
<1>5. CASE i = 0
  <2>1. e = [d EXCEPT !.active = <<>>, !.page = 0, !.parents = <<>>]
    BY <1>2, <1>3, <1>5 DEF Settle
  <2>2. /\ IsDoc(e) /\ e.keys = d.keys /\ e.nodes = d.nodes
        /\ e.active = <<>> /\ e.page = 0 /\ e.parents = <<>>
    BY <2>1, <1>1 DEF IsDoc
  <2>3. PlaceOK(e)
    BY <2>2 DEF PlaceOK
  <2>4. Docs(e)
    BY <2>2, <2>3, <1>1, DocsParts
  <2>5. Fits(d) => Valid(e)
    BY <2>2, <1>1, ValidParts DEF Fits, Kids
  <2>. QED BY <2>2, <2>4, <2>5, <1>3
<1>6. CASE i # 0
  <2>0. i \in 1 .. Len(d.active) /\ Opens(d, Upto(d.active, i))
    BY <1>4, <1>6
  <2>1. e = [d EXCEPT !.active = Upto(d.active, i), !.page = ClampedAt(d, i),
                      !.parents = [j \in 1 .. i - 1 |-> ClampedAt(d, j)]]
    BY <1>2, <1>3, <1>6 DEF Settle
  <2>2. /\ IsDoc(e) /\ e.keys = d.keys /\ e.nodes = d.nodes
        /\ e.active = Upto(d.active, i) /\ e.page = ClampedAt(d, i)
        /\ e.parents = [j \in 1 .. i - 1 |-> ClampedAt(d, j)]
    BY <2>1, <1>1 DEF IsDoc
  <2>3. e.active \in Seq(Ids) /\ Len(e.active) = i
    BY <2>0, <2>2, <1>1, UptoIs DEF PlaceOK
  <2>4. ASSUME NEW j \in 1 .. i
        PROVE  /\ Opens(d, Upto(d.active, j))
               /\ ClampedAt(d, j) \in 0 .. PageCount(Len(Kids(d, Upto(d.active, j)))) - 1
    <3>1. Opens(d, Upto(d.active, j))
      BY <2>0, <1>1, OpenAbove DEF PlaceOK
    <3>2. Kids(d, Upto(d.active, j)) \in Seq(Ids)
      BY <3>1, <1>1 DEF Opens, Has, Kids, NodesOK
    <3>3. PageOf(d, j) \in Nat
      <4>1. j \in 1 .. Len(d.active)
        BY <2>0
      <4>. QED BY <4>1, <1>1, PageKnown
    <3>4. Len(Kids(d, Upto(d.active, j))) \in Nat
      BY <3>2
    <3>. QED BY <3>1, <3>3, <3>4, ClampHolds DEF ClampedAt
  <2>5. ASSUME NEW j \in 1 .. i
        PROVE  ClampedAt(d, j) \in Nat
    <3>1. PICK n : n = PageCount(Len(Kids(d, Upto(d.active, j))))
      OBVIOUS
    <3>2. ClampedAt(d, j) \in 0 .. n - 1
      BY <2>4, <3>1
    <3>. QED BY <3>2
  <2>6. e.parents \in Seq(Nat) /\ Len(e.parents) = i - 1
    <3>1. \A j \in 1 .. i - 1 : ClampedAt(d, j) \in Nat
      BY <2>5, <2>0
    <3>2. i - 1 \in Nat
      BY <2>0
    <3>. QED BY <2>2, <3>1, <3>2
  <2>7. PlaceOK(e)
    BY <2>0, <2>2, <2>3, <2>5, <2>6 DEF PlaceOK
  <2>8. Docs(e)
    BY <2>2, <2>7, <1>1, DocsParts
  <2>9. ASSUME NEW j \in 1 .. i
        PROVE  /\ Opens(e, Upto(e.active, j))
               /\ PageOf(e, j) \in 0 .. PageCount(Len(Kids(e, Upto(e.active, j)))) - 1
    <3>1. Upto(e.active, j) = Upto(d.active, j)
      <4>1. i \in 0 .. Len(d.active) /\ j \in 0 .. i
        BY <2>0
      <4>. QED BY <4>1, <2>2, <1>1, UptoUpto DEF PlaceOK
    <3>2. PageOf(e, j) = ClampedAt(d, j)
      <4>1. CASE j = i
        BY <4>1, <2>2, <2>3 DEF PageOf
      <4>2. CASE j # i
        <5>1. j \in 1 .. i - 1
          BY <4>2, <2>0
        <5>. QED BY <5>1, <4>2, <2>2, <2>3 DEF PageOf
      <4>. QED BY <4>1, <4>2
    <3>3. /\ \A p : Kids(e, p) = Kids(d, p)
          /\ \A p : Opens(e, p) <=> Opens(d, p)
      BY <2>2 DEF Kids, Opens, Has
    <3>. QED BY <3>1, <3>2, <3>3, <2>4
  <2>10. Fits(d) => Fits(e)
    BY <2>2 DEF Fits, Kids
  <2>11. e.active # <<>>
    BY <2>0, <2>3
  <2>12. Fits(d) => Valid(e)
    BY <2>2, <2>3, <2>6, <2>9, <2>10, <2>11, <1>1, ValidParts
  <2>. QED BY <2>2, <2>8, <2>12, <1>3
<1>. QED BY <1>5, <1>6
-----------------------------------------------------------------------------
(* What a client asks leaves a tree, and the open layer and its pages as   *)
(* they are.                                                               *)
Kept(d, e) == e.active = d.active /\ e.page = d.page /\ e.parents = d.parents

LEMMA Requested ==
  ASSUME NEW u \in Requests
  PROVE  /\ u.op \in {"set", "remove"} /\ u.id \in Ids /\ u.path \in Seq(Ids)
         /\ u.op = "set" => u.face \in Faces /\ u.slot \in Keys \union {None}
  BY LayerAssumption

LEMMA TopsKept ==
  ASSUME NEW K, NEW N, TopsOK(K, N), NEW M,
         \A id \in Ids : <<id>> \in DOMAIN M <=> <<id>> \in DOMAIN N
  PROVE  TopsOK(K, M)
  BY DEF TopsOK

LEMMA ChildIsNoTop ==
  ASSUME NEW q \in Seq(Ids) \ {<<>>}, NEW id \in Ids, NEW i \in Ids
  PROVE  Append(q, id) # <<i>> /\ ~IsUnder(<<i>>, Append(q, id))
<1>1. PICK p : p = Append(q, id)
  OBVIOUS
<1>2. PICK t : t = <<i>>
  OBVIOUS
<1>3. Len(q) \in Nat /\ Len(q) >= 1
  OBVIOUS
<1>4. p \in Seq(Ids) /\ Len(p) = Len(q) + 1 /\ t \in Seq(Ids) /\ Len(t) = 1
  BY <1>1, <1>2
<1>5. Len(t) < Len(p)
  BY <1>3, <1>4
<1>6. ~IsUnder(t, p)
  BY <1>4, <1>5, LongerIsUnder
<1>. QED BY <1>1, <1>2, <1>5, <1>6

(* A document with other nodes or keys.                                    *)
LEMMA Changed ==
  ASSUME NEW d, Docs(d), NEW K, NEW M, NodesOK(M), TopsOK(K, M),
         NEW e, e = [keys |-> K, nodes |-> M, active |-> d.active, page |-> d.page,
                     parents |-> d.parents]
  PROVE  Docs(e) /\ Kept(d, e) /\ e.nodes = M
<1>1. /\ e.keys = K /\ e.nodes = M /\ e.active = d.active /\ e.page = d.page
      /\ e.parents = d.parents
  OBVIOUS
<1>2. IsDoc(e)
  BY <1>1 DEF IsDoc
<1>3. PlaceOK(e)
  BY <1>1, DocsParts DEF PlaceOK
<1>. QED BY <1>1, <1>2, <1>3, DocsParts DEF Kept

LEMMA SetChildHolds ==
  ASSUME NEW d, Docs(d), KidsDistinct(d.nodes), NEW u \in Requests,
         u.op = "set", u.path # <<>>, NEW e, e = SetChild(d, u), e # None
  PROVE  Docs(e) /\ Kept(d, e) /\ KidsDistinct(e.nodes)
<1>1. /\ u.path \in Seq(Ids) \ {<<>>} /\ u.id \in Ids /\ u.face \in Faces
  BY Requested
<1>2. IsDoc(d) /\ TopsOK(d.keys, d.nodes) /\ NodesOK(d.nodes)
  BY DocsParts
<1>3. PICK N : N = d.nodes
  OBVIOUS
<1>4. PICK path : path = Append(u.path, u.id)
  OBVIOUS
<1>5. u.path \in DOMAIN N
  BY <1>3 DEF SetChild, Has
<1>6. PICK W : W = WithNode(d, path, u.face)
  OBVIOUS
<1>7. /\ DOMAIN W = DOMAIN N \union {path}
      /\ \A p \in DOMAIN N \ {path} : W[p] = N[p]
      /\ W[path] = Node(u.face, IF path \in DOMAIN N THEN N[path].kids ELSE <<>>)
      /\ W = [p \in DOMAIN W |-> W[p]]
  BY <1>3, <1>6 DEF WithNode, Has, Kids
<1>8. CASE path \in DOMAIN N
  <2>1. e = [d EXCEPT !.nodes = W]
    BY <1>3, <1>4, <1>5, <1>6, <1>8 DEF SetChild, Has
  <2>2. e = [keys |-> d.keys, nodes |-> W, active |-> d.active, page |-> d.page,
             parents |-> d.parents]
    BY <2>1, <1>2 DEF IsDoc
  <2>3. DOMAIN W = DOMAIN N
    BY <1>7, <1>8
  <2>4. ASSUME NEW p \in DOMAIN N
        PROVE  W[p] \in [face : Faces, kids : Seq(Ids)] /\ W[p].kids = N[p].kids
    <3>1. N[p] \in [face : Faces, kids : Seq(Ids)]
      BY <1>2, <1>3 DEF NodesOK
    <3>2. CASE p = path
      BY <3>1, <3>2, <1>1, <1>7 DEF Node
    <3>. QED BY <3>1, <3>2, <1>7
  <2>5. NodesOK(W) /\ KidsDistinct(W)
    BY <2>3, <2>4, <1>2, <1>3, SameKids
  <2>6. TopsOK(d.keys, W)
    BY <2>3, <1>2, <1>3, TopsKept
  <2>. QED BY <2>2, <2>5, <2>6, Changed
<1>9. CASE path \notin DOMAIN N
  <2>1. PICK M : M = [W EXCEPT ![u.path].kids = Append(@, u.id)]
    OBVIOUS
  <2>2. e = [d EXCEPT !.nodes = M]
    BY <2>1, <1>3, <1>4, <1>5, <1>6, <1>9 DEF SetChild, Has
  <2>3. e = [keys |-> d.keys, nodes |-> M, active |-> d.active, page |-> d.page,
             parents |-> d.parents]
    BY <2>2, <1>2 DEF IsDoc
  <2>4. u.path # path /\ W[u.path] = N[u.path]
    BY <1>5, <1>7, <1>9
  <2>5. DOMAIN M = DOMAIN N \union {path} /\ M[path] = Node(u.face, <<>>)
    BY <2>1, <2>4, <1>5, <1>7, <1>9
  <2>6. ASSUME NEW p \in DOMAIN N \ {u.path}
        PROVE  M[p] = N[p]
    <3>1. p \in DOMAIN W /\ p # path /\ W[p] = N[p]
      BY <1>7, <1>9
    <3>2. M[p] = W[p]
      BY <2>1, <3>1
    <3>. QED BY <3>1, <3>2
  <2>7. M[u.path] = Node(N[u.path].face, Append(N[u.path].kids, u.id))
    <3>1. M[u.path] = [N[u.path] EXCEPT !.kids = Append(@, u.id)]
      BY <2>1, <2>4, <1>5, <1>7
    <3>2. N[u.path] \in [face : Faces, kids : Seq(Ids)]
      BY <1>2, <1>3, <1>5 DEF NodesOK
    <3>. QED BY <3>1, <3>2 DEF Node
  <2>8. NodesOK(M) /\ KidsDistinct(M)
    <3>1. NodesOK(N) /\ KidsDistinct(N)
      BY <1>2, <1>3
    <3>2. \A p \in DOMAIN N : p = u.path \/ M[p] = N[p]
      BY <2>6
    <3>3. PICK q \in DOMAIN N : q = u.path
      BY <1>5
    <3>4. PICK id \in Ids : id = u.id
      BY <1>1
    <3>5. PICK face \in Faces : face = u.face
      BY <1>1
    <3>6. PICK t : t = path
      OBVIOUS
    <3>7. t = Append(q, id) /\ M[t] = Node(face, <<>>) /\ t \notin DOMAIN N
      BY <3>3, <3>4, <3>5, <3>6, <2>5, <1>4, <1>9
    <3>8. /\ M[q] = Node(N[q].face, Append(N[q].kids, id))
          /\ \A p \in DOMAIN N : p = q \/ M[p] = N[p]
      BY <3>2, <3>3, <3>4, <2>7
    <3>9. DOMAIN M = DOMAIN N \union {t}
      BY <3>6, <2>5
    <3>. QED BY <3>1, <3>7, <3>8, <3>9, ZenonT(60), ChildAdded
  <2>9. TopsOK(d.keys, M)
    <3>1. \A i \in Ids : <<i>> # path
      BY <1>1, <1>4, ChildIsNoTop
    <3>2. \A i \in Ids : <<i>> \in DOMAIN M <=> <<i>> \in DOMAIN N
      BY <2>5, <3>1
    <3>. QED BY <3>2, <1>2, <1>3, TopsKept
  <2>. QED BY <2>3, <2>8, <2>9, Changed
<1>. QED BY <1>8, <1>9

(* The slot that an update takes is one, and free or the key's own.        *)
LEMMA OneTarget ==
  ASSUME NEW d, TopsOK(d.keys, d.nodes), NEW u \in Requests, u.op = "set",
         Target(d, u) # {}
  PROVE  \E t \in Keys : Target(d, u) = {t} /\ d.keys[t] \in {None, u.id}
<1>0. u.id \in Ids /\ u.id # None /\ u.slot \in Keys \union {None}
  BY Requested, LayerAssumption
<1>1. CASE u.slot # None
  <2>1. Target(d, u) = {k \in {u.slot} : d.keys[k] \in {None, u.id}}
    BY <1>1 DEF Target
  <2>2. u.slot \in Target(d, u)
    BY <2>1
  <2>. QED BY <2>1, <2>2, <1>0, <1>1
<1>2. CASE u.slot = None /\ Has(d, <<u.id>>)
  <2>1. Target(d, u) = {k \in Keys : d.keys[k] = u.id}
    BY <1>2 DEF Target
  <2>2. PICK t \in Keys : d.keys[t] = u.id
    BY <2>1
  <2>3. \A k \in Keys : d.keys[k] = u.id => k = t
    BY <2>2, <1>0 DEF TopsOK
  <2>. QED BY <2>1, <2>2, <2>3
<1>3. CASE u.slot = None /\ ~Has(d, <<u.id>>)
  <2>1. Target(d, u) = {k \in Free(d) : \A j \in Free(d) : k <= j}
    BY <1>3 DEF Target
  <2>2. PICK t \in Free(d) : t \in Target(d, u)
    BY <2>1
  <2>3. t \in Keys /\ d.keys[t] = None
    BY <2>2 DEF Free
  <2>4. \A k \in Target(d, u) : k \in Keys /\ k <= t /\ t <= k
    BY <2>1, <2>2 DEF Free
  <2>5. \A k \in Target(d, u) : k = t
    <3>1. Keys \subseteq Int
      BY PagesAssumption DEF Keys
    <3>. QED BY <3>1, <2>3, <2>4
  <2>. QED BY <2>2, <2>3, <2>5
<1>. QED BY <1>1, <1>2, <1>3

LEMMA SetTopHolds ==
  ASSUME NEW d, Docs(d), KidsDistinct(d.nodes), NEW u \in Requests,
         u.op = "set", NEW e, e = SetTop(d, u), e # None
  PROVE  Docs(e) /\ Kept(d, e) /\ KidsDistinct(e.nodes)
<1>1. u.id \in Ids /\ u.face \in Faces /\ u.id # None
  BY Requested, LayerAssumption
<1>2. IsDoc(d) /\ TopsOK(d.keys, d.nodes) /\ NodesOK(d.nodes)
  BY DocsParts
<1>3. PICK N : N = d.nodes
  OBVIOUS
<1>4. PICK path : path = <<u.id>>
  OBVIOUS
<1>5. Target(d, u) # {}
  BY DEF SetTop
<1>6. PICK t \in Keys : Target(d, u) = {t} /\ d.keys[t] \in {None, u.id}
  BY <1>2, <1>5, OneTarget
<1>7. PICK M : M = WithNode(d, path, u.face)
  OBVIOUS
<1>8. /\ DOMAIN M = DOMAIN N \union {path}
      /\ \A p \in DOMAIN N \ {path} : M[p] = N[p]
      /\ M[path] = Node(u.face, IF path \in DOMAIN N THEN N[path].kids ELSE <<>>)
  BY <1>3, <1>7 DEF WithNode, Has, Kids
<1>9. PICK K : K = [k \in Keys |-> IF k = t THEN u.id
                                   ELSE IF d.keys[k] = u.id THEN None ELSE d.keys[k]]
  OBVIOUS
<1>10. e = [keys |-> K, nodes |-> M, active |-> d.active, page |-> d.page,
            parents |-> d.parents]
  <2>1. e = [d EXCEPT !.nodes = M, !.keys = K]
    BY <1>4, <1>5, <1>6, <1>7, <1>9 DEF SetTop
  <2>. QED BY <2>1, <1>2 DEF IsDoc
<1>11. NodesOK(M) /\ KidsDistinct(M)
  <2>1. CASE path \in DOMAIN N
    <3>1. DOMAIN M = DOMAIN N
      BY <1>8, <2>1
    <3>2. ASSUME NEW p \in DOMAIN N
          PROVE  M[p] \in [face : Faces, kids : Seq(Ids)] /\ M[p].kids = N[p].kids
      <4>1. N[p] \in [face : Faces, kids : Seq(Ids)]
        BY <1>2, <1>3 DEF NodesOK
      <4>2. CASE p = path
        BY <4>1, <4>2, <1>1, <1>8 DEF Node
      <4>. QED BY <4>1, <4>2, <1>8
    <3>. QED BY <3>1, <3>2, <1>2, <1>3, SameKids
  <2>2. CASE path \notin DOMAIN N
    <3>1. M[path] = Node(u.face, <<>>) /\ \A p \in DOMAIN N : M[p] = N[p]
      BY <2>2, <1>8
    <3>. QED BY <3>1, <2>2, <1>1, <1>2, <1>3, <1>4, <1>8, TopAdded
  <2>. QED BY <2>1, <2>2
<1>12. TopsOK(K, M)
  <2>1. d.keys \in [Keys -> IdOrNone]
    BY <1>2 DEF TopsOK
  <2>2. K \in [Keys -> IdOrNone] /\ K[t] = u.id
    BY <2>1, <1>1, <1>9 DEF IdOrNone
  <2>3. \A k \in Keys \ {t} : K[k] = (IF d.keys[k] = u.id THEN None ELSE d.keys[k])
    BY <1>9
  <2>4. \A j, k \in Keys : K[j] = K[k] /\ K[j] # None => j = k
    BY <2>2, <2>3, <1>1, <1>2 DEF TopsOK
  <2>5. ASSUME NEW id \in Ids
        PROVE  <<id>> \in DOMAIN M <=> \E k \in Keys : K[k] = id
    <3>1. CASE id = u.id
      BY <3>1, <2>2, <1>4, <1>8
    <3>2. CASE id # u.id
      <4>1. <<id>> # path
        BY <3>2, <1>4
      <4>2. <<id>> \in DOMAIN M <=> \E k \in Keys : d.keys[k] = id
        BY <4>1, <1>2, <1>3, <1>8 DEF TopsOK
      <4>3. id # None
        BY LayerAssumption
      <4>4. \A k \in Keys : d.keys[k] = id <=> K[k] = id
        BY <3>2, <4>3, <2>2, <2>3, <1>6
      <4>. QED BY <4>2, <4>4
    <3>. QED BY <3>1, <3>2
  <2>. QED BY <2>2, <2>4, <2>5 DEF TopsOK
<1>. QED BY <1>10, <1>11, <1>12, Changed

LEMMA RemoveHolds ==
  ASSUME NEW d, Docs(d), KidsDistinct(d.nodes), NEW u \in Requests,
         NEW e, e = Remove(d, u), e # None
  PROVE  Docs(e) /\ Kept(d, e) /\ KidsDistinct(e.nodes)
<1>1. u.id \in Ids /\ u.id # None /\ u.path \in Seq(Ids)
  BY Requested, LayerAssumption
<1>2. IsDoc(d) /\ TopsOK(d.keys, d.nodes) /\ NodesOK(d.nodes)
  BY DocsParts
<1>3. PICK N : N = d.nodes
  OBVIOUS
<1>4. PICK path : path = Append(u.path, u.id)
  OBVIOUS
<1>5. path \in DOMAIN N
  BY <1>3, <1>4 DEF Remove, Has
<1>6. PICK R : R = [p \in {q \in DOMAIN N : ~IsUnder(q, path)} |-> N[p]]
  OBVIOUS
<1>7. /\ DOMAIN R = {q \in DOMAIN N : ~IsUnder(q, path)}
      /\ \A p \in DOMAIN R : R[p] = N[p]
  BY <1>6
<1>8. CASE u.path = <<>>
  <2>1. path = <<u.id>>
    BY <1>4, <1>8
  <2>2. PICK K : K = [k \in Keys |-> IF d.keys[k] = u.id THEN None ELSE d.keys[k]]
    OBVIOUS
  <2>3. e = [keys |-> K, nodes |-> R, active |-> d.active, page |-> d.page,
             parents |-> d.parents]
    <3>1. e = [d EXCEPT !.nodes = R, !.keys = K]
      BY <2>2, <1>3, <1>4, <1>5, <1>6, <1>8 DEF Remove, Has
    <3>. QED BY <3>1, <1>2 DEF IsDoc
  <2>4. NodesOK(R) /\ KidsDistinct(R)
    BY <2>1, <1>1, <1>2, <1>3, <1>7, TopRemoved
  <2>5. TopsOK(K, R)
    <3>1. d.keys \in [Keys -> IdOrNone]
      BY <1>2 DEF TopsOK
    <3>2. K \in [Keys -> IdOrNone]
      BY <3>1, <2>2 DEF IdOrNone
    <3>3. \A j, k \in Keys : K[j] = K[k] /\ K[j] # None => j = k
      BY <2>2, <1>2 DEF TopsOK
    <3>4. ASSUME NEW id \in Ids
          PROVE  <<id>> \in DOMAIN R <=> \E k \in Keys : K[k] = id
      <4>1. <<id>> \in DOMAIN R <=> <<id>> \in DOMAIN N /\ id # u.id
        <5>1. <<u.id>> \in Seq(Ids)
          BY <1>1
        <5>2. IsUnder(<<id>>, <<u.id>>) <=> id = u.id
          BY <5>1, <1>1, TopsApart, UnderItself
        <5>. QED BY <5>2, <2>1, <1>7
      <4>2. id # None
        BY LayerAssumption
      <4>3. \A k \in Keys : K[k] = id <=> d.keys[k] = id /\ id # u.id
        BY <2>2, <4>2
      <4>. QED BY <4>1, <4>3, <1>2, <1>3 DEF TopsOK
    <3>. QED BY <3>2, <3>3, <3>4 DEF TopsOK
  <2>. QED BY <2>3, <2>4, <2>5, Changed
<1>9. CASE u.path # <<>>
  <2>1. PICK M : M = [R EXCEPT ![u.path].kids = Spliced(@, u.id)]
    OBVIOUS
  <2>2. e = [keys |-> d.keys, nodes |-> M, active |-> d.active, page |-> d.page,
             parents |-> d.parents]
    <3>1. e = [d EXCEPT !.nodes = M]
      BY <2>1, <1>3, <1>4, <1>5, <1>6, <1>9 DEF Remove, Has
    <3>. QED BY <3>1, <1>2 DEF IsDoc
  <2>3. u.path \in DOMAIN R
    <3>1. u.path \in DOMAIN N
      BY <1>1, <1>2, <1>3, <1>4, <1>5, <1>9, Parent
    <3>2. ~IsUnder(u.path, path)
      <4>1. Len(path) = Len(u.path) + 1 /\ path \in Seq(Ids) /\ Len(u.path) \in Nat
        BY <1>1, <1>4
      <4>. QED BY <4>1, <1>1, LongerIsUnder
    <3>. QED BY <3>1, <3>2, <1>7
  <2>4. DOMAIN M = {q \in DOMAIN N : ~IsUnder(q, path)}
    BY <2>1, <1>7
  <2>5. \A p \in DOMAIN M \ {u.path} : M[p] = N[p]
    BY <2>1, <2>4, <1>7
  <2>6. M[u.path] = Node(N[u.path].face, Spliced(N[u.path].kids, u.id))
    <3>1. M[u.path] = [N[u.path] EXCEPT !.kids = Spliced(@, u.id)]
      BY <2>1, <2>3, <1>6, <1>7
    <3>2. N[u.path] \in [face : Faces, kids : Seq(Ids)]
      BY <2>3, <1>2, <1>3, <1>7 DEF NodesOK
    <3>. QED BY <3>1, <3>2 DEF Node
  <2>7. NodesOK(M) /\ KidsDistinct(M)
    BY <2>4, <2>5, <2>6, <1>1, <1>2, <1>3, <1>4, <1>5, <1>9, ChildRemoved
  <2>8. TopsOK(d.keys, M)
    <3>1. \A i \in Ids : ~IsUnder(<<i>>, path)
      BY <1>1, <1>4, <1>9, ChildIsNoTop
    <3>2. \A i \in Ids : <<i>> \in DOMAIN M <=> <<i>> \in DOMAIN N
      BY <2>4, <3>1
    <3>. QED BY <3>2, <1>2, <1>3, TopsKept
  <2>. QED BY <2>2, <2>7, <2>8, Changed
<1>. QED BY <1>8, <1>9

LEMMA AppliedHolds ==
  ASSUME NEW d, Docs(d), KidsDistinct(d.nodes), NEW u \in Requests, Applied(d, u) # None
  PROVE  /\ Docs(Applied(d, u)) /\ Kept(d, Applied(d, u))
         /\ KidsDistinct(Applied(d, u).nodes)
<1>1. CASE u.op = "remove"
  BY <1>1, RemoveHolds DEF Applied
<1>2. CASE u.op # "remove" /\ u.path = <<>>
  BY <1>2, SetTopHolds, Requested DEF Applied
<1>3. CASE u.op # "remove" /\ u.path # <<>>
  BY <1>3, SetChildHolds, Requested DEF Applied
<1>. QED BY <1>1, <1>2, <1>3
-----------------------------------------------------------------------------
(* A press opens a layer, leaves it or turns a page; the tree stays.       *)
LEMMA ChildPressed ==
  ASSUME NEW d, Docs(d), Opens(d, d.active), NEW k \in Keys,
         Role(Len(Kids(d, d.active)), d.page, k) = "child"
  PROVE  \E id \in Elems(Kids(d, d.active)) : id \in Ids /\ ChildPath(d, k) = Append(d.active, id)
<1>1. NodesOK(d.nodes) /\ PlaceOK(d)
  BY DocsParts
<1>2. PICK kids \in Seq(Ids) : kids = Kids(d, d.active)
  BY <1>1 DEF Opens, Has, Kids, NodesOK
<1>3. PICK n \in Nat : n = Len(kids)
  OBVIOUS
<1>4. d.page \in Nat
  BY <1>1 DEF PlaceOK
<1>5. k # UpKey /\ ChildOn(d.page, k) < n
  BY <1>2, <1>3, <1>4, RoleOf
<1>6. ChildPlace(k) \in Nat
  BY <1>5, Places, Sizes
<1>7. d.page * PerPage \in Nat
  BY <1>4, Sizes
<1>8. ChildOn(d.page, k) \in Nat
  BY <1>6, <1>7 DEF ChildOn
<1>9. PICK i : i = ChildOn(d.page, k) + 1
  OBVIOUS
<1>10. i \in 1 .. Len(kids)
  BY <1>3, <1>5, <1>8, <1>9
<1>11. kids[i] \in Ids /\ kids[i] \in Elems(kids)
  BY <1>10 DEF Elems
<1>12. ChildPath(d, k) = Append(d.active, kids[i])
  BY <1>2, <1>9 DEF ChildPath
<1>. QED BY <1>2, <1>11, <1>12

LEMMA OtherPlace ==
  ASSUME NEW d, Docs(d), NEW active \in Seq(Ids), NEW page \in Nat, NEW parents \in Seq(Nat),
         active # <<>> => Len(parents) = Len(active) - 1,
         NEW e, e = [keys |-> d.keys, nodes |-> d.nodes, active |-> active, page |-> page,
                     parents |-> parents]
  PROVE  Docs(e) /\ Steady(e) /\ e.nodes = d.nodes /\ e.keys = d.keys
<1>1. /\ e.keys = d.keys /\ e.nodes = d.nodes /\ e.active = active /\ e.page = page
      /\ e.parents = parents
  OBVIOUS
<1>2. IsDoc(e)
  BY <1>1 DEF IsDoc
<1>3. PlaceOK(e)
  BY <1>1 DEF PlaceOK
<1>. QED BY <1>1, <1>2, <1>3, DocsParts DEF Steady

LEMMA PressedHolds ==
  ASSUME NEW d, Docs(d), Valid(d), NEW k \in Keys, NEW e, e = Pressed(d, k), e # None
  PROVE  Docs(e) /\ Steady(e) /\ e.nodes = d.nodes /\ e.keys = d.keys
<1>1. IsDoc(d) /\ TopsOK(d.keys, d.nodes) /\ NodesOK(d.nodes) /\ PlaceOK(d)
  BY DocsParts
<1>2. d.active \in Seq(Ids) /\ d.page \in Nat /\ d.parents \in Seq(Nat)
  BY <1>1 DEF PlaceOK
<1>. DEFINE At(active, page, parents) ==
       [keys |-> d.keys, nodes |-> d.nodes, active |-> active, page |-> page,
        parents |-> parents]
<1>0. PICK first \in Nat : first = 0
  OBVIOUS
<1>3. CASE d.active = <<>>
  <2>1. d.keys[k] # None /\ Opens(d, <<d.keys[k]>>) /\ e = OpenLayer(d, <<d.keys[k]>>)
    BY <1>3 DEF Pressed
  <2>2. PICK id \in Ids : id = d.keys[k]
    BY <2>1, <1>1 DEF TopsOK, IdOrNone
  <2>3. PICK path : path = <<id>>
    OBVIOUS
  <2>4. path \in Seq(Ids) /\ Len(path) = 1
    BY <2>3
  <2>5. e = At(path, 0, <<>>)
    BY <2>1, <2>2, <2>3, <1>1, <1>3 DEF OpenLayer, IsDoc
  <2>6. <<>> \in Seq(Nat) /\ Len(<<>>) = Len(path) - 1
    BY <2>4
  <2>7. PICK parents : parents = <<>>
    OBVIOUS
  <2>8. e = At(path, first, parents)
    BY <2>5, <2>7, <1>0
  <2>9. parents \in Seq(Nat) /\ path \in Seq(Ids)
    BY <2>4, <2>6, <2>7
  <2>10. path # <<>> => Len(parents) = Len(path) - 1
    BY <2>6, <2>7
  <2>. QED BY <2>8, <2>9, <2>10, OtherPlace
<1>4. CASE d.active # <<>>
  <2>1. /\ Len(d.parents) = Len(d.active) - 1
        /\ Opens(d, d.active) /\ Len(d.active) \in Nat /\ Len(d.active) >= 1
    <3>1. Len(d.active) \in Nat /\ Len(d.active) >= 1
      BY <1>2, <1>4
    <3>2. Opens(d, Upto(d.active, Len(d.active)))
      BY <3>1, <1>4 DEF Valid
    <3>. QED BY <3>1, <3>2, <1>2, <1>4, UptoAll DEF Valid
  <2>2. PICK role : role = Role(Len(Kids(d, d.active)), d.page, k)
    OBVIOUS
  <2>3. role \in Roles
    BY <2>2, RoleIsRole
  <2>4. CASE role = "child"
    <3>1. e = OpenLayer(d, ChildPath(d, k))
      BY <1>4, <2>2, <2>4 DEF Pressed, PressedChild
    <3>2. PICK id \in Ids : ChildPath(d, k) = Append(d.active, id)
      BY <2>1, <2>2, <2>4, ChildPressed
    <3>3. PICK path : path = Append(d.active, id)
      OBVIOUS
    <3>4. path \in Seq(Ids) /\ Len(path) = Len(d.active) + 1
      BY <3>3, <1>2
    <3>5. PICK parents : parents = Append(d.parents, d.page)
      OBVIOUS
    <3>6. parents \in Seq(Nat) /\ Len(parents) = Len(d.parents) + 1
      BY <3>5, <1>2
    <3>7. e = At(path, first, parents)
      BY <3>1, <3>2, <3>3, <3>5, <1>0, <1>1, <1>4 DEF OpenLayer, IsDoc
    <3>8. Len(parents) = Len(path) - 1
      BY <3>4, <3>6, <2>1
    <3>. QED BY <3>4, <3>6, <3>7, <3>8, OtherPlace
  <2>5. CASE role = "up"
    <3>1. e = Up(d)
      BY <1>4, <2>2, <2>5 DEF Pressed
    <3>2. PICK above \in Nat : above = Len(d.active) - 1
      BY <2>1
    <3>3. CASE above = 0
      <4>1. e = At(Upto(d.active, 0), 0, <<>>)
        BY <3>1, <3>2, <3>3, <1>1 DEF Up, IsDoc
      <4>2. Upto(d.active, 0) \in Seq(Ids) /\ Len(Upto(d.active, 0)) = 0
        BY <1>2, <2>1, UptoIs
      <4>3. Upto(d.active, 0) = <<>> /\ <<>> \in Seq(Nat)
        BY <4>2
      <4>4. PICK active : active = Upto(d.active, 0)
        OBVIOUS
      <4>5. PICK parents : parents = <<>>
        OBVIOUS
      <4>6. e = At(active, first, parents)
        BY <4>1, <4>4, <4>5, <1>0
      <4>7. active \in Seq(Ids) /\ parents \in Seq(Nat)
        BY <4>2, <4>3, <4>4, <4>5
      <4>8. active # <<>> => Len(parents) = Len(active) - 1
        BY <4>3, <4>4
      <4>. QED BY <4>6, <4>7, <4>8, OtherPlace
    <3>4. CASE above # 0
      <4>1. PICK path : path = Upto(d.active, above)
        OBVIOUS
      <4>2. path \in Seq(Ids) /\ Len(path) = above
        BY <4>1, <1>2, <2>1, <3>2, UptoIs
      <4>3. PICK parents : parents = Upto(d.parents, above - 1)
        OBVIOUS
      <4>0. Len(d.parents) = above
        BY <2>1, <3>2
      <4>4. above - 1 \in 0 .. Len(d.parents)
        BY <4>0, <3>4
      <4>5. parents \in Seq(Nat) /\ Len(parents) = above - 1
        BY <4>3, <4>4, <1>2 DEF Upto
      <4>6. d.parents[above] \in Nat
        <5>1. above \in 1 .. Len(d.parents)
          BY <4>0, <3>4
        <5>. QED BY <5>1, <1>2
      <4>7. e = At(path, d.parents[above], parents)
        BY <3>1, <3>2, <3>4, <4>1, <4>3, <1>1 DEF Up, IsDoc
      <4>. QED BY <4>2, <4>5, <4>6, <4>7, OtherPlace
    <3>. QED BY <3>3, <3>4
  <2>6. CASE role = "left"
    <3>1. e = [d EXCEPT !.page = @ - 1]
      BY <1>4, <2>2, <2>6 DEF Pressed
    <3>2. d.page > 0
      <4>1. CASE k = UpKey /\ d.page > 0
        BY <4>1
      <4>2. CASE ~(k = UpKey /\ d.page > 0)
        BY <4>2, <2>2, <2>6, <1>2 DEF Role
      <4>. QED BY <4>1, <4>2
    <3>3. PICK page \in Nat : page = d.page - 1
      BY <3>2, <1>2
    <3>4. e = At(d.active, page, d.parents)
      BY <3>1, <3>3, <1>1 DEF IsDoc
    <3>. QED BY <3>4, <2>1, <1>2, OtherPlace
  <2>7. CASE role = "right"
    <3>1. e = [d EXCEPT !.page = @ + 1]
      BY <1>4, <2>2, <2>7 DEF Pressed
    <3>2. PICK page \in Nat : page = d.page + 1
      BY <1>2
    <3>3. e = At(d.active, page, d.parents)
      BY <3>1, <3>2, <1>1 DEF IsDoc
    <3>. QED BY <3>3, <2>1, <1>2, OtherPlace
  <2>8. CASE role = "blank"
    BY <1>4, <2>2, <2>8 DEF Pressed
  <2>. QED BY <2>3, <2>4, <2>5, <2>6, <2>7, <2>8 DEF Roles
<1>. QED BY <1>3, <1>4

(* What the keys must show of a valid tree is something that keys show.    *)
LEMMA DesiredIsView ==
  ASSUME NEW d, Docs(d), Valid(d)
  PROVE  Desired(d) \in [Keys -> Views]
<1>1. NodesOK(d.nodes) /\ TopsOK(d.keys, d.nodes) /\ PlaceOK(d)
  BY DocsParts
<1>2. \A p \in DOMAIN d.nodes : View("key", d.nodes[p].face) \in Views
  BY <1>1 DEF NodesOK, Views
<1>3. Blank \in Views /\ Arrows \subseteq Views
  BY DEF Views
<1>. SUFFICES ASSUME NEW k \in Keys PROVE Desired(d)[k] \in Views
  BY DEF Desired
<1>4. CASE d.active = <<>>
  <2>1. Desired(d)[k] = DesiredTop(d, k)
    BY <1>4 DEF Desired
  <2>2. CASE d.keys[k] = None
    BY <2>1, <2>2, <1>3 DEF DesiredTop
  <2>3. CASE d.keys[k] # None
    <3>1. PICK id \in Ids : id = d.keys[k]
      BY <2>3, <1>1 DEF TopsOK, IdOrNone
    <3>2. <<id>> \in DOMAIN d.nodes
      BY <3>1, <1>1 DEF TopsOK
    <3>. QED BY <2>1, <3>1, <3>2, <1>2, <1>3 DEF DesiredTop
  <2>. QED BY <2>2, <2>3
<1>5. CASE d.active # <<>>
  <2>0. Desired(d)[k] = DesiredInLayer(d, k)
    BY <1>5 DEF Desired
  <2>1. Opens(d, d.active)
    <3>1. d.active \in Seq(Ids)
      BY <1>1 DEF PlaceOK
    <3>2. Len(d.active) \in 1 .. Len(d.active)
      BY <3>1, <1>5
    <3>3. Opens(d, Upto(d.active, Len(d.active)))
      BY <3>2, <1>5 DEF Valid
    <3>. QED BY <3>1, <3>3, UptoAll
  <2>2. PICK role : role = Role(Len(Kids(d, d.active)), d.page, k)
    OBVIOUS
  <2>3. role \in Roles
    BY <2>2, RoleIsRole
  <2>4. CASE role = "child"
    <3>1. PICK id \in Elems(Kids(d, d.active)) : ChildPath(d, k) = Append(d.active, id)
      BY <2>1, <2>2, <2>4, ChildPressed
    <3>2. ChildPath(d, k) \in DOMAIN d.nodes
      BY <3>1, <2>1, <1>1 DEF Opens, Has, Kids, NodesOK
    <3>3. Desired(d)[k] = View("key", d.nodes[ChildPath(d, k)].face)
      BY <2>0, <2>2, <2>4 DEF DesiredInLayer
    <3>. QED BY <3>2, <3>3, <1>2
  <2>5. CASE role = "blank"
    BY <2>0, <2>2, <2>5, <1>3 DEF DesiredInLayer
  <2>6. CASE role \in {"up", "left", "right"}
    <3>1. Desired(d)[k] = View(role, Empty)
      BY <2>0, <2>2, <2>6 DEF DesiredInLayer
    <3>. QED BY <3>1, <2>6, <1>3 DEF Arrows
  <2>. QED BY <2>3, <2>4, <2>5, <2>6 DEF Roles
<1>. QED BY <1>4, <1>5

-----------------------------------------------------------------------------
(* The inductive invariant, in parts.                                      *)

FlagsOK ==
  /\ dirty \in BOOLEAN /\ busy \in BOOLEAN /\ announce \in BOOLEAN /\ lost \in BOOLEAN
  /\ failures \in Nat /\ file.parses \in BOOLEAN
  /\ left \subseteq Keys /\ failed \subseteq Keys

(* The object in use is one that a file can hold.                          *)
Loadable(d) == d = NewDoc \/ Valid(d)
FileInv     == stage # "down" => Loadable(doc)

NoticeInv == stage # "down" /\ (busy => ~announce) => notice = LayerOf(doc)

Harmed == lost \/ failures > 0

(* What the controller knows of a key is on the pad; a key that it does    *)
(* not know is blank there, waits to be drawn, or was harmed.              *)
KnownInv == \A k \in Keys : shown[k] # Unknown => pad[k] = shown[k]
LeftInv  == stage # "down" => \A k \in Keys \ (left \union failed) :
              shown[k] = Desired(doc)[k] \/ (shown[k] = Unknown /\ Desired(doc)[k] = Blank)
BlankInv == stage # "down" => \A k \in Keys \ left :
              shown[k] = Unknown => pad[k] = Blank \/ Harmed
DownInv  == stage = "down" => /\ saving = <<>>
                              /\ \A k \in Keys : shown[k] = Unknown
                              /\ \A k \in Keys : pad[k] = Desired(Loaded)[k] \/ Harmed
QuietInv == /\ ~busy => left = {}
            /\ failed # {} => failures > 0

PadInv == KnownInv /\ LeftInv /\ BlankInv /\ DownInv /\ QuietInv

IInv == FlagsOK /\ FileInv /\ CleanMeansSaved /\ NoticeInv /\ PadInv

-----------------------------------------------------------------------------
LEMMA InitHolds == Init => IInv
<1>. SUFFICES ASSUME Init PROVE IInv
  OBVIOUS
<1>1. FlagsOK /\ FileInv /\ CleanMeansSaved /\ NoticeInv /\ QuietInv
  BY DEF Init, FlagsOK, FileInv, CleanMeansSaved, NoticeInv, QuietInv
<1>2. KnownInv /\ LeftInv /\ BlankInv
  BY DEF Init, KnownInv, LeftInv, BlankInv
<1>3. DownInv
  <2>1. PICK d \in SavedDocs \union {NewDoc} :
          pad = Desired(d) /\ file \in [parses : BOOLEAN, doc : {d}]
    BY DEF Init
  <2>2. lost \/ Loaded = d
    <3>1. CASE d = NewDoc
      BY <2>1, <3>1 DEF Loaded
    <3>2. CASE d \in SavedDocs
      <4>1. Valid(d)
        BY <3>2, SavedAssumption
      <4>. QED BY <4>1, <2>1 DEF Loaded, Init
    <3>. QED BY <2>1, <3>1, <3>2
  <2>. QED BY <2>1, <2>2 DEF Init, DownInv, Harmed
<1>. QED BY <1>1, <1>2, <1>3 DEF IInv, PadInv

(* A mutation: every key that it does not draw shows the view it must.     *)
LEMMA MutateHolds ==
  ASSUME IInv, NEW next, Mutate(next)
  PROVE  IInv'
<1>. USE DEF IInv, PadInv
<1>1. FlagsOK'
  <2>1. dirty' \in BOOLEAN /\ announce' \in BOOLEAN
    BY DEF Mutate, SwapIn, LayerChanges
  <2>2. left' \subseteq Keys
    BY DEF Mutate, ToDraw
  <2>. QED BY <2>1, <2>2 DEF Mutate, SwapIn, FlagsOK
<1>2. FileInv'
  BY DEF Mutate, SwapIn, FileInv, Loadable
<1>3. CleanMeansSaved'
  <2>1. SUFFICES ASSUME ~dirty' PROVE (IF saving # <<>> THEN saving = <<doc>> ELSE Loaded = doc)'
    BY DEF CleanMeansSaved
  <2>2. ~dirty /\ doc' = doc /\ stage # "down"
    BY <2>1 DEF Mutate, SwapIn, FlagsOK, Running
  <2>. QED BY <2>2 DEF Mutate, CleanMeansSaved, Loaded
<1>4. NoticeInv'
  BY DEF Mutate, SwapIn, NoticeInv, LayerChanges, Running
<1>5. KnownInv' /\ DownInv' /\ QuietInv'
  BY DEF Mutate, SwapIn, KnownInv, DownInv, QuietInv, Running
<1>6. LeftInv'
  BY DEF Mutate, SwapIn, LeftInv, ToDraw
<1>7. BlankInv'
  BY DEF Mutate, SwapIn, BlankInv, QuietInv, Harmed, Running
<1>. QED BY <1>1, <1>2, <1>3, <1>4, <1>5, <1>6, <1>7

LEMMA DrawHolds ==
  ASSUME IInv, NEW ks \in SUBSET Keys, Draw(ks)
  PROVE  IInv'
<1>. USE DEF IInv, PadInv
<1>1. PICK ok \in BOOLEAN :
        /\ Draws(ks, ok)
        /\ IF ok THEN UNCHANGED failures ELSE failures < MaxFailures /\ failures' = failures + 1
        /\ failed' = IF ok THEN failed ELSE failed \union ks
        /\ pad' \in {[k \in Keys |-> IF k \in ks THEN (IF mixed THEN Mixed ELSE Desired(doc)[k])
                                     ELSE pad[k]] : mixed \in {FALSE, ~ok}}
  BY DEF Draw
<1>2. /\ ks \subseteq left /\ left' = left \ ks /\ stage # "down"
      /\ UNCHANGED <<object, busy, announce, stage, saving, file, notice, lost>>
  BY DEF Draw, Drawable
<1>3. FlagsOK' /\ FileInv' /\ NoticeInv'
  BY <1>1, <1>2 DEF FlagsOK, FileInv, NoticeInv, object
<1>4. CleanMeansSaved'
  BY <1>2 DEF CleanMeansSaved, object, Loaded
<1>5. \A k \in Keys \ ks : shown'[k] = shown[k] /\ pad'[k] = pad[k]
  BY <1>1 DEF Draws
<1>6. \A k \in ks : /\ ok => shown'[k] = Desired(doc)[k] /\ pad'[k] = Desired(doc)[k]
                    /\ ~ok => shown'[k] = Unknown /\ k \in failed'
  BY <1>1 DEF Draws
<1>7. failed \subseteq failed' /\ (~ok => failures' > 0) /\ (Harmed => Harmed')
  BY <1>1, <1>2 DEF FlagsOK, Harmed
<1>8. KnownInv'
  BY <1>5, <1>6 DEF KnownInv
<1>9. LeftInv'
  <2>1. SUFFICES ASSUME NEW k \in Keys \ (left' \union failed')
                 PROVE  \/ shown'[k] = Desired(doc)[k]
                        \/ shown'[k] = Unknown /\ Desired(doc)[k] = Blank
    BY <1>2 DEF LeftInv, object
  <2>. QED BY <2>1, <1>2, <1>5, <1>6, <1>7 DEF LeftInv
<1>10. BlankInv'
  <2>1. SUFFICES ASSUME NEW k \in Keys \ left', shown'[k] = Unknown
                 PROVE  pad'[k] = Blank \/ Harmed'
    BY DEF BlankInv
  <2>2. CASE k \in ks
    BY <2>1, <2>2, <1>6, <1>7, DesiredIsKnown DEF Harmed
  <2>3. CASE k \notin ks
    BY <2>1, <2>3, <1>2, <1>5, <1>7 DEF BlankInv
  <2>. QED BY <2>2, <2>3
<1>11. DownInv'
  BY <1>2 DEF DownInv
<1>12. QuietInv'
  BY <1>1, <1>2 DEF QuietInv, FlagsOK
<1>. QED BY <1>3, <1>4, <1>8, <1>9, <1>10, <1>11, <1>12

LEMMA EndMutateHolds == IInv /\ EndMutate => IInv'
<1>. SUFFICES ASSUME IInv, EndMutate PROVE IInv'
  OBVIOUS
<1>. USE DEF IInv, PadInv, EndMutate, object, bounds
<1>1. FlagsOK' /\ FileInv' /\ NoticeInv'
  BY DEF FlagsOK, FileInv, NoticeInv
<1>2. CleanMeansSaved'
  BY DEF CleanMeansSaved, Loaded
<1>3. PadInv'
  BY DEF KnownInv, LeftInv, BlankInv, DownInv, QuietInv, Harmed
<1>. QED BY <1>1, <1>2, <1>3

(* The saver: a copy is the object, and what it writes loads again.        *)
LEMMA SaverHolds ==
  ASSUME IInv, Tick \/ Write \/ LastSave \/ Close
  PROVE  IInv'
<1>. USE DEF IInv, PadInv
<1>1. /\ stage # "down" /\ stage' # "down"
      /\ UNCHANGED <<doc, redraw, shown, pad, notice, failed, lost>>
      /\ failures' \in Nat /\ failures' >= failures
      /\ dirty' \in BOOLEAN /\ file'.parses \in BOOLEAN
  <2>1. CASE Tick
    <3>1. UNCHANGED <<failures, file>>
      BY <2>1 DEF Tick, bounds
    <3>2. dirty' \in BOOLEAN
      BY <2>1 DEF Tick, Copy
    <3>3. stage # "down" /\ stage' # "down"
      BY <2>1 DEF Tick
    <3>4. UNCHANGED <<doc, redraw, shown, pad, notice, failed, lost>>
      BY <2>1 DEF Tick
    <3>. QED BY <3>1, <3>2, <3>3, <3>4 DEF FlagsOK
  <2>2. CASE Write
    <3>1. dirty' \in BOOLEAN
      BY <2>2 DEF Write, AfterWrite
    <3>2. file'.parses \in BOOLEAN
      <4>1. Holding(saving[1]).parses = TRUE
        BY DEF Holding
      <4>2. file' = Holding(saving[1]) \/ file' = file
        BY <2>2 DEF Write
      <4>. QED BY <4>1, <4>2 DEF FlagsOK
    <3>3. failures' \in Nat /\ failures' >= failures
      BY <2>2 DEF Write, FlagsOK
    <3>. QED BY <2>2, <3>1, <3>2, <3>3 DEF Write
  <2>3. CASE LastSave
    <3>1. UNCHANGED <<failures, file>>
      BY <2>3 DEF LastSave, bounds
    <3>2. dirty' \in BOOLEAN
      BY <2>3 DEF LastSave, Copy, FlagsOK
    <3>3. stage # "down" /\ stage' # "down"
      BY <2>3 DEF LastSave
    <3>4. UNCHANGED <<doc, redraw, shown, pad, notice, failed, lost>>
      BY <2>3 DEF LastSave
    <3>. QED BY <3>1, <3>2, <3>3, <3>4 DEF FlagsOK
  <2>4. CASE Close
    BY <2>4 DEF Close, FlagsOK, object, bounds
  <2>. QED BY <2>1, <2>2, <2>3, <2>4
<1>2. FlagsOK' /\ FileInv' /\ NoticeInv'
  BY <1>1 DEF FlagsOK, FileInv, NoticeInv, redraw
<1>3. PadInv'
  BY <1>1 DEF KnownInv, LeftInv, BlankInv, DownInv, QuietInv, Harmed, redraw, FlagsOK
<1>4. CleanMeansSaved'
  <2>. SUFFICES ASSUME ~dirty' PROVE (IF saving # <<>> THEN saving = <<doc>> ELSE Loaded = doc)'
    BY DEF CleanMeansSaved
  <2>1. CASE saving' = <<doc>>
    BY <2>1, <1>1
  <2>2. CASE UNCHANGED <<saving, dirty, file>>
    BY <2>2, <1>1 DEF CleanMeansSaved, Loaded
  <2>3. CASE Write
    <3>1. ~dirty /\ saving # <<>> /\ saving' = <<>> /\ file' = Holding(saving[1])
      BY <2>3 DEF Write, AfterWrite
    <3>2. saving = <<doc>>
      BY <3>1, <1>1 DEF CleanMeansSaved
    <3>3. file' = Holding(doc) /\ doc' = doc /\ Loadable(doc)
      BY <3>1, <3>2, <1>1 DEF FileInv
    <3>4. Loaded' = doc
      BY <3>3 DEF Loaded, Holding, Loadable
    <3>. QED BY <3>1, <3>4, <1>1
  <2>4. CASE Tick \/ Close
    BY <2>1, <2>2, <2>4 DEF Tick, Close, Copy, object
  <2>5. CASE LastSave
    BY <2>1, <2>2, <2>5 DEF LastSave, Copy
  <2>. QED BY <2>3, <2>4, <2>5
<1>. QED BY <1>2, <1>3, <1>4

(* The process ends: unless it lost something, the pad shows the tree that *)
(* the next daemon loads.                                                  *)
LEMMA EndHolds == IInv /\ End => IInv'
<1>. SUFFICES ASSUME IInv, End PROVE IInv'
  OBVIOUS
<1>. USE DEF IInv, PadInv
<1>1. FlagsOK' /\ FileInv' /\ NoticeInv' /\ CleanMeansSaved' /\ LeftInv' /\ BlankInv'
  BY DEF End, FlagsOK, FileInv, NoticeInv, CleanMeansSaved, LeftInv, BlankInv, bounds
<1>2. KnownInv' /\ QuietInv'
  BY DEF End, KnownInv, QuietInv, bounds
<1>3. DownInv'
  <2>1. Loaded' = Loaded /\ pad' = pad /\ \A k \in Keys : shown'[k] = Unknown
    BY DEF End, Loaded
  <2>2. Harmed' \/ (Loaded = doc /\ left = {} /\ failed = {} /\ ~Harmed)
    BY DEF End, Harmed, QuietInv, bounds, FlagsOK
  <2>3. ASSUME Loaded = doc, left = {}, failed = {}, ~Harmed, NEW k \in Keys
        PROVE  pad[k] = Desired(doc)[k]
    BY <2>3, DesiredIsKnown DEF End, KnownInv, LeftInv, BlankInv
  <2>. QED BY <2>1, <2>2, <2>3 DEF DownInv, End
<1>. QED BY <1>1, <1>2, <1>3

LEMMA StartHolds == IInv /\ Start => IInv'
<1>. SUFFICES ASSUME IInv, Start PROVE IInv'
  OBVIOUS
<1>. USE DEF IInv, PadInv
<1>1. Loadable(Loaded)
  BY DEF Loadable, Loaded
<1>2. Loaded' = Loaded
  BY <1>1 DEF Start, Loaded, Holding, Loadable
<1>3. FlagsOK'
  BY DEF Start, FlagsOK, Holding
<1>4. FileInv' /\ NoticeInv'
  BY <1>1 DEF Start, FileInv, NoticeInv
<1>5. CleanMeansSaved'
  <2>1. saving' = <<>> /\ doc' = Loaded'
    BY <1>2 DEF Start, DownInv
  <2>. QED BY <2>1 DEF CleanMeansSaved
<1>6. KnownInv' /\ QuietInv' /\ DownInv'
  BY DEF Start, KnownInv, QuietInv, DownInv
<1>7. LeftInv'
  BY DEF Start, LeftInv, DownInv
<1>8. BlankInv'
  BY DEF Start, BlankInv, DownInv, Harmed
<1>. QED BY <1>3, <1>4, <1>5, <1>6, <1>7, <1>8

LEMMA StepHolds == IInv /\ [Next]_vars => IInv'
<1>. SUFFICES ASSUME IInv, [Next]_vars PROVE IInv'
  OBVIOUS
<1>1. CASE Change
  BY <1>1, MutateHolds DEF Change, Set, Press
<1>2. CASE Redraw
  BY <1>2, DrawHolds, EndMutateHolds DEF Redraw
<1>3. CASE Saver \/ Close
  BY <1>3, SaverHolds DEF Saver
<1>4. CASE End
  BY <1>4, EndHolds
<1>5. CASE Start
  BY <1>5, StartHolds
<1>6. CASE UNCHANGED vars
  <2>. USE <1>6 DEF vars, object, redraw, bounds, IInv, PadInv
  <2>1. FlagsOK' /\ FileInv' /\ NoticeInv'
    BY DEF FlagsOK, FileInv, NoticeInv
  <2>2. CleanMeansSaved' /\ DownInv'
    BY DEF CleanMeansSaved, Loaded, DownInv, Harmed
  <2>3. KnownInv' /\ LeftInv' /\ BlankInv' /\ QuietInv'
    BY DEF KnownInv, LeftInv, BlankInv, QuietInv, Harmed
  <2>. QED BY <2>1, <2>2, <2>3
<1>. QED BY <1>1, <1>2, <1>3, <1>4, <1>5, <1>6 DEF Next

THEOREM Invariance == Spec => []IInv
  BY InitHolds, StepHolds, PTL DEF Spec

(* Between two redraws every key shows what the tree says, unless a draw   *)
(* failed or an end of the daemon lost a change, for any tree and any      *)
(* number of keys, restarts and failures.                                  *)
THEOREM PadCorrect == Spec => []PadShowsTree
<1>1. IInv => PadShowsTree
  <2>. SUFFICES ASSUME IInv, stage # "down", ~busy, NEW k \in Keys
       PROVE  \/ pad[k] = Desired(doc)[k]
              \/ k \in failed
              \/ (lost \/ failures > 0) /\ Desired(doc)[k] = Blank
    BY DEF PadShowsTree
  <2>1. left = {}
    BY DEF IInv, PadInv, QuietInv
  <2>2. CASE shown[k] = Desired(doc)[k]
    BY <2>2, DesiredIsKnown DEF IInv, PadInv, KnownInv
  <2>3. CASE shown[k] = Unknown /\ Desired(doc)[k] = Blank
    BY <2>1, <2>3 DEF IInv, PadInv, BlankInv, Harmed
  <2>. QED BY <2>1, <2>2, <2>3 DEF IInv, PadInv, LeftInv
<1>. QED BY <1>1, Invariance, PTL

(* Clients know the open layer whenever no redraw is under way.            *)
THEOREM NoticesCorrect == Spec => []NoticesAgree
<1>1. IInv => NoticesAgree
  BY DEF IInv, NoticeInv, NoticesAgree
<1>. QED BY <1>1, Invariance, PTL

(* An object that is not dirty is in the file or on its way there.         *)
THEOREM SavesCorrect == Spec => []CleanMeansSaved
<1>1. IInv => CleanMeansSaved
  BY DEF IInv
<1>. QED BY <1>1, Invariance, PTL

-----------------------------------------------------------------------------
(* The object in use is always a valid tree, and what is saved or found in *)
(* the file a tree.                                                        *)
Good(d) == Docs(d) /\ Valid(d)

LEMMA GoodParts ==
  ASSUME NEW d, Good(d)
  PROVE  Docs(d) /\ KidsDistinct(d.nodes) /\ Steady(d) /\ Fits(d)
<1>1. NodesOK(d.nodes)
  BY DocsParts DEF Good
<1>. QED BY <1>1, ValidParts DEF Good, Steady

(* A client's change settles to a tree, valid unless it breaks a limit.    *)
LEMMA SetSettles ==
  ASSUME NEW d, Good(d), NEW u \in Requests, NEW e, e = Applied(d, u), e # None
  PROVE  /\ Docs(e) /\ Kept(d, e) /\ Docs(Settle(e))
         /\ Settle(e).keys = e.keys /\ Settle(e).nodes = e.nodes
         /\ Fits(e) => Valid(Settle(e))
<1>1. Docs(d) /\ KidsDistinct(d.nodes) /\ Steady(d)
  BY GoodParts
<1>2. Docs(e) /\ Kept(d, e) /\ KidsDistinct(e.nodes)
  BY <1>1, AppliedHolds
<1>3. Steady(e)
  BY <1>1, <1>2 DEF Steady, Kept
<1>. QED BY <1>2, <1>3, SettleHolds

(* A press always settles to a valid tree, with the same nodes and keys.   *)
LEMMA PressSettles ==
  ASSUME NEW d, Good(d), NEW k \in Keys, NEW e, e = Pressed(d, k), e # None
  PROVE  Good(Settle(e)) /\ Settle(e).nodes = d.nodes /\ Settle(e).keys = d.keys
<1>1. Docs(d) /\ KidsDistinct(d.nodes) /\ Fits(d) /\ Valid(d)
  BY GoodParts DEF Good
<1>2. Docs(e) /\ Steady(e) /\ e.nodes = d.nodes /\ e.keys = d.keys
  BY <1>1, PressedHolds
<1>3. KidsDistinct(e.nodes) /\ Fits(e)
  BY <1>1, <1>2 DEF Fits, Kids
<1>. QED BY <1>2, <1>3, SettleHolds DEF Good

(* The object between two requests.                                        *)
LEMMA ChangeHolds ==
  ASSUME Good(doc), Change
  PROVE  \E next : Good(next) /\ Mutate(next)
<1>1. PICK d : d = doc
  OBVIOUS
<1>2. CASE \E u \in Requests : Set(u)
  <2>1. PICK u \in Requests : Set(u)
    BY <1>2
  <2>2. PICK e : e = Applied(d, u)
    OBVIOUS
  <2>3. e # None /\ Mutate(Settle(e))
    BY <1>1, <2>1, <2>2 DEF Set
  <2>4. Good(d)
    BY <1>1
  <2>5. Docs(Settle(e))
    BY <2>2, <2>3, <2>4, SetSettles
  <2>6. Valid(Settle(e))
    BY <2>3 DEF Mutate
  <2>. QED BY <2>3, <2>5, <2>6 DEF Good
<1>3. CASE \E k \in Keys : Press(k)
  <2>1. PICK k \in Keys : Press(k)
    BY <1>3
  <2>2. PICK e : e = Pressed(d, k)
    OBVIOUS
  <2>3. e # None /\ Mutate(Settle(e))
    BY <1>1, <2>1, <2>2 DEF Press
  <2>4. Good(d)
    BY <1>1
  <2>5. Good(Settle(e))
    BY <2>2, <2>3, <2>4, PressSettles
  <2>. QED BY <2>3, <2>5
<1>. QED BY <1>2, <1>3 DEF Change

LEMMA LoadedIsGood ==
  ASSUME Docs(file.doc)
  PROVE  Good(Loaded)
  BY NewDocHolds DEF Good, Loaded

DocInv == Good(doc) /\ Docs(file.doc)
SavingInv == saving # <<>> => saving = <<saving[1]>> /\ Docs(saving[1])
ShownInv == shown \in [Keys -> Views \union {Unknown}]
PadOK == pad \in [Keys -> Views \union {Mixed}]
RestOK ==
  /\ stage \in {"up", "closing", "last", "closed", "down"}
  /\ changes \in Nat /\ starts \in Nat

TreeInv == DocInv /\ SavingInv /\ ShownInv /\ PadOK /\ RestOK

(* Every step keeps the object, the file and the copy under way trees.     *)
LEMMA DocStep ==
  ASSUME DocInv, SavingInv, Next
  PROVE  DocInv' /\ SavingInv'
<1>1. PICK d : d = doc
  OBVIOUS
<1>2. PICK e : e = doc'
  OBVIOUS
<1>3. PICK s : s = saving'
  OBVIOUS
<1>4. PICK f : f = file'.doc
  OBVIOUS
<1>5. SUFFICES Good(e) /\ Docs(f) /\ (s # <<>> => s = <<s[1]>> /\ Docs(s[1]))
  BY <1>2, <1>3, <1>4 DEF DocInv, SavingInv
<1>6. Good(doc) /\ Docs(doc) /\ Docs(file.doc) /\ Good(Loaded) /\ Good(NewDoc)
  BY LoadedIsGood, NewDocHolds DEF DocInv, Good
<1>7. CASE Change
  <2>1. PICK next : Good(next) /\ Mutate(next)
    BY <1>6, <1>7, ChangeHolds
  <2>2. e = next /\ f = file.doc /\ s = saving
    BY <2>1, <1>2, <1>3, <1>4 DEF Mutate, SwapIn
  <2>. QED BY <2>1, <2>2, <1>6 DEF SavingInv
<1>8. CASE Redraw \/ Close
  <2>1. doc' = doc /\ saving' = saving /\ file' = file
    BY <1>8 DEF Redraw, Draw, EndMutate, Close, object
  <2>2. e = doc /\ f = file.doc /\ s = saving
    BY <2>1, <1>2, <1>3, <1>4
  <2>. QED BY <2>2, <1>6 DEF SavingInv
<1>9. CASE Tick \/ LastSave
  <2>1. doc' = doc /\ file' = file /\ (saving' = saving \/ saving' = <<doc>>)
    BY <1>9 DEF Tick, LastSave, Copy
  <2>2. e = doc /\ f = file.doc /\ (s = saving \/ s = <<doc>>)
    BY <2>1, <1>2, <1>3, <1>4
  <2>. QED BY <2>2, <1>6 DEF SavingInv
<1>10. CASE Write
  <2>1. doc' = doc /\ saving' = <<>> /\ saving # <<>>
        /\ (file' = file \/ file' = Holding(saving[1]))
    BY <1>10 DEF Write
  <2>2. Holding(saving[1]).doc = saving[1] /\ Docs(saving[1])
    BY <2>1 DEF Holding, SavingInv
  <2>3. e = doc /\ s = <<>> /\ (f = file.doc \/ f = saving[1])
    BY <2>1, <2>2, <1>2, <1>3, <1>4
  <2>. QED BY <2>2, <2>3, <1>6
<1>11. CASE End
  <2>1. e = NewDoc /\ s = <<>> /\ f = file.doc
    BY <1>11, <1>2, <1>3, <1>4 DEF End
  <2>. QED BY <2>1, <1>6
<1>12. CASE Start
  <2>1. doc' = Loaded /\ saving' = saving /\ file' = Holding(Loaded)
    BY <1>12 DEF Start
  <2>2. e = Loaded /\ s = saving /\ f = Loaded
    BY <2>1, <1>2, <1>3, <1>4 DEF Holding
  <2>. QED BY <2>2, <1>6 DEF SavingInv, Good
<1>. QED BY <1>7, <1>8, <1>9, <1>10, <1>11, <1>12 DEF Next, Saver

(* Keys show views of the object, or what a failed draw leaves.            *)
LEMMA ViewStep ==
  ASSUME DocInv, ShownInv, PadOK, Next
  PROVE  ShownInv' /\ PadOK'
<1>1. PICK view \in [Keys -> Views] : view = Desired(doc)
  BY DesiredIsView DEF DocInv, Good
<1>2. CASE \E ks \in SUBSET Keys : Draw(ks)
  <2>1. PICK ks \in SUBSET Keys : Draw(ks)
    BY <1>2
  <2>2. PICK ok \in BOOLEAN :
          /\ Draws(ks, ok)
          /\ pad' \in {[k \in Keys |-> IF k \in ks
                                       THEN (IF mixed THEN Mixed ELSE Desired(doc)[k])
                                       ELSE pad[k]] : mixed \in {FALSE, ~ok}}
    BY <2>1 DEF Draw
  <2>3. ShownInv'
    <3>1. shown' = [k \in Keys |-> IF k \in ks THEN (IF ok THEN view[k] ELSE Unknown)
                                   ELSE shown[k]]
      BY <2>2, <1>1 DEF Draws
    <3>. QED BY <3>1 DEF ShownInv
  <2>4. PadOK'
    <3>1. PICK mixed \in BOOLEAN :
            pad' = [k \in Keys |-> IF k \in ks THEN (IF mixed THEN Mixed ELSE view[k])
                                   ELSE pad[k]]
      BY <2>2, <1>1
    <3>. QED BY <3>1 DEF PadOK
  <2>. QED BY <2>3, <2>4
<1>3. CASE ~(\E ks \in SUBSET Keys : Draw(ks))
  <2>1. pad' = pad /\ (shown' = shown \/ shown' = [k \in Keys |-> Unknown])
    BY <1>3 DEF Next, Change, Set, Press, Mutate, Redraw, EndMutate, Saver, Tick, Write,
                LastSave, Close, End, Start
  <2>. QED BY <2>1 DEF ShownInv, PadOK
<1>. QED BY <1>2, <1>3

LEMMA RestStep ==
  ASSUME RestOK, Next
  PROVE  RestOK'
<1>. USE DEF RestOK, bounds
<1>1. CASE Change
  BY <1>1 DEF Change, Set, Press, Mutate
<1>2. CASE Redraw
  BY <1>2 DEF Redraw, Draw, EndMutate
<1>3. CASE Saver
  BY <1>3 DEF Saver, Tick, Write, LastSave
<1>4. CASE Close \/ End \/ Start
  BY <1>4 DEF Close, End, Start
<1>. QED BY <1>1, <1>2, <1>3, <1>4 DEF Next

LEMMA TreeInit == Init => TreeInv
<1>. SUFFICES ASSUME Init PROVE TreeInv
  OBVIOUS
<1>1. PICK d \in SavedDocs \union {NewDoc} :
        pad = Desired(d) /\ file \in [parses : BOOLEAN, doc : {d}]
  BY DEF Init
<1>2. Good(d) /\ file.doc = d
  BY <1>1, NewDocHolds, SavedAssumption DEF Good
<1>3. DocInv
  BY <1>2, NewDocHolds DEF Init, DocInv, Good
<1>4. PadOK
  BY <1>1, <1>2, DesiredIsView DEF PadOK, Good
<1>5. SavingInv /\ ShownInv /\ RestOK
  BY DEF Init, SavingInv, ShownInv, RestOK
<1>. QED BY <1>3, <1>4, <1>5 DEF TreeInv

LEMMA TreeStep == TreeInv /\ [Next]_vars => TreeInv'
<1>. SUFFICES ASSUME TreeInv, [Next]_vars PROVE TreeInv'
  OBVIOUS
<1>1. CASE Next
  BY <1>1, DocStep, ViewStep, RestStep DEF TreeInv
<1>2. CASE UNCHANGED vars
  <2>1. UNCHANGED <<doc, file, saving, shown, pad, stage, changes, starts>>
    BY <1>2 DEF vars, object, bounds
  <2>. QED BY <2>1 DEF TreeInv, DocInv, SavingInv, ShownInv, PadOK, RestOK
<1>. QED BY <1>1, <1>2

THEOREM TreeHolds == Spec => []TreeInv
  BY TreeInit, TreeStep, PTL DEF Spec

(* After whatever a client asks or presses, the settled object validates   *)
(* unless the change itself breaks a limit of the tree.                    *)
LEMMA EveryGoodFits ==
  ASSUME NEW d, Good(d)
  PROVE  /\ \A u \in Requests :
              LET e == Applied(d, u) IN
              IF e = None THEN TRUE ELSE Fits(e) => Valid(Settle(e))
         /\ \A k \in Keys :
              LET e == Pressed(d, k) IN IF e = None THEN TRUE ELSE Valid(Settle(e))
<1>1. ASSUME NEW u \in Requests, NEW e, e = Applied(d, u), e # None, Fits(e)
      PROVE  Valid(Settle(e))
  BY <1>1, SetSettles
<1>2. ASSUME NEW k \in Keys, NEW e, e = Pressed(d, k), e # None
      PROVE  Valid(Settle(e))
  BY <1>2, PressSettles DEF Good
<1>. QED BY <1>1, <1>2

-----------------------------------------------------------------------------
(* What a change does to the open layer.                                   *)
Stays(d, n) ==
  LET i == Len(n.active) IN
  /\ i <= Len(d.active) /\ n.active = Upto(d.active, i)
  /\ i < Len(d.active) => ~Opens(n, Upto(d.active, i + 1))
  /\ i > 0 =>
       \/ n.page = PageOf(d, i)
       \/ /\ n.page < PageOf(d, i)
          /\ n.page + 1 = PageCount(Len(Kids(n, n.active)))

LEMMA SettledStays ==
  ASSUME NEW d, Good(d), NEW e, Docs(e), Kept(d, e),
         NEW n, n = Settle(e), n.nodes = e.nodes
  PROVE  Stays(d, n)
<1>1. d.active \in Seq(Ids) /\ IsDoc(e) /\ NodesOK(e.nodes) /\ PlaceOK(d) /\ Steady(d)
  BY DocsParts, GoodParts DEF Good, PlaceOK
<1>2. e.active = d.active /\ e.page = d.page /\ e.parents = d.parents
  BY DEF Kept
<1>3. PICK length \in Nat : length = Len(d.active)
  BY <1>1
<1>4. PICK i : i = DepthLeft(e)
  OBVIOUS
<1>5. /\ i \in 0 .. length
      /\ i = 0 \/ Opens(e, Upto(d.active, i))
      /\ \A j \in i + 1 .. length : ~Opens(e, Upto(d.active, j))
  BY <1>1, <1>2, <1>3, <1>4, DeepestLeft
<1>6. \A p : Opens(n, p) <=> Opens(e, p)
  BY DEF Opens, Has, Kids
<1>7. i < length => ~Opens(n, Upto(d.active, i + 1))
  BY <1>5, <1>6
<1>8. CASE i = 0
  <2>1. n.active = <<>>
    BY <1>1, <1>4, <1>8 DEF Settle, IsDoc
  <2>2. Upto(d.active, 0) \in Seq(Ids) /\ Len(Upto(d.active, 0)) = 0
    BY <1>1, <1>3, UptoIs
  <2>3. n.active = Upto(d.active, 0) /\ Len(n.active) = 0
    BY <2>1, <2>2
  <2>. QED BY <2>3, <1>3, <1>5, <1>7, <1>8 DEF Stays
<1>9. CASE i # 0
  <2>1. n.active = Upto(d.active, i) /\ n.page = ClampedAt(e, i)
    BY <1>1, <1>2, <1>4, <1>9 DEF Settle, IsDoc
  <2>2. Len(n.active) = i
    BY <2>1, <1>1, <1>3, <1>5, UptoIs
  <2>3. PICK page : page = PageOf(d, i)
    OBVIOUS
  <2>4. page \in Nat
    BY <2>3, <1>1, <1>3, <1>5, <1>9, PageKnown
  <2>5. PageOf(e, i) = page
    BY <2>3, <1>2 DEF PageOf
  <2>6. PICK kids : kids = Kids(n, n.active)
    OBVIOUS
  <2>7. kids \in Seq(Ids) /\ kids = Kids(e, Upto(d.active, i))
    BY <2>1, <2>6, <1>1, <1>5, <1>9 DEF Opens, Has, Kids, NodesOK
  <2>8. PICK pages \in Nat : pages = PageCount(Len(kids))
    BY <2>7, PagesAreNumbers
  <2>9. n.page = IF page > pages - 1 THEN pages - 1 ELSE page
    BY <2>1, <2>5, <2>7, <2>8, <1>2 DEF ClampedAt, Clamp
  <2>10. n.page = page \/ (n.page < page /\ n.page + 1 = pages)
    BY <2>4, <2>8, <2>9
  <2>. QED BY <2>1, <2>2, <2>3, <2>6, <2>8, <2>10, <1>3, <1>5, <1>7 DEF Stays
<1>. QED BY <1>8, <1>9

(* Only a client's change alters the keys or the nodes while the handlers  *)
(* of the server run.                                                      *)
LEMMA OnlySets ==
  ASSUME Good(doc), [Next]_vars, Running, Running',
         <<doc.keys, doc.nodes>>' # <<doc.keys, doc.nodes>>
  PROVE  \E u \in Requests : Set(u)
<1>1. CASE \E k \in Keys : Press(k)
  <2>1. PICK k \in Keys : Press(k)
    BY <1>1
  <2>2. PICK d : d = doc
    OBVIOUS
  <2>3. PICK e : e = Pressed(d, k)
    OBVIOUS
  <2>4. e # None /\ doc' = Settle(e)
    BY <2>1, <2>2, <2>3 DEF Press, Mutate, SwapIn
  <2>5. Good(d)
    BY <2>2
  <2>6. Settle(e).nodes = d.nodes /\ Settle(e).keys = d.keys
    BY <2>3, <2>4, <2>5, PressSettles
  <2>. QED BY <2>2, <2>4, <2>6
<1>2. CASE Redraw \/ Saver \/ Close \/ UNCHANGED vars
  <2>1. doc' = doc
    BY <1>2 DEF Redraw, Draw, EndMutate, Saver, Tick, Write, LastSave, Close, object, vars
  <2>. QED BY <2>1
<1>3. CASE End \/ Start
  BY <1>3 DEF End, Start, Running
<1>. QED BY <1>1, <1>2, <1>3 DEF Next, Change

LEMMA SetStays ==
  ASSUME Good(doc), NEW u \in Requests, Set(u)
  PROVE  \E n : n = doc' /\ Stays(doc, n)
<1>1. PICK d : d = doc
  OBVIOUS
<1>2. PICK e : e = Applied(d, u)
  OBVIOUS
<1>3. PICK n : n = Settle(e)
  OBVIOUS
<1>4. e # None /\ doc' = n
  BY <1>1, <1>2, <1>3 DEF Set, Mutate, SwapIn
<1>5. Good(d)
  BY <1>1
<1>6. Docs(e) /\ Kept(d, e) /\ n.nodes = e.nodes
  BY <1>2, <1>3, <1>4, <1>5, SetSettles
<1>7. Stays(d, n)
  BY <1>3, <1>5, <1>6, SettledStays
<1>. QED BY <1>1, <1>4, <1>7

(* The object, the copy under way and the file are trees, and keys show    *)
(* views of a tree, for every set of requests, tree and number of keys.    *)
THEOREM TypeCorrect == Spec => []TypeOK
<1>1. IInv /\ TreeInv => TypeOK
  BY DEF IInv, FlagsOK, TreeInv, DocInv, Good, SavingInv, ShownInv, PadOK, RestOK, TypeOK
<1>. QED BY <1>1, Invariance, TreeHolds, PTL

(* Whatever a client asks or presses, the settled object validates unless  *)
(* the change breaks a limit of the tree: settle comes before Validate.    *)
THEOREM ChangesFit == Spec => []EveryChangeFits
<1>1. TypeOK /\ TreeInv => EveryChangeFits
  <2>. SUFFICES ASSUME TypeOK, TreeInv PROVE EveryChangeFits
    OBVIOUS
  <2>1. Good(doc)
    BY DEF TreeInv, DocInv
  <2>. QED BY <2>1, EveryGoodFits DEF EveryChangeFits
<1>. QED BY <1>1, TypeCorrect, TreeHolds, PTL

(* A change that is not a press closes no layer but one that it took away, *)
(* and keeps the page unless the layer no longer has it.                   *)
THEOREM StaysOpen == Spec => LayerStaysOpen
<1>. DEFINE Body ==
       Running /\ Running' /\ <<doc.keys, doc.nodes>>' # <<doc.keys, doc.nodes>> =>
       LET i == Len(doc'.active) IN
       /\ i <= Len(doc.active) /\ doc'.active = Upto(doc.active, i)
       /\ i < Len(doc.active) => ~Opens(doc', Upto(doc.active, i + 1))
       /\ i > 0 =>
            \/ doc'.page = PageOf(doc, i)
            \/ /\ doc'.page < PageOf(doc, i)
               /\ doc'.page + 1 = PageCount(Len(Kids(doc', doc'.active)))
<1>1. TreeInv /\ [Next]_vars => [Body]_vars
  <2>. SUFFICES ASSUME TreeInv, [Next]_vars, Running, Running',
                       <<doc.keys, doc.nodes>>' # <<doc.keys, doc.nodes>>
                PROVE  Body
    OBVIOUS
  <2>1. Good(doc)
    BY DEF TreeInv, DocInv
  <2>2. PICK u \in Requests : Set(u)
    BY <2>1, OnlySets
  <2>3. PICK n : n = doc' /\ Stays(doc, n)
    BY <2>1, <2>2, SetStays
  <2>. QED BY <2>3 DEF Stays
<1>. QED BY <1>1, TreeHolds, PTL DEF Spec, LayerStaysOpen
=============================================================================
