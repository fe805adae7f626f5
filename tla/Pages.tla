------------------------------- MODULE Pages -------------------------------
(***************************************************************************)
(* How driver/layers spreads the children of a node over the pages of its  *)
(* child layer.  Page 0 has the up key; a later page has the left arrow in *)
(* its place; every page but the last gives up its last key for the right  *)
(* arrow.  The code has six keys, and UpKey 3 and RightKey 5 of them.      *)
(***************************************************************************)
EXTENDS Integers

CONSTANTS
  KeyCount,   \* the keys of the pad, numbered from 0
  UpKey       \* the key of the up key and of the left arrow, not the last

ASSUME PagesAssumption ==
  /\ KeyCount \in Nat /\ KeyCount >= 3
  /\ UpKey \in 0 .. KeyCount - 2

Keys     == 0 .. KeyCount - 1
RightKey == KeyCount - 1

(* The most children of a layer without pages, and of a page with a right  *)
(* arrow.                                                                  *)
OnePage == KeyCount - 1
PerPage == KeyCount - 2

PageCount(n) == IF n <= OnePage THEN 1 ELSE (n - 1 + PerPage - 1) \div PerPage

Clamp(page, n) == IF page > PageCount(n) - 1 THEN PageCount(n) - 1 ELSE page

(* The place of a key among the keys that show children (childKeys), and   *)
(* the child a key shows, of n children on this page; children from 0.     *)
ChildPlace(k) == IF k < UpKey THEN k ELSE k - 1
ChildOn(page, k) == page * PerPage + ChildPlace(k)

Roles == {"blank", "child", "up", "left", "right"}

Role(n, page, k) ==
  CASE k = UpKey /\ page > 0                    -> "left"
    [] k = UpKey /\ page = 0                    -> "up"
    [] k = RightKey /\ page < PageCount(n) - 1  -> "right"
    [] OTHER -> IF ChildOn(page, k) < n THEN "child" ELSE "blank"

(* A child of n has one key, on one page that the layer has.               *)
Shows(n, page, k, c) ==
  /\ page \in 0 .. PageCount(n) - 1 /\ k \in Keys
  /\ Role(n, page, k) = "child" /\ ChildOn(page, k) = c

EachChildOnce(n) ==
  \A c \in 0 .. n - 1 :
    /\ \E page \in 0 .. PageCount(n) - 1, k \in Keys : Shows(n, page, k, c)
    /\ \A p, q \in 0 .. PageCount(n) - 1, j, k \in Keys :
         Shows(n, p, j, c) /\ Shows(n, q, k, c) => p = q /\ j = k

(* The right arrow leads to a page that the layer has, the left arrow from *)
(* every page but the first, and no page is empty.                         *)
ArrowsLead(n) ==
  \A page \in 0 .. PageCount(n) - 1 :
    /\ Role(n, page, RightKey) = "right" <=> page + 1 \in 0 .. PageCount(n) - 1
    /\ Role(n, page, UpKey) = "left" <=> page - 1 \in 0 .. PageCount(n) - 1
    /\ \E k \in Keys : Role(n, page, k) = "child"
=============================================================================
