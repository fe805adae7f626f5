------------------------------ MODULE MCBatch ------------------------------
(***************************************************************************)
(* Batch with three hosts: one over CDC with a client and answers that     *)
(* take any time; one over HID that loses messages in one layer change;    *)
(* and one over CDC with two layer changes and glyphs that are dropped.    *)
(***************************************************************************)
EXTENDS Batch

Busy  == [overHID |-> FALSE, prompt |-> FALSE, clients |-> TRUE, maxSends |-> 2, maxLosses |-> 0]
Lossy == [overHID |-> TRUE, prompt |-> TRUE, clients |-> FALSE, maxSends |-> 1, maxLosses |-> 3]
Twice == [overHID |-> FALSE, prompt |-> TRUE, clients |-> FALSE, maxSends |-> 2, maxLosses |-> 2]

Hosts == {Busy, Lossy, Twice}
=============================================================================
