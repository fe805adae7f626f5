---------------------------- MODULE DurableState ----------------------------
(***************************************************************************)
(* What the state directory promises (driver/README.md, "State files"): a  *)
(* call that has returned is saved, all of it; a daemon that ends in the   *)
(* middle of one goes back to the last save; and a restart finds what was  *)
(* saved, as long as no write failed and nobody spoiled a file.            *)
(***************************************************************************)
VARIABLES
  stage,        \* "down", "idle", or "call": a call changes what is remembered
  remembered,   \* what the daemon remembers; while it is down, what it will
  saved,        \* what a daemon that starts now would load
  whole         \* no write failed and nobody spoiled a file

Init == stage = "down" /\ remembered = saved /\ whole = TRUE

Start  == stage = "down" /\ stage' = "idle" /\ UNCHANGED <<remembered, saved>>
Call   == stage = "idle" /\ stage' = "call" /\ UNCHANGED <<remembered, saved>>
Change == stage = "call" /\ stage' = "call" /\ UNCHANGED saved
Return == stage = "call" /\ stage' = "idle" /\ UNCHANGED remembered /\ saved' = remembered
End    == stage # "down" /\ stage' = "down" /\ remembered' = saved /\ UNCHANGED saved

(* What is promised after harm is NoForeignPicture of StateStore.          *)
Harmed == whole' = FALSE

Next ==
  \/ whole' = whole /\ (Start \/ Call \/ Change \/ Return \/ End)
  \/ Harmed

Spec == Init /\ [][Next]_<<stage, remembered, saved, whole>>
=============================================================================
