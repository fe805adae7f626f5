--------------------------- MODULE ClickResolver ---------------------------
(***************************************************************************)
(* driver/plugin/resolver.go for one key: presses and releases become      *)
(* single, double and long presses.  dispatchLoop handles one event at a   *)
(* time; a timer that fires runs in a goroutine of its own, which waits    *)
(* for mu, and a timer that has fired cannot be stopped any more.  A click *)
(* is a release that ends a press; clicks are numbered, to say which ones  *)
(* a signal is about.                                                      *)
(***************************************************************************)
EXTENDS Integers, FiniteSets

CONSTANTS
  MaxClicks, MaxPresses,     \* bounds: releases that end a press, press events
  NoClick                    \* no click, no timer

ASSUME ClickAssumption ==
  MaxClicks \in Nat /\ MaxPresses \in Nat /\ NoClick \notin Nat

VARIABLES
  down, awaitingSecond, pendingTimer,    \* keyClickState (down is pressed), under mu
  timers,     \* each timer, by the click that armed it: how far it is
  emitting,   \* signals decided under mu and not yet broadcast
  emitted,    \* signals broadcast
  clicks, downs,     \* events so far
  awaited,    \* the click that awaitingSecond is about
  prompt      \* the schedule: a fired timer runs and emits before the next event

state == <<down, awaitingSecond, pendingTimer, awaited, prompt>>
clickVars == <<state, timers, emitting, emitted, clicks, downs>>

Clicks  == 1 .. MaxClicks
Loop    == 0     \* dispatchLoop, among those that emit a signal
Signals == [name : {"single", "double", "long"}, of : SUBSET Clicks, by : {Loop} \union Clicks]

(* The loop handles the next event after it has broadcast what the last    *)
(* one decided.                                                            *)
LoopFree ==
  /\ \A s \in emitting : s.by # Loop
  /\ prompt => emitting = {} /\ \A c \in Clicks : timers[c] # "fired"

Emit(name, of, by) == emitting' = emitting \union {[name |-> name, of |-> of, by |-> by]}

StopPending == [c \in Clicks |-> IF c = pendingTimer /\ timers[c] = "armed" THEN "stopped"
                                 ELSE timers[c]]

(* A press ends the wait for a second one; the pair decides, not the timer. *)
Press ==
  /\ LoopFree /\ downs < MaxPresses
  /\ downs' = downs + 1 /\ down' = TRUE
  /\ timers' = StopPending /\ pendingTimer' = NoClick
  /\ UNCHANGED <<awaitingSecond, awaited, prompt, emitting, emitted, clicks>>

(* A release without a press is ignored.  Whether one is long is decided   *)
(* by the board's timestamps.                                              *)
Release ==
  /\ LoopFree /\ down /\ clicks < MaxClicks
  /\ down' = FALSE /\ clicks' = clicks + 1
  /\ UNCHANGED <<downs, emitted, prompt>>

LongReleaseSwallowed ==
  /\ Release
  /\ awaitingSecond' = FALSE /\ awaited' = NoClick
  /\ IF awaitingSecond THEN UNCHANGED emitting ELSE Emit("long", {clicks + 1}, Loop)
  /\ UNCHANGED <<pendingTimer, timers>>
LongRelease ==
  /\ Release
  /\ awaitingSecond' = FALSE /\ awaited' = NoClick
  /\ Emit("long", {clicks + 1}, Loop)
  /\ UNCHANGED <<pendingTimer, timers>>

SecondRelease ==
  /\ Release /\ awaitingSecond
  /\ awaitingSecond' = FALSE /\ awaited' = NoClick
  /\ Emit("double", {awaited, clicks + 1}, Loop)
  /\ UNCHANGED <<pendingTimer, timers>>

FirstRelease ==
  /\ Release /\ ~awaitingSecond
  /\ awaitingSecond' = TRUE /\ awaited' = clicks + 1
  /\ pendingTimer' = clicks + 1 /\ timers' = [timers EXCEPT ![clicks + 1] = "armed"]
  /\ UNCHANGED emitting

(* The window passes, and the function of the timer starts.                *)
Fire(c) ==
  /\ timers[c] = "armed" /\ timers' = [timers EXCEPT ![c] = "fired"]
  /\ UNCHANGED <<state, emitting, emitted, clicks, downs>>

(* The function has mu.  It asks whether any click waits, not which one.   *)
TimerRunsBlind(c) ==
  /\ timers[c] = "fired" /\ timers' = [timers EXCEPT ![c] = "over"]
  /\ awaitingSecond' = FALSE /\ pendingTimer' = NoClick /\ awaited' = NoClick
  /\ Emit("single", {IF awaited = NoClick THEN c ELSE awaited}, c)
  /\ UNCHANGED <<down, prompt, emitted, clicks, downs>>
TimerRuns(c) ==
  /\ timers[c] = "fired" /\ timers' = [timers EXCEPT ![c] = "over"]
  /\ IF awaitingSecond
     THEN /\ awaitingSecond' = FALSE /\ pendingTimer' = NoClick /\ awaited' = NoClick
          /\ Emit("single", {awaited}, c)
     ELSE UNCHANGED <<awaitingSecond, pendingTimer, awaited, emitting>>
  /\ UNCHANGED <<down, prompt, emitted, clicks, downs>>

(* The broadcast of a signal, with mu free.                                *)
BroadcastSignal ==
  \E s \in emitting :
    /\ emitting' = emitting \ {s} /\ emitted' = emitted \union {s}
    /\ UNCHANGED <<state, timers, clicks, downs>>

ClickInit ==
  /\ down = FALSE /\ awaitingSecond = FALSE /\ pendingTimer = NoClick /\ awaited = NoClick
  /\ timers = [c \in Clicks |-> "none"] /\ emitting = {} /\ emitted = {}
  /\ clicks = 0 /\ downs = 0 /\ prompt \in BOOLEAN

Timer == \E c \in Clicks : Fire(c) \/ TimerRuns(c)

ClickNext == Press \/ LongRelease \/ SecondRelease \/ FirstRelease \/ Timer \/ BroadcastSignal

(* Timers fire and their goroutines run; nobody has to press a key.        *)
ClickSpec == ClickInit /\ [][ClickNext]_clickVars /\ WF_clickVars(Timer) /\ WF_clickVars(BroadcastSignal)

-----------------------------------------------------------------------------
ClickTypeOK ==
  /\ down \in BOOLEAN /\ awaitingSecond \in BOOLEAN
  /\ pendingTimer \in Clicks \union {NoClick} /\ awaited \in Clicks \union {NoClick}
  /\ timers \in [Clicks -> {"none", "armed", "stopped", "fired", "over"}]
  /\ emitting \subseteq Signals /\ emitted \subseteq Signals
  /\ clicks \in 0 .. MaxClicks /\ downs \in 0 .. MaxPresses
  /\ (awaitingSecond <=> awaited # NoClick) /\ prompt \in BOOLEAN

Decided == emitting \union emitted

(* No click counts twice: it is in at most one signal, and in none while   *)
(* it waits for the window to pass (driver/README.md, "Click-pattern       *)
(* resolution"), however late a timer runs.  When fired timers run before  *)
(* the next event, a single press comes from the timer that its own click  *)
(* started, after the whole window ("once the window elapses").            *)
OwnTimerDecides == prompt => \A s \in Decided : s.name = "single" => s.of = {s.by}
ClicksCountOnce ==
  /\ ClickTypeOK /\ OwnTimerDecides
  /\ \A s, t \in Decided : s # t => s.of \intersect t.of = {}
  /\ \A s \in Decided : awaited \notin s.of

(* Every click comes to its end for good, however late the timers run: it  *)
(* is in a signal; or the press after it got long, and that was signalled  *)
(* instead (a short click before a long press is in no signal, as its      *)
(* release clears awaitingSecond and emits the long press alone); or the   *)
(* press after it, if any, is held to this day.                            *)
Answered(c)       == \E s \in emitted : c \in s.of
LongPressAfter(c) == \E s \in emitted : s.name = "long" /\ s.of = {c + 1}
StillHeld(c)      == down /\ clicks = c
ClicksAreAnswered ==
  \A c \in Clicks :
    clicks = c ~> [](Answered(c) \/ LongPressAfter(c) \/ StillHeld(c))

(* Once a second press arrived inside the window, the pair decides between *)
(* single and double, not the pending timer (comment in handleEvent): the  *)
(* wait of a pressed key ends with its release.                            *)
PairDecides == [][awaitingSecond /\ down /\ ~awaitingSecond' => clicks' # clicks]_clickVars
=============================================================================
