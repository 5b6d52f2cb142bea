------------------------------ MODULE Sleeping ------------------------------
(***************************************************************************)
(* How long a sleep lasts.  The kernel of module Kernel, with the time     *)
(* each process asked for kept beside the delta list that encodes it.      *)
(***************************************************************************)
EXTENDS Scheduling

VARIABLES
  due,         \* the interrupts left until a process is to wake, 0 if awake
  disturbed    \* a sleep was requested that the delta list does not record

svars == << k, due, disturbed >>

\* The fewest interrupts that take at least ms milliseconds.
Asked(ms) == CHOOSE n \in 0 .. ms : /\ n * TICK_SPLIT >= ms
                                    /\ \A m \in 0 .. n - 1 : m * TICK_SPLIT < ms

Sleepers == {p \in Slots : k.state[p] = "SLEEP"}

(***************************************************************************)
(* The two requests sleep() cannot record: no time at all, which the next  *)
(* tick counts down from zero, and a time between those of two sleepers,   *)
(* in front of which p is placed without a pointer to it.                  *)
(***************************************************************************)
Unrecorded(t) ==
  \/ t = 0
  \/ \E a, b \in Sleepers : due[a] <= t /\ t < due[b]

SInit == Init /\ due = [p \in Slots |-> 0] /\ disturbed = FALSE

FallAsleep(ms) == /\ SysSleep(ms)
                  /\ due' = [due EXCEPT ![k.pcb] = Asked(ms)]
                  /\ disturbed' = (disturbed \/ Unrecorded(Asked(ms)))

Elapse == /\ TimerInt
          /\ due' = [p \in Slots |-> IF due[p] = 0 THEN 0 ELSE due[p] - 1]
          /\ UNCHANGED disturbed

SNext == \/ \E ms \in Millis : FallAsleep(ms)
         \/ Elapse
         \/ OtherCall /\ UNCHANGED << due, disturbed >>

SSpec == SInit /\ [][SNext]_svars
-----------------------------------------------------------------------------
(***************************************************************************)
(* Until a request it cannot record, the delta list of sleep() and tick()  *)
(* holds every sleeper, and the ticks up to a sleeper add up to the time   *)
(* it has left: nobody wakes early, late or never, whoever else falls      *)
(* asleep or wakes in between.                                             *)
(***************************************************************************)
WakesOnTime ==
  ~ disturbed =>
    LET list == Chain(k.next, k.dl) IN
    /\ ~ IsCyclic(list)
    /\ ToSet(list) = {p \in Slots : due[p] > 0}
    /\ ToSet(list) = Sleepers
    /\ \A n \in 1 .. Len(list) : TicksBefore(k, list, n) = due[list[n]]

(***************************************************************************)
(* Even after such a request, the delta list is a list of sleeping         *)
(* processes: tick() never makes ready a process that is not asleep, so a  *)
(* sleeper that is lost costs the others their timing, not the ready queue *)
(* its shape.                                                              *)
(***************************************************************************)
WakesOnlySleepers ==
  LET list == Chain(k.next, k.dl) IN
  ~ IsCyclic(list) /\ ToSet(list) \subseteq Sleepers

(***************************************************************************)
(* h/xeroskernel.h:208 of sleep(): "adds the process into a sleep list".   *)
(***************************************************************************)
EverySleeperListed == Sleepers \subseteq ToSet(Chain(k.next, k.dl))
=============================================================================
