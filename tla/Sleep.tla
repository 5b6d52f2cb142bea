------------------------------- MODULE Sleep -------------------------------
(***************************************************************************)
(* The sleep device of c/sleep.c: dl is a delta list, each sleeper's tick  *)
(* counting from the wake-up of the sleeper before it.                     *)
(***************************************************************************)
EXTENDS Sem

CONSTANTS
  TICK_SPLIT,   \* milliseconds per timer interrupt
  UINT_MAX      \* largest value of the unsigned tick field

ASSUME SleepAssumption ==
  /\ TICK_SPLIT \in Nat \ {0}
  /\ UINT_MAX \in Nat \ {0}

\* Unsigned arithmetic of the tick field.
Wrapped(n) == (n + UINT_MAX + 1) % (UINT_MAX + 1)

\* Fault: a sleep is rounded down.
TicksOf_Down(ms) == ms \div TICK_SPLIT

\* The interrupts a sleep of ms milliseconds lasts, rounded up.
TicksOf(ms) == (ms \div TICK_SPLIT) + (IF ms % TICK_SPLIT = 0 THEN 0 ELSE 1)

\* The sum of the ticks of the first n members of a chain of sleepers.
TicksBefore(k, chain, n) ==
  LET sum[j \in 0 .. Len(chain)] ==
        IF j = 0 THEN 0 ELSE sum[j - 1] + k.tick[chain[j]]
  IN  sum[n]

(***************************************************************************)
(* sleep(pcb, milliseconds).  p goes before the first sleeper that wakes   *)
(* later, which then counts from p.  In front of the first sleeper both    *)
(* directions are linked; in front of a later one only p's own pointers    *)
(* are set, so neither neighbour leads to p.                               *)
(***************************************************************************)
sleep(k, p, ms) ==
  LET t == TicksOf(ms)
      list == Chain(k.next, k.dl)
      later == {j \in 1 .. Len(list) : t < TicksBefore(k, list, j)}
      j == Least(later)
      q == list[j]
      n == Len(list)
      asleep == [k EXCEPT !.state[p] = "SLEEP", !.tick[p] = t,
                          !.next[p] = NULL, !.prev[p] = NULL]
      delta == t - TicksBefore(k, list, j - 1)
      ticks == [asleep.tick EXCEPT ![p] = delta]
  IN  IF k.dl = NULL THEN [asleep EXCEPT !.dl = p]
      ELSE IF IsCyclic(list) THEN [asleep EXCEPT !.fault = "loop"]
      ELSE IF later = {}
      THEN [asleep EXCEPT !.tick[p] = t - TicksBefore(k, list, n),
                          !.next[list[n]] = p, !.prev[p] = list[n]]
      ELSE LET placed == [asleep EXCEPT !.tick = [ticks EXCEPT ![q] = ticks[q] - delta],
                                        !.next[p] = q]
           IN  IF k.prev[q] = NULL
               THEN [placed EXCEPT !.dl = p, !.prev[q] = p]
               ELSE [placed EXCEPT !.prev[p] = k.prev[q]]

\* Fault: dl is not advanced.
wakeFirst_StillListed(k) ==
  IF k.dl = NULL THEN k
  ELSE IF k.tick[k.dl] # 0 THEN k
  ELSE ready(k, k.dl)

\* One turn of the loop in tick(): the first sleeper is due and gets ready.
wakeFirst(k) ==
  LET p == k.dl
      q == k.next[p]
      woken == [ready(k, p) EXCEPT !.dl = q]
  IN  IF p = NULL THEN k
      ELSE IF k.tick[p] # 0 THEN k
      ELSE IF q = NULL THEN woken
      ELSE [woken EXCEPT !.prev[q] = NULL]

\* The turns of the loop, as many as there are slots.
turns(k) ==
  LET turn[n \in 0 .. PCB_TABLE_SIZE] ==
        IF n = 0 THEN [k EXCEPT !.tick[k.dl] = Wrapped(@ - 1)]
        ELSE wakeFirst(turn[n - 1])
  IN  turn[PCB_TABLE_SIZE]

(***************************************************************************)
(* tick(): the first sleeper comes one interrupt nearer and all that are   *)
(* due get ready.  If one still is due after as many turns as there are    *)
(* slots, the list leads back to who was in it before: the loop goes on.   *)
(* It ends by storing to the prev of a null dl, an address below the       *)
(* kernel's data; the store is not modelled.                               *)
(***************************************************************************)
tick(k) ==
  LET after == turns(k)
  IN  IF k.dl = NULL THEN k
      ELSE IF after.dl # NULL /\ after.tick[after.dl] = 0 THEN [after EXCEPT !.fault = "loop"]
      ELSE after

\* Fault: the wait of the sleeper that leaves is not passed on.
removeFromSleepQueue_WaitLost(k, p) ==
  LET before == k.prev[p]
      after == k.next[p]
      back == Chain(k.prev, before)
      left == [k EXCEPT !.tick[p] = Wrapped(@ + TicksBefore(k, back, Len(back)))]
  IN  IF IsCyclic(back) THEN [k EXCEPT !.fault = "loop"]
      ELSE IF before = NULL THEN [left EXCEPT !.dl = after]
      ELSE [left EXCEPT !.next[before] = after]

(***************************************************************************)
(* removeFromSleepQueue: a sleeper leaves because of a signal.  Its tick   *)
(* becomes what is left of its sleep; its own share of the wait passes to  *)
(* the next sleeper.  The next sleeper's prev still points to it.          *)
(***************************************************************************)
removeFromSleepQueue(k, p) ==
  LET before == k.prev[p]
      after == k.next[p]
      back == Chain(k.prev, before)
      left == [k EXCEPT !.tick[p] = Wrapped(@ + TicksBefore(k, back, Len(back)))]
  IN  IF IsCyclic(back) THEN [k EXCEPT !.fault = "loop"]
      ELSE IF before = NULL /\ after = NULL THEN [left EXCEPT !.dl = NULL]
      ELSE IF before = NULL
      THEN [left EXCEPT !.dl = after, !.tick[after] = Wrapped(@ + k.tick[p])]
      ELSE IF after = NULL THEN [left EXCEPT !.next[before] = NULL]
      ELSE [left EXCEPT !.tick[after] = Wrapped(@ + k.tick[p]), !.next[before] = after]
=============================================================================
