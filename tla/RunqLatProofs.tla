--------------------------- MODULE RunqLatProofs ---------------------------
(***************************************************************************)
(* What RunqLat guarantees for any number of tasks and CPUs, any map size  *)
(* and any threshold.                                                      *)
(*                                                                         *)
(* That a wakeup is measured once rests on what an entry of the map stands *)
(* for (EntryIsWakeup); that the sample of a task woken from sleep is the  *)
(* time it waited rests on the scheduler: such a task is on the queue and  *)
(* nowhere else, and has not declared that it will sleep, so that nothing  *)
(* stamps it again before it runs (Queue, WokenEntry).                     *)
(***************************************************************************)
EXTENDS RunqLat, TLAPS

-----------------------------------------------------------------------------
(* What an update of an LruMap can do, and ns / 1000.                      *)

(* bpf_map_update_elem leaves every entry as it was, takes it away, or,    *)
(* for the key updated, replaces it by the new value.                      *)
LEMMA UpdateEffect ==
  ASSUME NEW m, DOMAIN m = Keys, NEW k \in Keys, NEW v, NEW n \in LruUpdate(m, k, v),
         NEW j \in Keys
  PROVE  n[j] = m[j] \/ n[j] = None \/ (j = k /\ n[j] = v)
BY DEF LruUpdate, Present

(* It keeps a map of entries a map of entries. *)
LEMMA UpdateType ==
  ASSUME NEW S, NEW m \in [Keys -> S \cup {None}], NEW k \in Keys, NEW v \in S,
         NEW n \in LruUpdate(m, k, v)
  PROVE  n \in [Keys -> S \cup {None}]
<1>1. CASE n = m
  BY <1>1
<1>2. CASE n = [m EXCEPT ![k] = v]
  BY <1>2
<1>3. CASE \E e \in Keys : n = [m EXCEPT ![k] = v, ![e] = None]
  BY <1>3
<1> QED
  BY <1>1, <1>2, <1>3 DEF LruUpdate, Present

(* A delete takes away the entry of its key and no other, if it does not   *)
(* fail (bpf_map_delete_elem).                                             *)
LEMMA DeleteEffect ==
  ASSUME NEW S, NEW m \in [Keys -> S \cup {None}], NEW k \in Keys, NEW n \in LruDelete(m, k)
  PROVE  /\ n \in [Keys -> S \cup {None}]
         /\ n[k] = None \/ n = m
         /\ \A j \in Keys \ {k} : n[j] = m[j]
BY DEF LruDelete, LruWithout

(* A duration in microseconds is short of the duration by less than a      *)
(* microsecond.                                                            *)
LEMMA DivExact ==
  ASSUME NEW x \in Nat, NEW n \in Nat \ {0}
  PROVE  x \div n \in Nat /\ x - (x \div n) * n \in 0..(n - 1)
OBVIOUS

(* Comparing microseconds with a threshold is comparing nanoseconds. *)
LEMMA DivAtLeast ==
  ASSUME NEW x \in Nat, NEW n \in Nat \ {0}, NEW h \in Nat
  PROVE  x \div n >= h <=> x >= h * n
OBVIOUS

-----------------------------------------------------------------------------
(* The inductive invariant.                                                *)

Typed ==
  /\ clock \in Nat
  /\ nd_runq_start \in [Pids -> Nat \cup {None}]
  /\ curr \in [Cpus -> Pids \cup {0}]
  /\ queued \subseteq Pids /\ dozing \subseteq Pids /\ kept \subseteq Pids
  /\ since \in [Pids -> Nat]
  /\ wakeups \in [Pids -> Nat] /\ measured \in [Pids -> Nat] /\ freshFrom \in [Pids -> Nat]

(* A task is on one CPU, or queued, or neither; one that was woken from    *)
(* sleep and has not run since is queued and means to stay.                *)
Queue ==
  /\ \A c, d \in Cpus : c # d /\ curr[c] = curr[d] => curr[c] = 0
  /\ \A c \in Cpus : curr[c] \notin queued
  /\ woken \subseteq queued
  /\ woken \cap dozing = {}

(* An entry is the time of a wakeup, and unless a delete has failed, of    *)
(* one that was not measured yet and is no earlier than the last sample.   *)
EntryIsWakeup ==
  \A p \in Pids :
    /\ freshFrom[p] <= clock
    /\ measured[p] <= wakeups[p]
    /\ nd_runq_start[p] # None =>
         /\ nd_runq_start[p] <= clock
         /\ p \notin kept => /\ freshFrom[p] <= nd_runq_start[p]
                             /\ measured[p] < wakeups[p]

(* The entry of a task woken from sleep is the time it was queued. *)
WokenEntry ==
  \A p \in woken : nd_runq_start[p] # None => nd_runq_start[p] = since[p]

IInv ==
  /\ Typed
  /\ Queue
  /\ EntryIsWakeup
  /\ WokenEntry
  /\ last.again \/ last.before <= last.start
  /\ SleeperSampleIsExact

-----------------------------------------------------------------------------
(* Steps that leave the sample alone.                                      *)

(* The agent starts with empty maps. *)
LEMMA InitIInv == Init => IInv
<1> SUFFICES ASSUME Init PROVE IInv
  OBVIOUS
<1>1. Typed
  BY DEF Init, Typed, EmptyMap, Pids
<1>2. Queue
  BY DEF Init, Queue
<1>3. EntryIsWakeup /\ WokenEntry
  BY DEF Init, EntryIsWakeup, WokenEntry, EmptyMap, Pids
<1>4. (last.again \/ last.before <= last.start) /\ SleeperSampleIsExact
  BY DEF Init, SleeperSampleIsExact, NoSample
<1> QED
  BY <1>1, <1>2, <1>3, <1>4 DEF IInv

(* Time passes. *)
LEMMA TickStep == IInv /\ Tick => IInv'
BY RunqAssumption
DEF IInv, Tick, schedVars, histVars, Typed, Queue, EntryIsWakeup, WokenEntry,
    SleeperSampleIsExact

(* A task that runs is not on the queue, so a doze concerns no sleeper. *)
LEMMA DozeStep == ASSUME NEW p \in Pids PROVE IInv /\ Doze(p) => IInv'
BY DEF IInv, Doze, Running, histVars, Typed, Queue, EntryIsWakeup, WokenEntry,
       SleeperSampleIsExact

(* nd_sched_wakeup makes an entry for one more wakeup of its task, or      *)
(* none, and may cost another task its entry.                              *)
LEMMA WakeupStep == ASSUME NEW p \in Pids PROVE IInv /\ Wakeup(p) => IInv'
<1> SUFFICES ASSUME IInv, Wakeup(p) PROVE IInv'
  OBVIOUS
<1>1. /\ nd_runq_start' \in LruUpdate(nd_runq_start, p, clock)
      /\ nd_runq_start \in [Keys -> Nat \cup {None}] /\ clock \in Nat /\ p \in Keys
  BY DEF IInv, Typed, Wakeup, Stamp, Pids
<1>2. nd_runq_start' \in [Pids -> Nat \cup {None}]
  BY <1>1, UpdateType DEF Pids
<1>3. \A q \in Pids : \/ nd_runq_start'[q] = nd_runq_start[q]
                      \/ nd_runq_start'[q] = None
                      \/ q = p /\ nd_runq_start'[q] = clock
  BY <1>1, UpdateEffect DEF Pids
<1>4. Typed'
  <2>1. /\ wakeups' \in [Pids -> Nat] /\ since' \in [Pids -> Nat]
        /\ queued' \subseteq Pids /\ kept' \subseteq Pids
    BY DEF IInv, Typed, Wakeup
  <2> QED
    BY <1>2, <2>1 DEF IInv, Typed, Wakeup
<1>5. Queue'
  BY DEF IInv, Typed, Queue, Wakeup, Asleep, Running
<1>6. EntryIsWakeup'
  BY <1>3 DEF IInv, Typed, EntryIsWakeup, Wakeup
<1>7. WokenEntry'
  <2>1. ASSUME NEW q \in woken', nd_runq_start'[q] # None
        PROVE  nd_runq_start'[q] = since'[q]
    <3>1. q \in Pids
      BY <2>1 DEF IInv, Typed, Queue, Wakeup
    <3>2. CASE q = p /\ Asleep(p)
      <4>1. q \notin woken
        BY <3>2 DEF Asleep, IInv, Queue
      <4> QED
        BY <2>1, <3>1, <3>2, <4>1 DEF Wakeup, IInv, Typed
    <3>3. CASE q = p /\ ~Asleep(p)
      BY <2>1, <3>3 DEF Wakeup, IInv, Queue
    <3>4. CASE q # p
      <4>1. q \in woken /\ since'[q] = since[q]
        BY <2>1, <3>1, <3>4 DEF Wakeup, IInv, Typed
      <4> QED
        BY <2>1, <3>1, <3>4, <4>1, <1>3 DEF IInv, WokenEntry
    <3> QED
      BY <3>2, <3>3, <3>4
  <2> QED
    BY <2>1 DEF WokenEntry
<1>8. last' = last
  BY DEF Wakeup
<1> QED
  BY <1>4, <1>5, <1>6, <1>7, <1>8 DEF IInv, SleeperSampleIsExact

-----------------------------------------------------------------------------
(* A switch.                                                               *)

(* The scheduler's part of a switch. *)
LEMMA SwitchQueue ==
  ASSUME NEW c \in Cpus, NEW next \in Pids \cup {0}, IInv, Switch(c, next)
  PROVE  /\ Queue'
         /\ curr' \in [Cpus -> Pids \cup {0}]
         /\ queued' \subseteq Pids /\ dozing' \subseteq Pids
         /\ since' \in [Pids -> Nat]
         /\ woken' = woken \ {next}
         /\ \A p \in woken : since'[p] = since[p]
<1>1. /\ curr[c] \in Pids \cup {0} /\ next \in queued \cup {0} /\ next # curr[c]
      /\ curr' = [curr EXCEPT ![c] = next]
      /\ woken' = woken \ {next}
  BY DEF Switch, IInv, Typed
<1>2. 0 \notin Pids
  BY KeysAssumption DEF Pids
<1>3. CASE /\ queued' = queued \ {next}
           /\ dozing' = dozing \ {curr[c]}
           /\ UNCHANGED since
  BY <1>1, <1>2, <1>3 DEF IInv, Typed, Queue
<1>4. CASE /\ curr[c] # 0 /\ next # 0
           /\ queued' = (queued \ {next}) \cup {curr[c]}
           /\ since' = [since EXCEPT ![curr[c]] = clock]
           /\ UNCHANGED dozing
  BY <1>1, <1>2, <1>4 DEF IInv, Typed, Queue
<1> QED
  BY <1>3, <1>4 DEF Switch

(* The sample nd_sched_switch takes of a task, if the clock has moved      *)
(* since its wakeup.                                                       *)
LEMMA SampleIsSound ==
  ASSUME IInv, NEW p \in Pids, nd_runq_start[p] # None, clock > nd_runq_start[p],
         NEW s,
         s = [pid |-> p, start |-> nd_runq_start[p], now |-> clock,
              us |-> RunqlatUs(clock, nd_runq_start[p]),
              high |-> IsHigh(RunqlatUs(clock, nd_runq_start[p])), since |-> since[p],
              woken |-> p \in woken, before |-> freshFrom[p], again |-> p \in kept]
  PROVE  /\ s.again \/ s.before <= s.start
         /\ s.woken => LET waited == s.now - s.since
                       IN  /\ waited - s.us * NsPerUs \in 0..(NsPerUs - 1)
                           /\ s.high <=> waited >= HighRunqlat * NsPerUs
<1>1. s.again \/ s.before <= s.start
  BY DEF IInv, EntryIsWakeup
<1>2. ASSUME s.woken
      PROVE  /\ (s.now - s.since) - s.us * NsPerUs \in 0..(NsPerUs - 1)
             /\ s.high <=> s.now - s.since >= HighRunqlat * NsPerUs
  <2>1. nd_runq_start[p] = since[p]
    BY <1>2 DEF IInv, WokenEntry
  <2> DEFINE x == clock - since[p]
  <2>2. x \in Nat /\ s.now - s.since = x /\ s.us = x \div NsPerUs
    BY <2>1 DEF IInv, Typed, RunqlatUs
  <2>3. NsPerUs \in Nat \ {0} /\ HighRunqlat \in Nat
    BY RunqAssumption
  <2>4. x - (x \div NsPerUs) * NsPerUs \in 0..(NsPerUs - 1)
    BY <2>2, <2>3, DivExact
  <2>5. x \div NsPerUs >= HighRunqlat <=> x >= HighRunqlat * NsPerUs
    BY <2>2, <2>3, DivAtLeast
  <2>6. s.high = (x \div NsPerUs >= HighRunqlat)
    BY <2>1 DEF IsHigh, RunqlatUs
  <2> HIDE DEF x
  <2> QED
    BY <2>2, <2>4, <2>5, <2>6
<1> QED
  BY <1>1, <1>2

(* What nd_sched_switch leaves behind: no new entry, the wakeup of the     *)
(* task measured at most once, the new sample sound.                       *)
LEMMA SwitchSample ==
  ASSUME NEW next \in Pids \cup {0}, IInv, SchedSwitch(next), UNCHANGED <<clock, wakeups>>
  PROVE  /\ nd_runq_start' \in [Pids -> Nat \cup {None}]
         /\ \A p \in Pids : nd_runq_start'[p] # None
                              => nd_runq_start'[p] = nd_runq_start[p]
         /\ measured' \in [Pids -> Nat] /\ freshFrom' \in [Pids -> Nat]
         /\ kept' \subseteq Pids
         /\ EntryIsWakeup'
         /\ last'.again \/ last'.before <= last'.start
         /\ SleeperSampleIsExact'
<1>1. CASE next = 0
  BY <1>1, KeysAssumption DEF SchedSwitch, IInv, Typed, EntryIsWakeup, SleeperSampleIsExact,
                             Pids
<1>2. CASE next \in Pids /\ nd_runq_start[next] = None
  BY <1>2 DEF SchedSwitch, IInv, Typed, EntryIsWakeup, SleeperSampleIsExact
<1>3. CASE next \in Pids /\ nd_runq_start[next] # None
  <2>0. next # 0 /\ next \in Keys /\ nd_runq_start \in [Keys -> Nat \cup {None}]
    BY <1>3, KeysAssumption DEF Pids, IInv, Typed
  <2>1. nd_runq_start' \in LruDelete(nd_runq_start, next)
    BY <1>3, <2>0 DEF SchedSwitch
  <2>2. /\ nd_runq_start' \in [Pids -> Nat \cup {None}]
        /\ nd_runq_start'[next] = None \/ nd_runq_start' = nd_runq_start
        /\ \A p \in Pids \ {next} : nd_runq_start'[p] = nd_runq_start[p]
    BY <2>0, <2>1, DeleteEffect DEF Pids
  <2>3. CASE clock > nd_runq_start[next]
    <3>1. /\ measured' = [measured EXCEPT ![next] = IF next \in kept THEN @ ELSE @ + 1]
          /\ kept' = IF nd_runq_start'[next] = None THEN kept \ {next} ELSE kept \cup {next}
          /\ freshFrom' = [freshFrom EXCEPT ![next] = clock]
          /\ last' = [pid |-> next, start |-> nd_runq_start[next], now |-> clock,
                      us |-> RunqlatUs(clock, nd_runq_start[next]),
                      high |-> IsHigh(RunqlatUs(clock, nd_runq_start[next])),
                      since |-> since[next],
                      woken |-> next \in woken, before |-> freshFrom[next],
                      again |-> next \in kept]
      BY <1>3, <2>0, <2>3 DEF SchedSwitch
    <3>2. (last'.again \/ last'.before <= last'.start) /\ SleeperSampleIsExact'
      BY <1>3, <2>3, <3>1, SampleIsSound DEF SleeperSampleIsExact
    <3>3. /\ measured' \in [Pids -> Nat] /\ freshFrom' \in [Pids -> Nat]
          /\ kept' \subseteq Pids
      BY <1>3, <3>1 DEF IInv, Typed
    <3>4. EntryIsWakeup'
      BY <1>3, <2>2, <3>1 DEF IInv, Typed, EntryIsWakeup
    <3> QED
      BY <2>2, <3>2, <3>3, <3>4
  <2>4. CASE ~(clock > nd_runq_start[next])
    <3>1. UNCHANGED <<kept, measured, freshFrom, last>>
      BY <1>3, <2>0, <2>4 DEF SchedSwitch
    <3> QED
      BY <2>2, <3>1 DEF IInv, Typed, EntryIsWakeup, SleeperSampleIsExact
  <2> QED
    BY <2>3, <2>4
<1> QED
  BY <1>1, <1>2, <1>3

(* A switch keeps the invariant. *)
LEMMA SwitchStep ==
  ASSUME NEW c \in Cpus, NEW next \in Pids \cup {0}
  PROVE  IInv /\ Switch(c, next) => IInv'
<1> SUFFICES ASSUME IInv, Switch(c, next) PROVE IInv'
  OBVIOUS
<1>1. SchedSwitch(next) /\ UNCHANGED <<clock, wakeups>>
  BY DEF Switch
<1>2. /\ Queue'
      /\ curr' \in [Cpus -> Pids \cup {0}]
      /\ queued' \subseteq Pids /\ dozing' \subseteq Pids
      /\ since' \in [Pids -> Nat]
      /\ woken' = woken \ {next}
      /\ \A p \in woken : since'[p] = since[p]
  BY SwitchQueue
<1>3. /\ nd_runq_start' \in [Pids -> Nat \cup {None}]
      /\ \A p \in Pids : nd_runq_start'[p] # None
                           => nd_runq_start'[p] = nd_runq_start[p]
      /\ measured' \in [Pids -> Nat] /\ freshFrom' \in [Pids -> Nat]
      /\ kept' \subseteq Pids
      /\ EntryIsWakeup'
      /\ last'.again \/ last'.before <= last'.start
      /\ SleeperSampleIsExact'
  BY <1>1, SwitchSample
<1>4. Typed'
  BY <1>1, <1>2, <1>3 DEF IInv, Typed
<1>5. WokenEntry'
  BY <1>2, <1>3 DEF IInv, Typed, Queue, WokenEntry
<1> QED
  BY <1>2, <1>3, <1>4, <1>5 DEF IInv

-----------------------------------------------------------------------------
(* The theorems.                                                           *)

(* Every step keeps the invariant. *)
LEMMA StepIInv == IInv /\ [Next]_vars => IInv'
<1> SUFFICES ASSUME IInv, [Next]_vars PROVE IInv'
  OBVIOUS
<1>1. CASE UNCHANGED vars
  BY <1>1 DEF vars, schedVars, histVars, IInv, Typed, Queue, EntryIsWakeup, WokenEntry,
              SleeperSampleIsExact
<1>2. CASE Tick
  BY <1>2, TickStep
<1>3. CASE \E p \in Pids : Doze(p) \/ Wakeup(p)
  BY <1>3, DozeStep, WakeupStep
<1>4. CASE \E c \in Cpus, next \in Pids \cup {0} : Switch(c, next)
  BY <1>4, SwitchStep
<1> QED
  BY <1>1, <1>2, <1>3, <1>4 DEF Next

(* It holds in every reachable state. *)
THEOREM RunqInvariance == Spec => []IInv
BY InitIInv, StepIInv, PTL DEF Spec

(* nd_sched_switch measures no wakeup twice, and the intervals it measures *)
(* for a task do not overlap, unless the delete of an entry has failed.    *)
THEOREM WakeupsMeasuredOnce == Spec => []EachWakeupMeasuredOnce
<1>1. IInv => EachWakeupMeasuredOnce
  BY DEF IInv, EntryIsWakeup, EachWakeupMeasuredOnce
<1> QED
  BY <1>1, RunqInvariance, PTL

(* The sample of a task woken from sleep is the time it waited, and its    *)
(* high-runqlat event is decided on that time.                             *)
THEOREM SleeperSampleSound == Spec => []SleeperSampleIsExact
<1>1. IInv => SleeperSampleIsExact
  BY DEF IInv
<1> QED
  BY <1>1, RunqInvariance, PTL
=============================================================================
