------------------------------ MODULE RunqLat ------------------------------
(***************************************************************************)
(* Run queue latency: nd_sched_wakeup, nd_sched_wakeup_new and             *)
(* nd_sched_switch of bpf/networkdoctor.bpf.c, and of the scheduler what   *)
(* decides when they run.  The kernel fires the wakeup of a task and the   *)
(* switch to it under the lock of one run queue, so that of two handlers   *)
(* for the same task one ends before the other begins: each is one step,   *)
(* together with what the scheduler did.                                   *)
(***************************************************************************)
EXTENDS LruMap

CONSTANTS
  Cpus,
  HighRunqlat,  \* nd_config.high_runqlat_us after defaulting
  NsPerUs,      \* 1000 in the source
  MaxClock,     \* bound on time
  MaxWakeups    \* bound on the number of wakeups

ASSUME RunqAssumption ==
  /\ HighRunqlat \in Nat \ {0} /\ NsPerUs \in Nat \ {0}
  /\ MaxClock \in Nat \ {0} /\ MaxWakeups \in Nat
  /\ None \notin Nat

Pids == Keys  \* the tasks, apart from the idle task of each CPU, which has pid 0

VARIABLES
  clock,         \* bpf_ktime_get_ns()
  nd_runq_start, \* the shared LRU map: pid -> time of wakeup
  curr,          \* the task on each CPU, 0 for the idle task
  queued,        \* tasks that wait for a CPU
  dozing,        \* tasks queued or on a CPU that have declared they will sleep
  since,         \* when a queued task was put on the queue
  woken,         \* queued tasks that came from sleep and whose wakeup is in the map
  wakeups,       \* history: wakeups of each task
  kept,          \* history: tasks whose entry a failed delete has left after its sample
  measured,      \* history: samples of each task in nd_runqlat_us_hist, not counting
                 \* those of an entry that was left so
  freshFrom,     \* history: when the latest sample of each task was taken
  last           \* history: the latest sample

schedVars == <<curr, queued, dozing, since, woken>>
histVars == <<wakeups, kept, measured, freshFrom, last>>
vars == <<clock, nd_runq_start, schedVars, histVars>>

NoSample == [pid |-> 0, start |-> 0, now |-> 0, us |-> 0, high |-> FALSE, since |-> 0,
             woken |-> FALSE, before |-> 0, again |-> FALSE]

(* The agent attaches to a system at work, with empty maps. *)
Init ==
  /\ clock = 1
  /\ nd_runq_start = EmptyMap
  /\ curr \in [Cpus -> Pids \cup {0}]
  /\ \A c, d \in Cpus : c # d /\ curr[c] = curr[d] => curr[c] = 0
  /\ queued \in SUBSET {p \in Pids : \A c \in Cpus : curr[c] # p}
  /\ dozing = {}
  /\ since = [p \in Pids |-> 0]
  /\ woken = {}
  /\ wakeups = [p \in Pids |-> 0]
  /\ kept = {}
  /\ measured = [p \in Pids |-> 0]
  /\ freshFrom = [p \in Pids |-> 0]
  /\ last = NoSample

Running(p) == \E c \in Cpus : curr[c] = p
Asleep(p) == ~Running(p) /\ p \notin queued

Tick ==
  /\ clock < MaxClock
  /\ clock' = clock + 1
  /\ UNCHANGED <<nd_runq_start, schedVars, histVars>>

(* A task declares that it will sleep; until it is switched out a wakeup   *)
(* still finds it on the queue or on its CPU.                              *)
Doze(p) ==
  /\ Running(p) /\ p \notin dozing
  /\ dozing' = dozing \cup {p}
  /\ UNCHANGED <<clock, nd_runq_start, curr, queued, since, woken, histVars>>

-----------------------------------------------------------------------------
(* nd_sched_wakeup_common. *)
Stamp(m, pid) == LruUpdate(m, pid, clock)

(* A task is woken: from sleep, at its creation, or out of a doze. *)
Wakeup(p) ==
  /\ Asleep(p) \/ p \in dozing
  /\ wakeups[p] < MaxWakeups
  /\ wakeups' = [wakeups EXCEPT ![p] = @ + 1]
  /\ nd_runq_start' \in Stamp(nd_runq_start, p)
  /\ kept' = IF nd_runq_start'[p] = clock THEN kept \ {p} ELSE kept
  /\ IF Asleep(p)
       THEN /\ queued' = queued \cup {p}
            /\ since' = [since EXCEPT ![p] = clock]
            /\ woken' = IF nd_runq_start'[p] = clock THEN woken \cup {p} ELSE woken
       ELSE UNCHANGED <<queued, since, woken>>
  /\ dozing' = dozing \ {p}
  /\ UNCHANGED <<clock, curr, measured, freshFrom, last>>

(* (now - *start) / 1000 *)
RunqlatUs(now, start) == (now - start) \div NsPerUs

IsHigh_Above(us) == us > HighRunqlat
IsHigh(us) == us >= HighRunqlat

(* What nd_sched_switch does about the task switched to. *)
SchedSwitch_NoDelete(next) ==
  LET start == nd_runq_start[next]
      us == RunqlatUs(clock, start)
  IN  /\ UNCHANGED <<nd_runq_start, kept>>
      /\ IF next # 0 /\ start # None /\ clock > start
           THEN /\ measured' = [measured EXCEPT ![next] = @ + 1]
                /\ freshFrom' = [freshFrom EXCEPT ![next] = clock]
                /\ last' = [pid |-> next, start |-> start, now |-> clock, us |-> us,
                            high |-> IsHigh(us), since |-> since[next],
                            woken |-> next \in woken, before |-> freshFrom[next],
                            again |-> FALSE]
           ELSE UNCHANGED <<measured, freshFrom, last>>
SchedSwitch(next) ==
  LET start == nd_runq_start[next]
      us == RunqlatUs(clock, start)
  IN  IF next = 0 \/ start = None
        THEN UNCHANGED <<nd_runq_start, kept, measured, freshFrom, last>>
        ELSE /\ nd_runq_start' \in LruDelete(nd_runq_start, next)
             /\ IF clock > start
                  THEN /\ kept' = IF nd_runq_start'[next] = None THEN kept \ {next}
                                                               ELSE kept \cup {next}
                       /\ measured' = [measured EXCEPT ![next] =
                                        IF next \in kept THEN @ ELSE @ + 1]
                       /\ freshFrom' = [freshFrom EXCEPT ![next] = clock]
                       /\ last' = [pid |-> next, start |-> start, now |-> clock,
                                   us |-> us, high |-> IsHigh(us), since |-> since[next],
                                   woken |-> next \in woken, before |-> freshFrom[next],
                                   again |-> next \in kept]
                  ELSE UNCHANGED <<kept, measured, freshFrom, last>>

(* A CPU goes from one task to another.  The one it leaves sleeps, if it   *)
(* has said so and is not preempted, or waits for its next turn.           *)
Switch(c, next) ==
  LET prev == curr[c]
      sleeps == prev = 0 \/ prev \in dozing
  IN  /\ next \in queued \cup {0} /\ next # prev
      /\ curr' = [curr EXCEPT ![c] = next]
      /\ \/ /\ sleeps
            /\ queued' = queued \ {next}
            /\ dozing' = dozing \ {prev}
            /\ UNCHANGED since
         \/ /\ prev # 0 /\ next # 0
            /\ queued' = (queued \ {next}) \cup {prev}
            /\ since' = [since EXCEPT ![prev] = clock]
            /\ UNCHANGED dozing
      /\ woken' = woken \ {next}
      /\ SchedSwitch(next)
      /\ UNCHANGED <<clock, wakeups>>

Next ==
  \/ Tick
  \/ \E p \in Pids : Doze(p) \/ Wakeup(p)
  \/ \E c \in Cpus, next \in Pids \cup {0} : Switch(c, next)

Spec == Init /\ [][Next]_vars

-----------------------------------------------------------------------------
(* Properties.                                                             *)

(***************************************************************************)
(* A wakeup is measured at most once, however often the task is preempted  *)
(* and switched back in before it sleeps again, and also when its entry    *)
(* was evicted or never made; and the intervals measured for a task do not *)
(* overlap: none begins before the previous one ended.  Only an entry      *)
(* whose delete has failed is measured again, until a wakeup overwrites    *)
(* it.                                                                     *)
(***************************************************************************)
EachWakeupMeasuredOnce ==
  /\ \A p \in Pids : measured[p] <= wakeups[p]
  /\ last.again \/ last.before <= last.start

(***************************************************************************)
(* For a task that was woken from sleep the sample is the time it waited   *)
(* for a CPU, to the microsecond, and there is a high-runqlat event        *)
(* exactly if it waited for the threshold or longer.                       *)
(***************************************************************************)
SleeperSampleIsExact ==
  last.woken =>
    LET waited == last.now - last.since
    IN  /\ waited - last.us * NsPerUs \in 0..(NsPerUs - 1)
        /\ last.high <=> waited >= HighRunqlat * NsPerUs
=============================================================================
