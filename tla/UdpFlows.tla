------------------------------ MODULE UdpFlows ------------------------------
(***************************************************************************)
(* UDP flow tracking: the first half of the TC hook (nd_parse_ipv4_udp in  *)
(* bpf/networkdoctor.bpf.c), run by several CPUs at once, and the          *)
(* collection of idle flows in userspace (gcUDPFlows in                    *)
(* internal/bpf/gc.go).                                                    *)
(*                                                                         *)
(* bpf_map_lookup_elem hands the handler a pointer: what it then writes    *)
(* goes to that element, whether or not the map still leads to it, and two *)
(* CPUs that hold the same element write over each other, uv->packets++    *)
(* being a load and a store.  The map therefore holds element numbers, and *)
(* the elements have a life of their own.  The memory of an element is not *)
(* used again while a handler points to it.                                *)
(***************************************************************************)
EXTENDS LruMap, Sequences

CONSTANTS
  Cpus,
  UdpIdle,          \* -udp-idle-timeout, in ns
  LongUdpFlow,      \* nd_config.long_udp_flow_us after defaulting
  EventCooldown,    \* nd_config.event_cooldown_ns after defaulting
  NsPerUs,          \* 1000 in the source
  Word,             \* 2^64 in the source
  MaxClock,         \* bound on time
  MaxPackets        \* bound on the number of UDP packets

ASSUME UdpDurationsAssumption ==
  /\ UdpIdle \in Nat
  /\ LongUdpFlow \in Nat \ {0}
  /\ EventCooldown \in Nat \ {0}
  /\ NsPerUs \in Nat \ {0}
ASSUME UdpBoundsAssumption ==
  /\ MaxClock \in Nat \ {0}
  /\ Word \in Nat
  /\ MaxClock + EventCooldown < Word
  /\ MaxPackets \in Nat
ASSUME UdpNoneAssumption == None \notin Nat

VARIABLES
  clock,                    \* CLOCK_MONOTONIC
  nd_udp_flows,             \* the shared LRU map: key -> element number
  elems,                    \* every element ever inserted
  nd_udp_counters,          \* per CPU
  nd_udp_duration_us_hist,  \* per CPU: number of samples in all buckets
  cpu,                      \* what each CPU's handler is doing
  gc,                       \* what the collector is doing
  packets,                  \* number of packets, for the bound
  events                    \* history: the long-flow events decided on

hookVars == <<elems, nd_udp_counters, nd_udp_duration_us_hist, cpu, packets, events>>
vars == <<clock, nd_udp_flows, gc, hookVars>>

Sub(a, b) == IF a >= b THEN a - b ELSE Word + a - b

IdleCpu == [pc |-> "idle", key |-> 0, now |-> 0, elem |-> 0, n |-> 0, us |-> 0]
IdleGc == [pc |-> "idle", now |-> 0, cursor |-> 0, count |-> 0, elem |-> 0, seen |-> 0]

Init ==
  /\ clock = 1
  /\ nd_udp_flows = EmptyMap
  /\ elems = <<>>
  /\ nd_udp_counters = [c \in Cpus |-> [packet_total |-> 0, long_flow_total |-> 0]]
  /\ nd_udp_duration_us_hist = [c \in Cpus |-> 0]
  /\ cpu = [c \in Cpus |-> IdleCpu]
  /\ gc = IdleGc
  /\ packets = 0
  /\ events = {}

Tick ==
  /\ clock < MaxClock
  /\ clock' = clock + 1
  /\ UNCHANGED <<nd_udp_flows, gc, hookVars>>

-----------------------------------------------------------------------------
(* The TC hook.                                                            *)

(* struct nd_udp_flow_value first, with three history fields: how many     *)
(* packets were added through this element, by which CPUs, and when the    *)
(* latest of them was seen.                                                *)
First_NoFirstSeen(c, k, now) ==
  [key |-> k, first_seen_ns |-> 0, last_seen_ns |-> now, last_event_ns |-> 0,
   packets |-> 1, hits |-> 0, users |-> {c}, newest |-> now]
First(c, k, now) ==
  [key |-> k, first_seen_ns |-> now, last_seen_ns |-> now, last_event_ns |-> 0,
   packets |-> 1, hits |-> 0, users |-> {c}, newest |-> now]

(* A UDP packet: read the clock and count the packet. *)
Packet(c, k) ==
  /\ cpu[c].pc = "idle"
  /\ packets < MaxPackets
  /\ packets' = packets + 1
  /\ nd_udp_counters' = [nd_udp_counters EXCEPT ![c].packet_total = @ + 1]
  /\ cpu' = [cpu EXCEPT ![c] = [IdleCpu EXCEPT !.pc = "lookup", !.key = k, !.now = clock]]
  /\ UNCHANGED <<clock, nd_udp_flows, elems, nd_udp_duration_us_hist, gc, events>>

Lookup(c) ==
  LET e == nd_udp_flows[cpu[c].key]
  IN  /\ cpu[c].pc = "lookup"
      /\ \/ e = None /\ cpu' = [cpu EXCEPT ![c].pc = "insert"]
         \/ e # None /\ cpu' = [cpu EXCEPT ![c].pc = "touch", ![c].elem = e]
      /\ UNCHANGED <<clock, nd_udp_flows, elems, nd_udp_counters,
                     nd_udp_duration_us_hist, gc, packets, events>>

(* A new flow, or one that another CPU has inserted since the lookup: the  *)
(* new element then takes the place of the other's.                        *)
Insert(c) ==
  /\ cpu[c].pc = "insert"
  /\ elems' = Append(elems, First(c, cpu[c].key, cpu[c].now))
  /\ nd_udp_flows' \in LruUpdate(nd_udp_flows, cpu[c].key, Len(elems) + 1)
  /\ cpu' = [cpu EXCEPT ![c] = IdleCpu]
  /\ UNCHANGED <<clock, nd_udp_counters, nd_udp_duration_us_hist, gc, packets, events>>

(* last_seen_ns = now, and the load of packets++. *)
Touch(c) ==
  LET e == cpu[c].elem
  IN  /\ cpu[c].pc = "touch"
      /\ elems' = [elems EXCEPT ![e].last_seen_ns = cpu[c].now,
                                ![e].users = @ \cup {c},
                                ![e].newest = IF @ < cpu[c].now THEN cpu[c].now ELSE @]
      /\ cpu' = [cpu EXCEPT ![c].pc = "store", ![c].n = elems[e].packets]
      /\ UNCHANGED <<clock, nd_udp_flows, nd_udp_counters, nd_udp_duration_us_hist,
                     gc, packets, events>>

(* The store of packets++. *)
Store_NotAdded(c) ==
  LET e == cpu[c].elem
  IN  /\ cpu[c].pc = "store"
      /\ elems' = [elems EXCEPT ![e].packets = cpu[c].n, ![e].hits = @ + 1]
      /\ cpu' = [cpu EXCEPT ![c].pc = "check"]
      /\ UNCHANGED <<clock, nd_udp_flows, nd_udp_counters, nd_udp_duration_us_hist,
                     gc, packets, events>>
Store(c) ==
  LET e == cpu[c].elem
  IN  /\ cpu[c].pc = "store"
      /\ elems' = [elems EXCEPT ![e].packets = cpu[c].n + 1, ![e].hits = @ + 1]
      /\ cpu' = [cpu EXCEPT ![c].pc = "check"]
      /\ UNCHANGED <<clock, nd_udp_flows, nd_udp_counters, nd_udp_duration_us_hist,
                     gc, packets, events>>

(* now > first_seen_ns ? (now - first_seen_ns) / 1000 : 0 *)
Duration_NoGuard(now, first) == Sub(now, first) \div NsPerUs
Duration(now, first) == IF now > first THEN Sub(now, first) \div NsPerUs ELSE 0

CooledDown(now, last) == now > (last + EventCooldown) % Word

(* The decision to report: histogram and counter are written at once, the  *)
(* event and last_event_ns follow.                                         *)
Check(c) ==
  LET e  == elems[cpu[c].elem]
      us == Duration(cpu[c].now, e.first_seen_ns)
      report == us >= LongUdpFlow /\ CooledDown(cpu[c].now, e.last_event_ns)
  IN  /\ cpu[c].pc = "check"
      /\ \/ /\ ~report
            /\ cpu' = [cpu EXCEPT ![c] = IdleCpu]
            /\ UNCHANGED <<nd_udp_counters, nd_udp_duration_us_hist>>
         \/ /\ report
            /\ cpu' = [cpu EXCEPT ![c].pc = "report", ![c].us = us]
            /\ nd_udp_duration_us_hist' = [nd_udp_duration_us_hist EXCEPT ![c] = @ + 1]
            /\ nd_udp_counters' = [nd_udp_counters EXCEPT ![c].long_flow_total = @ + 1]
      /\ UNCHANGED <<clock, nd_udp_flows, elems, gc, packets, events>>

(* nd_submit_event_no_pid and last_event_ns = now.  Whether the ring       *)
(* buffer has room makes no difference to what follows: `events' holds the *)
(* submissions, delivered or not.                                          *)
Report_NoStamp(c) ==
  LET e == cpu[c].elem
  IN  /\ cpu[c].pc = "report"
      /\ events' = events \cup {[elem |-> e, cpu |-> c, key |-> cpu[c].key,
                                 now |-> cpu[c].now, us |-> cpu[c].us,
                                 packets |-> elems[e].packets]}
      /\ cpu' = [cpu EXCEPT ![c] = IdleCpu]
      /\ UNCHANGED <<clock, nd_udp_flows, elems, nd_udp_counters,
                     nd_udp_duration_us_hist, gc, packets>>
Report(c) ==
  LET e == cpu[c].elem
  IN  /\ cpu[c].pc = "report"
      /\ events' = events \cup {[elem |-> e, cpu |-> c, key |-> cpu[c].key,
                                 now |-> cpu[c].now, us |-> cpu[c].us,
                                 packets |-> elems[e].packets]}
      /\ elems' = [elems EXCEPT ![e].last_event_ns = cpu[c].now]
      /\ cpu' = [cpu EXCEPT ![c] = IdleCpu]
      /\ UNCHANGED <<clock, nd_udp_flows, nd_udp_counters, nd_udp_duration_us_hist,
                     gc, packets>>

-----------------------------------------------------------------------------
(* The collector: one pass of gcUDPFlows per tick of its timer.            *)

Idle_NoThreshold(now, seen) == now > seen
Idle_Never(now, seen) == FALSE
Idle(now, seen) == ~(seen = 0 \/ now <= seen \/ Sub(now, seen) <= UdpIdle)

GcStart ==
  /\ gc.pc = "idle"
  /\ gc' = [IdleGc EXCEPT !.pc = "next", !.now = clock]
  /\ UNCHANGED <<clock, nd_udp_flows, hookVars>>

GcNextKey(k) ==
  /\ gc.pc = "next"
  /\ gc.count <= MaxEntries
  /\ IsNextKey(nd_udp_flows, gc.cursor, k)
  /\ gc' = [gc EXCEPT !.pc = "lookup", !.cursor = k, !.count = @ + 1]
  /\ UNCHANGED <<clock, nd_udp_flows, hookVars>>

GcEnd ==
  /\ gc.pc = "next"
  /\ \/ gc.count <= MaxEntries /\ Ahead(nd_udp_flows, gc.cursor) = {}
     \/ gc.count > MaxEntries
  /\ gc' = IdleGc
  /\ UNCHANGED <<clock, nd_udp_flows, hookVars>>

(* The system call for the next key or for its value fails: the pass is    *)
(* over, as in DnsPending.                                                 *)
GcIterFails ==
  /\ gc.pc = "next"
  /\ gc' = IdleGc
  /\ UNCHANGED <<clock, nd_udp_flows, hookVars>>

(* The iterator copies the value out; the pass skips or condemns the flow. *)
GcLookup ==
  LET e == nd_udp_flows[gc.cursor]
  IN  /\ gc.pc = "lookup"
      /\ \/ /\ e = None
            /\ gc' = [gc EXCEPT !.pc = "next"]
         \/ /\ e # None /\ ~Idle(gc.now, elems[e].last_seen_ns)
            /\ gc' = [gc EXCEPT !.pc = "next"]
         \/ /\ e # None /\ Idle(gc.now, elems[e].last_seen_ns)
            /\ gc' = [gc EXCEPT !.pc = "delete", !.elem = e, !.seen = elems[e].hits]
      /\ UNCHANGED <<clock, nd_udp_flows, hookVars>>

GcDelete ==
  /\ gc.pc = "delete"
  /\ nd_udp_flows' = LruWithout(nd_udp_flows, gc.cursor)
  /\ gc' = [gc EXCEPT !.pc = "next", !.elem = 0, !.seen = 0]
  /\ UNCHANGED <<clock, hookVars>>

GcDeleteFails ==
  /\ gc.pc = "delete"
  /\ gc' = [gc EXCEPT !.pc = "next", !.elem = 0, !.seen = 0]
  /\ UNCHANGED <<clock, nd_udp_flows, hookVars>>

-----------------------------------------------------------------------------
Handle(c) ==
  Lookup(c) \/ Insert(c) \/ Touch(c) \/ Store(c) \/ Check(c) \/ Report(c)

Collector ==
  \/ GcStart \/ GcEnd \/ GcIterFails \/ GcLookup \/ GcDelete \/ GcDeleteFails
  \/ \E k \in Keys : GcNextKey(k)

Next ==
  \/ Tick
  \/ Collector
  \/ \E c \in Cpus : Handle(c) \/ \E k \in Keys : Packet(c, k)

Spec == Init /\ [][Next]_vars

(***************************************************************************)
(* Fairness: as in DnsPending, time passes, a handler once started ends,   *)
(* the collector keeps running (RunGCWorker) and a system call it makes    *)
(* about one key again and again does not always fail.  No packet need     *)
(* arrive.                                                                 *)
(***************************************************************************)
Fairness ==
  /\ WF_vars(Tick)
  /\ \A c \in Cpus : WF_vars(Handle(c))
  /\ WF_vars(Collector)
  /\ \A k \in Keys : SF_vars(GcNextKey(k))
  /\ SF_vars(GcDelete)

FairSpec == Spec /\ Fairness

-----------------------------------------------------------------------------
(* Properties.                                                             *)

Time == 1..MaxClock
Elem ==
  [key : Keys, first_seen_ns : Time, last_seen_ns : Time, last_event_ns : Time \cup {0},
   packets : Nat \ {0}, hits : Nat, users : SUBSET Cpus, newest : Time]
CpuState ==
  [pc : {"idle", "lookup", "insert", "touch", "store", "check", "report"},
   key : Keys \cup {0}, now : Time \cup {0}, elem : 0..Len(elems), n : Nat, us : Nat]
GcState ==
  [pc : {"idle", "next", "lookup", "delete"}, now : Time \cup {0}, cursor : Keys \cup {0},
   count : Nat, elem : 0..Len(elems), seen : Nat]

TypeOK ==
  /\ clock \in Time
  /\ nd_udp_flows \in [Keys -> (1..Len(elems)) \cup {None}]
  /\ elems \in Seq(Elem)
  /\ nd_udp_counters \in [Cpus -> [packet_total : Nat, long_flow_total : Nat]]
  /\ nd_udp_duration_us_hist \in [Cpus -> Nat]
  /\ cpu \in [Cpus -> CpuState]
  /\ gc \in GcState
  /\ packets \in 0..MaxPackets

(***************************************************************************)
(* Whatever the interleaving of uv->packets++ on several CPUs, an element  *)
(* never claims more packets than it was shown; and if one CPU handles the *)
(* flow (receive steering) the count is exact.                             *)
(***************************************************************************)
PacketsNotOvercounted ==
  \A i \in 1..Len(elems) :
    /\ elems[i].packets <= 1 + elems[i].hits
    /\ Cardinality(elems[i].users) = 1 => elems[i].packets = 1 + elems[i].hits

(***************************************************************************)
(* A flow that is reported long really is: its first packet, a packet of   *)
(* the very flow named in the event, lies at least the threshold back, and *)
(* the duration never exceeds that distance, although first_seen_ns may    *)
(* have been written by a CPU whose clock reading is later than ours.      *)
(***************************************************************************)
LongFlowIsLong ==
  \A v \in events :
    /\ elems[v.elem].key = v.key
    /\ LongUdpFlow <= v.us
    /\ v.us * NsPerUs <= v.now - elems[v.elem].first_seen_ns

(***************************************************************************)
(* One CPU reports one flow at most once per cooldown, as long as it is    *)
(* the only one to handle that flow.                                       *)
(***************************************************************************)
CooldownHeldOnOneCpu ==
  \A v, w \in events :
    v.elem = w.elem /\ v.now < w.now /\ Cardinality(elems[v.elem].users) = 1
      => w.now - v.now > EventCooldown

GcTakes(k) ==
  gc.pc = "delete" /\ gc'.pc = "next" /\ gc.cursor = k
    /\ nd_udp_flows[k] # None /\ nd_udp_flows'[k] = None

(***************************************************************************)
(* When the element the collector removes is the one it inspected, and it  *)
(* is handled by one CPU only and not touched since, then the flow's       *)
(* latest packet is really older than the idle time.                       *)
(***************************************************************************)
GcTakesOnlyIdle ==
  [][\A k \in Keys : LET e == nd_udp_flows[k] IN
       /\ GcTakes(k) /\ e = gc.elem /\ elems[e].hits = gc.seen
       /\ Cardinality(elems[e].users) = 1
       /\ \A c \in Cpus : ~(cpu[c].pc = "store" /\ cpu[c].elem = e)
       => clock - elems[e].newest > UdpIdle]_vars

InMap(i) == \E k \in Keys : nd_udp_flows[k] = i

(***************************************************************************)
(* A flow without packets does not stay in the map: unless one more packet *)
(* comes, some pass collects it, if its idle time ends within the bounded  *)
(* time of the model.                                                      *)
(***************************************************************************)
IdleFlowIsCollected ==
  \A i \in 1..MaxPackets :
    (InMap(i) /\ elems[i].last_seen_ns + UdpIdle < MaxClock)
      ~> (~InMap(i) \/ elems[i].last_seen_ns + UdpIdle >= MaxClock)
=============================================================================
