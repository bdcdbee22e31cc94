----------------------------- MODULE DnsPending -----------------------------
(***************************************************************************)
(* DNS latency tracking: the DNS half of the TC hook (nd_parse_ipv4_udp in *)
(* bpf/networkdoctor.bpf.c), which several CPUs run at once, and the       *)
(* userspace garbage collection of nd_dns_pending (internal/bpf/gc.go).    *)
(*                                                                         *)
(* Every access to the shared map is a step of its own, so any two         *)
(* handlers, and a handler and the collector, interleave between a lookup  *)
(* and the delete that follows it.  Updates of a CPU's own counter slots   *)
(* are folded into the neighbouring map access: no other CPU sees them.    *)
(***************************************************************************)
EXTENDS LruMap, Sequences

CONSTANTS
  Cpus,
  Rcodes,          \* response codes; 0 is NOERROR
  DnsTimeout,      \* -dns-timeout, in ns
  SlowDnsFlag,     \* slow_dns_us as the agent wrote it to nd_config
  DefaultSlowDns,  \* ND_DEFAULT_SLOW_DNS_US
  NsPerUs,         \* 1000 in the source
  Word,            \* 2^64 in the source: timestamps are __u64
  MaxClock,        \* bound on time
  MaxPackets       \* bound on the number of DNS packets

ASSUME RcodesAssumption == 0 \in Rcodes
ASSUME DurationsAssumption ==
  /\ DnsTimeout \in Nat
  /\ SlowDnsFlag \in Nat
  /\ DefaultSlowDns \in Nat \ {0}
  /\ NsPerUs \in Nat \ {0}
ASSUME BoundsAssumption ==
  /\ MaxClock \in Nat \ {0}
  /\ Word \in Nat
  /\ MaxClock < Word
  /\ MaxPackets \in Nat
ASSUME NoneAssumption == None \notin [start_ns : Nat, id : Nat]

(* An entry's id is a history field: it tells queries with equal keys apart. *)
VARIABLES
  clock,                   \* CLOCK_MONOTONIC, the time base of both sides
  nd_dns_pending,          \* the shared LRU map
  nd_dns_counters,         \* per CPU
  nd_dns_rcode_total,      \* per CPU
  nd_dns_latency_us_hist,  \* per CPU: number of samples in all buckets
  nd_events,               \* per CPU: submissions to the ring buffer
  cpu,                     \* what each CPU's handler is doing
  gc,                      \* what the collector is doing
  queries,                 \* history: the queries the hook has seen
  packets,                 \* number of packets, for the bound
  lat,                     \* history: latencies recorded
  measured                 \* history: how often a CPU measured a query, since
                           \* its latest delete that left the entry there

kernelVars == <<nd_dns_counters, nd_dns_rcode_total, nd_dns_latency_us_hist,
                nd_events, cpu, queries, packets, lat, measured>>
vars == <<clock, nd_dns_pending, gc, kernelVars>>

Ids == 1..MaxPackets

(* Unsigned 64-bit subtraction. *)
Sub(a, b) == IF a >= b THEN a - b ELSE Word + a - b

IdleCpu == [pc |-> "idle", key |-> 0, now |-> 0, id |-> 0]
IdleGc == [pc |-> "idle", now |-> 0, cursor |-> 0, count |-> 0,
           start_ns |-> 0, id |-> 0]

Init ==
  /\ clock = 1
  /\ nd_dns_pending = EmptyMap
  /\ nd_dns_counters = [c \in Cpus |-> [query_total |-> 0, response_total |-> 0,
                                        rcode_error_total |-> 0, slow_total |-> 0]]
  /\ nd_dns_rcode_total = [c \in Cpus |-> [r \in Rcodes |-> 0]]
  /\ nd_dns_latency_us_hist = [c \in Cpus |-> 0]
  /\ nd_events = [c \in Cpus |-> [rcode_error |-> 0, slow |-> 0]]
  /\ cpu = [c \in Cpus |-> IdleCpu]
  /\ gc = IdleGc
  /\ queries = <<>>
  /\ packets = 0
  /\ lat = {}
  /\ measured = [c \in Cpus |-> [i \in Ids |-> 0]]

Tick ==
  /\ clock < MaxClock
  /\ clock' = clock + 1
  /\ UNCHANGED <<nd_dns_pending, gc, kernelVars>>

-----------------------------------------------------------------------------
(* The TC hook.                                                            *)

(* A threshold of zero in nd_config means the built-in default. *)
NdGetConfig_NoDefault(flag, default) == flag
NdGetConfig(flag, default) == IF flag # 0 THEN flag ELSE default

SlowDns == NdGetConfig(SlowDnsFlag, DefaultSlowDns)

(* now > start ? (now - start) / 1000 : 0 *)
Latency_NoGuard(now, start) == Sub(now, start) \div NsPerUs
Latency(now, start) == IF now > start THEN Sub(now, start) \div NsPerUs ELSE 0

(* A query to port 53: read the clock, count it; the insert comes next. *)
Query(c, k) ==
  /\ cpu[c].pc = "idle"
  /\ packets < MaxPackets
  /\ packets' = packets + 1
  /\ queries' = Append(queries, [key |-> k, at |-> clock])
  /\ nd_dns_counters' = [nd_dns_counters EXCEPT ![c].query_total = @ + 1]
  /\ cpu' = [cpu EXCEPT ![c] = [pc |-> "update", key |-> k, now |-> clock,
                                id |-> Len(queries) + 1]]
  /\ UNCHANGED <<clock, nd_dns_pending, nd_dns_rcode_total,
                 nd_dns_latency_us_hist, nd_events, gc, lat, measured>>

(* struct nd_dns_pending_value val *)
PendingValue_NoStart(c) == [start_ns |-> 0, id |-> cpu[c].id]
PendingValue(c) == [start_ns |-> cpu[c].now, id |-> cpu[c].id]

QueryUpdate(c) ==
  /\ cpu[c].pc = "update"
  /\ nd_dns_pending' \in LruUpdate(nd_dns_pending, cpu[c].key, PendingValue(c))
  /\ cpu' = [cpu EXCEPT ![c] = IdleCpu]
  /\ UNCHANGED <<clock, nd_dns_counters, nd_dns_rcode_total,
                 nd_dns_latency_us_hist, nd_events, gc, queries, packets, lat,
                 measured>>

(* A response from port 53: read the clock, count it and its rcode.        *)
(* Whether the ring buffer has room for the event makes no difference to   *)
(* what follows: `nd_events' counts what is submitted, delivered or not.   *)
Response(c, k, r) ==
  /\ cpu[c].pc = "idle"
  /\ packets < MaxPackets
  /\ packets' = packets + 1
  /\ cpu' = [cpu EXCEPT ![c] = [pc |-> "lookup", key |-> k, now |-> clock, id |-> 0]]
  /\ nd_dns_rcode_total' = [nd_dns_rcode_total EXCEPT ![c][r] = @ + 1]
  /\ \/ /\ r = 0
        /\ nd_dns_counters' = [nd_dns_counters EXCEPT ![c].response_total = @ + 1]
        /\ UNCHANGED nd_events
     \/ /\ r # 0
        /\ nd_dns_counters' = [nd_dns_counters EXCEPT ![c].response_total = @ + 1,
                                                      ![c].rcode_error_total = @ + 1]
        /\ nd_events' = [nd_events EXCEPT ![c].rcode_error = @ + 1]
  /\ UNCHANGED <<clock, nd_dns_pending, nd_dns_latency_us_hist, gc, queries,
                 lat, measured>>

(* No query is pending under the response's key: nothing more to do. *)
ResponseMiss(c) ==
  /\ cpu[c].pc = "lookup"
  /\ nd_dns_pending[cpu[c].key] = None
  /\ cpu' = [cpu EXCEPT ![c] = IdleCpu]
  /\ UNCHANGED <<clock, nd_dns_pending, nd_dns_counters, nd_dns_rcode_total,
                 nd_dns_latency_us_hist, nd_events, gc, queries, packets, lat,
                 measured>>

(* The pending query is found and its latency measured; the entry goes in  *)
(* the next step.                                                          *)
ResponseMeasure(c) ==
  LET e  == nd_dns_pending[cpu[c].key]
      us == Latency(cpu[c].now, e.start_ns)
  IN  /\ cpu[c].pc = "lookup"
      /\ e # None
      /\ cpu' = [cpu EXCEPT ![c].pc = "delete", ![c].id = e.id]
      /\ measured' = [measured EXCEPT ![c][e.id] = @ + 1]
      /\ IF us > 0
           THEN /\ nd_dns_latency_us_hist' = [nd_dns_latency_us_hist EXCEPT ![c] = @ + 1]
                /\ lat' = lat \cup {[key |-> cpu[c].key, id |-> e.id,
                                     now |-> cpu[c].now, us |-> us]}
           ELSE UNCHANGED <<nd_dns_latency_us_hist, lat>>
      /\ \/ /\ us < SlowDns
            /\ UNCHANGED <<nd_dns_counters, nd_events>>
         \/ /\ us >= SlowDns
            /\ nd_dns_counters' = [nd_dns_counters EXCEPT ![c].slow_total = @ + 1]
            /\ nd_events' = [nd_events EXCEPT ![c].slow = @ + 1]
      /\ UNCHANGED <<clock, nd_dns_pending, nd_dns_rcode_total, gc, queries, packets>>

(* The entry under key k is the one of query i. *)
Holds(m, k, i) == m[k] # None /\ m[k].id = i

(* The delete, of whatever is under the key now. *)
ResponseDelete_Forgotten(c) ==
  /\ cpu[c].pc = "delete"
  /\ cpu' = [cpu EXCEPT ![c] = IdleCpu]
  /\ UNCHANGED <<clock, nd_dns_pending, nd_dns_counters, nd_dns_rcode_total,
                 nd_dns_latency_us_hist, nd_events, gc, queries, packets, lat,
                 measured>>
ResponseDelete(c) ==
  /\ cpu[c].pc = "delete"
  /\ nd_dns_pending' \in LruDelete(nd_dns_pending, cpu[c].key)
  /\ measured' = IF Holds(nd_dns_pending', cpu[c].key, cpu[c].id)
                   THEN [measured EXCEPT ![c][cpu[c].id] = 0]
                   ELSE measured
  /\ cpu' = [cpu EXCEPT ![c] = IdleCpu]
  /\ UNCHANGED <<clock, nd_dns_counters, nd_dns_rcode_total,
                 nd_dns_latency_us_hist, nd_events, gc, queries, packets, lat>>

-----------------------------------------------------------------------------
(* The collector: one pass of gcDNSPending per tick of its timer.          *)

Expired_NoGuard(now, start) == Sub(now, start) > DnsTimeout
Expired_Never(now, start) == FALSE
Expired(now, start) ==
  ~(start = 0 \/ now <= start \/ Sub(now, start) <= DnsTimeout)

(* The timer fires; the pass reads the clock once, before it iterates. *)
GcStart ==
  /\ gc.pc = "idle"
  /\ gc' = [IdleGc EXCEPT !.pc = "next", !.now = clock]
  /\ UNCHANGED <<clock, nd_dns_pending, kernelVars>>

(* The iterator moves on to the next key... *)
GcNextKey(k) ==
  /\ gc.pc = "next"
  /\ gc.count <= MaxEntries
  /\ IsNextKey(nd_dns_pending, gc.cursor, k)
  /\ gc' = [gc EXCEPT !.pc = "lookup", !.cursor = k, !.count = @ + 1]
  /\ UNCHANGED <<clock, nd_dns_pending, kernelVars>>

(* ...or has seen them all, or gives up after too many keys. *)
GcEnd ==
  /\ gc.pc = "next"
  /\ \/ gc.count <= MaxEntries /\ Ahead(nd_dns_pending, gc.cursor) = {}
     \/ gc.count > MaxEntries
  /\ gc' = IdleGc
  /\ UNCHANGED <<clock, nd_dns_pending, kernelVars>>

(* The system call for the next key fails, or the one for its value (the   *)
(* pass has then seen no more than if the first had): iter.Err is logged,  *)
(* and the pass is over.                                                   *)
GcIterFails ==
  /\ gc.pc = "next"
  /\ gc' = IdleGc
  /\ UNCHANGED <<clock, nd_dns_pending, kernelVars>>

(* The iterator fetches the value; the pass skips or condemns the entry. *)
GcLookup ==
  LET e == nd_dns_pending[gc.cursor]
  IN  /\ gc.pc = "lookup"
      /\ \/ /\ e = None
            /\ gc' = [gc EXCEPT !.pc = "next"]
         \/ /\ e # None /\ ~Expired(gc.now, e.start_ns)
            /\ gc' = [gc EXCEPT !.pc = "next"]
         \/ /\ e # None /\ Expired(gc.now, e.start_ns)
            /\ gc' = [gc EXCEPT !.pc = "delete", !.start_ns = e.start_ns, !.id = e.id]
      /\ UNCHANGED <<clock, nd_dns_pending, kernelVars>>

(* m.Delete(&key): whatever is under the key now; gone already is fine. *)
GcDelete ==
  /\ gc.pc = "delete"
  /\ nd_dns_pending' = LruWithout(nd_dns_pending, gc.cursor)
  /\ gc' = [gc EXCEPT !.pc = "next", !.start_ns = 0, !.id = 0]
  /\ UNCHANGED <<clock, kernelVars>>

(* The system call fails for another reason: logged, not counted. *)
GcDeleteFails ==
  /\ gc.pc = "delete"
  /\ gc' = [gc EXCEPT !.pc = "next", !.start_ns = 0, !.id = 0]
  /\ UNCHANGED <<clock, nd_dns_pending, kernelVars>>

-----------------------------------------------------------------------------
Hook(c) ==
  \/ \E k \in Keys : Query(c, k)
  \/ \E k \in Keys, r \in Rcodes : Response(c, k, r)
  \/ QueryUpdate(c)
  \/ ResponseMiss(c)
  \/ ResponseMeasure(c)
  \/ ResponseDelete(c)

Collector ==
  \/ GcStart \/ GcEnd \/ GcIterFails \/ GcLookup \/ GcDelete \/ GcDeleteFails
  \/ \E k \in Keys : GcNextKey(k)

Next == Tick \/ Collector \/ \E c \in Cpus : Hook(c)

Spec == Init /\ [][Next]_vars

(***************************************************************************)
(* Fairness: time passes; a handler once started runs to its end, the      *)
(* kernel does not abandon it; the collector's goroutine keeps being       *)
(* scheduled and its timer keeps firing (RunGCWorker loops for ever); a    *)
(* system call that it makes again and again about the same key, to fetch  *)
(* or to delete it, does not fail every time.  No packet need ever arrive. *)
(***************************************************************************)
Fairness ==
  /\ WF_vars(Tick)
  /\ \A c \in Cpus : WF_vars(QueryUpdate(c) \/ ResponseMiss(c) \/ ResponseMeasure(c)
                             \/ ResponseDelete(c))
  /\ WF_vars(Collector)
  /\ \A k \in Keys : SF_vars(GcNextKey(k))
  /\ SF_vars(GcDelete)

FairSpec == Spec /\ Fairness

-----------------------------------------------------------------------------
(* Properties.                                                             *)

Time == 1..MaxClock
Entry == [start_ns : Time, id : Ids]
DnsCounters == [query_total : Nat, response_total : Nat, rcode_error_total : Nat,
                slow_total : Nat]
DnsEvents == [rcode_error : Nat, slow : Nat]
CpuState ==
  {IdleCpu}
    \cup [pc : {"update", "delete"}, key : Keys, now : Time, id : Ids]
    \cup [pc : {"lookup"}, key : Keys, now : Time, id : {0}]
GcState ==
  {IdleGc}
    \cup [pc : {"next"}, now : Time, cursor : Keys \cup {0}, count : Nat,
          start_ns : {0}, id : {0}]
    \cup [pc : {"lookup"}, now : Time, cursor : Keys, count : Nat,
          start_ns : {0}, id : {0}]
    \cup [pc : {"delete"}, now : Time, cursor : Keys, count : Nat,
          start_ns : Time, id : Ids]

TypeOK ==
  /\ clock \in Time
  /\ nd_dns_pending \in [Keys -> Entry \cup {None}]
  /\ nd_dns_counters \in [Cpus -> DnsCounters]
  /\ nd_dns_rcode_total \in [Cpus -> [Rcodes -> Nat]]
  /\ nd_dns_latency_us_hist \in [Cpus -> Nat]
  /\ nd_events \in [Cpus -> DnsEvents]
  /\ cpu \in [Cpus -> CpuState]
  /\ gc \in GcState
  /\ queries \in Seq([key : Keys, at : Time])
  /\ packets \in 0..MaxPackets
  /\ Len(queries) <= packets
  /\ lat \subseteq [key : Keys, id : Ids, now : Time, us : Nat \ {0}]
  /\ measured \in [Cpus -> [Ids -> Nat]]

(***************************************************************************)
(* A latency that is recorded is measured against a query for the same key *)
(* that came before it, and is never longer than the time between the two, *)
(* whichever CPU's insert or response overtakes another's: the unsigned    *)
(* subtraction at line 963 never wraps.                                    *)
(***************************************************************************)
LatencyFromRealQuery ==
  \A m \in lat :
    /\ m.id \in 1..Len(queries)
    /\ queries[m.id].key = m.key
    /\ queries[m.id].at < m.now
    /\ m.us <= m.now - queries[m.id].at

(***************************************************************************)
(* No CPU takes the latency of the same query twice: duplicated responses, *)
(* overtaking inserts and the collector notwithstanding, unless its delete *)
(* of the entry has failed in between.  (Two CPUs may both measure one     *)
(* query, between the lookup of one and its delete.)                       *)
(***************************************************************************)
MeasuredOncePerCpu ==
  \A c \in Cpus, i \in Ids : measured[c][i] <= 1

(***************************************************************************)
(* The exported series agree with each other on every CPU: what is counted *)
(* as slow is alerted, everything slow is in the latency histogram whatever   *)
(* threshold was configured (zero included), every sample comes from a     *)
(* response, and every response is either NOERROR or an rcode error.       *)
(***************************************************************************)
CountersAgree ==
  \A c \in Cpus :
    /\ nd_events[c].slow = nd_dns_counters[c].slow_total
    /\ nd_dns_counters[c].slow_total <= nd_dns_latency_us_hist[c]
    /\ nd_dns_latency_us_hist[c] <= nd_dns_counters[c].response_total
    /\ nd_dns_counters[c].response_total
         = nd_dns_rcode_total[c][0] + nd_dns_counters[c].rcode_error_total
    /\ nd_events[c].rcode_error = nd_dns_counters[c].rcode_error_total

GcTakes(k) ==
  gc.pc = "delete" /\ gc'.pc = "next" /\ gc.cursor = k
    /\ nd_dns_pending[k] # None /\ nd_dns_pending'[k] = None

(***************************************************************************)
(* When the entry the collector removes is the one it inspected, that      *)
(* query is really older than the timeout, although the pass compares with *)
(* a clock it read before it began: entries newer than that reading are    *)
(* spared by the guard at gc.go:50.                                        *)
(***************************************************************************)
GcTakesOnlyExpired ==
  [][\A k \in Keys : GcTakes(k) /\ nd_dns_pending[k].id = gc.id
       => clock - nd_dns_pending[k].start_ns > DnsTimeout]_vars

(***************************************************************************)
(* What the comment at gc.go:41 says: gcDNSPending "deletes DNS query      *)
(* entries that never received a matching response before the configured   *)
(* timeout".                                                               *)
(***************************************************************************)
GcNeverTakesLiveQuery ==
  [][\A k \in Keys : GcTakes(k)
       => clock - nd_dns_pending[k].start_ns > DnsTimeout]_vars

Tracked(i) == \E k \in Keys : nd_dns_pending[k] # None /\ nd_dns_pending[k].id = i

(***************************************************************************)
(* A query that nobody answers does not stay in the map: once its timeout  *)
(* lies within the bounded time of the model, some pass collects it, even  *)
(* if deletes or the iteration fail now and then, and whether the          *)
(* iteration restarts or is cut short.                                     *)
(***************************************************************************)
UnansweredQueryIsCollected ==
  \A i \in Ids :
    (Tracked(i) /\ queries[i].at + DnsTimeout < MaxClock) ~> ~Tracked(i)
=============================================================================
