------------------------------ MODULE Metrics ------------------------------
(***************************************************************************)
(* From a sample to a scraped histogram: the per-CPU log2 bucket arrays    *)
(* and the per-CPU counter next to one (nd_tcp_srtt_us_hist with           *)
(* rtt_sample_total, nd_tcp_cwnd_hist with cwnd_sample_total,              *)
(* nd_udp_duration_us_hist with long_flow_total), the per-CPU deltas of a  *)
(* TCP state behind a gauge, Snapshot, which reads them slot by slot while *)
(* the programs go on counting, and emitLog2Histogram.                     *)
(***************************************************************************)
EXTENDS Integers, Sequences, FiniteSets, Functions

CONSTANTS
  Cpus,       \* possible CPUs: the slots of a per-CPU value
  Buckets,    \* ND_HIST_BUCKETS, model.HistBuckets
  Samples,    \* the values recorded
  MaxSamples, \* bound on the number of samples
  MaxConns,   \* bound on the connections that enter, and that leave, the state
  MaxScrapes, \* bound on the number of scrapes
  MaxFails    \* bound on the lookups that fail in one scrape

ASSUME MetricsAssumption ==
  /\ IsFiniteSet(Cpus) /\ Cpus # {}
  /\ Buckets \in 2..63
  /\ IsFiniteSet(Samples) /\ Samples \subseteq Nat
  /\ MaxSamples \in Nat /\ MaxConns \in Nat /\ MaxScrapes \in Nat /\ MaxFails \in Nat

Bucket == 0..(Buckets - 1)

VARIABLES
  hist,     \* the bucket array, per CPU
  count,    \* the counter, per CPU
  delta,    \* nd_tcp_state_delta of one state, per CPU
  half,     \* CPUs between the two increments of a sample
  observed, \* history: how often each value was put in a bucket
  conns,    \* history: how many connections entered the state, and left it
  pos,      \* position of the scrape in ReadOrder, 0 without a scrape
  slots,    \* CPUs whose slot of this key is still to be read
  snap,     \* what it has read: a number for each key
  floor,    \* history: observed when the scrape began
  conns0,   \* history: conns when the scrape began
  failed,   \* history: the keys whose lookup has failed in this scrape
  scrapes,  \* scrapes answered
  out       \* the last answer

programVars == <<hist, count, delta, half, observed, conns>>
scrapeVars == <<pos, slots, snap, floor, conns0, failed, scrapes, out>>
vars == <<programVars, scrapeVars>>

CounterKey == -1
GaugeKey == -2
Keys == {CounterKey, GaugeKey} \cup Bucket

(* Snapshot reads the counter structs, then the gauges, then the           *)
(* histograms: the fields of the composite literal are evaluated in the    *)
(* order they are written.                                                 *)
ReadOrder_HistogramsFirst == [i \in 1..Buckets |-> i - 1] \o <<CounterKey, GaugeKey>>
ReadOrder == <<CounterKey, GaugeKey>> \o [i \in 1..Buckets |-> i - 1]
Key == ReadOrder[pos]

(* What lookupPerCPU found for a scrape that has found nothing yet. *)
NothingRead == [k \in Keys |-> 0]

-----------------------------------------------------------------------------
(* nd_log2_bucket and emitLog2Histogram.                                   *)

Log2Bucket_Strict(v) ==
  IF \E i \in 0..(Buckets - 2) : v < 2^i
    THEN CHOOSE i \in 0..(Buckets - 2) : v < 2^i /\ \A j \in 0..(i - 1) : v >= 2^j
    ELSE Buckets - 1
Log2Bucket(v) ==
  IF \E i \in 0..(Buckets - 2) : v <= 2^i
    THEN CHOOSE i \in 0..(Buckets - 2) : v <= 2^i /\ \A j \in 0..(i - 1) : v > 2^j
    ELSE Buckets - 1

Log2UpperBound_Lower(b) == IF b = 0 THEN 0 ELSE 2^(b - 1)
Log2UpperBound(b) == 2^b

Total(counts) == SumFunctionOnSet(counts, Bucket)
EstimatedSum(counts) ==
  SumFunction([b \in Bucket |-> counts[b] * Log2UpperBound(b)])
Cumulative(counts) == [b \in 0..(Buckets - 2) |-> SumFunctionOnSet(counts, 0..b)]

(* The answer without its gauges, with what the properties compare it to. *)
Answer(counts) ==
  [counter    |-> counts[CounterKey],
   total      |-> Total(counts),
   sum        |-> EstimatedSum(counts),
   cumulative |-> Cumulative(counts),
   floor      |-> floor,
   ceiling    |-> observed,
   failed     |-> failed # {}]

NoConns == [entered |-> 0, left |-> 0]

Init ==
  /\ hist = [c \in Cpus |-> [b \in Bucket |-> 0]]
  /\ count = [c \in Cpus |-> 0]
  /\ delta = [c \in Cpus |-> 0]
  /\ half = {}
  /\ observed = [v \in Samples |-> 0]
  /\ conns = NoConns
  /\ pos = 0
  /\ slots = {}
  /\ snap = NothingRead
  /\ floor = [v \in Samples |-> 0]
  /\ conns0 = NoConns
  /\ failed = {}
  /\ scrapes = 0
  /\ out = [counter |-> 0, total |-> 0, sum |-> 0,
            cumulative |-> [b \in 0..(Buckets - 2) |-> 0],
            floor |-> [v \in Samples |-> 0], ceiling |-> [v \in Samples |-> 0],
            failed |-> FALSE]

-----------------------------------------------------------------------------
(* A program records a sample: the bucket first, then the counter.         *)

IncHist(c, v) ==
  /\ c \notin half
  /\ SumFunction(observed) < MaxSamples
  /\ hist' = [hist EXCEPT ![c][Log2Bucket(v)] = @ + 1]
  /\ observed' = [observed EXCEPT ![v] = @ + 1]
  /\ half' = half \cup {c}
  /\ UNCHANGED <<count, delta, conns, scrapeVars>>

IncCounter(c) ==
  /\ c \in half
  /\ count' = [count EXCEPT ![c] = @ + 1]
  /\ half' = half \ {c}
  /\ UNCHANGED <<hist, delta, observed, conns, scrapeVars>>

(* nd_tcp_state_delta_add: a connection enters the state, or leaves it,    *)
(* possibly one that was in it before the hook was attached; on whichever  *)
(* CPU that happens.                                                       *)
Enter(c) ==
  /\ conns.entered < MaxConns
  /\ delta' = [delta EXCEPT ![c] = @ + 1]
  /\ conns' = [conns EXCEPT !.entered = @ + 1]
  /\ UNCHANGED <<hist, count, half, observed, scrapeVars>>

Leave(c) ==
  /\ conns.left < MaxConns
  /\ delta' = [delta EXCEPT ![c] = @ - 1]
  /\ conns' = [conns EXCEPT !.left = @ + 1]
  /\ UNCHANGED <<hist, count, half, observed, scrapeVars>>

-----------------------------------------------------------------------------
(* A scrape.                                                               *)

ScrapeBegin ==
  /\ pos = 0 /\ scrapes < MaxScrapes
  /\ pos' = 1
  /\ slots' = Cpus
  /\ floor' = observed
  /\ conns0' = conns
  /\ UNCHANGED <<programVars, snap, failed, scrapes, out>>

(* The kernel copies the slots of a per-CPU value one by one, and the      *)
(* agent adds them up.                                                     *)
Slot_NoNegative(c, k) ==
  CASE k = CounterKey -> count[c]
    [] k = GaugeKey   -> IF delta[c] < 0 THEN 0 ELSE delta[c]
    [] k \in Bucket   -> hist[c][k]
Slot(c, k) ==
  CASE k = CounterKey -> count[c]
    [] k = GaugeKey   -> delta[c]
    [] k \in Bucket   -> hist[c][k]

ReadSlot_AndClear(c) ==
  /\ pos \in DOMAIN ReadOrder /\ c \in slots
  /\ snap' = [snap EXCEPT ![Key] = @ + Slot(c, Key)]
  /\ hist' = IF Key \in Bucket THEN [hist EXCEPT ![c][Key] = 0] ELSE hist
  /\ slots' = slots \ {c}
  /\ UNCHANGED <<count, delta, half, observed, conns, pos, floor, conns0, failed, scrapes, out>>
ReadSlot(c) ==
  /\ pos \in DOMAIN ReadOrder /\ c \in slots
  /\ snap' = [snap EXCEPT ![Key] = @ + Slot(c, Key)]
  /\ slots' = slots \ {c}
  /\ UNCHANGED <<programVars, pos, floor, conns0, failed, scrapes, out>>

ReadNextKey ==
  /\ pos \in DOMAIN ReadOrder /\ slots = {}
  /\ pos' = pos + 1
  /\ slots' = IF pos < Len(ReadOrder) THEN Cpus ELSE {}
  /\ UNCHANGED <<programVars, snap, floor, conns0, failed, scrapes, out>>

(* Both lookups of lookupPerCPU fail: the value is reported as zero. *)
LookupFails_KeepPartial ==
  /\ pos \in DOMAIN ReadOrder /\ slots # {}
  /\ Cardinality(failed) < MaxFails
  /\ slots' = Cpus
  /\ failed' = failed \cup {Key}
  /\ UNCHANGED <<programVars, pos, snap, floor, conns0, scrapes, out>>
LookupFails_EndsScrape ==
  /\ pos \in DOMAIN ReadOrder /\ slots # {}
  /\ Cardinality(failed) < MaxFails
  /\ pos' = Len(ReadOrder) + 1
  /\ snap' = [snap EXCEPT ![Key] = 0]
  /\ slots' = {}
  /\ failed' = failed \cup {Key}
  /\ UNCHANGED <<programVars, floor, conns0, scrapes, out>>
LookupFails ==
  /\ pos \in DOMAIN ReadOrder /\ slots # {}
  /\ Cardinality(failed) < MaxFails
  /\ snap' = [snap EXCEPT ![Key] = 0]
  /\ slots' = {}
  /\ failed' = failed \cup {Key}
  /\ UNCHANGED <<programVars, pos, floor, conns0, scrapes, out>>

Collect ==
  /\ pos = Len(ReadOrder) + 1
  /\ pos' = 0
  /\ out' = Answer(snap)
  /\ scrapes' = scrapes + 1
  /\ snap' = NothingRead
  /\ floor' = [v \in Samples |-> 0]
  /\ conns0' = NoConns
  /\ failed' = {}
  /\ UNCHANGED <<programVars, slots>>

Next ==
  \/ \E c \in Cpus, v \in Samples : IncHist(c, v)
  \/ \E c \in Cpus : IncCounter(c) \/ Enter(c) \/ Leave(c) \/ ReadSlot(c)
  \/ ScrapeBegin \/ ReadNextKey \/ LookupFails \/ Collect

Spec == Init /\ [][Next]_vars

-----------------------------------------------------------------------------
(* Properties.                                                             *)

(* How many of the samples in obs are at most n, and what they add up to   *)
(* with each taken for n at most.                                          *)
AtMost(obs, n) == SumFunctionOnSet(obs, {v \in Samples : v <= n})
Capped(v, n) == IF v <= n THEN v ELSE n
SumCapped(obs, n) == SumFunction([v \in Samples |-> Capped(v, n) * obs[v]])

(* How many belong into bucket b according to the le labels. *)
Labelled(v, b) == (b = 0 \/ v > 2^(b - 1)) /\ (b = Buckets - 1 \/ v <= 2^b)
InBucket(obs, b) == SumFunctionOnSet(obs, {v \in Samples : Labelled(v, b)})

(***************************************************************************)
(* A bucket of the answer means what its le label says: the count at 2^b   *)
(* is the number of samples of at most 2^b, of the ones recorded before    *)
(* the scrape and possibly some recorded during it; and so is the total.   *)
(* The estimated sum is conservative (histogram.go:20) except that a       *)
(* sample beyond the last bucket's nominal bound counts as that bound: the *)
(* sum is at least that of the samples so capped.  An answer with lookups  *)
(* that failed may miss samples, but shows none that nobody recorded.      *)
(***************************************************************************)
BucketsAreExact ==
  /\ \A b \in DOMAIN out.cumulative :
       /\ out.cumulative[b] <= AtMost(out.ceiling, 2^b)
       /\ ~out.failed => out.cumulative[b] >= AtMost(out.floor, 2^b)
  /\ out.total <= SumFunction(out.ceiling) /\ out.counter <= SumFunction(out.ceiling)
  /\ ~out.failed =>
       /\ out.total >= SumFunction(out.floor)
       /\ out.sum >= SumCapped(out.floor, 2^(Buckets - 1))

(***************************************************************************)
(* A lookup that fails costs the answer its own bucket, which then shows   *)
(* zero and not what had been read of it, and no other: whatever else      *)
(* fails, a bucket that was read shows all the samples of its range that   *)
(* were recorded before the scrape, and none that never were.              *)
(***************************************************************************)
FailureIsConfined ==
  pos = Len(ReadOrder) + 1 =>
    \A b \in Bucket :
      IF b \in failed THEN snap[b] = 0
                      ELSE snap[b] \in InBucket(floor, b)..InBucket(observed, b)

(***************************************************************************)
(* A scrape never shows more counted samples than the histogram holds: the *)
(* programs fill the bucket before they count, and Snapshot reads the      *)
(* counter before the buckets.                                             *)
(***************************************************************************)
CounterWithinHistogram == ~out.failed => out.counter <= out.total

(***************************************************************************)
(* The gauge of a state (sumTCPState) is read CPU by CPU: a scrape may     *)
(* miss a connection that enters the state on one CPU and see it leave on  *)
(* another, but is off by no more than the moves made while it ran,        *)
(* whatever other lookup of the scrape fails.                              *)
(***************************************************************************)
GaugeWithinMoves ==
  pos = Len(ReadOrder) + 1 /\ GaugeKey \notin failed =>
    snap[GaugeKey] \in (conns0.entered - conns.left)..(conns.entered - conns0.left)

(***************************************************************************)
(* Between two scrapes without a failed lookup no counter and no bucket    *)
(* goes down, which Prometheus would take for a restart of the agent.      *)
(***************************************************************************)
NeverGoesDown ==
  [][~out.failed /\ ~out'.failed =>
       /\ out'.counter >= out.counter
       /\ out'.total >= out.total
       /\ \A b \in DOMAIN out.cumulative : out'.cumulative[b] >= out.cumulative[b]]_out
=============================================================================
