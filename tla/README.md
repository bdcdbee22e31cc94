# NetworkDoctor agent: TLA+ specifications and proofs

NetworkDoctor is a node agent. An eBPF object (`bpf/networkdoctor.bpf.c`)
hooks TCP state changes, TCP receive and retransmit, the scheduler, and the TC
ingress and egress of one interface. It keeps its findings in BPF maps and
reports anomalies through a ring buffer. A Go program (`cmd/`, `internal/`)
loads and attaches it, collects stale map entries, logs the anomalies and
exports everything to Prometheus. The hooks run on all CPUs at once, on shared
LRU maps, without locks; the agent reads and deletes in the same maps from
userspace. That is what these modules are about. The repository has no tests;
the claims checked are those of its comments, flag texts and metric help texts.

Paths below are relative to the repository; `bpf.c` is
`bpf/networkdoctor.bpf.c`.

## 1. Inventory

| Component | Code | State | Operations | Hard behaviour | What makes it correct |
|---|---|---|---|---|---|
| DNS latency | `bpf.c` 907-980, `internal/bpf/gc.go` 41-63 | `nd_dns_pending` (LRU), per-CPU counters, rcode and latency arrays | query, response, collection | lookup/measure/delete are separate; CPUs overtake each other; the collector compares with an old clock and deletes by key | a latency belongs to an earlier query for the same key; nothing is measured twice; only expired queries are collected, and all of them are |
| UDP flows | `bpf.c` 826-905, `gc.go` 65-87 | `nd_udp_flows` (LRU), per-CPU counters and duration buckets | packet, collection | several CPUs write one element through pointers, also after it has left the map | counts never exceed reality; long flows are long; the cooldown holds |
| TCP lifecycle | `bpf.c` 614-697 | `nd_tcp_conn_life` (LRU, keyed by socket address), per-CPU state deltas and counters | one handler for every state change | changes of one socket on different CPUs; reuse of addresses; eviction; connections older than the agent | gauges are exact relative to the attach; lifetimes are of the current connection |
| Run queue latency | `bpf.c` 996-1053 | `nd_runq_start` (LRU, by pid), latency buckets | wakeup, new task, switch | a wakeup may find its task running or queued | one sample per wakeup, exact for tasks woken from sleep |
| Metrics pipeline | `bpf.c` 447-472, `internal/bpf/reader.go`, `internal/metrics` | per-CPU arrays; none in userspace | record a sample, snapshot, emit | a snapshot is many system calls during which the hooks count on; lookups fail | `le` buckets mean what they say, series never go down, related series agree |
| Agent lifecycle | `cmd`, `internal/app`, `internal/bpf/{runtime,attach,tc,util}.go`, `internal/metrics/server.go`, `internal/worker/gc_worker.go` | links, TC filters on the interface, BPF objects, HTTP server | start, serve, signal, shut down, close | every start step can fail; TC filters outlive the process; shutdown races scrapes; a worker can panic | nothing is left behind, a serving agent is attached, a signal ends it |
| TCP flows, retransmission bursts | `bpf.c` 699-822 | `nd_tcp_flow_latest`, `nd_tcp_retrans_by_flow` (LRU, keyed by addresses and ports) | receive, retransmit | read-modify-write of whole values by two hooks; a tumbling window; sockets of different network namespaces with one key; eviction | a reported burst or drop is one; dense bursts are reported; cooldowns hold; counts are carried from sample to sample |
| Event pipeline | `bpf.c` 529-581, `internal/bpf/events.go`, `internal/worker/event_worker.go`, `internal/bpf/runtime.go` 72-83 | ring buffer, reader | reserve, submit, read, log, close | full ring, records filled out of order, read errors, closing under the reader's lock | what is accepted is logged once and in order; the worker survives errors; closing ends |
| Configuration | `internal/config`, `internal/app/app.go` 24-37, `internal/bpf/config.go`, `bpf.c` 406-445 | `nd_config` | parse, convert, write, default | truncation, zero, negative durations; hooks that run before the map is written | the thresholds in force are those of the flags, up to a microsecond |
| Packet parsing | `bpf.c` 826-861 | none | bounds checks, early returns | | decides which packets reach the handlers; byte layout not modelled |

Not modelled at all: generated bindings and plain data types (no behaviour),
`Describe` and the text of metrics (layout), the diagnosis backend, dashboards
and Helm chart that the README announces (no source), the study notes.

Interactions. The TC hook runs the UDP half and then the DNS half of a packet;
the halves share the clock reading and the flow key and nothing else, so each
has a module of its own. Both maps are collected by one worker, one after the
other. All hooks feed per-CPU arrays that `Snapshot` reads; Metrics models that
path once, for a histogram, the counter beside it and a gauge. All hooks but
the scheduler's wakeups submit to one ring, which EventPipe models once for any
anomaly. Agent decides when the hooks and the reader exist at all, and with
Config what thresholds they judge by.

## 2. Modules

| Module | Models |
|---|---|
| `LruMap` | an LRU hash map as the code uses it (external): update with eviction or failure, delete that may fail, the iteration order of a collector's pass |
| `DnsPending`, `DnsPendingProofs` | DNS latency tracking, and the proofs about it |
| `UdpFlows`, `UdpFlowsProofs` | UDP flow tracking |
| `TcpConn`, `TcpConnProofs` | TCP connection lifecycle; the proofs begin with lemmas about sums over finite sets |
| `RunqLat`, `RunqLatProofs` | run queue latency, with the part of the scheduler that fires the hooks |
| `TcpFlow`, `TcpFlowProofs` | TCP flow samples and retransmission bursts |
| `EventPipe`, `EventPipeProofs` | ring buffer, event worker, and the closing of the reader |
| `AnomalyLog` | abstract: what the event pipeline promises; `EventPipe` implements it |
| `Metrics`, `MetricsProofs` | from sample to scrape; the proofs begin with lemmas about sums over finite sets |
| `Config` | from threshold flags to the verdicts of the hooks (operators only) |
| `Agent`, `AgentProofs` | process lifecycle and the interface; extends `Config`, whose operators the proofs are about too |
| `MC*` | each of them set up for TLC: symmetry sets and constants that a cfg cannot write |

Definitions whose names end in `_Something` before a definition of the same
base name (`Latency_NoGuard` before `Latency`) are plausible mistakes; nothing
uses them in the specification. Substituting one shows that a property notices.

### How state and actions correspond to the code

*Grain.* Every access to a shared map is a step of its own. Updates of a CPU's
own array slot are folded into the neighbouring map access, since nobody else
writes that slot (where a reader could see the order, in Metrics, they are
separate steps). A handler reads the clock once, and so does a collector's pass.

*DnsPending.* `cpu[c].pc` is the place of a CPU in the handler: `Query` then
`QueryUpdate`; or `Response`, then `ResponseMiss`, or `ResponseMeasure` and
`ResponseDelete`, whose `bpf_map_delete_elem` may fail: the hook ignores that,
the entry stays, and `measured` begins again for it. `gc.pc` is the place of
the collector: `GcStart` (the ticker and `monotonicNowNS`),
`GcNextKey`/`GcEnd`/`GcIterFails`/`GcLookup` (the iterator, which asks for a key
and then for its value, and whose other errors end the pass),
`GcDelete`/`GcDeleteFails`. An entry's `id` and the variables `queries`, `lat`,
`measured` are history; `nd_events` counts submissions, delivered or not.
Timestamps are 64-bit unsigned: `Sub` wraps at `Word`. An error of
`ClockGettime` is a pass that does not take place. How many entries a pass
deleted is only logged.

*UdpFlows.* `bpf_map_lookup_elem` returns a pointer, so the map holds element
numbers and the elements live on after they left the map. `uv->packets++` is a
load (`Touch`) and a store (`Store`). `bytes` is handled exactly as `packets`
and left out. The kernel may hand the memory of a deleted element to another
key while a handler still points to it; that is not modelled.

*TcpConn.* One step per state change: the kernel makes the changes of a socket
under its lock, and different sockets have different keys. FIN stands for all
states between ESTABLISHED and CLOSE. Linux does not report TIME_WAIT through
this tracepoint for full sockets, so `ebpf_tcp_connections_time_wait` is not
covered. The hook does not check the protocol; other users of the tracepoint
would count as well. A hook interrupted on its own CPU by the same hook could
lose a per-CPU update; the model has no such nesting. The delete when a
connection leaves ESTABLISHED may fail; `kept` (history) are the sockets whose
entry such a delete has left, and a later connection of that socket may then be
given the age of the earlier one. `LifeIsCurrent` says that nothing else can do
that, `ShortLivedIsShort` that a connection is taken for short only if it was,
`kept` or not.

*RunqLat.* The kernel fires wakeup of and switch to a task under the lock of a
run queue, so each handler is one step with the scheduler's own. `dozing` are
tasks that have set their state to sleeping and are not switched out yet: the
kernel reports a wakeup for them too. The scheduler is external. `kept`
(history) are the tasks whose stamp a failing delete has left: the next switch
to such a task measures the stamp again, which `EachWakeupMeasuredOnce` does
not count as another sample.

*TcpFlow.* The kernel calls both hooks under the socket's lock, so `sock[s].pc`
is the place of a socket in its handler: `Rcv`, `RcvLookup` (with the
decisions), `RcvUpdate`; or `Retransmit`, `RtLookup`, `RtUpdate`, `FlowLookup`,
`FlowStore`, the last two being the load and the store of `retrans_count++`
through the element's pointer. `flow[s]` is the map key of a socket, which two
sockets may share: the key has no namespace and no interface. `elem` numbers
the elements an update puts in each other's place, so that a store through an
old pointer is lost. As in UdpFlows, the memory of an element that left the map
is not reused while a handler points to it. The kernel does reuse it at once:
if between the load and the store of `retrans_count++` another CPU's update
takes the element for a second key, the store changes that key's count, and
`RetransCountIsReal` does not hold of it. A flow is `Undisturbed` if its key belongs to one socket
and no update of it has failed or been evicted; the exact properties are about
such flows, the others (`BurstIsReal`, the bounds) about all. `last_seen_ns`
and `srtt_us` of the entries are never read and left out, and so is what the
histograms do (Metrics).

*EventPipe.* `ring` holds the reserved records in order; a record is readable
once its CPU has submitted it (`Reserve`, `Drop`, `Submit`). The worker is
between calls, inside `Read` (holding the reader's lock), or logging; an
undecodable record and a failing `Read` are errors of `ReadEvent`, and what
`RunEventWorker` does about them is `AfterError`. Inside `Read` the library
waits until something is in the ring, submitted or only reserved (`Wait`), and
from then on (`haveData`) spins at a busy record and returns filled ones, until
it has come to the end of the ring (`EndOfRing`). `Runtime.Close` first ends
the waiting (`ServeReturns`: `reader = "closing"`), which a spinning `Read`
does not notice, then takes the lock (`ReaderClosed`), then detaches. A signal
cancels the context at any time, also during `Close`. `accepted` and `skipped`
are history: the numbers of the records that found room and of those that could
not be decoded. The ring and `ringbuf.Reader` are external. The log line's text
is left out.

*Config.* `Options` is the conversion of `app.Run` (division towards zero, then
an unsigned word), `Unwritten` the all-zero entry of an array map,
`nd_get_config` the defaulting. `Follows` says what the flags come to in the
comparisons of the hooks.

*Metrics.* `IncHist` then `IncCounter` is the order in the programs;
`ReadOrder` the order in which `Snapshot` evaluates its fields. The kernel
copies the per-CPU slots one by one (`ReadSlot`), also those of the state
deltas behind a gauge, which `Enter` and `Leave` change. Both lookups of
`lookupPerCPU` failing is `LookupFails`; `failed` are the keys it happened to
in this scrape. -1 and -2 are the keys of the counter and of the gauge, beside
the numbers of the buckets.

*Agent.* One action for each call of `Start` that can fail, in the order of the
code. `closers` is `rt.links`; the two TC closers are added only when both
filters are in place. Every failure leads through `closeAll`. `Kill` is SIGKILL
or a crash. `excused` records filters that a failed `FilterDel`, a failed
egress replacement or the panic of the GC worker left. The clsact qdisc is
never removed by the code and does not matter to the next start. A second
signal is ignored, as the code ignores it. `configured` are the processes whose
`nd_config` has been written; what it holds is `Options` of their flags, and
since no step depends on these, `VerdictFollowsFlags` compares the verdicts for
all flags and latencies of the instance at once. A second agent may be started
beside the first: each replaces, and on exit deletes, the filters of the other.
`joined` marks them, since such an agent may serve without its TC filters; that
none of the two leaves a filter of its own behind holds all the same.

## 3. Runs

All passing runs check deadlock except RunqLatSafety (all tasks may sleep),
Agent and EventPipe (all processes may have ended), MetricsSafety,
TcpFlowSafety and TcpConnSafety (their bounds end the samples, packets, scrapes
and state changes).

| Run | Bounds | Shows |
|---|---|---|
| DnsPending | 2 CPUs, 2 keys, map of 1, 3 packets, time 3 | all interleavings of two handlers and a pass, with deletes and iterations that fail; a map of one entry makes every second key an eviction; 3 packets are a query, its response and a duplicate or a second query; an unanswered query is collected |
| DnsPendingGcRace | 1 CPU | *violation*: a re-used key is deleted although its query is new |
| UdpFlows | 2 CPUs, 1 flow, 3 packets, time 4 | lost updates, insert races, collection under a handler's feet, failing iterations; an idle flow is collected |
| TcpConnSafety | 2 IPv4 sockets and another one, map of 1, 4 state changes, 2 CPUs, any states at the attach | gauge, lifetimes, counters, also after a delete that failed |
| TcpConnClosed | the same, 2 changes | *violation*: a connection without an entry is not counted as closed |
| TcpFlowSafety | 2 sockets, 2 keys (shared or not), maps of 1, 2 samples, 3 retransmissions, window 2, threshold 2, time 4 | bursts, drops, cooldowns and counts, with lost updates and evictions |
| TcpFlowBurst | 1 socket, threshold 3, window 2, 4 retransmissions | *violation*: a burst between two windows |
| RunqLatSafety | 2 tasks, 2 CPUs, map of 1, 2 wakeups each, time 4 | samples per wakeup, overlap, exactness for sleepers, also after a delete that failed |
| MetricsSafety | 2 CPUs, 3 buckets, samples 2 and 5, two of them, one connection entering and one leaving, two scrapes, one failed lookup in each | a boundary value (2), one beyond the last bucket's nominal bound (5), torn reads of gauge, counter and buckets; what a failed lookup costs |
| EventPipe | 2 CPUs, ring of 2, 4 anomalies, 2 errors | a full ring, records filled out of order, errors of both kinds, closing at every point, a reader that spins at a busy record meanwhile; the refinement of AnomalyLog with its liveness |
| Agent | 2 agents, also side by side, 2 hooks for the 6, every call may fail, intervals zero and positive; threshold flags -9 to 11 ns with 4 ns to the microsecond | clean-up, takeover of leftover filters, thresholds in force, blind scrapes, termination |
| AgentEgressFails | 1 agent, only the egress replacement fails | *violation*: the ingress filter stays |

Why the bounds are enough: the hazards listed in PROJECT.json each need two
actors and one or two items; a third packet, a second scrape or a second
incarnation is there for what remains of the first. Time is small because only
comparisons with a threshold of one or two units matter; `Word` = 16 is larger than any
time plus cooldown, as 2^64 ns is, so that a wrapped subtraction is visible as
a huge number. CPUs, or sockets, are symmetric in the safety runs; runs with fairness
use no symmetry. `DenseBurstIsReported` has also been checked with threshold 3,
window 3 and 6 retransmissions of one socket, where it says more than with 2.

The panic that a `-gc-interval` of zero causes in the GC worker leaves both
filters behind: `FiltersAreCleanedUp` fails for it as well, with
`Fallible = {}` and `GcIntervals = {0}` in place of the constants of
AgentEgressFails.cfg. The collection race exists for UDP flows as for DNS
queries; `GcTakesOnlyIdle` states what holds in spite of it. The sum that
`emitLog2Histogram` estimates is conservative (`histogram.go:20`) only for
samples within the nominal bound of the last bucket: that bucket holds longer
ones too, each of which it counts as that bound. `BucketsAreExact` says that
the sum is never below what the samples come to with longer ones cut off there.
After a failed lookup the cumulative buckets and the total miss what that
bucket had; `FailureIsConfined` says that no other bucket of the answer is
touched. And a run
queue sample is the time a task waited only for tasks woken from sleep
(`SleeperSampleIsExact`): a wakeup also finds tasks that are still running.

### Fairness

Collectors: time passes (weak fairness of `Tick`); a BPF handler that has begun
ends, the kernel runs it to completion; the collector's goroutine runs and its
ticker fires, because `RunGCWorker` loops until the context is done; a system
call that is made again and again for the same key does not fail every time:
the iterator gets past it (strong fairness of `GcNextKey` for each key) and the
delete succeeds (strong fairness of `GcDelete`); the code tries both again in
the next pass. No packet need arrive.
Agent: the main goroutine goes on, and the shutdown context's timer fires. A
scrape may hang for ever, and nobody need start, signal or kill the agent.
EventPipe: a hook that has begun submits; the worker's goroutine runs; `Serve`
returns after a signal, within its five seconds; `Close` goes on. No anomaly
and no signal need come. `CloseEnds` rests on the fairness of `Submit`, since a
reader spinning at a busy record holds the lock, and on the anomalies ending
(`MaxEvents`): were they to arrive for ever, it would rest on the fairness of
Go's mutex, which hands the lock to one who has waited for it.

### Refinement

`AnomalyLog` has a queue, a log and three things that may happen to an accepted
anomaly: it is logged, skipped, or gone with the agent. `ImplementsAnomalyLog`
maps the queue to the record in the worker's hands followed by the ring's
records, readable or not, with room for one more than the ring. Dropping an
anomaly on a full ring, submitting, calling `Read`, its waiting and all of the
closing up to the exit are stutters. The weak fairness of the abstract log follows from that
of `Submit` and of the worker; after a signal, from that of the closing.

## 4. Proofs

Every component has a module of proofs. Each proves the safety properties of the
module's run for every set of CPUs, keys, sockets, tasks or processes, every
map and ring size, every number of buckets, every threshold and all bounds, so
the small instances of section 3 are no limit to them. A module of proofs
depends on its component's module alone; the few lemmas that several need (what
an update of an LRU map can change, division, sums) are stated in each.

| Module | Theorem | What it states |
|---|---|---|
| `DnsPendingProofs` | `TypeCorrect` | `TypeOK` |
| | `LatencySound` | `LatencyFromRealQuery`: the subtraction never wraps |
| | `MeasuredOnce` | `MeasuredOncePerCpu`, a delete that failed being another chance |
| | `CountersSound` | `CountersAgree` |
| | `CollectorSound` | `GcTakesOnlyExpired` (what a step may not do) |
| `UdpFlowsProofs` | `UdpTypeCorrect` | `TypeOK` |
| | `UdpCountSound` | `PacketsNotOvercounted` |
| | `UdpLongSound` | `LongFlowIsLong` |
| | `UdpCooldownSound` | `CooldownHeldOnOneCpu` |
| | `UdpCollectorSound` | `GcTakesOnlyIdle` (what a step may not do) |
| `TcpConnProofs` | `TcpTypeCorrect` | `TypeOK` |
| | `LifeCurrent` | `LifeIsCurrent` |
| | `ShortLivedSound` | `ShortLivedIsShort` |
| | `GaugeExact` | `GaugeIsDelta`: a sum over any number of CPUs |
| | `CountersSound` | `CountersWithinEvents` |
| `RunqLatProofs` | `WakeupsMeasuredOnce` | `EachWakeupMeasuredOnce` |
| | `SleeperSampleSound` | `SleeperSampleIsExact` |
| `TcpFlowProofs` | `FlowTyped` | the types of all variables |
| | `BurstSound` | `BurstIsReal` |
| | `DenseBurstSound` | `DenseBurstIsReported` |
| | `CooldownSound` | `CooldownHeld` |
| | `DropSound` | `DropIsReal` |
| | `RetransCountSound` | `RetransCountIsReal` |
| `EventPipeProofs` | `PipeTypeCorrect` | `TypeOK` |
| | `PipeAccounts` | `EveryRecordAccounted` |
| | `PipeImplementsLog` | `Promise!Safety`: the pipeline implements the safety part of AnomalyLog |
| `MetricsProofs` | `TypeCorrect` | the types of all variables |
| | `BucketsExact` | `BucketsAreExact`: cumulative sums, powers of two, the estimated sum |
| | `FailureConfined` | `FailureIsConfined`: a failed lookup costs its own bucket only |
| | `CounterWithin` | `CounterWithinHistogram` |
| | `GaugeWithin` | `GaugeWithinMoves` |
| | `NeverDown` | `NeverGoesDown` (what a step may not do) |
| `AgentProofs` | `AgentTypeCorrect` | `TypeOK` |
| | `ExitClean` | `ExitLeavesNothing` |
| | `ServingAttached` | `ServingIsAttached` |
| | `ScrapesSee` | `NoBlindScrape` |
| | `VerdictsFollow` | `VerdictFollowsFlags` |
| | `FlagsGovernVerdicts` | `Follows` for all flags and latencies, not only those of an instance |

### Assumptions

They are the ASSUMEs of the modules, which TLC evaluates in every run. Keys
are positive numbers and a map has room for at least one entry; unit sizes and
defaults are not zero; time, or time plus the cooldown, stays below the word
size (584 years of nanoseconds); `None` is not an entry. CPUs and sockets are
finitely many where they are counted (`TcpFiniteAssumption`,
`TcpFlowFiniteAssumption`), and so are the CPUs and the values recorded in
Metrics, which has 2 to 63 buckets (`MetricsAssumption`; the source has 32). Flags are what a Go `time.Duration` or an unsigned
count can hold (`IsFlags`), and a latency that a hook compares is below half
the word, so that no negative duration, which becomes a huge unsigned number,
is taken for it (`AgentAssumption`). `LruMap`'s account of the kernel's map, the
scheduler's steps in RunqLat and the socket lock are taken for granted: they
are external.

### The arguments

None of the properties is inductive by itself. What each invariant adds:

*DnsPending.* `NothingFromTheFuture` (no time stamp exceeds the clock),
`EntryIsQuery` (an entry is the record of the query with its id),
`InsertIsFresh` (a query not yet inserted is nowhere in the map, in no other
handler, and measured by nobody), `Placement` (a query that CPU c has measured,
with no failed delete since, is in the map only while c stands before its
delete on that very key),
`Condemned` (what the collector is about to delete was expired by its own
clock) and `ResponseCounted` (a response is counted before its latency is).
`MeasuredOnce` is the reason for `Placement`: CPU c can measure a query again
only if it finds it in the map, but between its measuring and its delete it
looks at nothing, and after the delete, unless that failed, the query is in no
slot and, by `InsertIsFresh`, nobody is about to put it back. `CollectorSound` follows from
`Condemned` and `NothingFromTheFuture`.

*UdpFlows.* Handlers write to an element without a lock, so what is known of it
depends on who wrote: `Busy` and `Elements` are bounds that hold for all
(a loaded count is at most what the element was shown), `Solo` the equalities
that hold while one CPU is the only user. `MapLeadsToFlow` (the map leads to an
element of that key) and `Condemned` (what the collector saw of the element it
is about to remove) carry the rest.

*TcpConn.* `Since` says when the present connection began; with it
`LifeIsCurrent` is inductive, and `ShortLivedIsShort` follows. The totals need
that changing one CPU's slot changes the sum by as much. The library defines
the sum by a fold; `UnrollingExists`, `SumUnrolls` and `SumUpdate` derive what
is needed by induction over the subsets of a finite set. The induction rule is
proved for sets (`SubsetInduction`), since the provers cannot instantiate one
that has an operator as parameter. For the failures, a connection being opened
is kept in the balance: failures plus those under way never exceed attempts
plus those under way at the attach.

*RunqLat.* `EntryIsWakeup` (what an entry stands for) and, for the exactness,
where a task woken from sleep can be: `Queue` and `WokenEntry` say that it is
queued, on no CPU and not dozing, so nothing stamps it again before it runs.

*TcpFlow.* Four invariants, each on top of `Typed`. `WindowsInv`: a window
counts retransmissions of its time and none whose handler has yet to look,
whoever overwrote whom; so a burst is real even when clock readings overtake
each other. `SamplesInv` and `StampsInv`: for an undisturbed flow the value in
the map, or on its way into it, has the latest window, the exact count and the
times of the last events. `SparseInv` is the argument for
`DenseBurstIsReported`: while nothing was reported, the times from any point of
the current window on are at most its count, less one after its beginning
(`Thin`), the count is short of the threshold, and those of earlier windows
within reach of its beginning are at most the threshold less two (`Few`), hence
at most `2 * RetransBurst - 3` within any window's length (`Many`). `ThinStep`
proves this for sets of times alone, apart from the state machine.

*EventPipe.* `HandIsLog` (the worker has a record in hand exactly while it is
about to log it) and `Numbered` (no number is in use that was not given out, so
a new record has a new one). With these every step maps to a step of AnomalyLog or to a
stutter.

*Agent.* `Listed` (the closers of a process are a beginning of the complete
list), `Progress` (its length follows the program counter) and `Ownership` (a
filter of a process that is closing is still on its list or excused) give
`ExitClean`; `Alone` says which agents had the interface to themselves, and
`Scrapes` who can still be scraping once the maps are closed.

*Metrics.* What a scrape has read is torn: some slots were read before a sample
was recorded and some after. The proof speaks instead of what the scrape holds:
of each key, what it has read so far plus what the slots it has yet to read
contain now (`Held`), beside what all slots contain (`Recorded`). Reading a slot
moves a number from one summand of `Held` to the other. Recording a sample
raises `Recorded` by one, and `Held` by one if that slot is still to be read,
else not at all. Before a scrape `Held` is `Recorded`, at its end it is the
snapshot. The invariant bounds `Held` from both sides: `NothingInvented` (no
more than was observed), `NothingMissed` (no less than at the begin, unless a
lookup fails), `GaugeClose`, `CounterFirst` (once the counter is read, it is at
most the total that is held), `Confined` (a bucket whose lookup failed holds
nothing, every other one still all of its range) and `Grown` (no less than the
answer before), with
`ProgramsExact` for what the programs recorded. `CounterFirst` is where both
orders matter: while the counter is read no bucket has been, so the total held
is all that was observed, and every sample counted is in a bucket already; from
then on the counter stands still and the total only grows. The sums over CPUs,
buckets and samples need the lemmas on sums; the bounds of the buckets need
powers of two to grow, which follows from 2^n being the number of subsets of
1..n (`Powers`).

### Only model-checked

Liveness under fairness, the fairness part of the refinement included, and what
involves ENABLED: the prover does not support them. That the
runs under "violation" are violated: a counterexample needs one instance only.

## 5. What the violations say

1. `gc.go:53` deletes by key what was inspected a system call earlier.
2. `bpf.c:671`: a connection whose entry is missing is never counted as closed.
3. `bpf.c:797`: the retransmission window tumbles, and a burst of the threshold's
   size may lie across two windows. `DenseBurstIsReported` states the size from
   which bursts are reported: twice the threshold less two.
4. `tc.go:38`: the ingress filter is forgotten when the egress one fails.

PROJECT.json quotes the text each of them contradicts.

## 6. Plan

Done: all modules of section 2; proofs of every safety property that a passing
run checks. To come:

1. Whether `LifeIsCurrent` and the like survive a finer grain (a hook nested on
   its own CPU).
2. The parsing of a packet (`bpf.c` 826-861) as an action with its early
   returns, if it can be said more briefly than the code says it.
