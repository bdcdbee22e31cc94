-------------------------- MODULE DnsPendingProofs --------------------------
(***************************************************************************)
(* What DnsPending guarantees for any number of CPUs, keys and packets,    *)
(* any map size and any thresholds.                                        *)
(*                                                                         *)
(* The invariants of interest are not inductive by themselves: that a CPU  *)
(* measures a query only once rests on where a query's entry can still be  *)
(* (Placement), and the age of what the collector removes rests on what it *)
(* knows of the entry it condemned (Condemned).                            *)
(***************************************************************************)
EXTENDS DnsPending, SequenceTheorems, TLAPS

-----------------------------------------------------------------------------
(* What an update of an LruMap can do, and ns / 1000.                      *)

(* bpf_map_update_elem leaves every entry as it was, takes it away, or,    *)
(* for the key updated, replaces it by the new value.                      *)
LEMMA UpdateEffect ==
  ASSUME NEW m, DOMAIN m = Keys, NEW k \in Keys, NEW v, NEW n \in LruUpdate(m, k, v),
         NEW j \in Keys
  PROVE  n[j] = m[j] \/ n[j] = None \/ (j = k /\ n[j] = v)
BY DEF LruUpdate, Present

(* It keeps a map of entries a map of entries. *)
LEMMA UpdateType ==
  ASSUME NEW S, NEW m \in [Keys -> S \cup {None}], NEW k \in Keys, NEW v \in S,
         NEW n \in LruUpdate(m, k, v)
  PROVE  n \in [Keys -> S \cup {None}]
<1>1. CASE n = m
  BY <1>1
<1>2. CASE n = [m EXCEPT ![k] = v]
  BY <1>2
<1>3. CASE \E e \in Keys : n = [m EXCEPT ![k] = v, ![e] = None]
  BY <1>3
<1> QED
  BY <1>1, <1>2, <1>3 DEF LruUpdate, Present

(* A quotient is at most its dividend. *)
LEMMA DivBound == ASSUME NEW x \in Nat, NEW n \in Nat \ {0} PROVE x \div n <= x
OBVIOUS

-----------------------------------------------------------------------------
(* The inductive invariant.                                                *)

(* Nothing in the map or in a handler is stamped later than now. *)
NothingFromTheFuture ==
  /\ \A k \in Keys : nd_dns_pending[k] # None => nd_dns_pending[k].start_ns <= clock
  /\ \A c \in Cpus : cpu[c].now <= clock
  /\ gc.now <= clock

(* An entry is the record of the query it was made from. *)
EntryIsQuery ==
  \A k \in Keys : nd_dns_pending[k] # None =>
    /\ nd_dns_pending[k].id \in 1..Len(queries)
    /\ queries[nd_dns_pending[k].id] = [key |-> k, at |-> nd_dns_pending[k].start_ns]

(* A query about to be inserted is in no map slot, in no other handler and *)
(* not measured by anyone.                                                 *)
InsertIsFresh ==
  \A c \in Cpus : cpu[c].pc = "update" =>
    /\ cpu[c].id \in 1..Len(queries)
    /\ queries[cpu[c].id] = [key |-> cpu[c].key, at |-> cpu[c].now]
    /\ \A k \in Keys : nd_dns_pending[k] # None => nd_dns_pending[k].id # cpu[c].id
    /\ \A d \in Cpus : measured[d][cpu[c].id] = 0
    /\ \A d \in Cpus \ {c} : cpu[d].pc = "update" => cpu[d].id # cpu[c].id

(* A query that a CPU has measured (since a delete of it last failed) is   *)
(* still in the map only while that CPU has yet to delete it.              *)
Placement ==
  \A c \in Cpus, i \in Ids : measured[c][i] # 0 =>
    /\ measured[c][i] = 1
    /\ i <= Len(queries)
    /\ \A k \in Keys : nd_dns_pending[k] # None /\ nd_dns_pending[k].id = i
                         => cpu[c].pc = "delete" /\ cpu[c].key = k /\ cpu[c].id = i

(* What the collector is about to delete was expired when it looked. *)
Condemned ==
  gc.pc = "delete" =>
    /\ gc.id \in 1..Len(queries)
    /\ queries[gc.id].at = gc.start_ns
    /\ gc.start_ns < gc.now
    /\ gc.now - gc.start_ns > DnsTimeout

(* A response that has not looked for its query yet is counted already. *)
ResponseCounted ==
  \A c \in Cpus :
    cpu[c].pc = "lookup"
      => nd_dns_latency_us_hist[c] < nd_dns_counters[c].response_total

IInv ==
  /\ TypeOK
  /\ NothingFromTheFuture
  /\ EntryIsQuery
  /\ InsertIsFresh
  /\ Placement
  /\ Condemned
  /\ LatencyFromRealQuery
  /\ CountersAgree
  /\ ResponseCounted

-----------------------------------------------------------------------------
(* Type correctness.                                                       *)

(* Every state of the hook and the collector has its type initially. *)
LEMMA TypeInit == Init => TypeOK
BY KeysAssumption, RcodesAssumption, BoundsAssumption
DEF Init, TypeOK, EmptyMap, IdleCpu, IdleGc, CpuState, GcState, Ids, Time, Entry,
    DnsCounters, DnsEvents

(* Every step of the hook and of the collector keeps every type. *)
LEMMA TypeStep == TypeOK /\ [Next]_vars => TypeOK'
<1> SUFFICES ASSUME TypeOK, [Next]_vars PROVE TypeOK'
  OBVIOUS
<1>1. CASE Tick
  BY <1>1, BoundsAssumption DEF TypeOK, Tick, kernelVars, Time
<1>2. ASSUME NEW c \in Cpus, NEW k \in Keys, Query(c, k) PROVE TypeOK'
  <2>1. queries' \in Seq([key : Keys, at : Time]) /\ Len(queries') = Len(queries) + 1
    BY <1>2 DEF TypeOK, Query
  <2>2. Len(queries) + 1 \in Ids /\ packets' \in 0..MaxPackets /\ packets' = packets + 1
    BY <1>2, BoundsAssumption DEF TypeOK, Query, Ids
  <2>3. [pc |-> "update", key |-> k, now |-> clock, id |-> Len(queries) + 1] \in CpuState
    BY <2>2 DEF CpuState, TypeOK
  <2>4. cpu' \in [Cpus -> CpuState]
    BY <1>2, <2>3 DEF TypeOK, Query
  <2>5. nd_dns_counters' \in [Cpus -> DnsCounters]
    <3>1. nd_dns_counters \in [Cpus -> DnsCounters]
      BY DEF TypeOK
    <3>2. nd_dns_counters' = [nd_dns_counters EXCEPT ![c].query_total = @ + 1]
      BY <1>2 DEF Query
    <3> QED
      BY <3>1, <3>2 DEF DnsCounters
  <2> QED
    BY <1>2, <2>1, <2>2, <2>4, <2>5 DEF TypeOK, Query
<1>3. ASSUME NEW c \in Cpus, NEW k \in Keys, NEW r \in Rcodes, Response(c, k, r)
      PROVE  TypeOK'
  <2>1. [pc |-> "lookup", key |-> k, now |-> clock, id |-> 0] \in CpuState
    BY DEF CpuState, TypeOK
  <2>2. cpu' \in [Cpus -> CpuState]
    BY <1>3, <2>1 DEF TypeOK, Response
  <2>3. nd_dns_rcode_total' \in [Cpus -> [Rcodes -> Nat]]
    BY <1>3 DEF TypeOK, Response
  <2>4. nd_dns_counters' \in [Cpus -> DnsCounters]
    <3>1. nd_dns_counters \in [Cpus -> DnsCounters]
      BY DEF TypeOK
    <3>2. \/ nd_dns_counters' = [nd_dns_counters EXCEPT ![c].response_total = @ + 1]
          \/ nd_dns_counters' = [nd_dns_counters EXCEPT ![c].response_total = @ + 1,
                                                        ![c].rcode_error_total = @ + 1]
      BY <1>3 DEF Response
    <3> QED
      BY <3>1, <3>2 DEF DnsCounters
  <2>5. nd_events' \in [Cpus -> DnsEvents]
    <3>1. nd_events \in [Cpus -> DnsEvents]
      BY DEF TypeOK
    <3>2. \/ nd_events' = nd_events
          \/ nd_events' = [nd_events EXCEPT ![c].rcode_error = @ + 1]
      BY <1>3 DEF Response
    <3> QED
      BY <3>1, <3>2 DEF DnsEvents
  <2>6. packets' \in 0..MaxPackets /\ packets' = packets + 1
    BY <1>3, BoundsAssumption DEF TypeOK, Response
  <2> QED
    BY <1>3, <2>2, <2>3, <2>4, <2>5, <2>6 DEF TypeOK, Response
<1>4. ASSUME NEW c \in Cpus, QueryUpdate(c) PROVE TypeOK'
  <2>1. cpu[c].key \in Keys /\ cpu[c].now \in Time /\ cpu[c].id \in Ids
    BY <1>4 DEF TypeOK, QueryUpdate, CpuState, IdleCpu
  <2>2. nd_dns_pending' \in [Keys -> Entry \cup {None}]
    <3>1. [start_ns |-> cpu[c].now, id |-> cpu[c].id] \in Entry
      BY <2>1 DEF Entry
    <3>2. nd_dns_pending \in [Keys -> Entry \cup {None}]
      BY DEF TypeOK
    <3>3. nd_dns_pending' \in LruUpdate(nd_dns_pending, cpu[c].key,
                                        [start_ns |-> cpu[c].now, id |-> cpu[c].id])
      BY <1>4 DEF QueryUpdate, PendingValue
    <3> QED
      BY <2>1, <3>1, <3>2, <3>3, UpdateType
  <2>3. cpu' \in [Cpus -> CpuState]
    BY <1>4 DEF TypeOK, QueryUpdate, CpuState
  <2> QED
    BY <1>4, <2>2, <2>3 DEF TypeOK, QueryUpdate
<1>5. ASSUME NEW c \in Cpus, ResponseMiss(c) PROVE TypeOK'
  <2>1. cpu' \in [Cpus -> CpuState]
    BY <1>5 DEF TypeOK, ResponseMiss, CpuState
  <2> QED
    BY <1>5, <2>1 DEF TypeOK, ResponseMiss
<1>6. ASSUME NEW c \in Cpus, ResponseMeasure(c) PROVE TypeOK'
  <2> DEFINE e == nd_dns_pending[cpu[c].key]
             us == Latency(cpu[c].now, e.start_ns)
  <2>1. cpu[c] \in [pc : {"lookup"}, key : Keys, now : Time, id : {0}]
    <3>1. cpu[c] \in CpuState /\ cpu[c].pc = "lookup"
      BY <1>6 DEF TypeOK, ResponseMeasure
    <3> QED
      BY <3>1 DEF CpuState, IdleCpu
  <2>2. e \in Entry
    BY <1>6, <2>1 DEF TypeOK, ResponseMeasure
  <2>3. us \in Nat
    BY <2>1, <2>2, BoundsAssumption, DurationsAssumption DEF Latency, Sub, Time, Entry
  <2>4. cpu' \in [Cpus -> CpuState]
    <3>1. [cpu[c] EXCEPT !.pc = "delete", !.id = e.id] \in CpuState
      BY <2>1, <2>2 DEF CpuState, Entry
    <3> QED
      BY <1>6, <3>1 DEF TypeOK, ResponseMeasure
  <2>5. lat' \subseteq [key : Keys, id : Ids, now : Time, us : Nat \ {0}]
    <3>1. lat \subseteq [key : Keys, id : Ids, now : Time, us : Nat \ {0}]
      BY DEF TypeOK
    <3>2. CASE us > 0
      <4>1. lat' = lat \cup {[key |-> cpu[c].key, id |-> e.id, now |-> cpu[c].now,
                              us |-> us]}
        BY <1>6, <3>2 DEF ResponseMeasure
      <4>2. us \in Nat \ {0} /\ e.id \in Ids /\ cpu[c].key \in Keys /\ cpu[c].now \in Time
        BY <2>1, <2>2, <2>3, <3>2 DEF Entry
      <4> HIDE DEF us, e
      <4> QED
        BY <3>1, <4>1, <4>2
    <3>3. CASE ~(us > 0)
      BY <1>6, <3>1, <3>3 DEF ResponseMeasure
    <3> QED
      BY <3>2, <3>3
  <2>6. measured' \in [Cpus -> [Ids -> Nat]]
    BY <1>6, <2>2 DEF TypeOK, ResponseMeasure, Entry
  <2>7. nd_dns_latency_us_hist' \in [Cpus -> Nat]
    BY <1>6 DEF TypeOK, ResponseMeasure
  <2>8. nd_dns_counters' \in [Cpus -> DnsCounters]
    <3>1. nd_dns_counters \in [Cpus -> DnsCounters]
      BY DEF TypeOK
    <3>2. \/ nd_dns_counters' = nd_dns_counters
          \/ nd_dns_counters' = [nd_dns_counters EXCEPT ![c].slow_total = @ + 1]
      BY <1>6 DEF ResponseMeasure
    <3> QED
      BY <3>1, <3>2 DEF DnsCounters
  <2>9. nd_events' \in [Cpus -> DnsEvents]
    <3>1. nd_events \in [Cpus -> DnsEvents]
      BY DEF TypeOK
    <3>2. \/ nd_events' = nd_events
          \/ nd_events' = [nd_events EXCEPT ![c].slow = @ + 1]
      BY <1>6 DEF ResponseMeasure
    <3> QED
      BY <3>1, <3>2 DEF DnsEvents
  <2> QED
    BY <1>6, <2>4, <2>5, <2>6, <2>7, <2>8, <2>9 DEF TypeOK, ResponseMeasure
<1>7. ASSUME NEW c \in Cpus, ResponseDelete(c) PROVE TypeOK'
  <2>1. cpu' \in [Cpus -> CpuState]
    BY <1>7 DEF TypeOK, ResponseDelete, CpuState
  <2>2. nd_dns_pending' \in [Keys -> Entry \cup {None}]
    BY <1>7 DEF TypeOK, ResponseDelete, LruDelete, LruWithout
  <2>3. measured' \in [Cpus -> [Ids -> Nat]]
    BY <1>7 DEF TypeOK, ResponseDelete
  <2> QED
    BY <1>7, <2>1, <2>2, <2>3 DEF TypeOK, ResponseDelete
<1>8. CASE GcStart
  BY <1>8 DEF TypeOK, GcStart, kernelVars, GcState, IdleGc
<1>9. ASSUME NEW k \in Keys, GcNextKey(k) PROVE TypeOK'
  <2>1. gc \in [pc : {"next"}, now : Time, cursor : Keys \cup {0}, count : Nat,
                start_ns : {0}, id : {0}]
    BY <1>9 DEF TypeOK, GcNextKey, GcState, IdleGc
  <2>2. gc' = [gc EXCEPT !.pc = "lookup", !.cursor = k, !.count = @ + 1]
    BY <1>9 DEF GcNextKey
  <2>3. gc' \in [pc : {"lookup"}, now : Time, cursor : Keys, count : Nat,
                 start_ns : {0}, id : {0}]
    <3>1. gc.count + 1 \in Nat /\ gc.now \in Time /\ gc.start_ns = 0 /\ gc.id = 0
      BY <2>1
    <3>2. gc' = [pc |-> "lookup", now |-> gc.now, cursor |-> k, count |-> gc.count + 1,
                 start_ns |-> gc.start_ns, id |-> gc.id]
      BY <2>1, <2>2
    <3> QED
      BY <3>1, <3>2
  <2>4. gc' \in GcState
    BY <2>3 DEF GcState
  <2> QED
    BY <1>9, <2>4 DEF TypeOK, GcNextKey, kernelVars
<1>10. CASE GcEnd \/ GcIterFails
  BY <1>10 DEF TypeOK, GcEnd, GcIterFails, kernelVars, GcState
<1>11. CASE GcLookup
  <2>1. gc \in [pc : {"lookup"}, now : Time, cursor : Keys, count : Nat,
                start_ns : {0}, id : {0}]
    BY <1>11 DEF TypeOK, GcLookup, GcState, IdleGc
  <2>2. gc' \in GcState
    BY <1>11, <2>1, ZenonT(30) DEF TypeOK, GcLookup, GcState, Entry
  <2> QED
    BY <1>11, <2>2 DEF TypeOK, GcLookup, kernelVars
<1>12. ASSUME GcDelete \/ GcDeleteFails PROVE TypeOK'
  <2>1. gc \in [pc : {"delete"}, now : Time, cursor : Keys, count : Nat,
                start_ns : Time, id : Ids]
    BY <1>12 DEF TypeOK, GcDelete, GcDeleteFails, GcState, IdleGc
  <2>2. gc' \in [pc : {"next"}, now : Time, cursor : Keys \cup {0}, count : Nat,
                 start_ns : {0}, id : {0}]
    BY <1>12, <2>1 DEF GcDelete, GcDeleteFails
  <2>3. nd_dns_pending' \in [Keys -> Entry \cup {None}]
    BY <1>12 DEF TypeOK, GcDelete, GcDeleteFails, LruWithout
  <2>4. gc' \in GcState
    BY <2>2 DEF GcState
  <2> QED
    BY <1>12, <2>3, <2>4 DEF TypeOK, GcDelete, GcDeleteFails, kernelVars
<1>13. CASE UNCHANGED vars
  BY <1>13 DEF TypeOK, vars, kernelVars
<1> QED
  BY <1>1, <1>2, <1>3, <1>4, <1>5, <1>6, <1>7, <1>8, <1>9, <1>10, <1>11, <1>12,
     <1>13 DEF Next, Hook, Collector

-----------------------------------------------------------------------------
(* What any step does to one slot of the map, to one handler, to the       *)
(* history and to the collector.                                           *)

(* An entry stays, goes, or is what a handler about to insert puts there. *)
LEMMA MapFrame ==
  ASSUME TypeOK, [Next]_vars, NEW k \in Keys
  PROVE  \/ nd_dns_pending'[k] = nd_dns_pending[k]
         \/ nd_dns_pending'[k] = None
         \/ \E c \in Cpus :
              /\ QueryUpdate(c)
              /\ cpu[c].key = k
              /\ nd_dns_pending'[k] = [start_ns |-> cpu[c].now, id |-> cpu[c].id]
<1>1. ASSUME NEW c \in Cpus, QueryUpdate(c)
      PROVE  \/ nd_dns_pending'[k] = nd_dns_pending[k]
             \/ nd_dns_pending'[k] = None
             \/ /\ cpu[c].key = k
                /\ nd_dns_pending'[k] = [start_ns |-> cpu[c].now, id |-> cpu[c].id]
  <2>1. cpu[c].key \in Keys /\ cpu[c].now \in Time /\ cpu[c].id \in Ids
    BY <1>1 DEF TypeOK, QueryUpdate, CpuState, IdleCpu
  <2>2. DOMAIN nd_dns_pending = Keys
    BY DEF TypeOK
  <2>3. nd_dns_pending' \in LruUpdate(nd_dns_pending, cpu[c].key,
                                      [start_ns |-> cpu[c].now, id |-> cpu[c].id])
    BY <1>1 DEF QueryUpdate, PendingValue
  <2> QED
    BY <2>1, <2>2, <2>3, UpdateEffect
<1>2. ASSUME NEW c \in Cpus, ResponseDelete(c)
      PROVE  nd_dns_pending'[k] = nd_dns_pending[k] \/ nd_dns_pending'[k] = None
  BY <1>2 DEF TypeOK, ResponseDelete, LruDelete, LruWithout
<1>3. ASSUME GcDelete
      PROVE  nd_dns_pending'[k] = nd_dns_pending[k] \/ nd_dns_pending'[k] = None
  BY <1>3 DEF TypeOK, GcDelete, LruWithout
<1>4. \/ nd_dns_pending' = nd_dns_pending
      \/ GcDelete
      \/ \E c \in Cpus : QueryUpdate(c) \/ ResponseDelete(c)
  BY DEF Next, Hook, Collector, Tick, Query, Response, ResponseMiss, ResponseMeasure,
         GcStart, GcNextKey, GcEnd, GcIterFails, GcLookup, GcDeleteFails, vars
<1> QED
  BY <1>1, <1>2, <1>3, <1>4

(* A handler is left alone, finishes, starts, or has just measured. *)
LEMMA CpuFrame ==
  ASSUME TypeOK, [Next]_vars, NEW c \in Cpus
  PROVE  \/ cpu'[c] = cpu[c]
         \/ cpu'[c] = IdleCpu
         \/ \E k \in Keys : Query(c, k)
         \/ \E k \in Keys, r \in Rcodes : Response(c, k, r)
         \/ ResponseMeasure(c)
<1>1. ASSUME NEW d \in Cpus, Hook(d) PROVE d # c => cpu'[c] = cpu[c]
  BY <1>1 DEF TypeOK, Hook, Query, Response, QueryUpdate, ResponseMiss, ResponseMeasure,
              ResponseDelete
<1>2. QueryUpdate(c) \/ ResponseMiss(c) \/ ResponseDelete(c) => cpu'[c] = IdleCpu
  BY DEF TypeOK, QueryUpdate, ResponseMiss, ResponseDelete
<1>3. cpu' = cpu \/ \E d \in Cpus : Hook(d)
  BY DEF Next, Collector, Tick, GcStart, GcNextKey, GcEnd, GcIterFails, GcLookup, GcDelete,
         GcDeleteFails, vars, kernelVars
<1> QED
  BY <1>1, <1>2, <1>3 DEF Hook

(* The history of queries only grows. *)
LEMMA QueriesFrame ==
  ASSUME TypeOK, [Next]_vars
  PROVE  /\ Len(queries) \in Nat /\ Len(queries') \in Nat
         /\ Len(queries) <= Len(queries')
         /\ \A i \in 1..Len(queries) : queries'[i] = queries[i]
<1>1. ASSUME NEW c \in Cpus, NEW k \in Keys, Query(c, k)
      PROVE  queries' = Append(queries, [key |-> k, at |-> clock])
  BY <1>1 DEF Query
<1>2. queries' = queries \/ \E c \in Cpus, k \in Keys : Query(c, k)
  BY DEF Next, Hook, Collector, Tick, Response, QueryUpdate, ResponseMiss,
         ResponseMeasure, ResponseDelete, GcStart, GcNextKey, GcEnd, GcIterFails, GcLookup,
         GcDelete, GcDeleteFails, vars, kernelVars
<1>3. queries \in Seq([key : Keys, at : Time]) /\ clock \in Time
  BY DEF TypeOK
<1>4. ASSUME NEW k \in Keys, queries' = Append(queries, [key |-> k, at |-> clock])
      PROVE  /\ Len(queries') = Len(queries) + 1
             /\ \A i \in 1..Len(queries) : queries'[i] = queries[i]
  <2>1. [key |-> k, at |-> clock] \in [key : Keys, at : Time]
    BY <1>3
  <2> QED
    BY <1>3, <1>4, <2>1, AppendProperties
<1>5. Len(queries) \in Nat
  BY <1>3
<1>6. CASE queries' = queries
  BY <1>5, <1>6
<1>7. CASE \E c \in Cpus, k \in Keys : Query(c, k)
  <2>1. PICK c \in Cpus, k \in Keys : Query(c, k)
    BY <1>7
  <2>2. /\ Len(queries') = Len(queries) + 1
        /\ \A i \in 1..Len(queries) : queries'[i] = queries[i]
    BY <1>1, <1>4, <2>1
  <2> QED
    BY <1>5, <2>2
<1> QED
  BY <1>2, <1>6, <1>7

(* A measurement is one handler's, of the entry it has found; the tally    *)
(* starts again when the handler's delete has left the entry there.        *)
LEMMA MeasuredFrame ==
  ASSUME TypeOK, [Next]_vars, NEW c \in Cpus, NEW i \in Ids
  PROVE  \/ measured'[c][i] = measured[c][i]
         \/ /\ ResponseMeasure(c)
            /\ i = nd_dns_pending[cpu[c].key].id
            /\ measured'[c][i] = measured[c][i] + 1
         \/ ResponseDelete(c) /\ measured'[c][i] = 0
<1>1. ASSUME NEW d \in Cpus, ResponseMeasure(d)
      PROVE  \/ measured'[c][i] = measured[c][i]
             \/ /\ c = d
                /\ i = nd_dns_pending[cpu[c].key].id
                /\ measured'[c][i] = measured[c][i] + 1
  <2>1. measured \in [Cpus -> [Ids -> Nat]]
    BY DEF TypeOK
  <2>2. measured' = [measured EXCEPT ![d][nd_dns_pending[cpu[d].key].id] = @ + 1]
    BY <1>1 DEF ResponseMeasure
  <2> QED
    BY <2>1, <2>2
<1>2. ASSUME NEW d \in Cpus, ResponseDelete(d)
      PROVE  measured'[c][i] = measured[c][i] \/ (c = d /\ measured'[c][i] = 0)
  <2>1. measured \in [Cpus -> [Ids -> Nat]]
    BY DEF TypeOK
  <2>2. measured' = measured \/ measured' = [measured EXCEPT ![d][cpu[d].id] = 0]
    BY <1>2 DEF ResponseDelete
  <2> QED
    BY <2>1, <2>2
<1>3. measured' = measured \/ \E d \in Cpus : ResponseMeasure(d) \/ ResponseDelete(d)
  BY DEF Next, Hook, Collector, Tick, Query, Response, QueryUpdate, ResponseMiss,
         GcStart, GcNextKey, GcEnd, GcIterFails, GcLookup, GcDelete, GcDeleteFails,
         vars, kernelVars
<1> QED
  BY <1>1, <1>2, <1>3

(* The clock never goes back. *)
LEMMA ClockFrame ==
  ASSUME TypeOK, [Next]_vars
  PROVE  clock \in Nat /\ clock' \in Nat /\ clock <= clock'
<1>1. clock' = clock \/ Tick
  BY DEF Next, Hook, Collector, Query, Response, QueryUpdate, ResponseMiss,
         ResponseMeasure, ResponseDelete, GcStart, GcNextKey, GcEnd, GcIterFails, GcLookup, GcDelete,
         GcDeleteFails, vars
<1> QED
  BY <1>1, BoundsAssumption DEF TypeOK, Time, Tick

-----------------------------------------------------------------------------
(* The parts of the inductive invariant, one by one.                       *)

(* No step stamps anything later than the clock it runs at. *)
LEMMA FutureStep == IInv /\ [Next]_vars => NothingFromTheFuture'
<1> SUFFICES ASSUME IInv, [Next]_vars PROVE NothingFromTheFuture'
  OBVIOUS
<1>t. TypeOK /\ TypeOK'
  BY TypeStep DEF IInv
<1>c. clock \in Nat /\ clock' \in Nat /\ clock <= clock'
  BY <1>t, ClockFrame
<1>1. ASSUME NEW k \in Keys, nd_dns_pending'[k] # None
      PROVE  nd_dns_pending'[k].start_ns <= clock'
  <2>1. CASE nd_dns_pending'[k] = nd_dns_pending[k]
    <3>1. nd_dns_pending[k] \in Entry
      BY <1>t, <1>1, <2>1 DEF TypeOK
    <3>2. nd_dns_pending[k].start_ns \in Nat /\ nd_dns_pending[k].start_ns <= clock
      BY <1>1, <2>1, <3>1, BoundsAssumption DEF IInv, NothingFromTheFuture, Entry, Time
    <3> QED
      BY <1>c, <2>1, <3>2
  <2>2. ASSUME NEW c \in Cpus, QueryUpdate(c),
               nd_dns_pending'[k] = [start_ns |-> cpu[c].now, id |-> cpu[c].id]
        PROVE  nd_dns_pending'[k].start_ns <= clock'
    <3>1. cpu[c].now \in Time
      BY <1>t, <2>2 DEF TypeOK, QueryUpdate, CpuState, IdleCpu
    <3>2. cpu[c].now \in Nat /\ cpu[c].now <= clock
      BY <3>1, BoundsAssumption DEF IInv, NothingFromTheFuture, Time
    <3> QED
      BY <1>c, <2>2, <3>2
  <2> QED
    BY <1>t, <1>1, <2>1, <2>2, MapFrame
<1>2. ASSUME NEW c \in Cpus PROVE cpu'[c].now <= clock'
  <2>1. cpu[c].now \in Nat /\ cpu[c].now <= clock
    BY <1>t, BoundsAssumption
    DEF IInv, NothingFromTheFuture, TypeOK, CpuState, IdleCpu, Time
  <2>2. CASE cpu'[c] = cpu[c]
    BY <1>c, <2>1, <2>2
  <2>3. CASE cpu'[c] = IdleCpu
    BY <1>c, <2>3 DEF IdleCpu
  <2>4. ASSUME NEW k \in Keys, NEW r \in Rcodes, Query(c, k) \/ Response(c, k, r)
        PROVE  cpu'[c].now <= clock'
    <3>1. cpu'[c].now = clock
      BY <1>t, <2>4 DEF Query, Response, TypeOK
    <3> QED
      BY <1>c, <3>1
  <2>5. CASE ResponseMeasure(c)
    <3>1. cpu[c] \in [pc : {"lookup"}, key : Keys, now : Time, id : {0}]
      <4>1. cpu[c] \in CpuState /\ cpu[c].pc = "lookup"
        BY <1>t, <2>5 DEF TypeOK, ResponseMeasure
      <4> QED
        BY <4>1 DEF CpuState, IdleCpu
    <3>2. cpu'[c] = [cpu[c] EXCEPT !.pc = "delete", !.id = nd_dns_pending[cpu[c].key].id]
      BY <1>t, <2>5 DEF TypeOK, ResponseMeasure
    <3>3. cpu'[c].now = cpu[c].now
      BY <3>1, <3>2
    <3> QED
      BY <1>c, <2>1, <3>3
  <2> QED
    BY <1>t, <2>2, <2>3, <2>4, <2>5, CpuFrame, RcodesAssumption
<1>3. gc'.now <= clock'
  <2>1. gc.now \in Nat /\ gc.now <= clock
    BY <1>t, BoundsAssumption DEF IInv, NothingFromTheFuture, TypeOK, GcState, IdleGc, Time
  <2>2. CASE gc' = gc
    BY <1>c, <2>1, <2>2
  <2>3. CASE GcStart
    BY <1>c, <2>3 DEF GcStart, IdleGc
  <2>4. CASE gc' = IdleGc
    BY <1>c, <2>4 DEF IdleGc
  <2>5. CASE (\E k \in Keys : GcNextKey(k)) \/ GcLookup \/ GcDelete \/ GcDeleteFails
    <3>1. gc'.now = gc.now
      BY <1>t, <2>5 DEF GcNextKey, GcLookup, GcDelete, GcDeleteFails, TypeOK, GcState, IdleGc
    <3> QED
      BY <1>c, <2>1, <3>1
  <2> QED
    BY <2>2, <2>3, <2>4, <2>5
    DEF Next, Hook, Collector, Tick, Query, Response, QueryUpdate, ResponseMiss,
        ResponseMeasure, ResponseDelete, GcEnd, GcIterFails, vars
<1> QED
  BY <1>1, <1>2, <1>3 DEF NothingFromTheFuture

(* Entries stay records of queries the hook has seen. *)
LEMMA EntryStep == IInv /\ [Next]_vars => EntryIsQuery'
<1> SUFFICES ASSUME IInv, [Next]_vars, NEW k \in Keys, nd_dns_pending'[k] # None
             PROVE  /\ nd_dns_pending'[k].id \in 1..Len(queries')
                    /\ queries'[nd_dns_pending'[k].id]
                         = [key |-> k, at |-> nd_dns_pending'[k].start_ns]
  BY DEF EntryIsQuery
<1>t. TypeOK
  BY DEF IInv
<1>q. /\ Len(queries) \in Nat /\ Len(queries') \in Nat
      /\ Len(queries) <= Len(queries')
      /\ \A i \in 1..Len(queries) : queries'[i] = queries[i]
  BY <1>t, QueriesFrame
<1>1. CASE nd_dns_pending'[k] = nd_dns_pending[k]
  BY <1>q, <1>1 DEF IInv, EntryIsQuery
<1>2. ASSUME NEW c \in Cpus, QueryUpdate(c), cpu[c].key = k,
             nd_dns_pending'[k] = [start_ns |-> cpu[c].now, id |-> cpu[c].id]
      PROVE  /\ nd_dns_pending'[k].id \in 1..Len(queries')
             /\ queries'[nd_dns_pending'[k].id]
                  = [key |-> k, at |-> nd_dns_pending'[k].start_ns]
  <2>1. /\ cpu[c].id \in 1..Len(queries)
        /\ queries[cpu[c].id] = [key |-> k, at |-> cpu[c].now]
    BY <1>2 DEF IInv, InsertIsFresh, QueryUpdate
  <2> QED
    BY <1>q, <1>2, <2>1
<1> QED
  BY <1>t, <1>1, <1>2, MapFrame

(* A handler that has read a query but not inserted it keeps it to itself. *)
LEMMA InsertStep == IInv /\ [Next]_vars => InsertIsFresh'
<1> SUFFICES ASSUME IInv, [Next]_vars, NEW c \in Cpus, cpu'[c].pc = "update"
             PROVE  /\ cpu'[c].id \in 1..Len(queries')
                    /\ queries'[cpu'[c].id] = [key |-> cpu'[c].key, at |-> cpu'[c].now]
                    /\ \A k \in Keys : nd_dns_pending'[k] # None
                                        => nd_dns_pending'[k].id # cpu'[c].id
                    /\ \A d \in Cpus : measured'[d][cpu'[c].id] = 0
                    /\ \A d \in Cpus \ {c} : cpu'[d].pc = "update"
                                             => cpu'[d].id # cpu'[c].id
  BY DEF InsertIsFresh
<1>t. TypeOK
  BY DEF IInv
<1>q. /\ Len(queries) \in Nat /\ Len(queries') \in Nat
      /\ Len(queries) <= Len(queries')
      /\ \A i \in 1..Len(queries) : queries'[i] = queries[i]
  BY <1>t, QueriesFrame
<1>n. ASSUME NEW d \in Cpus, NEW k \in Keys, Query(d, k)
      PROVE  /\ cpu'[d].id = Len(queries) + 1 /\ cpu'[d].key = k /\ cpu'[d].now = clock
             /\ Len(queries') = Len(queries) + 1
             /\ queries'[Len(queries) + 1] = [key |-> k, at |-> clock]
             /\ nd_dns_pending' = nd_dns_pending /\ measured' = measured
             /\ \A x \in Cpus \ {d} : cpu'[x] = cpu[x]
             /\ Len(queries) + 1 \in Ids
  <2>1. cpu'[d] = [pc |-> "update", key |-> k, now |-> clock, id |-> Len(queries) + 1]
    BY <1>t, <1>n DEF Query, TypeOK
  <2>2. /\ Len(queries') = Len(queries) + 1
        /\ queries'[Len(queries) + 1] = [key |-> k, at |-> clock]
        /\ nd_dns_pending' = nd_dns_pending /\ measured' = measured
        /\ \A x \in Cpus \ {d} : cpu'[x] = cpu[x]
        /\ Len(queries) + 1 \in Ids
    BY <1>t, <1>n, BoundsAssumption DEF Query, TypeOK, Ids
  <2> QED
    BY <2>1, <2>2
<1>m. ASSUME NEW d \in Cpus, ResponseMeasure(d) PROVE cpu'[d].pc = "delete"
  <2>1. cpu[d] \in [pc : {"lookup"}, key : Keys, now : Time, id : {0}]
    <3>1. cpu[d] \in CpuState /\ cpu[d].pc = "lookup"
      BY <1>t, <1>m DEF TypeOK, ResponseMeasure
    <3> QED
      BY <3>1 DEF CpuState, IdleCpu
  <2>2. cpu'[d] = [cpu[d] EXCEPT !.pc = "delete", !.id = nd_dns_pending[cpu[d].key].id]
    BY <1>t, <1>m DEF TypeOK, ResponseMeasure
  <2> QED
    BY <2>1, <2>2
<1>r. ASSUME NEW d \in Cpus, NEW k \in Keys, NEW r \in Rcodes, Response(d, k, r)
      PROVE  cpu'[d].pc = "lookup"
  BY <1>t, <1>r DEF Response, TypeOK
<1>f. \A d \in Cpus : cpu'[d].pc = "update"
        => cpu'[d] = cpu[d] \/ \E k \in Keys : Query(d, k)
  BY <1>t, <1>m, <1>r, CpuFrame DEF IdleCpu
<1>1. ASSUME NEW k \in Keys, Query(c, k)
      PROVE  /\ cpu'[c].id \in 1..Len(queries')
             /\ queries'[cpu'[c].id] = [key |-> cpu'[c].key, at |-> cpu'[c].now]
             /\ \A j \in Keys : nd_dns_pending'[j] # None
                                 => nd_dns_pending'[j].id # cpu'[c].id
             /\ \A d \in Cpus : measured'[d][cpu'[c].id] = 0
             /\ \A d \in Cpus \ {c} : cpu'[d].pc = "update"
                                      => cpu'[d].id # cpu'[c].id
  <2>1. ASSUME NEW j \in Keys, nd_dns_pending[j] # None
        PROVE  nd_dns_pending[j].id # Len(queries) + 1
    <3>1. nd_dns_pending[j].id \in 1..Len(queries)
      BY <2>1 DEF IInv, EntryIsQuery
    <3> QED
      BY <1>q, <3>1
  <2>2. ASSUME NEW d \in Cpus PROVE measured[d][Len(queries) + 1] = 0
    <3>1. Len(queries) + 1 \in Ids
      BY <1>n, <1>1
    <3>2. measured[d][Len(queries) + 1] # 0 => Len(queries) + 1 <= Len(queries)
      BY <3>1 DEF IInv, Placement
    <3> QED
      BY <1>q, <3>2
  <2>3. ASSUME NEW d \in Cpus, cpu[d].pc = "update" PROVE cpu[d].id # Len(queries) + 1
    <3>1. cpu[d].id \in 1..Len(queries)
      BY <2>3 DEF IInv, InsertIsFresh
    <3> QED
      BY <1>q, <3>1
  <2>4. /\ cpu'[c].id = Len(queries) + 1 /\ cpu'[c].key = k /\ cpu'[c].now = clock
        /\ Len(queries') = Len(queries) + 1
        /\ queries'[Len(queries) + 1] = [key |-> k, at |-> clock]
        /\ nd_dns_pending' = nd_dns_pending /\ measured' = measured
        /\ \A d \in Cpus \ {c} : cpu'[d] = cpu[d]
    BY <1>n, <1>1
  <2>5. cpu'[c].id \in 1..Len(queries')
    BY <1>q, <2>4
  <2> QED
    BY <2>1, <2>2, <2>3, <2>4, <2>5
<1>2. ASSUME cpu'[c] = cpu[c]
      PROVE  /\ cpu'[c].id \in 1..Len(queries')
             /\ queries'[cpu'[c].id] = [key |-> cpu'[c].key, at |-> cpu'[c].now]
             /\ \A k \in Keys : nd_dns_pending'[k] # None
                                 => nd_dns_pending'[k].id # cpu'[c].id
             /\ \A d \in Cpus : measured'[d][cpu'[c].id] = 0
             /\ \A d \in Cpus \ {c} : cpu'[d].pc = "update"
                                      => cpu'[d].id # cpu'[c].id
  <2>1. /\ cpu[c].id \in 1..Len(queries)
        /\ queries[cpu[c].id] = [key |-> cpu[c].key, at |-> cpu[c].now]
        /\ \A k \in Keys : nd_dns_pending[k] # None => nd_dns_pending[k].id # cpu[c].id
        /\ \A d \in Cpus : measured[d][cpu[c].id] = 0
        /\ \A d \in Cpus \ {c} : cpu[d].pc = "update" => cpu[d].id # cpu[c].id
    BY <1>2 DEF IInv, InsertIsFresh
  <2>2. cpu[c].id \in Ids
    <3>1. cpu[c] \in CpuState /\ cpu[c].pc = "update"
      BY <1>t, <1>2 DEF TypeOK
    <3> QED
      BY <3>1 DEF CpuState, IdleCpu
  <2>3. ASSUME NEW k \in Keys, nd_dns_pending'[k] # None
        PROVE  nd_dns_pending'[k].id # cpu[c].id
    <3>1. ASSUME NEW d \in Cpus, QueryUpdate(d),
                 nd_dns_pending'[k] = [start_ns |-> cpu[d].now, id |-> cpu[d].id]
          PROVE  nd_dns_pending'[k].id # cpu[c].id
      <4>1. d # c /\ cpu[d].pc = "update"
        BY <1>t, <1>2, <3>1 DEF QueryUpdate, TypeOK, IdleCpu
      <4> QED
        BY <2>1, <3>1, <4>1
    <3> QED
      BY <1>t, <2>1, <2>3, <3>1, MapFrame
  <2>4. ASSUME NEW d \in Cpus PROVE measured'[d][cpu[c].id] = 0
    <3>1. ResponseMeasure(d) => /\ cpu[d].key \in Keys
                                /\ nd_dns_pending[cpu[d].key] # None
      BY <1>t DEF ResponseMeasure, TypeOK, CpuState, IdleCpu
    <3> QED
      BY <1>t, <2>1, <2>2, <3>1, MeasuredFrame
  <2>5. ASSUME NEW d \in Cpus \ {c}, cpu'[d].pc = "update" PROVE cpu'[d].id # cpu[c].id
    <3>1. CASE cpu'[d] = cpu[d]
      BY <2>1, <2>5, <3>1
    <3>2. ASSUME NEW k \in Keys, Query(d, k) PROVE cpu'[d].id # cpu[c].id
      <4>1. cpu'[d].id = Len(queries) + 1
        BY <1>n, <3>2
      <4> QED
        BY <1>q, <2>1, <4>1
    <3> QED
      BY <1>f, <2>5, <3>1, <3>2
  <2> QED
    BY <1>q, <1>2, <2>1, <2>3, <2>4, <2>5
<1> QED
  BY <1>f, <1>1, <1>2

(* A query measured by a CPU is out of the map once that CPU's handler is  *)
(* through with it, and nothing puts it back.                              *)
LEMMA PlacementStep == IInv /\ [Next]_vars => Placement'
<1> SUFFICES ASSUME IInv, [Next]_vars, NEW c \in Cpus, NEW i \in Ids,
                    measured'[c][i] # 0
             PROVE  /\ measured'[c][i] = 1
                    /\ i <= Len(queries')
                    /\ \A k \in Keys : nd_dns_pending'[k] # None /\ nd_dns_pending'[k].id = i
                                        => /\ cpu'[c].pc = "delete"
                                           /\ cpu'[c].key = k
                                           /\ cpu'[c].id = i
  BY DEF Placement
<1>t. TypeOK
  BY DEF IInv
<1>q. /\ Len(queries) \in Nat /\ Len(queries') \in Nat
      /\ Len(queries) <= Len(queries')
  BY <1>t, QueriesFrame
<1>i. i \in Nat
  BY BoundsAssumption DEF Ids
<1>1. CASE measured'[c][i] = measured[c][i]
  <2>1. /\ measured[c][i] = 1
        /\ i <= Len(queries)
        /\ \A k \in Keys : nd_dns_pending[k] # None /\ nd_dns_pending[k].id = i
                            => cpu[c].pc = "delete" /\ cpu[c].key = k /\ cpu[c].id = i
    BY <1>1 DEF IInv, Placement
  <2>2. ASSUME NEW k \in Keys, nd_dns_pending'[k] # None, nd_dns_pending'[k].id = i
        PROVE  cpu'[c].pc = "delete" /\ cpu'[c].key = k /\ cpu'[c].id = i
    <3>1. ASSUME NEW d \in Cpus, QueryUpdate(d),
                 nd_dns_pending'[k] = [start_ns |-> cpu[d].now, id |-> cpu[d].id]
          PROVE  FALSE
      <4>1. cpu[d].pc = "update" /\ cpu[d].id = i
        BY <2>2, <3>1 DEF QueryUpdate
      <4> QED
        BY <1>1, <4>1 DEF IInv, InsertIsFresh
    <3>2. nd_dns_pending'[k] = nd_dns_pending[k]
      BY <1>t, <2>2, <3>1, MapFrame
    <3>3. cpu[c].pc = "delete" /\ cpu[c].key = k /\ cpu[c].id = i
      BY <2>1, <2>2, <3>2
    <3>4. ASSUME ResponseDelete(c) PROVE FALSE
      <4>1. measured' = [measured EXCEPT ![c][i] = 0]
        BY <2>2, <3>3, <3>4 DEF ResponseDelete, Holds
      <4>2. measured'[c][i] = 0
        BY <1>t, <4>1 DEF TypeOK
      <4> QED
        BY <4>2
    <3>5. ASSUME NEW d \in Cpus, Hook(d) PROVE cpu'[c] = cpu[c]
      BY <1>t, <3>3, <3>4, <3>5
      DEF TypeOK, Hook, Query, Response, QueryUpdate, ResponseMiss, ResponseMeasure,
          ResponseDelete
    <3>6. cpu' = cpu \/ \E d \in Cpus : Hook(d)
      BY DEF Next, Collector, Tick, GcStart, GcNextKey, GcEnd, GcIterFails, GcLookup, GcDelete,
             GcDeleteFails, vars, kernelVars
    <3> QED
      BY <3>3, <3>5, <3>6
  <2> QED
    BY <1>i, <1>q, <1>1, <2>1, <2>2
<1>2. CASE /\ ResponseMeasure(c)
           /\ i = nd_dns_pending[cpu[c].key].id
           /\ measured'[c][i] = measured[c][i] + 1
  <2>1. cpu[c] \in [pc : {"lookup"}, key : Keys, now : Time, id : {0}]
    <3>1. cpu[c] \in CpuState /\ cpu[c].pc = "lookup"
      BY <1>t, <1>2 DEF TypeOK, ResponseMeasure
    <3> QED
      BY <3>1 DEF CpuState, IdleCpu
  <2>2. nd_dns_pending[cpu[c].key] # None /\ cpu[c].key \in Keys /\ cpu[c].pc = "lookup"
    BY <1>2, <2>1 DEF ResponseMeasure
  <2>3. measured[c][i] = 0
    BY <1>2, <2>2 DEF IInv, Placement
  <2>4. i \in 1..Len(queries) /\ queries[i].key = cpu[c].key
    <3>1. /\ i \in 1..Len(queries)
          /\ queries[i] = [key |-> cpu[c].key,
                           at |-> nd_dns_pending[cpu[c].key].start_ns]
      BY <1>2, <2>2 DEF IInv, EntryIsQuery
    <3> QED
      BY <3>1
  <2>5. cpu'[c].pc = "delete" /\ cpu'[c].key = cpu[c].key /\ cpu'[c].id = i
    <3>1. cpu'[c] = [cpu[c] EXCEPT !.pc = "delete", !.id = i]
      BY <1>t, <1>2 DEF TypeOK, ResponseMeasure
    <3> QED
      BY <2>1, <3>1
  <2>6. nd_dns_pending' = nd_dns_pending
    BY <1>2 DEF ResponseMeasure
  <2>7. ASSUME NEW k \in Keys, nd_dns_pending[k] # None, nd_dns_pending[k].id = i
        PROVE  k = cpu[c].key
    <3>1. queries[i] = [key |-> k, at |-> nd_dns_pending[k].start_ns]
      BY <2>7 DEF IInv, EntryIsQuery
    <3> QED
      BY <2>4, <3>1
  <2> QED
    BY <1>i, <1>q, <1>2, <2>3, <2>4, <2>5, <2>6, <2>7
<1> QED
  BY <1>t, <1>1, <1>2, MeasuredFrame

(* The collector condemns only what it has seen to be expired. *)
LEMMA CondemnedStep == IInv /\ [Next]_vars => Condemned'
<1> SUFFICES ASSUME IInv, [Next]_vars, gc'.pc = "delete"
             PROVE  /\ gc'.id \in 1..Len(queries')
                    /\ queries'[gc'.id].at = gc'.start_ns
                    /\ gc'.start_ns < gc'.now
                    /\ gc'.now - gc'.start_ns > DnsTimeout
  BY DEF Condemned
<1>t. TypeOK
  BY DEF IInv
<1>q. /\ Len(queries) \in Nat /\ Len(queries') \in Nat
      /\ Len(queries) <= Len(queries')
      /\ \A i \in 1..Len(queries) : queries'[i] = queries[i]
  BY <1>t, QueriesFrame
<1>1. CASE gc' = gc
  <2>1. /\ gc.id \in 1..Len(queries)
        /\ queries[gc.id].at = gc.start_ns
        /\ gc.start_ns < gc.now
        /\ gc.now - gc.start_ns > DnsTimeout
    BY <1>1 DEF IInv, Condemned
  <2> QED
    BY <1>q, <1>1, <2>1
<1>2. CASE GcLookup
  <2> DEFINE e == nd_dns_pending[gc.cursor]
  <2>1. gc \in [pc : {"lookup"}, now : Time, cursor : Keys, count : Nat,
                start_ns : {0}, id : {0}]
    <3>1. gc \in GcState /\ gc.pc = "lookup"
      BY <1>t, <1>2 DEF TypeOK, GcLookup
    <3> QED
      BY <3>1 DEF GcState, IdleGc
  <2>2. gc' # [gc EXCEPT !.pc = "next"]
    BY <2>1
  <2>3. /\ e # None /\ Expired(gc.now, e.start_ns)
        /\ gc' = [gc EXCEPT !.pc = "delete", !.start_ns = e.start_ns, !.id = e.id]
    BY <1>2, <2>2 DEF GcLookup
  <2>4. gc'.now = gc.now /\ gc'.start_ns = e.start_ns /\ gc'.id = e.id
    BY <2>1, <2>3
  <2>5. /\ e.id \in 1..Len(queries)
        /\ queries[e.id] = [key |-> gc.cursor, at |-> e.start_ns]
    BY <2>1, <2>3 DEF IInv, EntryIsQuery
  <2>6. e \in Entry
    BY <1>t, <2>1, <2>3 DEF TypeOK
  <2>7. gc.now \in Nat /\ e.start_ns \in Nat
    BY <2>1, <2>6, BoundsAssumption DEF Entry, Time
  <2>8. e.start_ns < gc.now /\ gc.now - e.start_ns > DnsTimeout
    BY <2>3, <2>7, BoundsAssumption, DurationsAssumption DEF Expired, Sub
  <2>9. queries'[e.id].at = e.start_ns /\ e.id \in 1..Len(queries')
    BY <1>q, <2>5
  <2> QED
    BY <2>4, <2>8, <2>9
<1>3. ~GcStart
  BY DEF GcStart, IdleGc
<1>4. ~GcEnd /\ ~GcIterFails
  BY DEF GcEnd, GcIterFails, IdleGc
<1>5. ASSUME NEW k \in Keys PROVE ~GcNextKey(k)
  BY <1>t DEF GcNextKey, TypeOK, GcState, IdleGc
<1>6. ~GcDelete /\ ~GcDeleteFails
  BY <1>t DEF GcDelete, GcDeleteFails, TypeOK, GcState, IdleGc
<1>7. gc' = gc \/ Collector
  BY DEF Next, Hook, Tick, Query, Response, QueryUpdate, ResponseMiss,
         ResponseMeasure, ResponseDelete, vars, kernelVars
<1> QED
  BY <1>1, <1>2, <1>3, <1>4, <1>5, <1>6, <1>7 DEF Collector

(* A latency is measured between an earlier query and this response. *)
LEMMA LatencyStep == IInv /\ [Next]_vars => LatencyFromRealQuery'
<1> SUFFICES ASSUME IInv, [Next]_vars, NEW m \in lat'
             PROVE  /\ m.id \in 1..Len(queries')
                    /\ queries'[m.id].key = m.key
                    /\ queries'[m.id].at < m.now
                    /\ m.us <= m.now - queries'[m.id].at
  BY DEF LatencyFromRealQuery
<1>t. TypeOK
  BY DEF IInv
<1>q. /\ Len(queries) \in Nat /\ Len(queries') \in Nat
      /\ Len(queries) <= Len(queries')
      /\ \A i \in 1..Len(queries) : queries'[i] = queries[i]
  BY <1>t, QueriesFrame
<1>1. CASE m \in lat
  <2>1. /\ m.id \in 1..Len(queries)
        /\ queries[m.id].key = m.key
        /\ queries[m.id].at < m.now
        /\ m.us <= m.now - queries[m.id].at
    BY <1>1 DEF IInv, LatencyFromRealQuery
  <2> QED
    BY <1>q, <2>1
<1>2. ASSUME NEW c \in Cpus, ResponseMeasure(c), m \notin lat
      PROVE  /\ m.id \in 1..Len(queries')
             /\ queries'[m.id].key = m.key
             /\ queries'[m.id].at < m.now
             /\ m.us <= m.now - queries'[m.id].at
  <2> DEFINE e == nd_dns_pending[cpu[c].key]
             us == Latency(cpu[c].now, e.start_ns)
  <2>1. /\ m = [key |-> cpu[c].key, id |-> e.id, now |-> cpu[c].now, us |-> us]
        /\ us > 0 /\ e # None
    BY <1>2 DEF ResponseMeasure
  <2>2. m.key = cpu[c].key /\ m.id = e.id /\ m.now = cpu[c].now /\ m.us = us
    BY <2>1
  <2>3. cpu[c] \in [pc : {"lookup"}, key : Keys, now : Time, id : {0}]
    <3>1. cpu[c] \in CpuState /\ cpu[c].pc = "lookup"
      BY <1>t, <1>2 DEF TypeOK, ResponseMeasure
    <3> QED
      BY <3>1 DEF CpuState, IdleCpu
  <2>4. e \in Entry
    BY <1>t, <2>1, <2>3 DEF TypeOK
  <2>5. cpu[c].now \in Nat /\ e.start_ns \in Nat
    BY <2>3, <2>4, BoundsAssumption DEF Entry, Time
  <2>6. e.start_ns < cpu[c].now /\ us = (cpu[c].now - e.start_ns) \div NsPerUs
    BY <2>1, <2>5 DEF Latency, Sub
  <2>7. us <= cpu[c].now - e.start_ns
    <3>1. cpu[c].now - e.start_ns \in Nat
      BY <2>5, <2>6
    <3> QED
      BY <2>6, <3>1, DivBound, DurationsAssumption
  <2>8. e.id \in 1..Len(queries) /\ queries[e.id] = [key |-> cpu[c].key, at |-> e.start_ns]
    BY <2>1, <2>3 DEF IInv, EntryIsQuery
  <2>9. /\ e.id \in 1..Len(queries')
        /\ queries'[e.id].key = cpu[c].key /\ queries'[e.id].at = e.start_ns
    BY <1>q, <2>8
  <2> QED
    BY <2>2, <2>6, <2>7, <2>9
<1>3. m \in lat \/ \E c \in Cpus : ResponseMeasure(c)
  BY DEF Next, Hook, Collector, Tick, Query, Response, QueryUpdate, ResponseMiss,
         ResponseDelete, GcStart, GcNextKey, GcEnd, GcIterFails, GcLookup, GcDelete, GcDeleteFails,
         vars, kernelVars
<1> QED
  BY <1>1, <1>2, <1>3

(* One CPU's part of CountersAgree and ResponseCounted. *)
AgreeOn(c) ==
  /\ nd_events[c].slow = nd_dns_counters[c].slow_total
  /\ nd_dns_counters[c].slow_total <= nd_dns_latency_us_hist[c]
  /\ nd_dns_latency_us_hist[c] <= nd_dns_counters[c].response_total
  /\ nd_dns_counters[c].response_total
       = nd_dns_rcode_total[c][0] + nd_dns_counters[c].rcode_error_total
  /\ nd_events[c].rcode_error = nd_dns_counters[c].rcode_error_total
  /\ cpu[c].pc = "lookup" => nd_dns_latency_us_hist[c] < nd_dns_counters[c].response_total

(* The threshold in force is never zero. *)
LEMMA SlowDnsPositive == SlowDns \in Nat \ {0}
BY DurationsAssumption DEF SlowDns, NdGetConfig

(* Every handler keeps its CPU's counters, histogram and events in step. *)
LEMMA CountersStep == IInv /\ [Next]_vars => CountersAgree' /\ ResponseCounted'
<1> SUFFICES ASSUME IInv, [Next]_vars, NEW c \in Cpus PROVE AgreeOn(c)'
  BY DEF CountersAgree, ResponseCounted, AgreeOn
<1>t. TypeOK
  BY DEF IInv
<1>a. AgreeOn(c)
  BY DEF IInv, CountersAgree, ResponseCounted, AgreeOn
<1>n. /\ nd_dns_counters[c] \in DnsCounters /\ nd_events[c] \in DnsEvents
      /\ nd_dns_latency_us_hist[c] \in Nat
      /\ nd_dns_rcode_total[c] \in [Rcodes -> Nat]
  BY <1>t DEF TypeOK
<1>1. CASE /\ nd_dns_counters'[c] = nd_dns_counters[c] /\ nd_events'[c] = nd_events[c]
           /\ nd_dns_latency_us_hist'[c] = nd_dns_latency_us_hist[c]
           /\ nd_dns_rcode_total'[c] = nd_dns_rcode_total[c]
           /\ cpu'[c] = cpu[c] \/ cpu'[c] = IdleCpu
  BY <1>a, <1>1 DEF AgreeOn, IdleCpu
<1>2. ASSUME NEW k \in Keys, Query(c, k) PROVE AgreeOn(c)'
  <2>1. nd_dns_counters'[c] = [nd_dns_counters[c] EXCEPT !.query_total = @ + 1]
    BY <1>t, <1>2 DEF Query, TypeOK
  <2>2. /\ nd_dns_counters'[c].response_total = nd_dns_counters[c].response_total
        /\ nd_dns_counters'[c].rcode_error_total = nd_dns_counters[c].rcode_error_total
        /\ nd_dns_counters'[c].slow_total = nd_dns_counters[c].slow_total
    BY <1>n, <2>1 DEF DnsCounters
  <2>3. cpu'[c].pc = "update"
    BY <1>t, <1>2 DEF Query, TypeOK
  <2> QED
    BY <1>a, <1>2, <2>2, <2>3 DEF AgreeOn, Query
<1>3. ASSUME NEW k \in Keys, NEW r \in Rcodes, Response(c, k, r) PROVE AgreeOn(c)'
  <2>1. nd_dns_latency_us_hist' = nd_dns_latency_us_hist
    BY <1>3 DEF Response
  <2>2. nd_dns_rcode_total'[c] = [nd_dns_rcode_total[c] EXCEPT ![r] = @ + 1]
    BY <1>t, <1>3 DEF Response, TypeOK
  <2>3. CASE r = 0
    <3>1. nd_dns_rcode_total'[c][0] = nd_dns_rcode_total[c][0] + 1
      BY <1>n, <2>2, <2>3
    <3>2. nd_dns_counters'[c] = [nd_dns_counters[c] EXCEPT !.response_total = @ + 1]
      BY <1>t, <1>3, <2>3 DEF Response, TypeOK
    <3>3. /\ nd_dns_counters'[c].response_total = nd_dns_counters[c].response_total + 1
          /\ nd_dns_counters'[c].rcode_error_total = nd_dns_counters[c].rcode_error_total
          /\ nd_dns_counters'[c].slow_total = nd_dns_counters[c].slow_total
      BY <1>n, <3>2 DEF DnsCounters
    <3>4. nd_events' = nd_events
      BY <1>3, <2>3 DEF Response
    <3> QED
      BY <1>a, <1>n, <2>1, <3>1, <3>3, <3>4, RcodesAssumption DEF AgreeOn, DnsCounters
  <2>4. CASE r # 0
    <3>1. nd_dns_rcode_total'[c][0] = nd_dns_rcode_total[c][0]
      BY <1>n, <2>2, <2>4, RcodesAssumption
    <3>2. nd_dns_counters'[c] = [nd_dns_counters[c] EXCEPT !.response_total = @ + 1,
                                                           !.rcode_error_total = @ + 1]
      BY <1>t, <1>3, <2>4 DEF Response, TypeOK
    <3>3. /\ nd_dns_counters'[c].response_total = nd_dns_counters[c].response_total + 1
          /\ nd_dns_counters'[c].rcode_error_total
               = nd_dns_counters[c].rcode_error_total + 1
          /\ nd_dns_counters'[c].slow_total = nd_dns_counters[c].slow_total
      BY <1>n, <3>2 DEF DnsCounters
    <3>4. nd_events' = [nd_events EXCEPT ![c].rcode_error = @ + 1]
      BY <1>3, <2>4 DEF Response
    <3>5. nd_events'[c] = [nd_events[c] EXCEPT !.rcode_error = @ + 1]
      BY <1>t, <3>4 DEF TypeOK
    <3>6. /\ nd_events'[c].rcode_error = nd_events[c].rcode_error + 1
          /\ nd_events'[c].slow = nd_events[c].slow
      BY <1>n, <3>5 DEF DnsEvents
    <3> QED
      BY <1>a, <1>n, <2>1, <3>1, <3>3, <3>6, RcodesAssumption
      DEF AgreeOn, DnsCounters, DnsEvents
  <2> QED
    BY <2>3, <2>4
<1>4. CASE ResponseMeasure(c)
  <2> DEFINE e == nd_dns_pending[cpu[c].key]
             us == Latency(cpu[c].now, e.start_ns)
  <2>1. nd_dns_latency_us_hist[c] < nd_dns_counters[c].response_total
    BY <1>a, <1>4 DEF AgreeOn, ResponseMeasure
  <2>2. nd_dns_rcode_total' = nd_dns_rcode_total
    BY <1>4 DEF ResponseMeasure
  <2>3. cpu[c] \in [pc : {"lookup"}, key : Keys, now : Time, id : {0}]
    <3>1. cpu[c] \in CpuState /\ cpu[c].pc = "lookup"
      BY <1>t, <1>4 DEF TypeOK, ResponseMeasure
    <3> QED
      BY <3>1 DEF CpuState, IdleCpu
  <2>4. cpu'[c].pc = "delete"
    <3>1. cpu'[c] = [cpu[c] EXCEPT !.pc = "delete", !.id = e.id]
      BY <1>t, <1>4 DEF TypeOK, ResponseMeasure
    <3> QED
      BY <2>3, <3>1
  <2>5. us \in Nat
    <3>1. e \in Entry
      BY <1>t, <1>4, <2>3 DEF TypeOK, ResponseMeasure
    <3> QED
      BY <2>3, <3>1, BoundsAssumption, DurationsAssumption DEF Latency, Sub, Time, Entry
  <2>6. /\ us > 0 => nd_dns_latency_us_hist'[c] = nd_dns_latency_us_hist[c] + 1
        /\ us = 0 => nd_dns_latency_us_hist'[c] = nd_dns_latency_us_hist[c]
    BY <1>t, <1>4 DEF TypeOK, ResponseMeasure
  <2>7. CASE nd_dns_counters' = nd_dns_counters /\ nd_events' = nd_events
    BY <1>a, <1>n, <2>1, <2>2, <2>4, <2>5, <2>6, <2>7 DEF AgreeOn, DnsCounters
  <2>8. CASE us >= SlowDns
    <3>1. us > 0
      BY <2>5, <2>8, SlowDnsPositive
    <3>2. nd_dns_counters'[c] = [nd_dns_counters[c] EXCEPT !.slow_total = @ + 1]
      <4>1. nd_dns_counters' = [nd_dns_counters EXCEPT ![c].slow_total = @ + 1]
        BY <1>4, <2>5, <2>8, SlowDnsPositive DEF ResponseMeasure
      <4> QED
        BY <1>t, <4>1 DEF TypeOK
    <3>3. /\ nd_dns_counters'[c].response_total = nd_dns_counters[c].response_total
          /\ nd_dns_counters'[c].rcode_error_total = nd_dns_counters[c].rcode_error_total
          /\ nd_dns_counters'[c].slow_total = nd_dns_counters[c].slow_total + 1
      BY <1>n, <3>2 DEF DnsCounters
    <3>4. nd_events' = [nd_events EXCEPT ![c].slow = @ + 1]
      BY <1>4, <2>5, <2>8, SlowDnsPositive DEF ResponseMeasure
    <3>5. nd_events'[c] = [nd_events[c] EXCEPT !.slow = @ + 1]
      BY <1>t, <3>4 DEF TypeOK
    <3>6. /\ nd_events'[c].slow = nd_events[c].slow + 1
          /\ nd_events'[c].rcode_error = nd_events[c].rcode_error
      BY <1>n, <3>5 DEF DnsEvents
    <3> QED
      BY <1>a, <1>n, <2>1, <2>2, <2>4, <2>6, <3>1, <3>3, <3>6
      DEF AgreeOn, DnsCounters, DnsEvents
  <2> QED
    BY <1>4, <2>7, <2>8 DEF ResponseMeasure
<1>5. ASSUME NEW d \in Cpus \ {c}, Hook(d)
      PROVE  /\ nd_dns_counters'[c] = nd_dns_counters[c] /\ nd_events'[c] = nd_events[c]
             /\ nd_dns_latency_us_hist'[c] = nd_dns_latency_us_hist[c]
             /\ nd_dns_rcode_total'[c] = nd_dns_rcode_total[c]
             /\ cpu'[c] = cpu[c]
  BY <1>t, <1>5 DEF TypeOK, Hook, Query, Response, QueryUpdate, ResponseMiss,
                    ResponseMeasure, ResponseDelete
<1>6. QueryUpdate(c) \/ ResponseMiss(c) \/ ResponseDelete(c)
      => /\ nd_dns_counters'[c] = nd_dns_counters[c] /\ nd_events'[c] = nd_events[c]
         /\ nd_dns_latency_us_hist'[c] = nd_dns_latency_us_hist[c]
         /\ nd_dns_rcode_total'[c] = nd_dns_rcode_total[c]
         /\ cpu'[c] = IdleCpu
  BY <1>t DEF TypeOK, QueryUpdate, ResponseMiss, ResponseDelete
<1>7. kernelVars' = kernelVars \/ \E d \in Cpus : Hook(d)
  BY DEF Next, Collector, Tick, GcStart, GcNextKey, GcEnd, GcIterFails, GcLookup, GcDelete,
         GcDeleteFails, vars
<1>8. kernelVars' = kernelVars => AgreeOn(c)'
  BY <1>1 DEF kernelVars
<1>9. Hook(c) => AgreeOn(c)'
  BY <1>1, <1>2, <1>3, <1>4, <1>6 DEF Hook
<1> QED
  BY <1>1, <1>5, <1>7, <1>8, <1>9

-----------------------------------------------------------------------------
(* The theorems.                                                           *)

(* The invariant holds when the hook is attached. *)
LEMMA InitIInv == Init => IInv
<1> SUFFICES ASSUME Init PROVE IInv
  OBVIOUS
<1>1. TypeOK
  BY TypeInit
<1>2. NothingFromTheFuture /\ EntryIsQuery
  BY DEF Init, NothingFromTheFuture, EntryIsQuery, EmptyMap, IdleCpu, IdleGc
<1>3. InsertIsFresh /\ Condemned /\ LatencyFromRealQuery /\ ResponseCounted
  BY DEF Init, InsertIsFresh, Condemned, LatencyFromRealQuery, ResponseCounted, IdleCpu,
         IdleGc
<1>4. Placement
  BY DEF Init, Placement
<1>5. CountersAgree
  BY RcodesAssumption DEF Init, CountersAgree
<1> QED
  BY <1>1, <1>2, <1>3, <1>4, <1>5 DEF IInv

(* The invariant is inductive. *)
LEMMA StepIInv == IInv /\ [Next]_vars => IInv'
BY TypeStep, FutureStep, EntryStep, InsertStep, PlacementStep, CondemnedStep, LatencyStep,
   CountersStep DEF IInv

(* It holds in every reachable state. *)
THEOREM Invariance == Spec => []IInv
BY InitIInv, StepIInv, PTL DEF Spec

(* Type correctness of the hook's and the collector's state. *)
THEOREM TypeCorrect == Spec => []TypeOK
<1>1. IInv => TypeOK
  BY DEF IInv
<1> QED
  BY <1>1, Invariance, PTL

(* Latencies are measured against a real, earlier query for the same key,  *)
(* and the subtraction at line 963 never wraps.                            *)
THEOREM LatencySound == Spec => []LatencyFromRealQuery
<1>1. IInv => LatencyFromRealQuery
  BY DEF IInv
<1> QED
  BY <1>1, Invariance, PTL

(* No CPU measures the same query twice, unless its delete has failed. *)
THEOREM MeasuredOnce == Spec => []MeasuredOncePerCpu
<1>1. IInv => MeasuredOncePerCpu
  <2> SUFFICES ASSUME IInv, NEW c \in Cpus, NEW i \in Ids PROVE measured[c][i] <= 1
    BY DEF MeasuredOncePerCpu
  <2>1. measured[c][i] # 0 => measured[c][i] = 1
    BY DEF IInv, Placement
  <2> QED
    BY <2>1
<1> QED
  BY <1>1, Invariance, PTL

(* The DNS series agree with each other on every CPU. *)
THEOREM CountersSound == Spec => []CountersAgree
<1>1. IInv => CountersAgree
  BY DEF IInv
<1> QED
  BY <1>1, Invariance, PTL

(* What the collector inspected and then removes is older than the timeout. *)
THEOREM CollectorSound == Spec => GcTakesOnlyExpired
<1> DEFINE A == \A k \in Keys : GcTakes(k) /\ nd_dns_pending[k].id = gc.id
                  => clock - nd_dns_pending[k].start_ns > DnsTimeout
<1>1. IInv => A
  <2> SUFFICES ASSUME IInv, NEW k \in Keys, GcTakes(k), nd_dns_pending[k].id = gc.id
               PROVE  clock - nd_dns_pending[k].start_ns > DnsTimeout
    OBVIOUS
  <2>1. queries[gc.id] = [key |-> k, at |-> nd_dns_pending[k].start_ns]
    BY DEF GcTakes, IInv, EntryIsQuery
  <2>2. queries[gc.id].at = gc.start_ns /\ gc.now - gc.start_ns > DnsTimeout
    BY DEF GcTakes, IInv, Condemned
  <2>3. gc.now <= clock
    BY DEF IInv, NothingFromTheFuture
  <2>4. gc \in GcState /\ gc.pc = "delete" /\ clock \in Time
    BY DEF IInv, TypeOK, GcTakes
  <2>5. gc.now \in Nat /\ gc.start_ns \in Nat /\ clock \in Nat
    BY <2>4, BoundsAssumption DEF GcState, IdleGc, Time
  <2> QED
    BY <2>1, <2>2, <2>3, <2>5, DurationsAssumption
<1>2. IInv => [A]_vars
  BY <1>1
<1> QED
  BY <1>2, Invariance, PTL DEF GcTakesOnlyExpired
=============================================================================
