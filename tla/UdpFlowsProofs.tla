--------------------------- MODULE UdpFlowsProofs ---------------------------
(***************************************************************************)
(* What UdpFlows guarantees for any number of CPUs, keys and packets, any  *)
(* map size and any thresholds.                                            *)
(*                                                                         *)
(* The handlers write to elements without a lock, so what is known of an   *)
(* element depends on who wrote to it: a bound in general (Elements), and  *)
(* equalities while a single CPU is its user (Solo).  The age of what the  *)
(* collector removes rests on what it knows of the element it condemned    *)
(* (Condemned).                                                            *)
(***************************************************************************)
EXTENDS UdpFlows, SequenceTheorems, FiniteSetTheorems, TLAPS

-----------------------------------------------------------------------------
(* What an update of an LruMap can do, and ns / 1000.                      *)

(* bpf_map_update_elem leaves every entry as it was, takes it away, or,    *)
(* for the key updated, replaces it by the new value.                      *)
LEMMA UpdateEffect ==
  ASSUME NEW m, DOMAIN m = Keys, NEW k \in Keys, NEW v, NEW n \in LruUpdate(m, k, v),
         NEW j \in Keys
  PROVE  n[j] = m[j] \/ n[j] = None \/ (j = k /\ n[j] = v)
BY DEF LruUpdate, Present

(* It keeps a map of entries a map of entries. *)
LEMMA UpdateType ==
  ASSUME NEW S, NEW m \in [Keys -> S \cup {None}], NEW k \in Keys, NEW v \in S,
         NEW n \in LruUpdate(m, k, v)
  PROVE  n \in [Keys -> S \cup {None}]
<1>1. CASE n = m
  BY <1>1
<1>2. CASE n = [m EXCEPT ![k] = v]
  BY <1>2
<1>3. CASE \E e \in Keys : n = [m EXCEPT ![k] = v, ![e] = None]
  BY <1>3
<1> QED
  BY <1>1, <1>2, <1>3 DEF LruUpdate, Present

(* A duration in microseconds is short of the duration by less than a      *)
(* microsecond.                                                            *)
LEMMA DivExact ==
  ASSUME NEW x \in Nat, NEW n \in Nat \ {0}
  PROVE  x \div n \in Nat /\ x - (x \div n) * n \in 0..(n - 1)
OBVIOUS

-----------------------------------------------------------------------------
(* The inductive invariant.                                                *)

(* Where a handler stands.  The element it points to is of the packet's    *)
(* flow, whether or not the map still leads there; what it loaded is no    *)
(* more than what the element was shown; what it will report is long.      *)
Busy ==
  \A c \in Cpus :
    /\ cpu[c].pc # "idle" => cpu[c].key \in Keys /\ cpu[c].now \in 1..clock
    /\ cpu[c].pc \in {"touch", "store", "check", "report"} =>
         /\ cpu[c].elem \in 1..Len(elems)
         /\ elems[cpu[c].elem].key = cpu[c].key
    /\ cpu[c].pc \in {"store", "check", "report"} => c \in elems[cpu[c].elem].users
    /\ cpu[c].pc = "store" => cpu[c].n <= 1 + elems[cpu[c].elem].hits
    /\ cpu[c].pc = "report" =>
         /\ LongUdpFlow <= cpu[c].us
         /\ cpu[c].us * NsPerUs <= cpu[c].now - elems[cpu[c].elem].first_seen_ns

(* What holds of an element whoever writes to it. *)
Elements ==
  \A i \in 1..Len(elems) :
    /\ elems[i].users # {}
    /\ IsFiniteSet(elems[i].users)
    /\ elems[i].newest <= clock
    /\ elems[i].packets <= 1 + elems[i].hits

(* What holds while a single CPU has written to it. *)
Solo ==
  \A i \in 1..Len(elems), c \in Cpus : elems[i].users = {c} =>
    /\ elems[i].packets = 1 + elems[i].hits
    /\ elems[i].last_seen_ns = elems[i].newest
    /\ cpu[c].pc # "idle" => elems[i].newest <= cpu[c].now
    /\ cpu[c].pc = "store" /\ cpu[c].elem = i => cpu[c].n = elems[i].packets
    /\ cpu[c].pc = "report" /\ cpu[c].elem = i
         => cpu[c].now > elems[i].last_event_ns + EventCooldown
    /\ \A v \in events : v.elem = i => v.now <= elems[i].last_event_ns
    /\ \A v, w \in events : v.elem = i /\ w.elem = i /\ v.now < w.now
         => w.now - v.now > EventCooldown

(* The map leads from a key to an element of that flow. *)
MapLeadsToFlow ==
  \A k \in Keys : nd_udp_flows[k] # None => elems[nd_udp_flows[k]].key = k

(* An event is about an element. *)
EventsTyped ==
  \A v \in events : v.elem \in 1..Len(elems) /\ v.now \in Time /\ v.us \in Nat

(* What the collector is about to delete was idle when it looked, and is   *)
(* still unless a handler has reached it in between.                       *)
Condemned ==
  /\ gc.now <= clock
  /\ gc.pc \in {"lookup", "delete"} => gc.cursor \in Keys
  /\ gc.pc = "delete" =>
       /\ gc.elem \in 1..Len(elems)
       /\ gc.seen <= elems[gc.elem].hits
       /\ \/ gc.seen < elems[gc.elem].hits
          \/ \E c \in Cpus : cpu[c].pc = "store" /\ cpu[c].elem = gc.elem
          \/ gc.now > elems[gc.elem].last_seen_ns + UdpIdle

IInv ==
  /\ TypeOK
  /\ Busy
  /\ Elements
  /\ Solo
  /\ MapLeadsToFlow
  /\ EventsTyped
  /\ Condemned
  /\ LongFlowIsLong
-----------------------------------------------------------------------------
(* What the steps write.                                                   *)

(* Writing one element of a sequence. *)
LEMMA WriteOne ==
  ASSUME NEW S, NEW s \in Seq(S), NEW i \in 1..Len(s), NEW x \in S, NEW t,
         t = [s EXCEPT ![i] = x]
  PROVE  /\ t \in Seq(S) /\ Len(t) = Len(s)
         /\ t[i] = x
         /\ \A j \in 1..Len(s) : j # i => t[j] = s[j]
BY ExceptSeq

(* An element is a record. *)
LEMMA ElemFields ==
  ASSUME TypeOK, NEW i \in 1..Len(elems)
  PROVE  /\ elems[i] \in Elem
         /\ elems[i].key \in Keys
         /\ elems[i].first_seen_ns \in Nat /\ elems[i].last_seen_ns \in Nat
         /\ elems[i].last_event_ns \in Nat /\ elems[i].newest \in Nat
         /\ elems[i].packets \in Nat /\ elems[i].hits \in Nat
         /\ elems[i].users \subseteq Cpus
<1>1. elems[i] \in Elem
  BY ElementOfSeq DEF TypeOK
<1> QED
  BY <1>1, UdpBoundsAssumption DEF Elem, Time

(* A handler's state is a record. *)
LEMMA CpuFields ==
  ASSUME TypeOK, NEW c \in Cpus
  PROVE  /\ cpu[c] \in CpuState
         /\ cpu[c].now \in Nat /\ cpu[c].n \in Nat /\ cpu[c].us \in Nat
         /\ cpu[c].elem \in Nat
BY UdpBoundsAssumption, LenProperties DEF TypeOK, CpuState, Time

(* A step of one CPU. *)
LEMMA CpuStep ==
  ASSUME TypeOK, NEW c \in Cpus, NEW x \in CpuState, cpu' = [cpu EXCEPT ![c] = x]
  PROVE  /\ cpu' \in [Cpus -> CpuState]
         /\ cpu'[c] = x
         /\ \A d \in Cpus : d # c => cpu'[d] = cpu[d]
<1>1. cpu \in [Cpus -> CpuState]
  BY DEF TypeOK
<1> QED
  BY <1>1

(* A handler past its lookup has an element and a time. *)
LEMMA BusyFields ==
  ASSUME TypeOK, Busy, NEW c \in Cpus, cpu[c].pc \in {"touch", "store", "check", "report"}
  PROVE  cpu[c].elem \in 1..Len(elems) /\ cpu[c].now \in Time
<1>1. cpu[c].elem \in 1..Len(elems) /\ cpu[c].now \in 1..clock
  BY DEF Busy
<1>2. clock \in Time
  BY DEF TypeOK
<1> QED
  BY <1>1, <1>2, UdpBoundsAssumption DEF Time

(* last_seen_ns = now and the load of packets++. *)
LEMMA TouchEffect ==
  ASSUME TypeOK, Busy, NEW c \in Cpus, Touch(c), NEW e, e = cpu[c].elem
  PROVE  /\ e \in 1..Len(elems)
         /\ elems' \in Seq(Elem) /\ Len(elems') = Len(elems)
         /\ \A i \in 1..Len(elems) : i # e => elems'[i] = elems[i]
         /\ elems'[e].key = elems[e].key
         /\ elems'[e].first_seen_ns = elems[e].first_seen_ns
         /\ elems'[e].last_event_ns = elems[e].last_event_ns
         /\ elems'[e].packets = elems[e].packets /\ elems'[e].hits = elems[e].hits
         /\ elems'[e].last_seen_ns = cpu[c].now
         /\ elems'[e].users = elems[e].users \cup {c}
         /\ elems'[e].newest =
              IF elems[e].newest < cpu[c].now THEN cpu[c].now ELSE elems[e].newest
         /\ cpu' \in [Cpus -> CpuState]
         /\ \A d \in Cpus : d # c => cpu'[d] = cpu[d]
         /\ cpu'[c].pc = "store" /\ cpu'[c].key = cpu[c].key
         /\ cpu'[c].now = cpu[c].now /\ cpu'[c].elem = e
         /\ cpu'[c].n = elems[e].packets
<1> DEFINE x == [elems[e] EXCEPT
              !.last_seen_ns = cpu[c].now, !.users = @ \cup {c},
              !.newest = IF @ < cpu[c].now THEN cpu[c].now ELSE @]
<1>1. e \in 1..Len(elems) /\ cpu[c].now \in Time
  BY BusyFields DEF Touch
<1>2. elems[e] \in Elem /\ elems[e].packets \in Nat
  BY <1>1, ElemFields
<1>3. x \in Elem
  BY <1>1, <1>2 DEF Elem
<1>4. elems' = [elems EXCEPT ![e] = x]
  BY <1>1 DEF Touch, TypeOK
<1>5. /\ elems' \in Seq(Elem) /\ Len(elems') = Len(elems)
      /\ elems'[e] = x
      /\ \A i \in 1..Len(elems) : i # e => elems'[i] = elems[i]
  <2> HIDE DEF x
  <2> QED
    BY <1>1, <1>3, <1>4, WriteOne DEF TypeOK
<1>6. /\ cpu' \in [Cpus -> CpuState]
      /\ \A d \in Cpus : d # c => cpu'[d] = cpu[d]
      /\ cpu'[c] = [cpu[c] EXCEPT !.pc = "store", !.n = elems[e].packets]
  <2> DEFINE y == [cpu[c] EXCEPT !.pc = "store", !.n = elems[e].packets]
  <2>1. cpu[c] \in CpuState /\ cpu \in [Cpus -> CpuState]
    BY DEF TypeOK
  <2>2. y \in CpuState
    BY <1>2, <2>1 DEF CpuState
  <2>3. cpu' = [cpu EXCEPT ![c] = y]
    BY <2>1 DEF Touch
  <2> HIDE DEF y
  <2>4. /\ cpu' \in [Cpus -> CpuState] /\ cpu'[c] = y
        /\ \A d \in Cpus : d # c => cpu'[d] = cpu[d]
    BY <2>2, <2>3, CpuStep
  <2> QED
    BY <2>4 DEF y
<1>7. cpu[c] \in CpuState
  BY DEF TypeOK
<1>8. /\ cpu'[c].pc = "store" /\ cpu'[c].key = cpu[c].key
      /\ cpu'[c].now = cpu[c].now /\ cpu'[c].elem = e
      /\ cpu'[c].n = elems[e].packets
  BY <1>6, <1>7 DEF CpuState
<1>9. /\ elems'[e].key = elems[e].key
      /\ elems'[e].first_seen_ns = elems[e].first_seen_ns
      /\ elems'[e].last_event_ns = elems[e].last_event_ns
      /\ elems'[e].packets = elems[e].packets /\ elems'[e].hits = elems[e].hits
      /\ elems'[e].last_seen_ns = cpu[c].now
      /\ elems'[e].users = elems[e].users \cup {c}
      /\ elems'[e].newest =
           IF elems[e].newest < cpu[c].now THEN cpu[c].now ELSE elems[e].newest
  BY <1>2, <1>5 DEF Elem
<1> QED
  BY <1>1, <1>5, <1>6, <1>8, <1>9

(* The store of packets++. *)
LEMMA StoreEffect ==
  ASSUME TypeOK, Busy, NEW c \in Cpus, Store(c), NEW e, e = cpu[c].elem
  PROVE  /\ e \in 1..Len(elems)
         /\ elems' \in Seq(Elem) /\ Len(elems') = Len(elems)
         /\ \A i \in 1..Len(elems) : i # e => elems'[i] = elems[i]
         /\ elems'[e] = [elems[e] EXCEPT !.packets = cpu[c].n + 1, !.hits = @ + 1]
         /\ cpu' \in [Cpus -> CpuState]
         /\ \A d \in Cpus : d # c => cpu'[d] = cpu[d]
         /\ cpu'[c] = [cpu[c] EXCEPT !.pc = "check"]
<1> DEFINE x == [elems[e] EXCEPT !.packets = cpu[c].n + 1, !.hits = @ + 1]
<1>1. e \in 1..Len(elems) /\ cpu[c].n \in Nat
  BY CpuFields DEF Busy, Store
<1>2. elems[e] \in Elem
  BY <1>1, ElemFields
<1>3. x \in Elem
  <2>1. cpu[c].n + 1 \in Nat \ {0} /\ elems[e].hits + 1 \in Nat
    BY <1>1, ElemFields
  <2> QED
    BY <1>2, <2>1 DEF Elem
<1>4. elems' = [elems EXCEPT ![e] = x]
  BY <1>1 DEF Store, TypeOK
<1>5. /\ elems' \in Seq(Elem) /\ Len(elems') = Len(elems)
      /\ elems'[e] = x
      /\ \A i \in 1..Len(elems) : i # e => elems'[i] = elems[i]
  <2> HIDE DEF x
  <2> QED
    BY <1>1, <1>3, <1>4, WriteOne DEF TypeOK
<1>6. /\ cpu' \in [Cpus -> CpuState]
      /\ \A d \in Cpus : d # c => cpu'[d] = cpu[d]
      /\ cpu'[c] = [cpu[c] EXCEPT !.pc = "check"]
  BY DEF Store, TypeOK, CpuState
<1> QED
  BY <1>1, <1>5, <1>6

(* nd_submit_event_no_pid and last_event_ns = now. *)
LEMMA ReportEffect ==
  ASSUME TypeOK, Busy, NEW c \in Cpus, Report(c), NEW e, e = cpu[c].elem
  PROVE  /\ e \in 1..Len(elems)
         /\ elems' \in Seq(Elem) /\ Len(elems') = Len(elems)
         /\ \A i \in 1..Len(elems) : i # e => elems'[i] = elems[i]
         /\ elems'[e] = [elems[e] EXCEPT !.last_event_ns = cpu[c].now]
         /\ cpu' \in [Cpus -> CpuState]
         /\ \A d \in Cpus : d # c => cpu'[d] = cpu[d]
         /\ cpu'[c] = IdleCpu
<1> DEFINE x == [elems[e] EXCEPT !.last_event_ns = cpu[c].now]
<1>1. e \in 1..Len(elems) /\ cpu[c].now \in Time
  BY BusyFields DEF Report
<1>2. elems[e] \in Elem
  BY <1>1, ElemFields
<1>3. x \in Elem
  BY <1>1, <1>2 DEF Elem
<1>4. elems' = [elems EXCEPT ![e] = x]
  BY <1>1 DEF Report, TypeOK
<1>5. /\ elems' \in Seq(Elem) /\ Len(elems') = Len(elems)
      /\ elems'[e] = x
      /\ \A i \in 1..Len(elems) : i # e => elems'[i] = elems[i]
  <2> HIDE DEF x
  <2> QED
    BY <1>1, <1>3, <1>4, WriteOne DEF TypeOK
<1>6. Len(elems) \in Nat
  BY LenProperties DEF TypeOK
<1>7. /\ cpu' \in [Cpus -> CpuState]
      /\ \A d \in Cpus : d # c => cpu'[d] = cpu[d]
      /\ cpu'[c] = IdleCpu
  BY <1>6 DEF Report, TypeOK, CpuState, IdleCpu
<1> QED
  BY <1>1, <1>5, <1>7

(* A new element. *)
LEMMA InsertEffect ==
  ASSUME TypeOK, Busy, NEW c \in Cpus, Insert(c)
  PROVE  /\ Len(elems) \in Nat /\ Len(elems') = Len(elems) + 1
         /\ elems' \in Seq(Elem)
         /\ \A i \in 1..Len(elems) : elems'[i] = elems[i]
         /\ elems'[Len(elems) + 1] = First(c, cpu[c].key, cpu[c].now)
         /\ nd_udp_flows' \in [Keys -> (1..Len(elems')) \cup {None}]
         /\ \A k \in Keys : \/ nd_udp_flows'[k] = nd_udp_flows[k]
                            \/ nd_udp_flows'[k] = None
                            \/ k = cpu[c].key /\ nd_udp_flows'[k] = Len(elems')
         /\ cpu' \in [Cpus -> CpuState']
         /\ \A d \in Cpus : d # c => cpu'[d] = cpu[d]
         /\ cpu'[c] = IdleCpu
<1> DEFINE x == First(c, cpu[c].key, cpu[c].now)
           n == Len(elems)
<1>1. n \in Nat
  BY LenProperties DEF TypeOK
<1>2. cpu[c].key \in Keys /\ cpu[c].now \in Time
  BY DEF Busy, Insert, TypeOK, CpuState, Time
<1>3. x \in Elem
  BY <1>2 DEF First, Elem, Time
<1>4. /\ elems' \in Seq(Elem) /\ Len(elems') = n + 1
      /\ \A i \in 1..n : elems'[i] = elems[i]
      /\ elems'[n + 1] = x
  <2> HIDE DEF x
  <2>1. elems' = Append(elems, x)
    BY DEF Insert, x
  <2> QED
    BY <1>3, <2>1, AppendProperties DEF TypeOK
<1>5. /\ nd_udp_flows \in [Keys -> (1..(n + 1)) \cup {None}]
      /\ nd_udp_flows' \in LruUpdate(nd_udp_flows, cpu[c].key, n + 1)
      /\ n + 1 \in 1..(n + 1)
  <2>1. 1..n \subseteq 1..(n + 1)
    BY <1>1
  <2> QED
    BY <1>1, <2>1 DEF TypeOK, Insert
<1>6. nd_udp_flows' \in [Keys -> (1..(n + 1)) \cup {None}]
  BY <1>2, <1>5, UpdateType
<1>7. DOMAIN nd_udp_flows = Keys
  BY <1>5
<1>8. \A k \in Keys : \/ nd_udp_flows'[k] = nd_udp_flows[k]
                      \/ nd_udp_flows'[k] = None
                      \/ k = cpu[c].key /\ nd_udp_flows'[k] = n + 1
  BY <1>2, <1>5, <1>7, UpdateEffect
<1>9. /\ cpu' = [cpu EXCEPT ![c] = IdleCpu]
      /\ \A d \in Cpus : d # c => cpu'[d] = cpu[d]
      /\ cpu'[c] = IdleCpu
  BY DEF Insert, TypeOK
<1>10. \A d \in Cpus : cpu'[d] \in CpuState'
  <2>1. IdleCpu \in CpuState'
    BY <1>1, <1>4 DEF IdleCpu, CpuState
  <2>2. CpuState \subseteq CpuState'
    <3>1. 0..n \subseteq 0..(n + 1)
      BY <1>1
    <3> QED
      BY <1>4, <3>1 DEF CpuState
  <2> QED
    BY <1>9, <2>1, <2>2 DEF TypeOK
<1>11. cpu' \in [Cpus -> CpuState']
  BY <1>9, <1>10 DEF TypeOK
<1> QED
  BY <1>1, <1>4, <1>6, <1>8, <1>9, <1>11
-----------------------------------------------------------------------------
(* Steps that leave the elements alone.                                    *)

HookInv == Busy /\ Elements /\ Solo /\ EventsTyped /\ LongFlowIsLong

(* The collector and the clock touch nothing of the hook. *)
LEMMA QuietStep ==
  ASSUME IInv, UNCHANGED hookVars, clock' \in Time, clock <= clock'
  PROVE  HookInv'
<1>1. clock \in Nat /\ clock' \in Nat
  BY UdpBoundsAssumption DEF IInv, TypeOK, Time
<1>2. Busy'
  BY <1>1 DEF IInv, Busy, hookVars
<1>3. Elements'
  BY <1>1, ElemFields DEF IInv, Elements, hookVars
<1>4. Solo' /\ EventsTyped' /\ LongFlowIsLong'
  BY DEF IInv, Solo, EventsTyped, LongFlowIsLong, hookVars
<1> QED
  BY <1>2, <1>3, <1>4 DEF HookInv

(* A packet: the handler starts with the clock's reading. *)
LEMMA PacketStep ==
  ASSUME IInv, NEW c \in Cpus, NEW k \in Keys, Packet(c, k)
  PROVE  IInv'
<1>1. clock \in Time /\ clock \in Nat /\ clock \in 1..clock
  BY UdpBoundsAssumption DEF IInv, TypeOK, Time
<1>2. Len(elems) \in Nat
  BY LenProperties DEF IInv, TypeOK
<1>3. /\ \A d \in Cpus : d # c => cpu'[d] = cpu[d]
      /\ cpu'[c] = [IdleCpu EXCEPT !.pc = "lookup", !.key = k, !.now = clock]
  BY DEF Packet, IInv, TypeOK
<1>4. TypeOK'
  <2>1. cpu' \in [Cpus -> CpuState']
    <3> DEFINE x == [IdleCpu EXCEPT !.pc = "lookup", !.key = k, !.now = clock]
    <3>1. IdleCpu \in CpuState
      BY <1>2 DEF IdleCpu, CpuState
    <3>2. x \in CpuState
      BY <1>1, <3>1 DEF CpuState
    <3>3. cpu' = [cpu EXCEPT ![c] = x]
      BY DEF Packet
    <3> HIDE DEF x
    <3> QED
      BY <3>2, <3>3 DEF IInv, TypeOK, Packet, CpuState
  <2>2. nd_udp_counters' \in [Cpus -> [packet_total : Nat, long_flow_total : Nat]]
    <3>1. /\ nd_udp_counters \in [Cpus -> [packet_total : Nat, long_flow_total : Nat]]
          /\ nd_udp_counters' = [nd_udp_counters EXCEPT ![c].packet_total = @ + 1]
      BY DEF Packet, IInv, TypeOK
    <3> QED
      BY <3>1
  <2>3. packets' \in 0..MaxPackets
    BY UdpBoundsAssumption DEF Packet, IInv, TypeOK
  <2> QED
    BY <2>1, <2>2, <2>3 DEF Packet, IInv, TypeOK, GcState
<1>5. Busy'
  BY <1>1, <1>3 DEF Packet, IInv, Busy, IdleCpu
<1>6. Solo'
  BY <1>1, <1>3 DEF Packet, IInv, Solo, Elements, IdleCpu
<1>7. Condemned'
  <2>1. \A d \in Cpus : cpu[d].pc = "store" => cpu'[d] = cpu[d]
    BY <1>3 DEF Packet
  <2> QED
    BY <2>1 DEF Packet, IInv, Condemned
<1> QED
  BY <1>4, <1>5, <1>6, <1>7
  DEF Packet, IInv, Elements, MapLeadsToFlow, EventsTyped, LongFlowIsLong

(* bpf_map_lookup_elem. *)
LEMMA LookupStep ==
  ASSUME IInv, NEW c \in Cpus, Lookup(c)
  PROVE  IInv'
<1> DEFINE f == nd_udp_flows[cpu[c].key]
<1>1. cpu[c].key \in Keys
  BY DEF Lookup, IInv, Busy
<1>2. f # None => f \in 1..Len(elems) /\ elems[f].key = cpu[c].key
  BY <1>1 DEF IInv, TypeOK, MapLeadsToFlow
<1>3. Len(elems) \in Nat
  BY LenProperties DEF IInv, TypeOK
<1>4. /\ cpu' \in [Cpus -> CpuState]
      /\ \A d \in Cpus : d # c => cpu'[d] = cpu[d]
      /\ cpu[c].pc = "lookup"
      /\ \/ cpu'[c] = [cpu[c] EXCEPT !.pc = "insert"]
         \/ f # None /\ cpu'[c] = [cpu[c] EXCEPT !.pc = "touch", !.elem = f]
  <2>a. /\ TypeOK /\ cpu[c] \in CpuState /\ cpu \in [Cpus -> CpuState]
        /\ cpu[c].pc = "lookup"
    BY DEF IInv, TypeOK, Lookup
  <2>1. CASE f = None
    <3> DEFINE y == [cpu[c] EXCEPT !.pc = "insert"]
    <3>1. y \in CpuState
      BY <2>a DEF CpuState
    <3>2. cpu' = [cpu EXCEPT ![c] = y]
      BY <2>1, <2>a DEF Lookup
    <3> HIDE DEF y, f
    <3>3. /\ cpu' \in [Cpus -> CpuState] /\ cpu'[c] = y
          /\ \A d \in Cpus : d # c => cpu'[d] = cpu[d]
      BY <2>a, <3>1, <3>2, CpuStep
    <3> QED
      BY <2>a, <3>3 DEF y
  <2>2. CASE f # None
    <3>1. f \in 0..Len(elems)
      BY <1>2, <1>3, <2>2
    <3> HIDE DEF f
    <3> DEFINE y == [cpu[c] EXCEPT !.pc = "touch", !.elem = f]
    <3>2. y \in CpuState
      BY <2>a, <3>1 DEF CpuState
    <3>3. cpu' = [cpu EXCEPT ![c] = y]
      BY <2>2, <2>a DEF Lookup, f
    <3> HIDE DEF y
    <3>4. /\ cpu' \in [Cpus -> CpuState] /\ cpu'[c] = y
          /\ \A d \in Cpus : d # c => cpu'[d] = cpu[d]
      BY <2>a, <3>2, <3>3, CpuStep
    <3> QED
      BY <2>2, <2>a, <3>4 DEF y
  <2> QED
    BY <2>1, <2>2
<1>5. TypeOK'
  BY <1>4 DEF Lookup, IInv, TypeOK, CpuState, GcState
<1> HIDE DEF f
<1>6. cpu[c] \in CpuState
  BY DEF IInv, TypeOK
<1>7. Busy'
  <2>1. /\ cpu'[c].key = cpu[c].key /\ cpu'[c].now = cpu[c].now
        /\ \/ cpu'[c].pc = "insert"
           \/ f # None /\ cpu'[c].pc = "touch" /\ cpu'[c].elem = f
    BY <1>4, <1>6 DEF CpuState
  <2>2. cpu[c].key \in Keys /\ cpu[c].now \in 1..clock
    BY <1>4 DEF IInv, Busy
  <2> QED
    BY <1>2, <1>4, <2>1, <2>2 DEF Lookup, IInv, Busy
<1>8. Solo'
  <2>1. cpu'[c].now = cpu[c].now /\ cpu'[c].pc \notin {"idle", "store", "report"}
    BY <1>4, <1>6 DEF CpuState
  <2> QED
    BY <1>4, <2>1 DEF Lookup, IInv, Solo
<1>9. Condemned'
  <2>1. \A d \in Cpus : cpu[d].pc = "store" => cpu'[d] = cpu[d]
    BY <1>4
  <2> QED
    BY <2>1 DEF Lookup, IInv, Condemned
<1> QED
  BY <1>5, <1>7, <1>8, <1>9
  DEF Lookup, IInv, Elements, MapLeadsToFlow, EventsTyped, LongFlowIsLong

(* The duration of a flow, and when it is long. *)
LEMMA DurationIsTrue ==
  ASSUME NEW now \in Nat, NEW first \in Nat
  PROVE  /\ Duration(now, first) \in Nat
         /\ Duration(now, first) > 0 => Duration(now, first) * NsPerUs <= now - first
<1>1. CASE now > first
  <2> DEFINE x == now - first
  <2>1. x \in Nat /\ Sub(now, first) = x
    BY <1>1 DEF Sub
  <2>2. Duration(now, first) = x \div NsPerUs
    BY <1>1, <2>1 DEF Duration
  <2> HIDE DEF x
  <2>3. x \div NsPerUs \in Nat /\ x - (x \div NsPerUs) * NsPerUs \in 0..(NsPerUs - 1)
    BY <2>1, DivExact, UdpDurationsAssumption
  <2>4. (x \div NsPerUs) * NsPerUs \in Nat
    BY <2>3, UdpDurationsAssumption
  <2>5. (x \div NsPerUs) * NsPerUs <= x
    BY <2>1, <2>3, <2>4, UdpDurationsAssumption
  <2> QED
    BY <2>2, <2>3, <2>5 DEF x
<1>2. CASE ~(now > first)
  BY <1>2 DEF Duration
<1> QED
  BY <1>1, <1>2

(* The cooldown does not wrap: no stamp is near the end of the 64 bits. *)
LEMMA CooldownNoWrap ==
  ASSUME NEW last \in Time \cup {0}, NEW now \in Nat
  PROVE  CooledDown(now, last) <=> now > last + EventCooldown
<1>1. last \in Nat /\ last + EventCooldown \in 0..(Word - 1) /\ Word \in Nat \ {0}
  BY UdpBoundsAssumption, UdpDurationsAssumption DEF Time
<1>2. (last + EventCooldown) % Word = last + EventCooldown
  BY <1>1
<1> QED
  BY <1>2 DEF CooledDown

(* The decision to report. *)
LEMMA CheckStep ==
  ASSUME IInv, NEW c \in Cpus, Check(c)
  PROVE  IInv'
<1> DEFINE e == cpu[c].elem
           us == Duration(cpu[c].now, elems[e].first_seen_ns)
<1>1. e \in 1..Len(elems) /\ cpu[c].now \in Nat /\ Len(elems) \in Nat
  BY CpuFields, LenProperties DEF Check, IInv, Busy, TypeOK
<1>2. elems[e] \in Elem /\ elems[e].first_seen_ns \in Nat
      /\ elems[e].last_event_ns \in Time \cup {0}
  BY <1>1, ElemFields DEF Elem, IInv
<1>3. us \in Nat /\ (us > 0 => us * NsPerUs <= cpu[c].now - elems[e].first_seen_ns)
  BY <1>1, <1>2, DurationIsTrue
<1>4. cpu[c].pc = "check" /\ cpu[c] \in CpuState
  BY CpuFields DEF Check, IInv
<1> HIDE DEF us
<1>5. /\ \A d \in Cpus : d # c => cpu'[d] = cpu[d]
      /\ \/ cpu'[c] = IdleCpu
         \/ /\ cpu'[c] = [cpu[c] EXCEPT !.pc = "report", !.us = us]
            /\ us >= LongUdpFlow
            /\ CooledDown(cpu[c].now, elems[e].last_event_ns)
  BY DEF Check, IInv, TypeOK, us
<1>6. cpu' \in [Cpus -> CpuState]
  <2>1. IdleCpu \in CpuState
    BY <1>1 DEF IdleCpu, CpuState
  <2>2. [cpu[c] EXCEPT !.pc = "report", !.us = us] \in CpuState
    BY <1>3, <1>4 DEF CpuState
  <2>3. cpu'[c] \in CpuState
    BY <1>5, <2>1, <2>2
  <2>4. DOMAIN cpu' = Cpus /\ cpu' = [d \in Cpus |-> cpu'[d]]
    BY DEF Check, IInv, TypeOK
  <2> QED
    BY <1>5, <2>3, <2>4 DEF IInv, TypeOK
<1>7. TypeOK'
  <2>1. /\ nd_udp_counters' \in [Cpus -> [packet_total : Nat, long_flow_total : Nat]]
        /\ nd_udp_duration_us_hist' \in [Cpus -> Nat]
    <3>1. CASE UNCHANGED <<nd_udp_counters, nd_udp_duration_us_hist>>
      BY <3>1 DEF IInv, TypeOK
    <3>2. CASE /\ nd_udp_duration_us_hist' = [nd_udp_duration_us_hist EXCEPT ![c] = @ + 1]
               /\ nd_udp_counters' = [nd_udp_counters EXCEPT ![c].long_flow_total = @ + 1]
      <4>1. nd_udp_counters' \in [Cpus -> [packet_total : Nat, long_flow_total : Nat]]
        <5>1. [nd_udp_counters[c] EXCEPT !.long_flow_total = @ + 1]
                \in [packet_total : Nat, long_flow_total : Nat]
          BY DEF IInv, TypeOK
        <5> QED
          BY <3>2, <5>1 DEF IInv, TypeOK
      <4>2. nd_udp_duration_us_hist' \in [Cpus -> Nat]
        BY <3>2 DEF IInv, TypeOK
      <4> QED
        BY <4>1, <4>2
    <3> QED
      BY <3>1, <3>2 DEF Check
  <2> QED
    BY <1>6, <2>1 DEF Check, IInv, TypeOK, CpuState, GcState
<1>8. Busy'
  <2>1. CASE cpu'[c] = IdleCpu
    BY <1>5, <2>1 DEF Check, IInv, Busy, IdleCpu
  <2>2. CASE /\ cpu'[c] = [cpu[c] EXCEPT !.pc = "report", !.us = us]
             /\ us >= LongUdpFlow
    <3>1. us > 0
      BY <1>3, <2>2, UdpDurationsAssumption
    <3>2. cpu'[c].us = us /\ cpu'[c].pc = "report" /\ cpu'[c].now = cpu[c].now
          /\ cpu'[c].key = cpu[c].key /\ cpu'[c].elem = e
      BY <1>4, <2>2 DEF CpuState
    <3>3. LongUdpFlow <= us /\ us * NsPerUs <= cpu[c].now - elems[e].first_seen_ns
      BY <1>3, <2>2, <3>1, UdpDurationsAssumption
    <3>4. UNCHANGED <<elems, clock>>
      BY DEF Check
    <3>5. /\ cpu[c].key \in Keys /\ cpu[c].now \in 1..clock
          /\ elems[e].key = cpu[c].key /\ c \in elems[e].users
      BY <1>4 DEF IInv, Busy
    <3> HIDE DEF e
    <3> QED
      BY <1>1, <1>5, <3>2, <3>3, <3>4, <3>5 DEF IInv, Busy
  <2> QED
    BY <1>5, <2>1, <2>2
<1>9. Solo'
  <2>1. \/ cpu'[c].pc = "idle"
        \/ /\ cpu'[c].now = cpu[c].now /\ cpu'[c].elem = e /\ cpu'[c].pc = "report"
           /\ cpu[c].now > elems[e].last_event_ns + EventCooldown
    <3>1. CooledDown(cpu[c].now, elems[e].last_event_ns)
            <=> cpu[c].now > elems[e].last_event_ns + EventCooldown
      BY <1>1, <1>2, CooldownNoWrap
    <3>2. CASE cpu'[c] = IdleCpu
      BY <3>2 DEF IdleCpu
    <3>3. CASE /\ cpu'[c] = [cpu[c] EXCEPT !.pc = "report", !.us = us]
               /\ CooledDown(cpu[c].now, elems[e].last_event_ns)
      <4>1. cpu'[c].now = cpu[c].now /\ cpu'[c].elem = cpu[c].elem /\ cpu'[c].pc = "report"
        BY <1>4, <3>3 DEF CpuState
      <4> QED
        BY <3>1, <3>3, <4>1
    <3> QED
      BY <1>5, <3>2, <3>3
  <2> QED
    BY <1>4, <1>5, <2>1 DEF Check, IInv, Solo
<1>10. Condemned'
  <2>1. \A d \in Cpus : cpu[d].pc = "store" => cpu'[d] = cpu[d]
    BY <1>4, <1>5
  <2> QED
    BY <2>1 DEF Check, IInv, Condemned
<1> QED
  BY <1>7, <1>8, <1>9, <1>10
  DEF Check, IInv, Elements, MapLeadsToFlow, EventsTyped, LongFlowIsLong
-----------------------------------------------------------------------------
(* Steps that write to an element.                                         *)

(* The first packet of a flow, as far as this CPU knows. *)
LEMMA InsertStep ==
  ASSUME IInv, NEW c \in Cpus, Insert(c)
  PROVE  IInv'
<1> DEFINE n == Len(elems)
           x == First(c, cpu[c].key, cpu[c].now)
<1>1. TypeOK /\ Busy
  BY DEF IInv
<1>2. /\ n \in Nat /\ Len(elems') = n + 1
      /\ elems' \in Seq(Elem)
      /\ \A i \in 1..n : elems'[i] = elems[i]
      /\ elems'[n + 1] = x
      /\ nd_udp_flows' \in [Keys -> (1..Len(elems')) \cup {None}]
      /\ \A k \in Keys : \/ nd_udp_flows'[k] = nd_udp_flows[k]
                         \/ nd_udp_flows'[k] = None
                         \/ k = cpu[c].key /\ nd_udp_flows'[k] = n + 1
      /\ cpu' \in [Cpus -> CpuState']
      /\ \A d \in Cpus : d # c => cpu'[d] = cpu[d]
      /\ cpu'[c] = IdleCpu
  BY <1>1, InsertEffect
<1>3. /\ cpu[c].pc = "insert" /\ cpu[c].key \in Keys /\ cpu[c].now \in 1..clock
      /\ UNCHANGED <<clock, gc, events>>
  BY <1>1 DEF Insert, Busy
<1>4. /\ x.key = cpu[c].key /\ x.last_seen_ns = cpu[c].now /\ x.newest = cpu[c].now
      /\ x.users = {c} /\ x.packets = 1 /\ x.hits = 0 /\ x.last_event_ns = 0
  BY DEF First
<1>5. \A i \in 1..(n + 1) : i # n + 1 => i \in 1..n
  BY <1>2
<1>6. cpu'[c].pc = "idle"
  BY <1>2 DEF IdleCpu
<1>7. \A d \in Cpus : cpu[d].pc = "store" => cpu'[d] = cpu[d]
  BY <1>2, <1>3
<1>8. TypeOK'
  <2>1. gc' \in GcState'
    <3>1. 0..n \subseteq 0..(n + 1)
      BY <1>2
    <3>2. GcState \subseteq GcState'
      BY <1>2, <3>1 DEF GcState
    <3> QED
      BY <1>1, <1>3, <3>2 DEF TypeOK
  <2> QED
    BY <1>1, <1>2, <2>1 DEF Insert, TypeOK
<1> HIDE DEF x, n
<1>9. Busy'
  <2>1. ASSUME NEW d \in Cpus, cpu[d].pc \in {"touch", "store", "check", "report"}
        PROVE  cpu[d].elem \in 1..Len(elems') /\ elems'[cpu[d].elem] = elems[cpu[d].elem]
    BY <1>1, <1>2, <2>1 DEF Busy, n
  <2> QED
    BY <1>1, <1>2, <1>3, <1>6, <2>1 DEF Busy
<1>10. Elements'
  <2>1. clock \in Nat
    BY <1>1, UdpBoundsAssumption DEF TypeOK, Time
  <2>2. x.users # {} /\ IsFiniteSet(x.users) /\ x.newest <= clock /\ x.packets <= 1 + x.hits
    BY <1>3, <1>4, <2>1, FS_Singleton
  <2>3. \A i \in 1..n : /\ elems[i].users # {} /\ IsFiniteSet(elems[i].users)
                        /\ elems[i].newest <= clock
                        /\ elems[i].packets <= 1 + elems[i].hits
    BY DEF IInv, Elements, n
  <2> QED
    BY <1>2, <1>3, <1>5, <2>2, <2>3 DEF Elements
<1>11. \A v \in events : v.elem \in 1..n
  BY DEF IInv, EventsTyped, n
<1>12. Solo'
  <2> SUFFICES ASSUME NEW i \in 1..(n + 1), NEW d \in Cpus, elems'[i].users = {d}
               PROVE
      /\ elems'[i].packets = 1 + elems'[i].hits
      /\ elems'[i].last_seen_ns = elems'[i].newest
      /\ cpu'[d].pc # "idle" => elems'[i].newest <= cpu'[d].now
      /\ cpu'[d].pc = "store" /\ cpu'[d].elem = i => cpu'[d].n = elems'[i].packets
      /\ cpu'[d].pc = "report" /\ cpu'[d].elem = i
           => cpu'[d].now > elems'[i].last_event_ns + EventCooldown
      /\ \A v \in events : v.elem = i => v.now <= elems'[i].last_event_ns
      /\ \A v, w \in events : v.elem = i /\ w.elem = i /\ v.now < w.now
           => w.now - v.now > EventCooldown
    BY <1>2, <1>3 DEF Solo
  <2>1. CASE i = n + 1
    <3>1. d = c
      BY <1>2, <1>4, <2>1
    <3>2. \A v \in events : v.elem # i
      BY <1>2, <1>11, <2>1
    <3> QED
      BY <1>2, <1>4, <1>6, <2>1, <3>1, <3>2
  <2>2. CASE i \in 1..n
    <3>1. elems'[i] = elems[i] /\ elems[i].users = {d}
      BY <1>2, <2>2
    <3>2. cpu'[d].pc # "idle" => cpu'[d] = cpu[d]
      BY <1>2, <1>6
    <3> QED
      BY <1>6, <2>2, <3>1, <3>2 DEF IInv, Solo, n
  <2> QED
    BY <1>5, <2>1, <2>2
<1>13. MapLeadsToFlow'
  <2>1. ASSUME NEW k \in Keys, nd_udp_flows'[k] # None
        PROVE  elems'[nd_udp_flows'[k]].key = k
    <3>1. CASE nd_udp_flows'[k] = nd_udp_flows[k]
      <4>1. nd_udp_flows[k] \in 1..n
        BY <1>1, <2>1, <3>1 DEF TypeOK, n
      <4> QED
        BY <1>2, <2>1, <3>1, <4>1 DEF IInv, MapLeadsToFlow
    <3>2. CASE k = cpu[c].key /\ nd_udp_flows'[k] = n + 1
      BY <1>2, <1>4, <3>2
    <3> QED
      BY <1>2, <2>1, <3>1, <3>2
  <2> QED
    BY <2>1 DEF MapLeadsToFlow
<1>14. EventsTyped' /\ LongFlowIsLong'
  BY <1>2, <1>3, <1>11 DEF IInv, EventsTyped, LongFlowIsLong
<1>15. Condemned'
  <2>1. gc.pc = "delete" => gc.elem \in 1..n /\ elems'[gc.elem] = elems[gc.elem]
    BY <1>2 DEF IInv, Condemned, n
  <2>2. 1..n \subseteq 1..Len(elems')
    BY <1>2
  <2> QED
    BY <1>3, <1>7, <2>1, <2>2 DEF IInv, Condemned
<1> QED
  BY <1>8, <1>9, <1>10, <1>12, <1>13, <1>14, <1>15 DEF IInv
(* last_seen_ns = now and the load: from now on the CPU is a user. *)
LEMMA TouchStep ==
  ASSUME IInv, NEW c \in Cpus, Touch(c)
  PROVE  IInv'
<1> DEFINE e == cpu[c].elem
           now == cpu[c].now
<1>1. TypeOK /\ Busy
  BY DEF IInv
<1>2. /\ e \in 1..Len(elems)
      /\ elems' \in Seq(Elem) /\ Len(elems') = Len(elems)
      /\ \A i \in 1..Len(elems) : i # e => elems'[i] = elems[i]
      /\ cpu' \in [Cpus -> CpuState]
      /\ \A d \in Cpus : d # c => cpu'[d] = cpu[d]
  BY <1>1, TouchEffect
<1>3. /\ cpu[c].pc = "touch" /\ cpu[c].key \in Keys /\ now \in 1..clock
      /\ elems[e].key = cpu[c].key /\ now \in Nat /\ clock \in Nat
      /\ UNCHANGED <<clock, nd_udp_flows, gc, packets, events>>
      /\ UNCHANGED <<nd_udp_counters, nd_udp_duration_us_hist>>
  BY <1>1, UdpBoundsAssumption DEF Touch, Busy, TypeOK, Time
<1>4. elems[e] \in Elem /\ elems[e].newest \in Nat
  BY <1>1, <1>2, ElemFields
<1>5. /\ elems'[e].key = elems[e].key
      /\ elems'[e].first_seen_ns = elems[e].first_seen_ns
      /\ elems'[e].last_event_ns = elems[e].last_event_ns
      /\ elems'[e].packets = elems[e].packets /\ elems'[e].hits = elems[e].hits
      /\ elems'[e].last_seen_ns = now
      /\ elems'[e].users = elems[e].users \cup {c}
      /\ elems'[e].newest = IF elems[e].newest < now THEN now ELSE elems[e].newest
  BY <1>1, TouchEffect
<1>7. /\ cpu'[c].pc = "store" /\ cpu'[c].key = cpu[c].key /\ cpu'[c].now = now
      /\ cpu'[c].elem = e /\ cpu'[c].n = elems[e].packets
  BY <1>1, TouchEffect
<1>8. TypeOK'
  BY <1>1, <1>2, <1>3 DEF TypeOK, CpuState, GcState
<1> HIDE DEF e, now
<1>9. \A i \in 1..Len(elems) :
        /\ elems'[i].key = elems[i].key
        /\ elems'[i].first_seen_ns = elems[i].first_seen_ns
        /\ elems'[i].last_event_ns = elems[i].last_event_ns
        /\ elems'[i].packets = elems[i].packets /\ elems'[i].hits = elems[i].hits
        /\ elems[i].users \subseteq elems'[i].users
  BY <1>2, <1>5
<1>10. elems[e].packets <= 1 + elems[e].hits
  BY <1>2 DEF IInv, Elements
<1>11. Busy'
  <2>1. ASSUME NEW d \in Cpus, d # c
        PROVE
    /\ cpu[d].pc # "idle" => cpu[d].key \in Keys /\ cpu[d].now \in 1..clock
    /\ cpu[d].pc \in {"touch", "store", "check", "report"} =>
         /\ cpu[d].elem \in 1..Len(elems)
         /\ elems'[cpu[d].elem].key = cpu[d].key
    /\ cpu[d].pc \in {"store", "check", "report"} => d \in elems'[cpu[d].elem].users
    /\ cpu[d].pc = "store" => cpu[d].n <= 1 + elems'[cpu[d].elem].hits
    /\ cpu[d].pc = "report" =>
         /\ LongUdpFlow <= cpu[d].us
         /\ cpu[d].us * NsPerUs <= cpu[d].now - elems'[cpu[d].elem].first_seen_ns
    BY <1>1, <1>9 DEF Busy
  <2>2. /\ cpu'[c].pc = "store" /\ cpu'[c].key \in Keys /\ cpu'[c].now \in 1..clock
        /\ cpu'[c].elem \in 1..Len(elems) /\ elems'[cpu'[c].elem].key = cpu'[c].key
        /\ c \in elems'[cpu'[c].elem].users
        /\ cpu'[c].n <= 1 + elems'[cpu'[c].elem].hits
    BY <1>2, <1>3, <1>5, <1>7, <1>10
  <2>3. ASSUME NEW d \in Cpus
        PROVE
    /\ cpu'[d].pc # "idle" => cpu'[d].key \in Keys /\ cpu'[d].now \in 1..clock'
    /\ cpu'[d].pc \in {"touch", "store", "check", "report"} =>
         /\ cpu'[d].elem \in 1..Len(elems')
         /\ elems'[cpu'[d].elem].key = cpu'[d].key
    /\ cpu'[d].pc \in {"store", "check", "report"} => d \in elems'[cpu'[d].elem].users
    /\ cpu'[d].pc = "store" => cpu'[d].n <= 1 + elems'[cpu'[d].elem].hits
    /\ cpu'[d].pc = "report" =>
         /\ LongUdpFlow <= cpu'[d].us
         /\ cpu'[d].us * NsPerUs <= cpu'[d].now - elems'[cpu'[d].elem].first_seen_ns
    <3>1. CASE d = c
      BY <1>2, <1>3, <2>2, <3>1
    <3>2. CASE d # c
      <4>1. cpu'[d] = cpu[d]
        BY <1>2, <3>2
      <4> QED
        BY <1>2, <1>3, <2>1, <3>2, <4>1
    <3> QED
      BY <3>1, <3>2
  <2> QED
    BY <2>3 DEF Busy
<1>12. Elements'
  <2>1. IsFiniteSet(elems[e].users) /\ elems[e].newest <= clock
    BY <1>2 DEF IInv, Elements
  <2>2. IsFiniteSet(elems'[e].users) /\ elems'[e].users # {} /\ elems'[e].newest <= clock
    BY <1>3, <1>5, <2>1, FS_AddElement
  <2> QED
    BY <1>2, <1>3, <1>5, <2>2 DEF IInv, Elements
<1>13. Solo'
  <2> SUFFICES ASSUME NEW i \in 1..Len(elems), NEW d \in Cpus, elems'[i].users = {d}
               PROVE
      /\ elems'[i].packets = 1 + elems'[i].hits
      /\ elems'[i].last_seen_ns = elems'[i].newest
      /\ cpu'[d].pc # "idle" => elems'[i].newest <= cpu'[d].now
      /\ cpu'[d].pc = "store" /\ cpu'[d].elem = i => cpu'[d].n = elems'[i].packets
      /\ cpu'[d].pc = "report" /\ cpu'[d].elem = i
           => cpu'[d].now > elems'[i].last_event_ns + EventCooldown
      /\ \A v \in events : v.elem = i => v.now <= elems'[i].last_event_ns
      /\ \A v, w \in events : v.elem = i /\ w.elem = i /\ v.now < w.now
           => w.now - v.now > EventCooldown
    BY <1>2, <1>3 DEF Solo
  <2>1. elems[i].users = {d}
    <3>1. elems[i].users # {}
      BY DEF IInv, Elements
    <3> QED
      BY <1>9, <3>1
  <2>2. /\ elems[i].packets = 1 + elems[i].hits
        /\ elems[i].last_seen_ns = elems[i].newest
        /\ cpu[d].pc # "idle" => elems[i].newest <= cpu[d].now
        /\ cpu[d].pc = "store" /\ cpu[d].elem = i => cpu[d].n = elems[i].packets
        /\ cpu[d].pc = "report" /\ cpu[d].elem = i
             => cpu[d].now > elems[i].last_event_ns + EventCooldown
        /\ \A v \in events : v.elem = i => v.now <= elems[i].last_event_ns
        /\ \A v, w \in events : v.elem = i /\ w.elem = i /\ v.now < w.now
             => w.now - v.now > EventCooldown
    BY <2>1 DEF IInv, Solo
  <2>3. CASE i = e
    <3>1. d = c
      <4>1. c \in elems'[e].users
        BY <1>5
      <4> QED
        BY <2>3, <4>1
    <3>2. elems[e].newest <= now
      BY <1>3, <2>2, <2>3, <3>1 DEF now
    <3>3. elems'[e].newest = now
      BY <1>3, <1>4, <1>5, <3>2
    <3> QED
      BY <1>3, <1>5, <1>7, <2>2, <2>3, <3>1, <3>3
  <2>4. CASE i # e
    BY <1>2, <1>3, <1>7, <2>2, <2>4 DEF now
  <2> QED
    BY <2>3, <2>4
<1>14. MapLeadsToFlow'
  <2>1. \A k \in Keys : nd_udp_flows[k] # None => nd_udp_flows[k] \in 1..Len(elems)
    BY <1>1 DEF TypeOK
  <2> QED
    BY <1>3, <1>9, <2>1 DEF IInv, MapLeadsToFlow
<1>15. EventsTyped' /\ LongFlowIsLong'
  BY <1>2, <1>3, <1>9 DEF IInv, EventsTyped, LongFlowIsLong
<1>16. Condemned'
  <2>1. CASE gc.pc = "delete" /\ gc.elem = e
    BY <1>2, <1>3, <1>5, <1>7, <2>1 DEF IInv, Condemned
  <2>2. CASE gc.pc = "delete" /\ gc.elem # e
    <3>1. gc.elem \in 1..Len(elems) /\ elems'[gc.elem] = elems[gc.elem]
      BY <1>2, <2>2 DEF IInv, Condemned
    <3>2. \A d \in Cpus : cpu[d].pc = "store" => cpu'[d] = cpu[d]
      BY <1>2, <1>3
    <3> QED
      BY <1>2, <1>3, <2>2, <3>1, <3>2 DEF IInv, Condemned
  <2>3. CASE gc.pc # "delete"
    BY <1>3, <2>3 DEF IInv, Condemned
  <2> QED
    BY <2>1, <2>2, <2>3
<1> QED
  BY <1>8, <1>11, <1>12, <1>13, <1>14, <1>15, <1>16 DEF IInv

(* The store: another CPU's count may be lost, none is made up. *)
LEMMA StoreStep ==
  ASSUME IInv, NEW c \in Cpus, Store(c)
  PROVE  IInv'
<1> DEFINE e == cpu[c].elem
<1>1. TypeOK /\ Busy
  BY DEF IInv
<1>2. /\ e \in 1..Len(elems)
      /\ elems' \in Seq(Elem) /\ Len(elems') = Len(elems)
      /\ \A i \in 1..Len(elems) : i # e => elems'[i] = elems[i]
      /\ elems'[e] = [elems[e] EXCEPT !.packets = cpu[c].n + 1, !.hits = @ + 1]
      /\ cpu' \in [Cpus -> CpuState]
      /\ \A d \in Cpus : d # c => cpu'[d] = cpu[d]
      /\ cpu'[c] = [cpu[c] EXCEPT !.pc = "check"]
  BY <1>1, StoreEffect
<1>3. /\ cpu[c].pc = "store"
      /\ UNCHANGED <<clock, nd_udp_flows, gc, packets, events>>
      /\ UNCHANGED <<nd_udp_counters, nd_udp_duration_us_hist>>
  BY DEF Store
<1>4. /\ elems[e] \in Elem /\ elems[e].hits \in Nat /\ elems[e].packets \in Nat
      /\ cpu[c] \in CpuState /\ cpu[c].n \in Nat
  BY <1>1, <1>2, ElemFields, CpuFields
<1>5. /\ elems'[e].key = elems[e].key
      /\ elems'[e].first_seen_ns = elems[e].first_seen_ns
      /\ elems'[e].last_event_ns = elems[e].last_event_ns
      /\ elems'[e].last_seen_ns = elems[e].last_seen_ns
      /\ elems'[e].users = elems[e].users
      /\ elems'[e].newest = elems[e].newest
      /\ elems'[e].packets = cpu[c].n + 1
      /\ elems'[e].hits = elems[e].hits + 1
  BY <1>2, <1>4 DEF Elem
<1>6. /\ cpu'[c].pc = "check" /\ cpu'[c].key = cpu[c].key /\ cpu'[c].now = cpu[c].now
      /\ cpu'[c].elem = e
  BY <1>2, <1>4 DEF CpuState
<1>7. TypeOK'
  BY <1>1, <1>2, <1>3 DEF TypeOK, CpuState, GcState
<1> HIDE DEF e
<1>8. \A i \in 1..Len(elems) :
        /\ elems'[i].key = elems[i].key
        /\ elems'[i].first_seen_ns = elems[i].first_seen_ns
        /\ elems'[i].last_event_ns = elems[i].last_event_ns
        /\ elems'[i].last_seen_ns = elems[i].last_seen_ns
        /\ elems'[i].users = elems[i].users
        /\ elems'[i].newest = elems[i].newest
        /\ elems[i].hits \in Nat /\ elems'[i].hits \in Nat /\ elems[i].hits <= elems'[i].hits
  <2>1. ASSUME NEW i \in 1..Len(elems), i # e
        PROVE  elems'[i] = elems[i] /\ elems[i].hits \in Nat
    BY <1>1, <1>2, <2>1, ElemFields
  <2>2. elems'[e].hits \in Nat /\ elems[e].hits <= elems'[e].hits
    BY <1>4, <1>5
  <2> QED
    BY <1>4, <1>5, <2>1, <2>2
<1>9. /\ cpu[c].n <= 1 + elems[e].hits /\ c \in elems[e].users
      /\ cpu[c].key \in Keys /\ cpu[c].now \in 1..clock /\ elems[e].key = cpu[c].key
  BY <1>1, <1>3 DEF Busy, e
<1>10. Busy'
  <2>1. ASSUME NEW d \in Cpus, d # c
        PROVE
    /\ cpu[d].pc # "idle" => cpu[d].key \in Keys /\ cpu[d].now \in 1..clock
    /\ cpu[d].pc \in {"touch", "store", "check", "report"} =>
         /\ cpu[d].elem \in 1..Len(elems)
         /\ elems'[cpu[d].elem].key = cpu[d].key
    /\ cpu[d].pc \in {"store", "check", "report"} => d \in elems'[cpu[d].elem].users
    /\ cpu[d].pc = "store" => cpu[d].n <= 1 + elems'[cpu[d].elem].hits
    /\ cpu[d].pc = "report" =>
         /\ LongUdpFlow <= cpu[d].us
         /\ cpu[d].us * NsPerUs <= cpu[d].now - elems'[cpu[d].elem].first_seen_ns
    <3>1. ASSUME cpu[d].pc = "store" PROVE cpu[d].n <= 1 + elems'[cpu[d].elem].hits
      <4> DEFINE i == cpu[d].elem
      <4>1. i \in 1..Len(elems) /\ cpu[d].n <= 1 + elems[i].hits
        BY <1>1, <3>1 DEF Busy
      <4>2. /\ elems[i].hits \in Nat /\ elems'[i].hits \in Nat /\ cpu[d].n \in Nat
            /\ elems[i].hits <= elems'[i].hits
        BY <1>1, <1>8, <4>1, CpuFields
      <4> HIDE DEF i
      <4>3. cpu[d].n <= 1 + elems'[i].hits
        BY <4>1, <4>2
      <4> QED
        BY <4>3 DEF i
    <3>2. cpu[d].pc \in {"touch", "store", "check", "report"} =>
            cpu[d].elem \in 1..Len(elems)
      BY <1>1 DEF Busy
    <3> QED
      BY <1>1, <1>8, <3>1, <3>2 DEF Busy
  <2>2. /\ cpu'[c].pc = "check" /\ cpu'[c].key \in Keys /\ cpu'[c].now \in 1..clock
        /\ cpu'[c].elem \in 1..Len(elems) /\ elems'[cpu'[c].elem].key = cpu'[c].key
        /\ c \in elems'[cpu'[c].elem].users
    BY <1>2, <1>5, <1>6, <1>9
  <2>3. ASSUME NEW d \in Cpus
        PROVE
    /\ cpu'[d].pc # "idle" => cpu'[d].key \in Keys /\ cpu'[d].now \in 1..clock'
    /\ cpu'[d].pc \in {"touch", "store", "check", "report"} =>
         /\ cpu'[d].elem \in 1..Len(elems')
         /\ elems'[cpu'[d].elem].key = cpu'[d].key
    /\ cpu'[d].pc \in {"store", "check", "report"} => d \in elems'[cpu'[d].elem].users
    /\ cpu'[d].pc = "store" => cpu'[d].n <= 1 + elems'[cpu'[d].elem].hits
    /\ cpu'[d].pc = "report" =>
         /\ LongUdpFlow <= cpu'[d].us
         /\ cpu'[d].us * NsPerUs <= cpu'[d].now - elems'[cpu'[d].elem].first_seen_ns
    <3>1. CASE d = c
      BY <1>2, <1>3, <2>2, <3>1
    <3>2. CASE d # c
      <4>1. cpu'[d] = cpu[d]
        BY <1>2, <3>2
      <4> QED
        BY <1>2, <1>3, <2>1, <3>2, <4>1
    <3> QED
      BY <3>1, <3>2
  <2> QED
    BY <2>3 DEF Busy
<1>11. Elements'
  <2>1. elems'[e].packets <= 1 + elems'[e].hits
    BY <1>4, <1>5, <1>9
  <2> QED
    BY <1>2, <1>3, <1>8, <2>1 DEF IInv, Elements
<1>12. Solo'
  <2> SUFFICES ASSUME NEW i \in 1..Len(elems), NEW d \in Cpus, elems'[i].users = {d}
               PROVE
      /\ elems'[i].packets = 1 + elems'[i].hits
      /\ elems'[i].last_seen_ns = elems'[i].newest
      /\ cpu'[d].pc # "idle" => elems'[i].newest <= cpu'[d].now
      /\ cpu'[d].pc = "store" /\ cpu'[d].elem = i => cpu'[d].n = elems'[i].packets
      /\ cpu'[d].pc = "report" /\ cpu'[d].elem = i
           => cpu'[d].now > elems'[i].last_event_ns + EventCooldown
      /\ \A v \in events : v.elem = i => v.now <= elems'[i].last_event_ns
      /\ \A v, w \in events : v.elem = i /\ w.elem = i /\ v.now < w.now
           => w.now - v.now > EventCooldown
    BY <1>2, <1>3 DEF Solo
  <2>1. elems[i].users = {d}
    BY <1>8
  <2>2. /\ elems[i].packets = 1 + elems[i].hits
        /\ elems[i].last_seen_ns = elems[i].newest
        /\ cpu[d].pc # "idle" => elems[i].newest <= cpu[d].now
        /\ cpu[d].pc = "store" /\ cpu[d].elem = i => cpu[d].n = elems[i].packets
        /\ cpu[d].pc = "report" /\ cpu[d].elem = i
             => cpu[d].now > elems[i].last_event_ns + EventCooldown
        /\ \A v \in events : v.elem = i => v.now <= elems[i].last_event_ns
        /\ \A v, w \in events : v.elem = i /\ w.elem = i /\ v.now < w.now
             => w.now - v.now > EventCooldown
    BY <2>1 DEF IInv, Solo
  <2>3. CASE i = e
    <3>1. d = c
      BY <1>9, <2>1, <2>3
    <3>2. cpu[c].n = elems[e].packets
      BY <1>3, <2>2, <2>3, <3>1 DEF e
    <3> QED
      BY <1>3, <1>4, <1>5, <1>6, <2>2, <2>3, <3>1, <3>2
  <2>4. CASE i # e
    BY <1>2, <1>3, <1>6, <2>2, <2>4
  <2> QED
    BY <2>3, <2>4
<1>13. MapLeadsToFlow'
  <2>1. \A k \in Keys : nd_udp_flows[k] # None => nd_udp_flows[k] \in 1..Len(elems)
    BY <1>1 DEF TypeOK
  <2> QED
    BY <1>3, <1>8, <2>1 DEF IInv, MapLeadsToFlow
<1>14. EventsTyped' /\ LongFlowIsLong'
  BY <1>2, <1>3, <1>8 DEF IInv, EventsTyped, LongFlowIsLong
<1>15. Condemned'
  <2>1. CASE gc.pc = "delete" /\ gc.elem = e
    <3>1. gc.seen \in Nat /\ gc.seen <= elems[e].hits
      BY <1>1, <2>1 DEF IInv, Condemned, TypeOK, GcState
    <3>2. gc.seen < elems'[e].hits
      BY <1>4, <1>5, <3>1
    <3>3. gc.seen <= elems'[e].hits
      BY <1>4, <1>5, <3>1
    <3> QED
      BY <1>2, <1>3, <2>1, <3>2, <3>3 DEF IInv, Condemned
  <2>2. CASE gc.pc = "delete" /\ gc.elem # e
    <3>1. gc.elem \in 1..Len(elems) /\ elems'[gc.elem] = elems[gc.elem]
      BY <1>2, <2>2 DEF IInv, Condemned
    <3>2. \A d \in Cpus : cpu[d].pc = "store" /\ cpu[d].elem = gc.elem => cpu'[d] = cpu[d]
      BY <1>2, <2>2 DEF e
    <3> QED
      BY <1>2, <1>3, <2>2, <3>1, <3>2 DEF IInv, Condemned
  <2>3. CASE gc.pc # "delete"
    BY <1>3, <2>3 DEF IInv, Condemned
  <2> QED
    BY <2>1, <2>2, <2>3
<1> QED
  BY <1>7, <1>10, <1>11, <1>12, <1>13, <1>14, <1>15 DEF IInv
(* The event and its stamp: a sole user reports later than its own stamp   *)
(* by more than the cooldown.                                              *)
LEMMA ReportStep ==
  ASSUME IInv, NEW c \in Cpus, Report(c)
  PROVE  IInv'
<1> DEFINE e == cpu[c].elem
           new == [elem |-> e, cpu |-> c, key |-> cpu[c].key, now |-> cpu[c].now,
                   us |-> cpu[c].us, packets |-> elems[e].packets]
<1>1. TypeOK /\ Busy
  BY DEF IInv
<1>2. /\ e \in 1..Len(elems)
      /\ elems' \in Seq(Elem) /\ Len(elems') = Len(elems)
      /\ \A i \in 1..Len(elems) : i # e => elems'[i] = elems[i]
      /\ elems'[e] = [elems[e] EXCEPT !.last_event_ns = cpu[c].now]
      /\ cpu' \in [Cpus -> CpuState]
      /\ \A d \in Cpus : d # c => cpu'[d] = cpu[d]
      /\ cpu'[c] = IdleCpu
  BY <1>1, ReportEffect
<1>3. /\ cpu[c].pc = "report"
      /\ UNCHANGED <<clock, nd_udp_flows, gc, packets>>
      /\ UNCHANGED <<nd_udp_counters, nd_udp_duration_us_hist>>
      /\ events' = events \cup {new}
  BY DEF Report
<1>4. /\ elems[e] \in Elem /\ elems[e].last_event_ns \in Nat
      /\ cpu[c].now \in Time /\ cpu[c].us \in Nat
  <2>1. cpu[c] \in CpuState /\ cpu[c].us \in Nat /\ cpu[c].now \in 1..clock
    BY <1>1, <1>3, CpuFields DEF Busy
  <2>2. cpu[c].now \in Time
    BY <2>1 DEF CpuState, Time
  <2> QED
    BY <1>1, <1>2, <2>1, <2>2, ElemFields
<1>5. /\ elems'[e].key = elems[e].key
      /\ elems'[e].first_seen_ns = elems[e].first_seen_ns
      /\ elems'[e].last_seen_ns = elems[e].last_seen_ns
      /\ elems'[e].packets = elems[e].packets /\ elems'[e].hits = elems[e].hits
      /\ elems'[e].users = elems[e].users
      /\ elems'[e].newest = elems[e].newest
      /\ elems'[e].last_event_ns = cpu[c].now
  BY <1>2, <1>4 DEF Elem
<1>6. cpu'[c].pc = "idle"
  BY <1>2 DEF IdleCpu
<1>7. TypeOK'
  BY <1>1, <1>2, <1>3 DEF TypeOK, CpuState, GcState
<1>8. /\ new.elem = e /\ new.now = cpu[c].now /\ new.key = cpu[c].key
      /\ new.us = cpu[c].us
  OBVIOUS
<1> HIDE DEF e, new
<1>9. \A i \in 1..Len(elems) :
        /\ elems'[i].key = elems[i].key
        /\ elems'[i].first_seen_ns = elems[i].first_seen_ns
        /\ elems'[i].last_seen_ns = elems[i].last_seen_ns
        /\ elems'[i].packets = elems[i].packets /\ elems'[i].hits = elems[i].hits
        /\ elems'[i].users = elems[i].users
        /\ elems'[i].newest = elems[i].newest
  BY <1>2, <1>5
<1>10. /\ c \in elems[e].users /\ elems[e].key = cpu[c].key
       /\ LongUdpFlow <= cpu[c].us
       /\ cpu[c].us * NsPerUs <= cpu[c].now - elems[e].first_seen_ns
  BY <1>1, <1>3 DEF Busy, e
<1>11. \A d \in Cpus : d # c => cpu'[d] = cpu[d]
  BY <1>2
<1>12. Busy'
  <2> SUFFICES ASSUME NEW d \in Cpus, d # c, cpu'[d] = cpu[d]
               PROVE
    /\ cpu[d].pc # "idle" => cpu[d].key \in Keys /\ cpu[d].now \in 1..clock
    /\ cpu[d].pc \in {"touch", "store", "check", "report"} =>
         /\ cpu[d].elem \in 1..Len(elems)
         /\ elems'[cpu[d].elem].key = cpu[d].key
    /\ cpu[d].pc \in {"store", "check", "report"} => d \in elems'[cpu[d].elem].users
    /\ cpu[d].pc = "store" => cpu[d].n <= 1 + elems'[cpu[d].elem].hits
    /\ cpu[d].pc = "report" =>
         /\ LongUdpFlow <= cpu[d].us
         /\ cpu[d].us * NsPerUs <= cpu[d].now - elems'[cpu[d].elem].first_seen_ns
    BY <1>2, <1>3, <1>6, <1>11 DEF Busy
  <2> QED
    BY <1>1, <1>9 DEF Busy
<1>13. Elements'
  BY <1>2, <1>3, <1>9 DEF IInv, Elements
<1>14. Solo'
  <2> SUFFICES ASSUME NEW i \in 1..Len(elems), NEW d \in Cpus, elems'[i].users = {d}
               PROVE
      /\ elems'[i].packets = 1 + elems'[i].hits
      /\ elems'[i].last_seen_ns = elems'[i].newest
      /\ cpu'[d].pc # "idle" => elems'[i].newest <= cpu'[d].now
      /\ cpu'[d].pc = "store" /\ cpu'[d].elem = i => cpu'[d].n = elems'[i].packets
      /\ cpu'[d].pc = "report" /\ cpu'[d].elem = i
           => cpu'[d].now > elems'[i].last_event_ns + EventCooldown
      /\ \A v \in events' : v.elem = i => v.now <= elems'[i].last_event_ns
      /\ \A v, w \in events' : v.elem = i /\ w.elem = i /\ v.now < w.now
           => w.now - v.now > EventCooldown
    BY <1>2, <1>3 DEF Solo
  <2>1. elems[i].users = {d}
    BY <1>9
  <2>2. /\ elems[i].packets = 1 + elems[i].hits
        /\ elems[i].last_seen_ns = elems[i].newest
        /\ cpu[d].pc # "idle" => elems[i].newest <= cpu[d].now
        /\ cpu[d].pc = "store" /\ cpu[d].elem = i => cpu[d].n = elems[i].packets
        /\ cpu[d].pc = "report" /\ cpu[d].elem = i
             => cpu[d].now > elems[i].last_event_ns + EventCooldown
        /\ \A v \in events : v.elem = i => v.now <= elems[i].last_event_ns
        /\ \A v, w \in events : v.elem = i /\ w.elem = i /\ v.now < w.now
             => w.now - v.now > EventCooldown
    BY <2>1 DEF IInv, Solo
  <2>3. CASE i = e
    <3>1. d = c
      BY <1>10, <2>1, <2>3
    <3>2. cpu[c].now > elems[e].last_event_ns + EventCooldown /\ cpu[c].now \in Nat
      BY <1>3, <1>4, <2>2, <2>3, <3>1 DEF e, Time
    <3>3. \A v \in events : v.elem = e =>
            v.now \in Nat /\ v.now <= elems[e].last_event_ns
      BY <2>2, <2>3, UdpBoundsAssumption DEF IInv, EventsTyped, Time
    <3>4. \A v \in events : v.elem = e =>
            v.now \in Nat /\ v.now < cpu[c].now /\ cpu[c].now - v.now > EventCooldown
      <4> TAKE v \in events
      <4>1. elems[e].last_event_ns \in Nat /\ EventCooldown \in Nat
        BY <1>4, UdpDurationsAssumption
      <4>2. v.elem = e => v.now \in Nat /\ v.now <= elems[e].last_event_ns
        BY <3>3
      <4> QED
        BY <3>2, <4>1, <4>2
    <3>5. \A v \in events' : v.elem = e => v.now <= elems'[e].last_event_ns
      BY <1>3, <1>5, <1>8, <3>2, <3>4
    <3>6. \A v, w \in events' : v.elem = e /\ w.elem = e /\ v.now < w.now
            => w.now - v.now > EventCooldown
      <4> SUFFICES ASSUME NEW v \in events', NEW w \in events',
                          v.elem = e, w.elem = e, v.now < w.now
                   PROVE  w.now - v.now > EventCooldown
        OBVIOUS
      <4>1. CASE v \in events /\ w \in events
        BY <2>2, <2>3, <4>1
      <4>2. CASE v \in events /\ w = new
        BY <1>8, <3>4, <4>2
      <4>3. CASE v = new /\ w \in events
        BY <1>8, <3>2, <3>4, <4>3
      <4>4. CASE v = new /\ w = new
        BY <1>8, <3>2, <4>4
      <4> QED
        BY <1>3, <4>1, <4>2, <4>3, <4>4
    <3> QED
      BY <1>5, <1>6, <2>2, <2>3, <3>1, <3>5, <3>6
  <2>4. CASE i # e
    <3>1. \A v \in events' : v.elem = i => v \in events
      BY <1>3, <1>8, <2>4
    <3> QED
      BY <1>2, <1>6, <2>2, <2>4, <3>1
  <2> QED
    BY <2>3, <2>4
<1>15. MapLeadsToFlow'
  <2>1. \A k \in Keys : nd_udp_flows[k] # None => nd_udp_flows[k] \in 1..Len(elems)
    BY <1>1 DEF TypeOK
  <2> QED
    BY <1>3, <1>9, <2>1 DEF IInv, MapLeadsToFlow
<1>16. EventsTyped'
  BY <1>2, <1>3, <1>4, <1>8 DEF IInv, EventsTyped
<1>17. LongFlowIsLong'
  <2> SUFFICES ASSUME NEW v \in events'
               PROVE  /\ elems'[v.elem].key = v.key
                      /\ LongUdpFlow <= v.us
                      /\ v.us * NsPerUs <= v.now - elems'[v.elem].first_seen_ns
    BY DEF LongFlowIsLong
  <2>1. CASE v \in events
    BY <1>9, <2>1 DEF IInv, EventsTyped, LongFlowIsLong
  <2>2. CASE v = new
    BY <1>5, <1>8, <1>10, <2>2
  <2> QED
    BY <1>3, <2>1, <2>2
<1>18. Condemned'
  <2>1. \A d \in Cpus : cpu[d].pc = "store" => cpu'[d] = cpu[d]
    BY <1>3, <1>11
  <2> QED
    BY <1>2, <1>3, <1>9, <2>1 DEF IInv, Condemned
<1> QED
  BY <1>7, <1>12, <1>13, <1>14, <1>15, <1>16, <1>17, <1>18 DEF IInv

-----------------------------------------------------------------------------
(* The collector and the clock.                                            *)

(* An idle flow has not been seen for the idle time. *)
LEMMA IdleIsOld ==
  ASSUME NEW now \in Nat, NEW seen \in Nat, Idle(now, seen)
  PROVE  now > seen + UdpIdle
<1>1. now > seen /\ ~(now - seen <= UdpIdle)
  BY DEF Idle, Sub
<1> QED
  BY <1>1, UdpDurationsAssumption

(* The collector reads elements and writes only to the map. *)
LEMMA CollectorStep == IInv /\ Collector => IInv'
<1> SUFFICES ASSUME IInv, Collector PROVE IInv'
  OBVIOUS
<1>1. /\ UNCHANGED <<clock, hookVars>> /\ clock \in Time /\ clock \in Nat
      /\ UNCHANGED <<elems, nd_udp_counters, nd_udp_duration_us_hist, cpu, packets, events>>
      /\ Len(elems) \in Nat
  <2>1. UNCHANGED <<clock, hookVars>>
    BY DEF Collector, GcStart, GcNextKey, GcEnd, GcIterFails, GcLookup, GcDelete,
           GcDeleteFails
  <2>2. clock \in Time /\ clock \in Nat
    BY UdpBoundsAssumption DEF IInv, TypeOK, Time
  <2>3. Len(elems) \in Nat
    BY LenProperties DEF IInv, TypeOK
  <2> QED
    BY <2>1, <2>2, <2>3 DEF hookVars
<1>2. HookInv'
  BY <1>1, QuietStep
<1>3. IdleGc \in GcState /\ gc \in GcState
  BY <1>1 DEF IdleGc, GcState, IInv, TypeOK
<1>4. /\ nd_udp_flows' \in [Keys -> (1..Len(elems)) \cup {None}]
      /\ \A k \in Keys : nd_udp_flows'[k] = nd_udp_flows[k] \/ nd_udp_flows'[k] = None
  <2>1. CASE GcDelete
    <3>1. gc.cursor \in Keys
      BY <2>1 DEF GcDelete, IInv, Condemned
    <3>2. nd_udp_flows' = LruWithout(nd_udp_flows, gc.cursor)
      BY <2>1 DEF GcDelete
    <3>3. nd_udp_flows \in [Keys -> (1..Len(elems)) \cup {None}]
      BY DEF IInv, TypeOK
    <3> QED
      BY <3>1, <3>2, <3>3 DEF LruWithout
  <2>2. CASE ~GcDelete
    BY <2>2 DEF Collector, GcStart, GcNextKey, GcEnd, GcIterFails, GcLookup, GcDeleteFails,
                IInv, TypeOK
  <2> QED
    BY <2>1, <2>2
<1>5. MapLeadsToFlow'
  BY <1>1, <1>4 DEF IInv, MapLeadsToFlow
<1>6. gc' \in GcState /\ Condemned'
  <2>1. CASE GcStart
    <3>1. gc' = [IdleGc EXCEPT !.pc = "next", !.now = clock]
      BY <2>1 DEF GcStart
    <3>2. gc' \in GcState /\ gc'.pc = "next" /\ gc'.now = clock
      BY <1>1, <1>3, <3>1 DEF GcState
    <3> QED
      BY <1>1, <3>2 DEF Condemned
  <2>2. ASSUME NEW k \in Keys, GcNextKey(k) PROVE gc' \in GcState /\ Condemned'
    <3>1. gc' = [gc EXCEPT !.pc = "lookup", !.cursor = k, !.count = @ + 1]
      BY <2>2 DEF GcNextKey
    <3>2. gc.count \in Nat /\ gc.count + 1 \in Nat
      BY <1>3 DEF GcState
    <3>3. gc' \in GcState /\ gc'.pc = "lookup" /\ gc'.now = gc.now /\ gc'.cursor \in Keys
      BY <1>3, <3>1, <3>2 DEF GcState
    <3> QED
      BY <1>1, <3>3 DEF IInv, Condemned
  <2>3. CASE GcEnd \/ GcIterFails
    <3>1. gc' = IdleGc
      BY <2>3 DEF GcEnd, GcIterFails
    <3>2. gc' \in GcState /\ gc'.pc = "idle" /\ gc'.now = 0
      BY <1>3, <3>1 DEF IdleGc
    <3> QED
      BY <1>1, <3>2 DEF Condemned
  <2>4. CASE GcLookup
    <3> DEFINE f == nd_udp_flows[gc.cursor]
    <3>1. gc.cursor \in Keys /\ gc.now <= clock
      BY <2>4 DEF GcLookup, IInv, Condemned
    <3>2. CASE gc' = [gc EXCEPT !.pc = "next"]
      <4>1. gc' \in GcState /\ gc'.pc = "next" /\ gc'.now = gc.now
        BY <1>3, <3>2 DEF GcState
      <4> QED
        BY <1>1, <3>1, <4>1 DEF Condemned
    <3>3. CASE /\ f # None /\ Idle(gc.now, elems[f].last_seen_ns)
               /\ gc' = [gc EXCEPT !.pc = "delete", !.elem = f, !.seen = elems[f].hits]
      <4>1. f \in 1..Len(elems)
        BY <3>1, <3>3 DEF IInv, TypeOK
      <4> HIDE DEF f
      <4>2. elems[f].hits \in Nat /\ elems[f].last_seen_ns \in Nat /\ gc.now \in Nat
        <5>1. elems[f].hits \in Nat /\ elems[f].last_seen_ns \in Nat
          BY <4>1, ElemFields DEF IInv
        <5>2. gc.now \in Nat
          BY <1>3, UdpBoundsAssumption DEF GcState, Time
        <5> QED
          BY <5>1, <5>2
      <4>3. gc.now > elems[f].last_seen_ns + UdpIdle
        BY <3>3, <4>2, IdleIsOld
      <4>4. f \in 0..Len(elems)
        BY <1>1, <4>1
      <4>5. /\ gc' \in GcState /\ gc'.pc = "delete" /\ gc'.now = gc.now
            /\ gc'.cursor = gc.cursor /\ gc'.elem = f /\ gc'.seen = elems[f].hits
        BY <1>3, <3>3, <4>2, <4>4 DEF GcState
      <4> QED
        BY <1>1, <3>1, <4>1, <4>2, <4>3, <4>5 DEF Condemned
    <3> QED
      BY <2>4, <3>2, <3>3 DEF GcLookup
  <2>5. CASE GcDelete \/ GcDeleteFails
    <3>1. gc' = [gc EXCEPT !.pc = "next", !.elem = 0, !.seen = 0]
      BY <2>5 DEF GcDelete, GcDeleteFails
    <3>2. 0 \in 0..Len(elems)
      BY <1>1
    <3>3. gc' \in GcState
      BY <1>3, <3>1, <3>2 DEF GcState
    <3>4. gc'.pc = "next" /\ gc'.now = gc.now
      BY <1>3, <3>1 DEF GcState
    <3> QED
      BY <1>1, <3>3, <3>4 DEF IInv, Condemned
  <2> QED
    BY <2>1, <2>2, <2>3, <2>4, <2>5 DEF Collector
<1>7. TypeOK'
  BY <1>1, <1>4, <1>6 DEF IInv, TypeOK, CpuState, GcState
<1> QED
  BY <1>2, <1>5, <1>6, <1>7 DEF IInv, HookInv

(* Time passes. *)
LEMMA TickStep == IInv /\ Tick => IInv'
<1> SUFFICES ASSUME IInv, Tick PROVE IInv'
  OBVIOUS
<1>1. clock' \in Time /\ clock <= clock' /\ clock \in Nat /\ clock' \in Nat
  BY UdpBoundsAssumption DEF Tick, IInv, TypeOK, Time
<1>2. UNCHANGED hookVars /\ UNCHANGED <<nd_udp_flows, gc>>
      /\ UNCHANGED <<elems, nd_udp_counters, nd_udp_duration_us_hist, cpu, packets, events>>
  BY DEF Tick, hookVars
<1>3. HookInv'
  BY <1>1, <1>2, QuietStep
<1>4. TypeOK'
  BY <1>1, <1>2 DEF IInv, TypeOK, CpuState, GcState
<1>5. gc.now \in Nat
  BY UdpBoundsAssumption DEF IInv, TypeOK, GcState, Time
<1>6. MapLeadsToFlow' /\ Condemned'
  BY <1>1, <1>2, <1>5 DEF IInv, MapLeadsToFlow, Condemned
<1> QED
  BY <1>3, <1>4, <1>6 DEF IInv, HookInv

-----------------------------------------------------------------------------
(* The theorems.                                                           *)

(* The agent starts with an empty map. *)
LEMMA InitIInv == Init => IInv
<1> SUFFICES ASSUME Init PROVE IInv
  OBVIOUS
<1>1. elems = <<>> /\ Len(elems) = 0 /\ elems \in Seq(Elem)
  BY DEF Init
<1>2. clock \in Time /\ clock = 1
  BY UdpBoundsAssumption DEF Init, Time
<1>3. cpu \in [Cpus -> CpuState] /\ gc \in GcState
  BY <1>1 DEF Init, IdleCpu, IdleGc, CpuState, GcState
<1>4. TypeOK
  BY <1>1, <1>2, <1>3, UdpBoundsAssumption DEF Init, TypeOK, EmptyMap
<1>5. Busy
  BY DEF Init, Busy, IdleCpu
<1>6. Elements /\ Solo
  BY <1>1 DEF Elements, Solo
<1>7. MapLeadsToFlow /\ EventsTyped /\ LongFlowIsLong
  BY DEF Init, EmptyMap, MapLeadsToFlow, EventsTyped, LongFlowIsLong
<1>8. Condemned
  BY <1>2 DEF Init, IdleGc, Condemned
<1> QED
  BY <1>4, <1>5, <1>6, <1>7, <1>8 DEF IInv

(* Every step of every CPU and of the collector keeps the invariant. *)
LEMMA StepIInv == IInv /\ [Next]_vars => IInv'
<1> SUFFICES ASSUME IInv, [Next]_vars PROVE IInv'
  OBVIOUS
<1>1. ASSUME NEW c \in Cpus, Handle(c) PROVE IInv'
  BY <1>1, LookupStep, InsertStep, TouchStep, StoreStep, CheckStep, ReportStep DEF Handle
<1>2. ASSUME NEW c \in Cpus, NEW k \in Keys, Packet(c, k) PROVE IInv'
  BY <1>2, PacketStep
<1>3. CASE UNCHANGED vars
  <2>1. HookInv'
    BY <1>3, QuietStep, UdpBoundsAssumption DEF vars, IInv, TypeOK, Time
  <2>2. TypeOK' /\ MapLeadsToFlow' /\ Condemned'
    BY <1>3 DEF vars, hookVars, IInv, TypeOK, CpuState, GcState, MapLeadsToFlow, Condemned
  <2> QED
    BY <2>1, <2>2 DEF IInv, HookInv
<1> QED
  BY <1>1, <1>2, <1>3, CollectorStep, TickStep DEF Next

(* The inductive invariant holds in every state of the hook. *)
THEOREM UdpInvariance == Spec => []IInv
BY InitIInv, StepIInv, PTL DEF Spec

(* Every value the hook and the collector keep has its type: in            *)
(* particular a handler never points outside the elements.                 *)
THEOREM UdpTypeCorrect == Spec => []TypeOK
<1>1. IInv => TypeOK
  BY DEF IInv
<1> QED
  BY <1>1, UdpInvariance, PTL

(* uv->packets++ on several CPUs at once loses counts and never makes any  *)
(* up; a flow that one CPU handles is counted exactly.                     *)
THEOREM UdpCountSound == Spec => []PacketsNotOvercounted
<1>1. IInv => PacketsNotOvercounted
  <2> SUFFICES ASSUME IInv, NEW i \in 1..Len(elems)
               PROVE  /\ elems[i].packets <= 1 + elems[i].hits
                      /\ Cardinality(elems[i].users) = 1
                           => elems[i].packets = 1 + elems[i].hits
    BY DEF PacketsNotOvercounted
  <2>1. Cardinality(elems[i].users) = 1 => \E c : elems[i].users = {c}
    BY FS_Singleton DEF IInv, Elements
  <2>2. elems[i].users \subseteq Cpus
    BY ElemFields DEF IInv
  <2> QED
    BY <2>1, <2>2 DEF IInv, Elements, Solo
<1> QED
  BY <1>1, UdpInvariance, PTL

(* The long-flow event of the TC hook names a flow whose first packet lies *)
(* at least the threshold back, although a CPU may read first_seen_ns that *)
(* another wrote with a later clock reading.                               *)
THEOREM UdpLongSound == Spec => []LongFlowIsLong
<1>1. IInv => LongFlowIsLong
  BY DEF IInv
<1> QED
  BY <1>1, UdpInvariance, PTL

(* A flow handled by one CPU is reported at most once per cooldown. *)
THEOREM UdpCooldownSound == Spec => []CooldownHeldOnOneCpu
<1>1. IInv => CooldownHeldOnOneCpu
  <2> SUFFICES ASSUME IInv, NEW v \in events, NEW w \in events,
                      v.elem = w.elem, v.now < w.now, Cardinality(elems[v.elem].users) = 1
               PROVE  w.now - v.now > EventCooldown
    BY DEF CooldownHeldOnOneCpu
  <2>1. v.elem \in 1..Len(elems)
    BY DEF IInv, EventsTyped
  <2>2. \E c : elems[v.elem].users = {c}
    BY <2>1, FS_Singleton DEF IInv, Elements
  <2>3. elems[v.elem].users \subseteq Cpus
    BY <2>1, ElemFields DEF IInv
  <2> QED
    BY <2>1, <2>2, <2>3 DEF IInv, Solo
<1> QED
  BY <1>1, UdpInvariance, PTL

(* gcUDPFlows removes a flow that one CPU handles, and that was not hit    *)
(* between the inspection and the delete, only when it is really idle.     *)
THEOREM UdpCollectorSound == Spec => GcTakesOnlyIdle
<1>1. ASSUME IInv, [Next]_vars
      PROVE  [\A k \in Keys : LET e == nd_udp_flows[k] IN
                /\ GcTakes(k) /\ e = gc.elem /\ elems[e].hits = gc.seen
                /\ Cardinality(elems[e].users) = 1
                /\ \A c \in Cpus : ~(cpu[c].pc = "store" /\ cpu[c].elem = e)
                => clock - elems[e].newest > UdpIdle]_vars
  <2> SUFFICES ASSUME NEW k \in Keys, GcTakes(k), nd_udp_flows[k] = gc.elem,
                      elems[gc.elem].hits = gc.seen,
                      Cardinality(elems[gc.elem].users) = 1,
                      \A c \in Cpus : ~(cpu[c].pc = "store" /\ cpu[c].elem = gc.elem)
               PROVE  clock - elems[gc.elem].newest > UdpIdle
    OBVIOUS
  <2>1. gc.pc = "delete" /\ gc.elem \in 1..Len(elems) /\ gc.now <= clock
    BY <1>1 DEF GcTakes, IInv, Condemned
  <2>2. /\ elems[gc.elem].hits \in Nat /\ elems[gc.elem].last_seen_ns \in Nat
        /\ elems[gc.elem].users \subseteq Cpus
    BY <1>1, <2>1, ElemFields DEF IInv
  <2>3. gc.now \in Nat /\ clock \in Nat
    BY <1>1, UdpBoundsAssumption DEF IInv, TypeOK, GcState, Time
  <2>4. gc.now > elems[gc.elem].last_seen_ns + UdpIdle
    BY <1>1, <2>1, <2>2 DEF IInv, Condemned
  <2>5. \E c : elems[gc.elem].users = {c}
    BY <1>1, <2>1, FS_Singleton DEF IInv, Elements
  <2>6. elems[gc.elem].newest = elems[gc.elem].last_seen_ns
    BY <1>1, <2>1, <2>2, <2>5 DEF IInv, Solo
  <2> QED
    BY <2>1, <2>2, <2>3, <2>4, <2>6, UdpDurationsAssumption
<1> QED
  BY <1>1, UdpInvariance, PTL DEF Spec, GcTakesOnlyIdle
=============================================================================
