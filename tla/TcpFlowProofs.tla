--------------------------- MODULE TcpFlowProofs ---------------------------
(***************************************************************************)
(* What TcpFlow guarantees for any number of sockets and keys, any map     *)
(* sizes and any thresholds.                                               *)
(*                                                                         *)
(* Sockets that share a key overwrite each other's values, so what is      *)
(* known of a value in general is a bound: it counts no retransmission     *)
(* twice (Windows, Counts).  For a key of a single socket whose entries    *)
(* survive, the value that is in the map or on its way into it tells the   *)
(* whole history of the flow: its latest sample (Latest), its last events  *)
(* (Stamps) and, while no burst was reported, how thinly its               *)
(* retransmissions are spread (Sparse).                                    *)
(***************************************************************************)
EXTENDS TcpFlow, FiniteSetTheorems, SequenceTheorems, TLAPS

-----------------------------------------------------------------------------
(* What an update of an LruMap can do, and ns / 1000.                      *)

(* bpf_map_update_elem leaves every entry as it was, takes it away, or,    *)
(* for the key updated, replaces it by the new value.                      *)
LEMMA UpdateEffect ==
  ASSUME NEW m, DOMAIN m = Keys, NEW k \in Keys, NEW v, NEW n \in LruUpdate(m, k, v),
         NEW j \in Keys
  PROVE  n[j] = m[j] \/ n[j] = None \/ (j = k /\ n[j] = v)
BY DEF LruUpdate, Present

(* It keeps a map of entries a map of entries. *)
LEMMA UpdateType ==
  ASSUME NEW S, NEW m \in [Keys -> S \cup {None}], NEW k \in Keys, NEW v \in S,
         NEW n \in LruUpdate(m, k, v)
  PROVE  n \in [Keys -> S \cup {None}]
<1>1. CASE n = m
  BY <1>1
<1>2. CASE n = [m EXCEPT ![k] = v]
  BY <1>2
<1>3. CASE \E e \in Keys : n = [m EXCEPT ![k] = v, ![e] = None]
  BY <1>3
<1> QED
  BY <1>1, <1>2, <1>3 DEF LruUpdate, Present

(* A duration in microseconds is short of the duration by less than a      *)
(* microsecond.                                                            *)
LEMMA DivExact ==
  ASSUME NEW x \in Nat, NEW n \in Nat \ {0}
  PROVE  x \div n \in Nat /\ x - (x \div n) * n \in 0..(n - 1)
OBVIOUS

-----------------------------------------------------------------------------
(* The inductive invariant.                                                *)

(* What a socket's handler can be doing. *)
Handler ==
  {Idle}
    \cup [pc : {"rcvLookup"}, now : Time, srtt : Nat, cwnd : Nat, elem : Nat]
    \cup [pc : {"rcvUpdate"}, new : Sample]
    \cup [pc : {"rtLookup"}, now : Time]
    \cup [pc : {"rtUpdate"}, new : RetransValue]
    \cup [pc : {"flowLookup"}]
    \cup [pc : {"flowStore"}, elem : Nat, n : Nat]

Typed ==
  /\ clock \in Time
  /\ flow \in [Socks -> Keys]
  /\ nd_tcp_flow_latest \in [Keys -> Sample \cup {None}]
  /\ nd_tcp_retrans_by_flow \in [Keys -> RetransValue \cup {None}]
  /\ nd_tcp_counters \in [retrans_total : Nat, retrans_burst_total : Nat]
  /\ sock \in [Socks -> Handler]
  /\ rcvs \in [n : Nat, cwnd : [Keys -> Nat]]
  /\ retrans \in [Keys -> Seq(Time)]
  /\ counted \in [Keys -> Nat]
  /\ lost \subseteq Keys
  /\ \A e \in events : e.key \in Keys /\ e.now \in Time

(* The handlers of nd_tcp_retransmit_skb that have not looked at the map   *)
(* yet: all of them, and those of a key whose time is in a window.         *)
Looking == {s \in Socks : sock[s].pc = "rtLookup"}
LookingIn(k, from) ==
  {s \in Looking : flow[s] = k /\ sock[s].now \in from..(from + RetransWindow)}

Within(k, from) == Between(k, from, from + RetransWindow)

(* A window counts retransmissions of its time, and none of a handler that *)
(* has yet to look.                                                        *)
Covered(k, w) ==
  /\ w.count + Cardinality(LookingIn(k, w.first_seen_ns))
       <= Cardinality(Within(k, w.first_seen_ns))
  /\ w.count + Cardinality(Looking) <= nd_tcp_counters.retrans_total

Windows ==
  /\ \A k \in Keys :
       nd_tcp_retrans_by_flow[k] # None => Covered(k, nd_tcp_retrans_by_flow[k])
  /\ \A s \in Socks : sock[s].pc = "rtUpdate" => Covered(flow[s], sock[s].new)
  /\ \A k \in Keys, from \in Time :
       Cardinality(LookingIn(k, from)) <= Cardinality(Within(k, from))
  /\ Cardinality(Looking) <= nd_tcp_counters.retrans_total
  /\ nd_tcp_counters.retrans_burst_total > 0 =>
       nd_tcp_counters.retrans_burst_total + RetransBurst - 1 + Cardinality(Looking)
         <= nd_tcp_counters.retrans_total

(* What was reported as a burst. *)
Bursts ==
  \A e \in events : e.type = "TCP_RETRANS_BURST" =>
    /\ e.value \in Nat /\ e.truth \in Time
    /\ e.value >= RetransBurst
    /\ e.now - e.truth <= RetransWindow
    /\ Cardinality(Within(e.key, e.truth)) >= e.value

(* The retransmissions noted with a sample, wherever the sample is. *)
Counts ==
  /\ \A k \in Keys : OldSample(k).retrans_count <= counted[k]
  /\ \A s \in Socks :
       /\ sock[s].pc = "rcvUpdate" => sock[s].new.retrans_count <= counted[flow[s]]
       /\ sock[s].pc = "flowStore" => sock[s].n + 1 <= counted[flow[s]]

(* No socket of the key is at one of these places. *)
NoneAt(k, pcs) == \A s \in Socks : flow[s] = k => sock[s].pc \notin pcs

(* The latest sample of an undisturbed flow. *)
Latest ==
  \A k \in Keys : Undisturbed(k) =>
    /\ NoneAt(k, {"rcvUpdate"}) => OldSample(k).cwnd = rcvs.cwnd[k]
    /\ NoneAt(k, {"rcvUpdate", "flowStore"}) => OldSample(k).retrans_count = counted[k]
    /\ \A s \in Socks : flow[s] = k =>
         /\ sock[s].pc = "rcvUpdate" =>
              /\ sock[s].new.cwnd = rcvs.cwnd[k]
              /\ sock[s].new.retrans_count = counted[k]
         /\ sock[s].pc = "flowStore" =>
              /\ nd_tcp_flow_latest[k] # None
              /\ nd_tcp_flow_latest[k].elem = sock[s].elem
              /\ sock[s].n + 1 = counted[k]

(* The last events of an undisturbed flow. *)
LastBurst(k) ==
  IF nd_tcp_retrans_by_flow[k] = None THEN 0 ELSE nd_tcp_retrans_by_flow[k].last_event_ns

NoneAfter(type, k, t) == \A e \in events : e.type = type /\ e.key = k => e.now <= t

Stamps ==
  \A k \in Keys : Undisturbed(k) =>
    /\ NoneAt(k, {"rcvUpdate"}) =>
         /\ NoneAfter("SLOW_TCP_RTT", k, OldSample(k).last_rtt_event_ns)
         /\ NoneAfter("TCP_CWND_DROP", k, OldSample(k).last_cwnd_event_ns)
    /\ NoneAt(k, {"rtUpdate"}) => NoneAfter("TCP_RETRANS_BURST", k, LastBurst(k))
    /\ \A s \in Socks : flow[s] = k =>
         /\ sock[s].pc = "rcvUpdate" =>
              /\ NoneAfter("SLOW_TCP_RTT", k, sock[s].new.last_rtt_event_ns)
              /\ NoneAfter("TCP_CWND_DROP", k, sock[s].new.last_cwnd_event_ns)
         /\ sock[s].pc = "rtUpdate" =>
              NoneAfter("TCP_RETRANS_BURST", k, sock[s].new.last_event_ns)

(* The times of the retransmissions of a key, but for the latest while its *)
(* handler has yet to look. *)
Seen(k) ==
  {retrans[k][i] : i \in {j \in 1..Len(retrans[k]) :
                            j < Len(retrans[k]) \/ NoneAt(k, {"rtLookup"})}}

(* How many of a set of times lie between two. *)
Hits(S, from, to) == Cardinality(S \cap (from..to))

Few == IF RetransBurst = 1 THEN 0 ELSE RetransBurst - 2
Many == IF RetransBurst = 1 THEN 0 ELSE 2 * RetransBurst - 3

Warm == (EventCooldown + 1)..MaxClock

(* What the current window of an unreported flow says of its times: it     *)
(* begins with one, how many there are from any time of it on, that they   *)
(* are short of a burst, and that those before it that are close to it are *)
(* fewer still.                                                            *)
Thin(S, w) ==
  /\ w.count > 0 /\ w.first_seen_ns \in S
  /\ \A a \in Time : a >= w.first_seen_ns =>
       Hits(S, a, MaxClock) + (IF a > w.first_seen_ns THEN 1 ELSE 0) <= w.count
  /\ (\E t \in S : t > EventCooldown) => w.count < RetransBurst
  /\ \A a \in Warm : a + RetransWindow >= w.first_seen_ns =>
       Hits(S, a, w.first_seen_ns - 1) <= Few

ThinlySpread(S) == \A a \in Warm : Hits(S, a, a + RetransWindow) <= Many

SparseAt(k) ==
  Undisturbed(k) /\ ~Reported(k) =>
    /\ ThinlySpread(Seen(k))
    /\ NoneAt(k, {"rtUpdate"}) =>
         IF nd_tcp_retrans_by_flow[k] = None THEN Seen(k) = {}
                                             ELSE Thin(Seen(k), nd_tcp_retrans_by_flow[k])
    /\ \A s \in Socks : flow[s] = k =>
         /\ sock[s].pc = "rtUpdate" => Thin(Seen(k), sock[s].new)
         /\ sock[s].pc = "rtLookup" =>
              /\ Len(retrans[k]) > 0
              /\ retrans[k][Len(retrans[k])] = sock[s].now
Sparse == \A k \in Keys : SparseAt(k)

(* Time goes by: nothing was retransmitted later than now, or later than   *)
(* what the only handler of a flow has read.                               *)
PastAt(k) ==
  /\ \A i \in 1..Len(retrans[k]) : retrans[k][i] <= clock
  /\ Undisturbed(k) => \A s \in Looking : flow[s] = k =>
       \A i \in 1..Len(retrans[k]) : retrans[k][i] <= sock[s].now
Past == \A k \in Keys : PastAt(k)

(* A value that knows of an event is of a reported flow. *)
Told ==
  /\ \A k \in Keys : LastBurst(k) # 0 => Reported(k)
  /\ \A s \in Socks : sock[s].pc = "rtUpdate" /\ sock[s].new.last_event_ns # 0
                        => Reported(flow[s])

-----------------------------------------------------------------------------
(* Types.                                                                  *)

(* What the state of a handler holds at each place. *)
LEMMA HandlerFields ==
  ASSUME Typed, NEW s \in Socks
  PROVE  /\ sock[s].pc = "rcvLookup" => /\ sock[s].now \in Time /\ sock[s].srtt \in Nat
                                        /\ sock[s].cwnd \in Nat /\ sock[s].elem \in Nat
         /\ sock[s].pc = "rcvUpdate" => sock[s].new \in Sample
         /\ sock[s].pc = "rtLookup" => sock[s].now \in Time
         /\ sock[s].pc = "rtUpdate" => sock[s].new \in RetransValue
         /\ sock[s].pc = "flowStore" => sock[s].elem \in Nat /\ sock[s].n \in Nat
<1>1. sock[s] \in Handler
  BY DEF Typed
<1> QED
  BY <1>1 DEF Handler, Idle

(* What a handler carries over from an entry, or from none. *)
LEMMA OldFields ==
  ASSUME Typed, NEW k \in Keys
  PROVE  /\ OldSample(k).cwnd \in Nat /\ OldSample(k).retrans_count \in Nat
         /\ OldSample(k).last_rtt_event_ns \in Time
         /\ OldSample(k).last_cwnd_event_ns \in Time
<1>1. CASE nd_tcp_flow_latest[k] = None
  BY <1>1, TcpFlowAssumption DEF OldSample, NoSample, Time
<1>2. CASE nd_tcp_flow_latest[k] # None
  <2>1. nd_tcp_flow_latest[k] \in Sample /\ OldSample(k) = nd_tcp_flow_latest[k]
    BY <1>2 DEF Typed, OldSample
  <2> QED
    BY <2>1 DEF Sample
<1> QED
  BY <1>1, <1>2

(* struct nd_tcp_flow_value newv. *)
LEMMA NewSampleTyped ==
  ASSUME Typed, NEW k \in Keys, NEW h, h.now \in Time, h.cwnd \in Nat, h.elem \in Nat
  PROVE  /\ NewSample(h, OldSample(k)) \in Sample
         /\ NewSample(h, OldSample(k)).cwnd = h.cwnd
         /\ NewSample(h, OldSample(k)).retrans_count = OldSample(k).retrans_count
         /\ NewSample(h, OldSample(k)).last_rtt_event_ns =
              IF IsSlowRtt(h, OldSample(k)) THEN h.now ELSE OldSample(k).last_rtt_event_ns
         /\ NewSample(h, OldSample(k)).last_cwnd_event_ns =
              IF IsCwndDrop(h, OldSample(k)) THEN h.now ELSE OldSample(k).last_cwnd_event_ns
<1> DEFINE old == OldSample(k)
           a == IF IsSlowRtt(h, old) THEN h.now ELSE old.last_rtt_event_ns
           b == IF IsCwndDrop(h, old) THEN h.now ELSE old.last_cwnd_event_ns
<1>1. old.retrans_count \in Nat /\ a \in Time /\ b \in Time
  BY OldFields
<1>2. NewSample(h, old) = [elem |-> h.elem, cwnd |-> h.cwnd, retrans_count |-> old.retrans_count,
                           last_rtt_event_ns |-> a, last_cwnd_event_ns |-> b]
  BY DEF NewSample
<1> HIDE DEF old, a, b
<1>3. NewSample(h, old) \in Sample
  BY <1>1, <1>2 DEF Sample
<1>4. /\ NewSample(h, old).cwnd = h.cwnd
      /\ NewSample(h, old).retrans_count = old.retrans_count
      /\ NewSample(h, old).last_rtt_event_ns = a
      /\ NewSample(h, old).last_cwnd_event_ns = b
  BY <1>2
<1> QED
  BY <1>3, <1>4 DEF old, a, b

(* struct nd_retrans_value newv: a window that goes on or a new one. *)
LEMMA WindowCases ==
  ASSUME NEW now \in Time, NEW old \in RetransValue \cup {None}, NEW w, w = Window(now, old)
  PROVE  /\ w \in RetransValue
         /\ \/ /\ old # None /\ old \in RetransValue
               /\ now > old.first_seen_ns /\ now - old.first_seen_ns <= RetransWindow
               /\ w.first_seen_ns = old.first_seen_ns /\ w.count = old.count + 1
               /\ w.last_event_ns = old.last_event_ns
            \/ /\ old # None => ~InWindow(now, old)
               /\ w.first_seen_ns = now /\ w.count = 1
               /\ w.last_event_ns = IF old = None THEN 0 ELSE old.last_event_ns
<1>1. 0 \in Time
  BY TcpFlowAssumption DEF Time
<1>2. CASE old = None
  BY <1>1, <1>2 DEF Window, NewWindow, RetransValue
<1>3. CASE old # None /\ InWindow(now, old)
  <2>1. old \in RetransValue /\ w = [old EXCEPT !.count = @ + 1]
    BY <1>3 DEF Window
  <2>2. w \in RetransValue /\ w.first_seen_ns = old.first_seen_ns /\ w.count = old.count + 1
        /\ w.last_event_ns = old.last_event_ns
    BY <2>1 DEF RetransValue
  <2> QED
    BY <1>3, <2>1, <2>2 DEF InWindow
<1>4. CASE old # None /\ ~InWindow(now, old)
  <2>1. old.last_event_ns \in Time /\ w = NewWindow(now, old.last_event_ns)
    BY <1>4 DEF Window, RetransValue
  <2> QED
    BY <1>4, <2>1 DEF NewWindow, RetransValue
<1> QED
  BY <1>2, <1>3, <1>4

(* The cooldown is over when more than it has passed: no sum wraps. *)
LEMMA CooledDownMeans ==
  ASSUME NEW now \in Time, NEW last \in Time
  PROVE  CooledDown(now, last) <=> now > last + EventCooldown
<1>1. /\ last + EventCooldown \in Nat /\ last + EventCooldown < Word
      /\ Word \in Nat
  BY TcpFlowAssumption DEF Time
<1>2. (last + EventCooldown) % Word = last + EventCooldown
  BY <1>1
<1> QED
  BY <1>2 DEF CooledDown

(* An event is a record. *)
LEMMA EventFields ==
  ASSUME NEW type, NEW k, NEW now, NEW value, NEW aux, NEW truth, NEW e,
         e = Event(type, k, now, value, aux, truth)
  PROVE  /\ e.type = type /\ e.key = k /\ e.now = now /\ e.value = value
         /\ e.aux = aux /\ e.truth = truth
BY DEF Event

(* A step of one handler. *)
LEMMA SockStep ==
  ASSUME Typed, NEW s \in Socks, NEW h \in Handler, sock' = [sock EXCEPT ![s] = h]
  PROVE  /\ sock' \in [Socks -> Handler]
         /\ sock'[s] = h
         /\ \A t \in Socks : t # s => sock'[t] = sock[t]
BY DEF Typed

(* nd_tcp_rcv_established begins. *)
LEMMA RcvEffect ==
  ASSUME Typed, NEW s \in Socks, NEW v \in Samples, Rcv(s, v[1], v[2])
  PROVE  /\ Typed'
         /\ sock[s].pc = "idle" /\ sock'[s].pc = "rcvLookup"
         /\ \A t \in Socks : t # s => sock'[t] = sock[t]
         /\ rcvs'.cwnd = rcvs.cwnd
<1> DEFINE h == [pc |-> "rcvLookup", now |-> clock, srtt |-> v[1] \div 8,
                 cwnd |-> v[2], elem |-> rcvs.n + 1]
<1>1. v[1] \in Nat /\ v[2] \in Nat
  BY TcpFlowAssumption
<1>2. v[1] \div 8 \in Nat
  BY <1>1, DivExact
<1>3. rcvs.n \in Nat /\ clock \in Time
  BY DEF Typed
<1>4. h \in Handler
  BY <1>1, <1>2, <1>3 DEF Handler
<1>5. h.pc = "rcvLookup"
  OBVIOUS
<1>6. sock' = [sock EXCEPT ![s] = h] /\ sock[s].pc = "idle"
  BY DEF Rcv
<1> HIDE DEF h
<1>7. sock' \in [Socks -> Handler] /\ sock'[s] = h /\ \A t \in Socks : t # s => sock'[t] = sock[t]
  BY <1>4, <1>6, SockStep
<1>8. rcvs' \in [n : Nat, cwnd : [Keys -> Nat]] /\ rcvs'.cwnd = rcvs.cwnd
  <2>1. rcvs \in [n : Nat, cwnd : [Keys -> Nat]] /\ rcvs' = [rcvs EXCEPT !.n = @ + 1]
    BY DEF Typed, Rcv
  <2> QED
    BY <2>1
<1>9. Typed'
  BY <1>7, <1>8 DEF Typed, Rcv
<1> QED
  BY <1>5, <1>6, <1>7, <1>8, <1>9

(* Its lookup and its decisions. *)
LEMMA RcvLookupEffect ==
  ASSUME Typed, NEW s \in Socks, RcvLookup(s), NEW k, k = flow[s], NEW h, h = sock[s],
         NEW new, new = NewSample(h, OldSample(k))
  PROVE  /\ Typed'
         /\ k \in Keys /\ h.pc = "rcvLookup" /\ h.now \in Time /\ h.cwnd \in Nat
         /\ sock'[s].pc = "rcvUpdate" /\ sock'[s].new = new /\ new \in Sample
         /\ \A t \in Socks : t # s => sock'[t] = sock[t]
         /\ rcvs'.cwnd[k] = h.cwnd
         /\ \A j \in Keys : j # k => rcvs'.cwnd[j] = rcvs.cwnd[j]
         /\ \A e \in events' :
              \/ e \in events
              \/ /\ e.type = "SLOW_TCP_RTT" /\ e.key = k /\ e.now = h.now
                 /\ IsSlowRtt(h, OldSample(k))
              \/ /\ e.type = "TCP_CWND_DROP" /\ e.key = k /\ e.now = h.now
                 /\ IsCwndDrop(h, OldSample(k))
                 /\ e.value = h.cwnd /\ e.aux = OldSample(k).cwnd /\ e.truth = rcvs.cwnd[k]
         /\ events \subseteq events'
<1>1. k \in Keys /\ h.pc = "rcvLookup"
  BY DEF Typed, RcvLookup
<1>2. h.now \in Time /\ h.cwnd \in Nat /\ h.elem \in Nat
  BY <1>1, HandlerFields
<1>3. new \in Sample
  BY <1>1, <1>2, NewSampleTyped
<1> DEFINE g == [pc |-> "rcvUpdate", new |-> new]
<1>4. g \in Handler /\ g.pc = "rcvUpdate" /\ g.new = new
  BY <1>3 DEF Handler
<1>5. sock' = [sock EXCEPT ![s] = g]
  BY DEF RcvLookup
<1> HIDE DEF g
<1>6. sock' \in [Socks -> Handler] /\ sock'[s] = g /\ \A t \in Socks : t # s => sock'[t] = sock[t]
  BY <1>4, <1>5, SockStep
<1>7. /\ rcvs' \in [n : Nat, cwnd : [Keys -> Nat]]
      /\ rcvs'.cwnd[k] = h.cwnd
      /\ \A j \in Keys : j # k => rcvs'.cwnd[j] = rcvs.cwnd[j]
  <2>1. rcvs \in [n : Nat, cwnd : [Keys -> Nat]] /\ rcvs' = [rcvs EXCEPT !.cwnd[k] = h.cwnd]
    BY DEF Typed, RcvLookup
  <2> QED
    BY <1>1, <1>2, <2>1
<1>8. \A e \in events' :
        \/ e \in events
        \/ /\ e.type = "SLOW_TCP_RTT" /\ e.key = k /\ e.now = h.now
           /\ IsSlowRtt(h, OldSample(k))
        \/ /\ e.type = "TCP_CWND_DROP" /\ e.key = k /\ e.now = h.now
           /\ IsCwndDrop(h, OldSample(k))
           /\ e.value = h.cwnd /\ e.aux = OldSample(k).cwnd /\ e.truth = rcvs.cwnd[k]
  <2> TAKE e \in events'
  <2>1. \/ e \in events
        \/ /\ e = Event("SLOW_TCP_RTT", k, h.now, h.srtt, h.cwnd, 0)
           /\ IsSlowRtt(h, OldSample(k))
        \/ /\ e = Event("TCP_CWND_DROP", k, h.now, h.cwnd, OldSample(k).cwnd, rcvs.cwnd[k])
           /\ IsCwndDrop(h, OldSample(k))
    BY DEF RcvLookup
  <2> QED
    BY <2>1, EventFields
<1>9. events \subseteq events'
  BY DEF RcvLookup
<1>10. Typed'
  <2>1. \A e \in events' : e.key \in Keys /\ e.now \in Time
    BY <1>1, <1>2, <1>8 DEF Typed
  <2> QED
    BY <1>6, <1>7, <2>1 DEF Typed, RcvLookup
<1> QED
  BY <1>1, <1>2, <1>3, <1>4, <1>6, <1>7, <1>8, <1>9, <1>10

(* What an update costs the other keys, and its own. *)
LEMMA UpdateLoses ==
  ASSUME NEW S, None \notin S, NEW m \in [Keys -> S \cup {None}], NEW k \in Keys, NEW v \in S,
         NEW n \in LruUpdate(m, k, v), NEW j \in Keys \ Missing(m, n, k, v)
  PROVE  /\ j = k => n[j] = v
         /\ j # k => n[j] = m[j]
<1>1. j = k => n[j] = v
  BY DEF Missing
<1>2. ~(m[j] # None /\ n[j] = None)
  BY DEF Missing
<1>3. n[j] = m[j] \/ n[j] = None \/ (j = k /\ n[j] = v)
  BY UpdateEffect
<1> QED
  BY <1>1, <1>2, <1>3

(* Its update. *)
LEMMA RcvUpdateEffect ==
  ASSUME Typed, NEW s \in Socks, RcvUpdate(s), NEW k, k = flow[s], NEW v, v = sock[s].new
  PROVE  /\ Typed'
         /\ k \in Keys /\ sock[s].pc = "rcvUpdate" /\ v \in Sample
         /\ sock'[s].pc = "idle"
         /\ \A t \in Socks : t # s => sock'[t] = sock[t]
         /\ lost \subseteq lost'
         /\ \A j \in Keys : \/ nd_tcp_flow_latest'[j] = nd_tcp_flow_latest[j]
                            \/ nd_tcp_flow_latest'[j] = None
                            \/ (j = k /\ nd_tcp_flow_latest'[j] = v)
         /\ \A j \in Keys \ lost' :
              /\ j = k => nd_tcp_flow_latest'[j] = v
              /\ j # k => nd_tcp_flow_latest'[j] = nd_tcp_flow_latest[j]
<1>1. k \in Keys /\ sock[s].pc = "rcvUpdate"
  BY DEF Typed, RcvUpdate
<1>2. v \in Sample
  BY <1>1, HandlerFields
<1>3. Idle \in Handler /\ Idle.pc = "idle" /\ sock' = [sock EXCEPT ![s] = Idle]
  BY DEF Handler, Idle, RcvUpdate
<1>4. /\ sock' \in [Socks -> Handler] /\ sock'[s] = Idle
      /\ \A t \in Socks : t # s => sock'[t] = sock[t]
  BY <1>3, SockStep
<1>5. /\ nd_tcp_flow_latest \in [Keys -> Sample \cup {None}]
      /\ nd_tcp_flow_latest' \in LruUpdate(nd_tcp_flow_latest, k, v)
      /\ lost' = lost \cup Missing(nd_tcp_flow_latest, nd_tcp_flow_latest', k, v)
      /\ None \notin Sample
  BY TcpFlowNoneAssumption DEF Typed, RcvUpdate
<1>6. nd_tcp_flow_latest' \in [Keys -> Sample \cup {None}]
  BY <1>1, <1>2, <1>5, UpdateType
<1>7. \A j \in Keys : \/ nd_tcp_flow_latest'[j] = nd_tcp_flow_latest[j]
                      \/ nd_tcp_flow_latest'[j] = None
                      \/ (j = k /\ nd_tcp_flow_latest'[j] = v)
  <2> TAKE j \in Keys
  <2>1. DOMAIN nd_tcp_flow_latest = Keys
    BY <1>5
  <2> QED
    BY <1>1, <1>5, <2>1, UpdateEffect
<1>8. \A j \in Keys \ lost' : /\ j = k => nd_tcp_flow_latest'[j] = v
                              /\ j # k => nd_tcp_flow_latest'[j] = nd_tcp_flow_latest[j]
  BY <1>1, <1>2, <1>5, UpdateLoses
<1>9. lost' \subseteq Keys
  BY <1>5 DEF Typed, Missing
<1>10. Typed'
  BY <1>4, <1>6, <1>9 DEF Typed, RcvUpdate
<1> QED
  BY <1>1, <1>2, <1>3, <1>4, <1>5, <1>7, <1>8, <1>10

(* nd_tcp_retransmit_skb begins. *)
LEMMA RetransmitEffect ==
  ASSUME Typed, NEW s \in Socks, Retransmit(s), NEW k, k = flow[s]
  PROVE  /\ Typed'
         /\ k \in Keys /\ sock[s].pc = "idle"
         /\ sock'[s].pc = "rtLookup" /\ sock'[s].now = clock
         /\ \A t \in Socks : t # s => sock'[t] = sock[t]
         /\ retrans'[k] = Append(retrans[k], clock)
         /\ \A j \in Keys : j # k => retrans'[j] = retrans[j]
         /\ nd_tcp_counters'.retrans_total = nd_tcp_counters.retrans_total + 1
         /\ nd_tcp_counters'.retrans_burst_total = nd_tcp_counters.retrans_burst_total
<1>1. k \in Keys /\ sock[s].pc = "idle" /\ clock \in Time /\ retrans[k] \in Seq(Time)
  BY DEF Typed, Retransmit
<1> DEFINE h == [pc |-> "rtLookup", now |-> clock]
<1>2. h \in Handler /\ h.pc = "rtLookup" /\ h.now = clock
  BY <1>1 DEF Handler
<1>3. sock' = [sock EXCEPT ![s] = h]
  BY DEF Retransmit
<1> HIDE DEF h
<1>4. sock' \in [Socks -> Handler] /\ sock'[s] = h /\ \A t \in Socks : t # s => sock'[t] = sock[t]
  BY <1>2, <1>3, SockStep
<1>5. Append(retrans[k], clock) \in Seq(Time)
  BY <1>1, AppendProperties
<1>6. /\ retrans' \in [Keys -> Seq(Time)]
      /\ retrans'[k] = Append(retrans[k], clock)
      /\ \A j \in Keys : j # k => retrans'[j] = retrans[j]
  BY <1>1, <1>5 DEF Typed, Retransmit
<1>7. /\ nd_tcp_counters' \in [retrans_total : Nat, retrans_burst_total : Nat]
      /\ nd_tcp_counters'.retrans_total = nd_tcp_counters.retrans_total + 1
      /\ nd_tcp_counters'.retrans_burst_total = nd_tcp_counters.retrans_burst_total
  <2>1. /\ nd_tcp_counters \in [retrans_total : Nat, retrans_burst_total : Nat]
        /\ nd_tcp_counters' = [nd_tcp_counters EXCEPT !.retrans_total = @ + 1]
    BY DEF Typed, Retransmit
  <2> QED
    BY <2>1
<1>8. Typed'
  BY <1>4, <1>6, <1>7 DEF Typed, Retransmit
<1> QED
  BY <1>1, <1>2, <1>4, <1>6, <1>7, <1>8

(* Its lookup and its decision. *)
LEMMA RtLookupEffect ==
  ASSUME Typed, NEW s \in Socks, RtLookup(s), NEW k, k = flow[s], NEW now, now = sock[s].now,
         NEW w, w = Window(now, nd_tcp_retrans_by_flow[k])
  PROVE  /\ Typed'
         /\ k \in Keys /\ now \in Time /\ sock[s].pc = "rtLookup" /\ w \in RetransValue
         /\ sock'[s].pc = "rtUpdate" /\ sock'[s].new \in RetransValue
         /\ sock'[s].new.first_seen_ns = w.first_seen_ns
         /\ sock'[s].new.count = w.count
         /\ sock'[s].new.last_event_ns = IF IsBurst(now, w) THEN now ELSE w.last_event_ns
         /\ \A t \in Socks : t # s => sock'[t] = sock[t]
         /\ nd_tcp_counters'.retrans_total = nd_tcp_counters.retrans_total
         /\ nd_tcp_counters'.retrans_burst_total =
              nd_tcp_counters.retrans_burst_total + IF IsBurst(now, w) THEN 1 ELSE 0
         /\ events \subseteq events'
         /\ \A e \in events' :
              \/ e \in events
              \/ /\ e.type = "TCP_RETRANS_BURST" /\ e.key = k /\ e.now = now
                 /\ IsBurst(now, w) /\ e.value = w.count /\ e.truth = w.first_seen_ns
         /\ IsBurst(now, w) => \E e \in events' : e.type = "TCP_RETRANS_BURST" /\ e.key = k
<1>1. k \in Keys /\ sock[s].pc = "rtLookup" /\ nd_tcp_retrans_by_flow[k] \in RetransValue \cup {None}
  BY DEF Typed, RtLookup
<1>2. now \in Time
  BY <1>1, HandlerFields
<1>3. w \in RetransValue
  BY <1>1, <1>2, WindowCases
<1> DEFINE v == IF IsBurst(now, w) THEN [w EXCEPT !.last_event_ns = now] ELSE w
           h == [pc |-> "rtUpdate", new |-> v]
           new == Event("TCP_RETRANS_BURST", k, now, w.count, RetransWindow, w.first_seen_ns)
<1>4. /\ v \in RetransValue /\ v.first_seen_ns = w.first_seen_ns /\ v.count = w.count
      /\ v.last_event_ns = IF IsBurst(now, w) THEN now ELSE w.last_event_ns
  BY <1>2, <1>3 DEF RetransValue
<1>5. sock' = [sock EXCEPT ![s] = h]
  BY DEF RtLookup
<1>6. /\ events' = IF IsBurst(now, w) THEN events \cup {new} ELSE events
      /\ new.type = "TCP_RETRANS_BURST" /\ new.key = k /\ new.now = now
      /\ new.value = w.count /\ new.truth = w.first_seen_ns
  BY EventFields DEF RtLookup
<1> HIDE DEF v, new
<1>7. h \in Handler /\ h.pc = "rtUpdate" /\ h.new = v
  BY <1>4 DEF Handler
<1> HIDE DEF h
<1>8. sock' \in [Socks -> Handler] /\ sock'[s] = h /\ \A t \in Socks : t # s => sock'[t] = sock[t]
  BY <1>5, <1>7, SockStep
<1>9. /\ nd_tcp_counters' \in [retrans_total : Nat, retrans_burst_total : Nat]
      /\ nd_tcp_counters'.retrans_total = nd_tcp_counters.retrans_total
      /\ nd_tcp_counters'.retrans_burst_total =
              nd_tcp_counters.retrans_burst_total + IF IsBurst(now, w) THEN 1 ELSE 0
  <2> DEFINE d == IF IsBurst(now, w) THEN 1 ELSE 0
  <2>1. /\ nd_tcp_counters \in [retrans_total : Nat, retrans_burst_total : Nat]
        /\ nd_tcp_counters' = [nd_tcp_counters EXCEPT !.retrans_burst_total = @ + d]
        /\ d \in Nat
    BY DEF Typed, RtLookup
  <2> HIDE DEF d
  <2>2. /\ nd_tcp_counters' \in [retrans_total : Nat, retrans_burst_total : Nat]
        /\ nd_tcp_counters'.retrans_total = nd_tcp_counters.retrans_total
        /\ nd_tcp_counters'.retrans_burst_total = nd_tcp_counters.retrans_burst_total + d
    BY <2>1
  <2> QED
    BY <2>2 DEF d
<1>10. Typed'
  <2>1. \A e \in events' : e.key \in Keys /\ e.now \in Time
    BY <1>1, <1>2, <1>6 DEF Typed
  <2> QED
    BY <1>8, <1>9, <2>1 DEF Typed, RtLookup
<1>11. /\ events \subseteq events'
       /\ \A e \in events' :
            \/ e \in events
            \/ /\ e.type = "TCP_RETRANS_BURST" /\ e.key = k /\ e.now = now
               /\ IsBurst(now, w) /\ e.value = w.count /\ e.truth = w.first_seen_ns
       /\ IsBurst(now, w) => \E e \in events' : e.type = "TCP_RETRANS_BURST" /\ e.key = k
  BY <1>6
<1> QED
  BY <1>1, <1>2, <1>3, <1>4, <1>7, <1>8, <1>9, <1>10, <1>11

(* Its update. *)
LEMMA RtUpdateEffect ==
  ASSUME Typed, NEW s \in Socks, RtUpdate(s), NEW k, k = flow[s], NEW v, v = sock[s].new
  PROVE  /\ Typed'
         /\ k \in Keys /\ sock[s].pc = "rtUpdate" /\ v \in RetransValue
         /\ sock'[s].pc = "flowLookup"
         /\ \A t \in Socks : t # s => sock'[t] = sock[t]
         /\ lost \subseteq lost'
         /\ \A j \in Keys : \/ nd_tcp_retrans_by_flow'[j] = nd_tcp_retrans_by_flow[j]
                            \/ nd_tcp_retrans_by_flow'[j] = None
                            \/ (j = k /\ nd_tcp_retrans_by_flow'[j] = v)
         /\ \A j \in Keys \ lost' :
              /\ j = k => nd_tcp_retrans_by_flow'[j] = v
              /\ j # k => nd_tcp_retrans_by_flow'[j] = nd_tcp_retrans_by_flow[j]
<1>1. k \in Keys /\ sock[s].pc = "rtUpdate"
  BY DEF Typed, RtUpdate
<1>2. v \in RetransValue
  BY <1>1, HandlerFields
<1> DEFINE h == [pc |-> "flowLookup"]
<1>3. h \in Handler /\ h.pc = "flowLookup" /\ sock' = [sock EXCEPT ![s] = h]
  BY DEF Handler, RtUpdate
<1> HIDE DEF h
<1>4. /\ sock' \in [Socks -> Handler] /\ sock'[s] = h
      /\ \A t \in Socks : t # s => sock'[t] = sock[t]
  BY <1>3, SockStep
<1>5. /\ nd_tcp_retrans_by_flow \in [Keys -> RetransValue \cup {None}]
      /\ nd_tcp_retrans_by_flow' \in LruUpdate(nd_tcp_retrans_by_flow, k, v)
      /\ lost' = lost \cup Missing(nd_tcp_retrans_by_flow, nd_tcp_retrans_by_flow', k, v)
      /\ None \notin RetransValue
  BY TcpFlowNoneAssumption DEF Typed, RtUpdate
<1>6. nd_tcp_retrans_by_flow' \in [Keys -> RetransValue \cup {None}]
  BY <1>1, <1>2, <1>5, UpdateType
<1>7. \A j \in Keys : \/ nd_tcp_retrans_by_flow'[j] = nd_tcp_retrans_by_flow[j]
                      \/ nd_tcp_retrans_by_flow'[j] = None
                      \/ (j = k /\ nd_tcp_retrans_by_flow'[j] = v)
  <2> TAKE j \in Keys
  <2>1. DOMAIN nd_tcp_retrans_by_flow = Keys
    BY <1>5
  <2> QED
    BY <1>1, <1>5, <2>1, UpdateEffect
<1>8. \A j \in Keys \ lost' : /\ j = k => nd_tcp_retrans_by_flow'[j] = v
                              /\ j # k => nd_tcp_retrans_by_flow'[j] = nd_tcp_retrans_by_flow[j]
  BY <1>1, <1>2, <1>5, UpdateLoses
<1>9. lost' \subseteq Keys
  BY <1>5 DEF Typed, Missing
<1>10. Typed'
  BY <1>4, <1>6, <1>9 DEF Typed, RtUpdate
<1> QED
  BY <1>1, <1>2, <1>3, <1>4, <1>5, <1>7, <1>8, <1>10

(* The load of retrans_count. *)
LEMMA FlowLookupEffect ==
  ASSUME Typed, NEW s \in Socks, FlowLookup(s), NEW k, k = flow[s]
  PROVE  /\ Typed'
         /\ k \in Keys /\ sock[s].pc = "flowLookup"
         /\ \A t \in Socks : t # s => sock'[t] = sock[t]
         /\ \A j \in Keys : j # k => counted'[j] = counted[j]
         /\ \/ /\ nd_tcp_flow_latest[k] = None
               /\ sock'[s].pc = "idle" /\ counted'[k] = counted[k]
            \/ /\ nd_tcp_flow_latest[k] # None
               /\ sock'[s].pc = "flowStore"
               /\ sock'[s].elem = nd_tcp_flow_latest[k].elem
               /\ sock'[s].n = nd_tcp_flow_latest[k].retrans_count
               /\ counted'[k] = counted[k] + 1
<1>1. k \in Keys /\ sock[s].pc = "flowLookup"
  BY DEF Typed, FlowLookup
<1>2. CASE nd_tcp_flow_latest[k] = None
  <2>1. Idle \in Handler /\ Idle.pc = "idle" /\ sock' = [sock EXCEPT ![s] = Idle]
    BY <1>2 DEF Handler, Idle, FlowLookup
  <2>2. /\ sock' \in [Socks -> Handler] /\ sock'[s] = Idle
        /\ \A t \in Socks : t # s => sock'[t] = sock[t]
    BY <2>1, SockStep
  <2>3. counted' = counted
    BY <1>2 DEF FlowLookup
  <2>4. Typed'
    BY <2>2, <2>3 DEF Typed, FlowLookup
  <2> QED
    BY <1>1, <1>2, <2>1, <2>2, <2>3, <2>4
<1>3. CASE nd_tcp_flow_latest[k] # None
  <2> DEFINE tv == nd_tcp_flow_latest[k]
             h == [pc |-> "flowStore", elem |-> tv.elem, n |-> tv.retrans_count]
  <2>1. tv.elem \in Nat /\ tv.retrans_count \in Nat
    BY <1>1, <1>3 DEF Typed, Sample
  <2>2. sock' = [sock EXCEPT ![s] = h]
    BY <1>3 DEF FlowLookup
  <2>3. h \in Handler /\ h.pc = "flowStore" /\ h.elem = tv.elem /\ h.n = tv.retrans_count
    BY <2>1 DEF Handler
  <2> HIDE DEF h
  <2>4. /\ sock' \in [Socks -> Handler] /\ sock'[s] = h
        /\ \A t \in Socks : t # s => sock'[t] = sock[t]
    BY <2>2, <2>3, SockStep
  <2>5. /\ counted' \in [Keys -> Nat] /\ counted'[k] = counted[k] + 1
        /\ \A j \in Keys : j # k => counted'[j] = counted[j]
    <3>1. counted \in [Keys -> Nat] /\ counted' = [counted EXCEPT ![k] = @ + 1]
      BY <1>3 DEF FlowLookup, Typed
    <3> QED
      BY <1>1, <3>1
  <2>6. Typed'
    BY <2>4, <2>5 DEF Typed, FlowLookup
  <2> QED
    BY <1>1, <1>3, <2>3, <2>4, <2>5, <2>6
<1> QED
  BY <1>2, <1>3

(* The store of retrans_count. *)
LEMMA FlowStoreEffect ==
  ASSUME Typed, NEW s \in Socks, FlowStore(s), NEW k, k = flow[s]
  PROVE  /\ Typed'
         /\ k \in Keys /\ sock[s].pc = "flowStore" /\ sock'[s].pc = "idle"
         /\ sock[s].n \in Nat
         /\ \A t \in Socks : t # s => sock'[t] = sock[t]
         /\ \A j \in Keys : j # k => nd_tcp_flow_latest'[j] = nd_tcp_flow_latest[j]
         /\ \/ nd_tcp_flow_latest'[k] = nd_tcp_flow_latest[k]
            \/ /\ nd_tcp_flow_latest[k] # None /\ nd_tcp_flow_latest'[k] # None
               /\ nd_tcp_flow_latest'[k].retrans_count = sock[s].n + 1
               /\ nd_tcp_flow_latest'[k].elem = nd_tcp_flow_latest[k].elem
               /\ nd_tcp_flow_latest'[k].cwnd = nd_tcp_flow_latest[k].cwnd
               /\ nd_tcp_flow_latest'[k].last_rtt_event_ns
                    = nd_tcp_flow_latest[k].last_rtt_event_ns
               /\ nd_tcp_flow_latest'[k].last_cwnd_event_ns
                    = nd_tcp_flow_latest[k].last_cwnd_event_ns
         /\ nd_tcp_flow_latest[k] # None /\ nd_tcp_flow_latest[k].elem = sock[s].elem =>
              nd_tcp_flow_latest'[k] # None
                /\ nd_tcp_flow_latest'[k].retrans_count = sock[s].n + 1
<1> DEFINE tv == nd_tcp_flow_latest[k]
           n == sock[s].n
           nv == [tv EXCEPT !.retrans_count = n + 1]
<1>1. k \in Keys /\ sock[s].pc = "flowStore"
  BY DEF Typed, FlowStore
<1>2. n \in Nat
  BY <1>1, HandlerFields
<1>3. Idle \in Handler /\ Idle.pc = "idle" /\ sock' = [sock EXCEPT ![s] = Idle]
  BY DEF Handler, Idle, FlowStore
<1>4. /\ sock' \in [Socks -> Handler] /\ sock'[s] = Idle
      /\ \A t \in Socks : t # s => sock'[t] = sock[t]
  BY <1>3, SockStep
<1>5. CASE ~(tv # None /\ tv.elem = sock[s].elem)
  <2>1. nd_tcp_flow_latest' = nd_tcp_flow_latest
    BY <1>5 DEF FlowStore
  <2>2. Typed'
    BY <1>4, <2>1 DEF Typed, FlowStore, histVars
  <2> QED
    BY <1>1, <1>2, <1>3, <1>4, <1>5, <2>1, <2>2
<1>6. CASE tv # None /\ tv.elem = sock[s].elem
  <2>1. tv \in Sample
    BY <1>1, <1>6 DEF Typed
  <2> HIDE DEF n
  <2>2. /\ nv \in Sample /\ nv.retrans_count = n + 1 /\ nv.elem = tv.elem /\ nv.cwnd = tv.cwnd
        /\ nv.last_rtt_event_ns = tv.last_rtt_event_ns
        /\ nv.last_cwnd_event_ns = tv.last_cwnd_event_ns
    BY <1>2, <2>1 DEF Sample
  <2>3. nd_tcp_flow_latest' = [nd_tcp_flow_latest EXCEPT ![k] = nv]
    BY <1>6 DEF FlowStore, n
  <2> HIDE DEF nv
  <2>4. /\ nd_tcp_flow_latest' \in [Keys -> Sample \cup {None}]
        /\ nd_tcp_flow_latest'[k] = nv
        /\ \A j \in Keys : j # k => nd_tcp_flow_latest'[j] = nd_tcp_flow_latest[j]
    BY <1>1, <2>2, <2>3 DEF Typed
  <2>5. nv # None
    BY <2>2, TcpFlowNoneAssumption
  <2>6. Typed'
    BY <1>4, <2>4 DEF Typed, FlowStore, histVars
  <2> QED
    BY <1>1, <1>2, <1>3, <1>4, <1>6, <2>2, <2>4, <2>5, <2>6 DEF n
<1> QED
  BY <1>5, <1>6

(* At the start every value has its type... *)
LEMMA InitTyped == Init => Typed
<1> SUFFICES ASSUME Init PROVE Typed
  OBVIOUS
<1>1. 1 \in Time
  BY TcpFlowAssumption DEF Time
<1>2. Idle \in Handler
  BY DEF Handler
<1>3. <<>> \in Seq(Time)
  BY EmptySeq
<1> QED
  BY <1>1, <1>2, <1>3 DEF Init, Typed, EmptyMap

(* ...and every step keeps it. *)
LEMMA StepTyped == Typed /\ [Next]_vars => Typed'
<1> SUFFICES ASSUME Typed, [Next]_vars PROVE Typed'
  OBVIOUS
<1>1. CASE Tick
  <2>1. clock' \in Time
    BY <1>1, TcpFlowAssumption DEF Tick, Typed, Time
  <2> QED
    BY <1>1, <2>1 DEF Tick, Typed, histVars
<1>2. ASSUME NEW s \in Socks, NEW v \in Samples, Rcv(s, v[1], v[2]) PROVE Typed'
  BY <1>2, RcvEffect
<1>3. ASSUME NEW s \in Socks,
             \/ RcvLookup(s) \/ RcvUpdate(s) \/ Retransmit(s) \/ RtLookup(s) \/ RtUpdate(s)
             \/ FlowLookup(s) \/ FlowStore(s)
      PROVE  Typed'
  BY <1>3, RcvLookupEffect, RcvUpdateEffect, RetransmitEffect, RtLookupEffect, RtUpdateEffect,
     FlowLookupEffect, FlowStoreEffect
<1>4. CASE UNCHANGED vars
  BY <1>4 DEF vars, histVars, Typed
<1> QED
  BY <1>1, <1>2, <1>3, <1>4 DEF Next

(* Every value of the two handlers and their maps has its type. *)
THEOREM FlowTyped == Spec => []Typed
BY InitTyped, StepTyped, PTL DEF Spec

-----------------------------------------------------------------------------
(* Undisturbed flows.                                                      *)

(* A key that is undisturbed after a step was so before it. *)
LEMMA StaysUndisturbed ==
  ASSUME flow' = flow, lost \subseteq lost', NEW k, Undisturbed(k)'
  PROVE  Undisturbed(k) /\ k \notin lost'
BY DEF Undisturbed

(* It has a single socket. *)
LEMMA OnlySocket ==
  ASSUME NEW k, Undisturbed(k), NEW s \in Socks, NEW t \in Socks, flow[s] = k, flow[t] = k
  PROVE  s = t
BY DEF Undisturbed

-----------------------------------------------------------------------------
(* The latest sample of a flow.                                            *)

SamplesInv == Counts /\ Latest /\ DropIsReal

(* A step that touches neither the samples nor those who write them. *)
LEMMA SamplesFrame ==
  ASSUME Typed, SamplesInv, flow' = flow, lost \subseteq lost',
         nd_tcp_flow_latest' = nd_tcp_flow_latest, counted' = counted, rcvs'.cwnd = rcvs.cwnd,
         \A t \in Socks : \/ sock'[t] = sock[t]
                          \/ /\ sock[t].pc \notin {"rcvUpdate", "flowStore"}
                             /\ sock'[t].pc \notin {"rcvUpdate", "flowStore"},
         \A e \in events' : e \in events \/ e.type # "TCP_CWND_DROP"
  PROVE  SamplesInv'
<1>1. \A k : OldSample(k)' = OldSample(k)
  BY DEF OldSample
<1>2. \A k : /\ NoneAt(k, {"rcvUpdate"})' <=> NoneAt(k, {"rcvUpdate"})
             /\ NoneAt(k, {"rcvUpdate", "flowStore"})' <=> NoneAt(k, {"rcvUpdate", "flowStore"})
  BY DEF NoneAt
<1>3. \A k : Undisturbed(k)' => Undisturbed(k)
  BY StaysUndisturbed
<1>4. Counts'
  BY <1>1 DEF SamplesInv, Counts
<1>5. Latest'
  BY <1>1, <1>2, <1>3 DEF SamplesInv, Latest
<1>6. DropIsReal'
  BY <1>3 DEF SamplesInv, DropIsReal
<1> QED
  BY <1>4, <1>5, <1>6 DEF SamplesInv

(* The lookup of nd_tcp_rcv_established: what it compares the sample with  *)
(* is the one before.                                                      *)
LEMMA RcvLookupSamples ==
  ASSUME Typed, SamplesInv, NEW s \in Socks, RcvLookup(s)
  PROVE  SamplesInv'
<1> DEFINE k == flow[s]
           h == sock[s]
           old == OldSample(k)
           new == NewSample(h, old)
<1>1. /\ k \in Keys /\ h.pc = "rcvLookup" /\ h.now \in Time /\ h.cwnd \in Nat
      /\ sock'[s].pc = "rcvUpdate" /\ sock'[s].new = new
      /\ \A t \in Socks : t # s => sock'[t] = sock[t]
      /\ rcvs'.cwnd[k] = h.cwnd
      /\ \A j \in Keys : j # k => rcvs'.cwnd[j] = rcvs.cwnd[j]
      /\ \A e \in events' : e.type = "TCP_CWND_DROP" => \/ e \in events
              \/ /\ e.key = k /\ IsCwndDrop(h, old)
                 /\ e.value = h.cwnd /\ e.aux = old.cwnd /\ e.truth = rcvs.cwnd[k]
  BY RcvLookupEffect
<1>2. UNCHANGED <<flow, nd_tcp_flow_latest, counted, lost>>
  BY DEF RcvLookup
<1>3. h.elem \in Nat
  BY <1>1, HandlerFields
<1>4. new.cwnd = h.cwnd /\ new.retrans_count = old.retrans_count
  BY <1>1, <1>3, NewSampleTyped
<1>5. \A j : OldSample(j)' = OldSample(j)
  BY <1>2 DEF OldSample
<1>6. \A j : Undisturbed(j)' => Undisturbed(j)
  BY <1>2, StaysUndisturbed
<1>7. \A j \in Keys : j # k =>
        /\ NoneAt(j, {"rcvUpdate"})' <=> NoneAt(j, {"rcvUpdate"})
        /\ NoneAt(j, {"rcvUpdate", "flowStore"})' <=> NoneAt(j, {"rcvUpdate", "flowStore"})
  BY <1>1, <1>2 DEF NoneAt
<1>8. \A j \in Keys : j = k => /\ ~NoneAt(j, {"rcvUpdate"})'
                               /\ ~NoneAt(j, {"rcvUpdate", "flowStore"})'
  BY <1>1, <1>2 DEF NoneAt
<1>9. Undisturbed(k) => NoneAt(k, {"rcvUpdate"}) /\ NoneAt(k, {"rcvUpdate", "flowStore"})
  BY <1>1, OnlySocket DEF NoneAt
<1>10. old.retrans_count <= counted[k]
  BY <1>1 DEF SamplesInv, Counts
<1> HIDE DEF k, h, old, new
<1>11. Counts'
  BY <1>1, <1>2, <1>4, <1>5, <1>10 DEF SamplesInv, Counts, k
<1>12. ASSUME Undisturbed(k)
       PROVE  old.cwnd = rcvs.cwnd[k] /\ old.retrans_count = counted[k]
  BY <1>1, <1>9, <1>12 DEF SamplesInv, Latest, old
<1>13. Latest'
  <2> SUFFICES ASSUME NEW j \in Keys, Undisturbed(j)'
               PROVE  /\ NoneAt(j, {"rcvUpdate"})' => OldSample(j)'.cwnd = rcvs'.cwnd[j]
                      /\ NoneAt(j, {"rcvUpdate", "flowStore"})'
                            => OldSample(j)'.retrans_count = counted'[j]
                      /\ \A t \in Socks : flow'[t] = j =>
                           /\ sock'[t].pc = "rcvUpdate" =>
                                /\ sock'[t].new.cwnd = rcvs'.cwnd[j]
                                /\ sock'[t].new.retrans_count = counted'[j]
                           /\ sock'[t].pc = "flowStore" =>
                                /\ nd_tcp_flow_latest'[j] # None
                                /\ nd_tcp_flow_latest'[j].elem = sock'[t].elem
                                /\ sock'[t].n + 1 = counted'[j]
    BY DEF Latest
  <2>1. Undisturbed(j)
    BY <1>6
  <2>2. CASE j = k
    <3>1. \A t \in Socks : flow'[t] = j => t = s
      BY <1>2, <2>1, <2>2, OnlySocket DEF k
    <3>2. /\ ~NoneAt(j, {"rcvUpdate"})' /\ ~NoneAt(j, {"rcvUpdate", "flowStore"})'
      BY <1>8, <2>2
    <3>3. sock'[s].new.cwnd = rcvs'.cwnd[j] /\ sock'[s].new.retrans_count = counted'[j]
      BY <1>1, <1>2, <1>4, <1>12, <2>1, <2>2
    <3> QED
      BY <1>1, <3>1, <3>2, <3>3
  <2>3. CASE j # k
    <3>1. \A t \in Socks : flow[t] = j => t # s
      BY <2>3 DEF k
    <3> QED
      BY <1>1, <1>2, <1>5, <1>7, <2>1, <2>3, <3>1 DEF SamplesInv, Latest
  <2> QED
    BY <2>2, <2>3
<1>14. DropIsReal'
  <2> SUFFICES ASSUME NEW e \in events', e.type = "TCP_CWND_DROP"
               PROVE  /\ e.value * 100 <= e.aux * CwndDropPct
                      /\ Undisturbed(e.key)' => e.aux = e.truth
    BY DEF DropIsReal
  <2>1. CASE e \in events
    BY <1>6, <2>1 DEF SamplesInv, DropIsReal
  <2>2. CASE e \notin events
    <3>1. e.key = k /\ IsCwndDrop(h, old) /\ e.value = h.cwnd /\ e.aux = old.cwnd /\ e.truth = rcvs.cwnd[k]
      BY <1>1, <2>2
    <3> QED
      BY <1>6, <1>12, <3>1 DEF IsCwndDrop
  <2> QED
    BY <2>1, <2>2
<1> QED
  BY <1>11, <1>13, <1>14 DEF SamplesInv

(* The update: the sample of an undisturbed flow is written. *)
LEMMA RcvUpdateSamples ==
  ASSUME Typed, SamplesInv, NEW s \in Socks, RcvUpdate(s)
  PROVE  SamplesInv'
<1> DEFINE k == flow[s]
           v == sock[s].new
<1>1. /\ k \in Keys /\ sock[s].pc = "rcvUpdate" /\ v \in Sample
      /\ sock'[s].pc = "idle"
      /\ \A t \in Socks : t # s => sock'[t] = sock[t]
      /\ lost \subseteq lost'
      /\ \A j \in Keys : \/ nd_tcp_flow_latest'[j] = nd_tcp_flow_latest[j]
                         \/ nd_tcp_flow_latest'[j] = None
                         \/ (j = k /\ nd_tcp_flow_latest'[j] = v)
      /\ \A j \in Keys \ lost' :
           /\ j = k => nd_tcp_flow_latest'[j] = v
           /\ j # k => nd_tcp_flow_latest'[j] = nd_tcp_flow_latest[j]
  BY RcvUpdateEffect
<1>2. UNCHANGED <<flow, counted, rcvs, events>>
  BY DEF RcvUpdate
<1>3. v # None /\ NoSample.retrans_count = 0
  BY <1>1, TcpFlowNoneAssumption DEF NoSample
<1>4. \A j : Undisturbed(j)' => Undisturbed(j) /\ j \notin lost'
  BY <1>1, <1>2, StaysUndisturbed
<1>5. v.retrans_count <= counted[k]
  BY <1>1 DEF SamplesInv, Counts
<1> HIDE DEF k, v
<1>6. \A j \in Keys : OldSample(j)'.retrans_count <= counted'[j]
  <2> TAKE j \in Keys
  <2>1. \/ OldSample(j)' = OldSample(j)
        \/ OldSample(j)' = NoSample
        \/ (j = k /\ OldSample(j)' = v)
    BY <1>1, <1>3 DEF OldSample
  <2>2. OldSample(j).retrans_count <= counted[j] /\ counted[j] \in Nat
    BY DEF SamplesInv, Counts, Typed
  <2> QED
    BY <1>2, <1>3, <1>5, <2>1, <2>2
<1>7. Counts'
  BY <1>1, <1>2, <1>6 DEF SamplesInv, Counts
<1>8. Latest'
  <2> SUFFICES ASSUME NEW j \in Keys, Undisturbed(j)'
               PROVE  /\ NoneAt(j, {"rcvUpdate"})' => OldSample(j)'.cwnd = rcvs'.cwnd[j]
                      /\ NoneAt(j, {"rcvUpdate", "flowStore"})'
                            => OldSample(j)'.retrans_count = counted'[j]
                      /\ \A t \in Socks : flow'[t] = j =>
                           /\ sock'[t].pc = "rcvUpdate" =>
                                /\ sock'[t].new.cwnd = rcvs'.cwnd[j]
                                /\ sock'[t].new.retrans_count = counted'[j]
                           /\ sock'[t].pc = "flowStore" =>
                                /\ nd_tcp_flow_latest'[j] # None
                                /\ nd_tcp_flow_latest'[j].elem = sock'[t].elem
                                /\ sock'[t].n + 1 = counted'[j]
    BY DEF Latest
  <2>1. Undisturbed(j) /\ j \notin lost'
    BY <1>4
  <2>2. CASE j = k
    <3>1. \A t \in Socks : flow'[t] = j => t = s
      BY <1>2, <2>1, <2>2, OnlySocket DEF k
    <3>2. OldSample(j)' = v
      BY <1>1, <1>3, <2>1, <2>2 DEF OldSample
    <3>3. v.cwnd = rcvs.cwnd[k] /\ v.retrans_count = counted[k]
      BY <1>1, <2>1, <2>2 DEF SamplesInv, Latest, k, v
    <3> QED
      BY <1>1, <1>2, <2>2, <3>1, <3>2, <3>3
  <2>3. CASE j # k
    <3>1. \A t \in Socks : flow[t] = j => t # s
      BY <2>3 DEF k
    <3>2. nd_tcp_flow_latest'[j] = nd_tcp_flow_latest[j] /\ OldSample(j)' = OldSample(j)
      BY <1>1, <2>1, <2>3 DEF OldSample
    <3>3. /\ NoneAt(j, {"rcvUpdate"})' => NoneAt(j, {"rcvUpdate"})
          /\ NoneAt(j, {"rcvUpdate", "flowStore"})' => NoneAt(j, {"rcvUpdate", "flowStore"})
      BY <1>1, <1>2, <3>1 DEF NoneAt
    <3> QED
      BY <1>1, <1>2, <2>1, <3>1, <3>2, <3>3 DEF SamplesInv, Latest
  <2> QED
    BY <2>2, <2>3
<1>9. DropIsReal'
  BY <1>2, <1>4 DEF SamplesInv, DropIsReal
<1> QED
  BY <1>7, <1>8, <1>9 DEF SamplesInv

(* The load of retrans_count: one more to be noted. *)
LEMMA FlowLookupSamples ==
  ASSUME Typed, SamplesInv, NEW s \in Socks, FlowLookup(s)
  PROVE  SamplesInv'
<1> DEFINE k == flow[s]
           tv == nd_tcp_flow_latest[k]
<1>1. /\ k \in Keys /\ sock[s].pc = "flowLookup"
      /\ \A t \in Socks : t # s => sock'[t] = sock[t]
      /\ \A j \in Keys : j # k => counted'[j] = counted[j]
      /\ \/ tv = None /\ sock'[s].pc = "idle" /\ counted'[k] = counted[k]
         \/ /\ tv # None
            /\ sock'[s].pc = "flowStore"
            /\ sock'[s].elem = tv.elem
            /\ sock'[s].n = tv.retrans_count
            /\ counted'[k] = counted[k] + 1
  BY FlowLookupEffect
<1>2. UNCHANGED <<flow, nd_tcp_flow_latest, rcvs, events, lost>>
  BY DEF FlowLookup
<1>3. CASE tv = None
  <2>1. sock'[s].pc = "idle" /\ counted' = counted
    BY <1>1, <1>3 DEF FlowLookup
  <2> QED
    BY <1>1, <1>2, <2>1, SamplesFrame
<1>4. CASE tv # None
  <2>1. /\ sock'[s].pc = "flowStore" /\ sock'[s].elem = tv.elem
        /\ sock'[s].n = tv.retrans_count /\ counted'[k] = counted[k] + 1
    BY <1>1, <1>4
  <2>2. OldSample(k) = tv
    BY <1>4 DEF OldSample
  <2>3. \A j : OldSample(j)' = OldSample(j)
    BY <1>2 DEF OldSample
  <2>4. \A j : Undisturbed(j)' => Undisturbed(j)
    BY <1>2, StaysUndisturbed
  <2>5. \A j \in Keys : /\ counted[j] \in Nat /\ counted'[j] \in Nat
                        /\ counted[j] <= counted'[j]
    <3> TAKE j \in Keys
    <3>1. counted[j] \in Nat
      BY DEF Typed
    <3>2. counted'[j] = counted[j] \/ counted'[j] = counted[j] + 1
      BY <1>1, <2>1
    <3> QED
      BY <3>1, <3>2
  <2>6. tv.retrans_count \in Nat /\ tv.retrans_count <= counted[k]
    BY <1>1, <2>2, OldFields DEF SamplesInv, Counts
  <2> HIDE DEF k, tv
  <2>7. Counts'
    <3>1. \A j \in Keys : OldSample(j)'.retrans_count <= counted'[j]
      <4> TAKE j \in Keys
      <4>1. /\ OldSample(j).retrans_count <= counted[j]
            /\ OldSample(j).retrans_count \in Nat /\ counted'[j] \in Nat
        <5>1. OldSample(j).retrans_count <= counted[j] /\ OldSample(j).retrans_count \in Nat
          BY OldFields DEF SamplesInv, Counts
        <5>2. counted'[j] \in Nat
          BY <2>5
        <5> QED
          BY <5>1, <5>2
      <4> QED
        BY <2>3, <2>5, <4>1
    <3>2. ASSUME NEW t \in Socks, t # s
          PROVE  /\ sock'[t].pc = "rcvUpdate" => sock'[t].new.retrans_count <= counted'[flow'[t]]
                 /\ sock'[t].pc = "flowStore" => sock'[t].n + 1 <= counted'[flow'[t]]
      <4>1. sock'[t] = sock[t] /\ flow'[t] = flow[t] /\ flow[t] \in Keys
        BY <1>1, <1>2, <3>2 DEF Typed
      <4>2. counted[flow[t]] \in Nat /\ counted'[flow[t]] \in Nat
            /\ counted[flow[t]] <= counted'[flow[t]]
        BY <1>1, <2>1, <2>5, <4>1
      <4>3. sock[t].pc = "rcvUpdate" => sock[t].new.retrans_count \in Nat
        BY HandlerFields DEF Sample
      <4>4. sock[t].pc = "flowStore" => sock[t].n \in Nat
        BY HandlerFields
      <4>5. /\ sock[t].pc = "rcvUpdate" => sock[t].new.retrans_count <= counted[flow[t]]
            /\ sock[t].pc = "flowStore" => sock[t].n + 1 <= counted[flow[t]]
        BY DEF SamplesInv, Counts
      <4> QED
        BY <4>1, <4>2, <4>3, <4>4, <4>5
    <3>3. sock'[s].n + 1 <= counted'[flow'[s]]
      BY <1>1, <1>2, <2>1, <2>5, <2>6 DEF k
    <3> QED
      BY <2>1, <3>1, <3>2, <3>3 DEF Counts
  <2>8. Latest'
    <3> SUFFICES ASSUME NEW j \in Keys, Undisturbed(j)'
                 PROVE  /\ NoneAt(j, {"rcvUpdate"})' => OldSample(j)'.cwnd = rcvs'.cwnd[j]
                        /\ NoneAt(j, {"rcvUpdate", "flowStore"})'
                              => OldSample(j)'.retrans_count = counted'[j]
                        /\ \A t \in Socks : flow'[t] = j =>
                             /\ sock'[t].pc = "rcvUpdate" =>
                                  /\ sock'[t].new.cwnd = rcvs'.cwnd[j]
                                  /\ sock'[t].new.retrans_count = counted'[j]
                             /\ sock'[t].pc = "flowStore" =>
                                  /\ nd_tcp_flow_latest'[j] # None
                                  /\ nd_tcp_flow_latest'[j].elem = sock'[t].elem
                                  /\ sock'[t].n + 1 = counted'[j]
      BY DEF Latest
    <3>1. Undisturbed(j)
      BY <2>4
    <3>2. CASE j = k
      <4>1. \A t \in Socks : flow[t] = j => t = s
        BY <3>1, <3>2, OnlySocket DEF k
      <4>2. NoneAt(j, {"rcvUpdate"}) /\ NoneAt(j, {"rcvUpdate", "flowStore"})
        BY <1>1, <4>1 DEF NoneAt
      <4>3. OldSample(j).cwnd = rcvs.cwnd[j] /\ OldSample(j).retrans_count = counted[j]
        BY <3>1, <4>2 DEF SamplesInv, Latest
      <4>4. ~NoneAt(j, {"rcvUpdate", "flowStore"})'
        BY <1>2, <2>1, <3>2 DEF NoneAt, k
      <4>5. sock'[s].n + 1 = counted'[j]
        BY <2>1, <2>2, <3>2, <4>3
      <4>6. /\ nd_tcp_flow_latest'[j] # None /\ nd_tcp_flow_latest'[j].elem = sock'[s].elem
        BY <1>2, <1>4, <2>1, <3>2 DEF tv
      <4> QED
        BY <1>2, <2>1, <2>3, <4>1, <4>3, <4>4, <4>5, <4>6
    <3>3. CASE j # k
      <4>1. \A t \in Socks : flow[t] = j => t # s
        BY <3>3 DEF k
      <4>2. /\ NoneAt(j, {"rcvUpdate"})' => NoneAt(j, {"rcvUpdate"})
            /\ NoneAt(j, {"rcvUpdate", "flowStore"})' => NoneAt(j, {"rcvUpdate", "flowStore"})
        BY <1>1, <1>2, <4>1 DEF NoneAt
      <4> QED
        BY <1>1, <1>2, <2>3, <3>1, <3>3, <4>1, <4>2 DEF SamplesInv, Latest
    <3> QED
      BY <3>2, <3>3
  <2>9. DropIsReal'
    BY <1>2, <2>4 DEF SamplesInv, DropIsReal
  <2> QED
    BY <2>7, <2>8, <2>9 DEF SamplesInv
<1> QED
  BY <1>3, <1>4

(* The store: of an undisturbed flow, into the element the map holds. *)
LEMMA FlowStoreSamples ==
  ASSUME Typed, SamplesInv, NEW s \in Socks, FlowStore(s)
  PROVE  SamplesInv'
<1> DEFINE k == flow[s]
           n == sock[s].n
<1>1. /\ k \in Keys /\ sock[s].pc = "flowStore" /\ sock'[s].pc = "idle"
      /\ n \in Nat
      /\ \A t \in Socks : t # s => sock'[t] = sock[t]
      /\ \A j \in Keys : j # k => nd_tcp_flow_latest'[j] = nd_tcp_flow_latest[j]
      /\ \/ nd_tcp_flow_latest'[k] = nd_tcp_flow_latest[k]
         \/ /\ nd_tcp_flow_latest[k] # None /\ nd_tcp_flow_latest'[k] # None
            /\ nd_tcp_flow_latest'[k].retrans_count = n + 1
            /\ nd_tcp_flow_latest'[k].cwnd = nd_tcp_flow_latest[k].cwnd
      /\ nd_tcp_flow_latest[k] # None /\ nd_tcp_flow_latest[k].elem = sock[s].elem =>
              nd_tcp_flow_latest'[k] # None
                /\ nd_tcp_flow_latest'[k].retrans_count = n + 1
  BY FlowStoreEffect
<1>2. UNCHANGED <<flow, counted, rcvs, events, lost>>
  BY DEF FlowStore, histVars
<1>3. \A j : Undisturbed(j)' => Undisturbed(j)
  BY <1>2, StaysUndisturbed
<1>4. n + 1 <= counted[k]
  BY <1>1 DEF SamplesInv, Counts
<1> HIDE DEF k, n
<1>5. \A j \in Keys : j # k => OldSample(j)' = OldSample(j)
  BY <1>1 DEF OldSample
<1>6. \A j \in Keys : j = k =>
        /\ OldSample(j)'.cwnd = OldSample(j).cwnd
        /\ \/ OldSample(j)' = OldSample(j)
           \/ OldSample(j)'.retrans_count = n + 1
  BY <1>1 DEF OldSample
<1>7. Counts'
  BY <1>1, <1>2, <1>4, <1>5, <1>6 DEF SamplesInv, Counts
<1>8. Latest'
  <2> SUFFICES ASSUME NEW j \in Keys, Undisturbed(j)'
               PROVE  /\ NoneAt(j, {"rcvUpdate"})' => OldSample(j)'.cwnd = rcvs'.cwnd[j]
                      /\ NoneAt(j, {"rcvUpdate", "flowStore"})'
                            => OldSample(j)'.retrans_count = counted'[j]
                      /\ \A t \in Socks : flow'[t] = j =>
                           /\ sock'[t].pc = "rcvUpdate" =>
                                /\ sock'[t].new.cwnd = rcvs'.cwnd[j]
                                /\ sock'[t].new.retrans_count = counted'[j]
                           /\ sock'[t].pc = "flowStore" =>
                                /\ nd_tcp_flow_latest'[j] # None
                                /\ nd_tcp_flow_latest'[j].elem = sock'[t].elem
                                /\ sock'[t].n + 1 = counted'[j]
    BY DEF Latest
  <2>1. Undisturbed(j)
    BY <1>3
  <2>2. CASE j = k
    <3>1. \A t \in Socks : flow[t] = j => t = s
      BY <2>1, <2>2, OnlySocket DEF k
    <3>2. NoneAt(j, {"rcvUpdate"})
      BY <1>1, <3>1 DEF NoneAt
    <3>3. OldSample(j).cwnd = rcvs.cwnd[j]
      BY <2>1, <3>2 DEF SamplesInv, Latest
    <3>4. /\ nd_tcp_flow_latest[j] # None /\ nd_tcp_flow_latest[j].elem = sock[s].elem
          /\ n + 1 = counted[j]
      BY <1>1, <2>1, <2>2 DEF SamplesInv, Latest, k, n
    <3>5. nd_tcp_flow_latest'[j] # None /\ nd_tcp_flow_latest'[j].retrans_count = counted[j]
      BY <1>1, <2>2, <3>4
    <3>6. OldSample(j)'.retrans_count = counted[j]
      BY <3>5 DEF OldSample
    <3>7. OldSample(j)'.cwnd = rcvs'.cwnd[j]
      BY <1>2, <1>6, <2>2, <3>3
    <3> QED
      BY <1>1, <1>2, <3>1, <3>6, <3>7
  <2>3. CASE j # k
    <3>1. \A t \in Socks : flow[t] = j => t # s
      BY <2>3 DEF k
    <3>2. nd_tcp_flow_latest'[j] = nd_tcp_flow_latest[j] /\ OldSample(j)' = OldSample(j)
      BY <1>1, <1>5, <2>3
    <3>3. /\ NoneAt(j, {"rcvUpdate"})' => NoneAt(j, {"rcvUpdate"})
          /\ NoneAt(j, {"rcvUpdate", "flowStore"})' => NoneAt(j, {"rcvUpdate", "flowStore"})
      BY <1>1, <1>2, <3>1 DEF NoneAt
    <3> QED
      BY <1>1, <1>2, <2>1, <3>1, <3>2, <3>3 DEF SamplesInv, Latest
  <2> QED
    BY <2>2, <2>3
<1>9. DropIsReal'
  BY <1>2, <1>3 DEF SamplesInv, DropIsReal
<1> QED
  BY <1>7, <1>8, <1>9 DEF SamplesInv

(* There is no sample at the start... *)
LEMMA InitSamples == Init => SamplesInv
<1> SUFFICES ASSUME Init PROVE SamplesInv
  OBVIOUS
<1>1. \A s \in Socks : sock[s].pc = "idle"
  BY DEF Init, Idle
<1>2. \A k \in Keys : /\ OldSample(k).cwnd = 0 /\ OldSample(k).retrans_count = 0
                      /\ counted[k] = 0 /\ rcvs.cwnd[k] = 0
  BY DEF Init, EmptyMap, OldSample, NoSample
<1>3. events = {}
  BY DEF Init
<1> QED
  BY <1>1, <1>2, <1>3 DEF SamplesInv, Counts, Latest, DropIsReal

(* ...and every step keeps what is known of them. *)
LEMMA StepSamples == Typed /\ SamplesInv /\ [Next]_vars => SamplesInv'
<1> SUFFICES ASSUME Typed, SamplesInv, [Next]_vars PROVE SamplesInv'
  OBVIOUS
<1>1. CASE Tick \/ UNCHANGED vars
  <2>1. UNCHANGED <<flow, lost, nd_tcp_flow_latest, counted, rcvs, sock, events>>
    BY <1>1 DEF Tick, vars, histVars
  <2> QED
    BY <2>1, SamplesFrame
<1>2. ASSUME NEW s \in Socks, NEW v \in Samples, Rcv(s, v[1], v[2]) PROVE SamplesInv'
  <2>1. /\ sock[s].pc = "idle" /\ sock'[s].pc = "rcvLookup"
        /\ \A t \in Socks : t # s => sock'[t] = sock[t]
        /\ rcvs'.cwnd = rcvs.cwnd
    BY <1>2, RcvEffect
  <2>2. UNCHANGED <<flow, lost, nd_tcp_flow_latest, counted, events>>
    BY <1>2 DEF Rcv
  <2> QED
    BY <2>1, <2>2, SamplesFrame
<1>3. ASSUME NEW s \in Socks, Retransmit(s) PROVE SamplesInv'
  <2>1. /\ sock[s].pc = "idle" /\ sock'[s].pc = "rtLookup"
        /\ \A t \in Socks : t # s => sock'[t] = sock[t]
    BY <1>3, RetransmitEffect
  <2>2. UNCHANGED <<flow, lost, nd_tcp_flow_latest, counted, rcvs, events>>
    BY <1>3 DEF Retransmit
  <2> QED
    BY <2>1, <2>2, SamplesFrame
<1>4. ASSUME NEW s \in Socks, RtLookup(s) PROVE SamplesInv'
  <2>1. /\ sock[s].pc = "rtLookup" /\ sock'[s].pc = "rtUpdate"
        /\ \A t \in Socks : t # s => sock'[t] = sock[t]
        /\ \A e \in events' : e \in events \/ e.type = "TCP_RETRANS_BURST"
    BY <1>4, RtLookupEffect
  <2>2. UNCHANGED <<flow, lost, nd_tcp_flow_latest, counted, rcvs>>
    BY <1>4 DEF RtLookup
  <2> QED
    BY <2>1, <2>2, SamplesFrame
<1>5. ASSUME NEW s \in Socks, RtUpdate(s) PROVE SamplesInv'
  <2>1. /\ sock[s].pc = "rtUpdate" /\ sock'[s].pc = "flowLookup"
        /\ \A t \in Socks : t # s => sock'[t] = sock[t]
        /\ lost \subseteq lost'
    BY <1>5, RtUpdateEffect
  <2>2. UNCHANGED <<flow, nd_tcp_flow_latest, counted, rcvs, events>>
    BY <1>5 DEF RtUpdate
  <2> QED
    BY <2>1, <2>2, SamplesFrame
<1> QED
  BY <1>1, <1>2, <1>3, <1>4, <1>5, RcvLookupSamples, RcvUpdateSamples, FlowLookupSamples,
     FlowStoreSamples DEF Next

(* What is known of the samples holds in every state. *)
THEOREM SamplesInvariance == Spec => []SamplesInv
BY InitSamples, StepSamples, FlowTyped, PTL DEF Spec

(* A TCP_CWND_DROP compares two successive samples of the flow, and the    *)
(* window shrank by the configured share.                                  *)
THEOREM DropSound == Spec => []DropIsReal
<1>1. SamplesInv => DropIsReal
  BY DEF SamplesInv
<1> QED
  BY <1>1, SamplesInvariance, PTL

(* The retransmissions noted with a flow's latest sample are never more    *)
(* than there were, and of an undisturbed flow all of them.                *)
THEOREM RetransCountSound == Spec => []RetransCountIsReal
<1>1. SamplesInv => RetransCountIsReal
  BY DEF SamplesInv, Counts, Latest, RetransCountIsReal, OldSample, NoneAt, Quiet
<1> QED
  BY <1>1, SamplesInvariance, PTL

-----------------------------------------------------------------------------
(* The cooldown of a flow's events.                                        *)

StampsInv == Stamps /\ CooldownHeld

(* A step that touches neither the stamps nor those who write them. *)
LEMMA StampsFrame ==
  ASSUME Typed, StampsInv, flow' = flow, lost \subseteq lost', events' = events,
         \A j \in Keys \ lost' :
           /\ OldSample(j)'.last_rtt_event_ns = OldSample(j).last_rtt_event_ns
           /\ OldSample(j)'.last_cwnd_event_ns = OldSample(j).last_cwnd_event_ns
           /\ LastBurst(j)' = LastBurst(j),
         \A t \in Socks : \/ sock'[t] = sock[t]
                          \/ /\ sock[t].pc \notin {"rcvUpdate", "rtUpdate"}
                             /\ sock'[t].pc \notin {"rcvUpdate", "rtUpdate"}
  PROVE  StampsInv'
<1>1. \A k : Undisturbed(k)' => Undisturbed(k) /\ k \notin lost'
  BY StaysUndisturbed
<1>2. \A k : /\ NoneAt(k, {"rcvUpdate"})' <=> NoneAt(k, {"rcvUpdate"})
             /\ NoneAt(k, {"rtUpdate"})' <=> NoneAt(k, {"rtUpdate"})
  BY DEF NoneAt
<1>3. CooldownHeld'
  BY <1>1 DEF StampsInv, CooldownHeld
<1>4. Stamps'
  BY <1>1, <1>2 DEF StampsInv, Stamps, NoneAfter
<1> QED
  BY <1>3, <1>4 DEF StampsInv

(* An event that waits for the cooldown after the last one before it. *)
LEMMA CooledEvent ==
  ASSUME Typed, NEW type, NEW k, NEW last \in Time, NEW now \in Time,
         NoneAfter(type, k, last), CooledDown(now, last)
  PROVE  \A d \in events : d.type = type /\ d.key = k =>
           d.now <= now /\ now - d.now > EventCooldown
<1> SUFFICES ASSUME NEW d \in events, d.type = type, d.key = k
             PROVE  d.now <= now /\ now - d.now > EventCooldown
  OBVIOUS
<1>1. d.now \in Nat /\ now \in Nat /\ last \in Nat /\ EventCooldown \in Nat
  BY TcpFlowAssumption DEF Typed, Time
<1>2. d.now <= last /\ now > last + EventCooldown
  BY CooledDownMeans DEF NoneAfter
<1> QED
  BY <1>1, <1>2

(* The lookup of nd_tcp_rcv_established and the two events it decides on. *)
LEMMA RcvLookupStamps ==
  ASSUME Typed, StampsInv, NEW s \in Socks, RcvLookup(s)
  PROVE  StampsInv'
<1> DEFINE k == flow[s]
           h == sock[s]
           old == OldSample(k)
           new == NewSample(h, old)
<1>1. /\ k \in Keys /\ h.pc = "rcvLookup" /\ h.now \in Time /\ h.cwnd \in Nat
      /\ sock'[s].pc = "rcvUpdate" /\ sock'[s].new = new
      /\ \A t \in Socks : t # s => sock'[t] = sock[t]
      /\ events \subseteq events'
      /\ \A e \in events' :
           \/ e \in events
           \/ /\ e.type = "SLOW_TCP_RTT" /\ e.key = k /\ e.now = h.now /\ IsSlowRtt(h, old)
           \/ /\ e.type = "TCP_CWND_DROP" /\ e.key = k /\ e.now = h.now /\ IsCwndDrop(h, old)
  BY RcvLookupEffect
<1>2. UNCHANGED <<flow, nd_tcp_flow_latest, nd_tcp_retrans_by_flow, lost>>
  BY DEF RcvLookup
<1>3. h.elem \in Nat
  BY <1>1, HandlerFields
<1>4. /\ new.last_rtt_event_ns = IF IsSlowRtt(h, old) THEN h.now ELSE old.last_rtt_event_ns
      /\ new.last_cwnd_event_ns = IF IsCwndDrop(h, old) THEN h.now ELSE old.last_cwnd_event_ns
  BY <1>1, <1>3, NewSampleTyped
<1>5. \A j : OldSample(j)' = OldSample(j) /\ LastBurst(j)' = LastBurst(j)
  BY <1>2 DEF OldSample, LastBurst
<1>6. \A j : Undisturbed(j)' => Undisturbed(j)
  BY <1>2, StaysUndisturbed
<1>7. old.last_rtt_event_ns \in Time /\ old.last_cwnd_event_ns \in Time
  BY <1>1, OldFields
<1> DEFINE slow == IsSlowRtt(h, old)
           drop == IsCwndDrop(h, old)
<1>8. ASSUME Undisturbed(k)
      PROVE  /\ NoneAfter("SLOW_TCP_RTT", k, old.last_rtt_event_ns)
             /\ NoneAfter("TCP_CWND_DROP", k, old.last_cwnd_event_ns)
             /\ slow => \A d \in events : d.type = "SLOW_TCP_RTT" /\ d.key = k =>
                          d.now <= h.now /\ h.now - d.now > EventCooldown
             /\ drop => \A d \in events : d.type = "TCP_CWND_DROP" /\ d.key = k =>
                          d.now <= h.now /\ h.now - d.now > EventCooldown
  <2>1. NoneAt(k, {"rcvUpdate"})
    BY <1>1, <1>8, OnlySocket DEF NoneAt
  <2>2. /\ NoneAfter("SLOW_TCP_RTT", k, old.last_rtt_event_ns)
        /\ NoneAfter("TCP_CWND_DROP", k, old.last_cwnd_event_ns)
    BY <1>1, <1>8, <2>1 DEF StampsInv, Stamps
  <2>3. /\ slow => CooledDown(h.now, old.last_rtt_event_ns)
        /\ drop => CooledDown(h.now, old.last_cwnd_event_ns)
    BY DEF IsSlowRtt, IsCwndDrop
  <2> HIDE DEF k, h, old, slow, drop
  <2> QED
    BY <1>1, <1>7, <2>2, <2>3, CooledEvent
<1> HIDE DEF k, h, old, new, slow, drop
<1>9. \A e \in events' :
        \/ e \in events
        \/ e.type = "SLOW_TCP_RTT" /\ e.key = k /\ e.now = h.now /\ slow
        \/ e.type = "TCP_CWND_DROP" /\ e.key = k /\ e.now = h.now /\ drop
  BY <1>1 DEF slow, drop
<1>10. CooldownHeld'
  <2> SUFFICES ASSUME NEW d \in events', NEW e \in events', d.type = e.type, d.key = e.key,
                      d.now < e.now, Undisturbed(d.key)'
               PROVE  e.now - d.now > EventCooldown
    BY DEF CooldownHeld
  <2>1. Undisturbed(d.key)
    BY <1>6
  <2>2. CASE d \in events /\ e \in events
    BY <2>1, <2>2 DEF StampsInv, CooldownHeld
  <2>3. CASE d \notin events /\ e \notin events
    <3>1. d.now = h.now /\ e.now = h.now
      BY <1>9, <2>3
    <3>2. h.now \in Nat
      BY <1>1 DEF Time
    <3> QED
      BY <3>1, <3>2
  <2>4. CASE d \in events /\ e \notin events
    <3>1. e.key = k /\ e.now = h.now
          /\ ((e.type = "SLOW_TCP_RTT" /\ slow) \/ (e.type = "TCP_CWND_DROP" /\ drop))
      BY <1>9, <2>4
    <3> QED
      BY <1>8, <2>1, <2>4, <3>1
  <2>5. CASE d \notin events /\ e \in events
    <3>1. d.key = k /\ d.now = h.now
          /\ ((d.type = "SLOW_TCP_RTT" /\ slow) \/ (d.type = "TCP_CWND_DROP" /\ drop))
      BY <1>9, <2>5
    <3>2. e.now <= h.now
      BY <1>8, <2>1, <2>5, <3>1
    <3>3. h.now \in Nat /\ e.now \in Nat
      BY <1>1, <2>5 DEF Typed, Time
    <3> QED
      BY <3>1, <3>2, <3>3
  <2> QED
    BY <2>2, <2>3, <2>4, <2>5
<1>11. Stamps'
  <2> SUFFICES ASSUME NEW j \in Keys, Undisturbed(j)'
               PROVE  /\ NoneAt(j, {"rcvUpdate"})' =>
                           /\ NoneAfter("SLOW_TCP_RTT", j, OldSample(j).last_rtt_event_ns)'
                           /\ NoneAfter("TCP_CWND_DROP", j, OldSample(j).last_cwnd_event_ns)'
                      /\ NoneAt(j, {"rtUpdate"})'
                           => NoneAfter("TCP_RETRANS_BURST", j, LastBurst(j))'
                      /\ \A t \in Socks : flow'[t] = j =>
                           /\ sock'[t].pc = "rcvUpdate" =>
                                /\ NoneAfter("SLOW_TCP_RTT", j, sock[t].new.last_rtt_event_ns)'
                                /\ NoneAfter("TCP_CWND_DROP", j, sock[t].new.last_cwnd_event_ns)'
                           /\ sock'[t].pc = "rtUpdate" =>
                                NoneAfter("TCP_RETRANS_BURST", j, sock[t].new.last_event_ns)'
    BY DEF Stamps
  <2>1. Undisturbed(j)
    BY <1>6
  <2>2. CASE j = k
    <3>1. \A t \in Socks : flow'[t] = j => t = s
      BY <1>2, <2>1, <2>2, OnlySocket DEF k
    <3>2. ~NoneAt(j, {"rcvUpdate"})'
      BY <1>1, <1>2, <2>2 DEF NoneAt, k
    <3>3. NoneAfter("TCP_RETRANS_BURST", j, LastBurst(j))'
      <4>1. NoneAt(j, {"rtUpdate"})
        BY <1>1, <1>2, <3>1 DEF NoneAt, h
      <4>2. NoneAfter("TCP_RETRANS_BURST", j, LastBurst(j))
        BY <2>1, <4>1 DEF StampsInv, Stamps
      <4> QED
        BY <1>5, <1>9, <4>2 DEF NoneAfter
    <3>4. NoneAfter("SLOW_TCP_RTT", j, sock[s].new.last_rtt_event_ns)'
      <4> SUFFICES ASSUME NEW e \in events', e.type = "SLOW_TCP_RTT", e.key = j
                   PROVE  e.now <= new.last_rtt_event_ns
        BY <1>1 DEF NoneAfter
      <4>1. h.now \in Nat
        BY <1>1 DEF Time
      <4>2. CASE slow
        <5>1. e.now <= h.now
          BY <1>8, <1>9, <2>1, <2>2, <4>1, <4>2
        <5> QED
          BY <1>4, <4>2, <5>1 DEF slow
      <4>3. CASE ~slow
        <5>1. e \in events
          BY <1>9, <4>3
        <5>2. e.now <= old.last_rtt_event_ns
          BY <1>8, <2>1, <2>2, <5>1 DEF NoneAfter
        <5> QED
          BY <1>4, <4>3, <5>2 DEF slow
      <4> QED
        BY <4>2, <4>3
    <3>5. NoneAfter("TCP_CWND_DROP", j, sock[s].new.last_cwnd_event_ns)'
      <4> SUFFICES ASSUME NEW e \in events', e.type = "TCP_CWND_DROP", e.key = j
                   PROVE  e.now <= new.last_cwnd_event_ns
        BY <1>1 DEF NoneAfter
      <4>1. h.now \in Nat
        BY <1>1 DEF Time
      <4>2. CASE drop
        <5>1. e.now <= h.now
          BY <1>8, <1>9, <2>1, <2>2, <4>1, <4>2
        <5> QED
          BY <1>4, <4>2, <5>1 DEF drop
      <4>3. CASE ~drop
        <5>1. e \in events
          BY <1>9, <4>3
        <5>2. e.now <= old.last_cwnd_event_ns
          BY <1>8, <2>1, <2>2, <5>1 DEF NoneAfter
        <5> QED
          BY <1>4, <4>3, <5>2 DEF drop
      <4> QED
        BY <4>2, <4>3
    <3> QED
      BY <1>1, <3>1, <3>2, <3>3, <3>4, <3>5
  <2>3. CASE j # k
    <3>1. \A t \in Socks : flow[t] = j => t # s
      BY <2>3 DEF k
    <3>2. /\ NoneAt(j, {"rcvUpdate"})' => NoneAt(j, {"rcvUpdate"})
          /\ NoneAt(j, {"rtUpdate"})' => NoneAt(j, {"rtUpdate"})
      BY <1>1, <1>2, <3>1 DEF NoneAt
    <3>3. \A e \in events' : e.key = j => e \in events
      BY <1>9, <2>3
    <3> QED
      BY <1>1, <1>2, <1>5, <2>1, <3>1, <3>2, <3>3 DEF StampsInv, Stamps, NoneAfter
  <2> QED
    BY <2>2, <2>3
<1> QED
  BY <1>10, <1>11 DEF StampsInv

(* The update of the sample with the stamps. *)
LEMMA RcvUpdateStamps ==
  ASSUME Typed, StampsInv, NEW s \in Socks, RcvUpdate(s)
  PROVE  StampsInv'
<1> DEFINE k == flow[s]
           v == sock[s].new
<1>1. /\ k \in Keys /\ sock[s].pc = "rcvUpdate" /\ v \in Sample
      /\ sock'[s].pc = "idle"
      /\ \A t \in Socks : t # s => sock'[t] = sock[t]
      /\ lost \subseteq lost'
      /\ \A j \in Keys \ lost' :
           /\ j = k => nd_tcp_flow_latest'[j] = v
           /\ j # k => nd_tcp_flow_latest'[j] = nd_tcp_flow_latest[j]
  BY RcvUpdateEffect
<1>2. UNCHANGED <<flow, nd_tcp_retrans_by_flow, events>>
  BY DEF RcvUpdate
<1>3. v # None
  BY <1>1, TcpFlowNoneAssumption
<1>4. \A j : Undisturbed(j)' => Undisturbed(j) /\ j \notin lost'
  BY <1>1, <1>2, StaysUndisturbed
<1>5. \A j : LastBurst(j)' = LastBurst(j)
  BY <1>2 DEF LastBurst
<1> HIDE DEF k, v
<1>6. CooldownHeld'
  BY <1>2, <1>4 DEF StampsInv, CooldownHeld
<1>7. Stamps'
  <2> SUFFICES ASSUME NEW j \in Keys, Undisturbed(j)'
               PROVE  /\ NoneAt(j, {"rcvUpdate"})' =>
                           /\ NoneAfter("SLOW_TCP_RTT", j, OldSample(j).last_rtt_event_ns)'
                           /\ NoneAfter("TCP_CWND_DROP", j, OldSample(j).last_cwnd_event_ns)'
                      /\ NoneAt(j, {"rtUpdate"})'
                           => NoneAfter("TCP_RETRANS_BURST", j, LastBurst(j))'
                      /\ \A t \in Socks : flow'[t] = j =>
                           /\ sock'[t].pc = "rcvUpdate" =>
                                /\ NoneAfter("SLOW_TCP_RTT", j, sock[t].new.last_rtt_event_ns)'
                                /\ NoneAfter("TCP_CWND_DROP", j, sock[t].new.last_cwnd_event_ns)'
                           /\ sock'[t].pc = "rtUpdate" =>
                                NoneAfter("TCP_RETRANS_BURST", j, sock[t].new.last_event_ns)'
    BY DEF Stamps
  <2>1. Undisturbed(j) /\ j \notin lost'
    BY <1>4
  <2>2. NoneAt(j, {"rtUpdate"})' => NoneAt(j, {"rtUpdate"})
    BY <1>1, <1>2 DEF NoneAt
  <2>3. CASE j = k
    <3>1. \A t \in Socks : flow'[t] = j => t = s
      BY <1>2, <2>1, <2>3, OnlySocket DEF k
    <3>2. OldSample(j)' = v
      BY <1>1, <1>3, <2>1, <2>3 DEF OldSample
    <3>3. /\ NoneAfter("SLOW_TCP_RTT", j, v.last_rtt_event_ns)
          /\ NoneAfter("TCP_CWND_DROP", j, v.last_cwnd_event_ns)
      BY <1>1, <2>1, <2>3 DEF StampsInv, Stamps, k, v
    <3> QED
      BY <1>1, <1>2, <1>5, <2>1, <2>2, <3>1, <3>2, <3>3 DEF StampsInv, Stamps, NoneAfter
  <2>4. CASE j # k
    <3>1. \A t \in Socks : flow[t] = j => t # s
      BY <2>4 DEF k
    <3>2. OldSample(j)' = OldSample(j)
      BY <1>1, <2>1, <2>4 DEF OldSample
    <3>3. NoneAt(j, {"rcvUpdate"})' => NoneAt(j, {"rcvUpdate"})
      BY <1>1, <1>2, <3>1 DEF NoneAt
    <3> QED
      BY <1>1, <1>2, <1>5, <2>1, <2>2, <3>1, <3>2, <3>3 DEF StampsInv, Stamps, NoneAfter
  <2> QED
    BY <2>3, <2>4
<1> QED
  BY <1>6, <1>7 DEF StampsInv

(* The lookup of nd_tcp_retransmit_skb and the burst it decides on. *)
LEMMA RtLookupStamps ==
  ASSUME Typed, StampsInv, NEW s \in Socks, RtLookup(s)
  PROVE  StampsInv'
<1> DEFINE k == flow[s]
           now == sock[s].now
           w == Window(now, nd_tcp_retrans_by_flow[k])
           burst == IsBurst(now, w)
<1>1. /\ k \in Keys /\ now \in Time /\ sock[s].pc = "rtLookup" /\ w \in RetransValue
      /\ sock'[s].pc = "rtUpdate"
      /\ sock'[s].new.last_event_ns = IF burst THEN now ELSE w.last_event_ns
      /\ \A t \in Socks : t # s => sock'[t] = sock[t]
      /\ \A e \in events' :
           \/ e \in events
           \/ (e.type = "TCP_RETRANS_BURST" /\ e.key = k /\ e.now = now /\ burst)
  BY RtLookupEffect
<1>2. UNCHANGED <<flow, nd_tcp_flow_latest, nd_tcp_retrans_by_flow, lost>>
  BY DEF RtLookup
<1>3. \A j : OldSample(j)' = OldSample(j) /\ LastBurst(j)' = LastBurst(j)
  BY <1>2 DEF OldSample, LastBurst
<1>4. \A j : Undisturbed(j)' => Undisturbed(j)
  BY <1>2, StaysUndisturbed
<1>5. w.last_event_ns = LastBurst(k) /\ w.last_event_ns \in Time
  <2>1. nd_tcp_retrans_by_flow[k] \in RetransValue \cup {None}
    BY <1>1 DEF Typed
  <2>2. w.last_event_ns = LastBurst(k)
    BY <1>1, <2>1, WindowCases DEF LastBurst
  <2> QED
    BY <1>1, <2>2 DEF RetransValue
<1>6. ASSUME Undisturbed(k)
      PROVE  /\ NoneAfter("TCP_RETRANS_BURST", k, w.last_event_ns)
             /\ burst => \A d \in events : d.type = "TCP_RETRANS_BURST" /\ d.key = k =>
                          d.now <= now /\ now - d.now > EventCooldown
  <2>1. NoneAt(k, {"rtUpdate"})
    BY <1>1, <1>6, OnlySocket DEF NoneAt
  <2>2. NoneAfter("TCP_RETRANS_BURST", k, w.last_event_ns)
    BY <1>1, <1>5, <1>6, <2>1 DEF StampsInv, Stamps
  <2>3. burst => CooledDown(now, w.last_event_ns)
    BY DEF IsBurst
  <2> HIDE DEF k, now, w, burst
  <2> QED
    BY <1>1, <1>5, <2>2, <2>3, CooledEvent
<1> HIDE DEF k, now, w, burst
<1>7. CooldownHeld'
  <2> SUFFICES ASSUME NEW d \in events', NEW e \in events', d.type = e.type, d.key = e.key,
                      d.now < e.now, Undisturbed(d.key)'
               PROVE  e.now - d.now > EventCooldown
    BY DEF CooldownHeld
  <2>1. Undisturbed(d.key)
    BY <1>4
  <2>2. CASE d \in events /\ e \in events
    BY <2>1, <2>2 DEF StampsInv, CooldownHeld
  <2>3. CASE d \notin events /\ e \notin events
    <3>1. d.now = now /\ e.now = now
      BY <1>1, <2>3
    <3>2. now \in Nat
      BY <1>1 DEF Time
    <3> QED
      BY <3>1, <3>2
  <2>4. CASE d \in events /\ e \notin events
    <3>1. e.key = k /\ e.now = now /\ e.type = "TCP_RETRANS_BURST" /\ burst
      BY <1>1, <2>4
    <3> QED
      BY <1>6, <2>1, <2>4, <3>1
  <2>5. CASE d \notin events /\ e \in events
    <3>1. d.key = k /\ d.now = now /\ d.type = "TCP_RETRANS_BURST" /\ burst
      BY <1>1, <2>5
    <3>2. e.now <= now
      BY <1>6, <2>1, <2>5, <3>1
    <3>3. now \in Nat /\ e.now \in Nat
      BY <1>1, <2>5 DEF Typed, Time
    <3> QED
      BY <3>1, <3>2, <3>3
  <2> QED
    BY <2>2, <2>3, <2>4, <2>5
<1>8. Stamps'
  <2> SUFFICES ASSUME NEW j \in Keys, Undisturbed(j)'
               PROVE  /\ NoneAt(j, {"rcvUpdate"})' =>
                           /\ NoneAfter("SLOW_TCP_RTT", j, OldSample(j).last_rtt_event_ns)'
                           /\ NoneAfter("TCP_CWND_DROP", j, OldSample(j).last_cwnd_event_ns)'
                      /\ NoneAt(j, {"rtUpdate"})'
                           => NoneAfter("TCP_RETRANS_BURST", j, LastBurst(j))'
                      /\ \A t \in Socks : flow'[t] = j =>
                           /\ sock'[t].pc = "rcvUpdate" =>
                                /\ NoneAfter("SLOW_TCP_RTT", j, sock[t].new.last_rtt_event_ns)'
                                /\ NoneAfter("TCP_CWND_DROP", j, sock[t].new.last_cwnd_event_ns)'
                           /\ sock'[t].pc = "rtUpdate" =>
                                NoneAfter("TCP_RETRANS_BURST", j, sock[t].new.last_event_ns)'
    BY DEF Stamps
  <2>1. Undisturbed(j)
    BY <1>4
  <2>2. NoneAt(j, {"rcvUpdate"})' => NoneAt(j, {"rcvUpdate"})
    BY <1>1, <1>2 DEF NoneAt
  <2>3. \A e \in events' : e.type # "TCP_RETRANS_BURST" \/ e.key # k => e \in events
    BY <1>1
  <2>4. CASE j = k
    <3>1. \A t \in Socks : flow'[t] = j => t = s
      BY <1>2, <2>1, <2>4, OnlySocket DEF k
    <3>2. ~NoneAt(j, {"rtUpdate"})'
      BY <1>1, <1>2, <2>4 DEF NoneAt, k
    <3>3. NoneAfter("TCP_RETRANS_BURST", j, sock[s].new.last_event_ns)'
      <4> SUFFICES ASSUME NEW e \in events', e.type = "TCP_RETRANS_BURST", e.key = j
                   PROVE  e.now <= sock'[s].new.last_event_ns
        BY DEF NoneAfter
      <4>1. now \in Nat
        BY <1>1 DEF Time
      <4>2. CASE burst
        <5>1. e.now <= now
          BY <1>1, <1>6, <2>1, <2>4, <4>1, <4>2
        <5> QED
          BY <1>1, <4>2, <5>1
      <4>3. CASE ~burst
        <5>1. e \in events
          BY <1>1, <4>3
        <5>2. e.now <= w.last_event_ns
          BY <1>6, <2>1, <2>4, <5>1 DEF NoneAfter
        <5> QED
          BY <1>1, <4>3, <5>2
      <4> QED
        BY <4>2, <4>3
    <3>4. NoneAt(j, {"rcvUpdate"})' =>
            /\ NoneAfter("SLOW_TCP_RTT", j, OldSample(j).last_rtt_event_ns)'
            /\ NoneAfter("TCP_CWND_DROP", j, OldSample(j).last_cwnd_event_ns)'
      BY <1>3, <2>1, <2>2, <2>3 DEF StampsInv, Stamps, NoneAfter
    <3> QED
      BY <1>1, <3>1, <3>2, <3>3, <3>4
  <2>5. CASE j # k
    <3>1. \A t \in Socks : flow[t] = j => t # s
      BY <2>5 DEF k
    <3>2. NoneAt(j, {"rtUpdate"})' => NoneAt(j, {"rtUpdate"})
      BY <1>1, <1>2, <3>1 DEF NoneAt
    <3>3. \A e \in events' : e.key = j => e \in events
      BY <2>3, <2>5
    <3> QED
      BY <1>1, <1>2, <1>3, <2>1, <2>2, <3>1, <3>2, <3>3 DEF StampsInv, Stamps, NoneAfter
  <2> QED
    BY <2>4, <2>5
<1> QED
  BY <1>7, <1>8 DEF StampsInv

(* The update of the window with the stamp. *)
LEMMA RtUpdateStamps ==
  ASSUME Typed, StampsInv, NEW s \in Socks, RtUpdate(s)
  PROVE  StampsInv'
<1> DEFINE k == flow[s]
           v == sock[s].new
<1>1. /\ k \in Keys /\ sock[s].pc = "rtUpdate" /\ v \in RetransValue
      /\ sock'[s].pc = "flowLookup"
      /\ \A t \in Socks : t # s => sock'[t] = sock[t]
      /\ lost \subseteq lost'
      /\ \A j \in Keys \ lost' :
           /\ j = k => nd_tcp_retrans_by_flow'[j] = v
           /\ j # k => nd_tcp_retrans_by_flow'[j] = nd_tcp_retrans_by_flow[j]
  BY RtUpdateEffect
<1>2. UNCHANGED <<flow, nd_tcp_flow_latest, events>>
  BY DEF RtUpdate
<1>3. v # None
  BY <1>1, TcpFlowNoneAssumption
<1>4. \A j : Undisturbed(j)' => Undisturbed(j) /\ j \notin lost'
  BY <1>1, <1>2, StaysUndisturbed
<1>5. \A j : OldSample(j)' = OldSample(j)
  BY <1>2 DEF OldSample
<1> HIDE DEF k, v
<1>6. CooldownHeld'
  BY <1>2, <1>4 DEF StampsInv, CooldownHeld
<1>7. Stamps'
  <2> SUFFICES ASSUME NEW j \in Keys, Undisturbed(j)'
               PROVE  /\ NoneAt(j, {"rcvUpdate"})' =>
                           /\ NoneAfter("SLOW_TCP_RTT", j, OldSample(j).last_rtt_event_ns)'
                           /\ NoneAfter("TCP_CWND_DROP", j, OldSample(j).last_cwnd_event_ns)'
                      /\ NoneAt(j, {"rtUpdate"})'
                           => NoneAfter("TCP_RETRANS_BURST", j, LastBurst(j))'
                      /\ \A t \in Socks : flow'[t] = j =>
                           /\ sock'[t].pc = "rcvUpdate" =>
                                /\ NoneAfter("SLOW_TCP_RTT", j, sock[t].new.last_rtt_event_ns)'
                                /\ NoneAfter("TCP_CWND_DROP", j, sock[t].new.last_cwnd_event_ns)'
                           /\ sock'[t].pc = "rtUpdate" =>
                                NoneAfter("TCP_RETRANS_BURST", j, sock[t].new.last_event_ns)'
    BY DEF Stamps
  <2>1. Undisturbed(j) /\ j \notin lost'
    BY <1>4
  <2>2. NoneAt(j, {"rcvUpdate"})' => NoneAt(j, {"rcvUpdate"})
    BY <1>1, <1>2 DEF NoneAt
  <2>3. CASE j = k
    <3>1. \A t \in Socks : flow'[t] = j => t = s
      BY <1>2, <2>1, <2>3, OnlySocket DEF k
    <3>2. LastBurst(j)' = v.last_event_ns
      BY <1>1, <1>3, <2>1, <2>3 DEF LastBurst
    <3>3. NoneAfter("TCP_RETRANS_BURST", j, v.last_event_ns)
      BY <1>1, <2>1, <2>3 DEF StampsInv, Stamps, k, v
    <3> QED
      BY <1>1, <1>2, <1>5, <2>1, <2>2, <3>1, <3>2, <3>3 DEF StampsInv, Stamps, NoneAfter
  <2>4. CASE j # k
    <3>1. \A t \in Socks : flow[t] = j => t # s
      BY <2>4 DEF k
    <3>2. LastBurst(j)' = LastBurst(j)
      BY <1>1, <2>1, <2>4 DEF LastBurst
    <3>3. NoneAt(j, {"rtUpdate"})' => NoneAt(j, {"rtUpdate"})
      BY <1>1, <1>2, <3>1 DEF NoneAt
    <3> QED
      BY <1>1, <1>2, <1>5, <2>1, <2>2, <3>1, <3>2, <3>3 DEF StampsInv, Stamps, NoneAfter
  <2> QED
    BY <2>3, <2>4
<1> QED
  BY <1>6, <1>7 DEF StampsInv

(* There is no event at the start... *)
LEMMA InitStamps == Init => StampsInv
BY DEF Init, StampsInv, Stamps, CooldownHeld, NoneAfter

(* ...and every step keeps the stamps up with them. *)
LEMMA StepStamps == Typed /\ StampsInv /\ [Next]_vars => StampsInv'
<1> SUFFICES ASSUME Typed, StampsInv, [Next]_vars PROVE StampsInv'
  OBVIOUS
<1>1. CASE Tick \/ UNCHANGED vars
  <2>1. UNCHANGED <<flow, lost, nd_tcp_flow_latest, nd_tcp_retrans_by_flow, sock, events>>
    BY <1>1 DEF Tick, vars, histVars
  <2>2. \A j : OldSample(j)' = OldSample(j) /\ LastBurst(j)' = LastBurst(j)
    BY <2>1 DEF OldSample, LastBurst
  <2> QED
    BY <2>1, <2>2, StampsFrame
<1>2. ASSUME NEW s \in Socks, NEW v \in Samples, Rcv(s, v[1], v[2]) PROVE StampsInv'
  <2>1. /\ sock[s].pc = "idle" /\ sock'[s].pc = "rcvLookup"
        /\ \A t \in Socks : t # s => sock'[t] = sock[t]
    BY <1>2, RcvEffect
  <2>2. UNCHANGED <<flow, lost, nd_tcp_flow_latest, nd_tcp_retrans_by_flow, events>>
    BY <1>2 DEF Rcv
  <2>3. \A j : OldSample(j)' = OldSample(j) /\ LastBurst(j)' = LastBurst(j)
    BY <2>2 DEF OldSample, LastBurst
  <2> QED
    BY <2>1, <2>2, <2>3, StampsFrame
<1>3. ASSUME NEW s \in Socks, Retransmit(s) PROVE StampsInv'
  <2>1. /\ sock[s].pc = "idle" /\ sock'[s].pc = "rtLookup"
        /\ \A t \in Socks : t # s => sock'[t] = sock[t]
    BY <1>3, RetransmitEffect
  <2>2. UNCHANGED <<flow, lost, nd_tcp_flow_latest, nd_tcp_retrans_by_flow, events>>
    BY <1>3 DEF Retransmit
  <2>3. \A j : OldSample(j)' = OldSample(j) /\ LastBurst(j)' = LastBurst(j)
    BY <2>2 DEF OldSample, LastBurst
  <2> QED
    BY <2>1, <2>2, <2>3, StampsFrame
<1>4. ASSUME NEW s \in Socks, FlowLookup(s) PROVE StampsInv'
  <2>1. /\ sock[s].pc = "flowLookup" /\ sock'[s].pc \in {"idle", "flowStore"}
        /\ \A t \in Socks : t # s => sock'[t] = sock[t]
    BY <1>4, FlowLookupEffect
  <2>2. UNCHANGED <<flow, lost, nd_tcp_flow_latest, nd_tcp_retrans_by_flow, events>>
    BY <1>4 DEF FlowLookup
  <2>3. \A j : OldSample(j)' = OldSample(j) /\ LastBurst(j)' = LastBurst(j)
    BY <2>2 DEF OldSample, LastBurst
  <2> QED
    BY <2>1, <2>2, <2>3, StampsFrame
<1>5. ASSUME NEW s \in Socks, FlowStore(s) PROVE StampsInv'
  <2> DEFINE k == flow[s]
  <2>1. /\ sock[s].pc = "flowStore" /\ sock'[s].pc = "idle"
        /\ \A t \in Socks : t # s => sock'[t] = sock[t]
        /\ \A j \in Keys : j # k => nd_tcp_flow_latest'[j] = nd_tcp_flow_latest[j]
        /\ \/ nd_tcp_flow_latest'[k] = nd_tcp_flow_latest[k]
           \/ /\ nd_tcp_flow_latest[k] # None /\ nd_tcp_flow_latest'[k] # None
              /\ nd_tcp_flow_latest'[k].last_rtt_event_ns
                    = nd_tcp_flow_latest[k].last_rtt_event_ns
              /\ nd_tcp_flow_latest'[k].last_cwnd_event_ns
                    = nd_tcp_flow_latest[k].last_cwnd_event_ns
    BY <1>5, FlowStoreEffect
  <2>2. UNCHANGED <<flow, lost, nd_tcp_retrans_by_flow, events>>
    BY <1>5 DEF FlowStore, histVars
  <2> HIDE DEF k
  <2>3. \A j \in Keys :
          /\ OldSample(j)'.last_rtt_event_ns = OldSample(j).last_rtt_event_ns
          /\ OldSample(j)'.last_cwnd_event_ns = OldSample(j).last_cwnd_event_ns
          /\ LastBurst(j)' = LastBurst(j)
    BY <2>1, <2>2 DEF OldSample, LastBurst
  <2> QED
    BY <2>1, <2>2, <2>3, StampsFrame
<1> QED
  BY <1>1, <1>2, <1>3, <1>4, <1>5, RcvLookupStamps, RcvUpdateStamps, RtLookupStamps,
     RtUpdateStamps DEF Next

(* What is known of the stamps holds in every state. *)
THEOREM StampsInvariance == Spec => []StampsInv
BY InitStamps, StepStamps, FlowTyped, PTL DEF Spec

(* Each kind of event of an undisturbed flow keeps the cooldown: its last  *)
(* time is carried from one value of the entry to the next.                *)
THEOREM CooldownSound == Spec => []CooldownHeld
<1>1. StampsInv => CooldownHeld
  BY DEF StampsInv
<1> QED
  BY <1>1, StampsInvariance, PTL

-----------------------------------------------------------------------------
(* The windows of retransmissions.                                         *)

WindowsInv == Windows /\ Bursts

(* The sets that are counted are finite. *)
LEMMA CountedSets ==
  ASSUME Typed
  PROVE  /\ IsFiniteSet(Looking) /\ Cardinality(Looking) \in Nat
         /\ \A k, from : /\ IsFiniteSet(LookingIn(k, from))
                         /\ Cardinality(LookingIn(k, from)) \in Nat
         /\ \A k \in Keys : \A from : /\ IsFiniteSet(Within(k, from))
                                      /\ Cardinality(Within(k, from)) \in Nat
<1>1. Looking \subseteq Socks /\ \A k, from : LookingIn(k, from) \subseteq Socks
  BY DEF Looking, LookingIn
<1>2. IsFiniteSet(Looking) /\ \A k, from : IsFiniteSet(LookingIn(k, from))
  BY <1>1, TcpFlowFiniteAssumption, FS_Subset
<1>3. ASSUME NEW k \in Keys, NEW from PROVE IsFiniteSet(Within(k, from))
  <2>1. retrans[k] \in Seq(Time)
    BY DEF Typed
  <2>2. DOMAIN retrans[k] = 1..Len(retrans[k]) /\ Len(retrans[k]) \in Nat
    BY <2>1, LenProperties
  <2>3. IsFiniteSet(1..Len(retrans[k]))
    BY <2>2, FS_Interval
  <2>4. Within(k, from) \subseteq 1..Len(retrans[k])
    BY <2>2 DEF Within, Between
  <2> QED
    BY <2>3, <2>4, FS_Subset
<1> QED
  BY <1>2, <1>3, FS_CardinalityType

(* A step that touches no retransmission and no handler that has yet to    *)
(* look; a window it writes is one of those there were.                    *)
LEMMA WindowsFrame ==
  ASSUME Typed, WindowsInv, flow' = flow, retrans' = retrans,
         nd_tcp_counters' = nd_tcp_counters,
         \A t \in Socks : \/ sock'[t] = sock[t]
                          \/ /\ sock[t].pc # "rtLookup"
                             /\ sock'[t].pc \notin {"rtLookup", "rtUpdate"},
         \A j \in Keys : \/ nd_tcp_retrans_by_flow'[j] = nd_tcp_retrans_by_flow[j]
                         \/ nd_tcp_retrans_by_flow'[j] = None
                         \/ Covered(j, nd_tcp_retrans_by_flow'[j]),
         \A e \in events' : e \in events \/ e.type # "TCP_RETRANS_BURST"
  PROVE  WindowsInv'
<1>1. Looking' = Looking
  BY DEF Looking
<1>2. \A k, from : LookingIn(k, from)' = LookingIn(k, from) /\ Within(k, from)' = Within(k, from)
  BY <1>1 DEF LookingIn, Looking, Within, Between
<1>3. \A k, w : Covered(k, w)' <=> Covered(k, w)
  BY <1>1, <1>2 DEF Covered
<1>4. \A k \in Keys : nd_tcp_retrans_by_flow'[k] # None =>
                       Covered(k, nd_tcp_retrans_by_flow'[k])
  BY DEF WindowsInv, Windows
<1>5. \A s \in Socks : sock'[s].pc = "rtUpdate" => Covered(flow[s], sock'[s].new)
  BY DEF WindowsInv, Windows
<1>6. Windows'
  BY <1>1, <1>2, <1>4, <1>5 DEF WindowsInv, Windows, Covered
<1>7. Bursts'
  BY <1>2 DEF WindowsInv, Bursts
<1> QED
  BY <1>6, <1>7 DEF WindowsInv

(* A retransmission and the handler that has yet to look for it come       *)
(* together.                                                               *)
LEMMA RetransmitCounts ==
  ASSUME Typed, NEW s \in Socks, Retransmit(s)
  PROVE  /\ Cardinality(Looking') = Cardinality(Looking) + 1
         /\ \A j \in Keys, from \in Time : \E d \in {0, 1} :
              /\ Cardinality(LookingIn(j, from)') = Cardinality(LookingIn(j, from)) + d
              /\ Cardinality(Within(j, from)') = Cardinality(Within(j, from)) + d
<1> DEFINE k == flow[s]
<1>1. /\ k \in Keys /\ sock[s].pc = "idle"
      /\ sock'[s].pc = "rtLookup" /\ sock'[s].now = clock
      /\ \A t \in Socks : t # s => sock'[t] = sock[t]
      /\ retrans'[k] = Append(retrans[k], clock)
      /\ \A j \in Keys : j # k => retrans'[j] = retrans[j]
  BY RetransmitEffect
<1> flow' = flow
  BY DEF Retransmit
<1>2. Looking' = Looking \cup {s} /\ s \notin Looking
  BY <1>1 DEF Looking
<1>3. Cardinality(Looking') = Cardinality(Looking) + 1
  BY <1>2, CountedSets, FS_AddElement
<1>4. ASSUME NEW j \in Keys, NEW from \in Time
      PROVE  \E d \in {0, 1} :
               /\ Cardinality(LookingIn(j, from)') = Cardinality(LookingIn(j, from)) + d
               /\ Cardinality(Within(j, from)') = Cardinality(Within(j, from)) + d
  <2> DEFINE n == Len(retrans[k])
             in == j = k /\ clock \in from..(from + RetransWindow)
  <2>1. /\ retrans[k] \in Seq(Time) /\ n \in Nat /\ DOMAIN retrans[k] = 1..n
    BY <1>1, LenProperties DEF Typed
  <2>2. /\ DOMAIN retrans'[k] = 1..(n + 1)
        /\ retrans'[k][n + 1] = clock
        /\ \A i \in 1..n : retrans'[k][i] = retrans[k][i]
    <3>1. clock \in Time
      BY DEF Typed
    <3>2. /\ Append(retrans[k], clock) \in Seq(Time)
          /\ Len(Append(retrans[k], clock)) = n + 1
          /\ \A i \in 1..n : Append(retrans[k], clock)[i] = retrans[k][i]
          /\ Append(retrans[k], clock)[n + 1] = clock
      BY <2>1, <3>1, AppendProperties
    <3>3. DOMAIN Append(retrans[k], clock) = 1..(n + 1)
      BY <3>2, LenProperties
    <3> QED
      BY <1>1, <3>2, <3>3
  <2>3. LookingIn(j, from)' = IF in THEN LookingIn(j, from) \cup {s} ELSE LookingIn(j, from)
    BY <1>1, <1>2 DEF LookingIn, Looking
  <2>4. s \notin LookingIn(j, from)
    BY <1>2 DEF LookingIn
  <2>5. n + 1 \notin Within(j, from) \/ j # k
    BY <2>1 DEF Within, Between
  <2>6. Within(j, from)' = IF in THEN Within(j, from) \cup {n + 1} ELSE Within(j, from)
    <3>1. CASE j # k
      BY <1>1, <3>1 DEF Within, Between
    <3>2. CASE j = k
      <4>1. 1..(n + 1) = (1..n) \cup {n + 1} /\ n + 1 \notin 1..n
        BY <2>1
      <4> HIDE DEF n
      <4>2. {i \in 1..(n + 1) : retrans'[k][i] \in from..(from + RetransWindow)}
              = IF in THEN {i \in 1..n : retrans[k][i] \in from..(from + RetransWindow)} \cup {n + 1}
                      ELSE {i \in 1..n : retrans[k][i] \in from..(from + RetransWindow)}
        BY <2>2, <3>2, <4>1
      <4> QED
        BY <2>1, <2>2, <3>2, <4>2 DEF Within, Between
    <3> QED
      BY <3>1, <3>2
  <2> HIDE DEF n, in, k
  <2>7. CASE in
    <3>1. j = k
      BY <2>7 DEF in
    <3>2. /\ Cardinality(LookingIn(j, from)') = Cardinality(LookingIn(j, from)) + 1
          /\ Cardinality(Within(j, from)') = Cardinality(Within(j, from)) + 1
      BY <2>3, <2>4, <2>5, <2>6, <2>7, <3>1, CountedSets, FS_AddElement
    <3> QED
      BY <3>2
  <2>8. CASE ~in
    BY <2>3, <2>6, <2>8, CountedSets
  <2> QED
    BY <2>7, <2>8
<1> QED
  BY <1>3, <1>4

(* A new retransmission. *)
LEMMA RetransmitWindows ==
  ASSUME Typed, WindowsInv, NEW s \in Socks, Retransmit(s)
  PROVE  WindowsInv'
<1>1. /\ sock[s].pc = "idle" /\ sock'[s].pc = "rtLookup"
      /\ \A t \in Socks : t # s => sock'[t] = sock[t]
      /\ nd_tcp_counters'.retrans_total = nd_tcp_counters.retrans_total + 1
      /\ nd_tcp_counters'.retrans_burst_total = nd_tcp_counters.retrans_burst_total
  BY RetransmitEffect
<1>2. UNCHANGED <<flow, nd_tcp_retrans_by_flow, events>>
  BY DEF Retransmit
<1>3. /\ nd_tcp_counters.retrans_total \in Nat /\ nd_tcp_counters.retrans_burst_total \in Nat
      /\ RetransBurst \in Nat
  BY TcpFlowAssumption DEF Typed
<1>4. Cardinality(Looking) \in Nat /\ Cardinality(Looking') = Cardinality(Looking) + 1
  BY CountedSets, RetransmitCounts
<1>5. ASSUME NEW j \in Keys, NEW from \in Time
      PROVE  /\ Cardinality(LookingIn(j, from)) \in Nat /\ Cardinality(Within(j, from)) \in Nat
             /\ \E d \in {0, 1} :
                 /\ Cardinality(LookingIn(j, from)') = Cardinality(LookingIn(j, from)) + d
                 /\ Cardinality(Within(j, from)') = Cardinality(Within(j, from)) + d
  BY CountedSets, RetransmitCounts
<1>6. ASSUME NEW j \in Keys, NEW w \in RetransValue, Covered(j, w) PROVE Covered(j, w)'
  <2>1. w.count \in Nat /\ w.first_seen_ns \in Time
    BY DEF RetransValue
  <2> QED
    BY <1>1, <1>3, <1>4, <1>5, <1>6, <2>1 DEF Covered
<1>7. \A k \in Keys : nd_tcp_retrans_by_flow[k] # None => Covered(k, nd_tcp_retrans_by_flow[k])'
  BY <1>2, <1>6 DEF WindowsInv, Windows, Typed
<1>8. \A t \in Socks : sock'[t].pc = "rtUpdate" => Covered(flow[t], sock[t].new)'
  <2> SUFFICES ASSUME NEW t \in Socks, sock'[t].pc = "rtUpdate"
               PROVE  Covered(flow[t], sock[t].new)'
    OBVIOUS
  <2>1. t # s /\ sock'[t] = sock[t] /\ flow'[t] = flow[t] /\ flow[t] \in Keys
    BY <1>1, <1>2 DEF Typed
  <2>2. sock[t].new \in RetransValue
    BY <2>1, HandlerFields
  <2>3. Covered(flow[t], sock[t].new)
    BY <2>1 DEF WindowsInv, Windows
  <2> QED
    BY <1>6, <2>1, <2>2, <2>3
<1>9. \A k \in Keys, from \in Time :
        Cardinality(LookingIn(k, from)') <= Cardinality(Within(k, from)')
  <2> TAKE k \in Keys, from \in Time
  <2>1. Cardinality(LookingIn(k, from)) <= Cardinality(Within(k, from))
    BY DEF WindowsInv, Windows
  <2> QED
    BY <1>5, <2>1
<1>10. Windows'
  BY <1>1, <1>2, <1>3, <1>4, <1>7, <1>8, <1>9 DEF WindowsInv, Windows
<1>11. Bursts'
  <2> SUFFICES ASSUME NEW e \in events, e.type = "TCP_RETRANS_BURST"
               PROVE  /\ e.value \in Nat /\ e.truth \in Time
                      /\ e.value >= RetransBurst
                      /\ e.now - e.truth <= RetransWindow
                      /\ Cardinality(Within(e.key, e.truth)') >= e.value
    BY <1>2 DEF Bursts
  <2>1. /\ e.value \in Nat /\ e.truth \in Time
        /\ e.value >= RetransBurst
        /\ e.now - e.truth <= RetransWindow
        /\ Cardinality(Within(e.key, e.truth)) >= e.value
        /\ e.key \in Keys
    BY DEF WindowsInv, Bursts, Typed
  <2> QED
    BY <1>5, <2>1
<1> QED
  BY <1>10, <1>11 DEF WindowsInv

(* Once a handler has looked it is no longer one that has yet to. *)
LEMMA RtLookupCounts ==
  ASSUME Typed, NEW s \in Socks, RtLookup(s)
  PROVE  /\ Cardinality(Looking') = Cardinality(Looking) - 1
         /\ \A j \in Keys, from \in Time :
              /\ Within(j, from)' = Within(j, from)
              /\ \/ Cardinality(LookingIn(j, from)') = Cardinality(LookingIn(j, from)) - 1
                 \/ /\ Cardinality(LookingIn(j, from)') = Cardinality(LookingIn(j, from))
                    /\ ~(j = flow[s] /\ sock[s].now \in from..(from + RetransWindow))
<1>1. /\ sock[s].pc = "rtLookup" /\ sock'[s].pc = "rtUpdate"
      /\ \A t \in Socks : t # s => sock'[t] = sock[t]
  BY RtLookupEffect
<1>2. flow' = flow /\ retrans' = retrans
  BY DEF RtLookup
<1>3. Looking' = Looking \ {s} /\ s \in Looking
  BY <1>1 DEF Looking
<1>4. Cardinality(Looking') = Cardinality(Looking) - 1
  BY <1>3, CountedSets, FS_RemoveElement
<1>5. ASSUME NEW j \in Keys, NEW from \in Time
      PROVE  \/ Cardinality(LookingIn(j, from)') = Cardinality(LookingIn(j, from)) - 1
             \/ /\ Cardinality(LookingIn(j, from)') = Cardinality(LookingIn(j, from))
                /\ ~(j = flow[s] /\ sock[s].now \in from..(from + RetransWindow))
  <2>1. LookingIn(j, from)' = LookingIn(j, from) \ {s}
    BY <1>1, <1>2, <1>3 DEF LookingIn, Looking
  <2>2. s \in LookingIn(j, from) <=> (j = flow[s] /\ sock[s].now \in from..(from + RetransWindow))
    BY <1>3 DEF LookingIn
  <2>3. IsFiniteSet(LookingIn(j, from))
    BY CountedSets
  <2>4. CASE s \in LookingIn(j, from)
    BY <2>1, <2>3, <2>4, FS_RemoveElement
  <2>5. CASE s \notin LookingIn(j, from)
    <3>1. LookingIn(j, from)' = LookingIn(j, from)
      BY <2>1, <2>5
    <3> QED
      BY <2>2, <2>5, <3>1
  <2> QED
    BY <2>4, <2>5
<1>6. \A j \in Keys, from \in Time : Within(j, from)' = Within(j, from)
  BY <1>2 DEF Within, Between
<1> QED
  BY <1>4, <1>5, <1>6

(* The lookup of a window: a retransmission that had not been counted. *)
LEMMA RtLookupWindows ==
  ASSUME Typed, WindowsInv, NEW s \in Socks, RtLookup(s)
  PROVE  WindowsInv'
<1>a. /\ flow[s] \in Keys /\ sock[s].now \in Time
      /\ Window(sock[s].now, nd_tcp_retrans_by_flow[flow[s]]) \in RetransValue
  BY RtLookupEffect
<1>b. PICK k \in Keys, now \in Time : k = flow[s] /\ now = sock[s].now
  BY <1>a
<1>c. PICK w \in RetransValue : w = Window(now, nd_tcp_retrans_by_flow[k])
  BY <1>a, <1>b
<1> DEFINE old == nd_tcp_retrans_by_flow[k]
           burst == IsBurst(now, w)
           total == nd_tcp_counters.retrans_total
           bursts == nd_tcp_counters.retrans_burst_total
<1>1. /\ k \in Keys /\ now \in Time /\ sock[s].pc = "rtLookup" /\ w \in RetransValue
      /\ sock'[s].pc = "rtUpdate"
      /\ sock'[s].new.first_seen_ns = w.first_seen_ns
      /\ sock'[s].new.count = w.count
      /\ \A t \in Socks : t # s => sock'[t] = sock[t]
      /\ nd_tcp_counters'.retrans_total = total
      /\ nd_tcp_counters'.retrans_burst_total = bursts + IF burst THEN 1 ELSE 0
      /\ \A e \in events' :
           \/ e \in events
           \/ /\ e.type = "TCP_RETRANS_BURST" /\ e.key = k /\ e.now = now
              /\ burst /\ e.value = w.count /\ e.truth = w.first_seen_ns
  BY <1>b, <1>c, RtLookupEffect
<1>2. UNCHANGED <<flow, nd_tcp_retrans_by_flow>>
  BY DEF RtLookup
<1>3. total \in Nat /\ bursts \in Nat /\ RetransBurst \in Nat \ {0} /\ RetransWindow \in Nat
  BY TcpFlowAssumption DEF Typed
<1>4. Cardinality(Looking) \in Nat /\ Cardinality(Looking') = Cardinality(Looking) - 1
  BY CountedSets, RtLookupCounts
<1>5. ASSUME NEW j \in Keys, NEW from \in Time
      PROVE  /\ Cardinality(LookingIn(j, from)) \in Nat /\ Cardinality(Within(j, from)) \in Nat
             /\ Cardinality(Within(j, from)') = Cardinality(Within(j, from))
             /\ \/ Cardinality(LookingIn(j, from)') = Cardinality(LookingIn(j, from)) - 1
                \/ /\ Cardinality(LookingIn(j, from)') = Cardinality(LookingIn(j, from))
                   /\ ~(j = k /\ now \in from..(from + RetransWindow))
  BY <1>b, CountedSets, RtLookupCounts
<1>6. ASSUME NEW j \in Keys, NEW x \in RetransValue, Covered(j, x) PROVE Covered(j, x)'
  <2>1. x.count \in Nat /\ x.first_seen_ns \in Time
    BY DEF RetransValue
  <2> QED
    BY <1>1, <1>3, <1>4, <1>5, <1>6, <2>1 DEF Covered
<1>7. /\ w.count \in Nat /\ w.count > 0 /\ w.first_seen_ns \in Time
      /\ now \in w.first_seen_ns..(w.first_seen_ns + RetransWindow)
      /\ \/ w.count = 1
         \/ /\ old # None /\ old \in RetransValue
            /\ w.first_seen_ns = old.first_seen_ns /\ w.count = old.count + 1
  <2>1. old \in RetransValue \cup {None}
    BY <1>1 DEF Typed
  <2>2. \/ /\ old # None /\ old \in RetransValue
           /\ now > old.first_seen_ns /\ now - old.first_seen_ns <= RetransWindow
           /\ w.first_seen_ns = old.first_seen_ns /\ w.count = old.count + 1
        \/ w.first_seen_ns = now /\ w.count = 1
    BY <1>1, <1>c, <2>1, WindowCases
  <2>3. w.count \in Nat /\ w.first_seen_ns \in Time
    BY <1>1 DEF RetransValue
  <2>4. old \in RetransValue => old.count \in Nat
    BY DEF RetransValue
  <2>5. now \in Nat /\ w.first_seen_ns \in Nat
    BY <1>1, <2>3 DEF Time
  <2> HIDE DEF old
  <2> QED
    BY <1>3, <2>2, <2>3, <2>4, <2>5
<1>d. PICK f \in Time : f = w.first_seen_ns
  BY <1>7
<1>e. /\ Cardinality(LookingIn(k, f)) \in Nat /\ Cardinality(Within(k, f)) \in Nat
      /\ Cardinality(Within(k, f)') = Cardinality(Within(k, f))
      /\ Cardinality(LookingIn(k, f)') = Cardinality(LookingIn(k, f)) - 1
      /\ Cardinality(LookingIn(k, f)') \in Nat
  <2>1. now \in f..(f + RetransWindow)
    BY <1>7, <1>d
  <2>2. s \in LookingIn(k, f) /\ IsFiniteSet(LookingIn(k, f))
    <3>1. s \in LookingIn(k, f)
      BY <1>1, <1>b, <2>1 DEF LookingIn, Looking
    <3> QED
      BY <3>1, CountedSets
  <2>3. LookingIn(k, f) # {}
    BY <2>2
  <2>4. Cardinality(LookingIn(k, f)) # 0
    BY <2>2, <2>3, FS_EmptySet
  <2>5. /\ Cardinality(LookingIn(k, f)) \in Nat /\ Cardinality(Within(k, f)) \in Nat
        /\ Cardinality(Within(k, f)') = Cardinality(Within(k, f))
        /\ Cardinality(LookingIn(k, f)') = Cardinality(LookingIn(k, f)) - 1
    BY <1>5, <2>1
  <2> QED
    BY <2>4, <2>5
<1>8. /\ Cardinality(LookingIn(k, w.first_seen_ns)) + (w.count - 1)
           <= Cardinality(Within(k, w.first_seen_ns))
      /\ Cardinality(Looking) + (w.count - 1) <= total
  <2>1. CASE w.count = 1
    <3>1. /\ Cardinality(LookingIn(k, w.first_seen_ns)) <= Cardinality(Within(k, w.first_seen_ns))
          /\ Cardinality(Looking) <= total
      BY <1>1, <1>7 DEF WindowsInv, Windows
    <3> QED
      BY <1>3, <1>4, <1>d, <1>e, <2>1, <3>1
  <2>2. CASE /\ old # None /\ old \in RetransValue
             /\ w.first_seen_ns = old.first_seen_ns /\ w.count = old.count + 1
    <3>1. Covered(k, old)
      BY <1>1, <2>2 DEF WindowsInv, Windows
    <3>2. old.count \in Nat /\ w.count - 1 = old.count
      BY <2>2 DEF RetransValue
    <3> QED
      <4>1. /\ old.count + Cardinality(LookingIn(k, f)) <= Cardinality(Within(k, f))
            /\ old.count + Cardinality(Looking) <= total
        BY <1>d, <2>2, <3>1 DEF Covered
      <4> QED
        BY <1>3, <1>4, <1>d, <1>e, <3>2, <4>1
  <2> QED
    BY <1>7, <2>1, <2>2
<1> HIDE DEF old, burst, total, bursts
<1>9. /\ w.count + Cardinality(LookingIn(k, f)') <= Cardinality(Within(k, f)')
      /\ w.count + Cardinality(Looking') <= total
  BY <1>3, <1>4, <1>7, <1>8, <1>d, <1>e
<1>10. \A j \in Keys : nd_tcp_retrans_by_flow[j] # None => Covered(j, nd_tcp_retrans_by_flow[j])'
  BY <1>2, <1>6 DEF WindowsInv, Windows, Typed
<1>11. \A t \in Socks : sock'[t].pc = "rtUpdate" => Covered(flow[t], sock[t].new)'
  <2> SUFFICES ASSUME NEW t \in Socks, sock'[t].pc = "rtUpdate"
               PROVE  Covered(flow[t], sock[t].new)'
    OBVIOUS
  <2>1. CASE t = s
    <3>1. flow'[t] = k
      BY <1>2, <1>b, <2>1
    <3> QED
      BY <1>1, <1>9, <1>d, <2>1, <3>1 DEF Covered, total
  <2>2. CASE t # s
    <3>1. sock'[t] = sock[t] /\ flow'[t] = flow[t] /\ flow[t] \in Keys
      BY <1>1, <1>2, <2>2 DEF Typed
    <3>2. sock[t].new \in RetransValue
      BY <3>1, HandlerFields
    <3>3. Covered(flow[t], sock[t].new)
      BY <3>1 DEF WindowsInv, Windows
    <3> QED
      BY <1>6, <3>1, <3>2, <3>3
  <2> QED
    BY <2>1, <2>2
<1>12. \A j \in Keys, from \in Time :
         Cardinality(LookingIn(j, from)') <= Cardinality(Within(j, from)')
  <2> TAKE j \in Keys, from \in Time
  <2>1. Cardinality(LookingIn(j, from)) <= Cardinality(Within(j, from))
    BY DEF WindowsInv, Windows
  <2> QED
    BY <1>5, <2>1
<1>13. burst => w.count >= RetransBurst
  BY DEF burst, IsBurst
<1>14. bursts + (IF burst THEN 1 ELSE 0) > 0 =>
         bursts + (IF burst THEN 1 ELSE 0) + RetransBurst - 1 + Cardinality(Looking') <= total
  <2>1. bursts > 0 => bursts + RetransBurst - 1 + Cardinality(Looking) <= total
    BY DEF WindowsInv, Windows, bursts, total
  <2> QED
    BY <1>3, <1>4, <1>7, <1>9, <1>13, <2>1
<1>15. Cardinality(Looking') <= total
  BY <1>3, <1>4, <1>7, <1>9
<1>16. Windows'
  BY <1>1, <1>2, <1>10, <1>11, <1>12, <1>14, <1>15 DEF Windows, bursts, total
<1>17. Bursts'
  <2> SUFFICES ASSUME NEW e \in events', e.type = "TCP_RETRANS_BURST"
               PROVE  /\ e.value \in Nat /\ e.truth \in Time
                      /\ e.value >= RetransBurst
                      /\ e.now - e.truth <= RetransWindow
                      /\ Cardinality(Within(e.key, e.truth)') >= e.value
    BY DEF Bursts
  <2>1. CASE e \in events
    <3>1. /\ e.value \in Nat /\ e.truth \in Time
          /\ e.value >= RetransBurst
          /\ e.now - e.truth <= RetransWindow
          /\ Cardinality(Within(e.key, e.truth)) >= e.value
          /\ e.key \in Keys
      BY <2>1 DEF WindowsInv, Bursts, Typed
    <3> QED
      BY <1>5, <3>1
  <2>2. CASE e \notin events
    <3>1. /\ e.key = k /\ e.now = now /\ burst /\ e.value = w.count
          /\ e.truth = w.first_seen_ns
      BY <1>1, <2>2
    <3>3. Cardinality(Within(k, f)') >= w.count
      BY <1>7, <1>9, <1>e
    <3>4. now - w.first_seen_ns <= RetransWindow
      BY <1>3, <1>7 DEF Time
    <3> QED
      BY <1>7, <1>13, <1>d, <3>1, <3>3, <3>4
  <2> QED
    BY <2>1, <2>2
<1> QED
  BY <1>16, <1>17 DEF WindowsInv

(* The update of a window: with one that counts no retransmission twice.   *)
LEMMA RtUpdateWindows ==
  ASSUME Typed, WindowsInv, NEW s \in Socks, RtUpdate(s)
  PROVE  WindowsInv'
<1> DEFINE k == flow[s]
           v == sock[s].new
<1>1. /\ k \in Keys /\ sock[s].pc = "rtUpdate" /\ sock'[s].pc = "flowLookup"
      /\ \A t \in Socks : t # s => sock'[t] = sock[t]
      /\ \A j \in Keys : \/ nd_tcp_retrans_by_flow'[j] = nd_tcp_retrans_by_flow[j]
                         \/ nd_tcp_retrans_by_flow'[j] = None
                         \/ (j = k /\ nd_tcp_retrans_by_flow'[j] = v)
  BY RtUpdateEffect
<1>2. Covered(k, v)
  BY <1>1 DEF WindowsInv, Windows
<1>3. UNCHANGED <<flow, retrans, nd_tcp_counters, events>>
  BY DEF RtUpdate
<1>4. \A t \in Socks : \/ sock'[t] = sock[t]
                       \/ /\ sock[t].pc # "rtLookup"
                          /\ sock'[t].pc \notin {"rtLookup", "rtUpdate"}
  BY <1>1
<1>5. \A j \in Keys : \/ nd_tcp_retrans_by_flow'[j] = nd_tcp_retrans_by_flow[j]
                      \/ nd_tcp_retrans_by_flow'[j] = None
                      \/ Covered(j, nd_tcp_retrans_by_flow'[j])
  BY <1>1, <1>2
<1> QED
  BY <1>3, <1>4, <1>5, WindowsFrame

(* Nothing was retransmitted yet. *)
LEMMA InitWindows ==
  ASSUME Init
  PROVE  WindowsInv
<1>1. Looking = {} /\ \A k, from : LookingIn(k, from) = {}
  BY DEF Init, Idle, Looking, LookingIn
<1>2. Cardinality({}) = 0
  BY FS_EmptySet
<1>3. Typed
  BY InitTyped
<1>4. \A k \in Keys, from \in Time :
        Cardinality(LookingIn(k, from)) <= Cardinality(Within(k, from))
  <2> TAKE k \in Keys, from \in Time
  <2>1. Cardinality(Within(k, from)) \in Nat
    BY <1>3, CountedSets
  <2> QED
    BY <1>1, <1>2, <2>1
<1>5. \A k \in Keys : nd_tcp_retrans_by_flow[k] = None
  BY DEF Init, EmptyMap
<1>6. \A s \in Socks : sock[s].pc # "rtUpdate"
  BY DEF Init, Idle
<1>7. Windows
  BY <1>1, <1>2, <1>4, <1>5, <1>6 DEF Init, Windows
<1> QED
  BY <1>7 DEF Init, WindowsInv, Bursts

(* Every step, one action at a time. *)
LEMMA StepWindows ==
  ASSUME Typed, WindowsInv, [Next]_vars
  PROVE  WindowsInv'
<1>1. CASE Tick
  BY <1>1, WindowsFrame DEF Tick, histVars
<1>2. ASSUME NEW s \in Socks, NEW v \in Samples, Rcv(s, v[1], v[2]) PROVE WindowsInv'
  BY <1>2, RcvEffect, WindowsFrame DEF Rcv
<1>3. ASSUME NEW s \in Socks, RcvLookup(s) PROVE WindowsInv'
  <2>1. /\ sock[s].pc = "rcvLookup" /\ sock'[s].pc = "rcvUpdate"
        /\ \A t \in Socks : t # s => sock'[t] = sock[t]
        /\ \A e \in events' : e \in events \/ e.type # "TCP_RETRANS_BURST"
    BY <1>3, RcvLookupEffect
  <2> QED
    BY <1>3, <2>1, WindowsFrame DEF RcvLookup
<1>4. ASSUME NEW s \in Socks, RcvUpdate(s) PROVE WindowsInv'
  <2>1. /\ sock[s].pc = "rcvUpdate" /\ sock'[s].pc = "idle"
        /\ \A t \in Socks : t # s => sock'[t] = sock[t]
    BY <1>4, RcvUpdateEffect
  <2> QED
    BY <1>4, <2>1, WindowsFrame DEF RcvUpdate
<1>5. ASSUME NEW s \in Socks, Retransmit(s) PROVE WindowsInv'
  BY <1>5, RetransmitWindows
<1>6. ASSUME NEW s \in Socks, RtLookup(s) PROVE WindowsInv'
  BY <1>6, RtLookupWindows
<1>7. ASSUME NEW s \in Socks, RtUpdate(s) PROVE WindowsInv'
  BY <1>7, RtUpdateWindows
<1>8. ASSUME NEW s \in Socks, FlowLookup(s) PROVE WindowsInv'
  <2>1. /\ sock[s].pc = "flowLookup" /\ sock'[s].pc \in {"idle", "flowStore"}
        /\ \A t \in Socks : t # s => sock'[t] = sock[t]
    BY <1>8, FlowLookupEffect
  <2> QED
    BY <1>8, <2>1, WindowsFrame DEF FlowLookup
<1>9. ASSUME NEW s \in Socks, FlowStore(s) PROVE WindowsInv'
  <2>1. /\ sock[s].pc = "flowStore" /\ sock'[s].pc = "idle"
        /\ \A t \in Socks : t # s => sock'[t] = sock[t]
    BY <1>9, FlowStoreEffect
  <2> QED
    BY <1>9, <2>1, WindowsFrame DEF FlowStore, histVars
<1>10. CASE UNCHANGED vars
  BY <1>10, WindowsFrame DEF vars, histVars
<1> QED
  BY <1>1, <1>2, <1>3, <1>4, <1>5, <1>6, <1>7, <1>8, <1>9, <1>10 DEF Next

(* No window counts a retransmission twice, whatever the handlers of the   *)
(* sockets that share its key have read and overwritten.                   *)
THEOREM WindowsInvariance == Spec => []WindowsInv
<1>1. Init => WindowsInv
  BY InitWindows
<1>2. Typed /\ WindowsInv /\ [Next]_vars => WindowsInv'
  BY StepWindows
<1> QED
  BY <1>1, <1>2, FlowTyped, PTL DEF Spec

(* A reported burst is one (nd_tcp_retransmit_skb): the flow did           *)
(* retransmit so often within one window, whoever shares its key.          *)
THEOREM BurstSound == Spec => []BurstIsReal
<1>1. Typed /\ WindowsInv => BurstIsReal
  <2> SUFFICES ASSUME Typed, WindowsInv PROVE BurstIsReal
    OBVIOUS
  <2>1. /\ Cardinality(Looking) \in Nat /\ RetransBurst \in Nat
        /\ nd_tcp_counters.retrans_burst_total \in Nat /\ nd_tcp_counters.retrans_total \in Nat
    BY CountedSets, TcpFlowAssumption DEF Typed
  <2>2. nd_tcp_counters.retrans_burst_total > 0 =>
          nd_tcp_counters.retrans_burst_total + RetransBurst - 1 <= nd_tcp_counters.retrans_total
    BY <2>1 DEF WindowsInv, Windows
  <2> QED
    BY <2>2 DEF BurstIsReal, WindowsInv, Bursts, Within
<1> QED
  BY <1>1, FlowTyped, WindowsInvariance, PTL

-----------------------------------------------------------------------------
(* How thinly the retransmissions of an unreported flow are spread.        *)

(* Counting times. *)
LEMMA HitsType ==
  ASSUME NEW S \in SUBSET Time, NEW a \in Int, NEW b \in Int
  PROVE  IsFiniteSet(S \cap (a..b)) /\ Hits(S, a, b) \in Nat
<1>1. IsFiniteSet(Time)
  BY FS_Interval, TcpFlowAssumption DEF Time
<1>2. IsFiniteSet(S)
  BY <1>1, FS_Subset
<1>3. IsFiniteSet(S \cap (a..b))
  BY <1>2, FS_Subset
<1> QED
  BY <1>3, FS_CardinalityType DEF Hits

(* Where there is none. *)
LEMMA HitsNone ==
  ASSUME NEW S, NEW a, NEW b, S \cap (a..b) = {}
  PROVE  Hits(S, a, b) = 0
BY FS_EmptySet DEF Hits

(* One time more. *)
LEMMA HitsAdd ==
  ASSUME NEW S \in SUBSET Time, NEW now \in Time, NEW a \in Int, NEW b \in Int
  PROVE  /\ Hits(S \cup {now}, a, b) \in Nat
         /\ Hits(S \cup {now}, a, b) <= Hits(S, a, b) + 1
         /\ now < a \/ now > b => Hits(S \cup {now}, a, b) = Hits(S, a, b)
<1> DEFINE T == S \cap (a..b)
           U == (S \cup {now}) \cap (a..b)
<1>1. IsFiniteSet(T) /\ Cardinality(T) \in Nat /\ Cardinality(U) \in Nat
  <2>1. S \cup {now} \in SUBSET Time
    OBVIOUS
  <2> QED
    BY <2>1, HitsType DEF Hits
<1>2. U = T \/ (U = T \cup {now} /\ now \notin T)
  OBVIOUS
<1>3. now < a \/ now > b => U = T
  BY TcpFlowAssumption DEF Time
<1> HIDE DEF T, U
<1>4. now \notin T => Cardinality(T \cup {now}) = Cardinality(T) + 1
  BY <1>1, FS_AddElement
<1>5. /\ Cardinality(U) <= Cardinality(T) + 1
      /\ now < a \/ now > b => Cardinality(U) = Cardinality(T)
  BY <1>1, <1>2, <1>3, <1>4
<1> QED
  BY <1>1, <1>5 DEF Hits, T, U

(* An interval cut in two. *)
LEMMA HitsCut ==
  ASSUME NEW S \in SUBSET Time, NEW a \in Int, NEW b \in Int, NEW c \in Int
  PROVE  Hits(S, a, c) <= Hits(S, a, b - 1) + Hits(S, b, MaxClock)
<1> DEFINE R == S \cap (a..c)
           T == S \cap (a..(b - 1))
           U == S \cap (b..MaxClock)
<1>1. MaxClock \in Int /\ b - 1 \in Int
  BY TcpFlowAssumption
<1>2. /\ IsFiniteSet(T) /\ IsFiniteSet(U)
      /\ Cardinality(R) \in Nat /\ Cardinality(T) \in Nat /\ Cardinality(U) \in Nat
  BY <1>1, HitsType DEF Hits
<1>3. R \subseteq T \cup U
  BY <1>1 DEF Time
<1> HIDE DEF R, T, U
<1>4. IsFiniteSet(T \cap U) /\ Cardinality(T \cap U) \in Nat
  BY <1>2, FS_Subset, FS_CardinalityType
<1>5. /\ IsFiniteSet(T \cup U)
      /\ Cardinality(T \cup U) = Cardinality(T) + Cardinality(U) - Cardinality(T \cap U)
  BY <1>2, FS_Union
<1>6. Cardinality(R) <= Cardinality(T \cup U)
  BY <1>3, <1>5, FS_Subset
<1>7. Cardinality(R) <= Cardinality(T) + Cardinality(U)
  BY <1>2, <1>4, <1>5, <1>6
<1> QED
  BY <1>7 DEF Hits, R, T, U

(* A window begins: the times close to it are few. *)
LEMMA ThinNew ==
  ASSUME NEW S \in SUBSET Time, NEW now \in Time, \A t \in S : t <= now,
         NEW w \in RetransValue, w.first_seen_ns = now, w.count = 1,
         now > EventCooldown => RetransBurst > 1,
         ThinlySpread(S),
         \A a \in Warm : a + RetransWindow >= now => Hits(S, a, now - 1) <= Few
  PROVE  Thin(S \cup {now}, w) /\ ThinlySpread(S \cup {now})
<1> DEFINE U == S \cup {now}
<1>1. /\ now \in Int /\ MaxClock \in Int /\ EventCooldown \in Int /\ RetransWindow \in Nat
      /\ RetransBurst \in Nat \ {0}
      /\ U \in SUBSET Time /\ now \in U /\ \A t \in U : t <= now
  BY TcpFlowAssumption DEF Time
<1>2. Few \in Nat /\ Many \in Nat /\ (RetransBurst > 1 => Many >= Few + 1)
  BY <1>1 DEF Few, Many
<1>3. ASSUME NEW a \in Time, a >= now
      PROVE  Hits(U, a, MaxClock) + (IF a > now THEN 1 ELSE 0) <= 1
  <2>1. a \in Int /\ a \in Nat
    BY TcpFlowAssumption DEF Time
  <2>2. CASE a > now
    <3>1. U \cap (a..MaxClock) = {}
      BY <1>1, <2>1, <2>2 DEF Time
    <3>2. Hits(U, a, MaxClock) = 0
      BY <3>1, HitsNone
    <3> QED
      BY <3>2
  <2>3. CASE a = now
    <3>1. U \cap (a..MaxClock) \in SUBSET {now}
      BY <1>1, <1>3, <2>1 DEF Time
    <3>2. Cardinality({now}) = 1 /\ IsFiniteSet({now})
      BY FS_Singleton
    <3>3. Cardinality(U \cap (a..MaxClock)) <= Cardinality({now})
      BY <3>1, <3>2, FS_Subset
    <3> HIDE DEF U
    <3>4. Hits(U, a, MaxClock) <= 1 /\ ~(a > now)
      BY <1>1, <2>3, <3>2, <3>3 DEF Hits
    <3>5. Hits(U, a, MaxClock) \in Nat
      BY <1>1, <2>1, HitsType
    <3> QED
      BY <3>4, <3>5
  <2> QED
    BY <1>1, <1>3, <2>1, <2>2, <2>3
<1>4. ASSUME NEW t \in U, t > EventCooldown PROVE 1 < RetransBurst
  BY <1>1, <1>4 DEF Time
<1>5. ASSUME NEW a \in Warm, a + RetransWindow >= now PROVE Hits(U, a, now - 1) <= Few
  <2>1. a \in Int /\ now - 1 \in Int /\ now > now - 1
    BY <1>1 DEF Warm
  <2>2. Hits(U, a, now - 1) = Hits(S, a, now - 1)
    BY <2>1, HitsAdd, ZenonT(30)
  <2> QED
    BY <1>5, <2>2
<1>6. ASSUME NEW a \in Warm PROVE Hits(U, a, a + RetransWindow) <= Many
  <2>1. a \in Int /\ a + RetransWindow \in Int /\ a > EventCooldown
    BY <1>1 DEF Warm
  <2>2. CASE now < a \/ now > a + RetransWindow
    <3>1. Hits(U, a, a + RetransWindow) = Hits(S, a, a + RetransWindow)
      BY <2>1, <2>2, HitsAdd, ZenonT(30)
    <3> QED
      BY <3>1 DEF ThinlySpread
  <2>3. CASE ~(now < a \/ now > a + RetransWindow)
    <3>1. now > EventCooldown /\ a + RetransWindow >= now /\ now \in Time
      BY <1>1, <2>1, <2>3
    <3>2. Hits(U, a, now - 1) <= Few
      BY <1>5, <3>1
    <3>3. Hits(U, now, MaxClock) <= 1
      <4>1. Hits(U, now, MaxClock) + 0 <= 1
        BY <1>1, <1>3, <3>1
      <4>2. Hits(U, now, MaxClock) \in Nat
        BY <1>1, HitsType
      <4> QED
        BY <4>1, <4>2
    <3>4. Hits(U, a, a + RetransWindow) <= Hits(U, a, now - 1) + Hits(U, now, MaxClock)
      BY <1>1, <2>1, HitsCut
    <3>5. /\ Hits(U, a, a + RetransWindow) \in Nat
          /\ Hits(U, a, now - 1) \in Nat /\ Hits(U, now, MaxClock) \in Nat
      <4>1. now - 1 \in Int
        BY <1>1
      <4> HIDE DEF U
      <4> QED
        BY <1>1, <2>1, <4>1, HitsType
    <3> HIDE DEF U
    <3> QED
      BY <1>2, <3>1, <3>2, <3>3, <3>4, <3>5
  <2> QED
    BY <2>2, <2>3
<1> HIDE DEF U
<1>7. Thin(U, w)
  BY <1>1, <1>3, <1>4, <1>5 DEF Thin
<1>8. ThinlySpread(U)
  BY <1>6 DEF ThinlySpread
<1> QED
  BY <1>7, <1>8 DEF U

(* A window goes on. *)
LEMMA ThinGoesOn ==
  ASSUME NEW S \in SUBSET Time, NEW now \in Time, \A t \in S : t <= now,
         NEW old \in RetransValue, Thin(S, old), InWindow(now, old),
         NEW w \in RetransValue, w.first_seen_ns = old.first_seen_ns, w.count = old.count + 1,
         now > EventCooldown => w.count < RetransBurst,
         ThinlySpread(S)
  PROVE  Thin(S \cup {now}, w) /\ ThinlySpread(S \cup {now})
<1> DEFINE U == S \cup {now}
           first == old.first_seen_ns
<1>1. /\ now \in Int /\ MaxClock \in Int /\ EventCooldown \in Int /\ RetransWindow \in Nat
      /\ RetransBurst \in Nat \ {0}
      /\ U \in SUBSET Time /\ \A t \in U : t <= now
  BY TcpFlowAssumption DEF Time
<1>2. first \in Time /\ first \in Int /\ old.count \in Nat /\ w.count \in Nat
  BY DEF RetransValue, Time
<1>3. first < now /\ now <= first + RetransWindow
  BY <1>1, <1>2 DEF InWindow
<1>4. ASSUME NEW a \in Time, a >= first
      PROVE  Hits(U, a, MaxClock) + (IF a > first THEN 1 ELSE 0) <= w.count
  <2>1. a \in Int
    BY DEF Time
  <2>2. /\ Hits(U, a, MaxClock) <= Hits(S, a, MaxClock) + 1
        /\ Hits(U, a, MaxClock) \in Nat /\ Hits(S, a, MaxClock) \in Nat
    BY <1>1, <2>1, HitsAdd, HitsType
  <2>3. Hits(S, a, MaxClock) + (IF a > first THEN 1 ELSE 0) <= old.count
    BY <1>4 DEF Thin
  <2> HIDE DEF U, first
  <2> QED
    BY <1>2, <2>2, <2>3
<1>5. ASSUME NEW t \in U, t > EventCooldown PROVE w.count < RetransBurst
  BY <1>1, <1>5 DEF Time
<1>6. ASSUME NEW a \in Warm, a + RetransWindow >= first PROVE Hits(U, a, first - 1) <= Few
  <2>1. a \in Int /\ first - 1 \in Int /\ now > first - 1
    BY <1>1, <1>2, <1>3 DEF Warm
  <2>2. Hits(U, a, first - 1) = Hits(S, a, first - 1)
    BY <2>1, HitsAdd
  <2> QED
    BY <1>6, <2>2 DEF Thin
<1>7. old.count > 0 /\ first \in S
  BY DEF Thin
<1>8. ASSUME NEW a \in Warm PROVE Hits(U, a, a + RetransWindow) <= Many
  <2>1. a \in Int /\ a + RetransWindow \in Int /\ a > EventCooldown /\ a \in Time
    BY <1>1, TcpFlowAssumption DEF Warm, Time
  <2>2. CASE now < a \/ now > a + RetransWindow
    <3>1. Hits(U, a, a + RetransWindow) = Hits(S, a, a + RetransWindow)
      BY <2>1, <2>2, HitsAdd, ZenonT(30)
    <3> QED
      BY <3>1 DEF ThinlySpread
  <2>3. CASE ~(now < a \/ now > a + RetransWindow)
    <3>1. now > EventCooldown /\ a + RetransWindow >= now /\ a + RetransWindow >= first
      BY <1>1, <1>2, <1>3, <2>1, <2>3
    <3>2. w.count <= RetransBurst - 1 /\ RetransBurst > 1 /\ w.count > 1
      BY <1>1, <1>2, <1>7, <3>1
    <3>3. first - 1 \in Int /\ a - 1 \in Int
      BY <1>2, <2>1
    <3> HIDE DEF U, first
    <3>4. /\ Hits(U, a, a + RetransWindow) \in Nat /\ Hits(U, a, MaxClock) \in Nat
          /\ Hits(U, a, first - 1) \in Nat /\ Hits(U, first, MaxClock) \in Nat
      BY <1>1, <1>2, <2>1, <3>3, HitsType
    <3>5. CASE a >= first
      <4>1. Hits(U, a, MaxClock) <= w.count
        <5>1. Hits(U, a, MaxClock) + (IF a > first THEN 1 ELSE 0) <= w.count
          BY <1>4, <2>1, <3>5
        <5> QED
          BY <1>2, <3>4, <5>1
      <4>2. Hits(U, a, a + RetransWindow) <= Hits(U, a, a - 1) + Hits(U, a, MaxClock)
        BY <1>1, <2>1, HitsCut
      <4>3. Hits(U, a, a - 1) = 0
        <5>1. a..(a - 1) = {}
          BY <2>1
        <5>2. U \cap (a..(a - 1)) = {}
          BY <5>1
        <5> QED
          BY <5>2, HitsNone
      <4> QED
        BY <1>1, <1>2, <3>2, <3>4, <4>1, <4>2, <4>3 DEF Many
    <3>6. CASE a < first
      <4>1. Hits(U, first, MaxClock) <= w.count
        <5>1. Hits(U, first, MaxClock) + (IF first > first THEN 1 ELSE 0) <= w.count
          <6>1. first \in Time /\ first >= first
            BY <1>2
          <6> QED
            BY <1>4, <6>1
        <5> QED
          BY <1>2, <3>4, <5>1
      <4>2. Hits(U, a, a + RetransWindow) <= Hits(U, a, first - 1) + Hits(U, first, MaxClock)
        BY <1>1, <1>2, <2>1, HitsCut
      <4>3. Hits(U, a, first - 1) <= Few
        BY <1>6, <3>1
      <4> QED
        BY <1>1, <1>2, <3>2, <3>4, <4>1, <4>2, <4>3 DEF Few, Many
    <3> QED
      BY <1>2, <2>1, <3>5, <3>6
  <2> QED
    BY <2>2, <2>3
<1>9. w.count > 0 /\ first \in U
  BY <1>2, <1>7
<1> HIDE DEF U
<1>10. Thin(U, w)
  BY <1>4, <1>5, <1>6, <1>9 DEF Thin
<1>11. ThinlySpread(U)
  BY <1>8 DEF ThinlySpread
<1> QED
  BY <1>10, <1>11 DEF U

(* Whatever the handler finds, if it reports nothing. *)
LEMMA ThinStep ==
  ASSUME NEW S \in SUBSET Time, NEW now \in Time, \A t \in S : t <= now,
         NEW old \in RetransValue \cup {None},
         IF old = None THEN S = {} ELSE Thin(S, old) /\ old.last_event_ns = 0,
         NEW w \in RetransValue, w = Window(now, old), ~IsBurst(now, w),
         ThinlySpread(S)
  PROVE  /\ Thin(S \cup {now}, w) /\ ThinlySpread(S \cup {now})
         /\ w.last_event_ns = 0
<1>1. /\ now \in Nat /\ EventCooldown \in Nat /\ RetransWindow \in Nat
      /\ RetransBurst \in Nat \ {0} /\ w.count \in Nat /\ 0 \in Time
  BY TcpFlowAssumption DEF Time, RetransValue
<1>2. \/ /\ old # None /\ old \in RetransValue
         /\ InWindow(now, old)
         /\ w.first_seen_ns = old.first_seen_ns /\ w.count = old.count + 1
         /\ w.last_event_ns = old.last_event_ns
      \/ /\ old # None => ~InWindow(now, old)
         /\ w.first_seen_ns = now /\ w.count = 1
         /\ w.last_event_ns = IF old = None THEN 0 ELSE old.last_event_ns
  BY WindowCases DEF InWindow
<1>3. w.last_event_ns = 0
  BY <1>2
<1>4. now > EventCooldown => w.count < RetransBurst
  <2>1. CooledDown(now, 0) <=> now > 0 + EventCooldown
    BY <1>1, CooledDownMeans
  <2> QED
    BY <1>1, <1>3, <2>1 DEF IsBurst
<1>5. CASE old # None /\ InWindow(now, old)
  <2>1. /\ old \in RetransValue /\ Thin(S, old)
        /\ w.first_seen_ns = old.first_seen_ns /\ w.count = old.count + 1
    BY <1>2, <1>5
  <2> QED
    BY <1>3, <1>4, <1>5, <2>1, ThinGoesOn
<1>6. CASE ~(old # None /\ InWindow(now, old))
  <2>1. w.first_seen_ns = now /\ w.count = 1
    BY <1>2, <1>6
  <2>2. now > EventCooldown => RetransBurst > 1
    BY <1>1, <1>4, <2>1
  <2>3. ASSUME NEW a \in Warm, a + RetransWindow >= now PROVE Hits(S, a, now - 1) <= Few
    <3>1. a \in Int /\ now - 1 \in Int /\ a > EventCooldown /\ a \in Time /\ MaxClock \in Int
      BY <1>1, TcpFlowAssumption DEF Warm, Time
    <3>2. Few \in Nat /\ Hits(S, a, now - 1) \in Nat
      <4>1. Few \in Nat
        BY <1>1 DEF Few
      <4> QED
        BY <3>1, <4>1, HitsType
    <3>3. CASE S \cap (a..(now - 1)) = {}
      BY <3>2, <3>3, HitsNone
    <3>4. CASE S \cap (a..(now - 1)) # {}
      <4>1. PICK t \in S : t \in a..(now - 1)
        BY <3>4
      <4>2. old # None /\ old \in RetransValue /\ Thin(S, old)
        BY <4>1
      <4>3. /\ old.first_seen_ns \in Time /\ old.first_seen_ns \in Nat /\ old.count \in Nat
            /\ old.first_seen_ns <= now
        BY <4>2, TcpFlowAssumption DEF Thin, RetransValue, Time
      <4>4. CASE old.first_seen_ns = now
        BY <2>3, <4>2, <4>4 DEF Thin
      <4>5. CASE old.first_seen_ns # now
        <5>1. now > old.first_seen_ns + RetransWindow
          BY <1>1, <1>6, <4>2, <4>3, <4>5 DEF InWindow
        <5>2. a > old.first_seen_ns
          BY <1>1, <2>3, <3>1, <4>3, <5>1
        <5>3. Hits(S, a, MaxClock) + 1 <= old.count
          BY <3>1, <4>2, <4>3, <5>2 DEF Thin
        <5>4. t > EventCooldown
          BY <1>1, <3>1, <4>1
        <5>5. old.count < RetransBurst
          BY <4>2, <5>4 DEF Thin
        <5>6. Hits(S, a, now - 1) <= Hits(S, a, a - 1) + Hits(S, a, MaxClock)
          BY <3>1, HitsCut
        <5>7. Hits(S, a, a - 1) = 0
          <6>1. S \cap (a..(a - 1)) = {}
            BY <3>1
          <6> QED
            BY <6>1, HitsNone
        <5>8. Hits(S, a, MaxClock) \in Nat
          BY <3>1, HitsType
        <5> QED
          BY <1>1, <3>2, <4>3, <5>3, <5>5, <5>6, <5>7, <5>8 DEF Few
      <4> QED
        BY <4>4, <4>5
    <3> QED
      BY <3>3, <3>4
  <2> QED
    BY <1>3, <2>1, <2>2, <2>3, ThinNew
<1> QED
  BY <1>5, <1>6

SparseInv == Past /\ Told /\ Sparse

(* A step that does nothing to the retransmissions of a key. *)
LEMMA SparseSame ==
  ASSUME NEW k \in Keys, Typed, Typed', PastAt(k), SparseAt(k),
         flow' = flow, retrans'[k] = retrans[k], clock <= clock',
         \A t \in Socks : flow[t] = k =>
           \/ sock'[t] = sock[t]
           \/ /\ sock[t].pc \notin {"rtLookup", "rtUpdate"}
              /\ sock'[t].pc \notin {"rtLookup", "rtUpdate"},
         nd_tcp_retrans_by_flow'[k] = nd_tcp_retrans_by_flow[k] \/ k \in lost',
         lost \subseteq lost', events \subseteq events'
  PROVE  PastAt(k)' /\ SparseAt(k)'
<1>1. Seen(k)' = Seen(k) /\ (NoneAt(k, {"rtUpdate"})' <=> NoneAt(k, {"rtUpdate"}))
  BY DEF Seen, NoneAt
<1>2. Undisturbed(k)' => Undisturbed(k) /\ k \notin lost'
  BY DEF Undisturbed
<1>3. Reported(k) => Reported(k)'
  BY DEF Reported
<1>4. PastAt(k)'
  <2>1. clock \in Nat /\ clock' \in Nat
    BY TcpFlowAssumption DEF Typed, Time
  <2>2. \A i \in 1..Len(retrans[k]) : retrans[k][i] \in Nat
    <3>1. retrans[k] \in Seq(Time)
      BY DEF Typed
    <3>2. \A i \in 1..Len(retrans[k]) : retrans[k][i] \in Time
      BY <3>1, ElementOfSeq
    <3> QED
      BY <3>2, TcpFlowAssumption DEF Time
  <2>3. \A i \in 1..Len(retrans[k]) : retrans[k][i] <= clock'
    BY <2>1, <2>2 DEF PastAt
  <2>4. \A s \in Looking' : flow[s] = k => s \in Looking /\ sock'[s] = sock[s]
    BY DEF Looking
  <2> QED
    BY <1>2, <2>3, <2>4 DEF PastAt
<1>5. SparseAt(k)'
  BY <1>1, <1>2, <1>3 DEF SparseAt
<1> QED
  BY <1>4, <1>5

(* A step of nd_tcp_rcv_established, of the clock, or of retrans_count. *)
LEMMA SparseFrame ==
  ASSUME Typed, Typed', SparseInv, flow' = flow, retrans' = retrans, clock <= clock',
         \A t \in Socks :
           \/ sock'[t] = sock[t]
           \/ /\ sock[t].pc \notin {"rtLookup", "rtUpdate"}
              /\ sock'[t].pc \notin {"rtLookup", "rtUpdate"},
         nd_tcp_retrans_by_flow' = nd_tcp_retrans_by_flow,
         lost \subseteq lost', events \subseteq events'
  PROVE  SparseInv'
<1>1. \A k \in Keys : PastAt(k)' /\ SparseAt(k)'
  BY SparseSame DEF SparseInv, Past, Sparse
<1>2. \A k : Reported(k) => Reported(k)'
  BY DEF Reported
<1>3. Told'
  BY <1>2 DEF SparseInv, Told, LastBurst, Typed
<1> QED
  BY <1>1, <1>3 DEF SparseInv, Past, Sparse

(* A new retransmission, which its handler has yet to look for. *)
LEMMA RetransmitSparse ==
  ASSUME Typed, Typed', SparseInv, NEW s \in Socks, Retransmit(s)
  PROVE  SparseInv'
<1>1. /\ sock[s].pc = "idle"
      /\ sock'[s].pc = "rtLookup" /\ sock'[s].now = clock
      /\ \A t \in Socks : t # s => sock'[t] = sock[t]
      /\ retrans'[flow[s]] = Append(retrans[flow[s]], clock)
      /\ \A j \in Keys : j # flow[s] => retrans'[j] = retrans[j]
  BY RetransmitEffect
<1>2. UNCHANGED <<clock, flow, nd_tcp_retrans_by_flow, events, lost>>
  BY DEF Retransmit
<1>3. PICK k \in Keys : k = flow[s]
  BY DEF Typed
<1>4. \A j \in Keys \ {k} : PastAt(j)' /\ SparseAt(j)'
  <2> TAKE j \in Keys \ {k}
  <2>1. \A t \in Socks : flow[t] = j => sock'[t] = sock[t]
    BY <1>1, <1>3
  <2>2. PastAt(j) /\ SparseAt(j) /\ retrans'[j] = retrans[j] /\ clock <= clock'
    BY <1>1, <1>2, <1>3, TcpFlowAssumption DEF SparseInv, Past, Sparse, Typed, Time
  <2> QED
    BY <1>2, <2>1, <2>2, SparseSame
<1>5. PICK n \in Nat : n = Len(retrans[k])
  BY LenProperties DEF Typed
<1>6. /\ Len(retrans'[k]) = n + 1 /\ retrans'[k][n + 1] = clock
      /\ \A i \in 1..n : retrans'[k][i] = retrans[k][i] /\ retrans[k][i] \in Time
  <2>1. retrans[k] \in Seq(Time) /\ clock \in Time
    BY DEF Typed
  <2> QED
    BY <1>1, <1>3, <1>5, <2>1, AppendProperties, ElementOfSeq
<1>7. clock \in Nat /\ \A i \in 1..n : retrans[k][i] \in Nat
  <2>1. Time \subseteq Nat /\ clock \in Time
    BY TcpFlowAssumption DEF Typed, Time
  <2> QED
    BY <1>6, <2>1
<1>8. \A i \in 1..(n + 1) : i \in 1..n \/ i = n + 1
  BY <1>5
<1>9. PastAt(k)'
  <2>1. \A i \in 1..n : retrans[k][i] <= clock
    BY <1>5 DEF SparseInv, Past, PastAt
  <2>2. \A i \in 1..(n + 1) : retrans'[k][i] <= clock
    BY <1>6, <1>7, <1>8, <2>1
  <2>3. Undisturbed(k)' => \A t \in Looking' : flow[t] = k => t = s
    BY <1>2, <1>3 DEF Undisturbed, Looking
  <2> QED
    BY <1>1, <1>2, <1>6, <2>2, <2>3 DEF PastAt
<1>10. SparseAt(k)'
  <2> SUFFICES ASSUME Undisturbed(k)', ~Reported(k)'
               PROVE  /\ ThinlySpread(Seen(k)')
                      /\ NoneAt(k, {"rtUpdate"})' =>
                           IF nd_tcp_retrans_by_flow[k] = None
                             THEN Seen(k)' = {}
                             ELSE Thin(Seen(k)', nd_tcp_retrans_by_flow[k])
                      /\ \A t \in Socks : flow[t] = k =>
                           /\ sock'[t].pc = "rtUpdate" => Thin(Seen(k)', sock'[t].new)
                           /\ sock'[t].pc = "rtLookup" =>
                                /\ Len(retrans'[k]) > 0
                                /\ retrans'[k][Len(retrans'[k])] = sock'[t].now
    BY <1>2 DEF SparseAt
  <2>1. Undisturbed(k) /\ ~Reported(k) /\ \A t \in Socks : flow[t] = k => t = s
    BY <1>2, <1>3 DEF Undisturbed, Reported
  <2>2. NoneAt(k, {"rtLookup"}) /\ NoneAt(k, {"rtUpdate"}) /\ ~NoneAt(k, {"rtLookup"})'
    BY <1>1, <1>2, <1>3, <2>1 DEF NoneAt
  <2>3. Seen(k) = {retrans[k][i] : i \in 1..n}
    BY <1>5, <2>2 DEF Seen
  <2>4. Seen(k)' = {retrans'[k][i] : i \in {j \in 1..(n + 1) : j < n + 1}}
    BY <1>6, <2>2 DEF Seen
  <2>5. {j \in 1..(n + 1) : j < n + 1} = 1..n
    OBVIOUS
  <2>6. Seen(k)' = Seen(k)
    BY <1>6, <2>3, <2>4, <2>5
  <2>7. /\ ThinlySpread(Seen(k))
        /\ IF nd_tcp_retrans_by_flow[k] = None
              THEN Seen(k) = {} ELSE Thin(Seen(k), nd_tcp_retrans_by_flow[k])
    BY <2>1, <2>2 DEF SparseInv, Sparse, SparseAt
  <2> QED
    BY <1>1, <1>6, <2>1, <2>6, <2>7
<1>11. Told'
  <2>1. \A j : Reported(j)' <=> Reported(j)
    BY <1>2 DEF Reported
  <2> QED
    BY <1>1, <1>2, <2>1 DEF SparseInv, Told, LastBurst, Typed
<1> QED
  BY <1>4, <1>9, <1>10, <1>11 DEF SparseInv, Past, Sparse

(* What is seen of a flow is past. *)
LEMMA SeenTyped ==
  ASSUME Typed, NEW k \in Keys
  PROVE  Seen(k) \in SUBSET Time /\ Seen(k) \subseteq {retrans[k][i] : i \in 1..Len(retrans[k])}
<1>1. retrans[k] \in Seq(Time)
  BY DEF Typed
<1>2. \A i \in 1..Len(retrans[k]) : retrans[k][i] \in Time
  BY <1>1, ElementOfSeq
<1> QED
  BY <1>2 DEF Seen

(* The lookup of the window: the latest retransmission is seen. *)
LEMMA RtLookupSparse ==
  ASSUME Typed, Typed', SparseInv, NEW s \in Socks, RtLookup(s)
  PROVE  SparseInv'
<1>a. /\ flow[s] \in Keys /\ sock[s].now \in Time
      /\ Window(sock[s].now, nd_tcp_retrans_by_flow[flow[s]]) \in RetransValue
  BY RtLookupEffect
<1>b. PICK k \in Keys, now \in Time : k = flow[s] /\ now = sock[s].now
  BY <1>a
<1>c. PICK old \in RetransValue \cup {None} : old = nd_tcp_retrans_by_flow[k]
  BY DEF Typed
<1>d. PICK w \in RetransValue : w = Window(now, old)
  BY <1>a, <1>b, <1>c
<1>1. /\ sock[s].pc = "rtLookup" /\ sock'[s].pc = "rtUpdate"
      /\ sock'[s].new \in RetransValue
      /\ sock'[s].new.first_seen_ns = w.first_seen_ns
      /\ sock'[s].new.count = w.count
      /\ sock'[s].new.last_event_ns = IF IsBurst(now, w) THEN now ELSE w.last_event_ns
      /\ \A t \in Socks : t # s => sock'[t] = sock[t]
      /\ events \subseteq events'
      /\ IsBurst(now, w) => \E e \in events' : e.type = "TCP_RETRANS_BURST" /\ e.key = k
  BY <1>b, <1>c, <1>d, RtLookupEffect
<1>2. UNCHANGED <<clock, flow, nd_tcp_retrans_by_flow, retrans, lost>>
  BY DEF RtLookup
<1>3. /\ \A j : Reported(j) => Reported(j)'
      /\ IsBurst(now, w) => Reported(k)'
  BY <1>1 DEF Reported
<1>4. w.last_event_ns = IF old = None THEN 0 ELSE old.last_event_ns
  BY <1>d, WindowCases
<1>5. old # None /\ old.last_event_ns # 0 => Reported(k)
  BY <1>c DEF SparseInv, Told, LastBurst
<1>6. Told'
  <2>1. \A j \in Keys : LastBurst(j)' # 0 => Reported(j)'
    BY <1>2, <1>3 DEF SparseInv, Told, LastBurst
  <2>2. \A t \in Socks : sock'[t].pc = "rtUpdate" /\ sock'[t].new.last_event_ns # 0
                            => Reported(flow[t])'
    <3> SUFFICES ASSUME NEW t \in Socks, sock'[t].pc = "rtUpdate", sock'[t].new.last_event_ns # 0
                 PROVE  Reported(flow[t])'
      OBVIOUS
    <3>1. CASE t = s
      <4>1. Reported(k)'
        BY <1>1, <1>3, <1>4, <1>5, <3>1
      <4> QED
        BY <1>2, <1>b, <3>1, <4>1 DEF Reported
    <3>2. CASE t # s
      <4>1. Reported(flow[t])
        BY <1>1, <3>2 DEF SparseInv, Told
      <4> QED
        BY <1>1, <1>2, <4>1 DEF Reported
    <3> QED
      BY <3>1, <3>2
  <2> QED
    BY <2>1, <2>2 DEF Told
<1>7. \A j \in Keys \ {k} : PastAt(j)' /\ SparseAt(j)'
  <2> TAKE j \in Keys \ {k}
  <2>1. \A t \in Socks : flow[t] = j => sock'[t] = sock[t]
    BY <1>1, <1>b
  <2>2. PastAt(j) /\ SparseAt(j) /\ clock <= clock'
    BY <1>2, TcpFlowAssumption DEF SparseInv, Past, Sparse, Typed, Time
  <2> QED
    BY <1>1, <1>2, <2>1, <2>2, SparseSame
<1>8. PastAt(k)'
  <2>1. \A t \in Looking' : t \in Looking /\ sock'[t] = sock[t]
    BY <1>1 DEF Looking
  <2> QED
    BY <1>2, <2>1 DEF SparseInv, Past, PastAt, Undisturbed
<1>9. SparseAt(k)'
  <2> SUFFICES ASSUME Undisturbed(k)', ~Reported(k)'
               PROVE  /\ ThinlySpread(Seen(k)')
                      /\ ~NoneAt(k, {"rtUpdate"})'
                      /\ \A t \in Socks : flow[t] = k =>
                           /\ sock'[t].pc = "rtUpdate" => Thin(Seen(k)', sock'[t].new)
                           /\ sock'[t].pc # "rtLookup"
    BY <1>2 DEF SparseAt
  <2>1. Undisturbed(k) /\ ~Reported(k) /\ \A t \in Socks : flow[t] = k => t = s
    BY <1>1, <1>2, <1>b DEF Undisturbed, Reported
  <2>2. /\ NoneAt(k, {"rtUpdate"}) /\ ~NoneAt(k, {"rtLookup"})
        /\ NoneAt(k, {"rtLookup"})' /\ ~NoneAt(k, {"rtUpdate"})'
    BY <1>1, <1>2, <1>b, <2>1 DEF NoneAt
  <2>3. PICK n \in Nat : n = Len(retrans[k])
    BY LenProperties DEF Typed
  <2>4. /\ ThinlySpread(Seen(k))
        /\ IF old = None THEN Seen(k) = {} ELSE Thin(Seen(k), old)
        /\ n > 0 /\ retrans[k][n] = now
    BY <1>1, <1>b, <1>c, <2>1, <2>2, <2>3 DEF SparseInv, Sparse, SparseAt
  <2>5. Seen(k)' = Seen(k) \cup {now}
    <3>1. Seen(k) = {retrans[k][i] : i \in {j \in 1..n : j < n}}
      BY <2>2, <2>3 DEF Seen
    <3>2. Seen(k)' = {retrans[k][i] : i \in 1..n}
      BY <1>2, <2>2, <2>3 DEF Seen
    <3>3. 1..n = {j \in 1..n : j < n} \cup {n}
      BY <2>4
    <3> QED
      BY <2>4, <3>1, <3>2, <3>3
  <2>6. PICK S \in SUBSET Time : S = Seen(k)
    BY SeenTyped
  <2>7. \A t \in S : t <= now
    <3>1. \A i \in 1..Len(retrans[k]) : retrans[k][i] <= now
      BY <1>1, <1>b, <2>1 DEF SparseInv, Past, PastAt, Looking
    <3> QED
      BY <2>6, <3>1, SeenTyped
  <2>8. IF old = None THEN S = {} ELSE Thin(S, old) /\ old.last_event_ns = 0
    BY <1>5, <2>1, <2>4, <2>6
  <2>9. Thin(S \cup {now}, w) /\ ThinlySpread(S \cup {now})
    BY <1>3, <1>d, <2>4, <2>6, <2>7, <2>8, ThinStep
  <2>10. Thin(Seen(k)', sock'[s].new) /\ ThinlySpread(Seen(k)')
    BY <1>1, <2>5, <2>6, <2>9 DEF Thin
  <2> QED
    BY <1>1, <2>1, <2>2, <2>10
<1> QED
  BY <1>6, <1>7, <1>8, <1>9 DEF SparseInv, Past, Sparse

(* Its update. *)
LEMMA RtUpdateSparse ==
  ASSUME Typed, Typed', SparseInv, NEW s \in Socks, RtUpdate(s)
  PROVE  SparseInv'
<1>1. /\ flow[s] \in Keys /\ sock[s].pc = "rtUpdate" /\ sock[s].new \in RetransValue
      /\ sock'[s].pc = "flowLookup"
      /\ \A t \in Socks : t # s => sock'[t] = sock[t]
      /\ lost \subseteq lost'
      /\ \A j \in Keys : \/ nd_tcp_retrans_by_flow'[j] = nd_tcp_retrans_by_flow[j]
                         \/ nd_tcp_retrans_by_flow'[j] = None
                         \/ (j = flow[s] /\ nd_tcp_retrans_by_flow'[j] = sock[s].new)
      /\ \A j \in Keys \ lost' :
           /\ j = flow[s] => nd_tcp_retrans_by_flow'[j] = sock[s].new
           /\ j # flow[s] => nd_tcp_retrans_by_flow'[j] = nd_tcp_retrans_by_flow[j]
  BY RtUpdateEffect
<1>2. UNCHANGED <<clock, flow, retrans, events>>
  BY DEF RtUpdate
<1>3. PICK k \in Keys : k = flow[s]
  BY <1>1
<1>4. \A j : Reported(j)' <=> Reported(j)
  BY <1>2 DEF Reported
<1>5. Told'
  <2>1. sock[s].new.last_event_ns # 0 => Reported(k)
    BY <1>1, <1>3 DEF SparseInv, Told
  <2>2. \A j \in Keys : LastBurst(j)' # 0 => Reported(j)
    BY <1>1, <1>3, <2>1 DEF SparseInv, Told, LastBurst
  <2>3. \A t \in Socks : sock'[t].pc = "rtUpdate" /\ sock'[t].new.last_event_ns # 0
                            => Reported(flow[t])
    BY <1>1 DEF SparseInv, Told
  <2> QED
    BY <1>2, <1>4, <2>2, <2>3 DEF Told, Reported
<1>6. \A j \in Keys \ {k} : PastAt(j)' /\ SparseAt(j)'
  <2> TAKE j \in Keys \ {k}
  <2>1. \A t \in Socks : flow[t] = j => sock'[t] = sock[t]
    BY <1>1, <1>3
  <2>2. PastAt(j) /\ SparseAt(j) /\ clock <= clock'
    BY <1>2, TcpFlowAssumption DEF SparseInv, Past, Sparse, Typed, Time
  <2>3. nd_tcp_retrans_by_flow'[j] = nd_tcp_retrans_by_flow[j] \/ j \in lost'
    BY <1>1, <1>3
  <2> QED
    BY <1>1, <1>2, <2>1, <2>2, <2>3, SparseSame
<1>7. PastAt(k)'
  <2>1. \A t \in Looking' : t \in Looking /\ sock'[t] = sock[t]
    BY <1>1 DEF Looking
  <2>2. Undisturbed(k)' => Undisturbed(k)
    BY <1>1, <1>2, StaysUndisturbed
  <2> QED
    BY <1>2, <2>1, <2>2 DEF SparseInv, Past, PastAt
<1>8. SparseAt(k)'
  <2> SUFFICES ASSUME Undisturbed(k)', ~Reported(k)'
               PROVE  /\ ThinlySpread(Seen(k)')
                      /\ nd_tcp_retrans_by_flow'[k] # None
                      /\ Thin(Seen(k)', nd_tcp_retrans_by_flow'[k])
                      /\ \A t \in Socks : flow[t] = k => sock'[t].pc \notin {"rtUpdate", "rtLookup"}
    BY <1>2 DEF SparseAt
  <2>1. /\ Undisturbed(k) /\ ~Reported(k) /\ k \notin lost'
        /\ \A t \in Socks : flow[t] = k => t = s
    BY <1>1, <1>2, <1>3, <1>4 DEF Undisturbed
  <2>2. Seen(k)' = Seen(k)
    BY <1>1, <1>2, <1>3, <2>1 DEF Seen, NoneAt
  <2>3. ThinlySpread(Seen(k)) /\ Thin(Seen(k), sock[s].new)
    BY <1>1, <1>3, <2>1 DEF SparseInv, Sparse, SparseAt
  <2>4. nd_tcp_retrans_by_flow'[k] = sock[s].new /\ sock[s].new # None
    BY <1>1, <1>3, <2>1, TcpFlowNoneAssumption
  <2> QED
    BY <1>1, <2>1, <2>2, <2>3, <2>4
<1> QED
  BY <1>5, <1>6, <1>7, <1>8 DEF SparseInv, Past, Sparse

(* Nothing was retransmitted yet. *)
LEMMA InitSparse == Init => SparseInv
<1> SUFFICES ASSUME Init PROVE SparseInv
  OBVIOUS
<1>1. \A k \in Keys : retrans[k] = <<>> /\ nd_tcp_retrans_by_flow[k] = None
  BY DEF Init, EmptyMap
<1>2. \A s \in Socks : sock[s].pc = "idle"
  BY DEF Init, Idle
<1>3. \A k \in Keys : 1..Len(retrans[k]) = {}
  BY <1>1
<1>4. Past
  BY <1>2, <1>3 DEF Past, PastAt, Looking
<1>5. Told
  BY <1>1, <1>2 DEF Told, LastBurst
<1>6. ASSUME NEW k \in Keys PROVE SparseAt(k)
  <2>1. Seen(k) = {}
    BY <1>3 DEF Seen
  <2>2. ThinlySpread({})
    <3>1. \A a : Hits({}, a, a + RetransWindow) = 0
      BY HitsNone
    <3>2. Many >= 0
      BY TcpFlowAssumption DEF Many
    <3> QED
      BY <3>1, <3>2 DEF ThinlySpread
  <2> QED
    BY <1>1, <1>2, <2>1, <2>2 DEF SparseAt
<1> QED
  BY <1>4, <1>5, <1>6 DEF SparseInv, Sparse

(* Every step, one action at a time. *)
LEMMA StepSparse ==
  ASSUME Typed, Typed', SparseInv, [Next]_vars
  PROVE  SparseInv'
<1>a. clock \in Nat
  BY TcpFlowAssumption DEF Typed, Time
<1>1. CASE Tick
  BY <1>1, <1>a, SparseFrame DEF Tick, histVars
<1>2. ASSUME NEW s \in Socks, NEW v \in Samples, Rcv(s, v[1], v[2]) PROVE SparseInv'
  BY <1>2, <1>a, RcvEffect, SparseFrame DEF Rcv
<1>3. ASSUME NEW s \in Socks, RcvLookup(s) PROVE SparseInv'
  <2>1. /\ sock[s].pc = "rcvLookup" /\ sock'[s].pc = "rcvUpdate"
        /\ \A t \in Socks : t # s => sock'[t] = sock[t]
        /\ events \subseteq events'
    BY <1>3, RcvLookupEffect
  <2> QED
    BY <1>3, <1>a, <2>1, SparseFrame DEF RcvLookup
<1>4. ASSUME NEW s \in Socks, RcvUpdate(s) PROVE SparseInv'
  <2>1. /\ sock[s].pc = "rcvUpdate" /\ sock'[s].pc = "idle"
        /\ \A t \in Socks : t # s => sock'[t] = sock[t]
        /\ lost \subseteq lost'
    BY <1>4, RcvUpdateEffect
  <2> QED
    BY <1>4, <1>a, <2>1, SparseFrame DEF RcvUpdate
<1>5. ASSUME NEW s \in Socks, Retransmit(s) PROVE SparseInv'
  BY <1>5, RetransmitSparse
<1>6. ASSUME NEW s \in Socks, RtLookup(s) PROVE SparseInv'
  BY <1>6, RtLookupSparse
<1>7. ASSUME NEW s \in Socks, RtUpdate(s) PROVE SparseInv'
  BY <1>7, RtUpdateSparse
<1>8. ASSUME NEW s \in Socks, FlowLookup(s) PROVE SparseInv'
  <2>1. /\ sock[s].pc = "flowLookup" /\ sock'[s].pc \in {"idle", "flowStore"}
        /\ \A t \in Socks : t # s => sock'[t] = sock[t]
    BY <1>8, FlowLookupEffect
  <2> QED
    BY <1>8, <1>a, <2>1, SparseFrame DEF FlowLookup
<1>9. ASSUME NEW s \in Socks, FlowStore(s) PROVE SparseInv'
  <2>1. /\ sock[s].pc = "flowStore" /\ sock'[s].pc = "idle"
        /\ \A t \in Socks : t # s => sock'[t] = sock[t]
    BY <1>9, FlowStoreEffect
  <2> QED
    BY <1>9, <1>a, <2>1, SparseFrame DEF FlowStore, histVars
<1>10. CASE UNCHANGED vars
  BY <1>10, <1>a, SparseFrame DEF vars, histVars
<1> QED
  BY <1>1, <1>2, <1>3, <1>4, <1>5, <1>6, <1>7, <1>8, <1>9, <1>10 DEF Next

(* The retransmissions of an undisturbed flow of which no burst was        *)
(* reported are thinly spread.                                             *)
THEOREM SparseInvariance == Spec => []SparseInv
<1>1. Init => SparseInv
  BY InitSparse
<1>2. Typed /\ Typed' /\ SparseInv /\ [Next]_vars => SparseInv'
  BY StepSparse
<1> QED
  BY <1>1, <1>2, FlowTyped, PTL DEF Spec

(* A burst of twice the threshold cannot slip between two windows of       *)
(* nd_tcp_retransmit_skb, for every threshold, window and cooldown.        *)
THEOREM DenseBurstSound == Spec => []DenseBurstIsReported
<1>1. Typed /\ SparseInv => DenseBurstIsReported
  <2> SUFFICES ASSUME Typed, SparseInv, NEW k \in Keys, Undisturbed(k), Quiet(k), ~Reported(k),
                      Dense(k, RetransBurst), Dense(k, 2 * RetransBurst - 2)
               PROVE  FALSE
    BY DEF DenseBurstIsReported
  <2>1. DOMAIN retrans[k] = 1..Len(retrans[k])
    BY LenProperties DEF Typed
  <2>2. NoneAt(k, {"rtLookup"})
    BY DEF NoneAt, Quiet
  <2>3. Seen(k) = {retrans[k][i] : i \in DOMAIN retrans[k]}
    BY <2>1, <2>2 DEF Seen
  <2>4. ASSUME NEW a, NEW b
        PROVE  {retrans[k][i] : i \in Between(k, a, b)} = Seen(k) \cap (a..b)
    BY <2>3 DEF Between
  <2>5. ThinlySpread(Seen(k))
    BY DEF SparseInv, Sparse, SparseAt
  <2>6. RetransBurst \in Nat \ {0} /\ RetransWindow \in Nat /\ EventCooldown \in Nat
        /\ MaxClock \in Nat
    BY TcpFlowAssumption
  <2>7. ASSUME NEW n \in Int, Dense(k, n) PROVE n <= Many
    <3>1. PICK a \in Warm : Hits(Seen(k), a, a + RetransWindow) >= n
      BY <2>4, <2>7 DEF Dense, Warm, Hits
    <3>2. Hits(Seen(k), a, a + RetransWindow) <= Many
      BY <2>5, <3>1 DEF ThinlySpread
    <3>3. a \in Int /\ a + RetransWindow \in Int
      BY <2>6, <3>1 DEF Warm
    <3>4. Hits(Seen(k), a, a + RetransWindow) \in Nat
      BY <3>3, SeenTyped, HitsType
    <3>5. Many \in Int
      BY <2>6 DEF Many
    <3> QED
      BY <3>1, <3>2, <3>4, <3>5
  <2>8. RetransBurst <= Many /\ 2 * RetransBurst - 2 <= Many
    BY <2>6, <2>7
  <2> QED
    BY <2>6, <2>8 DEF Many
<1> QED
  BY <1>1, FlowTyped, SparseInvariance, PTL
=============================================================================
