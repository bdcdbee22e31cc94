------------------------------ MODULE TcpFlow ------------------------------
(***************************************************************************)
(* TCP flow samples and retransmission bursts: nd_tcp_rcv_established and  *)
(* nd_tcp_retransmit_skb of bpf/networkdoctor.bpf.c on the maps            *)
(* nd_tcp_flow_latest and nd_tcp_retrans_by_flow.                          *)
(*                                                                         *)
(* The kernel calls both hooks with the lock of the socket held, so the    *)
(* handlers of one socket follow each other.  The maps are keyed by        *)
(* addresses and ports alone: sockets of different network namespaces, a   *)
(* loopback connection in each of two pods for example, may share a key,   *)
(* and their handlers run at the same time.  Both handlers read a value,   *)
(* decide and write a whole new one; nd_tcp_retransmit_skb also increments *)
(* a field through the pointer a lookup returned, which leads nowhere once *)
(* another update has put a new element in its place.  (The kernel may     *)
(* give that element's memory to another key at once, whose count the      *)
(* store would then raise; here it is not reused while a handler points    *)
(* to it.)                                                                 *)
(***************************************************************************)
EXTENDS LruMap, Sequences

CONSTANTS
  Socks,           \* IPv4 sockets; the others are ignored at once
  SlowTcpRtt,      \* nd_config.slow_tcp_rtt_us after defaulting
  RetransWindow,   \* nd_config.retrans_burst_window_ns after defaulting
  RetransBurst,    \* nd_config.retrans_burst_count after defaulting
  EventCooldown,   \* nd_config.event_cooldown_ns after defaulting
  CwndDropPct,     \* nd_config.cwnd_drop_percent after defaulting
  Samples,         \* pairs of tcp_sock.srtt_us and snd_cwnd to consider
  Word,            \* 2^64 in the source
  MaxClock,        \* bound on time
  MaxRcvs,         \* bound on the calls of nd_tcp_rcv_established
  MaxRetrans       \* bound on the calls of nd_tcp_retransmit_skb

ASSUME TcpFlowAssumption ==
  /\ SlowTcpRtt \in Nat \ {0} /\ RetransWindow \in Nat \ {0}
  /\ RetransBurst \in Nat \ {0} /\ EventCooldown \in Nat \ {0}
  /\ CwndDropPct \in Nat \ {0}
  /\ Samples \subseteq Nat \X Nat
  /\ MaxClock \in Nat \ {0} /\ Word \in Nat /\ MaxClock + EventCooldown < Word
  /\ MaxRcvs \in Nat /\ MaxRetrans \in Nat
ASSUME TcpFlowFiniteAssumption == IsFiniteSet(Socks)

Time == 0..MaxClock   \* 0: never

(* struct nd_tcp_flow_value and struct nd_retrans_value, as far as they    *)
(* are read.                                                               *)
Sample == [elem : Nat, cwnd : Nat, retrans_count : Nat,
           last_rtt_event_ns : Time, last_cwnd_event_ns : Time]
RetransValue == [first_seen_ns : Time, count : Nat, last_event_ns : Time]

ASSUME TcpFlowNoneAssumption == None \notin Sample \cup RetransValue

VARIABLES
  clock,                  \* bpf_ktime_get_ns()
  flow,                   \* the key of each socket's addresses and ports
  nd_tcp_flow_latest,     \* LRU map: key -> latest sample
  nd_tcp_retrans_by_flow, \* LRU map: key -> retransmission window
  nd_tcp_counters,        \* the retransmission counters, summed over the CPUs
  sock,                   \* what the handler of each socket is doing
  rcvs,                   \* history: number of samples, latest cwnd of each key
  retrans,                \* history: the times of each key's retransmissions
  events,                 \* history: every event decided on
  counted,                \* history: retransmissions an entry should know of
  lost                    \* history: keys whose entries were evicted or not written

histVars == <<rcvs, retrans, events, counted, lost>>
vars == <<clock, flow, nd_tcp_flow_latest, nd_tcp_retrans_by_flow, nd_tcp_counters, sock,
          histVars>>

Idle == [pc |-> "idle"]

Init ==
  /\ clock = 1
  /\ flow \in [Socks -> Keys]
  /\ nd_tcp_flow_latest = EmptyMap
  /\ nd_tcp_retrans_by_flow = EmptyMap
  /\ nd_tcp_counters = [retrans_total |-> 0, retrans_burst_total |-> 0]
  /\ sock = [s \in Socks |-> Idle]
  /\ rcvs = [n |-> 0, cwnd |-> [k \in Keys |-> 0]]
  /\ retrans = [k \in Keys |-> <<>>]
  /\ events = {}
  /\ counted = [k \in Keys |-> 0]
  /\ lost = {}

Tick ==
  /\ clock < MaxClock
  /\ clock' = clock + 1
  /\ UNCHANGED <<flow, nd_tcp_flow_latest, nd_tcp_retrans_by_flow, nd_tcp_counters, sock,
                 histVars>>

CooledDown_Inclusive(now, last) == now >= (last + EventCooldown) % Word
CooledDown(now, last) == now > (last + EventCooldown) % Word

(* The keys whose entries a failed or evicting update has cost. *)
Missing(old, new, k, v) ==
  {j \in Keys : (j = k /\ new[j] # v) \/ (old[j] # None /\ new[j] = None)}

-----------------------------------------------------------------------------
(* nd_tcp_rcv_established.                                                 *)

(* Linux keeps srtt scaled by eight.  The histograms of the samples and    *)
(* the counters of their totals are those of the module Metrics.           *)
Rcv(s, raw, cwnd) ==
  /\ sock[s].pc = "idle" /\ rcvs.n < MaxRcvs
  /\ rcvs' = [rcvs EXCEPT !.n = @ + 1]
  /\ sock' = [sock EXCEPT ![s] = [pc |-> "rcvLookup", now |-> clock, srtt |-> raw \div 8,
                                  cwnd |-> cwnd, elem |-> rcvs.n + 1]]
  /\ UNCHANGED <<clock, flow, nd_tcp_flow_latest, nd_tcp_retrans_by_flow, nd_tcp_counters,
                 retrans, events, counted, lost>>

(* What the handler carries over from the entry it found, if any. *)
NoSample == [cwnd |-> 0, retrans_count |-> 0, last_rtt_event_ns |-> 0,
             last_cwnd_event_ns |-> 0]
OldSample(k) == IF nd_tcp_flow_latest[k] = None THEN NoSample ELSE nd_tcp_flow_latest[k]

IsSlowRtt(h, old) == h.srtt >= SlowTcpRtt /\ CooledDown(h.now, old.last_rtt_event_ns)

IsCwndDrop_Reversed(h, old) ==
  /\ old.cwnd > 0 /\ h.cwnd > 0
  /\ old.cwnd * 100 <= h.cwnd * CwndDropPct
  /\ CooledDown(h.now, old.last_cwnd_event_ns)
IsCwndDrop(h, old) ==
  /\ old.cwnd > 0 /\ h.cwnd > 0
  /\ h.cwnd * 100 <= old.cwnd * CwndDropPct
  /\ CooledDown(h.now, old.last_cwnd_event_ns)

(* struct nd_tcp_flow_value newv as it is when it is written.  The update  *)
(* puts a new element in the place of the old one; elem tells them apart.  *)
NewSample_NoCarry(h, old) ==
  [elem |-> h.elem, cwnd |-> h.cwnd, retrans_count |-> 0,
   last_rtt_event_ns |-> IF IsSlowRtt(h, old) THEN h.now ELSE old.last_rtt_event_ns,
   last_cwnd_event_ns |-> IF IsCwndDrop(h, old) THEN h.now ELSE old.last_cwnd_event_ns]
NewSample_NoStamp(h, old) ==
  [elem |-> h.elem, cwnd |-> h.cwnd, retrans_count |-> old.retrans_count,
   last_rtt_event_ns |-> old.last_rtt_event_ns,
   last_cwnd_event_ns |-> old.last_cwnd_event_ns]
NewSample(h, old) ==
  [elem |-> h.elem, cwnd |-> h.cwnd, retrans_count |-> old.retrans_count,
   last_rtt_event_ns |-> IF IsSlowRtt(h, old) THEN h.now ELSE old.last_rtt_event_ns,
   last_cwnd_event_ns |-> IF IsCwndDrop(h, old) THEN h.now ELSE old.last_cwnd_event_ns]

(* An event, with what a property compares it to. *)
Event(type, k, now, value, aux, truth) ==
  [type |-> type, key |-> k, now |-> now, value |-> value, aux |-> aux, truth |-> truth]

(* The lookup and the decisions.  Whether the ring has room for the events *)
(* makes no difference to what is written.                                 *)
RcvLookup(s) ==
  LET k == flow[s]
      h == sock[s]
      old == OldSample(k)
  IN  /\ h.pc = "rcvLookup"
      /\ events' = events
           \cup {e \in {Event("SLOW_TCP_RTT", k, h.now, h.srtt, h.cwnd, 0)} :
                   IsSlowRtt(h, old)}
           \cup {e \in {Event("TCP_CWND_DROP", k, h.now, h.cwnd, old.cwnd, rcvs.cwnd[k])} :
                   IsCwndDrop(h, old)}
      /\ sock' = [sock EXCEPT ![s] = [pc |-> "rcvUpdate", new |-> NewSample(h, old)]]
      /\ rcvs' = [rcvs EXCEPT !.cwnd[k] = h.cwnd]
      /\ UNCHANGED <<clock, flow, nd_tcp_flow_latest, nd_tcp_retrans_by_flow, nd_tcp_counters,
                     retrans, counted, lost>>

RcvUpdate(s) ==
  LET k == flow[s]
      v == sock[s].new
  IN  /\ sock[s].pc = "rcvUpdate"
      /\ nd_tcp_flow_latest' \in LruUpdate(nd_tcp_flow_latest, k, v)
      /\ lost' = lost \cup Missing(nd_tcp_flow_latest, nd_tcp_flow_latest', k, v)
      /\ sock' = [sock EXCEPT ![s] = Idle]
      /\ UNCHANGED <<clock, flow, nd_tcp_retrans_by_flow, nd_tcp_counters, rcvs, retrans, events,
                     counted>>

-----------------------------------------------------------------------------
(* nd_tcp_retransmit_skb.                                                  *)

Retransmit(s) ==
  /\ sock[s].pc = "idle" /\ nd_tcp_counters.retrans_total < MaxRetrans
  /\ nd_tcp_counters' = [nd_tcp_counters EXCEPT !.retrans_total = @ + 1]
  /\ retrans' = [retrans EXCEPT ![flow[s]] = Append(@, clock)]
  /\ sock' = [sock EXCEPT ![s] = [pc |-> "rtLookup", now |-> clock]]
  /\ UNCHANGED <<clock, flow, nd_tcp_flow_latest, nd_tcp_retrans_by_flow,
                 rcvs, events, counted, lost>>

(* Does this retransmission belong to the window of the entry? *)
InWindow_NoEnd(now, old) == now > old.first_seen_ns
InWindow(now, old) ==
  now > old.first_seen_ns /\ now - old.first_seen_ns <= RetransWindow

NewWindow(now, last) == [first_seen_ns |-> now, count |-> 1, last_event_ns |-> last]

(* struct nd_retrans_value newv before the burst is decided on. *)
Window(now, old) ==
  IF old = None THEN NewWindow(now, 0)
  ELSE IF InWindow(now, old) THEN [old EXCEPT !.count = @ + 1]
  ELSE NewWindow(now, old.last_event_ns)

IsBurst_Above(now, w) == w.count > RetransBurst /\ CooledDown(now, w.last_event_ns)
IsBurst(now, w) == w.count >= RetransBurst /\ CooledDown(now, w.last_event_ns)

RtLookup(s) ==
  LET k == flow[s]
      now == sock[s].now
      w == Window(now, nd_tcp_retrans_by_flow[k])
      burst == IsBurst(now, w)
  IN  /\ sock[s].pc = "rtLookup"
      /\ events' = IF burst
                     THEN events \cup {Event("TCP_RETRANS_BURST", k, now, w.count,
                                             RetransWindow, w.first_seen_ns)}
                     ELSE events
      /\ nd_tcp_counters' = [nd_tcp_counters EXCEPT !.retrans_burst_total =
                                                      @ + IF burst THEN 1 ELSE 0]
      /\ sock' = [sock EXCEPT ![s] =
                    [pc |-> "rtUpdate",
                     new |-> IF burst THEN [w EXCEPT !.last_event_ns = now] ELSE w]]
      /\ UNCHANGED <<clock, flow, nd_tcp_flow_latest, nd_tcp_retrans_by_flow,
                     rcvs, retrans, counted, lost>>

RtUpdate(s) ==
  LET k == flow[s]
      v == sock[s].new
  IN  /\ sock[s].pc = "rtUpdate"
      /\ nd_tcp_retrans_by_flow' \in LruUpdate(nd_tcp_retrans_by_flow, k, v)
      /\ lost' = lost \cup Missing(nd_tcp_retrans_by_flow, nd_tcp_retrans_by_flow', k, v)
      /\ sock' = [sock EXCEPT ![s] = [pc |-> "flowLookup"]]
      /\ UNCHANGED <<clock, flow, nd_tcp_flow_latest, nd_tcp_counters, rcvs, retrans, events,
                     counted>>

(* The element of the latest sample, if there is one, and the load of      *)
(* retrans_count++...                                                      *)
FlowLookup(s) ==
  LET k == flow[s]
      tv == nd_tcp_flow_latest[k]
  IN  /\ sock[s].pc = "flowLookup"
      /\ \/ /\ tv = None
            /\ sock' = [sock EXCEPT ![s] = Idle]
            /\ UNCHANGED counted
         \/ /\ tv # None
            /\ sock' = [sock EXCEPT ![s] = [pc |-> "flowStore", elem |-> tv.elem,
                                            n |-> tv.retrans_count]]
            /\ counted' = [counted EXCEPT ![k] = @ + 1]
      /\ UNCHANGED <<clock, flow, nd_tcp_flow_latest, nd_tcp_retrans_by_flow, nd_tcp_counters,
                     rcvs, retrans, events, lost>>

(* ...and its store, into an element that may have left the map. *)
FlowStore_Twice(s) ==
  LET k == flow[s]
      tv == nd_tcp_flow_latest[k]
  IN  /\ sock[s].pc = "flowStore"
      /\ nd_tcp_flow_latest' =
           IF tv # None /\ tv.elem = sock[s].elem
             THEN [nd_tcp_flow_latest EXCEPT ![k].retrans_count = sock[s].n + 2]
             ELSE nd_tcp_flow_latest
      /\ sock' = [sock EXCEPT ![s] = Idle]
      /\ UNCHANGED <<clock, flow, nd_tcp_retrans_by_flow, nd_tcp_counters, histVars>>
FlowStore(s) ==
  LET k == flow[s]
      tv == nd_tcp_flow_latest[k]
  IN  /\ sock[s].pc = "flowStore"
      /\ nd_tcp_flow_latest' =
           IF tv # None /\ tv.elem = sock[s].elem
             THEN [nd_tcp_flow_latest EXCEPT ![k].retrans_count = sock[s].n + 1]
             ELSE nd_tcp_flow_latest
      /\ sock' = [sock EXCEPT ![s] = Idle]
      /\ UNCHANGED <<clock, flow, nd_tcp_retrans_by_flow, nd_tcp_counters, histVars>>

-----------------------------------------------------------------------------
Next ==
  \/ Tick
  \/ \E s \in Socks :
       \/ \E v \in Samples : Rcv(s, v[1], v[2])
       \/ RcvLookup(s) \/ RcvUpdate(s)
       \/ Retransmit(s) \/ RtLookup(s) \/ RtUpdate(s) \/ FlowLookup(s) \/ FlowStore(s)

Spec == Init /\ [][Next]_vars

-----------------------------------------------------------------------------
(* Properties.                                                             *)

(* A flow whose key belongs to one socket and whose entries have survived. *)
Undisturbed(k) ==
  k \notin lost /\ \A s, t \in Socks : flow[s] = k /\ flow[t] = k => s = t

Quiet(k) == \A s \in Socks : flow[s] = k => sock[s].pc = "idle"

(* The retransmissions of a flow between two times. *)
Between(k, from, to) ==
  {i \in DOMAIN retrans[k] : retrans[k][i] \in from..to}

(***************************************************************************)
(* A reported burst is one: so many retransmissions of that flow, at least *)
(* the threshold, were seen within one window, although sockets that share *)
(* the key overwrite each other's counts and overtake each other's clock   *)
(* readings.  The counter of bursts stays behind the one of                *)
(* retransmissions by all but one of a burst.                              *)
(***************************************************************************)
BurstIsReal ==
  /\ LET n == nd_tcp_counters
     IN  n.retrans_burst_total > 0
           => n.retrans_burst_total + RetransBurst - 1 <= n.retrans_total
  /\ \A e \in events : e.type = "TCP_RETRANS_BURST" =>
       /\ e.value >= RetransBurst
       /\ e.now - e.truth <= RetransWindow
       /\ Cardinality(Between(e.key, e.truth, e.truth + RetransWindow)) >= e.value

(* Somewhere n retransmissions of the flow, at different times, lie within *)
(* the length of one window (a machine up for less than the cooldown       *)
(* excepted: there a missing event counts as one at the boot).             *)
Dense(k, n) ==
  \E from \in (EventCooldown + 1)..MaxClock :
    Cardinality({retrans[k][i] : i \in Between(k, from, from + RetransWindow)}) >= n

Reported(k) == \E e \in events : e.type = "TCP_RETRANS_BURST" /\ e.key = k

(***************************************************************************)
(* The window is not a sliding one, but bursts of twice the threshold      *)
(* cannot slip between two windows: n-2 retransmissions may end one and    *)
(* n-1 begin the next, one more is reported.                               *)
(***************************************************************************)
DenseBurstIsReported ==
  \A k \in Keys : Undisturbed(k) /\ Quiet(k) =>
    (Dense(k, RetransBurst) /\ Dense(k, 2 * RetransBurst - 2) => Reported(k))

(***************************************************************************)
(* Each kind of event of an undisturbed flow keeps the cooldown: last      *)
(* event times are carried from one value of the entry to the next.        *)
(***************************************************************************)
CooldownHeld ==
  \A d, e \in events :
    d.type = e.type /\ d.key = e.key /\ d.now < e.now /\ Undisturbed(d.key)
      => e.now - d.now > EventCooldown

(***************************************************************************)
(* A reported drop of the congestion window compares two successive        *)
(* samples of the flow, and the window shrank by the configured share.     *)
(***************************************************************************)
DropIsReal ==
  \A e \in events : e.type = "TCP_CWND_DROP" =>
    /\ e.value * 100 <= e.aux * CwndDropPct
    /\ Undisturbed(e.key) => e.aux = e.truth

(***************************************************************************)
(* The retransmissions noted with a flow's latest sample: never more than  *)
(* there were, and for an undisturbed flow every one since its first       *)
(* sample, although each sample writes the entry anew.                     *)
(***************************************************************************)
RetransCountIsReal ==
  \A k \in Keys : nd_tcp_flow_latest[k] # None =>
    /\ nd_tcp_flow_latest[k].retrans_count <= counted[k]
    /\ Undisturbed(k) /\ Quiet(k) => nd_tcp_flow_latest[k].retrans_count = counted[k]

(***************************************************************************)
(* What the help text at collector.go:60 says of                           *)
(* ebpf_tcp_retransmit_bursts_total: "TCP retransmission bursts exceeding  *)
(* the configured threshold": as many retransmissions within the length of *)
(* the window as the threshold says are a burst.                           *)
(***************************************************************************)
EveryBurstIsReported ==
  \A k \in Keys : Undisturbed(k) /\ Quiet(k) => (Dense(k, RetransBurst) => Reported(k))
=============================================================================
