------------------------------ MODULE TcpConn ------------------------------
(***************************************************************************)
(* TCP connection lifecycle: nd_inet_sock_set_state in                     *)
(* bpf/networkdoctor.bpf.c, which runs on every state change of a socket,  *)
(* the nd_tcp_conn_life map it keeps, and the per-CPU state deltas and     *)
(* counters the agent exports.                                             *)
(*                                                                         *)
(* A state change happens under the socket's lock and the entries of       *)
(* different sockets have different keys, so one handler is one step; but  *)
(* consecutive changes of one socket may run on different CPUs, the LRU    *)
(* map may drop an entry on behalf of another socket, updates and deletes  *)
(* of the map may fail unnoticed, the hook may be attached while           *)
(* connections exist, and a socket's address, the key of the map, is used  *)
(* again for later connections.                                            *)
(*                                                                         *)
(* FIN stands for every state between ESTABLISHED and CLOSE.               *)
(***************************************************************************)
EXTENDS LruMap, Integers, Functions

CONSTANTS
  Cpus,
  Ipv4,           \* the sockets of family AF_INET
  ShortTcpConn,   \* nd_config.short_tcp_conn_us after defaulting
  NsPerUs,        \* 1000 in the source
  MaxClock,       \* bound on time
  MaxMoves        \* bound on the number of state changes

ASSUME TcpAssumption ==
  /\ Ipv4 \subseteq Keys
  /\ ShortTcpConn \in Nat \ {0}
  /\ NsPerUs \in Nat \ {0}
  /\ MaxClock \in Nat \ {0}
  /\ MaxMoves \in Nat
ASSUME TcpNoneAssumption == None \notin Nat
ASSUME TcpFiniteAssumption == IsFiniteSet(Cpus) /\ IsFiniteSet(Ipv4)

Socks == Keys   \* numbered by address
States == {"CLOSE", "LISTEN", "SYN_SENT", "SYN_RECV", "ESTABLISHED", "FIN"}

VARIABLES
  clock,
  state,              \* the kernel's: state of each socket
  nd_tcp_conn_life,   \* the shared LRU map: socket -> start_ns
  nd_tcp_state_delta, \* per CPU and state
  nd_tcp_counters,    \* per CPU
  moves,              \* number of state changes, for the bound
  state0,             \* history: states when the hook was attached
  since,              \* history: when a socket became ESTABLISHED
  left,               \* history: connections that left ESTABLISHED
  kept,               \* history: sockets whose entry a failed delete has left
  short               \* history: what was counted as short-lived

vars == <<clock, state, nd_tcp_conn_life, nd_tcp_state_delta, nd_tcp_counters, moves,
          state0, since, left, kept, short>>

Counters == {"closed_total", "short_lived_total", "connect_attempt_total",
             "connect_failed_total"}

(* The hook is attached to a running kernel. *)
Init ==
  /\ clock = 1
  /\ state \in {t \in [Socks -> States] : \A s \in Socks \ Ipv4 : t[s] = "CLOSE"}
  /\ nd_tcp_conn_life = EmptyMap
  /\ nd_tcp_state_delta = [c \in Cpus |-> [t \in States |-> 0]]
  /\ nd_tcp_counters = [c \in Cpus |-> [f \in Counters |-> 0]]
  /\ moves = 0
  /\ state0 = state
  /\ since = EmptyMap
  /\ left = 0
  /\ kept = {}
  /\ short = {}

Tick ==
  /\ clock < MaxClock
  /\ clock' = clock + 1
  /\ UNCHANGED <<state, nd_tcp_conn_life, nd_tcp_state_delta, nd_tcp_counters, moves,
                 state0, since, left, kept, short>>

-----------------------------------------------------------------------------
(* The kernel: the state changes it makes and reports.                     *)

KernelMoves ==
  {<<"CLOSE", "SYN_SENT">>, <<"CLOSE", "LISTEN">>, <<"LISTEN", "CLOSE">>,
   <<"SYN_SENT", "ESTABLISHED">>, <<"SYN_SENT", "SYN_RECV">>, <<"SYN_SENT", "CLOSE">>,
   <<"SYN_RECV", "ESTABLISHED">>, <<"SYN_RECV", "FIN">>, <<"SYN_RECV", "CLOSE">>,
   <<"ESTABLISHED", "FIN">>, <<"ESTABLISHED", "CLOSE">>,
   <<"FIN", "FIN">>, <<"FIN", "CLOSE">>}

(* A socket cloned for a passive open takes free memory but carries the    *)
(* listener's state when it is set to SYN_RECV.                            *)
PassiveOpen == <<"LISTEN", "SYN_RECV">>

(* inet_sock_set_state reports a move of socket s. *)
KernelMove(s, old, new) ==
  /\ state[s] = IF <<old, new>> = PassiveOpen THEN "CLOSE" ELSE old
  /\ moves < MaxMoves
  /\ moves' = moves + 1
  /\ state' = [state EXCEPT ![s] = new]
  /\ UNCHANGED <<clock, state0>>

-----------------------------------------------------------------------------
(* The hook.                                                               *)

Duration(now, start) == IF now > start THEN (now - start) \div NsPerUs ELSE 0

IsShort_NoThreshold(us) == us > 0
IsShort(us) == us > 0 /\ us < ShortTcpConn

(* struct nd_tcp_conn_life life: only its start_ns is ever read. *)
Life_NoStart(now) == 0
Life(now) == now

SynState_Any(t) == TRUE
SynState(t) == t \in {"SYN_SENT", "SYN_RECV"}   \* TCP_NEW_SYN_RECV is never reported

(* nd_tcp_state_delta_add for the old and the new state, on this CPU. *)
StateDelta_NewOnly(c, old, new) ==
  nd_tcp_state_delta' = [nd_tcp_state_delta EXCEPT ![c][new] = @ + 1]
StateDelta(c, old, new) ==
  nd_tcp_state_delta' = [nd_tcp_state_delta EXCEPT
    ![c] = [t \in States |-> @[t] - (IF t = old THEN 1 ELSE 0)
                                  + (IF t = new THEN 1 ELSE 0)]]

Count(c, fields) ==
  nd_tcp_counters' = [nd_tcp_counters EXCEPT
    ![c] = [f \in Counters |-> IF f \in fields THEN @[f] + 1 ELSE @[f]]]

Attempt(new) ==
  IF new \in {"SYN_SENT", "SYN_RECV"} THEN {"connect_attempt_total"} ELSE {}

(* Not AF_INET: the handler returns at once. *)
Ignored(c, s, old, new) ==
  /\ s \notin Ipv4
  /\ KernelMove(s, old, new)
  /\ UNCHANGED <<nd_tcp_conn_life, nd_tcp_state_delta, nd_tcp_counters, since,
                 left, kept, short>>

Established(c, s, old, new) ==
  /\ s \in Ipv4
  /\ new = "ESTABLISHED"
  /\ KernelMove(s, old, new)
  /\ StateDelta(c, old, new)
  /\ nd_tcp_conn_life' \in LruUpdate(nd_tcp_conn_life, s, Life(clock))
  /\ since' = [since EXCEPT ![s] = clock]
  /\ kept' = IF nd_tcp_conn_life'[s] = Life(clock) THEN kept \ {s} ELSE kept
  /\ UNCHANGED <<nd_tcp_counters, left, short>>

(* The connection leaves ESTABLISHED and its entry is there... *)
Closed_KeepLife(c, s, old, new) ==
  LET life == nd_tcp_conn_life[s]
      us   == Duration(clock, life)
  IN  /\ s \in Ipv4
      /\ old = "ESTABLISHED" /\ new # "ESTABLISHED"
      /\ KernelMove(s, old, new)
      /\ StateDelta(c, old, new)
      /\ life # None
      /\ Count(c, {"closed_total"} \cup IF IsShort(us) THEN {"short_lived_total"} ELSE {})
      /\ short' = IF IsShort(us)
                    THEN short \cup {[since |-> since[s], at |-> clock, us |-> us]}
                    ELSE short
      /\ since' = [since EXCEPT ![s] = None]
      /\ left' = left + 1
      /\ UNCHANGED <<nd_tcp_conn_life, kept>>
Closed(c, s, old, new) ==
  LET life == nd_tcp_conn_life[s]
      us   == Duration(clock, life)
  IN  /\ s \in Ipv4
      /\ old = "ESTABLISHED" /\ new # "ESTABLISHED"
      /\ KernelMove(s, old, new)
      /\ StateDelta(c, old, new)
      /\ life # None
      /\ Count(c, {"closed_total"} \cup IF IsShort(us) THEN {"short_lived_total"} ELSE {})
      /\ nd_tcp_conn_life' \in LruDelete(nd_tcp_conn_life, s)
      /\ kept' = IF nd_tcp_conn_life'[s] = None THEN kept \ {s} ELSE kept \cup {s}
      /\ short' = IF IsShort(us)
                    THEN short \cup {[since |-> since[s], at |-> clock, us |-> us]}
                    ELSE short
      /\ since' = [since EXCEPT ![s] = None]
      /\ left' = left + 1

(* ...or not: it was established before the hook was attached, or the map  *)
(* has dropped its entry.                                                  *)
ClosedUnseen(c, s, old, new) ==
  /\ s \in Ipv4
  /\ old = "ESTABLISHED" /\ new # "ESTABLISHED"
  /\ KernelMove(s, old, new)
  /\ StateDelta(c, old, new)
  /\ nd_tcp_conn_life[s] = None
  /\ since' = [since EXCEPT ![s] = None]
  /\ left' = left + 1
  /\ UNCHANGED <<nd_tcp_conn_life, nd_tcp_counters, kept, short>>

(* Any other change: a connect attempt, a failed one, or neither. *)
OtherMove(c, s, old, new) ==
  /\ s \in Ipv4
  /\ old # "ESTABLISHED" /\ new # "ESTABLISHED"
  /\ KernelMove(s, old, new)
  /\ StateDelta(c, old, new)
  /\ Count(c, Attempt(new) \cup IF SynState(old) /\ new = "CLOSE"
                                  THEN {"connect_failed_total"} ELSE {})
  /\ UNCHANGED <<nd_tcp_conn_life, since, left, kept, short>>

-----------------------------------------------------------------------------
SetState(c, s, old, new) ==
  \/ Ignored(c, s, old, new)
  \/ Established(c, s, old, new)
  \/ Closed(c, s, old, new)
  \/ ClosedUnseen(c, s, old, new)
  \/ OtherMove(c, s, old, new)

Next ==
  \/ Tick
  \/ \E c \in Cpus, s \in Socks, m \in KernelMoves \cup {PassiveOpen} :
       SetState(c, s, m[1], m[2])

Spec == Init /\ [][Next]_vars

-----------------------------------------------------------------------------
(* Properties.                                                             *)

TypeOK ==
  /\ clock \in 1..MaxClock
  /\ state \in [Socks -> States] /\ state0 \in [Socks -> States]
  /\ nd_tcp_conn_life \in [Socks -> (1..MaxClock) \cup {None}]
  /\ nd_tcp_state_delta \in [Cpus -> [States -> Int]]
  /\ nd_tcp_counters \in [Cpus -> [Counters -> Nat]]
  /\ moves \in 0..MaxMoves
  /\ since \in [Socks -> (1..MaxClock) \cup {None}]
  /\ left \in Nat
  /\ kept \subseteq Socks

(* sumTCPState and sumTCPCounters of internal/bpf/reader.go. *)
Gauge(t) == SumFunction([c \in Cpus |-> nd_tcp_state_delta[c][t]])
Total(f) == SumFunction([c \in Cpus |-> nd_tcp_counters[c][f]])
In(st, t) == Cardinality({s \in Ipv4 : st[s] = t})

(***************************************************************************)
(* The exported gauge (sumTCPState over nd_tcp_state_delta): whichever     *)
(* CPUs a socket's changes run on, the sum over the CPUs is the number of  *)
(* IPv4 sockets in that state now, less those that were in it when the     *)
(* hook was attached.  CLOSE and LISTEN, which are not exported, drift     *)
(* with every passive open.                                                *)
(***************************************************************************)
GaugeIsDelta ==
  \A t \in States \ {"CLOSE", "LISTEN"} : Gauge(t) = In(state, t) - In(state0, t)

(***************************************************************************)
(* An entry of nd_tcp_conn_life is about the connection its socket has     *)
(* now: no earlier connection of the same address leaves its start time    *)
(* behind, although entries vanish and updates fail.  Only a failed delete *)
(* can, until an update of the key succeeds, and what it leaves is never   *)
(* later than the present connection.                                      *)
(***************************************************************************)
LifeIsCurrent ==
  \A s \in Socks : nd_tcp_conn_life[s] # None =>
    /\ s \in Ipv4
    /\ s \notin kept => state[s] = "ESTABLISHED" /\ nd_tcp_conn_life[s] = since[s]
    /\ since[s] # None => nd_tcp_conn_life[s] <= since[s]

(***************************************************************************)
(* A connection counted as short-lived was ESTABLISHED, under the eyes of  *)
(* the hook, for less than the threshold: an entry that an earlier         *)
(* connection left behind makes a lifetime longer, never shorter.          *)
(***************************************************************************)
ShortLivedIsShort ==
  \A v \in short :
    /\ v.since # None
    /\ (v.at - v.since) \div NsPerUs <= v.us
    /\ v.us < ShortTcpConn

(***************************************************************************)
(* The counters never claim more than happened: closed connections did     *)
(* leave ESTABLISHED, and every failed connect was an attempt seen before  *)
(* or one under way when the hook was attached.                            *)
(***************************************************************************)
CountersWithinEvents ==
  /\ Total("short_lived_total") <= Total("closed_total")
  /\ Total("closed_total") <= left
  /\ Total("connect_failed_total")
       <= Total("connect_attempt_total") + In(state0, "SYN_SENT") + In(state0, "SYN_RECV")

(***************************************************************************)
(* What the comment at line 668 says: "Count a connection as closed once   *)
(* it leaves ESTABLISHED."                                                 *)
(***************************************************************************)
EveryLeaveIsCounted == Total("closed_total") = left
=============================================================================
