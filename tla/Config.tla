------------------------------- MODULE Config -------------------------------
(***************************************************************************)
(* The thresholds on their way from the flags to the verdicts of the       *)
(* hooks: ParseFlags keeps durations in nanoseconds, app.Run turns them    *)
(* into unsigned options, writeConfig stores these in the one entry of the *)
(* map nd_config, and nd_get_config replaces zeros by defaults.            *)
(***************************************************************************)
EXTENDS Integers

CONSTANTS
  Word,      \* 2^64 in the source
  NsPerUs,   \* 1000 in the source
  Defaults   \* the ND_DEFAULT_ constants, by field of struct nd_config

UsFields == {"slow_tcp_rtt_us", "short_tcp_conn_us", "slow_dns_us", "long_udp_flow_us",
             "high_runqlat_us"}
NsFields == {"retrans_burst_window_ns", "event_cooldown_ns"}
CountFields == {"retrans_burst_count", "cwnd_drop_percent"}
Fields == UsFields \cup NsFields \cup CountFields

ASSUME ConfigAssumption ==
  /\ Word \in Nat \ {0} /\ NsPerUs \in 1..(Word - 1)
  /\ Defaults \in [Fields -> 1..(Word - 1)]

(* What the flags can be: durations, which are signed words, and unsigned  *)
(* counts.                                                                 *)
IsFlags(flags) ==
  /\ flags \in [Fields -> Int]
  /\ \A f \in UsFields \cup NsFields : -Word <= 2 * flags[f] /\ 2 * flags[f] < Word
  /\ \A f \in CountFields : flags[f] \in 0..(Word - 1)

(* Integer division of Go: towards zero. *)
Quo(a, b) == IF a >= 0 THEN a \div b ELSE -((-a) \div b)

(* The conversion of a signed to an unsigned word. *)
Uint64(x) == x % Word

(* bpf.Options as app.Run fills it, and struct nd_config as writeConfig    *)
(* stores it, field by field.                                              *)
Options_Up(flags) ==
  [f \in Fields |->
     CASE f \in UsFields    -> Uint64(Quo(flags[f] + NsPerUs - 1, NsPerUs))
       [] f \in NsFields    -> Uint64(flags[f])
       [] f \in CountFields -> flags[f]]
Options(flags) ==
  [f \in Fields |->
     CASE f \in UsFields    -> Uint64(Quo(flags[f], NsPerUs))
       [] f \in NsFields    -> Uint64(flags[f])
       [] f \in CountFields -> flags[f]]

(* The entry of nd_config until it is written: an array map is all zeros. *)
Unwritten == [f \in Fields |-> 0]

nd_get_config(cfg) == [f \in Fields |-> IF cfg[f] # 0 THEN cfg[f] ELSE Defaults[f]]

-----------------------------------------------------------------------------
(* The comparisons of the hooks, on a latency in nanoseconds...            *)

IsAtLeast(cfg, f, ns) == ns \div NsPerUs >= cfg[f]
IsShort(cfg, ns) ==
  LET us == ns \div NsPerUs IN us > 0 /\ us < cfg["short_tcp_conn_us"]

(* ...on the age of a retransmission window, on the time since an event. *)
IsInWindow(cfg, ns) == ns > 0 /\ ns <= cfg["retrans_burst_window_ns"]
IsCooledDown(cfg, last, now) == now > (last + cfg["event_cooldown_ns"]) % Word

-----------------------------------------------------------------------------
(***************************************************************************)
(* What the flags mean for the verdicts under cfg, for all latencies and   *)
(* times up to max:                                                        *)
(*   - a threshold of a microsecond or more is met from the flag on and    *)
(*     less than a microsecond before it;                                  *)
(*   - one that is cut to zero is the default;                             *)
(*   - a negative one of a microsecond or more is out of reach, so that    *)
(*     nothing is slow and every connection short;                         *)
(*   - the window and the cooldown are exact, zero is the default, a       *)
(*     negative window never ends, and a negative cooldown silences the    *)
(*     first event of every flow and so all of them.                       *)
(***************************************************************************)
AtLeastFollows(cfg, flag, f, max) ==
  \A ns \in 0..max :
    IF flag >= NsPerUs
      THEN /\ ns >= flag => IsAtLeast(cfg, f, ns)
           /\ IsAtLeast(cfg, f, ns) => ns > flag - NsPerUs
      ELSE IsAtLeast(cfg, f, ns) <=> flag > -NsPerUs /\ ns >= NsPerUs * Defaults[f]

ShortFollows(cfg, flag, max) ==
  \A ns \in NsPerUs..max :
    IF flag >= NsPerUs
      THEN IsShort(cfg, ns) <=> ns \div NsPerUs < flag \div NsPerUs
      ELSE IsShort(cfg, ns)
             <=> flag <= -NsPerUs \/ ns < NsPerUs * Defaults["short_tcp_conn_us"]

WindowFollows(cfg, flag, max) ==
  \A ns \in 1..max :
    IsInWindow(cfg, ns)
      <=> \/ flag < 0
          \/ ns <= IF flag = 0 THEN Defaults["retrans_burst_window_ns"] ELSE flag

CooldownFollows(cfg, flag, max) ==
  \A now \in 1..max :
    IF flag < 0
      THEN ~IsCooledDown(cfg, 0, now)
      ELSE \A last \in 0..now :
             IsCooledDown(cfg, last, now)
               <=> now - last > IF flag = 0 THEN Defaults["event_cooldown_ns"] ELSE flag

Follows(cfg, flags, max) ==
  /\ \A f \in UsFields \ {"short_tcp_conn_us"} : AtLeastFollows(cfg, flags[f], f, max)
  /\ ShortFollows(cfg, flags["short_tcp_conn_us"], max)
  /\ WindowFollows(cfg, flags["retrans_burst_window_ns"], max)
  /\ CooldownFollows(cfg, flags["event_cooldown_ns"], max)
  /\ \A f \in CountFields : cfg[f] = IF flags[f] = 0 THEN Defaults[f] ELSE flags[f]
=============================================================================
