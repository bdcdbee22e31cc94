----------------------------- MODULE AnomalyLog -----------------------------
(***************************************************************************)
(* What the event pipeline promises: the anomalies it has accepted are     *)
(* logged in the order in which they were accepted, each at most once, and *)
(* never more than Room of them are on their way.  What it does not        *)
(* promise: an anomaly may be refused, an unreadable one skipped, and the  *)
(* end of the agent takes with it whatever is on its way.                  *)
(***************************************************************************)
EXTENDS Naturals, Sequences

CONSTANTS
  Anomalies,  \* everything the hooks can report
  Room        \* how many accepted anomalies there is room for

VARIABLES
  onTheWay,   \* accepted and not yet logged
  log,        \* what the agent has logged
  up          \* the agent runs

vars == <<onTheWay, log, up>>

Init ==
  /\ onTheWay = <<>>
  /\ log = <<>>
  /\ up = TRUE

Accept(a) ==
  /\ up /\ Len(onTheWay) < Room
  /\ onTheWay' = Append(onTheWay, a)
  /\ UNCHANGED <<log, up>>

Log ==
  /\ up /\ onTheWay # <<>>
  /\ log' = Append(log, Head(onTheWay))
  /\ onTheWay' = Tail(onTheWay)
  /\ UNCHANGED up

Skip ==
  /\ up /\ onTheWay # <<>>
  /\ onTheWay' = Tail(onTheWay)
  /\ UNCHANGED <<log, up>>

End ==
  /\ up
  /\ up' = FALSE
  /\ onTheWay' = <<>>
  /\ UNCHANGED log

Next == (\E a \in Anomalies : Accept(a)) \/ Log \/ Skip \/ End

Safety == Init /\ [][Next]_vars

(* An anomaly on its way does not stay there. *)
Spec == Safety /\ WF_vars(Log \/ Skip)
=============================================================================
