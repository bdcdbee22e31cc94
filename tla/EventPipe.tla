----------------------------- MODULE EventPipe -----------------------------
(***************************************************************************)
(* The event pipeline: nd_submit_event and nd_submit_event_no_pid of       *)
(* bpf/networkdoctor.bpf.c on several CPUs, the ring buffer between kernel *)
(* and agent, ReadEvent and RunEventWorker, and of app.Run and             *)
(* Runtime.Close what decides when the ring is read, when its reader is    *)
(* closed and when the hooks are detached.                                 *)
(*                                                                         *)
(* A place in the ring is taken by bpf_ringbuf_reserve, in order, and is   *)
(* readable after bpf_ringbuf_submit, in any order; the reader stops at a  *)
(* place that is not readable yet.  ringbuf.Reader (cilium/ebpf) waits for *)
(* data only after it has found the ring empty; while it knows of data, it *)
(* spins at a place that is not readable.  It holds a lock during Read;    *)
(* its Close first ends the waiting of a Read and then takes that lock.    *)
(***************************************************************************)
EXTENDS Naturals, Sequences, Functions

CONSTANTS
  Cpus,
  Slots,         \* records the ring has room for: 1 << 20 bytes in the source
  Fallible,      \* which calls of ReadEvent may fail: "read", "decode"
  MaxEvents,     \* bound on the number of anomalies
  MaxErrors      \* bound on the number of errors of ReadEvent

ASSUME PipeAssumption ==
  /\ Slots \in Nat \ {0}
  /\ Fallible \subseteq {"read", "decode"}
  /\ MaxEvents \in Nat /\ MaxErrors \in Nat

VARIABLES
  ring,     \* the ring buffer: records with their number and CPU
  cpu,      \* the record a CPU has reserved and not submitted, 0 for none
  main,     \* the main goroutine: "serve", "close", "detach", "down"
  ctxDone,  \* the context of app.Run has been cancelled by a signal
  reader,   \* "open", "closing" once waiting is ended, "closed"
  worker,   \* RunEventWorker: "call", "read", "log", "done"
  haveData, \* the ring's reader has not found it empty since it last waited
  evt,      \* the record the worker has in hand, 0 for none
  events,   \* history: anomalies reported
  accepted, \* history: those that found room in the ring
  skipped,  \* history: records that could not be decoded
  logged,   \* history: what the worker has logged
  errors    \* number of errors of ReadEvent, for the bound

hookVars == <<cpu, events, accepted>>
workerVars == <<worker, haveData, evt, skipped, logged, errors>>
mainVars == <<main, ctxDone, reader>>
vars == <<ring, hookVars, workerVars, mainVars>>

Init ==
  /\ ring = <<>>
  /\ cpu = [c \in Cpus |-> 0]
  /\ main = "serve"
  /\ ctxDone = FALSE
  /\ reader = "open"
  /\ worker = "call"
  /\ haveData = FALSE
  /\ evt = 0
  /\ events = 0
  /\ accepted = {}
  /\ skipped = {}
  /\ logged = <<>>
  /\ errors = 0

Attached == main \in {"serve", "close"}
Readable(r) == cpu[r.cpu] # r.id

-----------------------------------------------------------------------------
(* nd_submit_event: a hook has found an anomaly.                           *)

(* bpf_ringbuf_reserve; the hooks go on until closeAll has detached them. *)
Reserve_Overwrite(c) ==
  /\ Attached /\ cpu[c] = 0 /\ events < MaxEvents
  /\ events' = events + 1
  /\ cpu' = [cpu EXCEPT ![c] = events + 1]
  /\ ring' = Append(IF Len(ring) < Slots THEN ring ELSE Tail(ring),
                    [id |-> events + 1, cpu |-> c])
  /\ accepted' = accepted \cup {events + 1}
  /\ UNCHANGED <<workerVars, mainVars>>
Reserve_NoLimit(c) ==
  /\ Attached /\ cpu[c] = 0 /\ events < MaxEvents
  /\ events' = events + 1
  /\ cpu' = [cpu EXCEPT ![c] = events + 1]
  /\ ring' = Append(ring, [id |-> events + 1, cpu |-> c])
  /\ accepted' = accepted \cup {events + 1}
  /\ UNCHANGED <<workerVars, mainVars>>
Reserve(c) ==
  /\ Attached /\ cpu[c] = 0 /\ events < MaxEvents
  /\ Len(ring) < Slots
  /\ events' = events + 1
  /\ cpu' = [cpu EXCEPT ![c] = events + 1]
  /\ ring' = Append(ring, [id |-> events + 1, cpu |-> c])
  /\ accepted' = accepted \cup {events + 1}
  /\ UNCHANGED <<workerVars, mainVars>>

(* No room: the anomaly is forgotten, and nothing counts it. *)
Drop(c) ==
  /\ Attached /\ cpu[c] = 0 /\ events < MaxEvents
  /\ Len(ring) = Slots
  /\ events' = events + 1
  /\ UNCHANGED <<ring, cpu, accepted, workerVars, mainVars>>

(* nd_fill_event and bpf_ringbuf_submit; a hook that has begun ends, also  *)
(* if it is detached meanwhile.                                            *)
Submit(c) ==
  /\ cpu[c] # 0
  /\ cpu' = [cpu EXCEPT ![c] = 0]
  /\ UNCHANGED <<ring, events, accepted, workerVars, mainVars>>

-----------------------------------------------------------------------------
(* ReadEvent and RunEventWorker.                                           *)

WorkerRuns == main # "down"

(* r.reader.Read(): takes the reader's lock, unless it is closed... *)
Call ==
  /\ WorkerRuns /\ worker = "call" /\ reader # "closed"
  /\ worker' = "read"
  /\ UNCHANGED <<ring, hookVars, haveData, evt, skipped, logged, errors, mainVars>>

(* ...waits until there is something in the ring, be it only reserved...   *)
Wait ==
  /\ WorkerRuns /\ worker = "read" /\ ~haveData
  /\ reader = "open" /\ ring # <<>>
  /\ haveData' = TRUE
  /\ UNCHANGED <<ring, hookVars, worker, evt, skipped, logged, errors, mainVars>>

(* ...until it has come to the end of the ring... *)
EndOfRing ==
  /\ WorkerRuns /\ worker = "read" /\ haveData
  /\ ring = <<>>
  /\ haveData' = FALSE
  /\ UNCHANGED <<ring, hookVars, worker, evt, skipped, logged, errors, mainVars>>

(* ...and returns the next record, once that is readable. *)
Read_NotAdvanced ==
  /\ WorkerRuns /\ worker = "read" /\ haveData
  /\ ring # <<>> /\ Readable(Head(ring))
  /\ evt' = Head(ring).id
  /\ worker' = "log"
  /\ UNCHANGED <<ring, hookVars, haveData, skipped, logged, errors, mainVars>>
Read ==
  /\ WorkerRuns /\ worker = "read" /\ haveData
  /\ ring # <<>> /\ Readable(Head(ring))
  /\ ring' = Tail(ring)
  /\ evt' = Head(ring).id
  /\ worker' = "log"
  /\ UNCHANGED <<hookVars, haveData, skipped, logged, errors, mainVars>>

(* What the loop does about an error that is not ErrEventReaderClosed. *)
AfterError_Return == "done"
AfterError == IF ctxDone THEN "done" ELSE "call"

(* binary.Read cannot decode the record, which is gone from the ring. *)
DecodeFails ==
  /\ "decode" \in Fallible /\ errors < MaxErrors
  /\ WorkerRuns /\ worker = "read" /\ haveData
  /\ ring # <<>> /\ Readable(Head(ring))
  /\ ring' = Tail(ring)
  /\ skipped' = skipped \cup {Head(ring).id}
  /\ worker' = AfterError
  /\ errors' = errors + 1
  /\ UNCHANGED <<hookVars, haveData, evt, logged, mainVars>>

(* Read fails for a reason of its own.  ReadEvent calls it closing if the  *)
(* context is done.                                                        *)
ReadFails ==
  /\ "read" \in Fallible /\ errors < MaxErrors
  /\ WorkerRuns /\ worker = "read"
  /\ worker' = AfterError
  /\ errors' = errors + 1
  /\ UNCHANGED <<ring, hookVars, haveData, evt, skipped, logged, mainVars>>

(* ErrClosed: from a Read that has nothing to do but wait, or from one     *)
(* that comes too late.                                                    *)
ReadClosed_NotWoken ==
  /\ WorkerRuns
  /\ worker = "call" /\ reader = "closed"
  /\ worker' = "done"
  /\ UNCHANGED <<ring, hookVars, haveData, evt, skipped, logged, errors, mainVars>>
ReadClosed ==
  /\ WorkerRuns
  /\ \/ worker = "read" /\ ~haveData /\ reader = "closing"
     \/ worker = "call" /\ reader = "closed"
  /\ worker' = "done"
  /\ UNCHANGED <<ring, hookVars, haveData, evt, skipped, logged, errors, mainVars>>

LogEvent ==
  /\ WorkerRuns /\ worker = "log"
  /\ logged' = Append(logged, evt)
  /\ evt' = 0
  /\ worker' = "call"
  /\ UNCHANGED <<ring, hookVars, haveData, skipped, errors, mainVars>>

-----------------------------------------------------------------------------
(* app.Run and Runtime.Close.                                              *)

(* SIGINT or SIGTERM, at any time before the process is gone. *)
Signal ==
  /\ main # "down" /\ ~ctxDone
  /\ ctxDone' = TRUE
  /\ UNCHANGED <<ring, hookVars, workerVars, main, reader>>

(* Serve returns, after a signal and the shutdown or with an error of the  *)
(* listener; the deferred Close begins by ending the reader's waiting.     *)
ServeReturns ==
  /\ main = "serve"
  /\ main' = "close"
  /\ reader' = "closing"
  /\ UNCHANGED <<ring, hookVars, workerVars, ctxDone>>

(* reader.Close has the lock, so no Read is under way... *)
ReaderClosed ==
  /\ main = "close" /\ reader = "closing" /\ worker # "read"
  /\ reader' = "closed"
  /\ UNCHANGED <<ring, hookVars, workerVars, main, ctxDone>>

(* ...closeAll detaches the hooks... *)
Detach ==
  /\ main = "close" /\ reader = "closed"
  /\ main' = "detach"
  /\ UNCHANGED <<ring, hookVars, workerVars, ctxDone, reader>>

(* ...the maps are closed, and main returns: the end of all goroutines. *)
Exit ==
  /\ main = "detach"
  /\ main' = "down"
  /\ UNCHANGED <<ring, hookVars, workerVars, ctxDone, reader>>

-----------------------------------------------------------------------------
Hook(c) == Reserve(c) \/ Drop(c) \/ Submit(c)

Worker ==
  \/ Call \/ Wait \/ EndOfRing \/ Read
  \/ DecodeFails \/ ReadFails \/ ReadClosed
  \/ LogEvent

Close == ReaderClosed \/ Detach \/ Exit

Next == (\E c \in Cpus : Hook(c)) \/ Worker \/ Signal \/ ServeReturns \/ Close

Spec == Init /\ [][Next]_vars

(***************************************************************************)
(* Fairness: a hook that has begun ends, the worker's goroutine and, while *)
(* it closes, the main goroutine are scheduled, a signal ends Serve (five  *)
(* seconds at most).  No anomaly need occur and nobody need send a signal. *)
(***************************************************************************)
Fairness ==
  /\ \A c \in Cpus : WF_vars(Submit(c))
  /\ WF_vars(Worker)
  /\ WF_vars(Close)
  /\ WF_vars(ctxDone /\ ServeReturns)

FairSpec == Spec /\ Fairness

-----------------------------------------------------------------------------
(* Properties.                                                             *)

Record == [id : 1..MaxEvents, cpu : Cpus]

TypeOK ==
  /\ ring \in Seq(Record) /\ Len(ring) <= Slots
  /\ cpu \in [Cpus -> 0..MaxEvents]
  /\ main \in {"serve", "close", "detach", "down"}
  /\ ctxDone \in BOOLEAN
  /\ reader \in {"open", "closing", "closed"}
  /\ worker \in {"call", "read", "log", "done"} /\ haveData \in BOOLEAN
  /\ evt \in 0..MaxEvents
  /\ events \in 0..MaxEvents /\ errors \in 0..MaxErrors
  /\ logged \in Seq(1..MaxEvents)
  /\ accepted \subseteq 1..MaxEvents /\ skipped \subseteq accepted

(* What is between acceptance and log, oldest first. *)
InHand == IF evt = 0 THEN <<>> ELSE <<evt>>
Numbers(records) == [i \in DOMAIN records |-> records[i].id]
OnTheWay == InHand \o Numbers(ring)

(***************************************************************************)
(* Nothing that found room in the ring disappears inside the agent: the    *)
(* log continued by what is still on its way is, together with the         *)
(* undecodable ones, exactly what was accepted, and is in the order in     *)
(* which the anomalies were reported.  No record is logged twice.          *)
(***************************************************************************)
EveryRecordAccounted ==
  LET seen == logged \o OnTheWay
  IN  /\ \A i, j \in DOMAIN seen : i < j => seen[i] < seen[j]
      /\ Range(seen) = accepted \ skipped

(***************************************************************************)
(* An anomaly that found room in the ring is logged, or skipped as         *)
(* undecodable, unless the agent is told to stop first; the worker goes on *)
(* after any error of ReadEvent, and a place that another CPU reserved     *)
(* before and has not filled holds it up only until that CPU is done.      *)
(***************************************************************************)
AcceptedIsLogged ==
  \A i \in 1..MaxEvents :
    i \in accepted ~> i \in Range(logged) \cup skipped \/ ctxDone \/ main # "serve"

(***************************************************************************)
(* A signal, even one during Close, ends the process although Close has to *)
(* wait for the reader's lock: a worker waiting at an empty ring holds it  *)
(* until it is woken, one spinning at a busy record until that record is   *)
(* submitted and the ring read to its end.                                 *)
(***************************************************************************)
CloseEnds == ctxDone ~> main = "down"

(* The pipeline as a log of anomalies with room for the ring's records and *)
(* the one in the worker's hands.                                          *)
Promise == INSTANCE AnomalyLog WITH
  Anomalies <- 1..MaxEvents,
  Room <- Slots + 1,
  onTheWay <- IF main = "down" THEN <<>> ELSE OnTheWay,
  log <- logged,
  up <- main # "down"

(***************************************************************************)
(* The pipeline implements AnomalyLog, liveness included.                  *)
(***************************************************************************)
ImplementsAnomalyLog == Promise!Spec
=============================================================================
