------------------------------- MODULE Agent -------------------------------
(***************************************************************************)
(* The life of the agent process: app.Run, bpf.Start with everything that  *)
(* can fail in it, metrics.Serve, and Runtime.Close; and of the kernel     *)
(* state it leaves on the interface.                                       *)
(*                                                                         *)
(* Links to tracepoints and the kprobe are file descriptors and go with    *)
(* the process.  The TC filters do not: they stay on the interface until   *)
(* somebody deletes or replaces them, so what a process leaves behind      *)
(* matters to the next one.  A process is one member of Procs, started     *)
(* once; a restart is another member.  Nothing keeps somebody from         *)
(* starting a second agent on the interface while the first one runs.      *)
(***************************************************************************)
EXTENDS Config, Sequences, FiniteSets, SequencesExt

CONSTANTS
  Procs,        \* incarnations of the agent
  None,         \* no filter
  Hooks,        \* the raw tracepoints and the kprobe, in attachment order
  Fallible,     \* the calls that may fail
  GcIntervals,  \* values of -gc-interval to consider: 0 stands for <= 0
  Flags,        \* threshold flags to consider
  MaxLatency    \* bound on the latencies and times whose verdicts are compared

Dirs == {"ingress", "egress"}
StartSteps == {"memlock", "load", "config", "attach", "link", "qdisc", "ingress",
               "egress", "ring"}

ASSUME AgentAssumption ==
  /\ None \notin Procs
  /\ Hooks \in Seq(STRING) /\ Hooks # <<>> /\ Range(Hooks) \cap Dirs = {}
  /\ Fallible \subseteq StartSteps \cup {"filterdel", "listen"}
  /\ GcIntervals \subseteq {0, 1}
  /\ \A flags \in Flags : IsFlags(flags)
  /\ MaxLatency \in Nat /\ 2 * MaxLatency < Word
  /\ MaxLatency + Defaults["event_cooldown_ns"] < Word

VARIABLES
  pc,        \* where each process is
  interval,  \* its -gc-interval
  signalled, \* processes whose context is done (SIGTERM or SIGINT)
  objs,      \* processes with BPF objects loaded
  configured, \* processes whose nd_config holds their options
  closers,   \* rt.links of each process
  filter,    \* the interface: whose program is the filter of a direction
  scraping,  \* processes with a scrape in flight
  joined,    \* history: processes that ran beside another one
  killed,    \* history: processes that died without running Run's defers
  excused,   \* history: filters a failed system call left in place
  forced,    \* history: processes that closed with requests in flight
  blind      \* history: processes that answered a scrape from closed maps

histVars == <<joined, killed, excused, forced, blind>>
vars == <<pc, interval, signalled, objs, configured, closers, filter, scraping, histVars>>

Init ==
  /\ pc = [p \in Procs |-> "new"]
  /\ interval = [p \in Procs |-> 1]
  /\ signalled = {}
  /\ objs = {}
  /\ configured = {}
  /\ closers = [p \in Procs |-> <<>>]
  /\ filter = [d \in Dirs |-> None]
  /\ scraping = {}
  /\ joined = {}
  /\ killed = {}
  /\ excused = {}
  /\ forced = {}
  /\ blind = {}

Alive(p) == pc[p] \notin {"new", "down"}
Goto(p, from, to) == pc[p] = from /\ pc' = [pc EXCEPT ![p] = to]

-----------------------------------------------------------------------------
(* app.Run and bpf.Start.                                                  *)

Launch(p) ==
  LET others == {q \in Procs : Alive(q)}
  IN  /\ Goto(p, "new", "memlock")
      /\ \E n \in GcIntervals : interval' = [interval EXCEPT ![p] = n]
      /\ joined' = IF others = {} THEN joined ELSE joined \cup others \cup {p}
      /\ UNCHANGED <<signalled, objs, configured, closers, filter, scraping, killed, excused,
                     forced, blind>>

(* SIGTERM or SIGINT: only noted, until Serve looks at the context. *)
Signal(p) ==
  /\ Alive(p) /\ p \notin signalled
  /\ signalled' = signalled \cup {p}
  /\ UNCHANGED <<pc, interval, objs, configured, closers, filter, scraping, histVars>>

RemoveMemlock(p) ==
  /\ Goto(p, "memlock", "load")
  /\ UNCHANGED <<interval, signalled, objs, configured, closers, filter, scraping,
                 histVars>>

LoadObjects(p) ==
  /\ Goto(p, "load", "config")
  /\ objs' = objs \cup {p}
  /\ UNCHANGED <<interval, signalled, configured, closers, filter, scraping, histVars>>

WriteConfig_Lost(p) ==
  /\ Goto(p, "config", "attach")
  /\ UNCHANGED <<interval, signalled, objs, configured, closers, filter, scraping, histVars>>
WriteConfig(p) ==
  /\ Goto(p, "config", "attach")
  /\ configured' = configured \cup {p}
  /\ UNCHANGED <<interval, signalled, objs, closers, filter, scraping, histVars>>

(* The next raw tracepoint, and the kprobe at the end. *)
AttachHook(p) ==
  LET n == Len(closers[p]) + 1
  IN  /\ Goto(p, "attach", IF n = Len(Hooks) THEN "link" ELSE "attach")
      /\ closers' = [closers EXCEPT ![p] = Append(@, Hooks[n])]
      /\ UNCHANGED <<interval, signalled, objs, configured, filter, scraping, histVars>>

(* attachTC: the interface is looked up and its clsact qdisc added, which  *)
(* may be there already... *)
FindInterface(p) ==
  /\ Goto(p, "link", "qdisc")
  /\ UNCHANGED <<interval, signalled, objs, configured, closers, filter, scraping,
                 histVars>>

AddQdisc(p) ==
  /\ Goto(p, "qdisc", "ingress")
  /\ UNCHANGED <<interval, signalled, objs, configured, closers, filter, scraping,
                 histVars>>

(* ...and the filters put in place of whatever has their handles.  Their   *)
(* closers exist only once both are there.                                 *)
ReplaceFilter_KeepOld(p, d) ==
  /\ Goto(p, d, IF d = "ingress" THEN "egress" ELSE "ring")
  /\ filter' = IF filter[d] = None THEN [filter EXCEPT ![d] = p] ELSE filter
  /\ closers' = IF d = "egress"
                  THEN [closers EXCEPT ![p] = @ \o <<"ingress", "egress">>]
                  ELSE closers
  /\ UNCHANGED <<interval, signalled, objs, configured, scraping, histVars>>
ReplaceFilter_BothEachTime(p, d) ==
  /\ Goto(p, d, IF d = "ingress" THEN "egress" ELSE "ring")
  /\ filter' = [filter EXCEPT ![d] = p]
  /\ closers' = [closers EXCEPT ![p] = @ \o <<"ingress", "egress">>]
  /\ UNCHANGED <<interval, signalled, objs, configured, scraping, histVars>>
ReplaceFilter(p, d) ==
  /\ Goto(p, d, IF d = "ingress" THEN "egress" ELSE "ring")
  /\ filter' = [filter EXCEPT ![d] = p]
  /\ closers' = IF d = "egress"
                  THEN [closers EXCEPT ![p] = @ \o <<"ingress", "egress">>]
                  ELSE closers
  /\ UNCHANGED <<interval, signalled, objs, configured, scraping, histVars>>

(* The ring buffer reader is the last thing to open; Serve follows. *)
OpenReader(p) ==
  /\ Goto(p, "ring", "up")
  /\ UNCHANGED <<interval, signalled, objs, configured, closers, filter, scraping,
                 histVars>>

(* A step fails: Start closes what it knows of and returns the error.  Of   *)
(* the two filters it knows only once both are in place.                   *)
StartFails(p) ==
  /\ pc[p] \in Fallible
  /\ Goto(p, pc[p], "abort")
  /\ excused' = IF pc[p] = "egress" THEN excused \cup {<<p, "ingress">>} ELSE excused
  /\ UNCHANGED <<interval, signalled, objs, configured, closers, filter, scraping, joined,
                 killed, forced, blind>>

-----------------------------------------------------------------------------
(* metrics.Serve and the workers.                                          *)

ScrapeBegin(p) ==
  /\ pc[p] = "up" /\ p \notin scraping
  /\ scraping' = scraping \cup {p}
  /\ UNCHANGED <<pc, interval, signalled, objs, configured, closers, filter, histVars>>

(* A map that is closed reads as zero (sumU64PerCPU and its siblings). *)
ScrapeEnd(p) ==
  /\ p \in scraping
  /\ scraping' = scraping \ {p}
  /\ blind' = IF p \in objs THEN blind ELSE blind \cup {p}
  /\ UNCHANGED <<pc, interval, signalled, objs, configured, closers, filter, joined, killed,
                 excused, forced>>

(* ListenAndServe returns an error: Serve, and with it Run, returns. *)
ServeFails(p) ==
  /\ "listen" \in Fallible
  /\ Goto(p, "up", "close")
  /\ forced' = forced \cup {p}
  /\ UNCHANGED <<interval, signalled, objs, configured, closers, filter, scraping, joined,
                 killed, excused, blind>>

(* The context is done: Shutdown stops listening and waits... *)
ShutdownBegin(p) ==
  /\ p \in signalled
  /\ Goto(p, "up", "drain")
  /\ UNCHANGED <<interval, signalled, objs, configured, closers, filter, scraping,
                 histVars>>

(* ...for the requests in flight... *)
Drained_AtOnce(p) ==
  /\ Goto(p, "drain", "close")
  /\ UNCHANGED <<interval, signalled, objs, configured, closers, filter, scraping,
                 histVars>>
Drained(p) ==
  /\ p \notin scraping
  /\ Goto(p, "drain", "close")
  /\ UNCHANGED <<interval, signalled, objs, configured, closers, filter, scraping,
                 histVars>>

(* ...but not longer than five seconds. *)
ShutdownTimeout_None(p) == FALSE /\ UNCHANGED vars
ShutdownTimeout(p) ==
  /\ p \in scraping
  /\ Goto(p, "drain", "close")
  /\ forced' = forced \cup {p}
  /\ UNCHANGED <<interval, signalled, objs, configured, closers, filter, scraping, joined,
                 killed, excused, blind>>

(* What the end of a process takes with it, whatever ends it. *)
Gone(p) ==
  /\ objs' = objs \ {p}
  /\ closers' = [closers EXCEPT ![p] = <<>>]
  /\ scraping' = scraping \ {p}

(* time.NewTicker panics on an interval that is not positive.  It does so  *)
(* in a goroutine of its own, which may be late, so no defer of Run is run *)
(* or the one that runs is cut short.                                      *)
GcWorkerPanics(p) ==
  /\ interval[p] = 0
  /\ pc[p] \in {"up", "drain", "close"}
  /\ Goto(p, pc[p], "down")
  /\ Gone(p)
  /\ excused' = excused \cup ({p} \X Dirs)
  /\ UNCHANGED <<interval, signalled, configured, filter, joined, killed, forced, blind>>

(* SIGKILL, the OOM killer, a crash. *)
Kill(p) ==
  /\ Alive(p)
  /\ Goto(p, pc[p], "down")
  /\ Gone(p)
  /\ killed' = killed \cup {p}
  /\ UNCHANGED <<interval, signalled, configured, filter, joined, excused, forced, blind>>

-----------------------------------------------------------------------------
(* Runtime.Close, and the clean-up of a Start that failed: closeAll goes   *)
(* through the closers from the last to the first.                         *)

(* FilterDel deletes what has the handle; a filter already gone is fine. *)
CloseLast_Skip(p) ==
  /\ pc[p] \in {"abort", "close"} /\ closers[p] # <<>>
  /\ closers' = [closers EXCEPT ![p] = <<>>]
  /\ UNCHANGED <<pc, interval, signalled, objs, configured, filter, scraping, histVars>>
CloseLast(p) ==
  /\ pc[p] \in {"abort", "close"} /\ closers[p] # <<>>
  /\ closers' = [closers EXCEPT ![p] = Front(@)]
  /\ filter' = [d \in Dirs |-> IF d = Last(closers[p]) THEN None ELSE filter[d]]
  /\ UNCHANGED <<pc, interval, signalled, objs, configured, scraping, histVars>>

(* Any other error of FilterDel is logged. *)
FilterDelFails(p) ==
  /\ "filterdel" \in Fallible
  /\ pc[p] \in {"abort", "close"} /\ closers[p] # <<>> /\ Last(closers[p]) \in Dirs
  /\ closers' = [closers EXCEPT ![p] = Front(@)]
  /\ excused' = excused \cup {<<p, Last(closers[p])>>}
  /\ UNCHANGED <<pc, interval, signalled, objs, configured, filter, scraping, joined,
                 killed, forced, blind>>

CloseObjects(p) ==
  /\ pc[p] \in {"abort", "close"} /\ closers[p] = <<>>
  /\ Goto(p, pc[p], "exit")
  /\ objs' = objs \ {p}
  /\ UNCHANGED <<interval, signalled, configured, closers, filter, scraping, histVars>>

(* Run returns and main ends. *)
Exit(p) ==
  /\ Goto(p, "exit", "down")
  /\ Gone(p)
  /\ UNCHANGED <<interval, signalled, configured, filter, histVars>>

-----------------------------------------------------------------------------
StartStep(p) ==
  \/ RemoveMemlock(p) \/ LoadObjects(p) \/ WriteConfig(p) \/ AttachHook(p)
  \/ FindInterface(p) \/ AddQdisc(p) \/ (\E d \in Dirs : ReplaceFilter(p, d))
  \/ OpenReader(p) \/ StartFails(p)

CloseStep(p) == CloseLast(p) \/ FilterDelFails(p) \/ CloseObjects(p) \/ Exit(p)

Next ==
  \E p \in Procs :
    \/ Launch(p) \/ StartStep(p) \/ CloseStep(p)
    \/ ScrapeBegin(p) \/ ScrapeEnd(p)
    \/ ServeFails(p) \/ ShutdownBegin(p) \/ Drained(p) \/ ShutdownTimeout(p)
    \/ GcWorkerPanics(p) \/ Signal(p) \/ Kill(p)

Spec == Init /\ [][Next]_vars

(***************************************************************************)
(* Fairness: the main goroutine keeps running, and the timer of the        *)
(* shutdown context fires.  A scrape may hang for ever, and nobody need    *)
(* start, signal or kill the agent.                                        *)
(***************************************************************************)
Fairness ==
  \A p \in Procs :
    /\ WF_vars(StartStep(p))
    /\ WF_vars(CloseStep(p))
    /\ WF_vars(ShutdownBegin(p))
    /\ WF_vars(Drained(p) \/ ShutdownTimeout(p))

FairSpec == Spec /\ Fairness

-----------------------------------------------------------------------------
(* Properties.                                                             *)

TypeOK ==
  /\ pc \in [Procs -> StartSteps \cup {"new", "up", "drain", "abort", "close", "exit", "down"}]
  /\ interval \in [Procs -> {0, 1}]
  /\ closers \in [Procs -> Seq(Range(Hooks) \cup Dirs)]
  /\ \A p \in Procs : Len(closers[p]) <= Len(Hooks) + Cardinality(Dirs)
  /\ filter \in [Dirs -> Procs \cup {None}]
  /\ \A S \in {signalled, objs, configured, scraping, joined, killed, forced, blind} : S \subseteq Procs
  /\ excused \subseteq Procs \X Dirs

(***************************************************************************)
(* However Start failed or Run ended, a process that ran its clean-up has  *)
(* left no filter of its own on the interface, except where a failed       *)
(* FilterDel, a failed replacement of the egress filter or the panic of    *)
(* the GC worker explains it.                                              *)
(***************************************************************************)
ExitLeavesNothing ==
  \A p \in Procs, d \in Dirs :
    pc[p] = "down" /\ filter[d] = p => p \in killed \/ <<p, d>> \in excused

(***************************************************************************)
(* An agent that serves metrics has every hook in place, also when an      *)
(* earlier one was killed and left its filters behind.  An agent that had  *)
(* another one beside it can count on the hooks that are links only.       *)
(***************************************************************************)
ServingIsAttached ==
  \A p \in Procs : pc[p] \in {"up", "drain"} =>
    /\ p \in objs
    /\ closers[p] = Hooks \o <<"ingress", "egress">>
    /\ p \notin joined => \A d \in Dirs : filter[d] = p

(* What nd_get_config makes of the entry of nd_config of a process with    *)
(* these flags, once the entry is written or before, and whether that is   *)
(* right for all flags.                                                    *)
InForce(written, flags) == nd_get_config(IF written THEN Options(flags) ELSE Unwritten)
RightWhen ==
  {written \in BOOLEAN :
     \A flags \in Flags : Follows(InForce(written, flags), flags, MaxLatency)}

(***************************************************************************)
(* A program that can run judges by the flags of its own process: the      *)
(* configuration is written before anything is attached, and outlives the  *)
(* process with a filter that was left behind.  What the flags come to is  *)
(* said by Follows, truncation, defaults and negative values included.     *)
(***************************************************************************)
VerdictFollowsFlags ==
  \A p \in Procs :
    closers[p] # <<>> \/ (\E d \in Dirs : filter[d] = p)
      => (p \in configured) \in RightWhen

(***************************************************************************)
(* A scrape is answered from closed maps, that is with all counters zero,  *)
(* only if the shutdown timed out on it or the listener failed.            *)
(***************************************************************************)
NoBlindScrape == blind \subseteq forced

(***************************************************************************)
(* A signal ends the agent, whatever it is doing and however long a scrape *)
(* takes (the five seconds of Serve).                                      *)
(***************************************************************************)
SignalEndsAgent == \A p \in Procs : p \in signalled ~> pc[p] = "down"

(***************************************************************************)
(* What the comments at tc.go:65 and util.go:13 promise: TC filters "share *)
(* the same cleanup path as cilium/ebpf links", and closeAll "detaches     *)
(* resources": a process that was not killed leaves no filter behind.      *)
(***************************************************************************)
FiltersAreCleanedUp ==
  \A p \in Procs, d \in Dirs : pc[p] = "down" /\ filter[d] = p => p \in killed
=============================================================================
