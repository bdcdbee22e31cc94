---------------------------- MODULE AgentProofs ----------------------------
(***************************************************************************)
(* What Agent guarantees for any number of processes on the interface, any *)
(* list of hooks, any set of failing calls and any flags a 64-bit duration *)
(* can hold.                                                               *)
(*                                                                         *)
(* Which filters a process is answerable for depends on how far Start and  *)
(* Close have come: the list of closers is always a beginning of the       *)
(* complete list (Listed), its length follows the program counter          *)
(* (Progress), and a filter of a process that is closing is either still   *)
(* on its list or excused (Ownership).                                     *)
(***************************************************************************)
EXTENDS Agent, SequenceTheorems, FiniteSetTheorems, TLAPS

-----------------------------------------------------------------------------
(* The inductive invariant.                                                *)

AllHooks == Hooks \o <<"ingress", "egress">>

(* The place of a filter's closer in the list. *)
Rank(d) == IF d = "ingress" THEN Len(Hooks) + 1 ELSE Len(Hooks) + 2

(* rt.links is a beginning of the complete list. *)
Listed ==
  \A p \in Procs :
    /\ Len(closers[p]) <= Len(Hooks) + 2
    /\ \A i \in 1..Len(closers[p]) : closers[p][i] = AllHooks[i]

(* How far a process has come. *)
Progress ==
  \A p \in Procs :
    /\ pc[p] \in {"new", "memlock", "load", "config", "exit", "down"}
         => Len(closers[p]) = 0
    /\ pc[p] = "attach" => Len(closers[p]) < Len(Hooks)
    /\ pc[p] \in {"link", "qdisc", "ingress", "egress"} => Len(closers[p]) = Len(Hooks)
    /\ pc[p] \in {"ring", "up", "drain"} => Len(closers[p]) = Len(Hooks) + 2
    /\ pc[p] \in {"config", "attach", "link", "qdisc", "ingress", "egress", "ring",
                  "up", "drain", "close"} => p \in objs
    /\ pc[p] \in {"attach", "link", "qdisc", "ingress", "egress", "ring", "up", "drain",
                  "close"} => p \in configured
    /\ Len(closers[p]) > 0 => p \in configured

(* Where the process whose program is a filter can be. *)
Ownership ==
  \A p \in Procs, d \in Dirs : filter[d] = p =>
    /\ p \in configured
    /\ pc[p] \in {"egress", "ring", "up", "drain", "abort", "close", "exit", "down"}
    /\ pc[p] = "egress" => d = "ingress"
    /\ pc[p] \in {"abort", "close", "exit"}
         => <<p, d>> \in excused \/ Rank(d) <= Len(closers[p])
    /\ pc[p] = "down" => p \in killed \/ <<p, d>> \in excused

(* Processes that run side by side are known to, and one that is alone     *)
(* keeps its filters.                                                      *)
Alone ==
  /\ \A p, q \in Procs : p # q /\ Alive(p) /\ Alive(q) => p \in joined
  /\ \A p \in Procs : p \notin joined =>
       /\ pc[p] = "egress" => filter["ingress"] = p
       /\ pc[p] \in {"ring", "up", "drain"} => \A d \in Dirs : filter[d] = p

(* A scrape outlives the server only if it was cut off. *)
Scrapes ==
  \A p \in scraping :
    /\ pc[p] \in {"up", "drain", "close", "exit"}
    /\ pc[p] \in {"close", "exit"} => p \in forced

IInv ==
  /\ TypeOK
  /\ Listed
  /\ Progress
  /\ Ownership
  /\ Alone
  /\ Scrapes
  /\ NoBlindScrape
-----------------------------------------------------------------------------
(* The list of hooks.                                                      *)

(* The complete list is the hooks and the two filters. *)
LEMMA HooksFacts ==
  /\ Len(Hooks) \in Nat \ {0}
  /\ \A i \in 1..Len(Hooks) : Hooks[i] \in Range(Hooks) /\ Hooks[i] \notin Dirs
  /\ AllHooks \in Seq(Range(Hooks) \cup Dirs) /\ Len(AllHooks) = Len(Hooks) + 2
  /\ \A i \in 1..Len(Hooks) : AllHooks[i] = Hooks[i]
  /\ AllHooks[Len(Hooks) + 1] = "ingress" /\ AllHooks[Len(Hooks) + 2] = "egress"
<1>1. Hooks \in Seq(STRING) /\ Hooks # <<>> /\ Range(Hooks) \cap Dirs = {}
  BY AgentAssumption
<1>2. Len(Hooks) \in Nat \ {0}
  BY <1>1, EmptySeq, LenProperties
<1>3. \A i \in 1..Len(Hooks) : Hooks[i] \in Range(Hooks)
  BY <1>1, LenProperties DEF Range
<1>4. Hooks \in Seq(Range(Hooks) \cup Dirs)
  BY <1>1, <1>2, <1>3, IsASeq
<1> DEFINE two == <<"ingress", "egress">>
<1>5. two \in Seq(Range(Hooks) \cup Dirs) /\ Len(two) = 2 /\ two[1] = "ingress"
      /\ two[2] = "egress"
  BY DEF Dirs
<1> HIDE DEF two
<1>6. AllHooks = Hooks \o two
  BY DEF AllHooks, two
<1>7. /\ AllHooks \in Seq(Range(Hooks) \cup Dirs) /\ Len(AllHooks) = Len(Hooks) + 2
      /\ \A i \in 1..Len(AllHooks) :
           AllHooks[i] = IF i <= Len(Hooks) THEN Hooks[i] ELSE two[i - Len(Hooks)]
  <2> DEFINE S == Range(Hooks) \cup Dirs
  <2> HIDE DEF S
  <2>1. Hooks \in Seq(S) /\ two \in Seq(S)
    BY <1>4, <1>5 DEF S
  <2>2. /\ Hooks \o two \in Seq(S) /\ Len(Hooks \o two) = Len(Hooks) + Len(two)
        /\ \A i \in 1..(Len(Hooks) + Len(two)) :
             (Hooks \o two)[i] = IF i <= Len(Hooks) THEN Hooks[i] ELSE two[i - Len(Hooks)]
    BY <2>1, ConcatProperties
  <2> QED
    BY <1>5, <1>6, <2>2 DEF S
<1>8. /\ \A i \in 1..Len(Hooks) : AllHooks[i] = Hooks[i]
      /\ AllHooks[Len(Hooks) + 1] = "ingress" /\ AllHooks[Len(Hooks) + 2] = "egress"
  BY <1>2, <1>5, <1>7
<1> QED
  BY <1>1, <1>2, <1>3, <1>7, <1>8

(* There are two directions. *)
LEMMA TwoDirs == Cardinality(Dirs) = 2
<1>1. Dirs = {"ingress"} \cup {"egress"}
  BY DEF Dirs
<1>2. IsFiniteSet({"ingress"}) /\ Cardinality({"ingress"}) = 1
  BY FS_Singleton
<1>3. Cardinality({"ingress"} \cup {"egress"}) = 2
  BY <1>2, FS_AddElement
<1> QED
  BY <1>1, <1>3

(* A list of closers is a sequence of hooks and filters. *)
LEMMA ListType ==
  ASSUME TypeOK, NEW p \in Procs
  PROVE  /\ closers[p] \in Seq(Range(Hooks) \cup Dirs)
         /\ Len(closers[p]) \in Nat
BY LenProperties DEF TypeOK

-----------------------------------------------------------------------------
(* Steps that leave the list of closers and the filters alone.             *)

(* A process starts. *)
LEMMA LaunchStep == ASSUME NEW p \in Procs PROVE IInv /\ Launch(p) => IInv'
<1> SUFFICES ASSUME IInv, Launch(p) PROVE IInv'
  OBVIOUS
<1>1. TypeOK'
  BY AgentAssumption DEF IInv, TypeOK, Launch, Goto, StartSteps
<1>2. pc[p] = "new" /\ pc' = [pc EXCEPT ![p] = "memlock"]
  BY DEF Launch, Goto
<1>3. Listed' /\ Progress'
  BY <1>2 DEF IInv, TypeOK, Launch, Listed, Progress
<1>4. Ownership'
  BY <1>2 DEF IInv, TypeOK, Launch, Ownership
<1>5. Alone'
  BY <1>2 DEF IInv, TypeOK, Launch, Alone, Alive
<1>6. Scrapes' /\ NoBlindScrape'
  BY <1>2 DEF IInv, TypeOK, Launch, Scrapes, NoBlindScrape
<1> QED
  BY <1>1, <1>3, <1>4, <1>5, <1>6 DEF IInv
(* A step of Start that succeeds and leaves nothing, the end of Start, the *)
(* beginning of Shutdown and its end once all requests are answered.       *)
Pass(p) ==
  \/ RemoveMemlock(p) \/ FindInterface(p) \/ AddQdisc(p) \/ OpenReader(p)
  \/ ShutdownBegin(p) \/ Drained(p)

(* Such a step moves the process on. *)
LEMMA PassStep == ASSUME NEW p \in Procs PROVE IInv /\ Pass(p) => IInv'
<1> SUFFICES ASSUME IInv, Pass(p) PROVE IInv'
  OBVIOUS
<1>1. /\ UNCHANGED <<interval, signalled, objs, configured, closers, filter, scraping>>
      /\ UNCHANGED <<joined, killed, excused, forced, blind>>
  BY DEF Pass, RemoveMemlock, FindInterface, AddQdisc, OpenReader, ShutdownBegin, Drained,
         histVars
<1>2. \/ pc[p] = "memlock" /\ pc' = [pc EXCEPT ![p] = "load"]
      \/ pc[p] = "link" /\ pc' = [pc EXCEPT ![p] = "qdisc"]
      \/ pc[p] = "qdisc" /\ pc' = [pc EXCEPT ![p] = "ingress"]
      \/ pc[p] = "ring" /\ pc' = [pc EXCEPT ![p] = "up"]
      \/ pc[p] = "up" /\ pc' = [pc EXCEPT ![p] = "drain"]
      \/ pc[p] = "drain" /\ pc' = [pc EXCEPT ![p] = "close"] /\ p \notin scraping
  BY DEF Pass, RemoveMemlock, FindInterface, AddQdisc, OpenReader, ShutdownBegin, Drained,
         Goto
<1>3. TypeOK'
  BY <1>1, <1>2 DEF IInv, TypeOK, StartSteps
<1>4. Listed' /\ Progress'
  BY <1>1, <1>2 DEF IInv, TypeOK, Listed, Progress
<1>5. Ownership'
  <2>1. Len(closers[p]) = Len(Hooks) + 2 => \A d \in Dirs : Rank(d) <= Len(closers[p])
    BY HooksFacts DEF Rank, Dirs
  <2> QED
    BY <1>1, <1>2, <2>1 DEF IInv, TypeOK, Ownership, Progress, Rank
<1>6. Alone'
  BY <1>1, <1>2, ZenonT(30) DEF IInv, TypeOK, Alone, Alive
<1>7. Scrapes' /\ NoBlindScrape'
  BY <1>1, <1>2 DEF IInv, TypeOK, Scrapes, NoBlindScrape
<1> QED
  BY <1>3, <1>4, <1>5, <1>6, <1>7 DEF IInv

(* SIGTERM or SIGINT arrives, or a request. *)
LEMMA ArrivalStep ==
  ASSUME NEW p \in Procs PROVE IInv /\ (Signal(p) \/ ScrapeBegin(p)) => IInv'
<1> SUFFICES ASSUME IInv, Signal(p) \/ ScrapeBegin(p) PROVE IInv'
  OBVIOUS
<1>1. /\ UNCHANGED <<pc, interval, objs, configured, closers, filter>>
      /\ UNCHANGED <<joined, killed, excused, forced, blind>>
      /\ signalled' \subseteq signalled \cup {p}
      /\ scraping' = scraping \/ (pc[p] = "up" /\ scraping' = scraping \cup {p})
  BY DEF Signal, ScrapeBegin, histVars
<1>2. TypeOK'
  BY <1>1 DEF IInv, TypeOK
<1>3. Listed' /\ Progress' /\ Ownership' /\ Alone'
  BY <1>1 DEF IInv, Listed, Progress, Ownership, Alone, Alive, Rank
<1>4. Scrapes' /\ NoBlindScrape'
  BY <1>1 DEF IInv, Scrapes, NoBlindScrape
<1> QED
  BY <1>2, <1>3, <1>4 DEF IInv

(* The objects are loaded, the configuration is written. *)
LEMMA LoadStep ==
  ASSUME NEW p \in Procs PROVE IInv /\ (LoadObjects(p) \/ WriteConfig(p)) => IInv'
<1> SUFFICES ASSUME IInv, LoadObjects(p) \/ WriteConfig(p) PROVE IInv'
  OBVIOUS
<1>1. /\ UNCHANGED <<interval, signalled, closers, filter, scraping>>
      /\ UNCHANGED <<joined, killed, excused, forced, blind>>
      /\ \/ /\ pc[p] = "load" /\ pc' = [pc EXCEPT ![p] = "config"]
            /\ objs' = objs \cup {p} /\ UNCHANGED configured
         \/ /\ pc[p] = "config" /\ pc' = [pc EXCEPT ![p] = "attach"]
            /\ configured' = configured \cup {p} /\ UNCHANGED objs
  BY DEF LoadObjects, WriteConfig, Goto, histVars
<1>2. TypeOK'
  <2>1. pc' \in [Procs -> StartSteps \cup
                  {"new", "up", "drain", "abort", "close", "exit", "down"}]
    BY <1>1 DEF IInv, TypeOK, StartSteps
  <2>2. objs' \subseteq Procs /\ configured' \subseteq Procs
    BY <1>1 DEF IInv, TypeOK
  <2> QED
    BY <1>1, <2>1, <2>2 DEF IInv, TypeOK
<1>3. Listed' /\ Progress'
  <2>1. CASE /\ pc[p] = "load" /\ pc' = [pc EXCEPT ![p] = "config"]
             /\ objs' = objs \cup {p} /\ UNCHANGED configured
    BY <1>1, <2>1 DEF IInv, TypeOK, Listed, Progress
  <2>2. CASE /\ pc[p] = "config" /\ pc' = [pc EXCEPT ![p] = "attach"]
             /\ configured' = configured \cup {p} /\ UNCHANGED objs
    BY <1>1, <2>2, HooksFacts DEF IInv, TypeOK, Listed, Progress
  <2> QED
    BY <1>1, <2>1, <2>2
<1>4. Ownership'
  BY <1>1 DEF IInv, TypeOK, Ownership, Rank
<1>5. Alone'
  BY <1>1 DEF IInv, TypeOK, Alone, Alive
<1>6. Scrapes' /\ NoBlindScrape'
  BY <1>1 DEF IInv, TypeOK, Scrapes, NoBlindScrape
<1> QED
  BY <1>2, <1>3, <1>4, <1>5, <1>6 DEF IInv

(* A step of Start fails: the ingress filter is forgotten if the egress    *)
(* filter is the one that could not be installed.                          *)
LEMMA StartFailsStep == ASSUME NEW p \in Procs PROVE IInv /\ StartFails(p) => IInv'
<1> SUFFICES ASSUME IInv, StartFails(p) PROVE IInv'
  OBVIOUS
<1>1. /\ UNCHANGED <<interval, signalled, objs, configured, closers, filter, scraping>>
      /\ UNCHANGED <<joined, killed, forced, blind>>
      /\ pc' = [pc EXCEPT ![p] = "abort"]
      /\ excused \subseteq excused'
      /\ excused' = excused \/ excused' = excused \cup {<<p, "ingress">>}
      /\ pc[p] = "egress" => <<p, "ingress">> \in excused'
  BY DEF StartFails, Goto
<1>2. pc[p] \in StartSteps
  BY AgentAssumption DEF StartFails, IInv, TypeOK
<1>3. TypeOK'
  BY <1>1 DEF IInv, TypeOK, Dirs
<1>4. Listed' /\ Progress'
  BY <1>1, <1>2 DEF IInv, TypeOK, Listed, Progress
<1>5. Ownership'
  <2>1. Len(closers[p]) = Len(Hooks) + 2 => \A d \in Dirs : Rank(d) <= Len(closers[p])
    BY HooksFacts DEF Rank, Dirs
  <2> QED
    BY <1>1, <1>2, <2>1, ZenonT(30) DEF IInv, TypeOK, Ownership, Progress, StartSteps, Rank
<1>6. Alone'
  BY <1>1, <1>2 DEF IInv, TypeOK, Alone, Alive, StartSteps
<1>7. Scrapes' /\ NoBlindScrape'
  BY <1>1, <1>2 DEF IInv, TypeOK, Scrapes, NoBlindScrape, StartSteps
<1> QED
  BY <1>3, <1>4, <1>5, <1>6, <1>7 DEF IInv

(* The listener fails, or Shutdown gives up waiting. *)
LEMMA ForcedStep ==
  ASSUME NEW p \in Procs PROVE IInv /\ (ServeFails(p) \/ ShutdownTimeout(p)) => IInv'
<1> SUFFICES ASSUME IInv, ServeFails(p) \/ ShutdownTimeout(p) PROVE IInv'
  OBVIOUS
<1>1. /\ UNCHANGED <<interval, signalled, objs, configured, closers, filter, scraping>>
      /\ UNCHANGED <<joined, killed, excused, blind>>
      /\ pc[p] \in {"up", "drain"} /\ pc' = [pc EXCEPT ![p] = "close"]
      /\ forced' = forced \cup {p}
  BY DEF ServeFails, ShutdownTimeout, Goto
<1>2. TypeOK'
  BY <1>1 DEF IInv, TypeOK
<1>3. Listed' /\ Progress'
  BY <1>1 DEF IInv, TypeOK, Listed, Progress
<1>4. Ownership'
  <2>1. Len(closers[p]) = Len(Hooks) + 2 => \A d \in Dirs : Rank(d) <= Len(closers[p])
    BY HooksFacts DEF Rank, Dirs
  <2> QED
    BY <1>1, <2>1 DEF IInv, TypeOK, Ownership, Progress, Rank
<1>5. Alone'
  BY <1>1 DEF IInv, TypeOK, Alone, Alive
<1>6. Scrapes' /\ NoBlindScrape'
  BY <1>1 DEF IInv, TypeOK, Scrapes, NoBlindScrape
<1> QED
  BY <1>2, <1>3, <1>4, <1>5, <1>6 DEF IInv

(* A scrape is answered: from closed maps only if the server was forced.   *)
LEMMA ScrapeEndStep == ASSUME NEW p \in Procs PROVE IInv /\ ScrapeEnd(p) => IInv'
<1> SUFFICES ASSUME IInv, ScrapeEnd(p) PROVE IInv'
  OBVIOUS
<1>1. /\ UNCHANGED <<pc, interval, signalled, objs, configured, closers, filter>>
      /\ UNCHANGED <<joined, killed, excused, forced>>
      /\ p \in scraping /\ scraping' = scraping \ {p}
      /\ blind' = blind \/ (p \notin objs /\ blind' = blind \cup {p})
  BY DEF ScrapeEnd
<1>2. p \notin objs => p \in forced
  BY <1>1 DEF IInv, Scrapes, Progress
<1>3. TypeOK'
  BY <1>1 DEF IInv, TypeOK
<1>4. Listed' /\ Progress' /\ Ownership' /\ Alone'
  BY <1>1 DEF IInv, Listed, Progress, Ownership, Alone, Alive, Rank
<1>5. Scrapes' /\ NoBlindScrape'
  BY <1>1, <1>2 DEF IInv, Scrapes, NoBlindScrape
<1> QED
  BY <1>3, <1>4, <1>5 DEF IInv

(* The objects are closed once the list is empty. *)
LEMMA CloseObjectsStep == ASSUME NEW p \in Procs PROVE IInv /\ CloseObjects(p) => IInv'
<1> SUFFICES ASSUME IInv, CloseObjects(p) PROVE IInv'
  OBVIOUS
<1>1. /\ UNCHANGED <<interval, signalled, configured, closers, filter, scraping>>
      /\ UNCHANGED <<joined, killed, excused, forced, blind>>
      /\ pc[p] \in {"abort", "close"} /\ pc' = [pc EXCEPT ![p] = "exit"]
      /\ closers[p] = <<>> /\ objs' = objs \ {p}
  BY DEF CloseObjects, Goto, histVars
<1>2. Len(closers[p]) = 0
  BY <1>1
<1>3. TypeOK'
  BY <1>1 DEF IInv, TypeOK
<1>4. Listed' /\ Progress'
  BY <1>1, <1>2 DEF IInv, TypeOK, Listed, Progress
<1>5. Ownership'
  BY <1>1 DEF IInv, TypeOK, Ownership, Rank
<1>6. Alone'
  BY <1>1 DEF IInv, TypeOK, Alone, Alive
<1>7. Scrapes' /\ NoBlindScrape'
  BY <1>1 DEF IInv, TypeOK, Scrapes, NoBlindScrape
<1> QED
  BY <1>3, <1>4, <1>5, <1>6, <1>7 DEF IInv

-----------------------------------------------------------------------------
(* Steps that change the list of closers or the filters.                   *)

(* The end of a process: returned from Run, killed, or gone with a panic. *)
LEMMA GoneStep ==
  ASSUME NEW p \in Procs PROVE IInv /\ (Exit(p) \/ Kill(p) \/ GcWorkerPanics(p)) => IInv'
<1> SUFFICES ASSUME IInv, Exit(p) \/ Kill(p) \/ GcWorkerPanics(p) PROVE IInv'
  OBVIOUS
<1>1. /\ UNCHANGED <<interval, signalled, configured, filter, joined, forced, blind>>
      /\ objs' = objs \ {p} /\ closers' = [closers EXCEPT ![p] = <<>>]
      /\ scraping' = scraping \ {p}
      /\ pc' = [pc EXCEPT ![p] = "down"]
  BY DEF Exit, Kill, GcWorkerPanics, Goto, Gone, histVars
<1>2. \/ pc[p] = "exit" /\ UNCHANGED <<killed, excused>>
      \/ killed' = killed \cup {p} /\ UNCHANGED excused
      \/ excused' = excused \cup ({p} \X Dirs) /\ UNCHANGED killed
  BY DEF Exit, Kill, GcWorkerPanics, Goto, histVars
<1>3. /\ \A q \in Procs : q # p => closers'[q] = closers[q] /\ pc'[q] = pc[q]
      /\ closers'[p] = <<>> /\ Len(closers'[p]) = 0 /\ pc'[p] = "down"
  BY <1>1 DEF IInv, TypeOK
<1>4. TypeOK'
  <2>1. closers' \in [Procs -> Seq(Range(Hooks) \cup Dirs)]
    BY <1>1 DEF IInv, TypeOK
  <2>2. \A q \in Procs : Len(closers'[q]) <= Len(Hooks) + Cardinality(Dirs)
    BY <1>3, HooksFacts, TwoDirs DEF IInv, TypeOK
  <2>3. killed' \subseteq Procs /\ excused' \subseteq Procs \X Dirs
    BY <1>2 DEF IInv, TypeOK
  <2> QED
    BY <1>1, <2>1, <2>2, <2>3 DEF IInv, TypeOK
<1>5. Listed'
  BY <1>3, HooksFacts DEF IInv, Listed
<1>6. Progress'
  BY <1>1, <1>3 DEF IInv, Progress
<1>7. Ownership'
  <2>1. ASSUME NEW d \in Dirs, filter[d] = p
        PROVE  p \in configured /\ (p \in killed' \/ <<p, d>> \in excused')
    <3>1. pc[p] = "exit" => <<p, d>> \in excused
      BY <2>1, HooksFacts DEF IInv, Ownership, Progress, Rank
    <3> QED
      BY <1>2, <2>1, <3>1 DEF IInv, Ownership
  <2>2. killed \subseteq killed' /\ excused \subseteq excused'
    BY <1>2
  <2> QED
    BY <1>1, <1>3, <2>1, <2>2 DEF IInv, Ownership, Rank
<1>8. Alone'
  BY <1>1, <1>3 DEF IInv, Alone, Alive
<1>9. Scrapes' /\ NoBlindScrape'
  BY <1>1, <1>3 DEF IInv, TypeOK, Scrapes, NoBlindScrape
<1> QED
  BY <1>4, <1>5, <1>6, <1>7, <1>8, <1>9 DEF IInv
(* A hook is attached and its closer listed. *)
LEMMA AttachStep == ASSUME NEW p \in Procs PROVE IInv /\ AttachHook(p) => IInv'
<1> SUFFICES ASSUME IInv, AttachHook(p) PROVE IInv'
  OBVIOUS
<1> DEFINE n == Len(closers[p]) + 1
<1>1. /\ UNCHANGED <<interval, signalled, objs, configured, filter, scraping>>
      /\ UNCHANGED <<joined, killed, excused, forced, blind>>
      /\ pc[p] = "attach"
      /\ pc' = [pc EXCEPT ![p] = IF n = Len(Hooks) THEN "link" ELSE "attach"]
      /\ closers' = [closers EXCEPT ![p] = Append(@, Hooks[n])]
  BY DEF AttachHook, Goto, histVars
<1>2. closers[p] \in Seq(Range(Hooks) \cup Dirs) /\ Len(closers[p]) \in Nat
  BY ListType DEF IInv
<1>3. n \in 1..Len(Hooks)
  BY <1>1, <1>2, HooksFacts DEF IInv, Progress
<1>4. Hooks[n] \in Range(Hooks) \cup Dirs /\ Hooks[n] = AllHooks[n]
  BY <1>3, HooksFacts
<1>5. /\ Append(closers[p], Hooks[n]) \in Seq(Range(Hooks) \cup Dirs)
      /\ Len(Append(closers[p], Hooks[n])) = n
      /\ Append(closers[p], Hooks[n])[n] = Hooks[n]
      /\ \A i \in 1..Len(closers[p]) : Append(closers[p], Hooks[n])[i] = closers[p][i]
  BY <1>2, <1>4, AppendProperties
<1>6. /\ \A q \in Procs : q # p => closers'[q] = closers[q] /\ pc'[q] = pc[q]
      /\ closers'[p] = Append(closers[p], Hooks[n])
      /\ Len(closers'[p]) = n
      /\ pc'[p] = IF n = Len(Hooks) THEN "link" ELSE "attach"
  BY <1>1, <1>5 DEF IInv, TypeOK
<1>7. TypeOK'
  <2>1. closers' \in [Procs -> Seq(Range(Hooks) \cup Dirs)]
    BY <1>1, <1>5 DEF IInv, TypeOK
  <2>2. \A q \in Procs : Len(closers'[q]) <= Len(Hooks) + Cardinality(Dirs)
    <3>1. n <= Len(Hooks) + 2
      BY <1>3, HooksFacts
    <3> HIDE DEF n
    <3> QED
      BY <1>6, <3>1, HooksFacts, TwoDirs DEF IInv, TypeOK
  <2>3. pc' \in [Procs -> StartSteps \cup
                  {"new", "up", "drain", "abort", "close", "exit", "down"}]
    BY <1>1 DEF IInv, TypeOK, StartSteps
  <2> QED
    BY <1>1, <2>1, <2>2, <2>3 DEF IInv, TypeOK
<1>8. Listed'
  <2>1. ASSUME NEW i \in 1..n PROVE closers'[p][i] = AllHooks[i]
    <3>1. CASE i = n
      BY <1>4, <1>5, <1>6, <3>1
    <3>2. CASE i # n
      <4>1. i \in 1..Len(closers[p])
        BY <1>2, <3>2
      <4> QED
        BY <1>5, <1>6, <4>1 DEF IInv, Listed
    <3> QED
      BY <3>1, <3>2
  <2>2. n <= Len(Hooks) + 2
    BY <1>3, HooksFacts
  <2> HIDE DEF n
  <2> QED
    BY <1>6, <2>1, <2>2 DEF IInv, Listed
<1>9. Progress'
  <2>1. p \in configured /\ p \in objs
    BY <1>1 DEF IInv, Progress
  <2>2. n # Len(Hooks) => n < Len(Hooks)
    BY <1>3, HooksFacts
  <2> HIDE DEF n
  <2> QED
    BY <1>1, <1>6, <2>1, <2>2 DEF IInv, Progress
<1> HIDE DEF n
<1>10. Ownership'
  <2>1. \A d \in Dirs : filter[d] # p
    BY <1>1 DEF IInv, Ownership
  <2> QED
    BY <1>1, <1>6, <2>1 DEF IInv, Ownership, Rank
<1>11. Alone'
  BY <1>1, <1>6 DEF IInv, Alone, Alive
<1>12. Scrapes' /\ NoBlindScrape'
  <2>1. p \notin scraping
    BY <1>1 DEF IInv, Scrapes
  <2> QED
    BY <1>1, <1>6, <2>1 DEF IInv, TypeOK, Scrapes, NoBlindScrape
<1> QED
  BY <1>7, <1>8, <1>9, <1>10, <1>11, <1>12 DEF IInv

(* A process that is alone has no other one change its filters: one that   *)
(* takes or removes a filter is running.                                   *)
LEMMA FiltersOfOthers ==
  ASSUME IInv, NEW p \in Procs, Alive(p), NEW q \in Procs, q # p, q \notin joined
  PROVE  ~Alive(q)
BY DEF IInv, Alone

(* The ingress filter is installed; its closer is not listed yet. *)
LEMMA IngressStep == ASSUME NEW p \in Procs PROVE IInv /\ ReplaceFilter(p, "ingress") => IInv'
<1> SUFFICES ASSUME IInv, ReplaceFilter(p, "ingress") PROVE IInv'
  OBVIOUS
<1>1. /\ UNCHANGED <<interval, signalled, objs, configured, closers, scraping>>
      /\ UNCHANGED <<joined, killed, excused, forced, blind>>
      /\ pc[p] = "ingress" /\ pc' = [pc EXCEPT ![p] = "egress"]
      /\ filter' = [filter EXCEPT !["ingress"] = p]
  BY DEF ReplaceFilter, Goto, histVars
<1>2. /\ \A q \in Procs : q # p => pc'[q] = pc[q]
      /\ pc'[p] = "egress"
      /\ filter'["ingress"] = p /\ filter'["egress"] = filter["egress"]
  BY <1>1 DEF IInv, TypeOK, Dirs
<1>3. TypeOK'
  BY <1>1 DEF IInv, TypeOK, StartSteps
<1>4. Listed' /\ Progress'
  BY <1>1 DEF IInv, TypeOK, Listed, Progress
<1>5. Ownership'
  <2>1. p \in configured /\ filter["egress"] # p
    BY <1>1 DEF IInv, Progress, Ownership, Dirs
  <2> QED
    BY <1>1, <1>2, <2>1, ZenonT(30) DEF IInv, Ownership, Dirs, Rank
<1>6. Alone'
  <2>1. Alive(p)
    BY <1>1 DEF Alive
  <2>2. \A q \in Procs : q # p /\ q \notin joined => pc[q] \in {"new", "down"}
    BY <2>1, FiltersOfOthers DEF Alive
  <2> QED
    BY <1>1, <1>2, <2>1, <2>2 DEF IInv, Alone, Alive
<1>7. Scrapes' /\ NoBlindScrape'
  BY <1>1 DEF IInv, TypeOK, Scrapes, NoBlindScrape
<1> QED
  BY <1>3, <1>4, <1>5, <1>6, <1>7 DEF IInv

(* The egress filter is installed and both closers are listed. *)
LEMMA EgressStep == ASSUME NEW p \in Procs PROVE IInv /\ ReplaceFilter(p, "egress") => IInv'
<1> SUFFICES ASSUME IInv, ReplaceFilter(p, "egress") PROVE IInv'
  OBVIOUS
<1> DEFINE two == <<"ingress", "egress">>
           new == closers[p] \o two
<1>1. /\ UNCHANGED <<interval, signalled, objs, configured, scraping>>
      /\ UNCHANGED <<joined, killed, excused, forced, blind>>
      /\ pc[p] = "egress" /\ pc' = [pc EXCEPT ![p] = "ring"]
      /\ filter' = [filter EXCEPT !["egress"] = p]
      /\ closers' = [closers EXCEPT ![p] = new]
  BY DEF ReplaceFilter, Goto, histVars
<1>2. closers[p] \in Seq(Range(Hooks) \cup Dirs) /\ Len(closers[p]) = Len(Hooks)
  BY <1>1, ListType DEF IInv, Progress
<1>3. new \in Seq(Range(Hooks) \cup Dirs) /\ Len(new) = Len(Hooks) + 2
  <2>1. two \in Seq(Range(Hooks) \cup Dirs) /\ Len(two) = 2
    BY DEF Dirs
  <2> DEFINE S == Range(Hooks) \cup Dirs
  <2> HIDE DEF two, S
  <2>2. closers[p] \in Seq(S) /\ two \in Seq(S)
    BY <1>2, <2>1 DEF S
  <2> QED
    <3>1. /\ closers[p] \o two \in Seq(S)
          /\ Len(closers[p] \o two) = Len(closers[p]) + Len(two)
      BY <2>2, ConcatProperties
    <3> QED
      BY <1>2, <2>1, <3>1 DEF S
<1>4. \A i \in 1..(Len(Hooks) + 2) : new[i] = AllHooks[i]
  <2>1. closers[p] = Hooks
    <3>1. \A i \in 1..Len(Hooks) : closers[p][i] = Hooks[i]
      BY <1>2, HooksFacts DEF IInv, Listed
    <3>2. Hooks \in Seq(Range(Hooks) \cup Dirs)
      BY AgentAssumption, HooksFacts, IsASeq
    <3> DEFINE S == Range(Hooks) \cup Dirs
    <3> HIDE DEF S
    <3>3. closers[p] \in Seq(S) /\ Hooks \in Seq(S)
      BY <1>2, <3>2 DEF S
    <3> QED
      BY <1>2, <3>1, <3>3, SeqEqual
  <2> QED
    BY <2>1 DEF AllHooks
<1> HIDE DEF new, two
<1>5. /\ \A q \in Procs : q # p => closers'[q] = closers[q] /\ pc'[q] = pc[q]
      /\ closers'[p] = new /\ pc'[p] = "ring"
      /\ filter'["egress"] = p /\ filter'["ingress"] = filter["ingress"]
  BY <1>1 DEF IInv, TypeOK, Dirs
<1>6. TypeOK'
  <2>1. closers' \in [Procs -> Seq(Range(Hooks) \cup Dirs)]
    BY <1>1, <1>3 DEF IInv, TypeOK
  <2>2. \A q \in Procs : Len(closers'[q]) <= Len(Hooks) + Cardinality(Dirs)
    BY <1>3, <1>5, HooksFacts, TwoDirs DEF IInv, TypeOK
  <2>3. pc' \in [Procs -> StartSteps \cup
                  {"new", "up", "drain", "abort", "close", "exit", "down"}]
        /\ filter' \in [Dirs -> Procs \cup {None}]
    BY <1>1 DEF IInv, TypeOK, StartSteps
  <2> QED
    BY <1>1, <2>1, <2>2, <2>3 DEF IInv, TypeOK
<1>7. Listed'
  BY <1>3, <1>4, <1>5, HooksFacts DEF IInv, Listed
<1>8. Progress'
  BY <1>1, <1>3, <1>5 DEF IInv, Progress
<1>9. Ownership'
  <2>1. p \in configured
    BY <1>1 DEF IInv, Progress
  <2> QED
    BY <1>1, <1>5, <2>1, ZenonT(30) DEF IInv, Ownership, Dirs, Rank
<1>10. Alone'
  <2>1. Alive(p)
    BY <1>1 DEF Alive
  <2>2. \A q \in Procs : q # p /\ q \notin joined => pc[q] \in {"new", "down"}
    BY <2>1, FiltersOfOthers DEF Alive
  <2> QED
    BY <1>1, <1>5, <2>1, <2>2 DEF IInv, Alone, Alive, Dirs
<1>11. Scrapes' /\ NoBlindScrape'
  <2>1. p \notin scraping
    BY <1>1 DEF IInv, Scrapes
  <2> QED
    BY <1>1, <1>5, <2>1 DEF IInv, TypeOK, Scrapes, NoBlindScrape
<1> QED
  BY <1>6, <1>7, <1>8, <1>9, <1>10, <1>11 DEF IInv

(* closeAll takes one closer, the last of the list. *)
LEMMA CloseLastStep ==
  ASSUME NEW p \in Procs PROVE IInv /\ (CloseLast(p) \/ FilterDelFails(p)) => IInv'
<1> SUFFICES ASSUME IInv, CloseLast(p) \/ FilterDelFails(p) PROVE IInv'
  OBVIOUS
<1> DEFINE m == Len(closers[p])
<1>1. /\ UNCHANGED <<pc, interval, signalled, objs, configured, scraping>>
      /\ UNCHANGED <<joined, killed, forced, blind>>
      /\ pc[p] \in {"abort", "close"} /\ closers[p] # <<>>
      /\ closers' = [closers EXCEPT ![p] = Front(@)]
      /\ \/ /\ filter' = [d \in Dirs |-> IF d = Last(closers[p]) THEN None ELSE filter[d]]
            /\ excused' = excused
         \/ filter' = filter /\ excused' = excused \cup {<<p, Last(closers[p])>>}
            /\ Last(closers[p]) \in Dirs
  BY DEF CloseLast, FilterDelFails, histVars
<1>2. closers[p] \in Seq(Range(Hooks) \cup Dirs) /\ m \in Nat \ {0}
  BY <1>1, ListType, EmptySeq DEF IInv
<1>3. /\ Front(closers[p]) \in Seq(Range(Hooks) \cup Dirs)
      /\ Len(Front(closers[p])) = m - 1
      /\ \A i \in 1..(m - 1) : Front(closers[p])[i] = closers[p][i]
  <2> DEFINE S == Range(Hooks) \cup Dirs
  <2> HIDE DEF S
  <2>1. closers[p] \in Seq(S)
    BY <1>2 DEF S
  <2> QED
    BY <1>2, <2>1, SubSeqProperties DEF Front, S
<1>4. Last(closers[p]) = AllHooks[m] /\ m <= Len(Hooks) + 2
  BY <1>2 DEF Last, IInv, Listed
<1>5. /\ \A q \in Procs : q # p => closers'[q] = closers[q]
      /\ closers'[p] = Front(closers[p]) /\ Len(closers'[p]) = m - 1
  BY <1>1, <1>3 DEF IInv, TypeOK
<1>6. /\ m = Len(Hooks) + 2 => Last(closers[p]) = "egress"
      /\ m = Len(Hooks) + 1 => Last(closers[p]) = "ingress"
  BY <1>4, HooksFacts
<1> HIDE DEF m
<1>7. TypeOK'
  <2>1. closers' \in [Procs -> Seq(Range(Hooks) \cup Dirs)]
    BY <1>1, <1>3 DEF IInv, TypeOK
  <2>2. \A q \in Procs : Len(closers'[q]) <= Len(Hooks) + Cardinality(Dirs)
    BY <1>2, <1>4, <1>5, HooksFacts, TwoDirs, SMTT(30) DEF IInv, TypeOK
  <2>3. filter' \in [Dirs -> Procs \cup {None}] /\ excused' \subseteq Procs \X Dirs
    BY <1>1 DEF IInv, TypeOK
  <2> QED
    BY <1>1, <2>1, <2>2, <2>3 DEF IInv, TypeOK
<1>8. Listed'
  <2>1. \A i \in 1..(m - 1) : closers'[p][i] = AllHooks[i]
    BY <1>2, <1>3, <1>5 DEF IInv, Listed, m
  <2>2. m - 1 <= Len(Hooks) + 2
    BY <1>2, <1>4, HooksFacts
  <2> QED
    BY <1>5, <2>1, <2>2 DEF IInv, Listed
<1>9. Progress'
  <2>1. p \in configured
    BY <1>2 DEF IInv, Progress, m
  <2> QED
    BY <1>1, <1>5, <2>1 DEF IInv, Progress
<1>10. Ownership'
  <2> SUFFICES ASSUME NEW q \in Procs, NEW d \in Dirs, filter'[d] = q
               PROVE
      /\ q \in configured
      /\ pc[q] \in {"egress", "ring", "up", "drain", "abort", "close", "exit", "down"}
      /\ pc[q] = "egress" => d = "ingress"
      /\ pc[q] \in {"abort", "close", "exit"}
           => <<q, d>> \in excused' \/ Rank(d) <= Len(closers'[q])
      /\ pc[q] = "down" => q \in killed \/ <<q, d>> \in excused'
    BY <1>1 DEF Ownership, Rank
  <2>1. filter[d] = q /\ excused \subseteq excused'
    BY <1>1, AgentAssumption DEF IInv, TypeOK
  <2>2. /\ q \in configured
        /\ pc[q] \in {"egress", "ring", "up", "drain", "abort", "close", "exit", "down"}
        /\ pc[q] = "egress" => d = "ingress"
        /\ pc[q] \in {"abort", "close", "exit"}
             => <<q, d>> \in excused \/ Rank(d) <= Len(closers[q])
        /\ pc[q] = "down" => q \in killed \/ <<q, d>> \in excused
    BY <2>1 DEF IInv, Ownership
  <2>3. CASE q # p
    BY <1>5, <2>1, <2>2, <2>3
  <2>4. CASE q = p /\ Rank(d) <= m /\ <<p, d>> \notin excused'
    <3>1. d # Last(closers[p])
      BY <1>1, <2>4, AgentAssumption DEF IInv, TypeOK
    <3>2. Rank(d) # m
      BY <1>6, <3>1 DEF Rank, Dirs
    <3>3. Rank(d) \in Nat
      BY HooksFacts DEF Rank
    <3>4. Rank(d) <= m - 1
      BY <1>2, <2>4, <3>2, <3>3
    <3> QED
      BY <1>1, <1>5, <2>1, <2>2, <2>4, <3>4
  <2>5. CASE q = p /\ ~(Rank(d) <= m /\ <<p, d>> \notin excused')
    BY <1>1, <2>1, <2>2, <2>5 DEF m
  <2> QED
    BY <2>3, <2>4, <2>5
<1>11. Alone'
  <2>1. Alive(p)
    BY <1>1 DEF Alive
  <2>2. \A q \in Procs : q # p /\ q \notin joined => pc[q] \in {"new", "down"}
    BY <2>1, FiltersOfOthers DEF Alive
  <2> QED
    BY <1>1, <2>1, <2>2 DEF IInv, Alone, Alive
<1>12. Scrapes' /\ NoBlindScrape'
  BY <1>1 DEF IInv, Scrapes, NoBlindScrape
<1> QED
  BY <1>7, <1>8, <1>9, <1>10, <1>11, <1>12 DEF IInv
-----------------------------------------------------------------------------
(* From the flags to the verdicts (Config).                                *)

(* Comparing microseconds with a threshold is comparing nanoseconds. *)
LEMMA DivAtLeast ==
  ASSUME NEW x \in Nat, NEW n \in Nat \ {0}, NEW h \in Nat
  PROVE  /\ x \div n \in Nat /\ x \div n <= x
         /\ x \div n >= h <=> x >= h * n
OBVIOUS

(* A duration in microseconds on its way through app.Run and the kernel:   *)
(* cut, and out of reach if it is negative.                                *)
LEMMA UsOption ==
  ASSUME NEW x \in Int, -Word <= 2 * x, 2 * x < Word, NEW u, u = Uint64(Quo(x, NsPerUs))
  PROVE  /\ u \in Nat
         /\ x >= NsPerUs => u = x \div NsPerUs /\ u > 0
         /\ -NsPerUs < x /\ x < NsPerUs => u = 0
         /\ x <= -NsPerUs => u > 0 /\ 2 * u >= Word
<1>1. Word \in Nat \ {0} /\ NsPerUs \in Nat \ {0}
  BY ConfigAssumption
<1>2. CASE x >= NsPerUs
  <2> DEFINE q == x \div NsPerUs
  <2>1. q \in Nat /\ q <= x /\ q >= 1
    <3>1. x \in Nat /\ x >= 1 * NsPerUs
      BY <1>1, <1>2
    <3> QED
      BY <1>1, <3>1, DivAtLeast
  <2>2. Quo(x, NsPerUs) = q
    BY <1>1, <1>2 DEF Quo
  <2> HIDE DEF q
  <2>3. q \in 0..(Word - 1)
    BY <1>1, <2>1
  <2>4. (q % Word) = q
    BY <1>1, <2>3
  <2> QED
    BY <1>1, <1>2, <2>1, <2>2, <2>4 DEF Uint64, q
<1>3. CASE -NsPerUs < x /\ x < NsPerUs
  <2>1. Quo(x, NsPerUs) = 0
    <3>1. ASSUME NEW y \in Nat, y < NsPerUs PROVE y \div NsPerUs = 0
      BY <1>1, <3>1
    <3>2. CASE x >= 0
      BY <1>3, <3>1, <3>2 DEF Quo
    <3>3. CASE ~(x >= 0)
      BY <1>1, <1>3, <3>1, <3>3 DEF Quo
    <3> QED
      BY <3>2, <3>3
  <2>2. (0 % Word) = 0
    BY <1>1
  <2> QED
    BY <1>1, <1>3, <2>1, <2>2 DEF Uint64
<1>4. CASE x <= -NsPerUs
  <2> DEFINE q == (-x) \div NsPerUs
  <2>1. q \in Nat /\ q <= -x /\ q >= 1
    <3>1. -x \in Nat /\ -x >= 1 * NsPerUs
      BY <1>1, <1>4
    <3> QED
      BY <1>1, <3>1, DivAtLeast
  <2>2. Quo(x, NsPerUs) = -q
    BY <1>1, <1>4 DEF Quo
  <2> HIDE DEF q
  <2>3. 2 * q <= Word
    BY <1>1, <2>1
  <2>4. ((-q) % Word) = Word - q
    <3>1. -q = (-1) * Word + (Word - q) /\ Word - q \in 0..(Word - 1)
      BY <1>1, <2>1, <2>3
    <3> QED
      BY <1>1, <2>1, <2>3, <3>1
  <2> QED
    BY <1>1, <1>4, <2>1, <2>2, <2>3, <2>4 DEF Uint64
<1> QED
  BY <1>1, <1>2, <1>3, <1>4

(* A duration that stays in nanoseconds. *)
LEMMA NsOption ==
  ASSUME NEW x \in Int, -Word <= 2 * x, 2 * x < Word, NEW u, u = Uint64(x)
  PROVE  /\ u \in Nat /\ u < Word
         /\ x >= 0 => u = x
         /\ x < 0 => u > 0 /\ 2 * u >= Word
<1>1. Word \in Nat \ {0}
  BY ConfigAssumption
<1>2. CASE x >= 0
  <2>1. x \in 0..(Word - 1)
    BY <1>1, <1>2
  <2> QED
    BY <1>1, <1>2, <2>1 DEF Uint64
<1>3. CASE x < 0
  <2>1. x = (-1) * Word + (Word + x) /\ Word + x \in 0..(Word - 1)
    BY <1>1, <1>3
  <2>2. (x % Word) = Word + x
    BY <1>1, <2>1
  <2> QED
    BY <1>1, <1>3, <2>1, <2>2 DEF Uint64
<1> QED
  BY <1>2, <1>3
(* What nd_get_config makes of the options, field by field. *)
LEMMA InForceField ==
  ASSUME NEW flags, IsFlags(flags), NEW f \in Fields
  PROVE  LET cfg == nd_get_config(Options(flags))
         IN  /\ f \in UsFields => cfg[f] =
                  IF Uint64(Quo(flags[f], NsPerUs)) # 0
                    THEN Uint64(Quo(flags[f], NsPerUs)) ELSE Defaults[f]
             /\ f \in NsFields => cfg[f] =
                  IF Uint64(flags[f]) # 0 THEN Uint64(flags[f]) ELSE Defaults[f]
             /\ f \in CountFields => cfg[f] = IF flags[f] # 0 THEN flags[f] ELSE Defaults[f]
<1>1. /\ f \in UsFields => Options(flags)[f] = Uint64(Quo(flags[f], NsPerUs))
      /\ f \in NsFields => Options(flags)[f] = Uint64(flags[f])
      /\ f \in CountFields => Options(flags)[f] = flags[f]
  BY DEF Options, Fields, UsFields, NsFields, CountFields
<1> QED
  BY <1>1 DEF nd_get_config

(* A threshold that latencies reach. *)
LEMMA AtLeastHolds ==
  ASSUME NEW f \in UsFields, NEW x \in Int, -Word <= 2 * x, 2 * x < Word,
         NEW cfg, NEW u, u = Uint64(Quo(x, NsPerUs)),
         cfg[f] = IF u # 0 THEN u ELSE Defaults[f],
         NEW max \in Nat, 2 * max < Word
  PROVE  AtLeastFollows(cfg, x, f, max)
<1>1. Word \in Nat \ {0} /\ NsPerUs \in Nat \ {0} /\ Defaults[f] \in Nat \ {0}
  BY ConfigAssumption DEF Fields
<1>2. /\ u \in Nat
      /\ x >= NsPerUs => u = x \div NsPerUs /\ u > 0
      /\ -NsPerUs < x /\ x < NsPerUs => u = 0
      /\ x <= -NsPerUs => u > 0 /\ 2 * u >= Word
  BY UsOption
<1> SUFFICES ASSUME NEW ns \in 0..max
    PROVE IF x >= NsPerUs
      THEN /\ ns >= x => IsAtLeast(cfg, f, ns)
           /\ IsAtLeast(cfg, f, ns) => ns > x - NsPerUs
      ELSE IsAtLeast(cfg, f, ns) <=> x > -NsPerUs /\ ns >= NsPerUs * Defaults[f]
  BY DEF AtLeastFollows
<1>3. ns \in Nat /\ ns \div NsPerUs \in Nat /\ ns \div NsPerUs <= ns
  BY <1>1, DivAtLeast
<1>4. CASE x >= NsPerUs
  <2> DEFINE q == x \div NsPerUs
  <2>1. x \in Nat /\ q \in Nat
    BY <1>1, <1>4
  <2>2. IsAtLeast(cfg, f, ns) <=> ns >= q * NsPerUs
    <3>1. cfg[f] = q
      BY <1>2, <1>4
    <3> HIDE DEF q
    <3>2. IsAtLeast(cfg, f, ns) <=> ns \div NsPerUs >= q
      BY <3>1 DEF IsAtLeast
    <3>3. ns \div NsPerUs >= q <=> ns >= q * NsPerUs
      BY <1>1, <1>3, <2>1, DivAtLeast
    <3> QED
      BY <3>2, <3>3
  <2>3. q * NsPerUs <= x /\ x < q * NsPerUs + NsPerUs /\ q * NsPerUs \in Nat
    BY <1>1, <2>1
  <2> HIDE DEF q
  <2> QED
    BY <1>1, <1>3, <1>4, <2>1, <2>2, <2>3
<1>5. CASE -NsPerUs < x /\ x < NsPerUs
  <2>1. IsAtLeast(cfg, f, ns) <=> ns \div NsPerUs >= Defaults[f]
    BY <1>2, <1>5 DEF IsAtLeast
  <2>2. ns \div NsPerUs >= Defaults[f] <=> ns >= Defaults[f] * NsPerUs
    BY <1>1, <1>3, DivAtLeast
  <2>3. Defaults[f] * NsPerUs = NsPerUs * Defaults[f]
    BY <1>1
  <2> QED
    BY <1>1, <1>5, <2>1, <2>2, <2>3
<1>6. CASE x <= -NsPerUs
  <2>1. cfg[f] = u /\ 2 * u >= Word
    BY <1>2, <1>6
  <2>2. ~(ns \div NsPerUs >= u)
    BY <1>1, <1>2, <1>3, <2>1
  <2> QED
    BY <1>1, <1>6, <2>1, <2>2 DEF IsAtLeast
<1> QED
  BY <1>1, <1>4, <1>5, <1>6

(* Short connections. *)
LEMMA ShortHolds ==
  ASSUME NEW x \in Int, -Word <= 2 * x, 2 * x < Word,
         NEW cfg, NEW u, u = Uint64(Quo(x, NsPerUs)),
         cfg["short_tcp_conn_us"] = IF u # 0 THEN u ELSE Defaults["short_tcp_conn_us"],
         NEW max \in Nat, 2 * max < Word
  PROVE  ShortFollows(cfg, x, max)
<1> DEFINE D == Defaults["short_tcp_conn_us"]
<1>1. Word \in Nat \ {0} /\ NsPerUs \in Nat \ {0} /\ D \in Nat \ {0}
  BY ConfigAssumption DEF Fields, UsFields
<1>2. /\ u \in Nat
      /\ x >= NsPerUs => u = x \div NsPerUs /\ u > 0
      /\ -NsPerUs < x /\ x < NsPerUs => u = 0
      /\ x <= -NsPerUs => u > 0 /\ 2 * u >= Word
  BY UsOption
<1> SUFFICES ASSUME NEW ns \in NsPerUs..max
    PROVE IF x >= NsPerUs
      THEN IsShort(cfg, ns) <=> ns \div NsPerUs < x \div NsPerUs
      ELSE IsShort(cfg, ns) <=> x <= -NsPerUs \/ ns < NsPerUs * D
  BY DEF ShortFollows
<1>3. /\ ns \in Nat /\ ns \div NsPerUs \in Nat /\ ns \div NsPerUs <= ns
      /\ ns \div NsPerUs > 0
  <2>1. ns \in Nat /\ ns >= 1 * NsPerUs /\ ns <= max
    BY <1>1
  <2>2. /\ ns \div NsPerUs \in Nat /\ ns \div NsPerUs <= ns
        /\ ns \div NsPerUs >= 1 <=> ns >= 1 * NsPerUs
    BY <1>1, <2>1, DivAtLeast
  <2> QED
    BY <2>1, <2>2
<1>4. IsShort(cfg, ns) <=> ns \div NsPerUs < cfg["short_tcp_conn_us"]
  BY <1>3 DEF IsShort
<1>5. CASE x >= NsPerUs
  BY <1>2, <1>4, <1>5
<1>6. CASE -NsPerUs < x /\ x < NsPerUs
  <2>1. IsShort(cfg, ns) <=> ns \div NsPerUs < D
    BY <1>2, <1>4, <1>6
  <2>2. ns \div NsPerUs >= D <=> ns >= D * NsPerUs
    BY <1>1, <1>3, DivAtLeast
  <2>3. D * NsPerUs = NsPerUs * D /\ D * NsPerUs \in Nat
    BY <1>1
  <2> HIDE DEF D
  <2> QED
    BY <1>1, <1>3, <1>6, <2>1, <2>2, <2>3
<1>7. CASE x <= -NsPerUs
  <2>1. cfg["short_tcp_conn_us"] = u /\ 2 * u >= Word
    BY <1>2, <1>7
  <2>2. ns \div NsPerUs < u
    BY <1>1, <1>2, <1>3, <2>1
  <2> QED
    BY <1>1, <1>4, <1>7, <2>1, <2>2
<1> QED
  BY <1>1, <1>5, <1>6, <1>7

(* The window of a retransmission burst. *)
LEMMA WindowHolds ==
  ASSUME NEW x \in Int, -Word <= 2 * x, 2 * x < Word, NEW cfg, NEW u, u = Uint64(x),
         cfg["retrans_burst_window_ns"] =
           IF u # 0 THEN u ELSE Defaults["retrans_burst_window_ns"],
         NEW max \in Nat, 2 * max < Word
  PROVE  WindowFollows(cfg, x, max)
<1>1. Word \in Nat \ {0} /\ Defaults["retrans_burst_window_ns"] \in Nat \ {0}
  BY ConfigAssumption DEF Fields, NsFields
<1>2. /\ u \in Nat /\ u < Word
      /\ x >= 0 => u = x
      /\ x < 0 => u > 0 /\ 2 * u >= Word
  BY NsOption
<1> QED
  BY <1>1, <1>2 DEF WindowFollows, IsInWindow

(* The cooldown between events. *)
LEMMA CooldownHolds ==
  ASSUME NEW x \in Int, -Word <= 2 * x, 2 * x < Word, NEW cfg, NEW u, u = Uint64(x),
         cfg["event_cooldown_ns"] = IF u # 0 THEN u ELSE Defaults["event_cooldown_ns"],
         NEW max \in Nat, 2 * max < Word, max + Defaults["event_cooldown_ns"] < Word
  PROVE  CooldownFollows(cfg, x, max)
<1> DEFINE D == Defaults["event_cooldown_ns"]
<1>1. Word \in Nat \ {0} /\ D \in Nat \ {0}
  BY ConfigAssumption DEF Fields, NsFields
<1>2. /\ u \in Nat /\ u < Word
      /\ x >= 0 => u = x
      /\ x < 0 => u > 0 /\ 2 * u >= Word
  BY NsOption
<1>3. ASSUME NEW y \in Nat, y < Word PROVE (y % Word) = y
  BY <1>1, <1>3
<1> HIDE DEF D
<1>4. ASSUME NEW now \in 1..max, x < 0 PROVE ~IsCooledDown(cfg, 0, now)
  <2>1. cfg["event_cooldown_ns"] = u /\ 0 + u = u
    BY <1>2, <1>4
  <2>2. (u % Word) = u /\ ~(now > u)
    BY <1>1, <1>2, <1>3, <1>4
  <2> QED
    BY <2>1, <2>2 DEF IsCooledDown
<1>5. ASSUME NEW now \in 1..max, ~(x < 0), NEW last \in 0..now
      PROVE  IsCooledDown(cfg, last, now) <=> now - last > IF x = 0 THEN D ELSE x
  <2> DEFINE c == IF x = 0 THEN D ELSE x
  <2>1. cfg["event_cooldown_ns"] = c /\ c \in Nat
    BY <1>1, <1>2, <1>5 DEF D
  <2>2. max + c < Word
    BY <1>1, <1>5 DEF D
  <2> HIDE DEF c
  <2>3. last + c \in Nat /\ last + c < Word /\ last \in Nat /\ now \in Nat
    BY <1>1, <1>5, <2>1, <2>2
  <2>4. ((last + c) % Word) = last + c
    BY <1>3, <2>3
  <2>5. IsCooledDown(cfg, last, now) <=> now > last + c
    BY <2>1, <2>4 DEF IsCooledDown
  <2>6. now > last + c <=> now - last > c
    BY <2>1, <2>3
  <2> QED
    BY <2>5, <2>6 DEF c
<1> QED
  BY <1>4, <1>5 DEF CooldownFollows, D

(* For all flags that durations and counts can hold, the verdicts under    *)
(* the configuration that nd_get_config reads are those the flags mean:    *)
(* the whole way from ParseFlags over app.Run and writeConfig to the       *)
(* comparisons of the hooks.                                               *)
THEOREM FlagsGovernVerdicts ==
  ASSUME NEW flags, IsFlags(flags), NEW max \in Nat, 2 * max < Word,
         max + Defaults["event_cooldown_ns"] < Word
  PROVE  Follows(nd_get_config(Options(flags)), flags, max)
<1> DEFINE cfg == nd_get_config(Options(flags))
<1>1. /\ \A f \in Fields : flags[f] \in Int
      /\ \A f \in UsFields \cup NsFields : -Word <= 2 * flags[f] /\ 2 * flags[f] < Word
  BY DEF IsFlags
<1>2. ASSUME NEW f \in Fields
      PROVE  /\ f \in UsFields => cfg[f] =
                  IF Uint64(Quo(flags[f], NsPerUs)) # 0
                    THEN Uint64(Quo(flags[f], NsPerUs)) ELSE Defaults[f]
             /\ f \in NsFields => cfg[f] =
                  IF Uint64(flags[f]) # 0 THEN Uint64(flags[f]) ELSE Defaults[f]
             /\ f \in CountFields => cfg[f] = IF flags[f] # 0 THEN flags[f] ELSE Defaults[f]
  BY InForceField
<1> HIDE DEF cfg
<1>3. UsFields \subseteq Fields /\ NsFields \subseteq Fields /\ CountFields \subseteq Fields
  BY DEF Fields
<1>4. /\ "short_tcp_conn_us" \in UsFields
      /\ "retrans_burst_window_ns" \in NsFields /\ "event_cooldown_ns" \in NsFields
  BY DEF UsFields, NsFields
<1>5. ASSUME NEW f \in UsFields PROVE AtLeastFollows(cfg, flags[f], f, max)
  BY <1>1, <1>2, <1>3, AtLeastHolds
<1>6. ShortFollows(cfg, flags["short_tcp_conn_us"], max)
  BY <1>1, <1>2, <1>3, <1>4, ShortHolds
<1>7. WindowFollows(cfg, flags["retrans_burst_window_ns"], max)
  BY <1>1, <1>2, <1>3, <1>4, WindowHolds
<1>8. CooldownFollows(cfg, flags["event_cooldown_ns"], max)
  BY <1>1, <1>2, <1>3, <1>4, CooldownHolds
<1>9. \A f \in CountFields : cfg[f] = IF flags[f] = 0 THEN Defaults[f] ELSE flags[f]
  BY <1>2, <1>3
<1> QED
  BY <1>5, <1>6, <1>7, <1>8, <1>9 DEF Follows, cfg

-----------------------------------------------------------------------------
(* The theorems.                                                           *)

(* No process has been started. *)
LEMMA InitIInv == Init => IInv
<1> SUFFICES ASSUME Init PROVE IInv
  OBVIOUS
<1>1. \A p \in Procs : closers[p] = <<>> /\ Len(closers[p]) = 0 /\ pc[p] = "new"
  BY DEF Init
<1>2. TypeOK
  <2>1. closers \in [Procs -> Seq(Range(Hooks) \cup Dirs)]
    BY DEF Init
  <2>2. \A p \in Procs : Len(closers[p]) <= Len(Hooks) + Cardinality(Dirs)
    BY <1>1, HooksFacts, TwoDirs
  <2> QED
    BY <2>1, <2>2 DEF Init, TypeOK
<1>3. Listed /\ Progress
  BY <1>1, HooksFacts DEF Init, Listed, Progress
<1>4. Ownership
  BY AgentAssumption DEF Init, Ownership
<1>5. Alone /\ Scrapes /\ NoBlindScrape
  BY <1>1 DEF Init, Alone, Alive, Scrapes, NoBlindScrape
<1> QED
  BY <1>2, <1>3, <1>4, <1>5 DEF IInv

(* Every step of every process keeps the invariant. *)
LEMMA StepIInv == IInv /\ [Next]_vars => IInv'
<1> SUFFICES ASSUME IInv, [Next]_vars PROVE IInv'
  OBVIOUS
<1>1. ASSUME NEW p \in Procs, StartStep(p) PROVE IInv'
  <2>1. ASSUME NEW d \in Dirs, ReplaceFilter(p, d) PROVE IInv'
    BY <2>1, IngressStep, EgressStep DEF Dirs
  <2> QED
    BY <1>1, <2>1, PassStep, LoadStep, AttachStep, StartFailsStep DEF StartStep, Pass
<1>2. ASSUME NEW p \in Procs, CloseStep(p) PROVE IInv'
  BY <1>2, CloseLastStep, CloseObjectsStep, GoneStep DEF CloseStep
<1>3. ASSUME NEW p \in Procs,
             \/ Launch(p) \/ ScrapeBegin(p) \/ ScrapeEnd(p)
             \/ ServeFails(p) \/ ShutdownBegin(p) \/ Drained(p) \/ ShutdownTimeout(p)
             \/ GcWorkerPanics(p) \/ Signal(p) \/ Kill(p)
      PROVE  IInv'
  BY <1>3, LaunchStep, ArrivalStep, ScrapeEndStep, ForcedStep, PassStep, GoneStep DEF Pass
<1>4. CASE UNCHANGED vars
  BY <1>4 DEF vars, histVars, IInv, TypeOK, Listed, Progress, Ownership, Rank, Alone, Alive,
              Scrapes, NoBlindScrape
<1> QED
  BY <1>1, <1>2, <1>3, <1>4 DEF Next

(* The inductive invariant holds in every state of the agents. *)
THEOREM AgentInvariance == Spec => []IInv
BY InitIInv, StepIInv, PTL DEF Spec

(* Every value has its type: in particular rt.links never holds more than  *)
(* one closer per hook and direction.                                      *)
THEOREM AgentTypeCorrect == Spec => []TypeOK
<1>1. IInv => TypeOK
  BY DEF IInv
<1> QED
  BY <1>1, AgentInvariance, PTL

(* Whatever failed on the way, a process that ran its clean-up has left no *)
(* TC filter of its own that is not accounted for.                         *)
THEOREM ExitClean == Spec => []ExitLeavesNothing
<1>1. IInv => ExitLeavesNothing
  BY DEF IInv, Ownership, ExitLeavesNothing
<1> QED
  BY <1>1, AgentInvariance, PTL

(* An agent that serves metrics has all hooks attached, and the filters    *)
(* too unless another agent ran beside it.                                 *)
THEOREM ServingAttached == Spec => []ServingIsAttached
<1>1. IInv => ServingIsAttached
  <2> SUFFICES ASSUME IInv, NEW p \in Procs, pc[p] \in {"up", "drain"}
               PROVE  /\ p \in objs
                      /\ closers[p] = AllHooks
                      /\ p \notin joined => \A d \in Dirs : filter[d] = p
    BY DEF ServingIsAttached, AllHooks
  <2>1. closers[p] = AllHooks
    <3> DEFINE S == Range(Hooks) \cup Dirs
    <3>1. closers[p] \in Seq(S) /\ AllHooks \in Seq(S)
      BY ListType, HooksFacts DEF IInv
    <3> HIDE DEF S
    <3>2. Len(closers[p]) = Len(AllHooks)
      BY HooksFacts DEF IInv, Progress
    <3>3. \A i \in 1..Len(closers[p]) : closers[p][i] = AllHooks[i]
      BY DEF IInv, Listed
    <3> QED
      BY <3>1, <3>2, <3>3, SeqEqual
  <2> QED
    BY <2>1 DEF IInv, Progress, Alone
<1> QED
  BY <1>1, AgentInvariance, PTL

(* A scrape that is answered from closed maps was cut off by the timeout   *)
(* of Shutdown or by the listener.                                         *)
THEOREM ScrapesSee == Spec => []NoBlindScrape
<1>1. IInv => NoBlindScrape
  BY DEF IInv
<1> QED
  BY <1>1, AgentInvariance, PTL

(* A program that can run, that of a filter left behind included, judges   *)
(* by the flags of its process: the configuration is written before the    *)
(* first hook is attached.                                                 *)
THEOREM VerdictsFollow == Spec => []VerdictFollowsFlags
<1>1. TRUE \in RightWhen
  BY FlagsGovernVerdicts, AgentAssumption DEF RightWhen, InForce
<1>2. IInv => VerdictFollowsFlags
  <2> SUFFICES ASSUME IInv, NEW p \in Procs,
                      closers[p] # <<>> \/ (\E d \in Dirs : filter[d] = p)
               PROVE  (p \in configured) \in RightWhen
    BY DEF VerdictFollowsFlags
  <2>1. p \in configured
    <3>1. CASE closers[p] # <<>>
      <4>1. Len(closers[p]) > 0
        BY <3>1, ListType, EmptySeq DEF IInv
      <4> QED
        BY <4>1 DEF IInv, Progress
    <3>2. CASE \E d \in Dirs : filter[d] = p
      BY <3>2 DEF IInv, Ownership
    <3> QED
      BY <3>1, <3>2
  <2>2. (p \in configured) = TRUE
    BY <2>1
  <2> QED
    BY <1>1, <2>2
<1> QED
  BY <1>2, AgentInvariance, PTL
=============================================================================
