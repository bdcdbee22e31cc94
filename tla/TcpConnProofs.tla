--------------------------- MODULE TcpConnProofs ---------------------------
(***************************************************************************)
(* What TcpConn guarantees for any number of sockets and CPUs, any map     *)
(* size and any threshold.                                                 *)
(*                                                                         *)
(* What an entry of nd_tcp_conn_life says is about the socket's present    *)
(* connection, or an earlier one if a delete has failed (LifeIsCurrent),   *)
(* and that is inductive together with the types and with when connections *)
(* began (Since); what is counted as short then follows.                   *)
(***************************************************************************)
EXTENDS TcpConn, FiniteSetTheorems, NaturalsInduction, WellFoundedInduction, TLAPS

-----------------------------------------------------------------------------
(* What an update of an LruMap can do, and ns / 1000.                      *)

(* bpf_map_update_elem leaves every entry as it was, takes it away, or,    *)
(* for the key updated, replaces it by the new value.                      *)
LEMMA UpdateEffect ==
  ASSUME NEW m, DOMAIN m = Keys, NEW k \in Keys, NEW v, NEW n \in LruUpdate(m, k, v),
         NEW j \in Keys
  PROVE  n[j] = m[j] \/ n[j] = None \/ (j = k /\ n[j] = v)
BY DEF LruUpdate, Present

(* It keeps a map of entries a map of entries. *)
LEMMA UpdateType ==
  ASSUME NEW S, NEW m \in [Keys -> S \cup {None}], NEW k \in Keys, NEW v \in S,
         NEW n \in LruUpdate(m, k, v)
  PROVE  n \in [Keys -> S \cup {None}]
<1>1. CASE n = m
  BY <1>1
<1>2. CASE n = [m EXCEPT ![k] = v]
  BY <1>2
<1>3. CASE \E e \in Keys : n = [m EXCEPT ![k] = v, ![e] = None]
  BY <1>3
<1> QED
  BY <1>1, <1>2, <1>3 DEF LruUpdate, Present

(* A duration in microseconds is short of the duration by less than a      *)
(* microsecond.                                                            *)
LEMMA DivExact ==
  ASSUME NEW x \in Nat, NEW n \in Nat \ {0}
  PROVE  x \div n \in Nat /\ x - (x \div n) * n \in 0..(n - 1)
OBVIOUS

-----------------------------------------------------------------------------
(* Sums over a finite set, which the totals over the CPUs are.  The        *)
(* induction is over sets (of numbers, of subsets) as the provers cannot   *)
(* instantiate the library's induction rules.                              *)

(* A set of numbers that is not empty has a least one. *)
LEMMA LeastNat ==
  ASSUME NEW T \in SUBSET Nat, T # {}
  PROVE  \E n \in T : \A m \in T : n <= m
<1>1. IsWellFoundedOn(OpToRel(<, Nat), Nat)
  BY NatLessThanWellFounded, Zenon
<1>2. \E n \in T : \A m \in T : ~(<<m, n>> \in OpToRel(<, Nat))
  BY <1>1, WFMin, Zenon
<1>3. PICK n \in T : \A m \in T : ~(<<m, n>> \in OpToRel(<, Nat))
  BY <1>2, Zenon
<1>4. \A m \in T : m \in Nat /\ n \in Nat /\ ~(m < n)
  BY <1>3 DEF OpToRel
<1>5. \A m \in T : n <= m
  BY <1>4
<1> QED
  BY <1>3, <1>5

(* Induction over the numbers, for a set of them. *)
LEMMA NatSetInduction ==
  ASSUME NEW A, 0 \in A, \A n \in Nat : n \in A => n + 1 \in A
  PROVE  Nat \subseteq A
<1> SUFFICES ASSUME Nat \ A # {} PROVE FALSE
  OBVIOUS
<1>1. PICK n \in Nat \ A : \A m \in Nat \ A : n <= m
  BY LeastNat
<1>2. n # 0 /\ n \in Nat
  BY <1>1
<1>3. n - 1 \in Nat /\ n - 1 < n /\ (n - 1) + 1 = n
  BY <1>2
<1>4. n - 1 \in A
  BY <1>1, <1>2, <1>3
<1> QED
  BY <1>1, <1>3, <1>4

(* The element SumFunction takes out of a set first. *)
Pick(s) == CHOOSE x \in s : TRUE

(* It is an element of the set. *)
LEMMA PickIn == ASSUME NEW s, s # {} PROVE Pick(s) \in s
BY DEF Pick

(* Induction over the subsets of a finite set, each from the one that lacks *)
(* its picked element.                                                     *)
LEMMA SubsetInduction ==
  ASSUME NEW D, IsFiniteSet(D), NEW A, {} \in A,
         \A s \in SUBSET D : s # {} /\ s \ {Pick(s)} \in A => s \in A
  PROVE  SUBSET D \subseteq A
<1> DEFINE B == {n \in Nat : \A s \in SUBSET D : Cardinality(s) = n => s \in A}
<1>1. \A s \in SUBSET D : IsFiniteSet(s) /\ Cardinality(s) \in Nat
  BY FS_Subset, FS_CardinalityType
<1>2. 0 \in B
  BY <1>1, FS_EmptySet
<1>3. ASSUME NEW n \in Nat, n \in B PROVE n + 1 \in B
  <2> SUFFICES ASSUME NEW s \in SUBSET D, Cardinality(s) = n + 1 PROVE s \in A
    OBVIOUS
  <2>1. s # {}
    BY <1>1, FS_EmptySet
  <2>2. Pick(s) \in s
    BY <2>1, PickIn
  <2>3. Cardinality(s \ {Pick(s)}) = n
    BY <1>1, <2>2, FS_RemoveElement
  <2>4. s \ {Pick(s)} \in A
    BY <1>3, <2>3
  <2> QED
    BY <2>1, <2>4
<1>4. Nat \subseteq B
  <2> HIDE DEF B
  <2> QED
    BY <1>2, <1>3, NatSetInduction
<1> QED
  BY <1>1, <1>4

(* h adds f up over the subsets of D, in the order in which SumFunction     *)
(* takes them apart.                                                       *)
Unrolls(h, f, D) ==
  h = [s \in SUBSET D |-> IF s = {} THEN 0 ELSE f[Pick(s)] + h[s \ {Pick(s)}]]

(* Over a finite set there is such an h. *)
LEMMA UnrollingExists ==
  ASSUME NEW D, IsFiniteSet(D), NEW f \in [D -> Int]
  PROVE  \E h : Unrolls(h, f, D)
<1> DEFINE Upto(n) == {s \in SUBSET D : Cardinality(s) <= n}
           Step(h, s) == IF s = {} THEN 0 ELSE f[Pick(s)] + h[s \ {Pick(s)}]
           Fixed(h, n) == h = [s \in Upto(n) |-> Step(h, s)]
           B == {n \in Nat : \E h : Fixed(h, n)}
<1>1. \A s \in SUBSET D : IsFiniteSet(s) /\ Cardinality(s) \in Nat
  BY FS_Subset, FS_CardinalityType
<1>2. 0 \in B
  <2>1. \A s \in Upto(0) : s = {}
    BY <1>1, FS_EmptySet
  <2> DEFINE g == [s \in Upto(0) |-> 0]
  <2>2. g = [s \in Upto(0) |-> Step(g, s)]
    BY <2>1
  <2> QED
    BY <2>2
<1>3. ASSUME NEW n \in Nat, n \in B PROVE n + 1 \in B
  <2>1. PICK h : Fixed(h, n)
    BY <1>3
  <2> DEFINE g == [s \in Upto(n + 1) |-> Step(h, s)]
  <2>2. ASSUME NEW s \in Upto(n + 1), s # {}
        PROVE  s \ {Pick(s)} \in Upto(n) /\ s \ {Pick(s)} \in Upto(n + 1)
    <3>1. Pick(s) \in s
      BY <2>2, PickIn
    <3>2. Cardinality(s \ {Pick(s)}) = Cardinality(s) - 1
      BY <1>1, <3>1, FS_RemoveElement
    <3>3. Cardinality(s) <= n + 1 /\ Cardinality(s) \in Nat
      BY <1>1
    <3>4. Cardinality(s \ {Pick(s)}) <= n /\ Cardinality(s \ {Pick(s)}) <= n + 1
      BY <3>2, <3>3
    <3> QED
      BY <3>4
  <2>3. \A s \in Upto(n) : s \in Upto(n + 1) /\ g[s] = h[s]
    <3> TAKE s \in Upto(n)
    <3>1. Cardinality(s) <= n + 1
      BY <1>1
    <3>2. s \in Upto(n + 1)
      BY <3>1
    <3>3. g[s] = Step(h, s)
      BY <3>2
    <3>4. h[s] = Step(h, s)
      BY <2>1
    <3> QED
      BY <3>2, <3>3, <3>4
  <2>4. \A s \in Upto(n + 1) : Step(h, s) = Step(g, s)
    <3> HIDE DEF g, Upto
    <3> QED
      BY <2>2, <2>3
  <2>5. g = [s \in Upto(n + 1) |-> Step(g, s)]
    BY <2>4
  <2>6. Fixed(g, n + 1)
    BY <2>5
  <2> HIDE DEF Fixed, g
  <2> QED
    BY <2>6
<1>4. Nat \subseteq B
  <2> HIDE DEF B
  <2> QED
    BY <1>2, <1>3, NatSetInduction
<1>5. Cardinality(D) \in Nat /\ Upto(Cardinality(D)) = SUBSET D
  <2>1. \A s \in SUBSET D : Cardinality(s) <= Cardinality(D)
    BY FS_Subset
  <2> QED
    BY <2>1, FS_CardinalityType
<1>6. \E h : Fixed(h, Cardinality(D))
  <2> HIDE DEF Fixed
  <2> QED
    BY <1>4, <1>5
<1> QED
  BY <1>5, <1>6 DEF Unrolls

(* What can be said of it. *)
PartialSums(h, f, D) ==
  /\ SumFunction(f) = h[D]
  /\ h[{}] = 0
  /\ \A s \in SUBSET D : s # {} => h[s] = f[Pick(s)] + h[s \ {Pick(s)}]

(* SumFunction is one of them. *)
LEMMA SumUnrolls ==
  ASSUME NEW D, IsFiniteSet(D), NEW f \in [D -> Int]
  PROVE  \E h \in [SUBSET D -> Int] : PartialSums(h, f, D)
<1> DEFINE h == CHOOSE g : Unrolls(g, f, D)
<1>1. SumFunction(f) = h[D]
  BY DEF SumFunction, SumFunctionOnSet, FoldFunctionOnSet, MapThenFoldSet, Pick, Unrolls
<1>2. Unrolls(h, f, D)
  BY UnrollingExists
<1> HIDE DEF h
<1>3. /\ DOMAIN h = SUBSET D
      /\ h[{}] = 0
      /\ \A s \in SUBSET D : s # {} => h[s] = f[Pick(s)] + h[s \ {Pick(s)}]
  BY <1>2 DEF Unrolls
<1>4. h = [s \in SUBSET D |-> h[s]]
  BY <1>2 DEF Unrolls
<1> DEFINE A == {s \in SUBSET D : h[s] \in Int}
<1>5. {} \in A
  BY <1>3
<1>6. ASSUME NEW s \in SUBSET D, s # {}, s \ {Pick(s)} \in A PROVE s \in A
  <2>1. Pick(s) \in s
    BY <1>6, PickIn
  <2>2. f[Pick(s)] \in Int /\ h[s \ {Pick(s)}] \in Int
    BY <1>6, <2>1
  <2>3. h[s] = f[Pick(s)] + h[s \ {Pick(s)}]
    BY <1>3, <1>6
  <2>4. h[s] \in Int
    BY <2>2, <2>3
  <2> QED
    BY <2>4
<1>7. SUBSET D \subseteq A
  <2> HIDE DEF A
  <2> QED
    BY <1>5, <1>6, SubsetInduction
<1>8. h \in [SUBSET D -> Int]
  <2>1. \A s \in SUBSET D : h[s] \in Int
    BY <1>7
  <2> QED
    BY <1>4, <2>1
<1> QED
  BY <1>1, <1>3, <1>8 DEF PartialSums

(* A change of one value changes the sum by as much. *)
LEMMA SumUpdate ==
  ASSUME NEW D, IsFiniteSet(D), NEW f \in [D -> Int], NEW g \in [D -> Int],
         NEW c \in D, \A d \in D \ {c} : g[d] = f[d]
  PROVE  SumFunction(g) = (SumFunction(f) - f[c]) + g[c]
<1>1. PICK h \in [SUBSET D -> Int] : PartialSums(h, f, D)
  BY SumUnrolls
<1>2. PICK k \in [SUBSET D -> Int] : PartialSums(k, g, D)
  BY SumUnrolls
<1> DEFINE A == {s \in SUBSET D : k[s] = h[s] + (IF c \in s THEN g[c] - f[c] ELSE 0)}
<1>3. {} \in A
  BY <1>1, <1>2 DEF PartialSums
<1>4. ASSUME NEW s \in SUBSET D, s # {}, s \ {Pick(s)} \in A PROVE s \in A
  <2> DEFINE p == Pick(s)
             r == s \ {p}
  <2>1. p \in s /\ p \in D /\ r \in SUBSET D
    BY <1>4, PickIn
  <2>2. h[s] = f[p] + h[r] /\ k[s] = g[p] + k[r]
    BY <1>1, <1>2, <1>4 DEF PartialSums
  <2>3. k[r] = h[r] + (IF c \in r THEN g[c] - f[c] ELSE 0)
    BY <1>4
  <2>4. p # c => g[p] = f[p]
    BY <2>1
  <2>5. /\ f[p] \in Int /\ g[p] \in Int /\ h[r] \in Int /\ k[r] \in Int
        /\ f[c] \in Int /\ g[c] \in Int
    BY <2>1
  <2>6. (c \in s) <=> (c = p \/ c \in r)
    BY <2>1
  <2>7. c = p => c \notin r
    OBVIOUS
  <2> HIDE DEF p, r
  <2>8. k[s] = h[s] + (IF c \in s THEN g[c] - f[c] ELSE 0)
    BY <2>2, <2>3, <2>4, <2>5, <2>6, <2>7
  <2> QED
    BY <2>8
<1>5. SUBSET D \subseteq A
  <2> HIDE DEF A
  <2> QED
    BY <1>3, <1>4, SubsetInduction
<1>6. k[D] = h[D] + (g[c] - f[c])
  BY <1>5
<1>7. h[D] \in Int /\ k[D] \in Int /\ f[c] \in Int /\ g[c] \in Int
  OBVIOUS
<1> QED
  BY <1>1, <1>2, <1>6, <1>7 DEF PartialSums

(* A sum of zeros. *)
LEMMA SumOfZeros ==
  ASSUME NEW D, IsFiniteSet(D), NEW f \in [D -> Int], \A d \in D : f[d] = 0
  PROVE  SumFunction(f) = 0
<1>1. PICK h \in [SUBSET D -> Int] : PartialSums(h, f, D)
  BY SumUnrolls
<1> DEFINE A == {s \in SUBSET D : h[s] = 0}
<1>2. {} \in A
  BY <1>1 DEF PartialSums
<1>3. ASSUME NEW s \in SUBSET D, s # {}, s \ {Pick(s)} \in A PROVE s \in A
  <2>1. Pick(s) \in D
    BY <1>3, PickIn
  <2> QED
    BY <1>1, <1>3, <2>1 DEF PartialSums
<1>4. SUBSET D \subseteq A
  <2> HIDE DEF A
  <2> QED
    BY <1>2, <1>3, SubsetInduction
<1> QED
  BY <1>1, <1>4 DEF PartialSums

(* A sum of integers is one. *)
LEMMA SumType ==
  ASSUME NEW D, IsFiniteSet(D), NEW f \in [D -> Int]
  PROVE  SumFunction(f) \in Int
<1>1. PICK h \in [SUBSET D -> Int] : PartialSums(h, f, D)
  BY SumUnrolls
<1>2. h[D] \in Int
  OBVIOUS
<1> QED
  BY <1>1, <1>2 DEF PartialSums

-----------------------------------------------------------------------------
(* The inductive invariant.                                                *)

(* No connection began in the future, and the hook has seen the present    *)
(* one of a socket begin if an earlier one's entry is still there.         *)
Since ==
  \A s \in Socks :
    /\ since[s] # None => since[s] <= clock
    /\ nd_tcp_conn_life[s] # None => nd_tcp_conn_life[s] <= clock
    /\ s \in kept => s \in Ipv4 /\ (state[s] = "ESTABLISHED" => since[s] # None)

IInv ==
  /\ TypeOK
  /\ Since
  /\ LifeIsCurrent
  /\ ShortLivedIsShort

-----------------------------------------------------------------------------
(* The steps.                                                              *)

(* A move of the kernel. *)
LEMMA KernelMoveEffect ==
  ASSUME TypeOK, NEW s \in Socks, NEW m \in KernelMoves \cup {PassiveOpen},
         KernelMove(s, m[1], m[2])
  PROVE  /\ m[1] \in States /\ m[2] \in States
         /\ state' \in [Socks -> States] /\ state0' \in [Socks -> States]
         /\ moves' \in 0..MaxMoves
         /\ clock' = clock
         /\ state'[s] = m[2]
         /\ \A t \in Socks : t # s => state'[t] = state[t]
         /\ m[1] = "ESTABLISHED" => state[s] = "ESTABLISHED"
         /\ m[1] # "ESTABLISHED" => state[s] # "ESTABLISHED"
<1>1. m[1] \in States /\ m[2] \in States
  BY DEF KernelMoves, PassiveOpen, States
<1>2. /\ m[1] = "ESTABLISHED" => <<m[1], m[2]>> # PassiveOpen
      /\ <<m[1], m[2]>> = PassiveOpen => m[1] # "ESTABLISHED"
  BY DEF PassiveOpen
<1>3. moves' \in 0..MaxMoves
  BY TcpAssumption DEF TypeOK, KernelMove
<1> QED
  BY <1>1, <1>2, <1>3 DEF TypeOK, KernelMove

(* The counters of a CPU stay what they are. *)
LEMMA CountTyped ==
  ASSUME TypeOK, NEW c \in Cpus, NEW fields, Count(c, fields)
  PROVE  nd_tcp_counters' \in [Cpus -> [Counters -> Nat]]
BY DEF TypeOK, Count

(* The deltas of a CPU stay integers. *)
LEMMA DeltaTyped ==
  ASSUME TypeOK, NEW c \in Cpus, NEW old, NEW new, StateDelta(c, old, new)
  PROVE  nd_tcp_state_delta' \in [Cpus -> [States -> Int]]
BY DEF TypeOK, StateDelta

(* The longer duration has no fewer microseconds. *)
LEMMA DivMonotone ==
  ASSUME NEW x \in Nat, NEW y \in Nat, x <= y, NEW n \in Nat \ {0}
  PROVE  x \div n <= y \div n
OBVIOUS

(* A microsecond count of an entry is the time since its start. *)
LEMMA DurationTyped ==
  ASSUME NEW now \in Nat, NEW start \in Nat, start <= now
  PROVE  /\ Duration(now, start) = (now - start) \div NsPerUs
         /\ Duration(now, start) \in Nat
<1>1. now - start \in Nat /\ NsPerUs \in Nat \ {0}
  BY TcpAssumption
<1>2. (now - start) \div NsPerUs \in Nat
  BY <1>1, DivExact
<1>3. now = start => (now - start) \div NsPerUs = 0
  <2>1. 0 \div NsPerUs = 0
    BY <1>1
  <2> QED
    BY <2>1
<1> QED
  BY <1>2, <1>3 DEF Duration

(* An IPv4 socket becomes ESTABLISHED: it gets an entry, or none. *)
LEMMA EstablishedStep ==
  ASSUME IInv, NEW c \in Cpus, NEW s \in Socks, NEW m \in KernelMoves \cup {PassiveOpen},
         Established(c, s, m[1], m[2])
  PROVE  IInv'
<1>1. TypeOK /\ s \in Ipv4 /\ m[2] = "ESTABLISHED" /\ KernelMove(s, m[1], m[2])
  BY DEF IInv, Established
<1>2. m[1] # "ESTABLISHED"
  BY <1>1 DEF KernelMoves, PassiveOpen
<1>3. /\ state' \in [Socks -> States] /\ state0' \in [Socks -> States]
      /\ moves' \in 0..MaxMoves
      /\ clock' = clock
      /\ state'[s] = "ESTABLISHED"
      /\ \A t \in Socks : t # s => state'[t] = state[t]
      /\ state[s] # "ESTABLISHED"
  BY <1>1, <1>2, KernelMoveEffect
<1>4. nd_tcp_state_delta' \in [Cpus -> [States -> Int]]
  BY <1>1, DeltaTyped DEF Established
<1> DEFINE T == 1..MaxClock
<1>5. /\ clock \in T /\ nd_tcp_conn_life \in [Keys -> T \cup {None}]
      /\ nd_tcp_conn_life' \in LruUpdate(nd_tcp_conn_life, s, clock)
      /\ s \in Keys
  BY <1>1 DEF TypeOK, Established, Life, Socks
<1> HIDE DEF T
<1>6. nd_tcp_conn_life' \in [Keys -> T \cup {None}]
  BY <1>5, UpdateType
<1>7. \A t \in Keys : \/ nd_tcp_conn_life'[t] = nd_tcp_conn_life[t]
                      \/ nd_tcp_conn_life'[t] = None
                      \/ t = s /\ nd_tcp_conn_life'[t] = clock
  BY <1>5, UpdateEffect
<1>8. since' = [since EXCEPT ![s] = clock] /\ since' \in [Socks -> T \cup {None}]
  BY <1>1, <1>5 DEF Established, TypeOK, T
<1>9. TypeOK'
  BY <1>1, <1>3, <1>4, <1>6, <1>8 DEF TypeOK, Established, Socks, T
<1>k. kept' = IF nd_tcp_conn_life'[s] = clock THEN kept \ {s} ELSE kept
  BY DEF Established, Life
<1>n. clock \in Nat /\ clock # None
  BY <1>5, TcpNoneAssumption, TcpAssumption DEF T
<1>10. Since'
  <2> SUFFICES ASSUME NEW t \in Socks
               PROVE  /\ since'[t] # None => since'[t] <= clock
                      /\ nd_tcp_conn_life'[t] # None => nd_tcp_conn_life'[t] <= clock
                      /\ t \in kept' => /\ t \in Ipv4
                                        /\ state'[t] = "ESTABLISHED" => since'[t] # None
    BY <1>3 DEF Since
  <2>1. /\ since[t] # None => since[t] <= clock
        /\ nd_tcp_conn_life[t] # None => nd_tcp_conn_life[t] <= clock
        /\ t \in kept => t \in Ipv4 /\ (state[t] = "ESTABLISHED" => since[t] # None)
    BY DEF IInv, Since
  <2>2. IF t = s THEN since'[t] = clock ELSE since'[t] = since[t]
    BY <1>1, <1>8 DEF TypeOK
  <2>3. t \in kept' => t \in kept
    BY <1>k
  <2> QED
    BY <1>1, <1>3, <1>7, <1>n, <2>1, <2>2, <2>3 DEF Socks
<1>11. LifeIsCurrent'
  <2> SUFFICES ASSUME NEW t \in Socks, nd_tcp_conn_life'[t] # None
               PROVE  /\ t \in Ipv4
                      /\ t \notin kept' => /\ state'[t] = "ESTABLISHED"
                                           /\ nd_tcp_conn_life'[t] = since'[t]
                      /\ since'[t] # None => nd_tcp_conn_life'[t] <= since'[t]
    BY DEF LifeIsCurrent
  <2>1. CASE t = s
    <3>1. since'[t] = clock
      BY <1>1, <1>8, <2>1 DEF TypeOK
    <3>2. nd_tcp_conn_life'[t] = clock \/ nd_tcp_conn_life'[t] = nd_tcp_conn_life[t]
      BY <1>7, <2>1 DEF Socks
    <3>3. nd_tcp_conn_life[t] # None => nd_tcp_conn_life[t] <= clock
      BY DEF IInv, Since
    <3>4. t \notin kept' /\ nd_tcp_conn_life'[t] # clock => t \notin kept
      BY <1>k, <2>1
    <3>5. t \notin kept /\ nd_tcp_conn_life[t] # None => state[t] = "ESTABLISHED"
      BY DEF IInv, LifeIsCurrent
    <3> QED
      BY <1>1, <1>3, <1>n, <2>1, <3>1, <3>2, <3>3, <3>4, <3>5
  <2>2. CASE t # s
    <3>1. /\ since'[t] = since[t] /\ state'[t] = state[t]
          /\ nd_tcp_conn_life'[t] = nd_tcp_conn_life[t]
          /\ t \in kept => t \in kept'
      BY <1>1, <1>3, <1>7, <1>8, <1>k, <2>2 DEF TypeOK, Socks
    <3> QED
      BY <3>1 DEF IInv, LifeIsCurrent
  <2> QED
    BY <2>1, <2>2
<1>12. ShortLivedIsShort'
  BY DEF IInv, ShortLivedIsShort, Established
<1> QED
  BY <1>9, <1>10, <1>11, <1>12 DEF IInv

(* An IPv4 socket leaves ESTABLISHED and its entry is there. *)
LEMMA ClosedStep ==
  ASSUME IInv, NEW c \in Cpus, NEW s \in Socks, NEW m \in KernelMoves \cup {PassiveOpen},
         Closed(c, s, m[1], m[2])
  PROVE  IInv'
<1> DEFINE life == nd_tcp_conn_life[s]
           us == Duration(clock, life)
           new == [since |-> since[s], at |-> clock, us |-> us]
<1>1. TypeOK /\ s \in Ipv4 /\ KernelMove(s, m[1], m[2]) /\ life # None
  BY DEF IInv, Closed
<1>2. /\ state' \in [Socks -> States] /\ state0' \in [Socks -> States]
      /\ moves' \in 0..MaxMoves
      /\ clock' = clock
      /\ \A t \in Socks : t # s => state'[t] = state[t]
  BY <1>1, KernelMoveEffect
<1>3. nd_tcp_state_delta' \in [Cpus -> [States -> Int]]
  BY <1>1, DeltaTyped DEF Closed
<1>4. nd_tcp_counters' \in [Cpus -> [Counters -> Nat]]
  BY <1>1, CountTyped DEF Closed
<1>5. /\ nd_tcp_conn_life' \in {nd_tcp_conn_life, [nd_tcp_conn_life EXCEPT ![s] = None]}
      /\ since' = [since EXCEPT ![s] = None]
      /\ kept' = IF nd_tcp_conn_life'[s] = None THEN kept \ {s} ELSE kept \cup {s}
  BY DEF Closed, LruDelete, LruWithout
<1>s. state'[s] # "ESTABLISHED"
  BY <1>1, KernelMoveEffect DEF Closed
<1>6. TypeOK'
  BY <1>1, <1>2, <1>3, <1>4, <1>5 DEF TypeOK, Closed
<1>7. Since'
  BY <1>1, <1>2, <1>5, <1>s DEF IInv, Since, TypeOK
<1>8. LifeIsCurrent'
  BY <1>1, <1>2, <1>5 DEF IInv, LifeIsCurrent, TypeOK
<1>9. ShortLivedIsShort'
  <2>s. state[s] = "ESTABLISHED"
    BY <1>1, KernelMoveEffect DEF Closed
  <2>0. since[s] # None /\ life <= since[s] /\ since[s] <= clock
    BY <1>1, <2>s DEF IInv, LifeIsCurrent, Since
  <2>1. life \in Nat /\ since[s] \in Nat /\ clock \in Nat /\ life <= clock
    BY <1>1, <2>0, TcpAssumption DEF IInv, TypeOK
  <2>2. (clock - since[s]) \div NsPerUs <= us
    <3>1. clock - since[s] \in Nat /\ clock - life \in Nat /\ clock - since[s] <= clock - life
      BY <2>0, <2>1
    <3>2. (clock - since[s]) \div NsPerUs <= (clock - life) \div NsPerUs
      BY <3>1, DivMonotone, TcpAssumption
    <3>3. us = (clock - life) \div NsPerUs
      BY <2>1, DurationTyped
    <3> QED
      BY <3>2, <3>3
  <2>3. short' = short \/ (IsShort(us) /\ short' = short \cup {new})
    BY DEF Closed
  <2> HIDE DEF us, life
  <2>4. new.since = since[s] /\ new.at = clock /\ new.us = us
    OBVIOUS
  <2>5. IsShort(us) => us < ShortTcpConn
    BY DEF IsShort
  <2> HIDE DEF new
  <2> QED
    BY <1>1, <2>0, <2>2, <2>3, <2>4, <2>5 DEF IInv, ShortLivedIsShort
<1> QED
  BY <1>6, <1>7, <1>8, <1>9 DEF IInv

(* An IPv4 socket leaves ESTABLISHED and there is no entry. *)
LEMMA ClosedUnseenStep ==
  ASSUME IInv, NEW c \in Cpus, NEW s \in Socks, NEW m \in KernelMoves \cup {PassiveOpen},
         ClosedUnseen(c, s, m[1], m[2])
  PROVE  IInv'
<1>1. TypeOK /\ KernelMove(s, m[1], m[2]) /\ nd_tcp_conn_life[s] = None
  BY DEF IInv, ClosedUnseen
<1>2. /\ state' \in [Socks -> States] /\ state0' \in [Socks -> States]
      /\ moves' \in 0..MaxMoves
      /\ clock' = clock
      /\ \A t \in Socks : t # s => state'[t] = state[t]
  BY <1>1, KernelMoveEffect
<1>3. nd_tcp_state_delta' \in [Cpus -> [States -> Int]]
  BY <1>1, DeltaTyped DEF ClosedUnseen
<1>4. since' = [since EXCEPT ![s] = None]
      /\ UNCHANGED <<nd_tcp_conn_life, nd_tcp_counters, kept, short>> /\ left' = left + 1
  BY DEF ClosedUnseen
<1>5. TypeOK'
  BY <1>1, <1>2, <1>3, <1>4 DEF TypeOK
<1>s. state'[s] # "ESTABLISHED"
  BY <1>1, KernelMoveEffect DEF ClosedUnseen
<1>6. Since' /\ LifeIsCurrent' /\ ShortLivedIsShort'
  BY <1>1, <1>2, <1>4, <1>s DEF IInv, Since, LifeIsCurrent, ShortLivedIsShort, TypeOK
<1> QED
  BY <1>5, <1>6 DEF IInv

(* Any other move, of a socket without an entry or with an old one. *)
LEMMA OtherStep ==
  ASSUME IInv, NEW c \in Cpus, NEW s \in Socks, NEW m \in KernelMoves \cup {PassiveOpen},
         OtherMove(c, s, m[1], m[2]) \/ Ignored(c, s, m[1], m[2])
  PROVE  IInv'
<1>1. TypeOK /\ KernelMove(s, m[1], m[2]) /\ UNCHANGED <<nd_tcp_conn_life, since, left, kept, short>>
  BY DEF IInv, OtherMove, Ignored
<1>2. /\ state' \in [Socks -> States] /\ state0' \in [Socks -> States]
      /\ moves' \in 0..MaxMoves
      /\ clock' = clock
      /\ \A t \in Socks : t # s => state'[t] = state[t]
      /\ m[1] # "ESTABLISHED" => state[s] # "ESTABLISHED"
  BY <1>1, KernelMoveEffect
<1>3. nd_tcp_state_delta' \in [Cpus -> [States -> Int]]
  BY <1>1, DeltaTyped DEF OtherMove, Ignored, TypeOK
<1>4. nd_tcp_counters' \in [Cpus -> [Counters -> Nat]]
  BY <1>1, CountTyped DEF OtherMove, Ignored, TypeOK
<1>5. /\ state'[s] # "ESTABLISHED" \/ s \notin Ipv4
      /\ nd_tcp_conn_life[s] # None => s \in kept
  BY <1>1, <1>2, KernelMoveEffect DEF IInv, LifeIsCurrent, OtherMove, Ignored
<1>6. TypeOK'
  BY <1>1, <1>2, <1>3, <1>4 DEF TypeOK
<1>7. Since' /\ LifeIsCurrent' /\ ShortLivedIsShort'
  BY <1>1, <1>2, <1>5 DEF IInv, Since, LifeIsCurrent, ShortLivedIsShort
<1> QED
  BY <1>6, <1>7 DEF IInv

-----------------------------------------------------------------------------
(* The theorems.                                                           *)

(* The hook starts with an empty map, whatever connections there are. *)
LEMMA InitIInv == Init => IInv
<1> SUFFICES ASSUME Init PROVE IInv
  OBVIOUS
<1>1. TypeOK
  BY TcpAssumption DEF Init, TypeOK, EmptyMap, Socks
<1>2. Since /\ LifeIsCurrent /\ ShortLivedIsShort
  BY DEF Init, EmptyMap, Since, LifeIsCurrent, ShortLivedIsShort, Socks
<1> QED
  BY <1>1, <1>2 DEF IInv

(* Every state change and the clock keep the invariant. *)
LEMMA StepIInv == IInv /\ [Next]_vars => IInv'
<1> SUFFICES ASSUME IInv, [Next]_vars PROVE IInv'
  OBVIOUS
<1>1. CASE Tick
  <2>1. clock' \in 1..MaxClock /\ clock <= clock' /\ clock \in Nat /\ clock' \in Nat
    BY <1>1, TcpAssumption DEF Tick, IInv, TypeOK
  <2>2. \A s \in Socks : /\ since[s] # None => since[s] \in Nat
                         /\ nd_tcp_conn_life[s] # None => nd_tcp_conn_life[s] \in Nat
    BY TcpAssumption DEF IInv, TypeOK
  <2>3. Since'
    BY <1>1, <2>1, <2>2 DEF Tick, IInv, Since
  <2> QED
    BY <1>1, <2>1, <2>3 DEF Tick, IInv, TypeOK, LifeIsCurrent, ShortLivedIsShort
<1>2. ASSUME NEW c \in Cpus, NEW s \in Socks, NEW m \in KernelMoves \cup {PassiveOpen},
             SetState(c, s, m[1], m[2])
      PROVE  IInv'
  BY <1>2, EstablishedStep, ClosedStep, ClosedUnseenStep, OtherStep DEF SetState
<1>3. CASE UNCHANGED vars
  BY <1>3 DEF vars, IInv, TypeOK, Since, LifeIsCurrent, ShortLivedIsShort
<1> QED
  BY <1>1, <1>2, <1>3 DEF Next

(* The inductive invariant holds in every state of the hook. *)
THEOREM TcpInvariance == Spec => []IInv
BY InitIInv, StepIInv, PTL DEF Spec

(* Every value the hook keeps has its type. *)
THEOREM TcpTypeCorrect == Spec => []TypeOK
<1>1. IInv => TypeOK
  BY DEF IInv
<1> QED
  BY <1>1, TcpInvariance, PTL

(* An entry of nd_tcp_conn_life is about the connection its socket has     *)
(* now, although addresses are used again, entries vanish and updates      *)
(* fail; what a failed delete has left is older, never newer.              *)
THEOREM LifeCurrent == Spec => []LifeIsCurrent
<1>1. IInv => LifeIsCurrent
  BY DEF IInv
<1> QED
  BY <1>1, TcpInvariance, PTL

(* What nd_inet_sock_set_state counts as short-lived was established for   *)
(* less than the threshold while the hook was watching.                    *)
THEOREM ShortLivedSound == Spec => []ShortLivedIsShort
<1>1. IInv => ShortLivedIsShort
  BY DEF IInv
<1> QED
  BY <1>1, TcpInvariance, PTL

-----------------------------------------------------------------------------
(* The totals over the CPUs.                                               *)

(* The handshakes under way, and those there were when the hook came. *)
Opening(st) == In(st, "SYN_SENT") + In(st, "SYN_RECV")

(* The counters and the gauges, strengthened: a failed connect is an       *)
(* attempt that is no longer under way.                                    *)
Totals ==
  /\ GaugeIsDelta
  /\ Total("short_lived_total") <= Total("closed_total")
  /\ Total("closed_total") <= left
  /\ Total("connect_failed_total") + Opening(state)
       <= Total("connect_attempt_total") + Opening(state0)

(* The sums and the counts are numbers. *)
LEMMA TotalsTyped ==
  ASSUME TypeOK
  PROVE  /\ \A t \in States : Gauge(t) \in Int
         /\ \A f \in Counters : Total(f) \in Int
         /\ \A t \in States : In(state, t) \in Nat /\ In(state0, t) \in Nat
<1>1. ASSUME NEW t \in States PROVE Gauge(t) \in Int
  <2> DEFINE g == [c \in Cpus |-> nd_tcp_state_delta[c][t]]
  <2>1. g \in [Cpus -> Int]
    BY DEF TypeOK
  <2> HIDE DEF g
  <2>2. SumFunction(g) \in Int
    BY <2>1, SumType, TcpFiniteAssumption
  <2> QED
    BY <2>2 DEF Gauge, g
<1>2. ASSUME NEW f \in Counters PROVE Total(f) \in Int
  <2> DEFINE g == [c \in Cpus |-> nd_tcp_counters[c][f]]
  <2>1. g \in [Cpus -> Int]
    BY DEF TypeOK
  <2> HIDE DEF g
  <2>2. SumFunction(g) \in Int
    BY <2>1, SumType, TcpFiniteAssumption
  <2> QED
    BY <2>2 DEF Total, g
<1>3. ASSUME NEW st, NEW t PROVE In(st, t) \in Nat
  BY TcpFiniteAssumption, FS_Subset, FS_CardinalityType DEF In
<1> QED
  BY <1>1, <1>2, <1>3

(* nd_tcp_state_delta_add on one CPU moves one socket of the sum. *)
LEMMA GaugeMoves ==
  ASSUME TypeOK, NEW c \in Cpus, NEW old \in States, NEW new \in States,
         StateDelta(c, old, new), NEW t \in States
  PROVE  Gauge(t)' = (Gauge(t) - (IF t = old THEN 1 ELSE 0)) + (IF t = new THEN 1 ELSE 0)
<1> DEFINE f == [d \in Cpus |-> nd_tcp_state_delta[d][t]]
           g == [d \in Cpus |-> nd_tcp_state_delta'[d][t]]
<1>1. /\ nd_tcp_state_delta \in [Cpus -> [States -> Int]]
      /\ nd_tcp_state_delta' \in [Cpus -> [States -> Int]]
  BY DeltaTyped DEF TypeOK
<1>2. f \in [Cpus -> Int] /\ g \in [Cpus -> Int]
  BY <1>1
<1>3. \A d \in Cpus \ {c} : g[d] = f[d]
  BY <1>1 DEF StateDelta
<1>4. g[c] = (f[c] - (IF t = old THEN 1 ELSE 0)) + (IF t = new THEN 1 ELSE 0)
  BY <1>1 DEF StateDelta
<1>5. Gauge(t) = SumFunction(f) /\ Gauge(t)' = SumFunction(g)
  BY DEF Gauge
<1> HIDE DEF f, g
<1>6. SumFunction(g) = (SumFunction(f) - f[c]) + g[c]
  BY <1>2, <1>3, SumUpdate, TcpFiniteAssumption
<1>7. SumFunction(f) \in Int /\ f[c] \in Int
  BY <1>2, SumType, TcpFiniteAssumption
<1> QED
  BY <1>4, <1>5, <1>6, <1>7

(* An increment on one CPU is one of the sum. *)
LEMMA TotalCounts ==
  ASSUME TypeOK, NEW c \in Cpus, NEW fields, Count(c, fields), NEW f \in Counters
  PROVE  Total(f)' = Total(f) + (IF f \in fields THEN 1 ELSE 0)
<1> DEFINE a == [d \in Cpus |-> nd_tcp_counters[d][f]]
           b == [d \in Cpus |-> nd_tcp_counters'[d][f]]
<1>1. /\ nd_tcp_counters \in [Cpus -> [Counters -> Nat]]
      /\ nd_tcp_counters' \in [Cpus -> [Counters -> Nat]]
  BY CountTyped DEF TypeOK
<1>2. a \in [Cpus -> Int] /\ b \in [Cpus -> Int]
  BY <1>1
<1>3. \A d \in Cpus \ {c} : b[d] = a[d]
  BY <1>1 DEF Count
<1>4. b[c] = a[c] + (IF f \in fields THEN 1 ELSE 0)
  BY <1>1 DEF Count
<1>5. Total(f) = SumFunction(a) /\ Total(f)' = SumFunction(b)
  BY DEF Total
<1> HIDE DEF a, b
<1>6. SumFunction(b) = (SumFunction(a) - a[c]) + b[c]
  BY <1>2, <1>3, SumUpdate, TcpFiniteAssumption
<1>7. SumFunction(a) \in Int /\ a[c] \in Int
  BY <1>2, SumType, TcpFiniteAssumption
<1> QED
  BY <1>4, <1>5, <1>6, <1>7

(* From st to u the number of sockets in state t changes by socket s. *)
CountsMove(st, u, s, t) ==
  In(u, t) = (In(st, t) - (IF t = st[s] THEN 1 ELSE 0)) + (IF t = u[s] THEN 1 ELSE 0)

(* A move of one socket takes it out of one state and into another. *)
LEMMA InMoves ==
  ASSUME NEW st \in [Socks -> States], NEW u \in [Socks -> States], NEW s \in Ipv4,
         \A r \in Socks \ {s} : u[r] = st[r], NEW t
  PROVE  CountsMove(st, u, s, t)
<1> DEFINE A == {r \in Ipv4 : st[r] = t}
           B == {r \in Ipv4 : u[r] = t}
<1>1. Ipv4 \subseteq Socks
  BY TcpAssumption DEF Socks
<1>2. IsFiniteSet(A) /\ Cardinality(A) \in Nat
  BY TcpFiniteAssumption, FS_Subset, FS_CardinalityType
<1>3. In(st, t) = Cardinality(A) /\ In(u, t) = Cardinality(B)
  BY DEF In
<1>4. s \in A <=> t = st[s]
  OBVIOUS
<1>5. B = IF t = u[s] THEN (A \ {s}) \cup {s} ELSE A \ {s}
  BY <1>1
<1> HIDE DEF A, B
<1>6. IsFiniteSet(A \ {s})
      /\ Cardinality(A \ {s}) = IF s \in A THEN Cardinality(A) - 1 ELSE Cardinality(A)
  BY <1>2, FS_RemoveElement
<1>7. Cardinality((A \ {s}) \cup {s}) = Cardinality(A \ {s}) + 1
  BY <1>6, FS_AddElement
<1> QED
  BY <1>2, <1>3, <1>4, <1>5, <1>6, <1>7 DEF CountsMove

(* A reported move of an IPv4 socket: the gauges of the states between     *)
(* CLOSE and CLOSE follow it.                                              *)
LEMMA MoveKeepsGauges ==
  ASSUME TypeOK, GaugeIsDelta, NEW c \in Cpus, NEW s \in Ipv4,
         NEW m \in KernelMoves \cup {PassiveOpen},
         KernelMove(s, m[1], m[2]), StateDelta(c, m[1], m[2])
  PROVE  /\ GaugeIsDelta'
         /\ \A t \in States \ {"CLOSE", "LISTEN"} :
              In(state', t) = (In(state, t) - (IF t = m[1] THEN 1 ELSE 0))
                                + (IF t = m[2] THEN 1 ELSE 0)
<1>1. m[1] \in States /\ m[2] \in States /\ s \in Socks
  BY TcpAssumption DEF KernelMoves, PassiveOpen, States, Socks
<1>2. state \in [Socks -> States] /\ state' = [state EXCEPT ![s] = m[2]] /\ state0' = state0
  BY DEF TypeOK, KernelMove
<1>3. ASSUME NEW t \in States \ {"CLOSE", "LISTEN"} PROVE t = state[s] <=> t = m[1]
  BY <1>3 DEF KernelMove, PassiveOpen
<1>4. ASSUME NEW t \in States \ {"CLOSE", "LISTEN"}
      PROVE  In(state', t) = (In(state, t) - (IF t = m[1] THEN 1 ELSE 0))
                               + (IF t = m[2] THEN 1 ELSE 0)
  <2>1. /\ state' \in [Socks -> States] /\ state'[s] = m[2]
        /\ \A r \in Socks \ {s} : state'[r] = state[r]
    BY <1>1, <1>2
  <2>2. CountsMove(state, state', s, t)
    BY <1>2, <2>1, InMoves
  <2>3. t = state[s] <=> t = m[1]
    BY <1>3
  <2> QED
    BY <2>1, <2>2, <2>3 DEF CountsMove
<1>5. ASSUME NEW t \in States \ {"CLOSE", "LISTEN"}
      PROVE  Gauge(t)' = In(state', t) - In(state0', t)
  <2>1. Gauge(t)' = (Gauge(t) - (IF t = m[1] THEN 1 ELSE 0)) + (IF t = m[2] THEN 1 ELSE 0)
    BY <1>1, GaugeMoves
  <2>2. Gauge(t) = In(state, t) - In(state0, t)
    BY DEF GaugeIsDelta
  <2>3. Gauge(t) \in Int /\ In(state, t) \in Nat /\ In(state0, t) \in Nat
    BY TotalsTyped
  <2>4. In(state', t) = (In(state, t) - (IF t = m[1] THEN 1 ELSE 0))
                          + (IF t = m[2] THEN 1 ELSE 0)
    BY <1>4
  <2>5. In(state0', t) = In(state0, t)
    BY <1>2
  <2> QED
    BY <2>1, <2>2, <2>3, <2>4, <2>5
<1>6. GaugeIsDelta'
  BY <1>5 DEF GaugeIsDelta
<1> QED
  BY <1>4, <1>6

(* The same for the handshakes under way. *)
LEMMA OpeningMoves ==
  ASSUME TypeOK, GaugeIsDelta, NEW c \in Cpus, NEW s \in Ipv4,
         NEW m \in KernelMoves \cup {PassiveOpen},
         KernelMove(s, m[1], m[2]), StateDelta(c, m[1], m[2])
  PROVE  /\ Opening(state') = (Opening(state) - (IF SynState(m[1]) THEN 1 ELSE 0))
                                + (IF SynState(m[2]) THEN 1 ELSE 0)
         /\ Opening(state) \in Nat /\ Opening(state0) \in Nat /\ Opening(state0') = Opening(state0)
<1>1. "SYN_SENT" \in States \ {"CLOSE", "LISTEN"} /\ "SYN_RECV" \in States \ {"CLOSE", "LISTEN"}
  BY DEF States
<1>2. /\ In(state', "SYN_SENT") = (In(state, "SYN_SENT") - (IF "SYN_SENT" = m[1] THEN 1 ELSE 0))
                                    + (IF "SYN_SENT" = m[2] THEN 1 ELSE 0)
      /\ In(state', "SYN_RECV") = (In(state, "SYN_RECV") - (IF "SYN_RECV" = m[1] THEN 1 ELSE 0))
                                    + (IF "SYN_RECV" = m[2] THEN 1 ELSE 0)
  BY <1>1, MoveKeepsGauges
<1>3. /\ In(state, "SYN_SENT") \in Nat /\ In(state, "SYN_RECV") \in Nat
      /\ In(state0, "SYN_SENT") \in Nat /\ In(state0, "SYN_RECV") \in Nat
  BY <1>1, TotalsTyped
<1>4. state0' = state0
  BY DEF KernelMove
<1> QED
  BY <1>2, <1>3, <1>4 DEF Opening, SynState

(* The values the steps add to. *)
LEMMA CounterValues ==
  ASSUME TypeOK
  PROVE  /\ Total("short_lived_total") \in Int /\ Total("closed_total") \in Int
         /\ Total("connect_attempt_total") \in Int /\ Total("connect_failed_total") \in Int
         /\ left \in Nat
BY TotalsTyped DEF Counters, TypeOK

(* No counter moves when a socket becomes ESTABLISHED, and a handshake     *)
(* ends.                                                                   *)
LEMMA EstablishedTotals ==
  ASSUME TypeOK, Totals, NEW c \in Cpus, NEW s \in Socks, NEW m \in KernelMoves \cup {PassiveOpen},
         Established(c, s, m[1], m[2])
  PROVE  Totals'
<1>1. /\ s \in Ipv4 /\ m[2] = "ESTABLISHED" /\ KernelMove(s, m[1], m[2])
      /\ StateDelta(c, m[1], m[2]) /\ UNCHANGED <<nd_tcp_counters, left>>
  BY DEF Established
<1>2. GaugeIsDelta'
  BY <1>1, MoveKeepsGauges DEF Totals
<1>3. /\ Opening(state') = (Opening(state) - (IF SynState(m[1]) THEN 1 ELSE 0))
                             + (IF SynState(m[2]) THEN 1 ELSE 0)
      /\ Opening(state) \in Nat /\ Opening(state0) \in Nat /\ Opening(state0') = Opening(state0)
  BY <1>1, OpeningMoves DEF Totals
<1>4. ~SynState(m[2])
  BY <1>1 DEF SynState
<1>5. \A f : Total(f)' = Total(f)
  BY <1>1 DEF Total
<1> QED
  BY <1>1, <1>2, <1>3, <1>4, <1>5, CounterValues DEF Totals

(* A connection that closes is counted at most once, as one that left. *)
LEMMA ClosedTotals ==
  ASSUME TypeOK, Totals, NEW c \in Cpus, NEW s \in Socks, NEW m \in KernelMoves \cup {PassiveOpen},
         Closed(c, s, m[1], m[2]) \/ ClosedUnseen(c, s, m[1], m[2])
  PROVE  Totals'
<1>1. /\ s \in Ipv4 /\ m[1] = "ESTABLISHED" /\ KernelMove(s, m[1], m[2])
      /\ StateDelta(c, m[1], m[2]) /\ left' = left + 1
  BY DEF Closed, ClosedUnseen
<1>2. GaugeIsDelta'
  BY <1>1, MoveKeepsGauges DEF Totals
<1>3. /\ Opening(state') = (Opening(state) - (IF SynState(m[1]) THEN 1 ELSE 0))
                             + (IF SynState(m[2]) THEN 1 ELSE 0)
      /\ Opening(state) \in Nat /\ Opening(state0) \in Nat /\ Opening(state0') = Opening(state0)
  BY <1>1, OpeningMoves DEF Totals
<1>4. ~SynState(m[1]) /\ ~SynState(m[2])
  BY <1>1 DEF SynState, KernelMoves, PassiveOpen
<1>5. /\ Total("connect_attempt_total")' = Total("connect_attempt_total")
      /\ Total("connect_failed_total")' = Total("connect_failed_total")
      /\ \/ /\ Total("closed_total")' = Total("closed_total")
            /\ Total("short_lived_total")' = Total("short_lived_total")
         \/ /\ Total("closed_total")' = Total("closed_total") + 1
            /\ \/ Total("short_lived_total")' = Total("short_lived_total")
               \/ Total("short_lived_total")' = Total("short_lived_total") + 1
  <2>1. CASE ClosedUnseen(c, s, m[1], m[2])
    BY <2>1 DEF ClosedUnseen, Total
  <2>2. CASE Closed(c, s, m[1], m[2])
    <3> DEFINE us == Duration(clock, nd_tcp_conn_life[s])
               fields == {"closed_total"} \cup IF IsShort(us) THEN {"short_lived_total"} ELSE {}
    <3>1. Count(c, fields)
      BY <2>2 DEF Closed
    <3>2. /\ "closed_total" \in fields
          /\ "connect_attempt_total" \notin fields /\ "connect_failed_total" \notin fields
      OBVIOUS
    <3> HIDE DEF fields
    <3>3. \A f \in Counters : Total(f)' = Total(f) + (IF f \in fields THEN 1 ELSE 0)
      BY <3>1, TotalCounts
    <3>4. /\ Total("closed_total")' = Total("closed_total") + 1
          /\ Total("connect_attempt_total")' = Total("connect_attempt_total") + 0
          /\ Total("connect_failed_total")' = Total("connect_failed_total") + 0
          /\ \/ Total("short_lived_total")' = Total("short_lived_total") + 0
             \/ Total("short_lived_total")' = Total("short_lived_total") + 1
      BY <3>2, <3>3 DEF Counters
    <3> QED
      BY <3>4, CounterValues
  <2> QED
    BY <2>1, <2>2
<1> QED
  BY <1>1, <1>2, <1>3, <1>4, <1>5, CounterValues DEF Totals

(* A failed connect is a handshake that was under way. *)
LEMMA OtherTotals ==
  ASSUME TypeOK, Totals, NEW c \in Cpus, NEW s \in Socks, NEW m \in KernelMoves \cup {PassiveOpen},
         OtherMove(c, s, m[1], m[2])
  PROVE  Totals'
<1> DEFINE fields == Attempt(m[2]) \cup IF SynState(m[1]) /\ m[2] = "CLOSE"
                                          THEN {"connect_failed_total"} ELSE {}
<1>1. /\ s \in Ipv4 /\ KernelMove(s, m[1], m[2]) /\ StateDelta(c, m[1], m[2])
      /\ left' = left /\ Count(c, fields)
  BY DEF OtherMove
<1>2. GaugeIsDelta'
  BY <1>1, MoveKeepsGauges DEF Totals
<1>3. /\ Opening(state') = (Opening(state) - (IF SynState(m[1]) THEN 1 ELSE 0))
                             + (IF SynState(m[2]) THEN 1 ELSE 0)
      /\ Opening(state) \in Nat /\ Opening(state0) \in Nat /\ Opening(state0') = Opening(state0)
  BY <1>1, OpeningMoves DEF Totals
<1>4. /\ "closed_total" \notin fields /\ "short_lived_total" \notin fields
      /\ "connect_attempt_total" \in fields <=> SynState(m[2])
      /\ "connect_failed_total" \in fields => SynState(m[1]) /\ ~SynState(m[2])
  BY DEF Attempt, SynState
<1> HIDE DEF fields
<1>5. \A f \in Counters : Total(f)' = Total(f) + (IF f \in fields THEN 1 ELSE 0)
  BY <1>1, TotalCounts
<1>6. /\ Total("closed_total")' = Total("closed_total") + 0
      /\ Total("short_lived_total")' = Total("short_lived_total") + 0
      /\ Total("connect_attempt_total")' = Total("connect_attempt_total")
                                            + (IF SynState(m[2]) THEN 1 ELSE 0)
      /\ Total("connect_failed_total")' = Total("connect_failed_total")
                                           + (IF "connect_failed_total" \in fields THEN 1 ELSE 0)
  BY <1>4, <1>5 DEF Counters
<1> QED
  BY <1>1, <1>2, <1>3, <1>4, <1>6, CounterValues DEF Totals

(* A socket of another family is counted nowhere. *)
LEMMA IgnoredTotals ==
  ASSUME TypeOK, Totals, NEW c \in Cpus, NEW s \in Socks, NEW m \in KernelMoves \cup {PassiveOpen},
         Ignored(c, s, m[1], m[2])
  PROVE  Totals'
<1>1. /\ s \notin Ipv4 /\ state' = [state EXCEPT ![s] = m[2]] /\ state0' = state0
      /\ UNCHANGED <<nd_tcp_counters, nd_tcp_state_delta, left>>
      /\ state \in [Socks -> States] /\ Ipv4 \subseteq Socks
  BY TcpAssumption DEF Ignored, KernelMove, TypeOK, Socks
<1>2. \A t : {r \in Ipv4 : state'[r] = t} = {r \in Ipv4 : state[r] = t}
  BY <1>1
<1>3. \A t : In(state', t) = In(state, t) /\ In(state0', t) = In(state0, t)
  BY <1>1, <1>2 DEF In
<1>4. \A t : Gauge(t)' = Gauge(t) /\ Total(t)' = Total(t)
  BY <1>1 DEF Gauge, Total
<1>5. Opening(state') = Opening(state) /\ Opening(state0') = Opening(state0)
  BY <1>3 DEF Opening
<1>6. GaugeIsDelta'
  BY <1>3, <1>4 DEF Totals, GaugeIsDelta
<1> QED
  BY <1>1, <1>4, <1>5, <1>6 DEF Totals

(* Nothing has been counted when the hook is attached. *)
LEMMA InitTotals == Init => Totals
<1> SUFFICES ASSUME Init PROVE Totals
  OBVIOUS
<1>1. TypeOK
  BY InitIInv DEF IInv
<1>2. \A t \in States : Gauge(t) = 0
  <2> TAKE t \in States
  <2> DEFINE g == [c \in Cpus |-> nd_tcp_state_delta[c][t]]
  <2>1. g \in [Cpus -> Int] /\ \A d \in Cpus : g[d] = 0
    BY DEF Init
  <2> HIDE DEF g
  <2>2. SumFunction(g) = 0
    BY <2>1, SumOfZeros, TcpFiniteAssumption
  <2> QED
    BY <2>2 DEF Gauge, g
<1>3. \A f \in Counters : Total(f) = 0
  <2> TAKE f \in Counters
  <2> DEFINE g == [c \in Cpus |-> nd_tcp_counters[c][f]]
  <2>1. g \in [Cpus -> Int] /\ \A d \in Cpus : g[d] = 0
    BY DEF Init
  <2> HIDE DEF g
  <2>2. SumFunction(g) = 0
    BY <2>1, SumOfZeros, TcpFiniteAssumption
  <2> QED
    BY <2>2 DEF Total, g
<1>4. state0 = state /\ left = 0
  BY DEF Init
<1>5. GaugeIsDelta
  BY <1>1, <1>2, <1>4, TotalsTyped DEF GaugeIsDelta
<1>6. Opening(state) \in Nat /\ Opening(state0) = Opening(state)
  BY <1>1, <1>4, TotalsTyped DEF Opening, States
<1>7. /\ Total("short_lived_total") = 0 /\ Total("closed_total") = 0
      /\ Total("connect_attempt_total") = 0 /\ Total("connect_failed_total") = 0
  BY <1>3 DEF Counters
<1> QED
  BY <1>4, <1>5, <1>6, <1>7 DEF Totals

(* Every step keeps the totals what they should be. *)
LEMMA StepTotals == TypeOK /\ Totals /\ [Next]_vars => Totals'
<1> SUFFICES ASSUME TypeOK, Totals, [Next]_vars PROVE Totals'
  OBVIOUS
<1>1. CASE Tick \/ UNCHANGED vars
  <2>1. UNCHANGED <<state, state0, nd_tcp_state_delta, nd_tcp_counters, left>>
    BY <1>1 DEF Tick, vars
  <2> QED
    BY <2>1 DEF Totals, GaugeIsDelta, Gauge, Total, Opening, In
<1>2. ASSUME NEW c \in Cpus, NEW s \in Socks, NEW m \in KernelMoves \cup {PassiveOpen},
             SetState(c, s, m[1], m[2])
      PROVE  Totals'
  BY <1>2, EstablishedTotals, ClosedTotals, OtherTotals, IgnoredTotals DEF SetState
<1> QED
  BY <1>1, <1>2 DEF Next

(* The totals over the CPUs stay within what happened. *)
THEOREM TotalsInvariance == Spec => []Totals
BY InitTotals, StepTotals, TcpTypeCorrect, PTL DEF Spec

(* The gauge sumTCPState exports is, for every state but CLOSE and LISTEN, *)
(* the number of sockets in it now less those in it when the hook was      *)
(* attached, whichever CPUs the changes ran on.                            *)
THEOREM GaugeExact == Spec => []GaugeIsDelta
<1>1. Totals => GaugeIsDelta
  BY DEF Totals
<1> QED
  BY <1>1, TotalsInvariance, PTL

(* Short-lived connections are closed ones, closed ones did leave          *)
(* ESTABLISHED, and a failed connect was an attempt.                       *)
THEOREM CountersSound == Spec => []CountersWithinEvents
<1>1. TypeOK /\ Totals => CountersWithinEvents
  <2> SUFFICES ASSUME TypeOK, Totals PROVE CountersWithinEvents
    OBVIOUS
  <2>1. /\ In(state, "SYN_SENT") \in Nat /\ In(state, "SYN_RECV") \in Nat
        /\ In(state0, "SYN_SENT") \in Nat /\ In(state0, "SYN_RECV") \in Nat
    BY TotalsTyped DEF States
  <2> QED
    BY <2>1, CounterValues DEF Totals, Opening, CountersWithinEvents
<1> QED
  BY <1>1, TcpTypeCorrect, TotalsInvariance, PTL
=============================================================================
