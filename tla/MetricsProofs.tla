--------------------------- MODULE MetricsProofs ---------------------------
(***************************************************************************)
(* What a scrape of Metrics says for any number of CPUs and buckets, any   *)
(* samples and any number of scrapes.                                      *)
(*                                                                         *)
(* Everything is said of what a scrape holds (Held): of each key, what it  *)
(* has read so far and what the slots it has yet to read contain now.      *)
(* Reading a slot leaves that alone, recording a sample raises it or not,  *)
(* according to whether the slot is still to be read, and at the end it is *)
(* what was read.                                                          *)
(***************************************************************************)
EXTENDS Metrics, FiniteSetTheorems, SequenceTheorems, NaturalsInduction, WellFoundedInduction, TLAPS

-----------------------------------------------------------------------------
(* Sums over a finite set.  The induction is over sets (of numbers, of     *)
(* subsets), as the provers cannot instantiate the library's rules.        *)

(* A set of numbers that is not empty has a least one. *)
LEMMA LeastNat ==
  ASSUME NEW T \in SUBSET Nat, T # {}
  PROVE  \E n \in T : \A m \in T : n <= m
<1>1. IsWellFoundedOn(OpToRel(<, Nat), Nat)
  BY NatLessThanWellFounded, Zenon
<1>2. \E n \in T : \A m \in T : ~(<<m, n>> \in OpToRel(<, Nat))
  BY <1>1, WFMin, Zenon
<1>3. PICK n \in T : \A m \in T : ~(<<m, n>> \in OpToRel(<, Nat))
  BY <1>2, Zenon
<1>4. \A m \in T : m \in Nat /\ n \in Nat /\ ~(m < n)
  BY <1>3 DEF OpToRel
<1>5. \A m \in T : n <= m
  BY <1>4
<1> QED
  BY <1>3, <1>5

(* Induction over the numbers, for a set of them. *)
LEMMA NatSetInduction ==
  ASSUME NEW A, 0 \in A, \A n \in Nat : n \in A => n + 1 \in A
  PROVE  Nat \subseteq A
<1> SUFFICES ASSUME Nat \ A # {} PROVE FALSE
  OBVIOUS
<1>1. PICK n \in Nat \ A : \A m \in Nat \ A : n <= m
  BY LeastNat
<1>2. n # 0 /\ n \in Nat
  BY <1>1
<1>3. n - 1 \in Nat /\ n - 1 < n /\ (n - 1) + 1 = n
  BY <1>2
<1>4. n - 1 \in A
  BY <1>1, <1>2, <1>3
<1> QED
  BY <1>1, <1>3, <1>4

(* The element SumFunction takes out of a set first. *)
Pick(s) == CHOOSE x \in s : TRUE

(* It is an element of the set. *)
LEMMA PickIn == ASSUME NEW s, s # {} PROVE Pick(s) \in s
BY DEF Pick

(* Induction over the subsets of a finite set, each from those that lack   *)
(* one of its elements.                                                    *)
LEMMA SubsetInduction ==
  ASSUME NEW D, IsFiniteSet(D), NEW A, {} \in A,
         \A s \in SUBSET D : s # {} /\ (\A x \in s : s \ {x} \in A) => s \in A
  PROVE  SUBSET D \subseteq A
<1> DEFINE B == {n \in Nat : \A s \in SUBSET D : Cardinality(s) = n => s \in A}
<1>1. \A s \in SUBSET D : IsFiniteSet(s) /\ Cardinality(s) \in Nat
  BY FS_Subset, FS_CardinalityType
<1>2. 0 \in B
  BY <1>1, FS_EmptySet
<1>3. ASSUME NEW n \in Nat, n \in B PROVE n + 1 \in B
  <2> SUFFICES ASSUME NEW s \in SUBSET D, Cardinality(s) = n + 1 PROVE s \in A
    OBVIOUS
  <2>1. s # {}
    BY <1>1, FS_EmptySet
  <2>2. ASSUME NEW x \in s PROVE s \ {x} \in A
    <3>1. Cardinality(s \ {x}) = n
      BY <1>1, FS_RemoveElement
    <3> QED
      BY <1>3, <3>1
  <2> QED
    BY <2>1, <2>2
<1>4. Nat \subseteq B
  <2> HIDE DEF B
  <2> QED
    BY <1>2, <1>3, NatSetInduction
<1> QED
  BY <1>1, <1>4

(* h adds f up over the subsets of D, in the order in which SumFunction     *)
(* takes them apart.                                                       *)
Unrolls(h, f, D) ==
  h = [s \in SUBSET D |-> IF s = {} THEN 0 ELSE f[Pick(s)] + h[s \ {Pick(s)}]]

(* Over a finite set there is such an h. *)
LEMMA UnrollingExists ==
  ASSUME NEW D, IsFiniteSet(D), NEW f
  PROVE  \E h : Unrolls(h, f, D)
<1> DEFINE Upto(n) == {s \in SUBSET D : Cardinality(s) <= n}
           Step(h, s) == IF s = {} THEN 0 ELSE f[Pick(s)] + h[s \ {Pick(s)}]
           Fixed(h, n) == h = [s \in Upto(n) |-> Step(h, s)]
           B == {n \in Nat : \E h : Fixed(h, n)}
<1>1. \A s \in SUBSET D : IsFiniteSet(s) /\ Cardinality(s) \in Nat
  BY FS_Subset, FS_CardinalityType
<1>2. 0 \in B
  <2>1. \A s \in Upto(0) : s = {}
    BY <1>1, FS_EmptySet
  <2> DEFINE g == [s \in Upto(0) |-> 0]
  <2>2. g = [s \in Upto(0) |-> Step(g, s)]
    BY <2>1
  <2> QED
    BY <2>2
<1>3. ASSUME NEW n \in Nat, n \in B PROVE n + 1 \in B
  <2>1. PICK h : Fixed(h, n)
    BY <1>3
  <2> DEFINE g == [s \in Upto(n + 1) |-> Step(h, s)]
  <2>2. ASSUME NEW s \in Upto(n + 1), s # {}
        PROVE  s \ {Pick(s)} \in Upto(n) /\ s \ {Pick(s)} \in Upto(n + 1)
    <3>1. Pick(s) \in s
      BY <2>2, PickIn
    <3>2. Cardinality(s \ {Pick(s)}) = Cardinality(s) - 1
      BY <1>1, <3>1, FS_RemoveElement
    <3>3. Cardinality(s) <= n + 1 /\ Cardinality(s) \in Nat
      BY <1>1
    <3>4. Cardinality(s \ {Pick(s)}) <= n /\ Cardinality(s \ {Pick(s)}) <= n + 1
      BY <3>2, <3>3
    <3> QED
      BY <3>4
  <2>3. \A s \in Upto(n) : s \in Upto(n + 1) /\ g[s] = h[s]
    <3> TAKE s \in Upto(n)
    <3>1. Cardinality(s) <= n + 1
      BY <1>1
    <3>2. s \in Upto(n + 1)
      BY <3>1
    <3>3. g[s] = Step(h, s)
      BY <3>2
    <3>4. h[s] = Step(h, s)
      BY <2>1
    <3> QED
      BY <3>2, <3>3, <3>4
  <2>4. \A s \in Upto(n + 1) : Step(h, s) = Step(g, s)
    <3> HIDE DEF g, Upto
    <3> QED
      BY <2>2, <2>3
  <2>5. g = [s \in Upto(n + 1) |-> Step(g, s)]
    BY <2>4
  <2>6. Fixed(g, n + 1)
    BY <2>5
  <2> HIDE DEF Fixed, g
  <2> QED
    BY <2>6
<1>4. Nat \subseteq B
  <2> HIDE DEF B
  <2> QED
    BY <1>2, <1>3, NatSetInduction
<1>5. Cardinality(D) \in Nat /\ Upto(Cardinality(D)) = SUBSET D
  <2>1. \A s \in SUBSET D : Cardinality(s) <= Cardinality(D)
    BY FS_Subset
  <2> QED
    BY <2>1, FS_CardinalityType
<1>6. \E h : Fixed(h, Cardinality(D))
  <2> HIDE DEF Fixed
  <2> QED
    BY <1>4, <1>5
<1> QED
  BY <1>5, <1>6 DEF Unrolls

(* What can be said of it. *)
ChosenSums(h, f, D) ==
  /\ SumFunctionOnSet(f, D) = h[D]
  /\ h[{}] = 0
  /\ \A s \in SUBSET D : s # {} => h[s] = f[Pick(s)] + h[s \ {Pick(s)}]

(* SumFunctionOnSet is what it comes to. *)
LEMMA ChosenExist ==
  ASSUME NEW D, IsFiniteSet(D), NEW f, \A d \in D : f[d] \in Int
  PROVE  \E h \in [SUBSET D -> Int] : ChosenSums(h, f, D)
<1> DEFINE h == CHOOSE g : Unrolls(g, f, D)
<1>1. SumFunctionOnSet(f, D) = h[D]
  BY DEF SumFunctionOnSet, FoldFunctionOnSet, MapThenFoldSet, Pick, Unrolls
<1>2. Unrolls(h, f, D)
  BY UnrollingExists
<1> HIDE DEF h
<1>3. /\ DOMAIN h = SUBSET D
      /\ h[{}] = 0
      /\ \A s \in SUBSET D : s # {} => h[s] = f[Pick(s)] + h[s \ {Pick(s)}]
  BY <1>2 DEF Unrolls
<1>4. h = [s \in SUBSET D |-> h[s]]
  BY <1>2 DEF Unrolls
<1> DEFINE A == {s \in SUBSET D : h[s] \in Int}
<1>5. {} \in A
  BY <1>3
<1>6. ASSUME NEW s \in SUBSET D, s # {}, \A x \in s : s \ {x} \in A PROVE s \in A
  <2>1. Pick(s) \in s
    BY <1>6, PickIn
  <2>2. f[Pick(s)] \in Int /\ h[s \ {Pick(s)}] \in Int
    BY <1>6, <2>1
  <2>3. h[s] = f[Pick(s)] + h[s \ {Pick(s)}]
    BY <1>3, <1>6
  <2>4. h[s] \in Int
    BY <2>2, <2>3
  <2> QED
    BY <2>4
<1>7. SUBSET D \subseteq A
  <2> HIDE DEF A
  <2> QED
    BY <1>5, <1>6, SubsetInduction
<1>8. h \in [SUBSET D -> Int]
  <2>1. \A s \in SUBSET D : h[s] \in Int
    BY <1>7
  <2> QED
    BY <1>4, <2>1
<1> QED
  BY <1>1, <1>3, <1>8 DEF ChosenSums

(* What can be said of the sums over the subsets of D. *)
PartialSums(h, f, D) ==
  /\ SumFunctionOnSet(f, D) = h[D]
  /\ h[{}] = 0
  /\ \A s \in SUBSET D : \A x \in s : h[s] = f[x] + h[s \ {x}]

(* There are such sums. *)
LEMMA SumUnrolls ==
  ASSUME NEW D, IsFiniteSet(D), NEW f, \A d \in D : f[d] \in Int
  PROVE  \E h \in [SUBSET D -> Int] : PartialSums(h, f, D)
<1>1. PICK h \in [SUBSET D -> Int] : ChosenSums(h, f, D)
  BY ChosenExist
<1>2. \A s \in SUBSET D : \A x \in s : h[s] = f[x] + h[s \ {x}]
  <2> DEFINE A == {s \in SUBSET D : \A x \in s : h[s] = f[x] + h[s \ {x}]}
  <2>1. {} \in A
    OBVIOUS
  <2>2. ASSUME NEW s \in SUBSET D, s # {}, \A x \in s : s \ {x} \in A PROVE s \in A
    <3> SUFFICES ASSUME NEW x \in s PROVE h[s] = f[x] + h[s \ {x}]
      OBVIOUS
    <3> DEFINE p == Pick(s)
    <3>1. p \in s
      BY <2>2, PickIn
    <3>2. h[s] = f[p] + h[s \ {p}]
      BY <1>1, <2>2 DEF ChosenSums
    <3> HIDE DEF p
    <3>3. CASE x = p
      BY <3>2, <3>3
    <3>4. CASE x # p
      <4>1. s \ {p} \in A /\ x \in s \ {p} /\ s \ {x} \in A /\ p \in s \ {x}
        BY <2>2, <3>1, <3>4
      <4>2. h[s \ {p}] = f[x] + h[(s \ {p}) \ {x}]
        BY <4>1
      <4>3. h[s \ {x}] = f[p] + h[(s \ {x}) \ {p}]
        BY <4>1
      <4>4. (s \ {x}) \ {p} = (s \ {p}) \ {x}
        OBVIOUS
      <4>5. f[x] \in Int /\ f[p] \in Int /\ h[(s \ {p}) \ {x}] \in Int
        BY <3>1
      <4> DEFINE r == h[(s \ {p}) \ {x}]
      <4>6. h[s] = f[p] + (f[x] + r) /\ h[s \ {x}] = f[p] + r
        BY <3>2, <4>2, <4>3, <4>4
      <4> HIDE DEF r
      <4>7. f[p] + (f[x] + r) = f[x] + (f[p] + r)
        BY <4>5 DEF r
      <4> QED
        BY <4>6, <4>7
    <3> QED
      BY <3>3, <3>4
  <2>3. SUBSET D \subseteq A
    <3> HIDE DEF A
    <3> QED
      BY <2>1, <2>2, SubsetInduction
  <2> QED
    BY <2>3
<1> QED
  BY <1>1, <1>2 DEF ChosenSums, PartialSums

(* A sum of integers is one, and a sum over nothing is zero. *)
LEMMA SumType ==
  ASSUME NEW D, IsFiniteSet(D), NEW f, \A d \in D : f[d] \in Int
  PROVE  SumFunctionOnSet(f, D) \in Int /\ (D = {} => SumFunctionOnSet(f, D) = 0)
<1>1. PICK h \in [SUBSET D -> Int] : PartialSums(h, f, D)
  BY SumUnrolls
<1>2. h[D] \in Int
  OBVIOUS
<1> QED
  BY <1>1, <1>2 DEF PartialSums

(* The sum depends on the values summed only. *)
LEMMA SumSame ==
  ASSUME NEW D, IsFiniteSet(D), NEW f, NEW g,
         \A d \in D : f[d] \in Int /\ g[d] = f[d]
  PROVE  SumFunctionOnSet(g, D) = SumFunctionOnSet(f, D)
<1>1. PICK h \in [SUBSET D -> Int] : PartialSums(h, f, D)
  BY SumUnrolls
<1>2. PICK k \in [SUBSET D -> Int] : PartialSums(k, g, D)
  BY SumUnrolls
<1> DEFINE A == {s \in SUBSET D : k[s] = h[s]}
<1>3. {} \in A
  BY <1>1, <1>2 DEF PartialSums
<1>4. ASSUME NEW s \in SUBSET D, s # {}, \A x \in s : s \ {x} \in A PROVE s \in A
  <2>1. Pick(s) \in s /\ Pick(s) \in D
    BY <1>4, PickIn
  <2>2. k[s \ {Pick(s)}] = h[s \ {Pick(s)}]
    BY <1>4, <2>1
  <2>3. h[s] = f[Pick(s)] + h[s \ {Pick(s)}] /\ k[s] = g[Pick(s)] + k[s \ {Pick(s)}]
    BY <1>1, <1>2, <2>1 DEF PartialSums
  <2>4. k[s] = h[s]
    BY <2>1, <2>2, <2>3
  <2> QED
    BY <2>4
<1>5. SUBSET D \subseteq A
  <2> HIDE DEF A
  <2> QED
    BY <1>3, <1>4, SubsetInduction
<1> QED
  BY <1>1, <1>2, <1>5 DEF PartialSums

(* One value is taken out of a sum. *)
LEMMA SumRemove ==
  ASSUME NEW D, IsFiniteSet(D), NEW f, \A d \in D : f[d] \in Int, NEW c \in D
  PROVE  SumFunctionOnSet(f, D) = f[c] + SumFunctionOnSet(f, D \ {c})
<1> DEFINE E == D \ {c}
<1>1. PICK h \in [SUBSET D -> Int] : PartialSums(h, f, D)
  BY SumUnrolls
<1>2. IsFiniteSet(E) /\ \A d \in E : f[d] \in Int
  BY FS_RemoveElement
<1>3. PICK k \in [SUBSET E -> Int] : PartialSums(k, f, E)
  BY <1>2, SumUnrolls
<1> DEFINE A == {s \in SUBSET E : k[s] = h[s]}
<1>4. {} \in A
  BY <1>1, <1>3 DEF PartialSums
<1>5. ASSUME NEW s \in SUBSET E, s # {}, \A x \in s : s \ {x} \in A PROVE s \in A
  <2>1. Pick(s) \in s
    BY <1>5, PickIn
  <2>2. k[s \ {Pick(s)}] = h[s \ {Pick(s)}]
    BY <1>5, <2>1
  <2>3. h[s] = f[Pick(s)] + h[s \ {Pick(s)}]
    BY <1>1, <2>1 DEF PartialSums
  <2>4. k[s] = f[Pick(s)] + k[s \ {Pick(s)}]
    BY <1>3, <2>1 DEF PartialSums
  <2> QED
    BY <2>2, <2>3, <2>4
<1>6. SUBSET E \subseteq A
  <2> HIDE DEF A, E
  <2> QED
    BY <1>2, <1>4, <1>5, SubsetInduction
<1>7. h[E] = k[E]
  BY <1>6
<1>8. h[D] = f[c] + h[E]
  <2>1. D \in SUBSET D
    OBVIOUS
  <2> QED
    BY <1>1, <2>1 DEF PartialSums
<1> QED
  BY <1>1, <1>3, <1>7, <1>8 DEF PartialSums

(* Two functions give D integers, and those of c alone may differ. *)
DifferAt(f, g, D, c) ==
  /\ \A d \in D : f[d] \in Int /\ g[d] \in Int
  /\ \A d \in D \ {c} : g[d] = f[d]

(* A change of one value changes the sum by as much. *)
LEMMA SumUpdate ==
  ASSUME NEW D, IsFiniteSet(D), NEW f, NEW g, NEW c \in D, DifferAt(f, g, D, c)
  PROVE  SumFunctionOnSet(g, D) = (SumFunctionOnSet(f, D) - f[c]) + g[c]
<1> DEFINE E == D \ {c}
<1>1. IsFiniteSet(E)
  BY FS_RemoveElement
<1> /\ \A d \in D : f[d] \in Int /\ g[d] \in Int
    /\ \A d \in E : f[d] \in Int /\ g[d] = f[d]
  BY DEF DifferAt
<1>2. SumFunctionOnSet(g, E) = SumFunctionOnSet(f, E) /\ SumFunctionOnSet(f, E) \in Int
  BY <1>1, SumSame, SumType
<1>3. SumFunctionOnSet(f, D) = f[c] + SumFunctionOnSet(f, E)
  BY SumRemove
<1>4. SumFunctionOnSet(g, D) = g[c] + SumFunctionOnSet(g, E)
  BY SumRemove
<1> QED
  BY <1>2, <1>3, <1>4

(* A sum of numbers that are not negative is not either. *)
LEMMA SumNat ==
  ASSUME NEW D, IsFiniteSet(D), NEW f, \A d \in D : f[d] \in Nat
  PROVE  SumFunctionOnSet(f, D) \in Nat
<1> \A d \in D : f[d] \in Int
  OBVIOUS
<1>1. PICK h \in [SUBSET D -> Int] : PartialSums(h, f, D)
  BY SumUnrolls
<1> DEFINE A == {s \in SUBSET D : h[s] \in Nat}
<1>2. {} \in A
  BY <1>1 DEF PartialSums
<1>3. ASSUME NEW s \in SUBSET D, s # {}, \A x \in s : s \ {x} \in A PROVE s \in A
  <2>1. Pick(s) \in s /\ f[Pick(s)] \in Nat
    BY <1>3, PickIn
  <2>2. h[s \ {Pick(s)}] \in Nat
    BY <1>3, <2>1
  <2>3. h[s] = f[Pick(s)] + h[s \ {Pick(s)}]
    BY <1>1, <2>1 DEF PartialSums
  <2>4. h[s] \in Nat
    BY <2>1, <2>2, <2>3
  <2> QED
    BY <2>4
<1>4. SUBSET D \subseteq A
  <2> HIDE DEF A
  <2> QED
    BY <1>2, <1>3, SubsetInduction
<1> QED
  BY <1>1, <1>4 DEF PartialSums

(* A sum of zeros. *)
LEMMA SumOfZeros ==
  ASSUME NEW D, IsFiniteSet(D), NEW f, \A d \in D : f[d] = 0
  PROVE  SumFunctionOnSet(f, D) = 0
<1> \A d \in D : f[d] \in Int
  OBVIOUS
<1>1. PICK h \in [SUBSET D -> Int] : PartialSums(h, f, D)
  BY SumUnrolls
<1> DEFINE A == {s \in SUBSET D : h[s] = 0}
<1>2. {} \in A
  BY <1>1 DEF PartialSums
<1>3. ASSUME NEW s \in SUBSET D, s # {}, \A x \in s : s \ {x} \in A PROVE s \in A
  <2>1. Pick(s) \in s /\ Pick(s) \in D
    BY <1>3, PickIn
  <2>2. h[s \ {Pick(s)}] = 0 /\ f[Pick(s)] = 0
    BY <1>3, <2>1
  <2>3. h[s] = f[Pick(s)] + h[s \ {Pick(s)}]
    BY <1>1, <2>1 DEF PartialSums
  <2>4. h[s] = 0
    BY <2>2, <2>3
  <2> QED
    BY <2>4
<1>4. SUBSET D \subseteq A
  <2> HIDE DEF A
  <2> QED
    BY <1>2, <1>3, SubsetInduction
<1> QED
  BY <1>1, <1>4 DEF PartialSums

-----------------------------------------------------------------------------
(* What a scrape holds.                                                    *)

(* The place of a key in ReadOrder. *)
Place(k) == CASE k = CounterKey -> 1
              [] k = GaugeKey   -> 2
              [] k \in Bucket   -> k + 3

(* The CPUs whose slot of a key is still to be read. *)
Unread(k) == IF pos < Place(k) THEN Cpus ELSE IF pos = Place(k) THEN slots ELSE {}

(* What the slots of a key contain, per CPU, and on some CPUs together. *)
Slots(k) == [c \in Cpus |-> Slot(c, k)]
Content(k, C) == SumFunctionOnSet(Slots(k), C)

(* What the programs have recorded, and what the scrape holds of it. *)
Recorded == [k \in Keys |-> Content(k, Cpus)]
Held == [k \in Keys |-> snap[k] + Content(k, Unread(k))]

-----------------------------------------------------------------------------
(* The inductive invariant.                                                *)

Counts == [Samples -> Nat]
Moves == [entered : Nat, left : Nat]

(* The types of all variables. *)
Typed ==
  /\ hist \in [Cpus -> [Bucket -> Nat]]
  /\ count \in [Cpus -> Nat]
  /\ delta \in [Cpus -> Int]
  /\ half \in SUBSET Cpus
  /\ observed \in Counts
  /\ conns \in Moves
  /\ pos \in 0..(Buckets + 3)
  /\ slots \in SUBSET Cpus
  /\ snap \in [Keys -> Int]
  /\ \A k \in Keys \ {GaugeKey} : snap[k] >= 0
  /\ floor \in Counts
  /\ conns0 \in Moves
  /\ failed \in SUBSET Keys
  /\ scrapes \in Nat
  /\ out.counter \in Int /\ out.total \in Int /\ out.sum \in Int
  /\ out.cumulative \in [0..(Buckets - 2) -> Int]
  /\ out.floor \in Counts /\ out.ceiling \in Counts
  /\ out.failed \in BOOLEAN

(* What has not been looked at is zero, and without a scrape nothing has. *)
Fresh ==
  /\ \A k \in Keys : pos < Place(k) => snap[k] = 0
  /\ pos = 0 => failed = {}
  /\ pos \in {0, Buckets + 3} => slots = {}

(* What the programs have recorded is what happened, but for the samples   *)
(* that are in a bucket and not yet counted.                               *)
ProgramsExact ==
  /\ SumFunction(observed) = Recorded[CounterKey] + Cardinality(half)
  /\ SumFunction(observed) = Total(Recorded)
  /\ \A b \in 0..(Buckets - 2) : Cumulative(Recorded)[b] = AtMost(observed, 2^b)
  /\ EstimatedSum(Recorded) >= SumCapped(observed, 2^(Buckets - 1))
  /\ Recorded[GaugeKey] = conns.entered - conns.left

(* A scrape holds nothing that nobody recorded. *)
NothingInvented ==
  /\ Held[CounterKey] <= Recorded[CounterKey]
  /\ Total(Held) <= SumFunction(observed)
  /\ \A b \in 0..(Buckets - 2) : Cumulative(Held)[b] <= AtMost(observed, 2^b)

(* Of each bucket: what is recorded are the samples of its range; a scrape *)
(* holds none that is not recorded, and all there were when it began, or   *)
(* nothing, for good, when the lookup has failed.                          *)
Confined ==
  \A b \in Bucket :
    /\ Recorded[b] = InBucket(observed, b)
    /\ Held[b] <= Recorded[b]
    /\ IF b \in failed THEN Held[b] = 0 /\ Unread(b) = {}
                       ELSE pos > 0 => Held[b] >= InBucket(floor, b)

(* Unless a lookup fails it holds all there was when it began, ... *)
NothingMissed ==
  pos > 0 /\ failed = {} =>
    /\ Total(Held) >= SumFunction(floor)
    /\ \A b \in 0..(Buckets - 2) : Cumulative(Held)[b] >= AtMost(floor, 2^b)
    /\ EstimatedSum(Held) >= SumCapped(floor, 2^(Buckets - 1))

(* ... a gauge, unless its own lookup fails, that is off by no more than   *)
(* the moves made since then, ...                                          *)
GaugeClose ==
  pos > 0 /\ GaugeKey \notin failed =>
    Held[GaugeKey] \in (conns0.entered - conns.left)..(conns.entered - conns0.left)

(* ... no fewer samples than it has counted, once it has read the counter, *)
CounterFirst == pos > 1 /\ failed = {} => Held[CounterKey] <= Total(Held)

(* ... and no less than the answer before it. *)
Grown ==
  failed = {} =>
    /\ out.counter <= Held[CounterKey]
    /\ out.total <= Total(Held)
    /\ \A b \in 0..(Buckets - 2) : out.cumulative[b] <= Cumulative(Held)[b]

IInv ==
  /\ Typed /\ Fresh
  /\ ProgramsExact
  /\ NothingInvented /\ NothingMissed /\ GaugeClose /\ CounterFirst /\ Grown
  /\ Confined
  /\ BucketsAreExact /\ CounterWithinHistogram

-----------------------------------------------------------------------------
(* Powers of two, buckets and the order of reading.                        *)

(* Powers of two are the numbers of subsets of intervals, so they do not   *)
(* decrease.                                                               *)
LEMMA Powers ==
  /\ \A i \in Nat : 2^i \in Nat
  /\ \A i, j \in Nat : i <= j => 2^i <= 2^j
<1> DEFINE Upto(n) == SUBSET (1..n)
<1>1. ASSUME NEW n \in Nat PROVE IsFiniteSet(Upto(n)) /\ Cardinality(Upto(n)) = 2^n
  <2>1. IsFiniteSet(1..n) /\ Cardinality(1..n) = n
    BY FS_Interval
  <2> QED
    BY <2>1, FS_SUBSET
<1>2. \A n \in Nat : 2^n \in Nat
  BY <1>1, FS_CardinalityType
<1>3. ASSUME NEW i \in Nat, NEW j \in Nat, i <= j PROVE 2^i <= 2^j
  <2>1. Upto(i) \subseteq Upto(j)
    BY <1>3
  <2> HIDE DEF Upto
  <2>2. Cardinality(Upto(i)) <= Cardinality(Upto(j))
    BY <1>1, <2>1, FS_Subset
  <2> QED
    BY <1>1, <2>2
<1> QED
  BY <1>2, <1>3

(* The buckets, and the bounds with a le label of their own. *)
LEMMA BucketFacts ==
  /\ Buckets \in Nat /\ Buckets >= 2
  /\ Bucket \subseteq Nat /\ IsFiniteSet(Bucket) /\ Bucket \subseteq Keys
  /\ CounterKey \in Keys /\ GaugeKey \in Keys
  /\ CounterKey \notin Bucket /\ GaugeKey \notin Bucket /\ CounterKey # GaugeKey
  /\ \A b \in 0..(Buckets - 2) : b \in Nat /\ 0..b \subseteq Bucket /\ IsFiniteSet(0..b)
<1>1. Buckets \in Nat /\ Buckets >= 2 /\ Buckets - 1 \in Nat
  BY MetricsAssumption
<1>2. \A b \in Nat : IsFiniteSet(0..b)
  BY FS_Interval
<1>3. \A b \in 0..(Buckets - 2) : b \in Nat /\ 0..b \subseteq Bucket
  BY <1>1 DEF Bucket
<1> QED
  BY <1>1, <1>2, <1>3 DEF Bucket, Keys, CounterKey, GaugeKey

(* nd_log2_bucket finds the first bound that is not below the sample; so a *)
(* sample is in one of the first buckets when it is within their bounds.   *)
LEMMA FirstBound ==
  ASSUME NEW v \in Nat
  PROVE  /\ Log2Bucket(v) \in Bucket
         /\ \A b \in 0..(Buckets - 2) : Log2Bucket(v) <= b <=> v <= 2^b
<1> DEFINE Fits == {i \in 0..(Buckets - 2) : v <= 2^i}
<1>1. Buckets \in Nat /\ Buckets >= 2
  BY BucketFacts
<1>2. \A i \in 0..(Buckets - 2) : i \in Nat /\ 2^i \in Nat
  BY Powers
<1>3. CASE Fits = {}
  <2>1. \A i \in 0..(Buckets - 2) : ~(v <= 2^i)
    BY <1>3
  <2>2. Log2Bucket(v) = Buckets - 1
    BY <2>1 DEF Log2Bucket
  <2> QED
    BY <1>1, <2>1, <2>2 DEF Bucket
<1>4. CASE Fits # {}
  <2> DEFINE First(i) == i \in 0..(Buckets - 2) /\ v <= 2^i /\ \A j \in 0..(i - 1) : v > 2^j
             l == CHOOSE i \in 0..(Buckets - 2) : v <= 2^i /\ \A j \in 0..(i - 1) : v > 2^j
  <2>1. PICK n \in Fits : \A m \in Fits : n <= m
    <3>1. Fits \in SUBSET Nat
      BY <1>1
    <3> QED
      BY <1>4, <3>1, LeastNat
  <2>2. \A j \in 0..(n - 1) : v > 2^j
    <3> SUFFICES ASSUME NEW j \in 0..(n - 1) PROVE v > 2^j
      OBVIOUS
    <3>1. j \in 0..(Buckets - 2) /\ ~(n <= j)
      BY <1>1, <2>1
    <3>2. ~(v <= 2^j) /\ 2^j \in Nat
      BY <1>2, <2>1, <3>1
    <3> QED
      BY <3>2
  <2>3. First(l)
    BY <2>1, <2>2
  <2>4. Log2Bucket(v) = l
    BY <2>1 DEF Log2Bucket
  <2> HIDE DEF l
  <2>5. \A b \in 0..(Buckets - 2) : l <= b <=> v <= 2^b
    <3> SUFFICES ASSUME NEW b \in 0..(Buckets - 2) PROVE l <= b <=> v <= 2^b
      OBVIOUS
    <3>1. b \in Nat /\ l \in Nat /\ 2^b \in Nat /\ 2^l \in Nat
      BY <1>1, <1>2, <2>3
    <3>2. l <= b => 2^l <= 2^b
      BY <3>1, Powers
    <3>3. ~(l <= b) => b \in 0..(l - 1)
      BY <3>1
    <3>4. ~(l <= b) => v > 2^b
      BY <2>3, <3>3
    <3> QED
      BY <2>3, <3>1, <3>2, <3>4
  <2> QED
    BY <1>1, <2>3, <2>4, <2>5 DEF Bucket
<1> QED
  BY <1>3, <1>4

(* So it is the bucket whose label the sample carries, and the bound of it *)
(* is not below the sample, unless the sample is beyond them all.          *)
LEMMA BucketOf ==
  ASSUME NEW v \in Nat
  PROVE  /\ Log2Bucket(v) \in Bucket
         /\ \A b \in 0..(Buckets - 2) : Log2Bucket(v) <= b <=> v <= 2^b
         /\ \A b \in Bucket : Log2Bucket(v) = b <=> Labelled(v, b)
         /\ Capped(v, 2^(Buckets - 1)) <= 2^Log2Bucket(v)
<1> DEFINE l == Log2Bucket(v)
<1>1. l \in Bucket /\ \A b \in 0..(Buckets - 2) : l <= b <=> v <= 2^b
  BY FirstBound
<1> HIDE DEF l
<1>2. Buckets \in Nat /\ Buckets >= 2 /\ l \in 0..(Buckets - 1)
  BY <1>1, BucketFacts DEF Bucket
<1>3. \A i \in 0..(Buckets - 1) : i \in Nat /\ 2^i \in Nat
  BY <1>2, Powers
<1>4. ASSUME NEW b \in Bucket PROVE l = b <=> Labelled(v, b)
  <2>1. b \in 0..(Buckets - 1)
    BY DEF Bucket
  <2>2. l <= b <=> (b = Buckets - 1 \/ v <= 2^b)
    BY <1>1, <1>2, <2>1
  <2>3. ~(l < b) <=> (b = 0 \/ v > 2^(b - 1))
    <3>1. CASE b = 0
      BY <1>2, <3>1
    <3>2. CASE b # 0
      <4>1. b - 1 \in 0..(Buckets - 2) /\ b - 1 \in 0..(Buckets - 1)
        BY <1>2, <2>1, <3>2
      <4>2. l <= b - 1 <=> v <= 2^(b - 1)
        BY <1>1, <4>1
      <4>3. 2^(b - 1) \in Nat
        BY <1>3, <4>1
      <4>4. l < b <=> l <= b - 1
        BY <1>2, <2>1
      <4> QED
        BY <3>2, <4>2, <4>3, <4>4
    <3> QED
      BY <3>1, <3>2
  <2>4. l = b <=> l <= b /\ ~(l < b)
    BY <1>2, <2>1
  <2> QED
    BY <2>2, <2>3, <2>4 DEF Labelled
<1>5. Capped(v, 2^(Buckets - 1)) <= 2^l
  <2>1. 2^(Buckets - 1) \in Nat /\ 2^l \in Nat
    <3>1. Buckets - 1 \in 0..(Buckets - 1)
      BY <1>2
    <3> QED
      BY <1>2, <1>3, <3>1
  <2>2. CASE l = Buckets - 1
    BY <2>1, <2>2 DEF Capped
  <2>3. CASE l # Buckets - 1
    <3>1. l \in 0..(Buckets - 2) /\ l <= Buckets - 1 /\ l \in Nat /\ Buckets - 1 \in Nat
      BY <1>2, <2>3
    <3>2. v <= 2^l
      BY <1>1, <3>1
    <3>3. 2^l <= 2^(Buckets - 1)
      BY <3>1, Powers
    <3> QED
      BY <2>1, <3>2, <3>3 DEF Capped
  <2> QED
    BY <2>2, <2>3
<1> QED
  BY <1>1, <1>4, <1>5 DEF l

(* ReadOrder lists every key once, at its place. *)
LEMMA Order ==
  /\ Len(ReadOrder) = Buckets + 2 /\ DOMAIN ReadOrder = 1..(Buckets + 2)
  /\ \A k \in Keys : Place(k) \in 1..(Buckets + 2) /\ ReadOrder[Place(k)] = k
  /\ \A i \in 1..(Buckets + 2) : ReadOrder[i] \in Keys /\ Place(ReadOrder[i]) = i
  /\ Place(CounterKey) = 1 /\ Place(GaugeKey) = 2
  /\ \A b \in Bucket : Place(b) = b + 3
<1> DEFINE front == <<CounterKey, GaugeKey>>
           back == [i \in 1..Buckets |-> i - 1]
<1>1. Buckets \in Nat /\ Buckets >= 2
  BY BucketFacts
<1>2. front \in Seq(Int) /\ Len(front) = 2 /\ front[1] = CounterKey /\ front[2] = GaugeKey
  BY DEF CounterKey, GaugeKey
<1>3. back \in Seq(Int) /\ Len(back) = Buckets /\ \A i \in 1..Buckets : back[i] = i - 1
  BY <1>1
<1>4. ReadOrder = front \o back
  BY DEF ReadOrder
<1> HIDE DEF front, back
<1>5. /\ Len(ReadOrder) = Buckets + 2 /\ DOMAIN ReadOrder = 1..(Buckets + 2)
      /\ ReadOrder[1] = CounterKey /\ ReadOrder[2] = GaugeKey
      /\ \A i \in 3..(Buckets + 2) : ReadOrder[i] = i - 3
  <2>1. /\ ReadOrder \in Seq(Int) /\ Len(ReadOrder) = Len(front) + Len(back)
        /\ \A i \in 1..(Len(front) + Len(back)) :
             ReadOrder[i] = IF i <= Len(front) THEN front[i] ELSE back[i - Len(front)]
    BY <1>2, <1>3, <1>4, ConcatProperties
  <2>2. Len(ReadOrder) = Buckets + 2 /\ DOMAIN ReadOrder = 1..(Buckets + 2)
    BY <1>1, <1>2, <1>3, <2>1
  <2>3. \A i \in 1..(Buckets + 2) : ReadOrder[i] = IF i <= 2 THEN front[i] ELSE back[i - 2]
    BY <1>1, <1>2, <1>3, <2>1
  <2>4. \A i \in 3..(Buckets + 2) : i \in 1..(Buckets + 2) /\ ~(i <= 2)
                                    /\ i - 2 \in 1..Buckets /\ (i - 2) - 1 = i - 3
    BY <1>1
  <2> QED
    BY <1>1, <1>2, <1>3, <2>2, <2>3, <2>4
<1>6. /\ Place(CounterKey) = 1 /\ Place(GaugeKey) = 2
      /\ \A b \in Bucket : Place(b) = b + 3
  BY DEF Place, CounterKey, GaugeKey, Bucket
<1>7. \A k \in Keys : Place(k) \in 1..(Buckets + 2) /\ ReadOrder[Place(k)] = k
  BY <1>1, <1>5, <1>6 DEF Keys, Bucket
<1>8. ASSUME NEW i \in 1..(Buckets + 2) PROVE ReadOrder[i] \in Keys /\ Place(ReadOrder[i]) = i
  <2>1. i = 1 \/ i = 2 \/ i \in 3..(Buckets + 2)
    BY <1>1
  <2>2. i \in 3..(Buckets + 2) => i - 3 \in Bucket /\ (i - 3) + 3 = i
    BY <1>1 DEF Bucket
  <2> QED
    BY <1>5, <1>6, <2>1, <2>2 DEF Keys
<1> QED
  BY <1>5, <1>6, <1>7, <1>8

-----------------------------------------------------------------------------
(* What emitLog2Histogram makes of the buckets.                            *)

(* Its numbers are integers. *)
LEMMA HistType ==
  ASSUME NEW F \in [Keys -> Int]
  PROVE  /\ Total(F) \in Int /\ EstimatedSum(F) \in Int
         /\ Cumulative(F) \in [0..(Buckets - 2) -> Int]
<1>1. \A b \in Bucket : F[b] \in Int
  BY BucketFacts
<1>2. Total(F) \in Int
  BY <1>1, BucketFacts, SumType DEF Total
<1>3. \A b \in Bucket : F[b] * Log2UpperBound(b) \in Int
  BY <1>1, BucketFacts, Powers DEF Log2UpperBound
<1>4. EstimatedSum(F) \in Int
  <2> DEFINE w == [b \in Bucket |-> F[b] * Log2UpperBound(b)]
  <2>1. \A b \in Bucket : w[b] \in Int
    BY <1>3
  <2>2. DOMAIN w = Bucket
    OBVIOUS
  <2>3. EstimatedSum(F) = SumFunctionOnSet(w, Bucket)
    BY <2>2 DEF EstimatedSum, SumFunction
  <2> HIDE DEF w
  <2> QED
    BY <2>1, <2>3, BucketFacts, SumType
<1>5. ASSUME NEW b \in 0..(Buckets - 2) PROVE SumFunctionOnSet(F, 0..b) \in Int
  <2>1. IsFiniteSet(0..b) /\ \A i \in 0..b : F[i] \in Int
    BY <1>1, BucketFacts
  <2> QED
    BY <2>1, SumType
<1> QED
  BY <1>2, <1>4, <1>5 DEF Cumulative

(* G says what F says, with d more samples in the bucket k. *)
Shifted(F, G, k, d) ==
  /\ Total(G) = Total(F) + (IF k \in Bucket THEN d ELSE 0)
  /\ \A b \in 0..(Buckets - 2) :
       Cumulative(G)[b] = Cumulative(F)[b] + (IF k \in 0..b THEN d ELSE 0)
  /\ EstimatedSum(G) = EstimatedSum(F) + (IF k \in Bucket THEN d * 2^k ELSE 0)

(* It does when it has d more in that place. *)
LEMMA HistAdd ==
  ASSUME NEW F \in [Keys -> Int], NEW k \in Keys, NEW d \in Int,
         NEW G \in [Keys -> Int], DifferAt(F, G, Keys, k), G[k] = F[k] + d
  PROVE  Shifted(F, G, k, d)
<1>1. /\ G \in [Keys -> Int] /\ G[k] = F[k] + d
      /\ \A j \in Keys \ {k} : G[j] = F[j]
  BY DEF DifferAt
<1>2. ASSUME NEW D, D \subseteq Bucket, IsFiniteSet(D)
      PROVE  SumFunctionOnSet(G, D) = SumFunctionOnSet(F, D) + (IF k \in D THEN d ELSE 0)
  <2>1. \A i \in D : F[i] \in Int /\ G[i] \in Int /\ i \in Keys
    BY <1>1, <1>2, BucketFacts
  <2>2. SumFunctionOnSet(F, D) \in Int
    BY <1>2, <2>1, SumType
  <2>3. CASE k \in D
    <3>1. SumFunctionOnSet(G, D) = (SumFunctionOnSet(F, D) - F[k]) + G[k]
      <4>1. DifferAt(F, G, D, k)
        BY <1>1, <2>1 DEF DifferAt
      <4> QED
        BY <1>2, <2>3, <4>1, SumUpdate
    <3> QED
      BY <1>1, <2>2, <2>3, <3>1
  <2>4. CASE k \notin D
    <3>1. \A i \in D : F[i] \in Int /\ G[i] = F[i]
      BY <1>1, <2>1, <2>4
    <3>2. SumFunctionOnSet(G, D) = SumFunctionOnSet(F, D)
      BY <1>2, <3>1, SumSame
    <3> QED
      BY <2>2, <2>4, <3>2
  <2> QED
    BY <2>3, <2>4
<1>3. Total(G) = Total(F) + (IF k \in Bucket THEN d ELSE 0)
  BY <1>2, BucketFacts DEF Total
<1>4. \A b \in 0..(Buckets - 2) :
        Cumulative(G)[b] = Cumulative(F)[b] + (IF k \in 0..b THEN d ELSE 0)
  <2> SUFFICES ASSUME NEW b \in 0..(Buckets - 2)
               PROVE  Cumulative(G)[b] = Cumulative(F)[b] + (IF k \in 0..b THEN d ELSE 0)
    OBVIOUS
  <2>1. 0..b \subseteq Bucket /\ IsFiniteSet(0..b)
    BY BucketFacts
  <2>2. SumFunctionOnSet(G, 0..b) = SumFunctionOnSet(F, 0..b) + (IF k \in 0..b THEN d ELSE 0)
    BY <1>2, <2>1
  <2> QED
    BY <2>2 DEF Cumulative
<1>5. EstimatedSum(G) = EstimatedSum(F) + (IF k \in Bucket THEN d * 2^k ELSE 0)
  <2> DEFINE w(H) == [b \in Bucket |-> H[b] * Log2UpperBound(b)]
             f == w(F)
             g == w(G)
  <2>1. EstimatedSum(F) = SumFunctionOnSet(f, Bucket) /\ EstimatedSum(G) = SumFunctionOnSet(g, Bucket)
    BY DEF EstimatedSum, SumFunction
  <2>2. \A b \in Bucket : f[b] = F[b] * 2^b /\ g[b] = G[b] * 2^b
    BY DEF Log2UpperBound
  <2>3. \A b \in Bucket : 2^b \in Int /\ F[b] \in Int /\ G[b] \in Int /\ b \in Keys
    BY <1>1, BucketFacts, Powers
  <2> HIDE DEF w, f, g
  <2>4. \A b \in Bucket : f[b] \in Int /\ g[b] \in Int
    BY <2>2, <2>3
  <2>5. \A b \in Bucket \ {k} : g[b] = f[b]
    BY <1>1, <2>2, <2>3
  <2>6. SumFunctionOnSet(f, Bucket) \in Int
    BY <2>4, BucketFacts, SumType
  <2>7. CASE k \in Bucket
    <3>1. SumFunctionOnSet(g, Bucket) = (SumFunctionOnSet(f, Bucket) - f[k]) + g[k]
      <4>1. DifferAt(f, g, Bucket, k)
        BY <2>4, <2>5 DEF DifferAt
      <4> QED
        BY <2>7, <4>1, BucketFacts, SumUpdate
    <3>2. (F[k] + d) * 2^k = F[k] * 2^k + d * 2^k
      BY <2>3, <2>7
    <3>3. g[k] = f[k] + d * 2^k
      BY <1>1, <2>2, <2>7, <3>2
    <3>4. d * 2^k \in Int
      BY <2>3, <2>7
    <3> QED
      BY <2>1, <2>4, <2>6, <2>7, <3>1, <3>3, <3>4
  <2>8. CASE k \notin Bucket
    <3>1. \A b \in Bucket : f[b] \in Int /\ g[b] = f[b]
      BY <2>4, <2>5, <2>8
    <3>2. SumFunctionOnSet(g, Bucket) = SumFunctionOnSet(f, Bucket)
      BY <3>1, BucketFacts, SumSame
    <3> QED
      BY <2>1, <2>6, <2>8, <3>2
  <2> QED
    BY <2>7, <2>8
<1> QED
  BY <1>3, <1>4, <1>5 DEF Shifted

(* A bound is a number, and so is what a value counts for. *)
LEMMA CappedType ==
  ASSUME NEW n \in Nat, NEW v \in Samples
  PROVE  v \in Nat /\ Capped(v, n) \in Nat
BY MetricsAssumption DEF Capped

(* The samples of some values, and the samples of all, each with a weight. *)
Weighed(F, n) == [v \in Samples |-> Capped(v, n) * F[v]]

(* Samples observed are counted in Nat. *)
LEMMA ObservedType ==
  ASSUME NEW F \in Counts
  PROVE  /\ SumFunction(F) \in Nat
         /\ \A S \in SUBSET Samples : SumFunctionOnSet(F, S) \in Nat
         /\ \A n \in Nat : AtMost(F, n) \in Nat /\ SumCapped(F, n) \in Nat
         /\ \A b : InBucket(F, b) \in Nat
<1>1. \A v \in Samples : F[v] \in Nat
  BY DEF Counts
<1>2. ASSUME NEW S \in SUBSET Samples PROVE SumFunctionOnSet(F, S) \in Nat
  <2>1. IsFiniteSet(S) /\ \A v \in S : F[v] \in Nat
    BY <1>1, MetricsAssumption, FS_Subset
  <2> QED
    BY <2>1, SumNat
<1>3. SumFunction(F) \in Nat
  BY <1>2 DEF SumFunction, Counts
<1>4. ASSUME NEW n \in Nat PROVE AtMost(F, n) \in Nat
  BY <1>2 DEF AtMost
<1>5. ASSUME NEW n \in Nat PROVE SumCapped(F, n) \in Nat
  <2> DEFINE w == Weighed(F, n)
  <2>1. SumCapped(F, n) = SumFunctionOnSet(w, Samples)
    BY DEF SumCapped, SumFunction, Weighed
  <2>2. \A v \in Samples : w[v] \in Nat
    BY <1>1, CappedType DEF Weighed
  <2> HIDE DEF w
  <2> QED
    BY <2>1, <2>2, MetricsAssumption, SumNat
<1>6. ASSUME NEW b PROVE InBucket(F, b) \in Nat
  BY <1>2 DEF InBucket
<1> QED
  BY <1>2, <1>3, <1>4, <1>5, <1>6

(* One more sample of value v. *)
LEMMA ObservedAdd ==
  ASSUME NEW F \in Counts, NEW v \in Samples, NEW G \in Counts,
         DifferAt(F, G, Samples, v), G[v] = F[v] + 1
  PROVE  /\ SumFunction(G) = SumFunction(F) + 1
         /\ \A n \in Nat : /\ AtMost(G, n) = AtMost(F, n) + (IF v <= n THEN 1 ELSE 0)
                           /\ SumCapped(G, n) = SumCapped(F, n) + Capped(v, n)
         /\ \A b : InBucket(G, b) = InBucket(F, b) + (IF Labelled(v, b) THEN 1 ELSE 0)
<1>1. /\ DOMAIN F = Samples /\ DOMAIN G = Samples
      /\ \A u \in Samples : F[u] \in Nat /\ G[u] \in Nat /\ u \in Nat
      /\ \A u \in Samples \ {v} : G[u] = F[u]
  BY MetricsAssumption DEF Counts, DifferAt
<1>2. ASSUME NEW S \in SUBSET Samples
      PROVE  SumFunctionOnSet(G, S) = SumFunctionOnSet(F, S) + (IF v \in S THEN 1 ELSE 0)
  <2>1. IsFiniteSet(S) /\ SumFunctionOnSet(F, S) \in Nat /\ F[v] \in Nat
    BY <1>1, MetricsAssumption, FS_Subset, ObservedType
  <2>2. CASE v \in S
    <3>1. DifferAt(F, G, S, v)
      BY <1>1 DEF DifferAt
    <3>2. SumFunctionOnSet(G, S) = (SumFunctionOnSet(F, S) - F[v]) + G[v]
      BY <2>1, <2>2, <3>1, SumUpdate
    <3> QED
      BY <2>1, <2>2, <3>2
  <2>3. CASE v \notin S
    <3>1. \A u \in S : F[u] \in Int /\ G[u] = F[u]
      BY <1>1, <2>3
    <3>2. SumFunctionOnSet(G, S) = SumFunctionOnSet(F, S)
      BY <2>1, <3>1, SumSame
    <3> QED
      BY <2>1, <2>3, <3>2
  <2> QED
    BY <2>2, <2>3
<1>3. SumFunction(G) = SumFunction(F) + 1
  BY <1>1, <1>2 DEF SumFunction
<1>4. ASSUME NEW n \in Nat PROVE AtMost(G, n) = AtMost(F, n) + (IF v <= n THEN 1 ELSE 0)
  <2> DEFINE S == {u \in Samples : u <= n}
  <2>1. S \in SUBSET Samples /\ (v \in S <=> v <= n)
    OBVIOUS
  <2>2. AtMost(F, n) = SumFunctionOnSet(F, S) /\ AtMost(G, n) = SumFunctionOnSet(G, S)
    BY DEF AtMost
  <2> HIDE DEF S
  <2> QED
    BY <1>2, <2>1, <2>2
<1>5. ASSUME NEW b
      PROVE  InBucket(G, b) = InBucket(F, b) + (IF Labelled(v, b) THEN 1 ELSE 0)
  <2> DEFINE S == {u \in Samples : Labelled(u, b)}
  <2>1. S \in SUBSET Samples /\ (v \in S <=> Labelled(v, b))
    OBVIOUS
  <2>2. InBucket(F, b) = SumFunctionOnSet(F, S) /\ InBucket(G, b) = SumFunctionOnSet(G, S)
    BY DEF InBucket
  <2> HIDE DEF S
  <2> QED
    BY <1>2, <2>1, <2>2
<1>6. ASSUME NEW n \in Nat PROVE SumCapped(G, n) = SumCapped(F, n) + Capped(v, n)
  <2> DEFINE f == Weighed(F, n)
             g == Weighed(G, n)
  <2>1. SumCapped(F, n) = SumFunctionOnSet(f, Samples) /\ SumCapped(G, n) = SumFunctionOnSet(g, Samples)
    BY DEF SumCapped, SumFunction, Weighed
  <2>2. \A u \in Samples : f[u] = Capped(u, n) * F[u] /\ g[u] = Capped(u, n) * G[u]
    BY DEF Weighed
  <2> HIDE DEF f, g
  <2>3. \A u \in Samples : f[u] \in Int /\ g[u] \in Int
    BY <1>1, <2>2, CappedType
  <2>4. DifferAt(f, g, Samples, v)
    BY <1>1, <2>2, <2>3 DEF DifferAt
  <2>5. SumFunctionOnSet(g, Samples) = (SumFunctionOnSet(f, Samples) - f[v]) + g[v]
    BY <2>4, MetricsAssumption, SumUpdate
  <2>6. SumFunctionOnSet(f, Samples) \in Int
    BY <2>3, MetricsAssumption, SumType
  <2>7. g[v] = f[v] + Capped(v, n)
    <3>1. Capped(v, n) \in Nat /\ F[v] \in Nat
      BY <1>1, CappedType
    <3>2. Capped(v, n) * (F[v] + 1) = Capped(v, n) * F[v] + Capped(v, n)
      BY <3>1
    <3> QED
      BY <2>2, <3>2
  <2>8. Capped(v, n) \in Nat /\ f[v] \in Int
    BY <2>3, CappedType
  <2> QED
    BY <2>1, <2>5, <2>6, <2>7, <2>8
<1> QED
  BY <1>3, <1>4, <1>5, <1>6

-----------------------------------------------------------------------------
(* What is recorded, and what is held of it.                               *)

(* A slot holds a number, and none but the gauge's a negative one. *)
LEMMA SlotFacts ==
  ASSUME Typed
  PROVE  /\ Slots(CounterKey) = [c \in Cpus |-> count[c]]
         /\ Slots(GaugeKey) = [c \in Cpus |-> delta[c]]
         /\ \A b \in Bucket : Slots(b) = [c \in Cpus |-> hist[c][b]]
         /\ \A k \in Keys : \A c \in Cpus :
              /\ Slots(k)[c] = Slot(c, k) /\ Slots(k)[c] \in Int
              /\ k # GaugeKey => Slots(k)[c] \in Nat
<1>1. Slots(CounterKey) = [c \in Cpus |-> count[c]]
  BY BucketFacts DEF Slots, Slot
<1>2. Slots(GaugeKey) = [c \in Cpus |-> delta[c]]
  BY BucketFacts DEF Slots, Slot
<1>3. \A b \in Bucket : Slots(b) = [c \in Cpus |-> hist[c][b]]
  BY BucketFacts DEF Slots, Slot
<1>4. ASSUME NEW k \in Keys, NEW c \in Cpus
      PROVE  /\ Slots(k)[c] = Slot(c, k) /\ Slots(k)[c] \in Int
             /\ k # GaugeKey => Slots(k)[c] \in Nat
  <2>1. k = CounterKey \/ k = GaugeKey \/ k \in Bucket
    BY DEF Keys
  <2>2. Slots(k)[c] = Slot(c, k)
    BY DEF Slots
  <2>3. CASE k = CounterKey
    BY <1>1, <2>2, <2>3 DEF Typed
  <2>4. CASE k = GaugeKey
    BY <1>2, <2>2, <2>4 DEF Typed
  <2>5. CASE k \in Bucket
    <3>1. Slots(k)[c] = hist[c][k]
      BY <1>3, <2>5
    <3>2. hist[c] \in [Bucket -> Nat]
      BY DEF Typed
    <3> QED
      BY <2>2, <2>5, <3>1, <3>2
  <2> QED
    BY <2>1, <2>3, <2>4, <2>5
<1> QED
  BY <1>1, <1>2, <1>3, <1>4

(* The type of a sum of slots. *)
LEMMA ContentFacts ==
  ASSUME Typed, NEW k \in Keys, NEW C \in SUBSET Cpus
  PROVE  /\ Content(k, C) \in Int /\ Content(k, {}) = 0
         /\ k # GaugeKey => Content(k, C) >= 0
<1>1. IsFiniteSet(C) /\ IsFiniteSet({})
  BY MetricsAssumption, FS_Subset, FS_EmptySet
<1>2. \A c \in C : Slots(k)[c] \in Int /\ (k # GaugeKey => Slots(k)[c] \in Nat)
  BY SlotFacts
<1> DEFINE f == Slots(k)
<1>3. Content(k, C) = SumFunctionOnSet(f, C) /\ Content(k, {}) = SumFunctionOnSet(f, {})
  BY DEF Content
<1>4. \A c \in C : f[c] \in Int /\ (k # GaugeKey => f[c] \in Nat)
  BY <1>2
<1> HIDE DEF f
<1>5. SumFunctionOnSet(f, C) \in Int /\ SumFunctionOnSet(f, {}) = 0
  BY <1>1, <1>4, SumType
<1>6. k # GaugeKey => SumFunctionOnSet(f, C) \in Nat
  BY <1>1, <1>4, SumNat
<1> QED
  BY <1>3, <1>5, <1>6

(* The slots that hold what a scrape has yet to read of a key. *)
LEMMA UnreadType == ASSUME Typed, NEW k PROVE Unread(k) \in SUBSET Cpus
BY DEF Unread, Typed

(* What is recorded and held of a key. *)
LEMMA HeldOf ==
  ASSUME Typed, NEW k \in Keys
  PROVE  /\ Recorded[k] = Content(k, Cpus) /\ Recorded[k] \in Int
         /\ Held[k] = snap[k] + Content(k, Unread(k)) /\ Held[k] \in Int
         /\ k # GaugeKey => Held[k] >= 0
<1>1. Recorded[k] = Content(k, Cpus) /\ Held[k] = snap[k] + Content(k, Unread(k))
  BY DEF Recorded, Held
<1>2. snap[k] \in Int /\ (k # GaugeKey => snap[k] >= 0)
  BY DEF Typed
<1>3. Content(k, Cpus) \in Int
  BY ContentFacts
<1> DEFINE r == Content(k, Unread(k))
<1>4. r \in Int /\ (k # GaugeKey => r >= 0)
  BY ContentFacts, UnreadType
<1> HIDE DEF r
<1>5. snap[k] + r \in Int /\ (k # GaugeKey => snap[k] + r >= 0)
  BY <1>2, <1>4
<1> QED
  BY <1>1, <1>3, <1>5 DEF r

(* Both are functions of the key. *)
LEMMA HeldFacts ==
  ASSUME Typed
  PROVE  Recorded \in [Keys -> Int] /\ Held \in [Keys -> Int]
<1>1. Recorded = [k \in Keys |-> Recorded[k]] /\ Held = [k \in Keys |-> Held[k]]
  BY DEF Recorded, Held
<1>2. \A k \in Keys : Recorded[k] \in Int /\ Held[k] \in Int
  BY HeldOf
<1> QED
  BY <1>1, <1>2

(* Without a scrape everything is still to be read, ... *)
LEMMA HeldBefore ==
  ASSUME Typed, Fresh, pos = 0
  PROVE  Held = Recorded
<1>1. \A k \in Keys : Place(k) \in 1..(Buckets + 2)
  BY Order
<1>2. \A k \in Keys : pos < Place(k)
  BY <1>1, BucketFacts
<1>3. \A k \in Keys : Unread(k) = Cpus /\ snap[k] = 0
  BY <1>2 DEF Unread, Fresh
<1>4. ASSUME NEW k \in Keys PROVE Held[k] = Recorded[k]
  <2>1. Held[k] = snap[k] + Content(k, Unread(k)) /\ Recorded[k] = Content(k, Cpus)
    BY HeldOf
  <2>2. snap[k] = 0 /\ Unread(k) = Cpus /\ Recorded[k] \in Int
    BY <1>3, HeldOf
  <2> QED
    BY <2>1, <2>2
<1> QED
  BY <1>4, HeldFacts

(* ... and at its end it holds what it has read. *)
LEMMA HeldAfter ==
  ASSUME Typed, pos = Buckets + 3
  PROVE  Held = snap
<1>1. \A k \in Keys : Place(k) \in 1..(Buckets + 2)
  BY Order
<1>2. \A k \in Keys : ~(pos < Place(k)) /\ pos # Place(k)
  BY <1>1, BucketFacts
<1>3. \A k \in Keys : Unread(k) = {}
  BY <1>2 DEF Unread
<1>4. ASSUME NEW k \in Keys PROVE Held[k] = snap[k]
  <2>1. Held[k] = snap[k] + Content(k, Unread(k))
    BY HeldOf
  <2>2. Unread(k) = {} /\ Content(k, {}) = 0 /\ snap[k] \in Int
    BY <1>3, ContentFacts DEF Typed
  <2> QED
    BY <2>1, <2>2
<1>5. snap \in [Keys -> Int]
  BY DEF Typed
<1> QED
  BY <1>4, <1>5, HeldFacts

(* A program adds d to its CPU's slot of a key: so much more is recorded,  *)
(* and held if that slot is still to be read.                              *)
LEMMA SlotAdd ==
  ASSUME Typed, Typed', NEW k \in Keys, NEW c \in Cpus, NEW d \in Int,
         UNCHANGED <<pos, slots, snap>>,
         \A j \in Keys \ {k} : Slots(j)' = Slots(j),
         DifferAt(Slots(k), Slots(k)', Cpus, c), Slots(k)'[c] = Slots(k)[c] + d
  PROVE  /\ Recorded' \in [Keys -> Int] /\ Held' \in [Keys -> Int]
         /\ DifferAt(Recorded, Recorded', Keys, k) /\ Recorded'[k] = Recorded[k] + d
         /\ DifferAt(Held, Held', Keys, k)
         /\ Held'[k] = Held[k] + (IF c \in Unread(k) THEN d ELSE 0)
<1>1. \A j \in Keys : Unread(j)' = Unread(j) /\ snap'[j] = snap[j] /\ Unread(j) \in SUBSET Cpus
  BY UnreadType DEF Unread
<1>2. ASSUME NEW C \in SUBSET Cpus
      PROVE  Content(k, C)' = Content(k, C) + (IF c \in C THEN d ELSE 0)
  <2> DEFINE f == Slots(k)
             g == Slots(k)'
  <2>1. IsFiniteSet(C)
    BY MetricsAssumption, FS_Subset
  <2>2. Content(k, C) = SumFunctionOnSet(f, C) /\ Content(k, C)' = SumFunctionOnSet(g, C)
    BY DEF Content
  <2>3. DifferAt(f, g, C, c) /\ g[c] = f[c] + d /\ f[c] \in Int
    BY DEF DifferAt
  <2> HIDE DEF f, g
  <2>4. \A e \in C : f[e] \in Int
    BY <2>3 DEF DifferAt
  <2>5. SumFunctionOnSet(f, C) \in Int
    BY <2>1, <2>4, SumType
  <2>6. CASE c \in C
    <3>1. SumFunctionOnSet(g, C) = (SumFunctionOnSet(f, C) - f[c]) + g[c]
      BY <2>1, <2>3, <2>6, SumUpdate
    <3> QED
      BY <2>2, <2>3, <2>5, <2>6, <3>1
  <2>7. CASE c \notin C
    <3>1. \A e \in C : f[e] \in Int /\ g[e] = f[e]
      BY <2>3, <2>7 DEF DifferAt
    <3>2. SumFunctionOnSet(g, C) = SumFunctionOnSet(f, C)
      BY <2>1, <3>1, SumSame
    <3> QED
      BY <2>2, <2>5, <2>7, <3>2
  <2> QED
    BY <2>6, <2>7
<1>3. /\ DOMAIN Recorded' = Keys /\ DOMAIN Held' = Keys
      /\ \A j \in Keys : /\ Recorded'[j] = Content(j, Cpus)'
                         /\ Held'[j] = snap'[j] + Content(j, Unread(j))'
  BY DEF Recorded, Held
<1>4. ASSUME NEW j \in Keys \ {k}
      PROVE  Recorded'[j] = Recorded[j] /\ Held'[j] = Held[j]
  <2>1. Content(j, Cpus)' = Content(j, Cpus) /\ Content(j, Unread(j))' = Content(j, Unread(j))
    BY <1>1 DEF Content
  <2> QED
    BY <1>1, <1>3, <2>1, HeldOf
<1>5. Recorded'[k] = Recorded[k] + d
  <2>1. Content(k, Cpus)' = Content(k, Cpus) + d
    BY <1>2
  <2> QED
    BY <1>3, <2>1, HeldOf
<1>6. Held'[k] = Held[k] + (IF c \in Unread(k) THEN d ELSE 0)
  <2> DEFINE r == Content(k, Unread(k))
             e == IF c \in Unread(k) THEN d ELSE 0
  <2>1. r' = r + e
    <3>1. r' = SumFunctionOnSet(Slots(k)', Unread(k))
      BY <1>1 DEF Content
    <3>2. \A C \in SUBSET Cpus :
            SumFunctionOnSet(Slots(k)', C) = Content(k, C) + (IF c \in C THEN d ELSE 0)
      BY <1>2 DEF Content
    <3> QED
      BY <1>1, <3>1, <3>2
  <2>2. Held[k] = snap[k] + r /\ Held'[k] = snap[k] + r' /\ snap[k] \in Int /\ r \in Int
    BY <1>1, <1>3, HeldOf, ContentFacts, UnreadType DEF Typed
  <2>3. e \in Int
    OBVIOUS
  <2> HIDE DEF r, e
  <2>4. Held'[k] = Held[k] + e
    BY <2>1, <2>2, <2>3
  <2> QED
    BY <2>4 DEF e
<1>7. \A j \in Keys : /\ Recorded[j] \in Int /\ Held[j] \in Int
                      /\ Recorded'[j] \in Int /\ Held'[j] \in Int
  <2>1. \A j \in Keys : Recorded[j] \in Int /\ Held[j] \in Int
    BY HeldOf
  <2>2. Recorded'[k] \in Int /\ Held'[k] \in Int
    BY <1>5, <1>6, <2>1
  <2> QED
    BY <1>4, <2>1, <2>2
<1>8. Recorded' \in [Keys -> Int] /\ Held' \in [Keys -> Int]
  <2>1. Recorded' = [j \in Keys |-> Recorded'[j]] /\ Held' = [j \in Keys |-> Held'[j]]
    BY DEF Recorded, Held
  <2> QED
    BY <1>7, <2>1
<1> QED
  BY <1>4, <1>5, <1>6, <1>7, <1>8 DEF DifferAt

(* What that makes of the numbers that are compared. *)
LEMMA NumbersAdd ==
  ASSUME Typed, NEW k \in Keys, NEW d \in Int, NEW e \in Int,
         Recorded' \in [Keys -> Int], Held' \in [Keys -> Int],
         DifferAt(Recorded, Recorded', Keys, k), Recorded'[k] = Recorded[k] + d,
         DifferAt(Held, Held', Keys, k), Held'[k] = Held[k] + e
  PROVE  /\ Total(Recorded)' = Total(Recorded) + (IF k \in Bucket THEN d ELSE 0)
         /\ Total(Held)' = Total(Held) + (IF k \in Bucket THEN e ELSE 0)
         /\ \A b \in 0..(Buckets - 2) :
              /\ Cumulative(Recorded)'[b] = Cumulative(Recorded)[b] + (IF k \in 0..b THEN d ELSE 0)
              /\ Cumulative(Held)'[b] = Cumulative(Held)[b] + (IF k \in 0..b THEN e ELSE 0)
         /\ EstimatedSum(Recorded)' = EstimatedSum(Recorded) + (IF k \in Bucket THEN d * 2^k ELSE 0)
         /\ EstimatedSum(Held)' = EstimatedSum(Held) + (IF k \in Bucket THEN e * 2^k ELSE 0)
         /\ \A j \in Keys \ {k} : Recorded'[j] = Recorded[j] /\ Held'[j] = Held[j]
<1> DEFINE R == Recorded
           S == Recorded'
           F == Held
           G == Held'
<1>1. R \in [Keys -> Int] /\ F \in [Keys -> Int]
  BY HeldFacts
<1>2. S \in [Keys -> Int] /\ DifferAt(R, S, Keys, k) /\ S[k] = R[k] + d
  OBVIOUS
<1>3. G \in [Keys -> Int] /\ DifferAt(F, G, Keys, k) /\ G[k] = F[k] + e
  OBVIOUS
<1>4. /\ Total(Recorded)' = Total(S) /\ Total(Held)' = Total(G)
      /\ Cumulative(Recorded)' = Cumulative(S) /\ Cumulative(Held)' = Cumulative(G)
      /\ EstimatedSum(Recorded)' = EstimatedSum(S) /\ EstimatedSum(Held)' = EstimatedSum(G)
  BY DEF Total, Cumulative, EstimatedSum
<1> HIDE DEF R, S, F, G
<1>5. Shifted(R, S, k, d)
  BY <1>1, <1>2, HistAdd
<1>6. Shifted(F, G, k, e)
  BY <1>1, <1>3, HistAdd
<1>7. \A j \in Keys \ {k} : S[j] = R[j] /\ G[j] = F[j]
  BY <1>2, <1>3 DEF DifferAt
<1> QED
  BY <1>4, <1>5, <1>6, <1>7 DEF Shifted, R, S, F, G

(* The types of the numbers that are compared. *)
LEMMA NumbersType ==
  ASSUME Typed
  PROVE  /\ Total(Recorded) \in Int /\ Total(Held) \in Int
         /\ EstimatedSum(Recorded) \in Int /\ EstimatedSum(Held) \in Int
         /\ \A b \in 0..(Buckets - 2) : /\ Cumulative(Recorded)[b] \in Int
                                     /\ Cumulative(Held)[b] \in Int
                                     /\ 2^b \in Nat
                                     /\ AtMost(observed, 2^b) \in Nat /\ AtMost(floor, 2^b) \in Nat
                                     /\ out.cumulative[b] \in Int
         /\ SumFunction(observed) \in Nat /\ SumFunction(floor) \in Nat
         /\ 2^(Buckets - 1) \in Nat
         /\ SumCapped(observed, 2^(Buckets - 1)) \in Nat /\ SumCapped(floor, 2^(Buckets - 1)) \in Nat
<1>1. Recorded \in [Keys -> Int] /\ Held \in [Keys -> Int]
  BY HeldFacts
<1>2. /\ Total(Recorded) \in Int /\ Total(Held) \in Int
      /\ EstimatedSum(Recorded) \in Int /\ EstimatedSum(Held) \in Int
      /\ Cumulative(Recorded) \in [0..(Buckets - 2) -> Int]
      /\ Cumulative(Held) \in [0..(Buckets - 2) -> Int]
  BY <1>1, HistType
<1>3. observed \in Counts /\ floor \in Counts
  BY DEF Typed
<1>4. /\ SumFunction(observed) \in Nat /\ SumFunction(floor) \in Nat
      /\ \A n \in Nat : /\ AtMost(observed, n) \in Nat /\ AtMost(floor, n) \in Nat
                        /\ SumCapped(observed, n) \in Nat /\ SumCapped(floor, n) \in Nat
  BY <1>3, ObservedType
<1>5. \A b \in 0..(Buckets - 2) : 2^b \in Nat
  BY BucketFacts, Powers
<1>6. 2^(Buckets - 1) \in Nat
  <2>1. Buckets - 1 \in Nat
    BY BucketFacts
  <2> QED
    BY <2>1, Powers
<1>7. \A b \in 0..(Buckets - 2) : out.cumulative[b] \in Int
  BY DEF Typed
<1> QED
  BY <1>2, <1>4, <1>5, <1>6, <1>7

-----------------------------------------------------------------------------
(* The steps of the programs.                                              *)

(* A scrape whose buckets and counter hold no less than before, and the    *)
(* counter no more once it has been read, keeps what it is held to.        *)
LEMMA HeldRises ==
  ASSUME Typed, NothingMissed, CounterFirst, Grown,
         UNCHANGED <<pos, failed, floor, out>>,
         Held'[CounterKey] \in Int, Held'[CounterKey] >= Held[CounterKey],
         pos > 1 => Held'[CounterKey] = Held[CounterKey],
         Total(Held)' >= Total(Held), EstimatedSum(Held)' >= EstimatedSum(Held),
         \A b \in 0..(Buckets - 2) : Cumulative(Held)'[b] >= Cumulative(Held)[b],
         Total(Held)' \in Int, EstimatedSum(Held)' \in Int,
         \A b \in 0..(Buckets - 2) : Cumulative(Held)'[b] \in Int
  PROVE  NothingMissed' /\ CounterFirst' /\ Grown'
<1>1. Held[CounterKey] \in Int /\ out.counter \in Int /\ out.total \in Int
  BY HeldOf, BucketFacts DEF Typed
<1>2. /\ SumFunction(floor)' = SumFunction(floor)
      /\ \A n : AtMost(floor, n)' = AtMost(floor, n) /\ SumCapped(floor, n)' = SumCapped(floor, n)
  BY DEF SumFunction, AtMost, SumCapped
<1>3. NothingMissed'
  <2> SUFFICES ASSUME pos > 0, failed = {} PROVE NothingMissed'
    BY DEF NothingMissed
  <2>1. Total(Held)' >= SumFunction(floor)'
    BY <1>2, NumbersType DEF NothingMissed
  <2>2. ASSUME NEW b \in 0..(Buckets - 2) PROVE Cumulative(Held)'[b] >= AtMost(floor, 2^b)'
    BY <1>2, NumbersType DEF NothingMissed
  <2>3. EstimatedSum(Held)' >= SumCapped(floor, 2^(Buckets - 1))'
    BY <1>2, NumbersType DEF NothingMissed
  <2> QED
    BY <2>1, <2>2, <2>3 DEF NothingMissed
<1>4. CounterFirst'
  BY <1>1, NumbersType DEF CounterFirst
<1>5. Grown'
  <2> SUFFICES ASSUME failed = {} PROVE Grown'
    BY DEF Grown
  <2>1. out'.counter <= Held'[CounterKey] /\ out'.total <= Total(Held)'
    BY <1>1, NumbersType DEF Grown
  <2>2. ASSUME NEW b \in 0..(Buckets - 2) PROVE out'.cumulative[b] <= Cumulative(Held)'[b]
    BY NumbersType DEF Grown
  <2> QED
    BY <2>1, <2>2 DEF Grown
<1> QED
  BY <1>3, <1>4, <1>5

(* What leaves the buckets and what is held of them alone confines them.   *)
LEMMA ConfinedSame ==
  ASSUME Confined, UNCHANGED <<observed, floor, failed>>, pos' > 0 => pos > 0,
         \A b \in Bucket : /\ Recorded'[b] = Recorded[b] /\ Held'[b] = Held[b]
                           /\ Unread(b) = {} => Unread(b)' = {}
  PROVE  Confined'
<1>1. \A b : InBucket(observed, b)' = InBucket(observed, b) /\ InBucket(floor, b)' = InBucket(floor, b)
  BY DEF InBucket
<1> SUFFICES ASSUME NEW b \in Bucket
             PROVE  /\ Recorded'[b] = InBucket(observed, b)'
                    /\ Held'[b] <= Recorded'[b]
                    /\ IF b \in failed' THEN Held'[b] = 0 /\ Unread(b)' = {}
                                        ELSE pos' > 0 => Held'[b] >= InBucket(floor, b)'
  BY DEF Confined
<1>2. /\ Recorded[b] = InBucket(observed, b) /\ Held[b] <= Recorded[b]
      /\ IF b \in failed THEN Held[b] = 0 /\ Unread(b) = {}
                         ELSE pos > 0 => Held[b] >= InBucket(floor, b)
  BY DEF Confined
<1> QED
  BY <1>1, <1>2

(* The bucket of a sample goes up (nd_inc_u64_percpu_array). *)
LEMMA IncHistStep ==
  ASSUME IInv, NEW c \in Cpus, NEW v \in Samples, IncHist(c, v)
  PROVE  IInv'
<1> DEFINE k == Log2Bucket(v)
           e == IF c \in Unread(k) THEN 1 ELSE 0
<1> /\ Typed /\ Fresh /\ ProgramsExact /\ NothingInvented /\ NothingMissed
    /\ GaugeClose /\ CounterFirst /\ Grown /\ Confined
  BY DEF IInv
<1>1. /\ v \in Nat /\ k \in Bucket /\ k \in Nat /\ k \in Keys
      /\ k # CounterKey /\ k # GaugeKey
      /\ \A b \in 0..(Buckets - 2) : k \in 0..b <=> v <= 2^b
      /\ \A b \in Bucket : k = b <=> Labelled(v, b)
      /\ Capped(v, 2^(Buckets - 1)) <= 2^k /\ Capped(v, 2^(Buckets - 1)) \in Nat
  <2>1. v \in Nat
    BY MetricsAssumption
  <2>2. /\ k \in Bucket /\ \A b \in 0..(Buckets - 2) : k <= b <=> v <= 2^b
        /\ \A b \in Bucket : k = b <=> Labelled(v, b)
        /\ Capped(v, 2^(Buckets - 1)) <= 2^k
    BY <2>1, BucketOf
  <2> HIDE DEF k
  <2>3. k \in Nat /\ k \in Keys /\ k # CounterKey /\ k # GaugeKey
    BY <2>2, BucketFacts
  <2>4. \A b \in 0..(Buckets - 2) : b \in Nat
    BY BucketFacts
  <2>5. \A b \in 0..(Buckets - 2) : k \in 0..b <=> k <= b
    BY <2>3, <2>4
  <2>6. Capped(v, 2^(Buckets - 1)) \in Nat
    BY NumbersType, CappedType
  <2> QED
    BY <2>1, <2>2, <2>3, <2>5, <2>6
<1>2. e \in {0, 1}
  OBVIOUS
<1>3. /\ hist' = [hist EXCEPT ![c][k] = @ + 1]
      /\ observed' = [observed EXCEPT ![v] = @ + 1]
      /\ half' = half \cup {c} /\ c \notin half
      /\ count' = count /\ delta' = delta /\ conns' = conns
      /\ pos' = pos /\ slots' = slots /\ snap' = snap /\ floor' = floor
      /\ conns0' = conns0 /\ failed' = failed /\ scrapes' = scrapes /\ out' = out
  BY DEF IncHist, scrapeVars
<1> HIDE DEF k
<1>4. /\ hist' \in [Cpus -> [Bucket -> Nat]]
      /\ observed' \in Counts /\ DifferAt(observed, observed', Samples, v)
      /\ observed'[v] = observed[v] + 1
  <2>1. hist' \in [Cpus -> [Bucket -> Nat]]
    <3>1. hist \in [Cpus -> [Bucket -> Nat]] /\ k \in Bucket
      BY <1>1 DEF Typed
    <3>2. [hist[c] EXCEPT ![k] = @ + 1] \in [Bucket -> Nat]
      BY <3>1
    <3> QED
      BY <1>3, <3>1, <3>2
  <2>2. observed' \in Counts /\ observed'[v] = observed[v] + 1
    BY <1>3 DEF Typed, Counts
  <2>3. \A u \in Samples \ {v} : observed'[u] = observed[u]
    BY <1>3 DEF Typed, Counts
  <2>4. \A u \in Samples : observed[u] \in Int /\ observed'[u] \in Int
    BY <2>2 DEF Typed, Counts
  <2> QED
    BY <2>1, <2>2, <2>3, <2>4 DEF DifferAt
<1>5. Typed' /\ Fresh'
  BY <1>3, <1>4 DEF Typed, Fresh
<1>6. /\ \A j \in Keys \ {k} : Slots(j)' = Slots(j)
      /\ DifferAt(Slots(k), Slots(k)', Cpus, c) /\ Slots(k)'[c] = Slots(k)[c] + 1
  <2>1. /\ \A a \in Cpus, b \in Bucket : <<a, b>> # <<c, k>> => hist'[a][b] = hist[a][b]
        /\ hist'[c][k] = hist[c][k] + 1
    BY <1>1, <1>3 DEF Typed
  <2>2. ASSUME NEW j \in Keys \ {k} PROVE Slots(j)' = Slots(j)
    <3>1. j \notin Bucket \/ \A a \in Cpus : hist'[a][j] = hist[a][j]
      BY <2>1
    <3> QED
      BY <1>3, <3>1 DEF Slots, Slot, Keys
  <2>3. Slots(k)' = [a \in Cpus |-> hist'[a][k]] /\ Slots(k) = [a \in Cpus |-> hist[a][k]]
    BY <1>1 DEF Slots, Slot
  <2>4. \A a \in Cpus : hist[a][k] \in Nat /\ hist'[a][k] \in Nat
    BY <1>1, <1>4 DEF Typed
  <2> QED
    BY <1>1, <2>1, <2>2, <2>3, <2>4 DEF DifferAt
<1>7. /\ Recorded' \in [Keys -> Int] /\ Held' \in [Keys -> Int]
      /\ DifferAt(Recorded, Recorded', Keys, k) /\ Recorded'[k] = Recorded[k] + 1
      /\ DifferAt(Held, Held', Keys, k) /\ Held'[k] = Held[k] + e
  BY <1>1, <1>3, <1>5, <1>6, SlotAdd
<1> HIDE DEF e
<1>8. /\ Total(Recorded)' = Total(Recorded) + 1
      /\ Total(Held)' = Total(Held) + e
      /\ \A b \in 0..(Buckets - 2) :
           /\ Cumulative(Recorded)'[b] = Cumulative(Recorded)[b] + (IF k \in 0..b THEN 1 ELSE 0)
           /\ Cumulative(Held)'[b] = Cumulative(Held)[b] + (IF k \in 0..b THEN e ELSE 0)
      /\ EstimatedSum(Recorded)' = EstimatedSum(Recorded) + 1 * 2^k
      /\ EstimatedSum(Held)' = EstimatedSum(Held) + e * 2^k
      /\ \A j \in Keys \ {k} : Recorded'[j] = Recorded[j] /\ Held'[j] = Held[j]
  BY <1>1, <1>2, <1>7, NumbersAdd
<1>9. /\ SumFunction(observed)' = SumFunction(observed) + 1
      /\ \A n \in Nat : /\ AtMost(observed, n)' = AtMost(observed, n) + (IF v <= n THEN 1 ELSE 0)
                        /\ SumCapped(observed, n)' = SumCapped(observed, n) + Capped(v, n)
      /\ \A b : InBucket(observed, b)' = InBucket(observed, b) + (IF Labelled(v, b) THEN 1 ELSE 0)
  <2> DEFINE F == observed
             G == observed'
  <2>1. F \in Counts /\ G \in Counts /\ DifferAt(F, G, Samples, v) /\ G[v] = F[v] + 1
    BY <1>4 DEF Typed
  <2>2. /\ SumFunction(observed)' = SumFunction(G)
        /\ \A n : AtMost(observed, n)' = AtMost(G, n) /\ SumCapped(observed, n)' = SumCapped(G, n)
        /\ \A b : InBucket(observed, b)' = InBucket(G, b)
    BY DEF SumFunction, AtMost, SumCapped, InBucket
  <2> HIDE DEF F, G
  <2>3. /\ SumFunction(G) = SumFunction(F) + 1
        /\ \A n \in Nat : /\ AtMost(G, n) = AtMost(F, n) + (IF v <= n THEN 1 ELSE 0)
                          /\ SumCapped(G, n) = SumCapped(F, n) + Capped(v, n)
        /\ \A b : InBucket(G, b) = InBucket(F, b) + (IF Labelled(v, b) THEN 1 ELSE 0)
    BY <2>1, ObservedAdd
  <2> QED
    BY <2>2, <2>3 DEF F, G
<1>10. 2^k \in Nat /\ e * 2^k \in Nat /\ 1 * 2^k = 2^k
  BY <1>1, <1>2, Powers
<1>11. ProgramsExact'
  <2>1. SumFunction(observed)' = Recorded'[CounterKey] + Cardinality(half)'
    <3>1. Cardinality(half') = Cardinality(half) + 1 /\ Cardinality(half) \in Nat
      BY <1>3, MetricsAssumption, FS_Subset, FS_AddElement, FS_CardinalityType DEF Typed
    <3>2. Recorded'[CounterKey] = Recorded[CounterKey] /\ Recorded[CounterKey] \in Int
      BY <1>1, <1>8, BucketFacts, HeldOf
    <3> QED
      BY <1>9, <3>1, <3>2, NumbersType DEF ProgramsExact
  <2>2. SumFunction(observed)' = Total(Recorded)'
    BY <1>8, <1>9 DEF ProgramsExact
  <2>3. ASSUME NEW b \in 0..(Buckets - 2) PROVE Cumulative(Recorded)'[b] = AtMost(observed, 2^b)'
    BY <1>1, <1>8, <1>9, NumbersType DEF ProgramsExact
  <2>4. EstimatedSum(Recorded)' >= SumCapped(observed, 2^(Buckets - 1))'
    BY <1>1, <1>8, <1>9, <1>10, NumbersType DEF ProgramsExact
  <2>5. Recorded'[GaugeKey] = conns'.entered - conns'.left
    BY <1>1, <1>3, <1>8, BucketFacts DEF ProgramsExact
  <2> QED
    BY <2>1, <2>2, <2>3, <2>4, <2>5 DEF ProgramsExact
<1>12. Held'[CounterKey] = Held[CounterKey] /\ Held'[GaugeKey] = Held[GaugeKey]
  BY <1>1, <1>8, BucketFacts
<1>13. NothingInvented'
  <2>1. Held'[CounterKey] <= Recorded'[CounterKey]
    BY <1>1, <1>8, <1>12, BucketFacts DEF NothingInvented
  <2>2. Total(Held)' <= SumFunction(observed)'
    BY <1>2, <1>8, <1>9, NumbersType DEF NothingInvented
  <2>3. ASSUME NEW b \in 0..(Buckets - 2) PROVE Cumulative(Held)'[b] <= AtMost(observed, 2^b)'
    BY <1>1, <1>2, <1>8, <1>9, NumbersType DEF NothingInvented
  <2> QED
    BY <2>1, <2>2, <2>3 DEF NothingInvented
<1>14. /\ Total(Held)' >= Total(Held) /\ EstimatedSum(Held)' >= EstimatedSum(Held)
       /\ \A b \in 0..(Buckets - 2) : Cumulative(Held)'[b] >= Cumulative(Held)[b]
       /\ Total(Held)' \in Int /\ EstimatedSum(Held)' \in Int
       /\ \A b \in 0..(Buckets - 2) : Cumulative(Held)'[b] \in Int
  BY <1>2, <1>8, <1>10, NumbersType
<1>15. NothingMissed' /\ GaugeClose' /\ CounterFirst' /\ Grown'
  <2>1. NothingMissed' /\ CounterFirst' /\ Grown'
    <3>1. Held[CounterKey] \in Int
      BY HeldOf, BucketFacts
    <3> QED
      BY <1>3, <1>12, <1>14, <3>1, HeldRises
  <2>2. GaugeClose'
    BY <1>3, <1>12 DEF GaugeClose
  <2> QED
    BY <2>1, <2>2
<1>16. BucketsAreExact' /\ CounterWithinHistogram'
  BY <1>3 DEF IInv, BucketsAreExact, CounterWithinHistogram
<1>17. Confined'
  <2> SUFFICES ASSUME NEW b \in Bucket
               PROVE  /\ Recorded'[b] = InBucket(observed, b)'
                      /\ Held'[b] <= Recorded'[b]
                      /\ IF b \in failed' THEN Held'[b] = 0 /\ Unread(b)' = {}
                                          ELSE pos' > 0 => Held'[b] >= InBucket(floor, b)'
    BY DEF Confined
  <2>1. /\ Recorded[b] = InBucket(observed, b) /\ Held[b] <= Recorded[b]
        /\ IF b \in failed THEN Held[b] = 0 /\ Unread(b) = {}
                           ELSE pos > 0 => Held[b] >= InBucket(floor, b)
    BY DEF Confined
  <2>2. b \in Keys /\ Recorded[b] \in Int /\ Held[b] \in Int /\ InBucket(floor, b) \in Nat
    BY BucketFacts, HeldOf, ObservedType DEF Typed
  <2>3. InBucket(floor, b)' = InBucket(floor, b) /\ Unread(b)' = Unread(b)
    BY <1>3 DEF InBucket, Unread, Place
  <2>4. CASE b = k
    <3>1. InBucket(observed, b)' = InBucket(observed, b) + 1
      BY <1>1, <1>9, <2>4
    <3>2. Recorded'[b] = Recorded[b] + 1 /\ Held'[b] = Held[b] + e
      BY <1>7, <2>4
    <3>3. b \in failed => e = 0
      BY <2>1, <2>4 DEF e
    <3> QED
      BY <1>2, <1>3, <2>1, <2>2, <2>3, <3>1, <3>2, <3>3
  <2>5. CASE b # k
    <3>1. InBucket(observed, b)' = InBucket(observed, b)
      <4>1. InBucket(observed, b) \in Nat
        BY <2>1, <2>2, ObservedType DEF Typed
      <4> QED
        BY <1>1, <1>9, <2>5, <4>1
    <3>2. Recorded'[b] = Recorded[b] /\ Held'[b] = Held[b]
      BY <1>8, <2>2, <2>5
    <3> QED
      BY <1>3, <2>1, <2>3, <3>1, <3>2
  <2> QED
    BY <2>4, <2>5
<1> QED
  BY <1>5, <1>11, <1>13, <1>15, <1>16, <1>17 DEF IInv

(* The number of k goes up by d, and nothing else is recorded or held. *)
AddsAlone(k, c, d) ==
  /\ Recorded'[k] = Recorded[k] + d
  /\ Held'[k] = Held[k] + (IF c \in Unread(k) THEN d ELSE 0)
  /\ \A j \in Keys \ {k} : Recorded'[j] = Recorded[j] /\ Held'[j] = Held[j]
  /\ Total(Recorded)' = Total(Recorded) /\ Total(Held)' = Total(Held)
  /\ EstimatedSum(Recorded)' = EstimatedSum(Recorded)
  /\ EstimatedSum(Held)' = EstimatedSum(Held)
  /\ \A b \in 0..(Buckets - 2) : /\ Cumulative(Recorded)'[b] = Cumulative(Recorded)[b]
                              /\ Cumulative(Held)'[b] = Cumulative(Held)[b]

(* A program adds to its slot of the counter or of the gauge. *)
AddsOutside(k, c, d) ==
  /\ UNCHANGED <<hist, observed, pos, slots, snap>>
  /\ k = CounterKey => count' = [count EXCEPT ![c] = @ + d] /\ delta' = delta
  /\ k = GaugeKey => delta' = [delta EXCEPT ![c] = @ + d] /\ count' = count

(* Then that number changes and nothing of the histogram does. *)
LEMMA OutsideBuckets ==
  ASSUME Typed, Typed', NEW k \in {CounterKey, GaugeKey}, NEW c \in Cpus, NEW d \in Int,
         AddsOutside(k, c, d)
  PROVE  AddsAlone(k, c, d)
<1> /\ UNCHANGED <<hist, observed, pos, slots, snap>>
    /\ k = CounterKey => count' = [count EXCEPT ![c] = @ + d] /\ delta' = delta
    /\ k = GaugeKey => delta' = [delta EXCEPT ![c] = @ + d] /\ count' = count
  BY DEF AddsOutside
<1> DEFINE e == IF c \in Unread(k) THEN d ELSE 0
<1>1. k \in Keys /\ k \notin Bucket
  BY BucketFacts
<1>2. /\ \A j \in Keys \ {k} : Slots(j)' = Slots(j)
      /\ DifferAt(Slots(k), Slots(k)', Cpus, c) /\ Slots(k)'[c] = Slots(k)[c] + d
  <2>1. ASSUME NEW j \in Keys \ {k} PROVE Slots(j)' = Slots(j)
    BY BucketFacts DEF Slots, Slot, Keys
  <2>2. CASE k = CounterKey
    <3>1. Slots(k)' = [a \in Cpus |-> count'[a]] /\ Slots(k) = [a \in Cpus |-> count[a]]
      BY <2>2, BucketFacts DEF Slots, Slot
    <3>2. \A a \in Cpus : count[a] \in Nat /\ count'[a] \in Nat
      BY DEF Typed
    <3>3. count'[c] = count[c] + d /\ \A a \in Cpus \ {c} : count'[a] = count[a]
      BY <2>2 DEF Typed
    <3> QED
      BY <2>1, <3>1, <3>2, <3>3 DEF DifferAt
  <2>3. CASE k = GaugeKey
    <3>1. Slots(k)' = [a \in Cpus |-> delta'[a]] /\ Slots(k) = [a \in Cpus |-> delta[a]]
      BY <2>3, BucketFacts DEF Slots, Slot
    <3>2. \A a \in Cpus : delta[a] \in Int /\ delta'[a] \in Int
      BY DEF Typed
    <3>3. delta'[c] = delta[c] + d /\ \A a \in Cpus \ {c} : delta'[a] = delta[a]
      BY <2>3 DEF Typed
    <3> QED
      BY <2>1, <3>1, <3>2, <3>3 DEF DifferAt
  <2> QED
    BY <2>2, <2>3
<1>3. e \in Int
  OBVIOUS
<1>4. /\ Recorded' \in [Keys -> Int] /\ Held' \in [Keys -> Int]
      /\ DifferAt(Recorded, Recorded', Keys, k) /\ Recorded'[k] = Recorded[k] + d
      /\ DifferAt(Held, Held', Keys, k) /\ Held'[k] = Held[k] + e
  BY <1>1, <1>2, SlotAdd
<1> HIDE DEF e
<1>5. /\ Total(Recorded)' = Total(Recorded) + 0 /\ Total(Held)' = Total(Held) + 0
      /\ \A b \in 0..(Buckets - 2) :
           /\ Cumulative(Recorded)'[b] = Cumulative(Recorded)[b] + 0
           /\ Cumulative(Held)'[b] = Cumulative(Held)[b] + 0
      /\ EstimatedSum(Recorded)' = EstimatedSum(Recorded) + 0
      /\ EstimatedSum(Held)' = EstimatedSum(Held) + 0
      /\ \A j \in Keys \ {k} : Recorded'[j] = Recorded[j] /\ Held'[j] = Held[j]
  <2>1. \A b \in 0..(Buckets - 2) : k \notin 0..b
    BY <1>1, BucketFacts
  <2> QED
    BY <1>1, <1>3, <1>4, <2>1, NumbersAdd
<1> QED
  BY <1>4, <1>5, NumbersType DEF AddsAlone, e

(* The sample is counted. *)
LEMMA IncCounterStep ==
  ASSUME IInv, NEW c \in Cpus, IncCounter(c)
  PROVE  IInv'
<1> DEFINE e == IF c \in Unread(CounterKey) THEN 1 ELSE 0
<1> /\ Typed /\ Fresh /\ ProgramsExact /\ NothingInvented /\ NothingMissed
    /\ GaugeClose /\ CounterFirst /\ Grown /\ Confined
  BY DEF IInv
<1>1. /\ count' = [count EXCEPT ![c] = @ + 1] /\ half' = half \ {c} /\ c \in half
      /\ hist' = hist /\ delta' = delta /\ observed' = observed /\ conns' = conns
      /\ pos' = pos /\ slots' = slots /\ snap' = snap /\ floor' = floor
      /\ conns0' = conns0 /\ failed' = failed /\ scrapes' = scrapes /\ out' = out
  BY DEF IncCounter, scrapeVars
<1>2. Typed' /\ Fresh'
  BY <1>1 DEF Typed, Fresh
<1>3. /\ Recorded'[CounterKey] = Recorded[CounterKey] + 1
      /\ Held'[CounterKey] = Held[CounterKey] + e
      /\ \A j \in Keys \ {CounterKey} : Recorded'[j] = Recorded[j] /\ Held'[j] = Held[j]
      /\ Total(Recorded)' = Total(Recorded) /\ Total(Held)' = Total(Held)
      /\ EstimatedSum(Recorded)' = EstimatedSum(Recorded)
      /\ EstimatedSum(Held)' = EstimatedSum(Held)
      /\ \A b \in 0..(Buckets - 2) : /\ Cumulative(Recorded)'[b] = Cumulative(Recorded)[b]
                                  /\ Cumulative(Held)'[b] = Cumulative(Held)[b]
  <2>1. CounterKey \in {CounterKey, GaugeKey} /\ 1 \in Int /\ AddsOutside(CounterKey, c, 1)
    BY <1>1, BucketFacts DEF AddsOutside
  <2>2. AddsAlone(CounterKey, c, 1)
    BY <1>2, <2>1, OutsideBuckets
  <2> QED
    BY <2>2 DEF AddsAlone
<1>4. /\ e \in {0, 1} /\ (pos > 1 => e = 0)
      /\ Recorded[CounterKey] \in Int /\ Held[CounterKey] \in Int
      /\ Recorded'[GaugeKey] = Recorded[GaugeKey] /\ Held'[GaugeKey] = Held[GaugeKey]
  <2>1. pos > 1 => Unread(CounterKey) = {}
    BY Order DEF Unread, Typed
  <2> QED
    BY <1>3, <2>1, BucketFacts, HeldOf
<1> HIDE DEF e
<1>5. /\ SumFunction(observed)' = SumFunction(observed)
      /\ \A n : AtMost(observed, n)' = AtMost(observed, n) /\ SumCapped(observed, n)' = SumCapped(observed, n)
  BY <1>1 DEF SumFunction, AtMost, SumCapped
<1>6. ProgramsExact'
  <2>1. SumFunction(observed)' = Recorded'[CounterKey] + Cardinality(half)'
    <3>1. Cardinality(half') = Cardinality(half) - 1 /\ Cardinality(half) \in Nat
      BY <1>1, MetricsAssumption, FS_Subset, FS_RemoveElement, FS_CardinalityType DEF Typed
    <3> QED
      BY <1>3, <1>4, <1>5, <3>1, NumbersType DEF ProgramsExact
  <2>2. /\ SumFunction(observed)' = Total(Recorded)'
        /\ Recorded'[GaugeKey] = conns'.entered - conns'.left
    BY <1>1, <1>3, <1>4, <1>5 DEF ProgramsExact
  <2>3. ASSUME NEW b \in 0..(Buckets - 2) PROVE Cumulative(Recorded)'[b] = AtMost(observed, 2^b)'
    BY <1>3, <1>5 DEF ProgramsExact
  <2>4. EstimatedSum(Recorded)' >= SumCapped(observed, 2^(Buckets - 1))'
    BY <1>3, <1>5 DEF ProgramsExact
  <2> QED
    BY <2>1, <2>2, <2>3, <2>4 DEF ProgramsExact
<1>7. NothingInvented'
  <2>1. Held'[CounterKey] <= Recorded'[CounterKey]
    BY <1>3, <1>4 DEF NothingInvented
  <2>2. Total(Held)' <= SumFunction(observed)'
    BY <1>3, <1>5 DEF NothingInvented
  <2>3. ASSUME NEW b \in 0..(Buckets - 2) PROVE Cumulative(Held)'[b] <= AtMost(observed, 2^b)'
    BY <1>3, <1>5 DEF NothingInvented
  <2> QED
    BY <2>1, <2>2, <2>3 DEF NothingInvented
<1>8. NothingMissed' /\ CounterFirst' /\ Grown'
  <2>1. /\ Held'[CounterKey] \in Int /\ Held'[CounterKey] >= Held[CounterKey]
        /\ pos > 1 => Held'[CounterKey] = Held[CounterKey]
    BY <1>3, <1>4
  <2>2. /\ Total(Held)' >= Total(Held) /\ EstimatedSum(Held)' >= EstimatedSum(Held)
        /\ \A b \in 0..(Buckets - 2) : Cumulative(Held)'[b] >= Cumulative(Held)[b]
        /\ Total(Held)' \in Int /\ EstimatedSum(Held)' \in Int
        /\ \A b \in 0..(Buckets - 2) : Cumulative(Held)'[b] \in Int
    BY <1>3, NumbersType
  <2> QED
    BY <1>1, <2>1, <2>2, HeldRises
<1>9. GaugeClose'
  BY <1>1, <1>4 DEF GaugeClose
<1>10. BucketsAreExact' /\ CounterWithinHistogram'
  BY <1>1 DEF IInv, BucketsAreExact, CounterWithinHistogram
<1>11. Confined'
  <2>1. \A b \in Bucket : b \in Keys \ {CounterKey} /\ Unread(b)' = Unread(b)
    BY <1>1, BucketFacts DEF Unread, Place
  <2> QED
    BY <1>1, <1>3, <2>1, ConfinedSame
<1> QED
  BY <1>2, <1>6, <1>7, <1>8, <1>9, <1>10, <1>11 DEF IInv

(* A connection enters the state or leaves it (nd_tcp_state_delta_add). *)
LEMMA MoveStep ==
  ASSUME IInv, NEW c \in Cpus, Enter(c) \/ Leave(c)
  PROVE  IInv'
<1> DEFINE d == IF Enter(c) THEN 1 ELSE -1
           e == IF c \in Unread(GaugeKey) THEN d ELSE 0
<1> /\ Typed /\ Fresh /\ ProgramsExact /\ NothingInvented /\ NothingMissed
    /\ GaugeClose /\ CounterFirst /\ Grown /\ Confined
  BY DEF IInv
<1>1. /\ delta' = [delta EXCEPT ![c] = @ + d]
      /\ d = 1 => conns' = [conns EXCEPT !.entered = @ + 1]
      /\ d = -1 => conns' = [conns EXCEPT !.left = @ + 1]
      /\ d \in {1, -1}
      /\ hist' = hist /\ count' = count /\ half' = half /\ observed' = observed
      /\ pos' = pos /\ slots' = slots /\ snap' = snap /\ floor' = floor
      /\ conns0' = conns0 /\ failed' = failed /\ scrapes' = scrapes /\ out' = out
  <2>1. CASE Enter(c)
    BY <2>1 DEF Enter, scrapeVars
  <2>2. CASE ~Enter(c)
    <3>1. delta' = [delta EXCEPT ![c] = @ - 1]
      BY <2>2 DEF Leave
    <3>2. delta[c] \in Int
      BY DEF Typed
    <3>3. delta[c] - 1 = delta[c] + d
      BY <2>2, <3>2
    <3>4. d = -1 /\ d # 1
      BY <2>2
    <3> HIDE DEF d
    <3>5. delta' = [delta EXCEPT ![c] = @ + d]
      BY <3>1, <3>3, Zenon
    <3>6. Leave(c)
      BY <2>2
    <3> QED
      BY <3>4, <3>5, <3>6 DEF Leave, scrapeVars
  <2> QED
    BY <2>1, <2>2
<1> HIDE DEF d
<1>2. conns \in Moves /\ conns' \in Moves /\ conns0 \in Moves
  <2>1. conns \in Moves /\ conns0 \in Moves
    BY DEF Typed
  <2>2. CASE d = 1
    BY <1>1, <2>1, <2>2 DEF Moves
  <2>3. CASE d = -1
    BY <1>1, <2>1, <2>3 DEF Moves
  <2> QED
    BY <1>1, <2>1, <2>2, <2>3
<1>3. Typed' /\ Fresh'
  <2>1. delta' \in [Cpus -> Int]
    BY <1>1 DEF Typed
  <2>2. Typed'
    BY <1>1, <1>2, <2>1 DEF Typed
  <2>3. Fresh'
    BY <1>1 DEF Fresh, Place
  <2> QED
    BY <2>2, <2>3
<1>4. /\ Recorded'[GaugeKey] = Recorded[GaugeKey] + d
      /\ Held'[GaugeKey] = Held[GaugeKey] + e
      /\ \A j \in Keys \ {GaugeKey} : Recorded'[j] = Recorded[j] /\ Held'[j] = Held[j]
      /\ Total(Recorded)' = Total(Recorded) /\ Total(Held)' = Total(Held)
      /\ EstimatedSum(Recorded)' = EstimatedSum(Recorded)
      /\ EstimatedSum(Held)' = EstimatedSum(Held)
      /\ \A b \in 0..(Buckets - 2) : /\ Cumulative(Recorded)'[b] = Cumulative(Recorded)[b]
                                  /\ Cumulative(Held)'[b] = Cumulative(Held)[b]
  <2>1. GaugeKey \in {CounterKey, GaugeKey} /\ d \in Int /\ AddsOutside(GaugeKey, c, d)
    BY <1>1, BucketFacts DEF AddsOutside
  <2>2. AddsAlone(GaugeKey, c, d)
    BY <1>3, <2>1, OutsideBuckets
  <2> QED
    BY <2>2 DEF AddsAlone
<1>5. /\ e \in {0, d}
      /\ Recorded[GaugeKey] \in Int /\ Held[GaugeKey] \in Int /\ Held[CounterKey] \in Int
      /\ Recorded'[CounterKey] = Recorded[CounterKey] /\ Held'[CounterKey] = Held[CounterKey]
  BY <1>4, BucketFacts, HeldOf
<1> HIDE DEF e
<1>6. /\ SumFunction(observed)' = SumFunction(observed)
      /\ \A n : AtMost(observed, n)' = AtMost(observed, n) /\ SumCapped(observed, n)' = SumCapped(observed, n)
  BY <1>1 DEF SumFunction, AtMost, SumCapped
<1>7. /\ conns.entered \in Nat /\ conns.left \in Nat
      /\ conns0.entered \in Nat /\ conns0.left \in Nat /\ conns0' = conns0
      /\ d = 1 => conns'.entered = conns.entered + 1 /\ conns'.left = conns.left
      /\ d = -1 => conns'.left = conns.left + 1 /\ conns'.entered = conns.entered
  BY <1>1, <1>2 DEF Moves
<1>8. ProgramsExact'
  <2>1. Recorded'[GaugeKey] = conns'.entered - conns'.left
    BY <1>1, <1>4, <1>7 DEF ProgramsExact
  <2>2. /\ SumFunction(observed)' = Recorded'[CounterKey] + Cardinality(half)'
        /\ SumFunction(observed)' = Total(Recorded)'
        /\ EstimatedSum(Recorded)' >= SumCapped(observed, 2^(Buckets - 1))'
    BY <1>1, <1>4, <1>5, <1>6 DEF ProgramsExact
  <2>3. ASSUME NEW b \in 0..(Buckets - 2) PROVE Cumulative(Recorded)'[b] = AtMost(observed, 2^b)'
    BY <1>4, <1>6 DEF ProgramsExact
  <2> QED
    BY <2>1, <2>2, <2>3 DEF ProgramsExact
<1>9. NothingInvented'
  <2>1. Held'[CounterKey] <= Recorded'[CounterKey] /\ Total(Held)' <= SumFunction(observed)'
    BY <1>4, <1>5, <1>6 DEF NothingInvented
  <2>2. ASSUME NEW b \in 0..(Buckets - 2) PROVE Cumulative(Held)'[b] <= AtMost(observed, 2^b)'
    BY <1>4, <1>6 DEF NothingInvented
  <2> QED
    BY <2>1, <2>2 DEF NothingInvented
<1>10. NothingMissed' /\ CounterFirst' /\ Grown'
  <2>1. /\ Total(Held)' >= Total(Held) /\ EstimatedSum(Held)' >= EstimatedSum(Held)
        /\ \A b \in 0..(Buckets - 2) : Cumulative(Held)'[b] >= Cumulative(Held)[b]
        /\ Total(Held)' \in Int /\ EstimatedSum(Held)' \in Int
        /\ \A b \in 0..(Buckets - 2) : Cumulative(Held)'[b] \in Int
    BY <1>4, NumbersType
  <2> QED
    BY <1>1, <1>5, <2>1, HeldRises
<1>11. GaugeClose'
  <2> SUFFICES ASSUME pos > 0, GaugeKey \notin failed PROVE GaugeClose'
    BY <1>1 DEF GaugeClose
  <2>1. Held[GaugeKey] \in (conns0.entered - conns.left)..(conns.entered - conns0.left)
    BY DEF GaugeClose
  <2>2. Held'[GaugeKey] \in (conns0'.entered - conns'.left)..(conns'.entered - conns0'.left)
    <3>1. CASE d = 1
      BY <1>4, <1>5, <1>7, <2>1, <3>1
    <3>2. CASE d = -1
      BY <1>4, <1>5, <1>7, <2>1, <3>2
    <3> QED
      BY <1>1, <3>1, <3>2
  <2> QED
    BY <2>2 DEF GaugeClose
<1>12. BucketsAreExact' /\ CounterWithinHistogram'
  BY <1>1 DEF IInv, BucketsAreExact, CounterWithinHistogram
<1>13. Confined'
  <2>1. \A b \in Bucket : b \in Keys \ {GaugeKey} /\ Unread(b)' = Unread(b)
    BY <1>1, BucketFacts DEF Unread, Place
  <2> QED
    BY <1>1, <1>4, <2>1, ConfinedSame
<1> QED
  BY <1>3, <1>8, <1>9, <1>10, <1>11, <1>12, <1>13 DEF IInv

-----------------------------------------------------------------------------
(* The steps of a scrape.                                                  *)

(* It changes nothing that the programs have recorded. *)
LEMMA ProgramsSame ==
  ASSUME ProgramsExact, UNCHANGED programVars
  PROVE  /\ Recorded' = Recorded /\ ProgramsExact'
         /\ \A k, C : Content(k, C)' = Content(k, C)
         /\ SumFunction(observed)' = SumFunction(observed)
         /\ \A n : AtMost(observed, n)' = AtMost(observed, n)
<1>1. /\ hist' = hist /\ count' = count /\ delta' = delta /\ half' = half
      /\ observed' = observed /\ conns' = conns
  BY DEF programVars
<1>2. \A k : Slots(k)' = Slots(k)
  BY <1>1 DEF Slots, Slot
<1>3. \A k, C : Content(k, C)' = Content(k, C)
  BY <1>2 DEF Content
<1>4. Recorded' = Recorded
  BY <1>3 DEF Recorded
<1>5. /\ SumFunction(observed)' = SumFunction(observed)
      /\ \A n : AtMost(observed, n)' = AtMost(observed, n) /\ SumCapped(observed, n)' = SumCapped(observed, n)
  BY <1>1 DEF SumFunction, AtMost, SumCapped
<1>6. /\ Total(Recorded)' = Total(Recorded) /\ Cumulative(Recorded)' = Cumulative(Recorded)
      /\ EstimatedSum(Recorded)' = EstimatedSum(Recorded)
  BY <1>4 DEF Total, Cumulative, EstimatedSum
<1> QED
  BY <1>1, <1>3, <1>4, <1>5, <1>6 DEF ProgramsExact

(* What it holds determines the numbers that are compared. *)
LEMMA HeldSame ==
  ASSUME Held' = Held
  PROVE  /\ Total(Held)' = Total(Held) /\ Cumulative(Held)' = Cumulative(Held)
         /\ EstimatedSum(Held)' = EstimatedSum(Held)
BY DEF Total, Cumulative, EstimatedSum

(* Reading moves what is read from the slots to the snapshot. *)
LEMMA ReadingStep ==
  ASSUME IInv, Typed', Fresh', CounterFirst', UNCHANGED <<programVars, floor, conns0, failed, out>>,
         pos > 0, pos' > 0, Held' = Held,
         \A b \in Bucket : Unread(b) = {} => Unread(b)' = {}
  PROVE  IInv'
<1> /\ Typed /\ ProgramsExact /\ NothingInvented /\ NothingMissed /\ GaugeClose /\ Grown
    /\ Confined
  BY DEF IInv
<1>1. /\ Recorded' = Recorded /\ ProgramsExact'
      /\ SumFunction(observed)' = SumFunction(observed)
      /\ \A n : AtMost(observed, n)' = AtMost(observed, n)
  BY ProgramsSame
<1>2. /\ Total(Held)' = Total(Held) /\ Cumulative(Held)' = Cumulative(Held)
      /\ EstimatedSum(Held)' = EstimatedSum(Held)
  BY HeldSame
<1>3. NothingInvented'
  BY <1>1, <1>2 DEF NothingInvented
<1>4. NothingMissed'
  <2>1. /\ SumFunction(floor)' = SumFunction(floor)
        /\ \A n : AtMost(floor, n)' = AtMost(floor, n) /\ SumCapped(floor, n)' = SumCapped(floor, n)
    BY DEF SumFunction, AtMost, SumCapped
  <2> QED
    BY <1>2, <2>1 DEF NothingMissed
<1>5. GaugeClose' /\ Grown'
  BY <1>2 DEF GaugeClose, Grown, programVars
<1>6. BucketsAreExact' /\ CounterWithinHistogram'
  BY DEF IInv, BucketsAreExact, CounterWithinHistogram
<1>7. Confined'
  BY <1>1, ConfinedSame DEF programVars
<1> QED
  BY <1>1, <1>3, <1>4, <1>5, <1>6, <1>7 DEF IInv

(* The copy of one slot (bpf_map_lookup_elem of a per-CPU map). *)
LEMMA ReadSlotStep ==
  ASSUME IInv, NEW c \in Cpus, ReadSlot(c)
  PROVE  IInv'
<1> Typed /\ Fresh /\ ProgramsExact /\ CounterFirst
  BY DEF IInv
<1>0. PICK k \in Keys : k = Key
  BY Order DEF ReadSlot, Key
<1>1. pos \in 1..(Buckets + 2) /\ k \in Keys /\ Place(k) = pos /\ c \in slots
  BY <1>0, Order DEF ReadSlot, Key
<1>2. /\ snap' = [snap EXCEPT ![k] = @ + Slot(c, k)] /\ slots' = slots \ {c}
      /\ UNCHANGED <<programVars, pos, floor, conns0, failed, scrapes, out>>
  BY <1>0 DEF ReadSlot
<1>3. Slot(c, k) = Slots(k)[c] /\ Slot(c, k) \in Int /\ (k # GaugeKey => Slot(c, k) \in Nat)
  BY <1>1, SlotFacts
<1>4. /\ snap' \in [Keys -> Int] /\ snap'[k] = snap[k] + Slot(c, k)
      /\ \A j \in Keys \ {k} : snap'[j] = snap[j]
  BY <1>1, <1>2, <1>3 DEF Typed
<1>5. Typed'
  <2>1. \A j \in Keys \ {GaugeKey} : snap'[j] >= 0
    <3>1. k # GaugeKey => snap'[k] >= 0
      BY <1>1, <1>3, <1>4 DEF Typed
    <3> QED
      BY <1>4, <3>1 DEF Typed
  <2> QED
    BY <1>2, <1>4, <2>1 DEF Typed, programVars
<1>6. Fresh'
  <2>1. \A j \in Keys : pos < Place(j) => snap'[j] = 0
    BY <1>1, <1>4 DEF Fresh
  <2> QED
    BY <1>1, <1>2, <2>1, BucketFacts DEF Fresh
<1>7. Held' = Held
  <2>1. /\ Held = [j \in Keys |-> Held[j]] /\ Held' = [j \in Keys |-> Held'[j]]
        /\ \A j \in Keys : Held'[j] = snap'[j] + Content(j, Unread(j))'
    BY DEF Held
  <2>2. \A j, C : Content(j, C)' = Content(j, C)
    BY <1>2, ProgramsSame
  <2>3. ASSUME NEW j \in Keys \ {k} PROVE Held'[j] = Held[j]
    <3>1. Place(j) # pos
      BY <1>1, Order
    <3>2. Unread(j)' = Unread(j)
      BY <1>2, <3>1 DEF Unread
    <3>3. Content(j, Unread(j))' = Content(j, Unread(j))
      BY <1>2, <3>2 DEF Content, Slots, Slot, programVars
    <3> QED
      BY <1>4, <2>1, <3>3, HeldOf
  <2>4. Held'[k] = Held[k]
    <3>1. Unread(k) = slots /\ Unread(k)' = slots \ {c}
      <4>1. Place(k)' = Place(k)
        BY DEF Place
      <4>2. ~(pos < Place(k)) /\ pos' = pos
        BY <1>1, <1>2
      <4> QED
        BY <1>1, <1>2, <4>1, <4>2 DEF Unread
    <3>2. Content(k, Unread(k))' = Content(k, slots \ {c})
      BY <3>1, <2>2 DEF Content
    <3>3. Content(k, slots) = Slot(c, k) + Content(k, slots \ {c})
      <4> DEFINE f == Slots(k)
      <4>1. IsFiniteSet(slots) /\ \A a \in slots : f[a] \in Int
        BY <1>1, SlotFacts, MetricsAssumption, FS_Subset DEF Typed
      <4> HIDE DEF f
      <4>2. SumFunctionOnSet(f, slots) = f[c] + SumFunctionOnSet(f, slots \ {c})
        BY <1>1, <4>1, SumRemove
      <4> QED
        BY <1>3, <4>2 DEF Content, f
    <3>4. Content(k, slots \ {c}) \in Int /\ snap[k] \in Int
      BY <1>1, ContentFacts DEF Typed
    <3>5. Held[k] = snap[k] + Content(k, slots)
      BY <1>1, <3>1, HeldOf
    <3>6. Held'[k] = (snap[k] + Slot(c, k)) + Content(k, slots \ {c})
      BY <1>1, <1>4, <2>1, <3>2
    <3> QED
      BY <1>3, <3>3, <3>4, <3>5, <3>6
  <2> QED
    BY <2>1, <2>3, <2>4
<1>8. CounterFirst'
  BY <1>2, <1>7, HeldSame DEF CounterFirst
<1>9. pos > 0 /\ pos' > 0
  BY <1>1, <1>2, BucketFacts
<1>10. \A b \in Bucket : Unread(b) = {} => Unread(b)' = {}
  BY <1>1, <1>2 DEF Unread, Place
<1> QED
  BY <1>2, <1>5, <1>6, <1>7, <1>8, <1>9, <1>10, ReadingStep

(* What has not been looked at is held as it is recorded. *)
LEMMA HeldUnread ==
  ASSUME Typed, Fresh, NEW k \in Keys, pos < Place(k)
  PROVE  Held[k] = Recorded[k]
<1>1. Held[k] = snap[k] + Content(k, Unread(k)) /\ Recorded[k] = Content(k, Cpus)
  BY HeldOf
<1>2. snap[k] = 0 /\ Unread(k) = Cpus /\ Recorded[k] \in Int
  BY HeldOf DEF Unread, Fresh
<1> QED
  BY <1>1, <1>2

(* While the counter is read, the histogram is as it is recorded, which is *)
(* no less than what is counted: a bucket is filled before it is counted.  *)
LEMMA CounterReadFirst ==
  ASSUME IInv, pos = 1
  PROVE  Held[CounterKey] <= Total(Held)
<1> Typed /\ Fresh /\ ProgramsExact /\ NothingInvented
  BY DEF IInv
<1> DEFINE F == Held
           R == Recorded
<1>1. ASSUME NEW b \in Bucket PROVE F[b] = R[b] /\ R[b] \in Int /\ F[b] \in Int
  <2>1. b \in Keys /\ Place(b) = b + 3 /\ b \in Nat
    BY BucketFacts, Order
  <2>2. pos < Place(b)
    BY <2>1
  <2> QED
    BY <2>1, <2>2, HeldUnread, HeldOf
<1>2. Total(Held) = SumFunctionOnSet(F, Bucket) /\ Total(Recorded) = SumFunctionOnSet(R, Bucket)
  BY DEF Total
<1> HIDE DEF F, R
<1>3. SumFunctionOnSet(F, Bucket) = SumFunctionOnSet(R, Bucket)
  BY <1>1, BucketFacts, SumSame
<1>4. Cardinality(half) \in Nat
  BY MetricsAssumption, FS_Subset, FS_CardinalityType DEF Typed
<1>5. Recorded[CounterKey] \in Int /\ Held[CounterKey] \in Int
  BY BucketFacts, HeldOf
<1>6. /\ Held[CounterKey] <= Recorded[CounterKey]
      /\ SumFunction(observed) = Recorded[CounterKey] + Cardinality(half)
      /\ SumFunction(observed) = Total(Recorded)
  BY DEF NothingInvented, ProgramsExact
<1>7. Recorded[CounterKey] <= Recorded[CounterKey] + Cardinality(half)
  BY <1>4, <1>5
<1>8. Total(Held) = Recorded[CounterKey] + Cardinality(half)
  BY <1>2, <1>3, <1>6
<1> QED
  BY <1>4, <1>5, <1>6, <1>7, <1>8

(* The next key, or the end. *)
LEMMA ReadNextKeyStep ==
  ASSUME IInv, ReadNextKey
  PROVE  IInv'
<1> Typed /\ Fresh /\ ProgramsExact /\ CounterFirst
  BY DEF IInv
<1>1. /\ pos \in 1..(Buckets + 2) /\ slots = {} /\ pos' = pos + 1
      /\ slots' = IF pos < Buckets + 2 THEN Cpus ELSE {}
      /\ UNCHANGED <<programVars, snap, floor, conns0, failed, scrapes, out>>
  BY Order DEF ReadNextKey
<1>2. pos' \in 2..(Buckets + 3) /\ (pos' = Buckets + 3 => slots' = {})
  BY <1>1, BucketFacts
<1>3. Typed'
  BY <1>1, <1>2 DEF Typed, programVars
<1>4. Fresh'
  <2>1. ASSUME NEW k \in Keys, pos' < Place(k) PROVE snap'[k] = 0
    <3>1. Place(k) \in 1..(Buckets + 2)
      BY Order
    <3>2. pos < Place(k)
      BY <1>1, <2>1, <3>1, BucketFacts
    <3> QED
      BY <1>1, <3>2 DEF Fresh
  <2>2. \A k : Place(k)' = Place(k)
    BY DEF Place
  <2>3. pos' # 0 /\ (pos' \in {0, Buckets + 3} => slots' = {})
    BY <1>2
  <2> QED
    BY <2>1, <2>2, <2>3 DEF Fresh
<1>5. Held' = Held
  <2>1. /\ DOMAIN Held = Keys /\ DOMAIN Held' = Keys
        /\ Held = [j \in Keys |-> Held[j]] /\ Held' = [j \in Keys |-> Held'[j]]
        /\ \A j \in Keys : Held'[j] = snap'[j] + Content(j, Unread(j))'
    BY DEF Held
  <2>2. ASSUME NEW j \in Keys PROVE Held'[j] = Held[j]
    <3>1. Place(j) \in 1..(Buckets + 2) /\ Place(j)' = Place(j)
      BY Order DEF Place
    <3>2. Unread(j)' = IF pos' < Place(j) THEN Cpus ELSE IF pos' = Place(j) THEN slots' ELSE {}
      BY <3>1 DEF Unread
    <3>3. CASE pos' < Place(j)
      <4>1. pos < Place(j)
        BY <1>1, <3>1, <3>3
      <4>2. Unread(j)' = Unread(j)
        BY <3>2, <3>3, <4>1 DEF Unread
      <4> QED
        BY <1>1, <2>1, <4>2, HeldOf, ProgramsSame DEF Content
    <3>4. CASE pos' = Place(j)
      <4>1. pos < Place(j) /\ pos < Buckets + 2 /\ ~(pos' < Place(j))
        BY <1>1, <1>2, <3>1, <3>4, BucketFacts
      <4>2. Unread(j)' = Unread(j)
        BY <1>1, <3>2, <3>4, <4>1 DEF Unread
      <4> QED
        BY <1>1, <2>1, <4>2, HeldOf, ProgramsSame DEF Content
    <3>5. CASE pos' > Place(j)
      <4>1. ~(pos < Place(j)) /\ ~(pos' < Place(j)) /\ pos' # Place(j)
        BY <1>1, <1>2, <3>1, <3>5
      <4>2. Unread(j)' = Unread(j)
        BY <1>1, <3>2, <4>1 DEF Unread
      <4> QED
        BY <1>1, <2>1, <4>2, HeldOf, ProgramsSame DEF Content
    <3> QED
      BY <1>2, <3>1, <3>3, <3>4, <3>5
  <2> QED
    BY <2>1, <2>2
<1>6. CounterFirst'
  <2> SUFFICES ASSUME failed = {} PROVE CounterFirst'
    BY <1>1 DEF CounterFirst
  <2>1. Held[CounterKey] <= Total(Held)
    <3>1. CASE pos = 1
      BY <3>1, CounterReadFirst
    <3>2. CASE pos > 1
      BY <3>2 DEF CounterFirst
    <3> QED
      BY <1>1, <3>1, <3>2
  <2> QED
    BY <1>5, <2>1, HeldSame DEF CounterFirst
<1>7. pos > 0 /\ pos' > 0
  BY <1>1, <1>2
<1>8. ASSUME NEW b \in Bucket, Unread(b) = {} PROVE Unread(b)' = {}
  <2>1. b \in Keys /\ Place(b) \in Int /\ Place(b)' = Place(b) /\ Cpus # {}
    BY MetricsAssumption, BucketFacts, Order DEF Place
  <2>2. ~(pos < Place(b))
    BY <1>8, <2>1 DEF Unread
  <2>3. ~(pos' < Place(b)) /\ pos' # Place(b)
    BY <1>1, <2>1, <2>2
  <2> QED
    BY <2>1, <2>3 DEF Unread
<1> QED
  BY <1>1, <1>3, <1>4, <1>5, <1>6, <1>7, <1>8, ReadingStep

(* What the begin and the end of a scrape leave to be read is everything. *)
LEMMA AllUnread ==
  ASSUME Typed, ProgramsExact, UNCHANGED programVars,
         \A k \in Keys : snap'[k] = 0 /\ Unread(k)' = Cpus
  PROVE  Held' = Recorded
<1>1. /\ DOMAIN Held' = Keys /\ Held' = [k \in Keys |-> Held'[k]]
      /\ \A k \in Keys : Held'[k] = snap'[k] + Content(k, Unread(k))'
      /\ DOMAIN Recorded = Keys /\ Recorded = [k \in Keys |-> Recorded[k]]
  BY DEF Held, Recorded
<1>2. ASSUME NEW k \in Keys PROVE Held'[k] = Recorded[k]
  <2>1. Content(k, Unread(k))' = Content(k, Cpus)
    <3>1. Slots(k)' = Slots(k)
      BY DEF programVars, Slots, Slot
    <3> QED
      BY <3>1 DEF Content
  <2>2. Recorded[k] = Content(k, Cpus) /\ Recorded[k] \in Int
    BY HeldOf
  <2> QED
    BY <1>1, <2>1, <2>2
<1> QED
  BY <1>1, <1>2

(* It confines the buckets anew. *)
LEMMA StartConfined ==
  ASSUME Typed, Confined, UNCHANGED observed, Recorded' = Recorded, Held' = Recorded,
         failed' = {}, pos' > 0 => floor' = observed
  PROVE  Confined'
<1>1. \A b : /\ InBucket(observed, b)' = InBucket(observed, b)
             /\ pos' > 0 => InBucket(floor, b)' = InBucket(observed, b)
  BY DEF InBucket
<1>2. \A b \in Bucket : Recorded[b] = InBucket(observed, b) /\ Recorded[b] \in Int
  BY BucketFacts, HeldOf DEF Confined
<1>3. ASSUME NEW b \in Bucket
      PROVE  /\ Recorded'[b] = InBucket(observed, b)' /\ Held'[b] <= Recorded'[b]
             /\ b \notin failed' /\ (pos' > 0 => Held'[b] >= InBucket(floor, b)')
  BY <1>1, <1>2
<1> QED
  BY <1>3 DEF Confined

(* Collect starts to read the maps. *)
LEMMA ScrapeBeginStep ==
  ASSUME IInv, ScrapeBegin
  PROVE  IInv'
<1> Typed /\ Fresh /\ ProgramsExact /\ NothingInvented /\ Grown /\ Confined
  BY DEF IInv
<1>1. /\ pos = 0 /\ pos' = 1 /\ slots' = Cpus /\ floor' = observed /\ conns0' = conns
      /\ UNCHANGED <<programVars, snap, failed, scrapes, out>>
  BY DEF ScrapeBegin
<1>2. Typed'
  BY <1>1, BucketFacts DEF Typed, programVars
<1>3. ASSUME NEW k \in Keys
      PROVE  /\ Place(k) \in 1..(Buckets + 2) /\ Place(k)' = Place(k)
             /\ pos < Place(k) /\ snap[k] = 0
  <2>1. Place(k) \in 1..(Buckets + 2)
    BY Order
  <2>2. Place(k)' = Place(k)
    BY DEF Place
  <2>3. pos < Place(k)
    BY <1>1, <2>1, BucketFacts
  <2> QED
    BY <2>1, <2>2, <2>3 DEF Fresh
<1>4. Fresh'
  BY <1>1, <1>3, BucketFacts DEF Fresh
<1>5. Held = Recorded
  BY <1>1, HeldBefore
<1>6. Held' = Held
  <2>1. \A k \in Keys : snap'[k] = 0 /\ Unread(k)' = Cpus
    BY <1>1, <1>3 DEF Unread
  <2>2. Held' = Recorded
    BY <1>1, <2>1, AllUnread
  <2> QED
    BY <1>5, <2>2
<1>7. /\ ProgramsExact' /\ Recorded' = Recorded
      /\ SumFunction(observed)' = SumFunction(observed)
      /\ \A n : AtMost(observed, n)' = AtMost(observed, n)
  BY <1>1, ProgramsSame
<1>8. /\ Total(Held)' = Total(Held) /\ Cumulative(Held)' = Cumulative(Held)
      /\ EstimatedSum(Held)' = EstimatedSum(Held)
  BY <1>6, HeldSame
<1>9. NothingInvented'
  BY <1>6, <1>7, <1>8 DEF NothingInvented
<1>10. NothingMissed'
  <2>1. /\ SumFunction(floor)' = SumFunction(observed)
        /\ \A n : AtMost(floor, n)' = AtMost(observed, n) /\ SumCapped(floor, n)' = SumCapped(observed, n)
    BY <1>1 DEF SumFunction, AtMost, SumCapped
  <2>2. /\ SumFunction(observed) = Total(Held)
        /\ EstimatedSum(Held) >= SumCapped(observed, 2^(Buckets - 1))
        /\ \A b \in 0..(Buckets - 2) : Cumulative(Held)[b] = AtMost(observed, 2^b)
    BY <1>5 DEF ProgramsExact
  <2>3. Total(Held)' >= SumFunction(floor)'
    BY <1>8, <2>1, <2>2, NumbersType
  <2>4. ASSUME NEW b \in 0..(Buckets - 2) PROVE Cumulative(Held)'[b] >= AtMost(floor, 2^b)'
    BY <1>8, <2>1, <2>2, NumbersType
  <2>5. EstimatedSum(Held)' >= SumCapped(floor, 2^(Buckets - 1))'
    BY <1>8, <2>1, <2>2
  <2> QED
    BY <2>3, <2>4, <2>5 DEF NothingMissed
<1>11. GaugeClose'
  <2>1. Held'[GaugeKey] = conns.entered - conns.left /\ conns' = conns
    BY <1>1, <1>5, <1>6 DEF ProgramsExact, programVars
  <2>2. conns.entered \in Nat /\ conns.left \in Nat
    BY DEF Typed, Moves
  <2> QED
    BY <1>1, <2>1, <2>2 DEF GaugeClose
<1>12. CounterFirst'
  BY <1>1 DEF CounterFirst
<1>13. Grown'
  BY <1>1, <1>6, <1>8 DEF Grown
<1>14. BucketsAreExact' /\ CounterWithinHistogram'
  BY <1>1 DEF IInv, BucketsAreExact, CounterWithinHistogram
<1>15. Confined'
  <2>1. failed' = {} /\ Held' = Recorded'
    BY <1>1, <1>5, <1>6, <1>7 DEF Fresh
  <2> QED
    BY <1>1, <1>5, <1>6, <1>7, <2>1, StartConfined DEF programVars
<1> QED
  BY <1>2, <1>4, <1>7, <1>9, <1>10, <1>11, <1>12, <1>13, <1>14, <1>15 DEF IInv

(* Both lookups of lookupPerCPU fail. *)
LEMMA LookupFailsStep ==
  ASSUME IInv, LookupFails
  PROVE  IInv'
<1> Typed /\ Fresh /\ ProgramsExact /\ NothingInvented /\ GaugeClose /\ Confined
  BY DEF IInv
<1>1. PICK k \in Keys : k = Key
  BY Order DEF LookupFails, Key
<1>2. /\ pos \in 1..(Buckets + 2) /\ Place(k) = pos
      /\ snap' = [snap EXCEPT ![k] = 0] /\ slots' = {} /\ failed' = failed \cup {k}
      /\ UNCHANGED <<programVars, pos, floor, conns0, scrapes, out>>
  BY <1>1, Order DEF LookupFails, Key
<1>3. /\ snap' \in [Keys -> Int] /\ snap'[k] = 0
      /\ \A j \in Keys \ {k} : snap'[j] = snap[j]
  BY <1>2 DEF Typed
<1>4. Typed'
  BY <1>2, <1>3 DEF Typed, programVars
<1>5. Fresh'
  <2>1. \A j : Place(j)' = Place(j)
    BY DEF Place
  <2>2. \A j \in Keys : pos < Place(j) => snap'[j] = 0
    BY <1>2, <1>3 DEF Fresh
  <2>3. pos' # 0
    BY <1>2
  <2> QED
    BY <1>2, <2>1, <2>2, <2>3 DEF Fresh
<1>6. /\ Recorded' = Recorded /\ ProgramsExact'
      /\ \A j, C : Content(j, C)' = Content(j, C)
      /\ SumFunction(observed)' = SumFunction(observed)
      /\ \A n : AtMost(observed, n)' = AtMost(observed, n)
  BY <1>2, ProgramsSame
<1>0. Unread(k)' = {} /\ \A j \in Keys \ {k} : Unread(j)' = Unread(j)
  <2>1. \A j \in Keys \ {k} : Place(j) # pos
    BY <1>2, Order
  <2>2. \A j : Place(j)' = Place(j)
    BY DEF Place
  <2>3. Unread(k)' = {}
    BY <1>2, <2>2 DEF Unread
  <2>4. ASSUME NEW j \in Keys \ {k} PROVE Unread(j)' = Unread(j)
    BY <1>2, <2>1, <2>2 DEF Unread
  <2> QED
    BY <2>3, <2>4
<1> DEFINE e == -Held[k]
<1>7. e \in Int /\ (k # GaugeKey => e <= 0)
  BY HeldOf
<1>8. /\ Held' \in [Keys -> Int] /\ DifferAt(Held, Held', Keys, k)
      /\ Held'[k] = 0 /\ Held'[k] = Held[k] + e
  <2>1. /\ DOMAIN Held' = Keys /\ Held' = [j \in Keys |-> Held'[j]]
        /\ \A j \in Keys : Held'[j] = snap'[j] + Content(j, Unread(j))'
    BY DEF Held
  <2>2. Held'[k] = 0
    <3>1. Content(k, Unread(k))' = 0
      <4>1. Slots(k)' = Slots(k)
        BY <1>2 DEF programVars, Slots, Slot
      <4> QED
        BY <1>0, <4>1, ContentFacts DEF Content
    <3> QED
      BY <1>3, <2>1, <3>1
  <2>3. ASSUME NEW j \in Keys \ {k} PROVE Held'[j] = Held[j]
    <3>1. Content(j, Unread(j))' = Content(j, Unread(j))
      <4>1. Unread(j)' = Unread(j)
        BY <1>0
      <4>2. Slots(j)' = Slots(j)
        BY <1>2 DEF Slots, Slot, programVars
      <4> QED
        BY <4>1, <4>2 DEF Content
    <3> QED
      BY <1>3, <2>1, <3>1, HeldOf
  <2>4. \A j \in Keys : Held[j] \in Int /\ Held'[j] \in Int
    BY <2>2, <2>3, HeldOf
  <2>5. Held' \in [Keys -> Int]
    BY <2>1, <2>4
  <2> QED
    BY <1>7, <2>2, <2>3, <2>4, <2>5 DEF DifferAt
<1>9. /\ Recorded' \in [Keys -> Int] /\ DifferAt(Recorded, Recorded', Keys, k)
      /\ Recorded'[k] = Recorded[k] + 0
  BY <1>6, HeldFacts, HeldOf DEF DifferAt
<1> HIDE DEF e
<1>10. /\ Total(Held)' = Total(Held) + (IF k \in Bucket THEN e ELSE 0)
       /\ \A b \in 0..(Buckets - 2) :
            Cumulative(Held)'[b] = Cumulative(Held)[b] + (IF k \in 0..b THEN e ELSE 0)
       /\ \A j \in Keys \ {k} : Held'[j] = Held[j]
  <2>1. 0 \in Int
    OBVIOUS
  <2> QED
    BY <1>7, <1>8, <1>9, <2>1, NumbersAdd
<1>11. (k \in Bucket => e <= 0) /\ \A b \in 0..(Buckets - 2) : k \in 0..b => e <= 0
  <2>1. GaugeKey \notin Bucket /\ \A b \in 0..(Buckets - 2) : GaugeKey \notin 0..b
    BY DEF GaugeKey, Bucket
  <2> QED
    BY <1>7, <2>1
<1>12. NothingInvented'
  <2>1. Held'[CounterKey] <= Recorded'[CounterKey]
    <3>1. CounterKey \in Keys /\ CounterKey # GaugeKey
      BY BucketFacts DEF CounterKey, GaugeKey
    <3>2. Recorded[CounterKey] >= 0
      BY <3>1, HeldOf, ContentFacts
    <3> QED
      BY <1>6, <1>8, <1>10, <3>1, <3>2 DEF NothingInvented
  <2>2. Total(Held)' <= SumFunction(observed)'
    BY <1>6, <1>7, <1>10, <1>11, NumbersType DEF NothingInvented
  <2>3. ASSUME NEW b \in 0..(Buckets - 2) PROVE Cumulative(Held)'[b] <= AtMost(observed, 2^b)'
    BY <1>6, <1>7, <1>10, <1>11, NumbersType DEF NothingInvented
  <2> QED
    BY <2>1, <2>2, <2>3 DEF NothingInvented
<1>13. NothingMissed' /\ CounterFirst' /\ Grown'
  BY <1>2 DEF NothingMissed, CounterFirst, Grown
<1>14. GaugeClose'
  <2> SUFFICES ASSUME pos > 0, GaugeKey # k, GaugeKey \notin failed PROVE GaugeClose'
    BY <1>2 DEF GaugeClose
  <2>1. Held'[GaugeKey] = Held[GaugeKey]
    BY <1>10, BucketFacts
  <2> QED
    BY <1>2, <2>1 DEF GaugeClose, programVars
<1>15. Confined'
  <2> SUFFICES ASSUME NEW b \in Bucket
               PROVE  /\ Recorded'[b] = InBucket(observed, b)'
                      /\ Held'[b] <= Recorded'[b]
                      /\ IF b \in failed' THEN Held'[b] = 0 /\ Unread(b)' = {}
                                          ELSE pos' > 0 => Held'[b] >= InBucket(floor, b)'
    BY DEF Confined
  <2>1. /\ Recorded[b] = InBucket(observed, b) /\ Held[b] <= Recorded[b]
        /\ IF b \in failed THEN Held[b] = 0 /\ Unread(b) = {}
                           ELSE pos > 0 => Held[b] >= InBucket(floor, b)
    BY DEF Confined
  <2>2. b \in Keys /\ InBucket(observed, b)' = InBucket(observed, b) /\ InBucket(floor, b)' = InBucket(floor, b)
    BY <1>2, BucketFacts DEF InBucket, programVars
  <2>3. CASE b = k
    <3>1. InBucket(observed, b) \in Nat
      BY ObservedType DEF Typed
    <3> QED
      BY <1>0, <1>2, <1>6, <1>8, <2>1, <2>2, <2>3, <3>1
  <2>4. CASE b # k
    BY <1>0, <1>2, <1>6, <1>10, <2>1, <2>2, <2>4
  <2> QED
    BY <2>3, <2>4
<1>16. BucketsAreExact' /\ CounterWithinHistogram'
  BY <1>2 DEF IInv, BucketsAreExact, CounterWithinHistogram
<1> QED
  BY <1>4, <1>5, <1>6, <1>12, <1>13, <1>14, <1>15, <1>16 DEF IInv

(* Collect emits what it has read and forgets it. *)
LEMMA CollectStep ==
  ASSUME IInv, Collect
  PROVE  IInv'
<1> /\ Typed /\ Fresh /\ ProgramsExact /\ NothingInvented /\ NothingMissed /\ CounterFirst
    /\ Confined
  BY DEF IInv
<1>1. /\ pos = Buckets + 3 /\ pos > 1 /\ pos' = 0
      /\ out' = Answer(snap) /\ scrapes' = scrapes + 1 /\ snap' = NothingRead
      /\ floor' = [v \in Samples |-> 0] /\ conns0' = NoConns /\ failed' = {}
      /\ UNCHANGED programVars /\ slots' = slots /\ slots = {}
  BY Order, BucketFacts DEF Collect, Fresh
<1>2. Held = snap
  BY <1>1, HeldAfter
<1>3. /\ out'.counter = Held[CounterKey] /\ out'.total = Total(Held)
      /\ out'.sum = EstimatedSum(Held) /\ out'.cumulative = Cumulative(Held)
      /\ out'.floor = floor /\ out'.ceiling = observed /\ out'.failed = (failed # {})
  BY <1>1, <1>2 DEF Answer
<1>0. ~out'.failed => failed = {}
  BY <1>3
<1>4. Held \in [Keys -> Int] /\ Held[CounterKey] \in Int
  BY HeldFacts, BucketFacts
<1>5. /\ Total(Held) \in Int /\ EstimatedSum(Held) \in Int
      /\ Cumulative(Held) \in [0..(Buckets - 2) -> Int]
  BY <1>4, HistType
<1>6. Typed'
  <2>1. snap' \in [Keys -> Int] /\ \A k \in Keys \ {GaugeKey} : snap'[k] >= 0
    BY <1>1 DEF NothingRead
  <2>2. floor' \in Counts /\ conns0' \in Moves /\ pos' \in 0..(Buckets + 3)
    BY <1>1, BucketFacts DEF Counts, Moves, NoConns
  <2>3. floor \in Counts /\ observed \in Counts /\ failed \in SUBSET Keys /\ scrapes' \in Nat
    BY <1>1 DEF Typed
  <2> QED
    BY <1>1, <1>3, <1>4, <1>5, <2>1, <2>2, <2>3 DEF Typed, programVars
<1>7. Fresh'
  BY <1>1 DEF Fresh, NothingRead
<1>8. /\ ProgramsExact' /\ Recorded' = Recorded
      /\ SumFunction(observed)' = SumFunction(observed)
      /\ \A n : AtMost(observed, n)' = AtMost(observed, n)
  BY <1>1, ProgramsSame
<1>9. Held' = Recorded
  <2>1. ASSUME NEW k \in Keys PROVE snap'[k] = 0 /\ Unread(k)' = Cpus
    <3>1. Place(k) \in 1..(Buckets + 2) /\ Place(k)' = Place(k)
      BY Order DEF Place
    <3>2. pos' < Place(k)
      BY <1>1, <3>1, BucketFacts
    <3> QED
      BY <1>1, <3>1, <3>2 DEF Unread, NothingRead
  <2> QED
    BY <1>1, <2>1, AllUnread
<1>10. /\ Total(Held)' = Total(Recorded) /\ Cumulative(Held)' = Cumulative(Recorded)
  BY <1>9 DEF Total, Cumulative
<1>11. NothingInvented'
  <2>1. Held'[CounterKey] <= Recorded'[CounterKey]
    BY <1>8, <1>9, HeldOf, BucketFacts
  <2>2. Total(Held)' <= SumFunction(observed)'
    BY <1>8, <1>10, NumbersType DEF ProgramsExact
  <2>3. ASSUME NEW b \in 0..(Buckets - 2) PROVE Cumulative(Held)'[b] <= AtMost(observed, 2^b)'
    BY <1>8, <1>10, NumbersType DEF ProgramsExact
  <2> QED
    BY <2>1, <2>2, <2>3 DEF NothingInvented
<1>12. NothingMissed' /\ GaugeClose' /\ CounterFirst'
  BY <1>1 DEF NothingMissed, GaugeClose, CounterFirst
<1>13. Grown'
  <2>1. out'.counter <= Held'[CounterKey]
    BY <1>3, <1>9 DEF NothingInvented
  <2>2. out'.total <= Total(Held)'
    BY <1>3, <1>10 DEF NothingInvented, ProgramsExact
  <2>3. ASSUME NEW b \in 0..(Buckets - 2) PROVE out'.cumulative[b] <= Cumulative(Held)'[b]
    BY <1>3, <1>10 DEF NothingInvented, ProgramsExact
  <2> QED
    BY <2>1, <2>2, <2>3 DEF Grown
<1>14. BucketsAreExact'
  <2>1. DOMAIN out'.cumulative = 0..(Buckets - 2)
    BY <1>3, <1>5
  <2>2. /\ \A n : AtMost(out.ceiling, n)' = AtMost(observed, n)
        /\ \A n : AtMost(out.floor, n)' = AtMost(floor, n)
        /\ \A n : SumCapped(out.floor, n)' = SumCapped(floor, n)
        /\ SumFunction(out.ceiling)' = SumFunction(observed)
        /\ SumFunction(out.floor)' = SumFunction(floor)
    BY <1>3 DEF AtMost, SumCapped, SumFunction
  <2>3. ASSUME NEW b \in 0..(Buckets - 2)
        PROVE  /\ out'.cumulative[b] <= AtMost(out.ceiling, 2^b)'
               /\ ~out'.failed => out'.cumulative[b] >= AtMost(out.floor, 2^b)'
    <3>1. /\ AtMost(out.ceiling, 2^b)' = AtMost(observed, 2^b)
          /\ AtMost(out.floor, 2^b)' = AtMost(floor, 2^b)
      BY <2>2
    <3>2. Cumulative(Held)[b] <= AtMost(observed, 2^b)
      BY <1>0 DEF NothingInvented
    <3>3. failed = {} => Cumulative(Held)[b] >= AtMost(floor, 2^b)
      BY <1>0, <1>1 DEF NothingMissed
    <3>4. out'.cumulative[b] = Cumulative(Held)[b] /\ (~out'.failed => failed = {})
      BY <1>3
    <3> QED
      BY <3>1, <3>2, <3>3, <3>4
  <2>4. out'.total <= SumFunction(out.ceiling)' /\ out'.counter <= SumFunction(out.ceiling)'
    <3>1. Recorded[CounterKey] <= SumFunction(observed)
      <4>1. Cardinality(half) \in Nat
        BY MetricsAssumption, FS_Subset, FS_CardinalityType DEF Typed
      <4>2. Recorded[CounterKey] \in Int
        BY BucketFacts, HeldOf
      <4> QED
        BY <4>1, <4>2 DEF ProgramsExact
    <3>2. Recorded[CounterKey] \in Int /\ SumFunction(observed) \in Int
      BY BucketFacts, HeldOf, NumbersType
    <3> QED
      BY <1>3, <1>4, <2>2, <3>1, <3>2 DEF NothingInvented
  <2>5. ~out'.failed => /\ out'.total >= SumFunction(out.floor)'
                        /\ out'.sum >= SumCapped(out.floor, 2^(Buckets - 1))'
    BY <1>0, <1>1, <1>3, <2>2 DEF NothingMissed
  <2> QED
    BY <2>1, <2>3, <2>4, <2>5 DEF BucketsAreExact
<1>15. CounterWithinHistogram'
  BY <1>1, <1>3 DEF CounterWithinHistogram, CounterFirst
<1>16. Confined'
  BY <1>1, <1>8, <1>9, StartConfined DEF programVars
<1> QED
  BY <1>6, <1>7, <1>8, <1>11, <1>12, <1>13, <1>14, <1>15, <1>16 DEF IInv

-----------------------------------------------------------------------------
(* The initial state, and the invariant.                                   *)

(* Nothing observed adds up to zero. *)
LEMMA ObservedZero ==
  ASSUME NEW F, F = [v \in Samples |-> 0]
  PROVE  /\ F \in Counts /\ SumFunction(F) = 0
         /\ \A n \in Nat : AtMost(F, n) = 0 /\ SumCapped(F, n) = 0
         /\ \A b : InBucket(F, b) = 0
<1>1. F \in Counts /\ DOMAIN F = Samples /\ \A v \in Samples : F[v] = 0
  BY DEF Counts
<1>2. ASSUME NEW S \in SUBSET Samples PROVE SumFunctionOnSet(F, S) = 0
  BY <1>1, MetricsAssumption, FS_Subset, SumOfZeros
<1>3. SumFunction(F) = 0
  BY <1>1, <1>2 DEF SumFunction
<1>4. ASSUME NEW n \in Nat PROVE AtMost(F, n) = 0 /\ SumCapped(F, n) = 0
  <2> DEFINE w == Weighed(F, n)
  <2>1. AtMost(F, n) = 0
    BY <1>2 DEF AtMost
  <2>2. SumCapped(F, n) = SumFunctionOnSet(w, Samples)
    BY DEF SumCapped, SumFunction, Weighed
  <2>3. \A v \in Samples : w[v] = 0
    <3>1. \A v \in Samples : Capped(v, n) \in Nat /\ w[v] = Capped(v, n) * 0
      BY <1>1, CappedType DEF Weighed
    <3> QED
      BY <3>1
  <2> HIDE DEF w
  <2> QED
    BY <2>1, <2>2, <2>3, MetricsAssumption, SumOfZeros
<1>5. ASSUME NEW b PROVE InBucket(F, b) = 0
  BY <1>2 DEF InBucket
<1> QED
  BY <1>1, <1>3, <1>4, <1>5

(* Empty buckets add up to zero. *)
LEMMA HistZero ==
  ASSUME NEW F \in [Keys -> Int], \A b \in Bucket : F[b] = 0
  PROVE  /\ Total(F) = 0 /\ EstimatedSum(F) = 0
         /\ \A b \in 0..(Buckets - 2) : Cumulative(F)[b] = 0
<1>1. Total(F) = 0
  BY BucketFacts, SumOfZeros DEF Total
<1>2. EstimatedSum(F) = 0
  <2> DEFINE w == [b \in Bucket |-> F[b] * Log2UpperBound(b)]
  <2>1. \A b \in Bucket : w[b] = 0
    <3>1. \A b \in Bucket : w[b] = 0 * 2^b /\ 2^b \in Nat
      BY BucketFacts, Powers DEF Log2UpperBound
    <3> QED
      BY <3>1
  <2>2. DOMAIN w = Bucket
    OBVIOUS
  <2>3. EstimatedSum(F) = SumFunctionOnSet(w, Bucket)
    BY <2>2 DEF EstimatedSum, SumFunction
  <2> HIDE DEF w
  <2> QED
    BY <2>1, <2>3, BucketFacts, SumOfZeros
<1>3. ASSUME NEW b \in 0..(Buckets - 2) PROVE Cumulative(F)[b] = 0
  <2>1. IsFiniteSet(0..b) /\ \A i \in 0..b : F[i] = 0
    BY BucketFacts
  <2>2. SumFunctionOnSet(F, 0..b) = 0
    BY <2>1, SumOfZeros
  <2> QED
    BY <2>2 DEF Cumulative
<1> QED
  BY <1>1, <1>2, <1>3

(* The programs are attached to empty maps, and nothing is answered yet. *)
LEMMA InitStep ==
  ASSUME Init
  PROVE  IInv
<1>1. /\ observed = [v \in Samples |-> 0] /\ half = {} /\ conns = NoConns
      /\ pos = 0 /\ slots = {} /\ snap = NothingRead /\ conns0 = NoConns /\ failed = {}
      /\ floor = [v \in Samples |-> 0] /\ scrapes = 0 /\ failed \in SUBSET Keys
      /\ out.counter = 0 /\ out.total = 0 /\ out.sum = 0 /\ ~out.failed
      /\ out.cumulative = [b \in 0..(Buckets - 2) |-> 0]
      /\ out.floor = [v \in Samples |-> 0] /\ out.ceiling = [v \in Samples |-> 0]
      /\ out.failed \in BOOLEAN
  BY DEF Init
<1>2. /\ observed \in Counts /\ floor \in Counts
      /\ out.floor \in Counts /\ out.ceiling \in Counts
      /\ SumFunction(observed) = 0
      /\ SumFunction(out.floor) = 0 /\ SumFunction(out.ceiling) = 0
      /\ \A n \in Nat : /\ AtMost(observed, n) = 0 /\ SumCapped(observed, n) = 0
                        /\ AtMost(out.floor, n) = 0 /\ SumCapped(out.floor, n) = 0
                        /\ AtMost(out.ceiling, n) = 0
      /\ \A b : InBucket(observed, b) = 0
  BY <1>1, ObservedZero
<1>3. \A b \in 0..(Buckets - 2) : 2^b \in Nat
  BY BucketFacts, Powers
<1>4. 2^(Buckets - 1) \in Nat
  <2>1. Buckets - 1 \in Nat
    BY BucketFacts
  <2> QED
    BY <2>1, Powers
<1>5. Typed
  <2>1. snap \in [Keys -> Int] /\ \A k \in Keys \ {GaugeKey} : snap[k] >= 0
    BY <1>1 DEF NothingRead
  <2>2. /\ hist \in [Cpus -> [Bucket -> Nat]] /\ count \in [Cpus -> Nat]
        /\ delta \in [Cpus -> Int]
    BY DEF Init
  <2>3. conns \in Moves /\ conns0 \in Moves /\ pos \in 0..(Buckets + 3)
    BY <1>1, BucketFacts DEF Moves, NoConns
  <2>4. /\ out.counter \in Int /\ out.total \in Int /\ out.sum \in Int
        /\ out.cumulative \in [0..(Buckets - 2) -> Int]
    BY <1>1
  <2> QED
    BY <1>1, <1>2, <2>1, <2>2, <2>3, <2>4 DEF Typed
<1>6. Fresh
  BY <1>1 DEF Fresh, NothingRead
<1>7. Held = Recorded
  BY <1>1, <1>5, <1>6, HeldBefore
<1>8. ASSUME NEW k \in Keys PROVE Recorded[k] = 0
  <2> DEFINE f == Slots(k)
  <2>1. \A c \in Cpus : f[c] = 0
    <3>1. ASSUME NEW c \in Cpus PROVE Slot(c, k) = 0
      <4>1. k = CounterKey \/ k = GaugeKey \/ k \in Bucket
        BY DEF Keys
      <4> QED
        BY <4>1, BucketFacts DEF Slot, Init
    <3> QED
      BY <3>1 DEF Slots
  <2>2. Recorded[k] = SumFunctionOnSet(f, Cpus)
    BY DEF Recorded, Content
  <2> HIDE DEF f
  <2> QED
    BY <2>1, <2>2, MetricsAssumption, SumOfZeros
<1>9. /\ Total(Recorded) = 0 /\ EstimatedSum(Recorded) = 0
      /\ \A b \in 0..(Buckets - 2) : Cumulative(Recorded)[b] = 0
  <2> DEFINE R == Recorded
  <2>1. R \in [Keys -> Int] /\ \A b \in Bucket : R[b] = 0
    BY <1>5, <1>8, HeldFacts, BucketFacts
  <2> HIDE DEF R
  <2>2. Total(R) = 0 /\ EstimatedSum(R) = 0 /\ \A b \in 0..(Buckets - 2) : Cumulative(R)[b] = 0
    BY <2>1, HistZero
  <2> QED
    BY <2>2 DEF R
<1>10. Recorded[CounterKey] = 0 /\ Recorded[GaugeKey] = 0
  BY <1>8, BucketFacts
<1>11. ProgramsExact
  <2>1. Cardinality(half) = 0
    BY <1>1, FS_EmptySet
  <2>2. conns.entered = 0 /\ conns.left = 0
    BY <1>1 DEF NoConns
  <2> QED
    BY <1>2, <1>3, <1>4, <1>9, <1>10, <2>1, <2>2 DEF ProgramsExact
<1>12. NothingInvented
  BY <1>2, <1>3, <1>7, <1>9, <1>10 DEF NothingInvented
<1>13. NothingMissed /\ GaugeClose /\ CounterFirst
  BY <1>1 DEF NothingMissed, GaugeClose, CounterFirst
<1>14. Grown
  BY <1>1, <1>7, <1>9, <1>10 DEF Grown
<1>15. BucketsAreExact /\ CounterWithinHistogram
  <2>1. Capped(0, 2^(Buckets - 1)) = 0
    BY <1>4 DEF Capped
  <2> QED
    BY <1>1, <1>2, <1>3, <1>4 DEF BucketsAreExact, CounterWithinHistogram
<1>16. Confined
  BY <1>1, <1>2, <1>7, <1>8, BucketFacts DEF Confined
<1> QED
  BY <1>5, <1>6, <1>11, <1>12, <1>13, <1>14, <1>15, <1>16 DEF IInv

(* Every step keeps the invariant. *)
LEMMA NextStep ==
  ASSUME IInv, [Next]_vars
  PROVE  IInv'
<1>1. ASSUME NEW c \in Cpus, NEW v \in Samples, IncHist(c, v) PROVE IInv'
  BY <1>1, IncHistStep
<1>2. ASSUME NEW c \in Cpus, IncCounter(c) PROVE IInv'
  BY <1>2, IncCounterStep
<1>3. ASSUME NEW c \in Cpus, Enter(c) \/ Leave(c) PROVE IInv'
  BY <1>3, MoveStep
<1>4. ASSUME NEW c \in Cpus, ReadSlot(c) PROVE IInv'
  BY <1>4, ReadSlotStep
<1>5. CASE ScrapeBegin
  BY <1>5, ScrapeBeginStep
<1>6. CASE ReadNextKey
  BY <1>6, ReadNextKeyStep
<1>7. CASE LookupFails
  BY <1>7, LookupFailsStep
<1>8. CASE Collect
  BY <1>8, CollectStep
<1>9. CASE UNCHANGED vars
  <2> /\ Typed /\ Fresh /\ ProgramsExact /\ NothingInvented /\ NothingMissed
      /\ GaugeClose /\ CounterFirst /\ Grown /\ Confined
    BY DEF IInv
  <2>1. UNCHANGED <<programVars, pos, slots, snap, floor, conns0, failed, scrapes, out>>
    BY <1>9 DEF vars, scrapeVars
  <2>2. /\ ProgramsExact' /\ Recorded' = Recorded
        /\ SumFunction(observed)' = SumFunction(observed)
        /\ \A n : AtMost(observed, n)' = AtMost(observed, n)
    BY <2>1, ProgramsSame
  <2>3. Typed' /\ Fresh'
    <3>1. Typed'
      BY <2>1 DEF Typed, programVars
    <3>2. \A k : Place(k)' = Place(k)
      BY DEF Place
    <3> QED
      BY <2>1, <3>1, <3>2 DEF Fresh
  <2>4. Held' = Held
    <3>1. \A k : Unread(k)' = Unread(k) /\ Slots(k)' = Slots(k)
      BY <2>1 DEF Unread, Place, Slots, Slot, programVars
    <3>2. \A k : Content(k, Unread(k))' = Content(k, Unread(k))
      BY <3>1 DEF Content
    <3> QED
      BY <2>1, <3>2 DEF Held
  <2>5. /\ Total(Held)' = Total(Held) /\ Cumulative(Held)' = Cumulative(Held)
        /\ EstimatedSum(Held)' = EstimatedSum(Held)
    BY <2>4, HeldSame
  <2>6. /\ SumFunction(floor)' = SumFunction(floor)
        /\ \A n : AtMost(floor, n)' = AtMost(floor, n) /\ SumCapped(floor, n)' = SumCapped(floor, n)
    BY <2>1 DEF SumFunction, AtMost, SumCapped
  <2>7. NothingInvented' /\ NothingMissed' /\ GaugeClose' /\ CounterFirst' /\ Grown'
    BY <2>1, <2>2, <2>4, <2>5, <2>6
    DEF NothingInvented, NothingMissed, GaugeClose, CounterFirst, Grown, programVars
  <2>8. BucketsAreExact' /\ CounterWithinHistogram'
    BY <2>1 DEF IInv, BucketsAreExact, CounterWithinHistogram
  <2>9. Confined'
    <3>1. \A b : Unread(b)' = Unread(b)
      BY <2>1 DEF Unread, Place
    <3> QED
      BY <2>1, <2>2, <2>4, <3>1, ConfinedSame DEF programVars
  <2> QED
    BY <2>2, <2>3, <2>7, <2>8, <2>9 DEF IInv
<1> QED
  BY <1>1, <1>2, <1>3, <1>4, <1>5, <1>6, <1>7, <1>8, <1>9 DEF Next

-----------------------------------------------------------------------------
(* What follows.                                                           *)

(* The invariant holds in every reachable state. *)
THEOREM Invariance == Spec => []IInv
<1>1. Init => IInv
  BY InitStep
<1>2. IInv /\ [Next]_vars => IInv'
  BY NextStep
<1> QED
  BY <1>1, <1>2, PTL DEF Spec

(* All variables keep their types: whatever a scrape has read of a counter *)
(* or of a bucket is not negative, and what it answers are numbers.        *)
THEOREM TypeCorrect == Spec => []Typed
<1>1. IInv => Typed
  BY DEF IInv
<1> QED
  BY <1>1, Invariance, PTL

(* A cumulative bucket counts the samples of at most its bound that were   *)
(* recorded before the scrape, and perhaps some recorded during it; with a *)
(* failed lookup it may miss samples, but invents none (nd_log2_bucket,    *)
(* lookupPerCPU, emitLog2Histogram).                                       *)
THEOREM BucketsExact == Spec => []BucketsAreExact
<1>1. IInv => BucketsAreExact
  BY DEF IInv
<1> QED
  BY <1>1, Invariance, PTL

(* A failed lookup costs an answer its own bucket and no other: a bucket   *)
(* that was read has all the samples of its range there were before the    *)
(* scrape, and none that never were, whatever else fails (lookupPerCPU,    *)
(* readHist).                                                              *)
THEOREM FailureConfined == Spec => []FailureIsConfined
<1>1. ASSUME IInv, pos = Len(ReadOrder) + 1, NEW b \in Bucket
      PROVE  IF b \in failed THEN snap[b] = 0
                             ELSE snap[b] \in InBucket(floor, b)..InBucket(observed, b)
  <2>1. Typed /\ Confined
    BY <1>1 DEF IInv
  <2>2. pos = Buckets + 3 /\ pos > 0
    BY <1>1, Order, BucketFacts
  <2>3. Held = snap
    BY <2>1, <2>2, HeldAfter
  <2>4. InBucket(floor, b) \in Nat /\ InBucket(observed, b) \in Nat
    BY <2>1, ObservedType DEF Typed
  <2>5. snap[b] \in Int
    BY <2>1, BucketFacts DEF Typed
  <2> QED
    BY <2>1, <2>2, <2>3, <2>4, <2>5 DEF Confined
<1>2. IInv => FailureIsConfined
  BY <1>1 DEF FailureIsConfined
<1> QED
  BY <1>2, Invariance, PTL

(* The counter next to a histogram never shows more samples than it holds, *)
(* as the bucket is filled before the counter and read after it.           *)
THEOREM CounterWithin == Spec => []CounterWithinHistogram
<1>1. IInv => CounterWithinHistogram
  BY DEF IInv
<1> QED
  BY <1>1, Invariance, PTL

(* A gauge read CPU by CPU is off by no more than the connections that     *)
(* entered the state or left it during the scrape (sumTCPState).           *)
THEOREM GaugeWithin == Spec => []GaugeWithinMoves
<1>1. ASSUME IInv, pos = Len(ReadOrder) + 1, GaugeKey \notin failed
      PROVE  snap[GaugeKey] \in (conns0.entered - conns.left)..(conns.entered - conns0.left)
  <2>1. Typed /\ GaugeClose
    BY <1>1 DEF IInv
  <2>2. pos = Buckets + 3 /\ pos > 0
    BY <1>1, Order, BucketFacts
  <2>3. Held = snap
    BY <2>1, <2>2, HeldAfter
  <2> QED
    BY <1>1, <2>1, <2>2, <2>3 DEF GaugeClose
<1>2. IInv => GaugeWithinMoves
  BY <1>1 DEF GaugeWithinMoves
<1> QED
  BY <1>2, Invariance, PTL

(* No counter and no bucket goes down from one scrape to the next, unless  *)
(* a lookup fails: what is held of each never falls below the last answer. *)
THEOREM NeverDown == Spec => NeverGoesDown
<1> DEFINE Up == /\ out'.counter >= out.counter
                 /\ out'.total >= out.total
                 /\ \A b \in DOMAIN out.cumulative : out'.cumulative[b] >= out.cumulative[b]
<1>1. ASSUME IInv, Collect, ~out'.failed PROVE Up
  <2>1. Typed /\ Grown
    BY <1>1 DEF IInv
  <2>2. pos = Buckets + 3 /\ out' = Answer(snap)
    BY <1>1, Order, BucketFacts DEF Collect
  <2>3. Held = snap
    BY <2>1, <2>2, HeldAfter
  <2>4. /\ out'.counter = Held[CounterKey] /\ out'.total = Total(Held)
        /\ out'.cumulative = Cumulative(Held) /\ out'.failed = (failed # {})
    BY <2>2, <2>3 DEF Answer
  <2>5. /\ out.counter <= Held[CounterKey] /\ out.total <= Total(Held)
        /\ \A b \in 0..(Buckets - 2) : out.cumulative[b] <= Cumulative(Held)[b]
    BY <1>1, <2>1, <2>4 DEF Grown
  <2>6. /\ out.counter \in Int /\ out.total \in Int
        /\ Held[CounterKey] \in Int /\ Total(Held) \in Int
        /\ DOMAIN out.cumulative = 0..(Buckets - 2)
        /\ \A b \in 0..(Buckets - 2) : out.cumulative[b] \in Int /\ Cumulative(Held)[b] \in Int
    BY <2>1, HeldOf, NumbersType, BucketFacts DEF Typed
  <2> QED
    BY <2>4, <2>5, <2>6
<1>2. ASSUME [Next]_vars, ~Collect PROVE out' = out
  BY <1>2 DEF Next, IncHist, IncCounter, Enter, Leave, ScrapeBegin, ReadSlot, ReadNextKey,
       LookupFails, vars, scrapeVars
<1> HIDE DEF Up
<1>3. IInv /\ [Next]_vars => [~out.failed /\ ~out'.failed => Up]_out
  BY <1>1, <1>2
<1>4. Spec => [][~out.failed /\ ~out'.failed => Up]_out
  BY <1>3, Invariance, PTL DEF Spec
<1> QED
  BY <1>4 DEF NeverGoesDown, Up
=============================================================================
