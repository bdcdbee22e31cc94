-------------------------- MODULE EventPipeProofs --------------------------
(***************************************************************************)
(* What EventPipe guarantees for any number of CPUs and anomalies, any     *)
(* size of the ring and any errors of ReadEvent, and that it implements    *)
(* the safety part of AnomalyLog.                                          *)
(*                                                                         *)
(* The account of the records (EveryRecordAccounted) is kept by every step *)
(* once it is known that the worker has a record in hand exactly while it  *)
(* is about to log it (HandIsLog) and that no number is used twice         *)
(* (Numbered).                                                             *)
(***************************************************************************)
EXTENDS EventPipe, SequenceTheorems, TLAPS

-----------------------------------------------------------------------------
(* The inductive invariant.                                                *)

(* The log continued by what is on its way. *)
Seen == logged \o OnTheWay

HandIsLog == evt # 0 <=> worker = "log"

(* Anomalies are numbered as they are reported. *)
Numbered ==
  /\ accepted \subseteq 1..events
  /\ \A c \in Cpus : cpu[c] <= events

IInv ==
  /\ TypeOK
  /\ HandIsLog
  /\ Numbered
  /\ EveryRecordAccounted

-----------------------------------------------------------------------------
(* Sequences of records.                                                   *)

(* A sequence with one more element in front. *)
LEMMA ConcatOne ==
  ASSUME NEW S, NEW x \in S, NEW s \in Seq(S)
  PROVE  /\ <<x>> \o s \in Seq(S)
         /\ Len(<<x>> \o s) = Len(s) + 1
         /\ (<<x>> \o s)[1] = x
         /\ \A i \in 1..Len(s) : (<<x>> \o s)[i + 1] = s[i]
<1> DEFINE h == <<x>>
<1>1. h \in Seq(S) /\ Len(h) = 1 /\ h[1] = x /\ Len(s) \in Nat
  BY LenProperties
<1> HIDE DEF h
<1>2. /\ h \o s \in Seq(S)
      /\ Len(h \o s) = Len(h) + Len(s)
      /\ \A i \in 1..(Len(h) + Len(s)) :
           (h \o s)[i] = IF i <= Len(h) THEN h[i] ELSE s[i - Len(h)]
  BY <1>1, ConcatProperties
<1>3. /\ h \o s \in Seq(S)
      /\ Len(h \o s) = Len(s) + 1
      /\ (h \o s)[1] = x
      /\ \A i \in 1..Len(s) : (h \o s)[i + 1] = s[i]
  BY <1>1, <1>2
<1> QED
  BY <1>3 DEF h

(* The numbers of the records in the ring are a sequence of its length. *)
LEMMA NumbersType ==
  ASSUME NEW r \in Seq(Record)
  PROVE  /\ Numbers(r) \in Seq(1..MaxEvents)
         /\ Len(Numbers(r)) = Len(r)
         /\ \A i \in 1..Len(r) : Numbers(r)[i] = r[i].id
<1>1. DOMAIN r = 1..Len(r) /\ Len(r) \in Nat
  BY LenProperties
<1>2. ASSUME NEW i \in 1..Len(r) PROVE r[i].id \in 1..MaxEvents
  <2>1. r[i] \in Record
    BY ElementOfSeq
  <2> QED
    BY <2>1 DEF Record
<1> QED
  BY <1>1, <1>2 DEF Numbers

(* bpf_ringbuf_reserve appends a number. *)
LEMMA NumbersAppend ==
  ASSUME NEW r \in Seq(Record), NEW e \in Record
  PROVE  Numbers(Append(r, e)) = Append(Numbers(r), e.id)
<1>1. Append(r, e) \in Seq(Record) /\ Len(Append(r, e)) = Len(r) + 1
  BY AppendProperties
<1>2. /\ Numbers(r) \in Seq(1..MaxEvents) /\ Len(Numbers(r)) = Len(r)
      /\ \A i \in 1..Len(r) : Numbers(r)[i] = r[i].id
      /\ Numbers(Append(r, e)) \in Seq(1..MaxEvents)
      /\ Len(Numbers(Append(r, e))) = Len(r) + 1
      /\ \A i \in 1..(Len(r) + 1) : Numbers(Append(r, e))[i] = Append(r, e)[i].id
  BY <1>1, NumbersType
<1>3. e.id \in 1..MaxEvents
  BY DEF Record
<1>4. Append(Numbers(r), e.id) \in Seq(1..MaxEvents)
  BY <1>2, <1>3, AppendProperties
<1>5. Len(Append(Numbers(r), e.id)) = Len(r) + 1
  BY <1>2, <1>3, AppendProperties
<1>6. ASSUME NEW i \in 1..(Len(r) + 1)
      PROVE  Numbers(Append(r, e))[i] = Append(Numbers(r), e.id)[i]
  BY <1>2, <1>3, AppendProperties, LenProperties
<1> QED
  BY <1>2, <1>4, <1>5, <1>6, SeqEqual

(* Reading the ring takes away its first number. *)
LEMMA NumbersHeadTail ==
  ASSUME NEW r \in Seq(Record), r # <<>>
  PROVE  /\ Head(r).id \in 1..MaxEvents
         /\ Tail(r) \in Seq(Record) /\ Len(Tail(r)) = Len(r) - 1
         /\ Numbers(r) = <<Head(r).id>> \o Numbers(Tail(r))
         /\ Numbers(r) # <<>>
         /\ Head(Numbers(r)) = Head(r).id
         /\ Tail(Numbers(r)) = Numbers(Tail(r))
<1>1. /\ Head(r) \in Record /\ Tail(r) \in Seq(Record) /\ Len(Tail(r)) = Len(r) - 1
      /\ \A i \in 1..Len(Tail(r)) : Tail(r)[i] = r[i + 1]
      /\ Len(r) \in Nat \ {0} /\ Head(r) = r[1]
  BY HeadTailProperties, EmptySeq
<1>2. /\ Numbers(r) \in Seq(1..MaxEvents) /\ Len(Numbers(r)) = Len(r)
      /\ \A i \in 1..Len(r) : Numbers(r)[i] = r[i].id
      /\ Numbers(Tail(r)) \in Seq(1..MaxEvents)
      /\ Len(Numbers(Tail(r))) = Len(r) - 1
      /\ \A i \in 1..(Len(r) - 1) : Numbers(Tail(r))[i] = Tail(r)[i].id
  BY <1>1, NumbersType
<1>3. Head(r).id \in 1..MaxEvents
  BY <1>1 DEF Record
<1> DEFINE t == <<Head(r).id>> \o Numbers(Tail(r))
<1>5. /\ t \in Seq(1..MaxEvents) /\ Len(t) = (Len(r) - 1) + 1
      /\ t[1] = Head(r).id
      /\ \A i \in 1..(Len(r) - 1) : t[i + 1] = Numbers(Tail(r))[i]
  BY <1>2, <1>3, ConcatOne
<1>6. ASSUME NEW i \in 1..Len(r) PROVE Numbers(r)[i] = t[i]
  <2>1. CASE i = 1
    BY <1>1, <1>2, <1>5, <2>1
  <2>2. CASE i # 1
    <3>1. PICK j \in 1..(Len(r) - 1) : i = j + 1
      <4>1. i - 1 \in 1..(Len(r) - 1) /\ i = (i - 1) + 1
        BY <1>1, <2>2
      <4> QED
        BY <4>1
    <3>2. t[i] = Tail(r)[j].id /\ Tail(r)[j] = r[i]
      BY <1>1, <1>2, <1>5, <3>1
    <3> QED
      BY <1>2, <3>2
  <2> QED
    BY <2>1, <2>2
<1>7. Numbers(r) = t
  <2> HIDE DEF t
  <2> QED
    BY <1>1, <1>2, <1>5, <1>6, SeqEqual
<1>8. Numbers(r) # <<>> /\ Head(Numbers(r)) = Head(r).id
  BY <1>1, <1>2
<1>9. Tail(Numbers(r)) = Numbers(Tail(r))
  <2>1. /\ Tail(Numbers(r)) \in Seq(1..MaxEvents)
        /\ Len(Tail(Numbers(r))) = Len(r) - 1
        /\ \A i \in 1..(Len(r) - 1) : Tail(Numbers(r))[i] = Numbers(r)[i + 1]
    BY <1>2, <1>8, HeadTailProperties
  <2>2. ASSUME NEW i \in 1..(Len(r) - 1)
        PROVE  Tail(Numbers(r))[i] = Numbers(Tail(r))[i]
    <3>1. i + 1 \in 1..Len(r)
      BY <1>1
    <3> QED
      BY <1>1, <1>2, <2>1, <3>1
  <2> QED
    BY <1>2, <2>1, <2>2, SeqEqual
<1> QED
  BY <1>1, <1>3, <1>7, <1>8, <1>9

-----------------------------------------------------------------------------
(* Log and queue.                                                          *)

Ordered(s) == \A i, j \in DOMAIN s : i < j => s[i] < s[j]

(* Appending to the second of two sequences appends to both together. *)
LEMMA AppendMove ==
  ASSUME NEW S, NEW s \in Seq(S), NEW t \in Seq(S), NEW x \in S
  PROVE  s \o Append(t, x) = Append(s \o t, x)
<1>1. <<x>> \in Seq(S)
  OBVIOUS
<1>2. Append(t, x) = t \o <<x>> /\ s \o t \in Seq(S)
  BY AppendIsConcat, ConcatProperties
<1>3. Append(s \o t, x) = (s \o t) \o <<x>>
  BY <1>2, AppendIsConcat
<1> QED
  BY <1>1, <1>2, <1>3, ConcatAssociative

(* Moving the first element of the queue to the log changes nothing about  *)
(* both together.                                                          *)
LEMMA LogMove ==
  ASSUME NEW S, NEW s \in Seq(S), NEW t \in Seq(S), t # <<>>
  PROVE  Append(s, Head(t)) \o Tail(t) = s \o t
<1>1. /\ Head(t) \in S /\ Tail(t) \in Seq(S) /\ Len(Tail(t)) = Len(t) - 1
      /\ \A i \in 1..Len(Tail(t)) : Tail(t)[i] = t[i + 1]
      /\ Len(t) \in Nat \ {0} /\ Head(t) = t[1] /\ Len(s) \in Nat
  BY HeadTailProperties, EmptySeq, LenProperties
<1> DEFINE a == Append(s, Head(t))
<1>2. /\ a \in Seq(S) /\ Len(a) = Len(s) + 1 /\ a[Len(s) + 1] = Head(t)
      /\ \A i \in 1..Len(s) : a[i] = s[i]
  BY <1>1, AppendProperties
<1> HIDE DEF a
<1>3. /\ a \o Tail(t) \in Seq(S) /\ Len(a \o Tail(t)) = Len(s) + Len(t)
      /\ \A i \in 1..(Len(s) + Len(t)) :
           (a \o Tail(t))[i] = IF i <= Len(s) + 1 THEN a[i] ELSE Tail(t)[i - (Len(s) + 1)]
  <2>1. /\ a \o Tail(t) \in Seq(S) /\ Len(a \o Tail(t)) = Len(a) + Len(Tail(t))
        /\ \A i \in 1..(Len(a) + Len(Tail(t))) :
             (a \o Tail(t))[i] = IF i <= Len(a) THEN a[i] ELSE Tail(t)[i - Len(a)]
    BY <1>1, <1>2, ConcatProperties
  <2> QED
    BY <1>1, <1>2, <2>1
<1>4. /\ s \o t \in Seq(S) /\ Len(s \o t) = Len(s) + Len(t)
      /\ \A i \in 1..(Len(s) + Len(t)) :
           (s \o t)[i] = IF i <= Len(s) THEN s[i] ELSE t[i - Len(s)]
  BY ConcatProperties
<1>5. ASSUME NEW i \in 1..(Len(s) + Len(t)) PROVE (a \o Tail(t))[i] = (s \o t)[i]
  <2>1. CASE i <= Len(s)
    BY <1>1, <1>2, <1>3, <1>4, <2>1
  <2>2. CASE i = Len(s) + 1
    <3>1. i - Len(s) = 1 /\ ~(i <= Len(s))
      BY <1>1, <2>2
    <3> QED
      BY <1>1, <1>2, <1>3, <1>4, <2>2, <3>1
  <2>3. CASE i > Len(s) + 1
    <3> DEFINE j == i - (Len(s) + 1)
    <3>1. j \in 1..Len(Tail(t)) /\ j + 1 = i - Len(s)
      BY <1>1, <2>3
    <3>2. Tail(t)[j] = t[i - Len(s)]
      BY <1>1, <3>1
    <3> QED
      BY <1>1, <1>3, <1>4, <2>3, <3>2
  <2>4. Len(s) \in Nat /\ i \in Int
    BY <1>1
  <2>5. i <= Len(s) \/ i = Len(s) + 1 \/ i > Len(s) + 1
    BY <2>4
  <2> QED
    BY <2>1, <2>2, <2>3, <2>5
<1>6. a \o Tail(t) = s \o t
  BY <1>3, <1>4, <1>5, SeqEqual
<1> QED
  BY <1>6 DEF a

(* A new, larger number keeps a sequence ordered. *)
LEMMA AppendOrdered ==
  ASSUME NEW s \in Seq(Nat), NEW x \in Nat, Ordered(s), \A i \in DOMAIN s : s[i] < x
  PROVE  Ordered(Append(s, x)) /\ Range(Append(s, x)) = Range(s) \cup {x}
<1>1. /\ Append(s, x) \in Seq(Nat) /\ Len(Append(s, x)) = Len(s) + 1 /\ Len(s) \in Nat
      /\ \A i \in 1..Len(s) : Append(s, x)[i] = s[i]
      /\ Append(s, x)[Len(s) + 1] = x
      /\ DOMAIN s = 1..Len(s) /\ DOMAIN Append(s, x) = 1..(Len(s) + 1)
  BY AppendProperties, LenProperties
<1>2. Ordered(Append(s, x))
  BY <1>1 DEF Ordered
<1>3. Range(Append(s, x)) = Range(s) \cup {x}
  BY <1>1 DEF Range
<1> QED
  BY <1>2, <1>3

(* Taking out the first element of the queue keeps both together ordered   *)
(* and removes that number and no other.                                   *)
LEMMA SkipMove ==
  ASSUME NEW s \in Seq(Nat), NEW t \in Seq(Nat), t # <<>>, Ordered(s \o t)
  PROVE  /\ Ordered(s \o Tail(t))
         /\ Range(s \o Tail(t)) = Range(s \o t) \ {Head(t)}
<1>1. /\ Tail(t) \in Seq(Nat) /\ Len(Tail(t)) = Len(t) - 1
      /\ \A i \in 1..Len(Tail(t)) : Tail(t)[i] = t[i + 1]
      /\ Len(t) \in Nat \ {0} /\ Head(t) = t[1] /\ Len(s) \in Nat
  BY HeadTailProperties, EmptySeq, LenProperties
<1> DEFINE n == Len(s)  m == Len(t)  p == s \o t  q == s \o Tail(t)
<1>2. /\ p \in Seq(Nat) /\ Len(p) = n + m /\ DOMAIN p = 1..(n + m)
      /\ \A i \in 1..(n + m) : p[i] = IF i <= n THEN s[i] ELSE t[i - n]
  BY ConcatProperties, LenProperties
<1>3. /\ q \in Seq(Nat) /\ Len(q) = n + (m - 1) /\ DOMAIN q = 1..(n + (m - 1))
      /\ \A i \in 1..(n + (m - 1)) : q[i] = IF i <= n THEN s[i] ELSE Tail(t)[i - n]
  BY <1>1, ConcatProperties, LenProperties
<1>4. ASSUME NEW i \in 1..(n + (m - 1)) PROVE q[i] = IF i <= n THEN p[i] ELSE p[i + 1]
  <2>1. CASE i <= n
    BY <1>1, <1>2, <1>3, <2>1
  <2>2. CASE i > n
    <3> DEFINE j == i - n
    <3>1. j \in 1..Len(Tail(t)) /\ j + 1 = (i + 1) - n /\ i + 1 \in 1..(n + m)
      BY <1>1, <2>2
    <3>2. Tail(t)[j] = t[(i + 1) - n]
      BY <1>1, <3>1
    <3> QED
      BY <1>1, <1>2, <1>3, <2>2, <3>1, <3>2
  <2> QED
    BY <1>1, <2>1, <2>2
<1>5. p[n + 1] = Head(t) /\ n + 1 \in 1..(n + m)
  <2>1. n + 1 \in 1..(n + m) /\ ~(n + 1 <= n) /\ (n + 1) - n = 1
    BY <1>1
  <2> QED
    BY <1>1, <1>2, <2>1
<1>6. \A i \in 1..(n + m) : p[i] \in Nat
  BY <1>2, ElementOfSeq
<1>7. \A i, j \in 1..(n + m) : i < j => p[i] < p[j]
  BY <1>2 DEF Ordered
<1>8. n \in Nat /\ m \in Nat \ {0}
  BY <1>1
<1> HIDE DEF n, m, p, q
<1>a. ASSUME NEW i \in 1..(n + (m - 1))
      PROVE  \E a \in 1..(n + m) : q[i] = p[a] /\ a = IF i <= n THEN i ELSE i + 1
  <2>1. CASE i <= n
    <3>1. i \in 1..(n + m)
      BY <1>8
    <3> QED
      BY <1>4, <2>1, <3>1
  <2>2. CASE ~(i <= n)
    <3>1. i + 1 \in 1..(n + m)
      BY <1>8
    <3> QED
      BY <1>4, <2>2, <3>1
  <2> QED
    BY <2>1, <2>2
<1>9. Ordered(q)
  <2> SUFFICES ASSUME NEW i \in 1..(n + (m - 1)), NEW j \in 1..(n + (m - 1)), i < j
               PROVE  q[i] < q[j]
    BY <1>3 DEF Ordered
  <2>1. PICK a \in 1..(n + m) : q[i] = p[a] /\ a = IF i <= n THEN i ELSE i + 1
    BY <1>a
  <2>2. PICK b \in 1..(n + m) : q[j] = p[b] /\ b = IF j <= n THEN j ELSE j + 1
    BY <1>a
  <2>3. a < b
    BY <1>8, <2>1, <2>2
  <2> QED
    BY <1>7, <2>1, <2>2, <2>3
<1>10. ASSUME NEW i \in 1..(n + (m - 1))
       PROVE  \E a \in 1..(n + m) : q[i] = p[a] /\ q[i] # Head(t)
  <2>1. PICK a \in 1..(n + m) : q[i] = p[a] /\ a = IF i <= n THEN i ELSE i + 1
    BY <1>a
  <2>2. a < n + 1 \/ n + 1 < a
    BY <1>8, <2>1
  <2>3. p[a] # p[n + 1]
    BY <1>5, <1>6, <1>7, <2>2
  <2> QED
    BY <1>5, <2>1, <2>3
<1>11. ASSUME NEW a \in 1..(n + m), p[a] # Head(t)
       PROVE  \E i \in 1..(n + (m - 1)) : q[i] = p[a]
  <2>1. a # n + 1
    BY <1>5, <1>11
  <2>2. CASE a <= n
    BY <1>4, <1>8, <2>2
  <2>3. CASE a > n
    <3>1. a - 1 \in 1..(n + (m - 1)) /\ ~(a - 1 <= n) /\ (a - 1) + 1 = a
      BY <1>8, <2>1, <2>3
    <3> QED
      BY <1>4, <3>1
  <2> QED
    BY <1>8, <2>2, <2>3
<1>12. Range(q) = Range(p) \ {Head(t)}
  <2>1. Range(q) = {q[i] : i \in 1..(n + (m - 1))} /\ Range(p) = {p[i] : i \in 1..(n + m)}
    BY <1>2, <1>3 DEF Range
  <2>2. Range(q) \subseteq Range(p) \ {Head(t)}
    BY <1>10, <2>1
  <2>3. Range(p) \ {Head(t)} \subseteq Range(q)
    BY <1>11, <2>1
  <2> QED
    BY <2>2, <2>3
<1> QED
  BY <1>9, <1>12 DEF p, q

-----------------------------------------------------------------------------
(* What each step does to the log and to what is on its way.               *)

(* Everything on its way is a sequence of anomaly numbers. *)
LEMMA SeenType ==
  ASSUME TypeOK
  PROVE  /\ InHand \in Seq(1..MaxEvents) /\ Len(InHand) = IF evt = 0 THEN 0 ELSE 1
         /\ Numbers(ring) \in Seq(1..MaxEvents) /\ Len(Numbers(ring)) = Len(ring)
         /\ OnTheWay \in Seq(1..MaxEvents) /\ Len(OnTheWay) = Len(InHand) + Len(ring)
         /\ logged \in Seq(1..MaxEvents)
         /\ Seen \in Seq(1..MaxEvents) /\ Seen \in Seq(Nat)
<1>1. InHand \in Seq(1..MaxEvents) /\ Len(InHand) = IF evt = 0 THEN 0 ELSE 1
  <2>1. CASE evt = 0
    BY <2>1 DEF InHand
  <2>2. CASE evt # 0
    <3>1. evt \in 1..MaxEvents
      BY <2>2, PipeAssumption DEF TypeOK
    <3> QED
      BY <2>2, <3>1 DEF InHand
  <2> QED
    BY <2>1, <2>2
<1>2. Numbers(ring) \in Seq(1..MaxEvents) /\ Len(Numbers(ring)) = Len(ring)
  BY NumbersType DEF TypeOK
<1>3. OnTheWay \in Seq(1..MaxEvents) /\ Len(OnTheWay) = Len(InHand) + Len(ring)
  <2>1. InHand \in Seq(1..MaxEvents)
    BY <1>1
  <2>2. /\ InHand \o Numbers(ring) \in Seq(1..MaxEvents)
        /\ Len(InHand \o Numbers(ring)) = Len(InHand) + Len(Numbers(ring))
    BY <1>2, <2>1, ConcatProperties
  <2> QED
    BY <1>2, <2>2 DEF OnTheWay
<1>4. logged \in Seq(1..MaxEvents)
  BY DEF TypeOK
<1>5. Seen \in Seq(1..MaxEvents)
  BY <1>3, <1>4, ConcatProperties DEF Seen
<1>6. Seen \in Seq(Nat)
  <2>1. 1..MaxEvents \subseteq Nat
    BY PipeAssumption
  <2> QED
    BY <1>5, <2>1, SeqMonotonic
<1> QED
  BY <1>1, <1>2, <1>3, <1>4, <1>5, <1>6

(* A reservation adds the new number at the end. *)
LEMMA ReserveSeen ==
  ASSUME TypeOK, NEW c \in Cpus, Reserve(c)
  PROVE  /\ events + 1 \in 1..MaxEvents
         /\ [id |-> events + 1, cpu |-> c] \in Record
         /\ Len(OnTheWay) < Slots + 1
         /\ OnTheWay' = Append(OnTheWay, events + 1)
         /\ Seen' = Append(Seen, events + 1)
<1> DEFINE e == [id |-> events + 1, cpu |-> c]
<1>1. events + 1 \in 1..MaxEvents
  BY PipeAssumption DEF TypeOK, Reserve
<1>2. e \in Record /\ e.id = events + 1
  BY <1>1 DEF Record
<1> HIDE DEF e
<1>3. ring' = Append(ring, e) /\ evt' = evt /\ logged' = logged
  BY DEF Reserve, workerVars, e
<1>4. Numbers(ring)' = Append(Numbers(ring), events + 1)
  BY <1>2, <1>3, NumbersAppend DEF TypeOK, Numbers
<1>5. InHand' = InHand
  BY <1>3 DEF InHand
<1>6. OnTheWay' = Append(OnTheWay, events + 1)
  <2>1. InHand \in Seq(1..MaxEvents) /\ Numbers(ring) \in Seq(1..MaxEvents)
    BY SeenType
  <2>2. InHand \o Append(Numbers(ring), events + 1)
          = Append(InHand \o Numbers(ring), events + 1)
    BY <1>1, <2>1, AppendMove
  <2> QED
    BY <1>4, <1>5, <2>2 DEF OnTheWay
<1>7. Seen' = Append(Seen, events + 1)
  <2>1. logged \in Seq(1..MaxEvents) /\ OnTheWay \in Seq(1..MaxEvents)
    BY SeenType
  <2>2. logged \o Append(OnTheWay, events + 1) = Append(logged \o OnTheWay, events + 1)
    BY <1>1, <2>1, AppendMove
  <2> QED
    BY <1>3, <1>6, <2>2 DEF Seen
<1>8. Len(OnTheWay) < Slots + 1
  <2>1. Len(OnTheWay) = Len(InHand) + Len(ring) /\ Len(InHand) \in 0..1
    BY SeenType
  <2>2. Len(ring) \in Nat /\ Slots \in Nat /\ Len(ring) < Slots
    BY PipeAssumption, LenProperties DEF Reserve, TypeOK
  <2> DEFINE a == Len(InHand)  b == Len(ring)  w == Len(OnTheWay)
  <2>3. w = a + b /\ a \in 0..1 /\ b \in Nat /\ Slots \in Nat /\ b < Slots
    BY <2>1, <2>2
  <2> HIDE DEF a, b, w
  <2>4. w < Slots + 1
    BY <2>3
  <2> QED
    BY <2>4 DEF w
<1> QED
  BY <1>1, <1>2, <1>6, <1>7, <1>8 DEF e

(* A record on its way into the worker's hands stays where it is in the    *)
(* order.                                                                  *)
LEMMA ReadSeen ==
  ASSUME TypeOK, HandIsLog, Read
  PROVE  /\ Head(ring).id \in 1..MaxEvents
         /\ Tail(ring) \in Seq(Record) /\ Len(Tail(ring)) = Len(ring) - 1
         /\ OnTheWay' = OnTheWay /\ logged' = logged
<1>1. ring \in Seq(Record) /\ ring # <<>> /\ evt = 0
  BY DEF TypeOK, HandIsLog, Read
<1>2. /\ Head(ring).id \in 1..MaxEvents
      /\ Tail(ring) \in Seq(Record) /\ Len(Tail(ring)) = Len(ring) - 1
      /\ Numbers(ring) = <<Head(ring).id>> \o Numbers(Tail(ring))
  BY <1>1, NumbersHeadTail
<1>3. evt' = Head(ring).id /\ ring' = Tail(ring) /\ logged' = logged /\ evt' # 0
  BY <1>2 DEF Read
<1>4. OnTheWay = Numbers(ring)
  <2>1. InHand = <<>> /\ Numbers(ring) \in Seq(1..MaxEvents)
    BY <1>1, SeenType DEF InHand
  <2> QED
    BY <2>1, ConcatEmptySeq DEF OnTheWay
<1>5. OnTheWay' = <<Head(ring).id>> \o Numbers(Tail(ring))
  BY <1>3 DEF OnTheWay, InHand, Numbers
<1> QED
  BY <1>2, <1>3, <1>4, <1>5

(* A record that cannot be decoded was the next in line. *)
LEMMA DecodeSeen ==
  ASSUME TypeOK, HandIsLog, DecodeFails
  PROVE  /\ Tail(ring) \in Seq(Record) /\ Len(Tail(ring)) = Len(ring) - 1
         /\ OnTheWay # <<>> /\ Head(OnTheWay) = Head(ring).id
         /\ OnTheWay' = Tail(OnTheWay) /\ logged' = logged
<1>1. ring \in Seq(Record) /\ ring # <<>> /\ evt = 0
  BY DEF TypeOK, HandIsLog, DecodeFails
<1>2. /\ Tail(ring) \in Seq(Record) /\ Len(Tail(ring)) = Len(ring) - 1
      /\ Numbers(ring) # <<>>
      /\ Head(Numbers(ring)) = Head(ring).id
      /\ Tail(Numbers(ring)) = Numbers(Tail(ring))
  BY <1>1, NumbersHeadTail
<1>3. evt' = 0 /\ ring' = Tail(ring) /\ logged' = logged
  BY <1>1 DEF DecodeFails
<1>4. OnTheWay = Numbers(ring) /\ OnTheWay' = Numbers(Tail(ring))
  <2>1. InHand = <<>> /\ InHand' = <<>> /\ Numbers(ring) \in Seq(1..MaxEvents)
    BY <1>1, <1>3, SeenType DEF InHand
  <2>2. Numbers(Tail(ring)) \in Seq(1..MaxEvents) /\ Numbers(ring)' = Numbers(Tail(ring))
    BY <1>2, <1>3, NumbersType DEF Numbers
  <2> QED
    BY <2>1, <2>2, ConcatEmptySeq DEF OnTheWay
<1> QED
  BY <1>2, <1>3, <1>4

(* What the worker logs was the next in line. *)
LEMMA LogSeen ==
  ASSUME TypeOK, HandIsLog, LogEvent
  PROVE  /\ evt \in 1..MaxEvents
         /\ OnTheWay # <<>> /\ Head(OnTheWay) = evt
         /\ OnTheWay' = Tail(OnTheWay) /\ logged' = Append(logged, evt)
<1>1. evt \in 1..MaxEvents /\ evt' = 0 /\ ring' = ring /\ logged' = Append(logged, evt)
  BY PipeAssumption DEF TypeOK, HandIsLog, LogEvent
<1>2. Numbers(ring) \in Seq(1..MaxEvents) /\ Numbers(ring)' = Numbers(ring)
  BY <1>1, SeenType DEF Numbers
<1>3. OnTheWay = <<evt>> \o Numbers(ring)
  BY <1>1 DEF OnTheWay, InHand
<1>4. OnTheWay' = Numbers(ring)
  BY <1>1, <1>2, ConcatEmptySeq DEF OnTheWay, InHand
<1> DEFINE w == <<evt>> \o Numbers(ring)
<1>5. /\ w \in Seq(1..MaxEvents) /\ Len(w) = Len(Numbers(ring)) + 1 /\ w[1] = evt
      /\ \A i \in 1..Len(Numbers(ring)) : w[i + 1] = Numbers(ring)[i]
  BY <1>1, <1>2, ConcatOne
<1>6. Len(Numbers(ring)) \in Nat
  BY <1>2, LenProperties
<1> HIDE DEF w
<1>7. w # <<>> /\ Head(w) = evt
  BY <1>5, <1>6
<1>8. Tail(w) = Numbers(ring)
  <2>1. /\ Tail(w) \in Seq(1..MaxEvents) /\ Len(Tail(w)) = Len(w) - 1
        /\ \A i \in 1..Len(Tail(w)) : Tail(w)[i] = w[i + 1]
    BY <1>5, <1>7, HeadTailProperties
  <2>2. Len(Tail(w)) = Len(Numbers(ring))
    BY <1>5, <1>6, <2>1
  <2>3. \A i \in 1..Len(Tail(w)) : Tail(w)[i] = Numbers(ring)[i]
    BY <1>5, <2>1, <2>2
  <2> QED
    BY <1>2, <2>1, <2>2, <2>3, SeqEqual
<1> QED
  BY <1>1, <1>3, <1>4, <1>7, <1>8 DEF w

(* No other step touches the log or what is on its way. *)
LEMMA OthersSeen ==
  ASSUME [Next]_vars, \A c \in Cpus : ~Reserve(c), ~Read, ~DecodeFails, ~LogEvent
  PROVE  /\ UNCHANGED <<ring, evt, logged, accepted, skipped>>
         /\ OnTheWay' = OnTheWay /\ Seen' = Seen
<1>1. UNCHANGED <<ring, evt, logged, accepted, skipped>>
  BY DEF Next, Hook, Worker, Close, Drop, Submit, Call, Wait, EndOfRing, ReadFails,
         ReadClosed, Signal, ServeReturns, ReaderClosed, Detach, Exit, vars, hookVars,
         workerVars, mainVars
<1> QED
  BY <1>1 DEF OnTheWay, InHand, Numbers, Seen

-----------------------------------------------------------------------------
(* The invariant is kept.                                                  *)

(* The account in terms of Seen. *)
LEMMA AccountDef == EveryRecordAccounted <=> Ordered(Seen) /\ Range(Seen) = accepted \ skipped
BY DEF EveryRecordAccounted, Ordered, Seen

(* The same, of the next state. *)
LEMMA AccountDefNext ==
  EveryRecordAccounted' <=> Ordered(Seen') /\ Range(Seen') = accepted' \ skipped'
BY DEF EveryRecordAccounted, Ordered, Seen

(* What is at the head of the queue was accepted and not skipped. *)
LEMMA NextInLine ==
  ASSUME IInv, OnTheWay # <<>>
  PROVE  Head(OnTheWay) \in accepted \ skipped
<1>1. /\ logged \in Seq(1..MaxEvents) /\ OnTheWay \in Seq(1..MaxEvents)
      /\ Len(logged) \in Nat /\ Len(OnTheWay) \in Nat \ {0} /\ Head(OnTheWay) = OnTheWay[1]
  BY SeenType, EmptySeq, LenProperties DEF IInv
<1> DEFINE k == Len(logged) + 1
<1>2. /\ k \in 1..(Len(logged) + Len(OnTheWay)) /\ ~(k <= Len(logged))
      /\ k - Len(logged) = 1
  BY <1>1
<1>3. Seen[k] = Head(OnTheWay) /\ k \in DOMAIN Seen
  BY <1>1, <1>2, ConcatProperties, LenProperties DEF Seen
<1> QED
  BY <1>3, AccountDef DEF IInv, Range

(* No step loses, repeats or reorders a record. *)
LEMMA AccountStep == IInv /\ [Next]_vars => EveryRecordAccounted'
<1> SUFFICES ASSUME IInv, [Next]_vars
             PROVE  Ordered(Seen') /\ Range(Seen') = accepted' \ skipped'
  BY AccountDefNext
<1>1. TypeOK /\ HandIsLog /\ Ordered(Seen) /\ Range(Seen) = accepted \ skipped
  BY AccountDef DEF IInv
<1>2. Seen \in Seq(Nat)
  BY <1>1, SeenType
<1>3. ASSUME NEW c \in Cpus, Reserve(c)
      PROVE  Ordered(Seen') /\ Range(Seen') = accepted' \ skipped'
  <2>0. events \in Nat /\ events + 1 \in Nat
    BY <1>1, PipeAssumption DEF TypeOK
  <2>1. Seen' = Append(Seen, events + 1)
    BY <1>1, <1>3, ReserveSeen
  <2>2. \A i \in DOMAIN Seen : Seen[i] \in accepted
    BY <1>1 DEF Range
  <2>3. \A i \in DOMAIN Seen : Seen[i] < events + 1
    <3>1. \A x \in accepted : x < events + 1
      BY <2>0 DEF IInv, Numbered
    <3> QED
      BY <2>2, <3>1
  <2>4. Ordered(Seen') /\ Range(Seen') = (accepted \ skipped) \cup {events + 1}
    BY <1>1, <1>2, <2>0, <2>1, <2>3, AppendOrdered
  <2>5. events + 1 \notin skipped
    BY <1>1, <2>0 DEF IInv, Numbered, TypeOK
  <2>6. accepted' = accepted \cup {events + 1} /\ skipped' = skipped
    BY <1>3 DEF Reserve, workerVars
  <2> QED
    BY <2>4, <2>5, <2>6
<1>4. CASE Read
  <2>1. Seen' = Seen
    BY <1>1, <1>4, ReadSeen DEF Seen
  <2>2. accepted' = accepted /\ skipped' = skipped
    BY <1>4 DEF Read, hookVars
  <2> QED
    BY <1>1, <2>1, <2>2
<1>5. CASE DecodeFails
  <2>1. /\ OnTheWay # <<>> /\ Head(OnTheWay) = Head(ring).id
        /\ OnTheWay' = Tail(OnTheWay) /\ logged' = logged
    BY <1>1, <1>5, DecodeSeen
  <2>2. logged \in Seq(Nat) /\ OnTheWay \in Seq(Nat)
    BY <1>1, SeenType, SeqMonotonic, PipeAssumption
  <2>3. Ordered(logged \o OnTheWay) /\ Range(logged \o OnTheWay) = accepted \ skipped
    BY <1>1 DEF Seen
  <2>4. /\ Ordered(logged \o Tail(OnTheWay))
        /\ Range(logged \o Tail(OnTheWay))
             = Range(logged \o OnTheWay) \ {Head(OnTheWay)}
    BY <2>1, <2>2, <2>3, SkipMove
  <2>5. accepted' = accepted /\ skipped' = skipped \cup {Head(OnTheWay)}
    BY <1>5, <2>1 DEF DecodeFails, hookVars
  <2>6. Seen' = logged \o Tail(OnTheWay)
    BY <2>1 DEF Seen
  <2> QED
    BY <2>3, <2>4, <2>5, <2>6
<1>6. CASE LogEvent
  <2>1. /\ OnTheWay # <<>> /\ Head(OnTheWay) = evt
        /\ OnTheWay' = Tail(OnTheWay) /\ logged' = Append(logged, evt)
    BY <1>1, <1>6, LogSeen
  <2>2. logged \in Seq(1..MaxEvents) /\ OnTheWay \in Seq(1..MaxEvents)
    BY <1>1, SeenType
  <2>3. Append(logged, evt) \o Tail(OnTheWay) = logged \o OnTheWay
    BY <2>1, <2>2, LogMove
  <2>4. Seen' = Seen
    BY <2>1, <2>3 DEF Seen
  <2>5. accepted' = accepted /\ skipped' = skipped
    BY <1>6 DEF LogEvent, hookVars
  <2> QED
    BY <1>1, <2>4, <2>5
<1>7. CASE ~(\E c \in Cpus : Reserve(c)) /\ ~Read /\ ~DecodeFails /\ ~LogEvent
  <2>1. Seen' = Seen /\ accepted' = accepted /\ skipped' = skipped
    BY <1>7, OthersSeen
  <2> QED
    BY <1>1, <2>1
<1> QED
  BY <1>3, <1>4, <1>5, <1>6, <1>7

(* Every step keeps the types. *)
LEMMA TypeStep == IInv /\ [Next]_vars => TypeOK'
<1> SUFFICES ASSUME IInv, [Next]_vars PROVE TypeOK'
  OBVIOUS
<1>t. TypeOK /\ HandIsLog
  BY DEF IInv
<1>1. ASSUME NEW c \in Cpus, Reserve(c) PROVE TypeOK'
  <2>1. events + 1 \in 1..MaxEvents /\ [id |-> events + 1, cpu |-> c] \in Record
    BY <1>t, <1>1, ReserveSeen
  <2>2. ring' \in Seq(Record) /\ Len(ring') <= Slots
    BY <1>t, <1>1, <2>1, AppendProperties, LenProperties, PipeAssumption DEF TypeOK, Reserve
  <2>3. cpu' \in [Cpus -> 0..MaxEvents] /\ events' \in 0..MaxEvents
    BY <1>t, <1>1, <2>1, PipeAssumption DEF TypeOK, Reserve
  <2>4. accepted' \subseteq 1..MaxEvents /\ skipped' \subseteq accepted'
    BY <1>t, <1>1, <2>1 DEF TypeOK, Reserve, workerVars
  <2> QED
    BY <1>t, <1>1, <2>2, <2>3, <2>4 DEF TypeOK, Reserve, workerVars, mainVars
<1>2. ASSUME NEW c \in Cpus, Drop(c) PROVE TypeOK'
  <2>1. events' \in 0..MaxEvents
    BY <1>t, <1>2, PipeAssumption DEF TypeOK, Drop
  <2> QED
    BY <1>t, <1>2, <2>1 DEF TypeOK, Drop, workerVars, mainVars
<1>3. ASSUME NEW c \in Cpus, Submit(c) PROVE TypeOK'
  <2>1. cpu' \in [Cpus -> 0..MaxEvents]
    BY <1>t, <1>3, PipeAssumption DEF TypeOK, Submit
  <2> QED
    BY <1>t, <1>3, <2>1 DEF TypeOK, Submit, workerVars, mainVars
<1>4. CASE Call \/ Wait \/ EndOfRing
  BY <1>t, <1>4 DEF TypeOK, Call, Wait, EndOfRing, hookVars, mainVars
<1>5. CASE Read
  <2>1. ring' \in Seq(Record) /\ Len(ring') <= Slots /\ evt' \in 0..MaxEvents
    BY <1>t, <1>5, ReadSeen, LenProperties, PipeAssumption DEF TypeOK, Read
  <2> QED
    BY <1>t, <1>5, <2>1 DEF TypeOK, Read, hookVars, mainVars
<1>6. CASE DecodeFails
  <2>1. ring' \in Seq(Record) /\ Len(ring') <= Slots
    BY <1>t, <1>6, DecodeSeen, LenProperties, PipeAssumption DEF TypeOK, DecodeFails
  <2>2. Head(ring).id \in accepted
    BY <1>t, <1>6, DecodeSeen, NextInLine
  <2>3. errors' \in 0..MaxErrors /\ worker' \in {"call", "read", "log", "done"}
    BY <1>t, <1>6, PipeAssumption DEF TypeOK, DecodeFails, AfterError
  <2> QED
    BY <1>t, <1>6, <2>1, <2>2, <2>3 DEF TypeOK, DecodeFails, hookVars, mainVars
<1>7. CASE ReadFails
  <2>1. errors' \in 0..MaxErrors /\ worker' \in {"call", "read", "log", "done"}
    BY <1>t, <1>7, PipeAssumption DEF TypeOK, ReadFails, AfterError
  <2> QED
    BY <1>t, <1>7, <2>1 DEF TypeOK, ReadFails, hookVars, mainVars
<1>8. CASE ReadClosed
  BY <1>t, <1>8 DEF TypeOK, ReadClosed, hookVars, mainVars
<1>9. CASE LogEvent
  <2>1. logged' \in Seq(1..MaxEvents) /\ evt' \in 0..MaxEvents
    BY <1>t, <1>9, LogSeen, AppendProperties, PipeAssumption DEF TypeOK, LogEvent
  <2> QED
    BY <1>t, <1>9, <2>1 DEF TypeOK, LogEvent, hookVars, mainVars
<1>10. CASE Signal \/ ServeReturns \/ Close
  BY <1>t, <1>10 DEF TypeOK, Signal, ServeReturns, Close, ReaderClosed, Detach, Exit,
                     hookVars, workerVars
<1>11. CASE UNCHANGED vars
  BY <1>t, <1>11 DEF TypeOK, vars, hookVars, workerVars, mainVars
<1> QED
  BY <1>1, <1>2, <1>3, <1>4, <1>5, <1>6, <1>7, <1>8, <1>9, <1>10, <1>11
  DEF Next, Hook, Worker

(* The worker has a record in hand exactly while it is to log it, and      *)
(* numbers are given out once.                                             *)
LEMMA HandStep == IInv /\ [Next]_vars => HandIsLog' /\ Numbered'
<1> SUFFICES ASSUME IInv, [Next]_vars PROVE HandIsLog' /\ Numbered'
  OBVIOUS
<1>t. TypeOK /\ HandIsLog /\ Numbered
  BY DEF IInv
<1>1. HandIsLog'
  <2>1. CASE Read
    BY <1>t, <2>1, ReadSeen DEF Read, HandIsLog
  <2>2. CASE LogEvent
    BY <2>2 DEF LogEvent, HandIsLog
  <2>3. CASE ~Read /\ ~LogEvent
    BY <1>t, <2>3
    DEF HandIsLog, Next, Hook, Worker, Close, Reserve, Drop, Submit, Call, Wait, EndOfRing,
        DecodeFails, ReadFails, ReadClosed, AfterError, Signal, ServeReturns, ReaderClosed,
        Detach, Exit, vars, workerVars
  <2> QED
    BY <2>1, <2>2, <2>3
<1>2. Numbered'
  <2>1. ASSUME NEW c \in Cpus, Reserve(c) \/ Drop(c) \/ Submit(c) PROVE Numbered'
    <3>1. events \in Nat /\ cpu \in [Cpus -> Nat]
      BY <1>t, PipeAssumption DEF TypeOK
    <3>2. CASE Reserve(c)
      BY <1>t, <3>1, <3>2 DEF Numbered, Reserve
    <3>3. CASE Drop(c)
      BY <1>t, <3>1, <3>3 DEF Numbered, Drop
    <3>4. CASE Submit(c)
      BY <1>t, <3>1, <3>4 DEF Numbered, Submit
    <3> QED
      BY <2>1, <3>2, <3>3, <3>4
  <2>2. CASE ~\E c \in Cpus : Reserve(c) \/ Drop(c) \/ Submit(c)
    BY <1>t, <2>2
    DEF Numbered, Next, Hook, Worker, Close, Call, Wait, EndOfRing, Read, DecodeFails,
        ReadFails, ReadClosed, LogEvent, Signal, ServeReturns, ReaderClosed, Detach, Exit,
        vars, hookVars
  <2> QED
    BY <2>1, <2>2
<1> QED
  BY <1>1, <1>2

(* An empty pipeline to begin with. *)
LEMMA InitIInv == Init => IInv
<1> SUFFICES ASSUME Init PROVE IInv
  OBVIOUS
<1>1. TypeOK
  <2>1. ring \in Seq(Record) /\ Len(ring) <= Slots /\ logged \in Seq(1..MaxEvents)
    BY PipeAssumption, EmptySeq DEF Init
  <2>2. /\ cpu \in [Cpus -> 0..MaxEvents] /\ evt \in 0..MaxEvents
        /\ events \in 0..MaxEvents /\ errors \in 0..MaxErrors
    BY PipeAssumption DEF Init
  <2>3. /\ main \in {"serve", "close", "detach", "down"} /\ ctxDone \in BOOLEAN
        /\ reader \in {"open", "closing", "closed"}
        /\ worker \in {"call", "read", "log", "done"} /\ haveData \in BOOLEAN
        /\ accepted \subseteq 1..MaxEvents /\ skipped \subseteq accepted
    BY DEF Init
  <2> QED
    BY <2>1, <2>2, <2>3 DEF TypeOK
<1>2. HandIsLog /\ Numbered
  BY PipeAssumption DEF Init, HandIsLog, Numbered
<1>3. OnTheWay = <<>> /\ Seen = <<>>
  <2>1. Numbers(ring) = <<>> /\ InHand = <<>> /\ logged = <<>>
    BY DEF Init, Numbers, InHand
  <2> QED
    BY <2>1 DEF OnTheWay, Seen
<1>4. EveryRecordAccounted
  BY <1>3, AccountDef DEF Init, Ordered, Range
<1> QED
  BY <1>1, <1>2, <1>4 DEF IInv

(* The whole invariant is kept by every step. *)
LEMMA StepIInv == IInv /\ [Next]_vars => IInv'
BY TypeStep, HandStep, AccountStep DEF IInv

(* It holds in every reachable state. *)
THEOREM PipeInvariance == Spec => []IInv
BY InitIInv, StepIInv, PTL DEF Spec

(* Type correctness; in particular the ring never holds more records than  *)
(* it has room for.                                                        *)
THEOREM PipeTypeCorrect == Spec => []TypeOK
<1>1. IInv => TypeOK
  BY DEF IInv
<1> QED
  BY <1>1, PipeInvariance, PTL

(* Nothing that found room in the ring is lost inside the agent, logged    *)
(* twice or out of order.                                                  *)
THEOREM PipeAccounts == Spec => []EveryRecordAccounted
<1>1. IInv => EveryRecordAccounted
  BY DEF IInv
<1> QED
  BY <1>1, PipeInvariance, PTL

-----------------------------------------------------------------------------
(* The refinement.                                                         *)

(* A step that leaves the agent up or down and touches neither the log nor *)
(* what is on its way is no step of AnomalyLog.                            *)
LEMMA Stutter ==
  ASSUME OnTheWay' = OnTheWay, logged' = logged, main' = "down" <=> main = "down"
  PROVE  UNCHANGED Promise!vars
BY DEF Promise!vars

(* Every step of the pipeline is a step of AnomalyLog or none. *)
LEMMA Simulation == IInv /\ [Next]_vars => [Promise!Next]_(Promise!vars)
<1> SUFFICES ASSUME IInv, [Next]_vars PROVE [Promise!Next]_(Promise!vars)
  OBVIOUS
<1>t. TypeOK /\ HandIsLog
  BY DEF IInv
<1>1. ASSUME NEW c \in Cpus, Reserve(c) PROVE Promise!Next
  <2>1. /\ events + 1 \in 1..MaxEvents /\ Len(OnTheWay) < Slots + 1
        /\ OnTheWay' = Append(OnTheWay, events + 1)
    BY <1>t, <1>1, ReserveSeen
  <2>2. main # "down" /\ main' = main /\ logged' = logged
    BY <1>1 DEF Reserve, Attached, workerVars, mainVars
  <2>3. Promise!Accept(events + 1)
    BY <2>1, <2>2 DEF Promise!Accept
  <2> QED
    BY <2>1, <2>3 DEF Promise!Next
<1>2. CASE Read
  BY <1>t, <1>2, ReadSeen, Stutter DEF Read, mainVars
<1>3. CASE DecodeFails
  <2>1. OnTheWay # <<>> /\ OnTheWay' = Tail(OnTheWay) /\ logged' = logged
    BY <1>t, <1>3, DecodeSeen
  <2>2. main # "down" /\ main' = main
    BY <1>3 DEF DecodeFails, WorkerRuns, mainVars
  <2>3. Promise!Skip
    BY <2>1, <2>2 DEF Promise!Skip
  <2> QED
    BY <2>3 DEF Promise!Next
<1>4. CASE LogEvent
  <2>1. /\ OnTheWay # <<>> /\ OnTheWay' = Tail(OnTheWay)
        /\ logged' = Append(logged, Head(OnTheWay))
    BY <1>t, <1>4, LogSeen
  <2>2. main # "down" /\ main' = main
    BY <1>4 DEF LogEvent, WorkerRuns, mainVars
  <2>3. Promise!Log
    BY <2>1, <2>2 DEF Promise!Log
  <2> QED
    BY <2>3 DEF Promise!Next
<1>5. CASE Exit
  <2>1. main # "down" /\ main' = "down" /\ logged' = logged
    BY <1>5 DEF Exit, workerVars
  <2>2. Promise!End
    BY <2>1 DEF Promise!End
  <2> QED
    BY <2>2 DEF Promise!Next
<1>6. CASE ~(\E c \in Cpus : Reserve(c)) /\ ~Read /\ ~DecodeFails /\ ~LogEvent /\ ~Exit
  <2>1. OnTheWay' = OnTheWay /\ logged' = logged
    BY <1>6, OthersSeen
  <2>2. main' = "down" <=> main = "down"
    BY <1>6
    DEF Next, Hook, Worker, Close, Drop, Submit, Call, Wait, EndOfRing, ReadFails,
        ReadClosed, Signal, ServeReturns, ReaderClosed, Detach, vars, mainVars
  <2> QED
    BY <2>1, <2>2, Stutter
<1> QED
  BY <1>1, <1>2, <1>3, <1>4, <1>5, <1>6

(* The pipeline implements the safety part of AnomalyLog: what it accepts  *)
(* is logged in order and at most once, with never more than the ring and  *)
(* the worker hold on its way, and nothing is logged after the end.        *)
THEOREM PipeImplementsLog == Spec => Promise!Safety
<1>1. Init => Promise!Init
  <2> SUFFICES ASSUME Init PROVE Promise!Init
    OBVIOUS
  <2>1. Numbers(ring) = <<>> /\ InHand = <<>>
    BY DEF Init, Numbers, InHand
  <2>2. OnTheWay = <<>>
    BY <2>1 DEF OnTheWay
  <2> QED
    BY <2>2 DEF Init, Promise!Init
<1> QED
  BY <1>1, Simulation, PipeInvariance, PTL DEF Spec, Promise!Safety
=============================================================================
