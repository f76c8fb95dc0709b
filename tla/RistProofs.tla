----------------------------- MODULE RistProofs -----------------------------
(***************************************************************************)
(* Proofs about the RIST stream, for every size of the number space and of *)
(* the buffers, every delay and every number of packets and faults.        *)
(***************************************************************************)
EXTENDS Rist, FiniteSetTheorems, WellFoundedInduction, TLAPS

(* A set of naturals has a least element.                                  *)
LEMMA LeastExists ==
  ASSUME NEW S \in SUBSET Nat, S # {}
  PROVE  \E x \in S : \A y \in S : x <= y
<1>1. PICK x \in S : \A y \in S : ~ (<<y, x>> \in OpToRel(<, Nat))
  BY NatLessThanWellFounded, WFMin, Zenon
<1>2. \A y \in S : ~(y < x)
  BY <1>1 DEF OpToRel
<1> QED BY <1>2

(* Min gives it.                                                           *)
LEMMA MinFacts ==
  ASSUME NEW S \in SUBSET Nat, S # {}
  PROVE  Min(S) \in S /\ \A y \in S : Min(S) <= y
BY LeastExists DEF Min

(* A bounded set of naturals has a greatest element, and Max gives it.     *)
LEMMA MaxFacts ==
  ASSUME NEW S \in SUBSET Nat, S # {}, NEW n \in Nat, \A x \in S : x <= n
  PROVE  Max(S) \in S /\ \A y \in S : Max(S) >= y
<1> DEFINE T == {k \in Nat : n - k \in S}
<1>1. T \in SUBSET Nat /\ T # {}
  <2>1. PICK x \in S : TRUE
    OBVIOUS
  <2>2. n - x \in Nat /\ n - (n - x) = x
    BY <2>1
  <2> QED BY <2>1, <2>2
<1>2. PICK k \in T : \A j \in T : k <= j
  BY <1>1, LeastExists
<1>3. n - k \in S /\ \A y \in S : n - k >= y
  <2> SUFFICES ASSUME NEW y \in S PROVE n - k >= y
    BY <1>2
  <2>1. n - y \in T
    OBVIOUS
  <2> QED BY <1>2, <2>1
<1> QED BY <1>3 DEF Max

(* The lesser and the greater of two numbers.                              *)
LEMMA MinMaxOfTwo ==
  ASSUME NEW a \in Int, NEW b \in Int
  PROVE  /\ Min({a, b}) = IF a <= b THEN a ELSE b
         /\ Max({a, b}) = IF a >= b THEN a ELSE b
<1>1. Min({a, b}) = IF a <= b THEN a ELSE b
  <2> DEFINE v == IF a <= b THEN a ELSE b
  <2>1. v \in {a, b} /\ \A y \in {a, b} : v <= y
    OBVIOUS
  <2>2. \A x \in {a, b} : (\A y \in {a, b} : x <= y) => x = v
    OBVIOUS
  <2> HIDE DEF v
  <2>3. Min({a, b}) = v
    BY <2>1, <2>2 DEF Min
  <2> QED BY <2>3 DEF v
<1>2. Max({a, b}) = IF a >= b THEN a ELSE b
  <2> DEFINE v == IF a >= b THEN a ELSE b
  <2>1. v \in {a, b} /\ \A y \in {a, b} : v >= y
    OBVIOUS
  <2>2. \A x \in {a, b} : (\A y \in {a, b} : x >= y) => x = v
    OBVIOUS
  <2> HIDE DEF v
  <2>3. Max({a, b}) = v
    BY <2>1, <2>2 DEF Max
  <2> QED BY <2>3 DEF v
<1> QED BY <1>1, <1>2

(* A finite set of naturals is bounded.                                    *)
LEMMA FiniteBounded ==
  ASSUME NEW S \in SUBSET Nat, IsFiniteSet(S), S # {}
  PROVE  \E n \in S : \A x \in S : x <= n
<1> SUFFICES ASSUME \A n \in S : \E x \in S : x > n
             PROVE  FALSE
  OBVIOUS
<1> DEFINE Below(n) == {x \in S : x <= n}
           T == {Cardinality(S) - Cardinality(Below(n)) : n \in S}
<1>0. \A x \in S : x \in Nat
  OBVIOUS
<1>1. ASSUME NEW n \in S
      PROVE  /\ IsFiniteSet(Below(n))
             /\ Cardinality(Below(n)) \in Nat /\ Cardinality(S) \in Nat
             /\ Cardinality(Below(n)) <= Cardinality(S)
  BY FS_Subset, FS_CardinalityType
<1>2. T \in SUBSET Nat /\ T # {}
  <2>1. ASSUME NEW n \in S PROVE Cardinality(S) - Cardinality(Below(n)) \in Nat
    <3> HIDE DEF Below
    <3> QED BY <1>1
  <2> HIDE DEF Below
  <2> QED BY <2>1
<1>3. PICK k \in T : \A j \in T : k <= j
  BY <1>2, LeastExists
<1>4. PICK n \in S : k = Cardinality(S) - Cardinality(Below(n))
  BY <1>3
<1>5. PICK x \in S : x > n
  OBVIOUS
<1>6. Cardinality(Below(n)) < Cardinality(Below(x))
  <2>0. n \in Nat /\ x \in Nat /\ n < x
    BY <1>0, <1>5
  <2>1. Below(n) \in SUBSET Below(x)
    <3>1. ASSUME NEW z \in Below(n) PROVE z \in Below(x)
      <4>1. z \in S /\ z \in Nat /\ z <= n
        BY <1>0
      <4> QED BY <2>0, <4>1
    <3> QED BY <3>1
  <2>2. x \in Below(x) /\ x \notin Below(n)
    BY <2>0
  <2>3. Below(n) # Below(x)
    BY <2>2
  <2> HIDE DEF Below
  <2>4. /\ IsFiniteSet(Below(x))
        /\ Cardinality(Below(n)) \in Nat /\ Cardinality(Below(x)) \in Nat
    BY <1>1
  <2>5. /\ Cardinality(Below(n)) <= Cardinality(Below(x))
        /\ Cardinality(Below(n)) # Cardinality(Below(x))
    BY <2>1, <2>3, <2>4, FS_Subset
  <2> QED BY <2>4, <2>5
<1>7. Cardinality(S) - Cardinality(Below(x)) \in T
  OBVIOUS
<1> HIDE DEF Below, T
<1> QED BY <1>1, <1>3, <1>4, <1>6, <1>7

(* The greatest element of a finite set of naturals.                       *)
LEMMA MaxOfFinite ==
  ASSUME NEW S \in SUBSET Nat, IsFiniteSet(S), S # {}
  PROVE  Max(S) \in S /\ \A y \in S : Max(S) >= y
BY FiniteBounded, MaxFacts

(* Ascending lists a finite set, lowest first.                             *)
LEMMA AscendingFacts ==
  ASSUME NEW S \in SUBSET Nat, IsFiniteSet(S)
  PROVE  LET s == Ascending(S)
             n == Cardinality(S)
         IN  /\ n \in Nat
             /\ s \in [1 .. n -> S]
             /\ \A i, j \in 1 .. n : i < j => s[i] < s[j]
             /\ \A x \in S : \E i \in 1 .. n : s[i] = x
<1> DEFINE n == Cardinality(S)
           Upto(x) == {y \in S : y <= x}
           pos == [x \in S |-> Cardinality(Upto(x))]
<1>0. \A x \in S : x \in Nat
  OBVIOUS
<1>1. n \in Nat
  BY FS_CardinalityType
<1>2. ASSUME NEW x \in S
      PROVE  /\ IsFiniteSet(Upto(x)) /\ Cardinality(Upto(x)) \in 1 .. n
  <2>1. Upto(x) \in SUBSET S /\ x \in Upto(x)
    OBVIOUS
  <2>2. IsFiniteSet(Upto(x)) /\ Cardinality(Upto(x)) <= n /\ Cardinality(Upto(x)) \in Nat
    BY <2>1, FS_Subset, FS_CardinalityType
  <2>3. Cardinality(Upto(x)) # 0
    BY <2>1, <2>2, FS_EmptySet
  <2> QED BY <1>1, <2>2, <2>3
<1>3. ASSUME NEW x \in S, NEW y \in S, x < y
      PROVE  Cardinality(Upto(x)) < Cardinality(Upto(y))
  <2>0. x \in Nat /\ y \in Nat /\ x < y
    BY <1>0, <1>3
  <2>1. Upto(x) \in SUBSET Upto(y)
    <3>1. ASSUME NEW z \in Upto(x) PROVE z \in Upto(y)
      <4>1. z \in S /\ z \in Nat /\ z <= x
        BY <1>0
      <4> QED BY <2>0, <4>1
    <3> QED BY <3>1
  <2>2. y \in Upto(y) /\ y \notin Upto(x)
    BY <2>0
  <2> HIDE DEF Upto
  <2> QED BY <2>1, <2>2, <1>2, FS_Subset
<1>4. IsFiniteSet(1 .. n) /\ Cardinality(1 .. n) = n
  BY <1>1, FS_Interval
<1>5. pos \in [S -> 1 .. n] /\ \A x, y \in S : x < y => pos[x] < pos[y]
  BY <1>2, <1>3
<1> HIDE DEF pos
<1>6. pos \in Surjection(S, 1 .. n)
  <2>1. pos \in Injection(S, 1 .. n)
    BY <1>1, <1>5 DEF Injection, IsInjective
  <2> QED BY <2>1, <1>4, FS_Injection
<1> DEFINE s == [i \in 1 .. n |-> CHOOSE x \in S : pos[x] = i]
<1>7. \A i \in 1 .. n : s[i] \in S /\ pos[s[i]] = i
  BY <1>6 DEF Surjection
<1>8. s \in [1 .. n -> S] /\ \A i, j \in DOMAIN s : i < j => s[i] < s[j]
  <2>1. s \in [1 .. n -> S] /\ DOMAIN s = 1 .. n
    BY <1>7
  <2>2. ASSUME NEW i \in 1 .. n, NEW j \in 1 .. n, i < j PROVE s[i] < s[j]
    <3>1. s[i] \in S /\ s[j] \in S /\ pos[s[i]] = i /\ pos[s[j]] = j
      BY <1>7
    <3> HIDE DEF s
    <3>2. s[i] \in Nat /\ s[j] \in Nat
      BY <1>0, <3>1
    <3>3. ~(s[j] < s[i]) /\ s[i] # s[j]
      <4>1. s[j] < s[i] => pos[s[j]] < pos[s[i]]
        BY <1>5, <3>1
      <4>2. i \in Nat /\ j \in Nat
        BY <1>1
      <4> QED BY <2>2, <3>1, <4>1, <4>2
    <3> QED BY <3>2, <3>3
  <2> HIDE DEF s
  <2> QED BY <2>1, <2>2
<1> DEFINE t == Ascending(S)
<1>9. t \in [1 .. n -> S] /\ \A i, j \in DOMAIN t : i < j => t[i] < t[j]
  <2> HIDE DEF s
  <2> QED BY <1>8 DEF Ascending
<1> HIDE DEF t, s
<1>10. t \in Surjection(1 .. n, S)
  <2>1. t \in Injection(1 .. n, S)
    <3>1. \A i \in 1 .. n : t[i] \in Nat
      BY <1>0, <1>9
    <3>2. \A i, j \in 1 .. n : t[i] = t[j] => i = j
      BY <1>1, <1>9, <3>1
    <3> QED BY <1>9, <3>2 DEF Injection, IsInjective
  <2> QED BY <2>1, <1>4, FS_Injection
<1>11. \A x \in S : \E i \in 1 .. n : t[i] = x
  BY <1>10 DEF Surjection
<1> QED BY <1>1, <1>9, <1>11 DEF t
-----------------------------------------------------------------------------
(* The receiver's state.                                                   *)
RcvFields == {"highest", "next", "released", "buffer", "holes", "goodbye", "media",
              "previous", "dest", "check", "passed", "ended", "forced"}

(* Every field holds a value of its kind.                                  *)
RcvTyped(r) ==
    /\ r = [f \in RcvFields |-> r[f]]
    /\ r.highest \in Nat /\ r.next \in Nat /\ r.check \in Nat
    /\ r.released \in BOOLEAN /\ r.goodbye \in BOOLEAN /\ r.passed \in BOOLEAN
    /\ r.ended \in BOOLEAN /\ r.forced \in BOOLEAN
    /\ r.media \in Lives \cup {None} /\ r.previous \in Lives \cup {None}
    /\ r.dest \in Lives \cup {None}
    /\ r.buffer = [e \in DOMAIN r.buffer |-> r.buffer[e]]
    /\ DOMAIN r.buffer \in SUBSET Nat
    /\ IsFiniteSet(DOMAIN r.buffer)
    /\ \A e \in DOMAIN r.buffer :
          r.buffer[e] \in [life : {r.media}, num : Numbers, age : 0 .. Hold]
    /\ \A s \in DOMAIN r.holes : r.holes[s] \in [wait : Nat, asked : 0 .. MaxRequests]

(* Before its first packet a stream is empty; from then on the buffer lies *)
(* between the next number to release and the highest one seen.            *)
Fresh(r) == r.highest = 0 /\ r.next = 0 /\ DOMAIN r.buffer = {} /\ ~r.released

(* Once a stream runs, the buffer lies between next and highest.           *)
Running(r) ==
    /\ r.highest >= Period /\ r.next >= 1 /\ r.next <= r.highest + 1
    /\ \A e \in DOMAIN r.buffer : r.next <= e /\ e <= r.highest
    /\ DOMAIN r.buffer # {} => r.highest \in DOMAIN r.buffer
    /\ DOMAIN r.buffer = {} => r.next = r.highest + 1
    /\ ~r.released => r.next \in DOMAIN r.buffer

(* No packet has been held longer than one in front of it.                 *)
Monotone(r) ==
    \A d, e \in DOMAIN r.buffer : d <= e => r.buffer[e].age <= r.buffer[d].age

(* The receiver between two passes.                                        *)
Shape(r) == /\ RcvTyped(r) /\ Monotone(r)
            /\ r.media = None => Fresh(r)
            /\ r.media # None => Running(r)

(* The fields outside F are the same in both.                              *)
Same(p, r, F) == \A f \in RcvFields \ F : p[f] = r[f]

(* What the network carries.                                               *)
MediaMsg == [kind : {"media"}, life : Lives, num : Numbers, seq : 0 .. Period - 1,
             resent : BOOLEAN, age : 0 .. MaxDelay]
RtcpMsg == [kind : {"report", "bye"}, life : Lives, age : 0 .. MaxDelay]
NackMsg == [kind : {"nack"}, to : Lives, life : Lives, asked : SUBSET (0 .. Period - 1),
            age : 0 .. MaxDelay]
Datagrams == MediaMsg \cup RtcpMsg \cup NackMsg

(* The constants, one by one.                                              *)
LEMMA Constants ==
  /\ Period \in Nat /\ Period > 1 /\ Period % 2 = 0
  /\ Hold \in Nat /\ Reorder \in Nat /\ MaxRequests \in Nat /\ Keep \in Nat
  /\ Lead \in Nat /\ MaxDelay \in Nat /\ MaxFaults \in Nat
  /\ MaxNacked \in Nat \ {0} /\ MaxTracked \in Nat \ {0} /\ Depth \in Nat \ {0}
  /\ ReportEvery \in Nat \ {0} /\ MaxSent \in Nat \ {0} /\ MaxLives \in Nat \ {0}
BY RistAssumption

(* Half the number space.                                                  *)
LEMMA HalfPeriod ==
  Period \div 2 \in Nat /\ Period = 2 * (Period \div 2) /\ Period \div 2 >= 1
BY Constants

(* A sequence number is unrolled to a number near the highest one seen.    *)
LEMMA ExtendFacts ==
  ASSUME NEW highest \in Nat, NEW seq \in 0 .. Period - 1,
         highest = 0 \/ highest >= Period
  PROVE  /\ Extend(highest, seq) \in Nat
         /\ Extend(highest, seq) >= 1
         /\ highest = 0 => Extend(highest, seq) = Period + seq
         /\ highest # 0 => /\ Extend(highest, seq) >= highest - Period \div 2
                           /\ Extend(highest, seq) < highest + Period \div 2
<1> DEFINE forward == (seq - highest) % Period
<1>1. forward \in 0 .. Period - 1
  BY Constants
<1>2. Extend(highest, seq) = IF highest = 0 THEN Period + seq
                             ELSE IF forward < Period \div 2 THEN highest + forward
                             ELSE highest - (Period - forward)
  BY DEF Extend, None
<1> HIDE DEF forward
<1> QED BY <1>1, <1>2, Constants, HalfPeriod

(* The age a new packet starts with.                                       *)
LEMMA ArrivalAgeFacts ==
  ASSUME NEW r, RcvTyped(r), NEW ext \in Nat
  PROVE  /\ ArrivalAge(r, ext) \in 0 .. Hold
         /\ (\A e \in DOMAIN r.buffer : e <= ext) => ArrivalAge(r, ext) = 0
         /\ (\E e \in DOMAIN r.buffer : e > ext) =>
               \E e \in DOMAIN r.buffer :
                  /\ e > ext /\ ArrivalAge(r, ext) = r.buffer[e].age
                  /\ \A d \in DOMAIN r.buffer : d > ext => e <= d
<1> DEFINE following == {e \in DOMAIN r.buffer : e > ext}
<1>1. \A e \in DOMAIN r.buffer : e \in Nat /\ r.buffer[e].age \in 0 .. Hold
  BY DEF RcvTyped
<1>2. CASE following = {}
  <2>1. ArrivalAge(r, ext) = 0 /\ ~\E e \in DOMAIN r.buffer : e > ext
    BY <1>2 DEF ArrivalAge
  <2> QED BY <2>1, Constants
<1>3. CASE following # {}
  <2>1. following \in SUBSET Nat
    BY <1>1
  <2>2. Min(following) \in following /\ \A y \in following : Min(following) <= y
    BY <1>3, <2>1, MinFacts
  <2>3. ArrivalAge(r, ext) = r.buffer[Min(following)].age
    BY <1>3 DEF ArrivalAge
  <2> DEFINE e == Min(following)
  <2>4. e \in DOMAIN r.buffer /\ e > ext /\ ArrivalAge(r, ext) = r.buffer[e].age
        /\ \A d \in DOMAIN r.buffer : d > ext => e <= d
    BY <2>2, <2>3
  <2>5. ~\A d \in DOMAIN r.buffer : d <= ext
    BY <1>1, <2>4
  <2> HIDE DEF e, following
  <2> QED BY <1>1, <2>4, <2>5
<1> QED BY <1>2, <1>3

(* RtpJitterBuffer::push leaves a packet out or puts it in its place.      *)
PutIn(p, r, m, ext) ==
    /\ ext \notin DOMAIN r.buffer /\ ~(r.released /\ ext < r.next)
    /\ DOMAIN p.buffer = DOMAIN r.buffer \cup {ext}
    /\ \A e \in DOMAIN r.buffer : p.buffer[e] = r.buffer[e]
    /\ p.buffer[ext] = [life |-> m.life, num |-> m.num, age |-> ArrivalAge(r, ext)]
    /\ p.highest = (IF r.highest >= ext THEN r.highest ELSE ext)
    /\ p.next = (IF r.next = 0 \/ ext < r.next THEN ext ELSE r.next)

(* A packet that is there already, or comes after its turn, is left out.   *)
LeftOut(p, r, ext) ==
    /\ ext \in DOMAIN r.buffer \/ (r.released /\ ext < r.next)
    /\ p.buffer = r.buffer /\ p.highest = r.highest /\ p.next = r.next

(* What Push does, field by field.                                         *)
LEMMA PushFields ==
  ASSUME NEW r, RcvTyped(r), NEW m, m.seq \in 0 .. Period - 1,
         Fresh(r) \/ Running(r)
  PROVE  LET p == Push(r, m)
             ext == Extend(r.highest, m.seq)
         IN  /\ p = [f \in RcvFields |-> p[f]]
             /\ p.buffer = [e \in DOMAIN p.buffer |-> p.buffer[e]]
             /\ Same(p, r, {"highest", "next", "buffer"})
             /\ PutIn(p, r, m, ext) \/ LeftOut(p, r, ext)
<1> DEFINE p == Push(r, m)
           ext == Extend(r.highest, m.seq)
           high == Max({r.highest, ext})
           late == r.next # None /\ ext < r.next /\ r.released
           first == IF r.next = None THEN ext ELSE Min({r.next, ext})
           packet == [life |-> m.life, num |-> m.num, age |-> ArrivalAge(r, ext)]
           buffer == [e \in DOMAIN r.buffer \cup {ext} |->
                         IF e = ext THEN packet ELSE r.buffer[e]]
<1>1. /\ r.highest \in Nat /\ r.next \in Nat /\ r = [f \in RcvFields |-> r[f]]
      /\ r.buffer = [e \in DOMAIN r.buffer |-> r.buffer[e]]
      /\ DOMAIN r = RcvFields
  BY DEF RcvTyped
<1>2. ext \in Nat
  BY <1>1, ExtendFacts DEF Fresh, Running
<1>3. high = (IF r.highest >= ext THEN r.highest ELSE ext)
      /\ first = (IF r.next = 0 \/ ext < r.next THEN ext ELSE r.next)
  <2>1. high = (IF r.highest >= ext THEN r.highest ELSE ext)
    BY <1>1, <1>2, MinMaxOfTwo
  <2>2. Min({r.next, ext}) = (IF r.next <= ext THEN r.next ELSE ext)
    BY <1>1, <1>2, MinMaxOfTwo
  <2> HIDE DEF ext
  <2> QED BY <1>1, <1>2, <2>1, <2>2 DEF None
<1>4. p = IF late \/ ext \in DOMAIN r.buffer THEN [r EXCEPT !.highest = high]
          ELSE [r EXCEPT !.highest = high, !.next = first, !.buffer = buffer]
  BY DEF Push
<1>5. CASE late \/ ext \in DOMAIN r.buffer
  <2>1. ext <= r.highest /\ (ext \in DOMAIN r.buffer \/ (r.released /\ ext < r.next))
    <3> HIDE DEF ext
    <3>1. CASE ext \in DOMAIN r.buffer
      BY <1>1, <1>2, <3>1 DEF Fresh, Running
    <3>2. CASE late
      <4>1. r.released /\ ext < r.next
        BY <3>2
      <4>2. r.next <= r.highest + 1
        BY <1>1, <4>1 DEF Fresh, Running
      <4> QED BY <1>1, <1>2, <4>1, <4>2
    <3> QED BY <1>5, <3>1, <3>2
  <2>2. high = r.highest
    BY <1>1, <1>2, <1>3, <2>1
  <2> HIDE DEF p, ext, high, late, first, packet, buffer
  <2>3. p = [r EXCEPT !.highest = r.highest]
    BY <1>4, <1>5, <2>2
  <2>4. p = [f \in RcvFields |-> p[f]] /\ \A f \in RcvFields : p[f] = r[f]
    BY <1>1, <2>3
  <2>5. p.buffer = r.buffer /\ p.highest = r.highest /\ p.next = r.next
    BY <2>4 DEF RcvFields
  <2>6. Same(p, r, {"highest", "next", "buffer"})
    BY <2>4 DEF Same
  <2>7. LeftOut(p, r, ext)
    BY <2>1, <2>5 DEF LeftOut
  <2> QED BY <1>1, <2>4, <2>5, <2>6, <2>7 DEF p, ext
<1>6. CASE ~(late \/ ext \in DOMAIN r.buffer)
  <2>1. ext \notin DOMAIN r.buffer /\ ~(r.released /\ ext < r.next)
    BY <1>1, <1>2, <1>6 DEF None
  <2>2. /\ DOMAIN buffer = DOMAIN r.buffer \cup {ext}
        /\ \A e \in DOMAIN r.buffer : buffer[e] = r.buffer[e]
        /\ buffer[ext] = packet
        /\ buffer = [e \in DOMAIN buffer |-> buffer[e]]
    <3> HIDE DEF ext, packet
    <3> QED BY <2>1
  <2> HIDE DEF p, ext, high, late, first, packet, buffer
  <2>3. p = [r EXCEPT !.highest = high, !.next = first, !.buffer = buffer]
    BY <1>4, <1>6
  <2>4. p = [f \in RcvFields |-> p[f]]
    BY <1>1, <2>3
  <2>5. p.buffer = buffer /\ p.highest = high /\ p.next = first
    BY <1>1, <2>3 DEF RcvFields
  <2>6. Same(p, r, {"highest", "next", "buffer"})
    BY <1>1, <2>3 DEF Same
  <2>7. PutIn(p, r, m, ext)
    BY <1>3, <2>1, <2>2, <2>5 DEF PutIn, packet
  <2> QED BY <2>2, <2>4, <2>5, <2>6, <2>7 DEF p, ext
<1> QED BY <1>5, <1>6

(* A stream that has received a packet is in shape.                        *)
LEMMA PushShape ==
  ASSUME NEW r, RcvTyped(r), Monotone(r), Fresh(r) \/ Running(r), r.media \in Lives,
         NEW m, m.seq \in 0 .. Period - 1, m.num \in Numbers, m.life = r.media
  PROVE  Shape(Push(r, m))
<1> DEFINE p == Push(r, m)
           ext == Extend(r.highest, m.seq)
<1>1. /\ p = [f \in RcvFields |-> p[f]]
      /\ p.buffer = [e \in DOMAIN p.buffer |-> p.buffer[e]]
      /\ Same(p, r, {"highest", "next", "buffer"})
      /\ PutIn(p, r, m, ext) \/ LeftOut(p, r, ext)
  BY PushFields
<1>2. /\ ext \in Nat /\ ext >= 1
      /\ r.highest = 0 => ext >= Period
  BY ExtendFacts, Constants DEF RcvTyped, Fresh, Running
<1>3. /\ ArrivalAge(r, ext) \in 0 .. Hold
      /\ (\A e \in DOMAIN r.buffer : e <= ext) => ArrivalAge(r, ext) = 0
      /\ (\E e \in DOMAIN r.buffer : e > ext) =>
               \E e \in DOMAIN r.buffer :
                  /\ e > ext /\ ArrivalAge(r, ext) = r.buffer[e].age
                  /\ \A d \in DOMAIN r.buffer : d > ext => e <= d
  BY <1>2, ArrivalAgeFacts
<1> HIDE DEF p, ext
<1>4. /\ p.released = r.released /\ p.holes = r.holes /\ p.goodbye = r.goodbye
      /\ p.media = r.media /\ p.previous = r.previous /\ p.dest = r.dest
      /\ p.check = r.check /\ p.passed = r.passed /\ p.ended = r.ended
      /\ p.forced = r.forced
  BY <1>1 DEF Same, RcvFields
<1>5. p.media # None
  BY <1>4, Constants DEF None, Lives
<1>6. CASE LeftOut(p, r, ext)
  <2>1. p.buffer = r.buffer /\ p.highest = r.highest /\ p.next = r.next
    BY <1>6 DEF LeftOut
  <2>2. RcvTyped(p)
    BY <1>1, <1>4, <2>1 DEF RcvTyped
  <2>3. Monotone(p)
    BY <2>1 DEF Monotone
  <2>4. Running(p)
    BY <1>4, <1>6, <2>1 DEF Running, LeftOut, Fresh
  <2> QED BY <1>5, <2>2, <2>3, <2>4 DEF Shape, p
<1>7. CASE PutIn(p, r, m, ext)
  <2>0. \A e \in DOMAIN r.buffer : e \in Nat /\ r.buffer[e].age \in 0 .. Hold
    BY DEF RcvTyped
  <2>1. /\ DOMAIN p.buffer = DOMAIN r.buffer \cup {ext}
        /\ \A e \in DOMAIN r.buffer : p.buffer[e] = r.buffer[e]
        /\ p.buffer[ext] = [life |-> m.life, num |-> m.num, age |-> ArrivalAge(r, ext)]
        /\ p.highest = (IF r.highest >= ext THEN r.highest ELSE ext)
        /\ p.next = (IF r.next = 0 \/ ext < r.next THEN ext ELSE r.next)
        /\ ext \notin DOMAIN r.buffer /\ ~(r.released /\ ext < r.next)
    BY <1>7 DEF PutIn
  <2>2. RcvTyped(p)
    <3>1. IsFiniteSet(DOMAIN p.buffer)
      <4>1. IsFiniteSet(DOMAIN r.buffer)
        BY DEF RcvTyped
      <4> QED BY <2>1, <4>1, FS_AddElement
    <3>2. p.highest \in Nat /\ p.next \in Nat /\ DOMAIN p.buffer \in SUBSET Nat
      BY <1>2, <2>1 DEF RcvTyped
    <3>3. ASSUME NEW e \in DOMAIN p.buffer
          PROVE  p.buffer[e] \in [life : {p.media}, num : Numbers, age : 0 .. Hold]
      <4>1. CASE e = ext
        BY <1>3, <1>4, <2>1, <4>1
      <4>2. CASE e \in DOMAIN r.buffer
        <5>1. r.buffer[e] \in [life : {r.media}, num : Numbers, age : 0 .. Hold]
          BY <4>2 DEF RcvTyped
        <5> QED BY <1>4, <2>1, <4>2, <5>1
      <4> QED BY <2>1, <4>1, <4>2
    <3> QED BY <1>1, <1>4, <3>1, <3>2, <3>3 DEF RcvTyped
  <2>3. Monotone(p)
    <3> SUFFICES ASSUME NEW d \in DOMAIN p.buffer, NEW e \in DOMAIN p.buffer, d <= e
                 PROVE  p.buffer[e].age <= p.buffer[d].age
      BY DEF Monotone
    <3>0. p.buffer[ext].age = ArrivalAge(r, ext)
      BY <2>1
    <3>1. CASE d = ext /\ e = ext
      BY <1>3, <3>0, <3>1
    <3>2. CASE d # ext /\ e # ext
      BY <2>1, <3>2 DEF Monotone
    <3>3. CASE d = ext /\ e # ext
      <4>1. e \in DOMAIN r.buffer /\ e > ext
        BY <1>2, <2>0, <2>1, <3>3
      <4>2. PICK f \in DOMAIN r.buffer : /\ ArrivalAge(r, ext) = r.buffer[f].age
                                         /\ \A g \in DOMAIN r.buffer : g > ext => f <= g
        BY <1>3, <4>1
      <4>3. r.buffer[e].age <= r.buffer[f].age
        BY <4>1, <4>2 DEF Monotone
      <4> QED BY <2>1, <3>0, <3>3, <4>1, <4>2, <4>3
    <3>4. CASE d # ext /\ e = ext
      <4>1. d \in DOMAIN r.buffer /\ r.buffer[d].age \in 0 .. Hold /\ p.buffer[d] = r.buffer[d]
            /\ d \in Nat
        BY <2>0, <2>1, <3>4
      <4>2. CASE \E g \in DOMAIN r.buffer : g > ext
        <5>1. PICK f \in DOMAIN r.buffer : f > ext /\ ArrivalAge(r, ext) = r.buffer[f].age
          BY <1>3, <4>2
        <5>2. d <= f
          BY <1>2, <2>0, <3>4, <4>1, <5>1
        <5>3. r.buffer[f].age <= r.buffer[d].age
          BY <4>1, <5>1, <5>2 DEF Monotone
        <5> QED BY <3>0, <3>4, <4>1, <5>1, <5>3
      <4>3. CASE ~\E g \in DOMAIN r.buffer : g > ext
        <5>1. ArrivalAge(r, ext) = 0
          BY <1>2, <1>3, <2>0, <4>3
        <5> QED BY <3>0, <3>4, <4>1, <5>1, Constants
      <4> QED BY <4>2, <4>3
    <3> QED BY <3>1, <3>2, <3>3, <3>4
  <2>4. Running(p)
    <3>1. CASE Fresh(r)
      <4>1. p.highest = ext /\ p.next = ext /\ DOMAIN p.buffer = {ext}
        BY <1>2, <2>1, <3>1 DEF Fresh
      <4> QED BY <1>2, <3>1, <4>1 DEF Running, Fresh
    <3>2. CASE Running(r)
      <4>1. /\ r.highest \in Nat /\ r.next \in Nat /\ r.highest >= Period /\ r.next >= 1
            /\ r.next <= r.highest + 1
        BY <3>2 DEF Running, RcvTyped
      <4>2. p.highest >= Period /\ p.next >= 1 /\ p.next <= p.highest + 1
            /\ p.next <= ext /\ ext <= p.highest /\ p.next <= r.next /\ p.highest >= r.highest
        BY <1>2, <2>1, <4>1, Constants
      <4>3. \A e \in DOMAIN p.buffer : p.next <= e /\ e <= p.highest
        <5> SUFFICES ASSUME NEW e \in DOMAIN p.buffer PROVE p.next <= e /\ e <= p.highest
          OBVIOUS
        <5>1. CASE e = ext
          BY <4>2, <5>1
        <5>2. CASE e \in DOMAIN r.buffer
          <6>1. e \in Nat /\ r.next <= e /\ e <= r.highest /\ p.next \in Nat /\ p.highest \in Nat
            BY <2>0, <2>2, <3>2, <5>2 DEF Running, RcvTyped
          <6> QED BY <4>1, <4>2, <6>1
        <5> QED BY <2>1, <5>1, <5>2
      <4>4. p.highest \in DOMAIN p.buffer
        <5>1. CASE r.highest >= ext
          <6>1. DOMAIN r.buffer = {} => r.released /\ r.next = r.highest + 1
            BY <3>2 DEF Running
          <6>2. DOMAIN r.buffer # {}
            BY <1>2, <2>1, <4>1, <5>1, <6>1
          <6> QED BY <2>1, <3>2, <5>1, <6>2 DEF Running
        <5>2. CASE ~(r.highest >= ext)
          BY <2>1, <5>2
        <5> QED BY <5>1, <5>2
      <4>5. ~p.released => p.next \in DOMAIN p.buffer
        BY <1>4, <2>1, <3>2 DEF Running
      <4> QED BY <2>1, <4>2, <4>3, <4>4, <4>5 DEF Running
    <3> QED BY <3>1, <3>2
  <2> QED BY <1>5, <2>2, <2>3, <2>4 DEF Shape, p
<1> QED BY <1>1, <1>6, <1>7

(* A stream that has been adopted starts with the packet that named it.    *)
Adopted(p, r, m) ==
    /\ ~m.resent /\ m.life # r.media /\ (r.media # None => r.previous # m.life)
    /\ p.media = m.life /\ p.previous = (IF r.media = None THEN r.previous ELSE r.media)
    /\ p.highest = Period + m.seq /\ p.next = Period + m.seq /\ ~p.released
    /\ DOMAIN p.buffer = {Period + m.seq}
    /\ p.buffer[Period + m.seq] = [life |-> m.life, num |-> m.num, age |-> 0]
    /\ p.check = r.check /\ p.passed = r.passed /\ p.ended = r.ended /\ p.forced = r.forced

(* The first packet of an empty stream.                                    *)
LEMMA FirstPush ==
  ASSUME NEW r, RcvTyped(r), Fresh(r), NEW m \in MediaMsg, r.media = m.life
  PROVE  LET p == Push(r, m)
         IN  /\ Shape(p)
             /\ Same(p, r, {"highest", "next", "buffer"})
             /\ p.highest = Period + m.seq /\ p.next = Period + m.seq /\ ~p.released
             /\ DOMAIN p.buffer = {Period + m.seq}
             /\ p.buffer[Period + m.seq] = [life |-> m.life, num |-> m.num, age |-> 0]
<1> DEFINE p == Push(r, m)
           ext == Extend(r.highest, m.seq)
<1>0. m.seq \in 0 .. Period - 1 /\ m.num \in Numbers /\ m.life \in Lives
  BY DEF MediaMsg
<1>1. /\ Same(p, r, {"highest", "next", "buffer"})
      /\ PutIn(p, r, m, ext) \/ LeftOut(p, r, ext)
  BY <1>0, PushFields
<1>2. Shape(p)
  <2>1. Monotone(r)
    BY DEF Monotone, Fresh
  <2> QED BY <1>0, <2>1, PushShape
<1>3. ext = Period + m.seq /\ ext \in Nat /\ ext >= 1
  <2>1. r.highest = 0 /\ 0 \in Nat
    BY DEF Fresh
  <2>2. /\ Extend(0, m.seq) \in Nat /\ Extend(0, m.seq) >= 1
        /\ Extend(0, m.seq) = Period + m.seq
    BY <1>0, <2>1, ExtendFacts
  <2> QED BY <2>1, <2>2
<1>4. ArrivalAge(r, ext) = 0
  BY <1>3, ArrivalAgeFacts DEF Fresh
<1> HIDE DEF p, ext
<1>5. PutIn(p, r, m, ext)
  BY <1>1 DEF LeftOut, Fresh
<1>6. p.released = r.released
  BY <1>1 DEF Same, RcvFields
<1> QED BY <1>1, <1>2, <1>3, <1>4, <1>5, <1>6 DEF PutIn, Fresh, p

(* accept_media refuses a packet, pushes it or adopts its stream.          *)
LEMMA AcceptFacts ==
  ASSUME NEW r, Shape(r), NEW m \in MediaMsg
  PROVE  LET p == Accept(r, m)
         IN  /\ Shape(p)
             /\ \/ p = r /\ r.media # m.life
                          /\ (m.resent \/ (r.media # None /\ r.previous = m.life))
                \/ p = Push(r, m) /\ r.media = m.life
                \/ Adopted(p, r, m)
<1> DEFINE p == Accept(r, m)
           q == IF r.media = None THEN [r EXCEPT !.media = m.life]
                ELSE FollowRestarted(r, m.life)
<1>0. m.seq \in 0 .. Period - 1 /\ m.num \in Numbers /\ m.life \in Lives /\ m.life # None
  BY Constants DEF MediaMsg, Lives, None
<1>1. RcvTyped(r) /\ Monotone(r) /\ DOMAIN r = RcvFields
  BY DEF Shape, RcvTyped
<1>2. CASE m.resent /\ r.media # m.life
  BY <1>2 DEF Accept
<1>3. CASE r.media = m.life
  <2>1. p = Push(r, m)
    BY <1>0, <1>3 DEF Accept
  <2>2. Running(r)
    BY <1>0, <1>3 DEF Shape
  <2>3. Shape(Push(r, m))
    BY <1>0, <1>1, <1>3, <2>2, PushShape
  <2> QED BY <1>3, <2>1, <2>3
<1>4. CASE /\ ~m.resent /\ r.media # m.life
           /\ r.media # None => r.previous # m.life
  <2>1. p = Push(q, m)
    BY <1>0, <1>4 DEF Accept
  <2>2. /\ q = [f \in RcvFields |-> q[f]]
        /\ q.media = m.life /\ q.previous = (IF r.media = None THEN r.previous ELSE r.media)
        /\ q.dest = r.dest /\ q.check = r.check /\ q.passed = r.passed /\ q.ended = r.ended
        /\ q.forced = r.forced /\ q.goodbye \in BOOLEAN
    <3>1. CASE r.media = None
      <4>1. q = [r EXCEPT !.media = m.life]
        BY <3>1
      <4> HIDE DEF q
      <4> QED BY <1>1, <3>1, <4>1 DEF RcvTyped, RcvFields
    <3>2. CASE r.media # None
      <4>1. q = [NewStream(r) EXCEPT !.media = m.life, !.previous = r.media]
        BY <3>2 DEF FollowRestarted
      <4> HIDE DEF q
      <4>2. NewStream(r) = [f \in RcvFields |-> NewStream(r)[f]]
        BY <1>1 DEF NewStream, RcvTyped
      <4>3. /\ NewStream(r).dest = r.dest /\ NewStream(r).check = r.check
            /\ NewStream(r).passed = r.passed /\ NewStream(r).ended = r.ended
            /\ NewStream(r).forced = r.forced /\ NewStream(r).goodbye = FALSE
        BY <1>1 DEF NewStream, RcvTyped, RcvFields
      <4>4. DOMAIN NewStream(r) = RcvFields
        BY <4>2
      <4> HIDE DEF NewStream
      <4> QED BY <3>2, <4>1, <4>2, <4>3, <4>4 DEF RcvFields
    <3> QED BY <3>1, <3>2
  <2>3. Fresh(q) /\ q.released \in BOOLEAN
        /\ q.buffer = [e \in DOMAIN q.buffer |-> q.buffer[e]]
        /\ \A s \in DOMAIN q.holes : q.holes[s] \in [wait : Nat, asked : 0 .. MaxRequests]
    <3>1. CASE r.media = None
      <4>1. q = [r EXCEPT !.media = m.life]
        BY <3>1
      <4> HIDE DEF q
      <4>2. /\ q.highest = r.highest /\ q.next = r.next /\ q.buffer = r.buffer
            /\ q.released = r.released /\ q.holes = r.holes
        BY <1>1, <4>1 DEF RcvFields
      <4>3. Fresh(r)
        BY <3>1 DEF Shape
      <4> QED BY <1>1, <4>2, <4>3 DEF Fresh, RcvTyped
    <3>2. CASE r.media # None
      <4>1. q = [NewStream(r) EXCEPT !.media = m.life, !.previous = r.media]
        BY <3>2 DEF FollowRestarted
      <4> HIDE DEF q
      <4>2. NewStream(r) = [f \in RcvFields |-> NewStream(r)[f]]
        BY <1>1 DEF NewStream, RcvTyped
      <4>3. /\ NewStream(r).highest = 0 /\ NewStream(r).next = 0
            /\ NewStream(r).buffer = NoPackets /\ NewStream(r).holes = NoHoles
            /\ NewStream(r).released = FALSE
        BY <1>1 DEF NewStream, RcvTyped, RcvFields, None
      <4>4. DOMAIN NewStream(r) = RcvFields
        BY <4>2
      <4> HIDE DEF NewStream
      <4>5. /\ q.highest = 0 /\ q.next = 0 /\ q.buffer = NoPackets /\ q.holes = NoHoles
            /\ q.released = FALSE
        BY <4>1, <4>3, <4>4 DEF RcvFields
      <4> QED BY <4>5 DEF Fresh, NoPackets, NoHoles
    <3> QED BY <3>1, <3>2
  <2> HIDE DEF q, p
  <2>4. RcvTyped(q)
    <3>1. /\ q.highest \in Nat /\ q.next \in Nat /\ q.check \in Nat /\ q.released \in BOOLEAN
          /\ q.passed \in BOOLEAN /\ q.ended \in BOOLEAN /\ q.forced \in BOOLEAN
          /\ q.media \in Lives \cup {None} /\ q.previous \in Lives \cup {None}
          /\ q.dest \in Lives \cup {None}
      <4>1. q.highest \in Nat /\ q.next \in Nat
        BY <2>3 DEF Fresh
      <4>2. q.released \in BOOLEAN
        BY <2>3
      <4> QED BY <1>0, <1>1, <2>2, <4>1, <4>2 DEF RcvTyped
    <3>2. IsFiniteSet(DOMAIN q.buffer) /\ DOMAIN q.buffer \in SUBSET Nat
      BY <2>3, FS_EmptySet DEF Fresh
    <3> QED BY <2>2, <2>3, <3>1, <3>2 DEF RcvTyped, Fresh
  <2>5. /\ Shape(p) /\ Same(p, q, {"highest", "next", "buffer"})
        /\ p.highest = Period + m.seq /\ p.next = Period + m.seq /\ ~p.released
        /\ DOMAIN p.buffer = {Period + m.seq}
        /\ p.buffer[Period + m.seq] = [life |-> m.life, num |-> m.num, age |-> 0]
    BY <2>1, <2>2, <2>3, <2>4, FirstPush
  <2>6. /\ p.media = q.media /\ p.previous = q.previous /\ p.dest = q.dest
        /\ p.check = q.check /\ p.passed = q.passed /\ p.ended = q.ended
        /\ p.forced = q.forced
    BY <2>5 DEF Same, RcvFields
  <2>7. Adopted(p, r, m)
    BY <1>4, <2>2, <2>5, <2>6 DEF Adopted
  <2> QED BY <2>5, <2>7 DEF p
<1>5. CASE ~m.resent /\ r.media # m.life /\ r.media # None /\ r.previous = m.life
  BY <1>5 DEF Accept
<1> QED BY <1>2, <1>3, <1>4, <1>5

(* What RTCP changes.                                                      *)
LEMMA TakeRtcpFacts ==
  ASSUME NEW r, Shape(r), NEW ms, NEW last \in Lives \cup {None}
  PROVE  LET p == TakeRtcp(r, ms, last)
         IN  /\ Shape(p) /\ Same(p, r, {"dest", "goodbye"})
             /\ p.dest = last
             /\ p.goodbye = (r.goodbye \/ \E m \in ms : m.kind = "bye" /\ m.life = r.media)
<1> DEFINE p == TakeRtcp(r, ms, last)
           bye == r.goodbye \/ \E m \in ms : m.kind = "bye" /\ m.life = r.media
<1>1. RcvTyped(r) /\ DOMAIN r = RcvFields
  BY DEF Shape, RcvTyped
<1>2. bye \in BOOLEAN
  OBVIOUS
<1>3. p = [r EXCEPT !.dest = last, !.goodbye = bye]
  BY DEF TakeRtcp
<1> HIDE DEF p, bye
<1>4. p = [f \in RcvFields |-> p[f]] /\ p.dest = last /\ p.goodbye = bye
  BY <1>1, <1>3 DEF RcvFields, RcvTyped
<1>5. Same(p, r, {"dest", "goodbye"})
  BY <1>1, <1>3 DEF Same
<1>6. /\ p.highest = r.highest /\ p.next = r.next /\ p.check = r.check
      /\ p.released = r.released /\ p.passed = r.passed /\ p.ended = r.ended
      /\ p.forced = r.forced /\ p.media = r.media /\ p.previous = r.previous
      /\ p.buffer = r.buffer /\ p.holes = r.holes
  BY <1>5 DEF Same, RcvFields
<1>7. RcvTyped(p)
  BY <1>1, <1>2, <1>4, <1>6 DEF RcvTyped
<1>8. Shape(p)
  BY <1>6, <1>7 DEF Shape, Monotone, Fresh, Running
<1> QED BY <1>4, <1>5, <1>8 DEF p, bye

(* The packets that go out are the front of the buffer, and what stays has *)
(* time left.                                                              *)
LEMMA DueFacts ==
  ASSUME NEW r, Shape(r)
  PROVE  LET due == Due(r)
         IN  /\ due \in SUBSET (DOMAIN r.buffer) /\ due \in SUBSET Nat /\ IsFiniteSet(due)
             /\ \A e \in due, d \in DOMAIN r.buffer : d <= e => d \in due
             /\ \A e \in DOMAIN r.buffer \ due : r.buffer[e].age < Hold
             /\ \A e \in due : \/ r.buffer[e].age >= Hold
                               \/ Cardinality(DOMAIN r.buffer) >= Depth
             /\ due # {} => Max(due) \in due /\ \A e \in due : Max(due) >= e
<1> DEFINE due == Due(r)
           D == DOMAIN r.buffer
           Ready(e) == \/ r.buffer[e].age >= Hold
                       \/ Cardinality({d \in D : d >= e}) >= Depth
<1>0. /\ D \in SUBSET Nat /\ IsFiniteSet(D) /\ \A e \in D : e \in Nat
      /\ \A e \in D : r.buffer[e].age \in 0 .. Hold
      /\ Monotone(r)
  BY DEF Shape, RcvTyped
<1>1. due = {e \in D : \A d \in D : d <= e => Ready(d)}
  BY DEF Due
<1> HIDE DEF due
<1>2. due \in SUBSET D /\ due \in SUBSET Nat /\ IsFiniteSet(due)
  BY <1>0, <1>1, FS_Subset
<1>3. ASSUME NEW e \in due, NEW d \in D, d <= e PROVE d \in due
  <2>1. ASSUME NEW g \in D, g <= d PROVE g <= e
    BY <1>0, <1>2, <1>3, <2>1
  <2> HIDE DEF Ready
  <2> QED BY <1>1, <1>2, <1>3, <2>1
<1>4. ASSUME NEW e \in D \ due PROVE r.buffer[e].age < Hold
  <2> SUFFICES ASSUME r.buffer[e].age >= Hold PROVE FALSE
    BY <1>0, Constants
  <2>1. ASSUME NEW d \in D, d <= e PROVE r.buffer[d].age >= Hold
    <3>1. r.buffer[e].age <= r.buffer[d].age
      BY <1>0, <2>1 DEF Monotone
    <3> QED BY <1>0, <3>1, Constants
  <2> QED BY <1>1, <1>4, <2>1
<1>5. ASSUME NEW e \in due
      PROVE  r.buffer[e].age >= Hold \/ Cardinality(D) >= Depth
  <2>1. Ready(e)
    <3>1. e \in Nat /\ e <= e
      BY <1>0, <1>2
    <3> HIDE DEF Ready
    <3> QED BY <1>1, <1>2, <3>1
  <2> DEFINE above == {d \in D : d >= e}
  <2>2. above \in SUBSET D
    OBVIOUS
  <2>3. Cardinality(above) <= Cardinality(D) /\ Cardinality(above) \in Nat
        /\ Cardinality(D) \in Nat
    <3> HIDE DEF above, D
    <3> QED BY <1>0, <2>2, FS_Subset, FS_CardinalityType
  <2>4. r.buffer[e].age >= Hold \/ Cardinality(above) >= Depth
    BY <2>1
  <2> HIDE DEF above, D
  <2> QED BY <2>3, <2>4, Constants
<1>6. due # {} => Max(due) \in due /\ \A e \in due : Max(due) >= e
  BY <1>2, MaxOfFinite
<1> QED BY <1>2, <1>3, <1>4, <1>5, <1>6 DEF due

(* What Pop does, field by field.                                          *)
LEMMA PopFields ==
  ASSUME NEW r, Shape(r)
  PROVE  LET p == Pop(r)
             due == Due(r)
         IN  /\ p = [f \in RcvFields |-> p[f]]
             /\ p.buffer = [e \in DOMAIN p.buffer |-> p.buffer[e]]
             /\ Same(p, r, {"next", "released", "buffer", "forced"})
             /\ DOMAIN p.buffer = DOMAIN r.buffer \ due
             /\ \A e \in DOMAIN p.buffer : p.buffer[e] = r.buffer[e]
             /\ p.next = (IF due = {} THEN r.next ELSE Max(due) + 1)
             /\ p.released = (r.released \/ due # {})
             /\ p.forced = (r.forced \/ \E e \in due : r.buffer[e].age < Hold)
<1> DEFINE p == Pop(r)
           due == Due(r)
           buffer == [e \in DOMAIN r.buffer \ due |-> r.buffer[e]]
           forced == r.forced \/ \E e \in due : r.buffer[e].age < Hold
<1>1. RcvTyped(r) /\ DOMAIN r = RcvFields
  BY DEF Shape, RcvTyped
<1>2. CASE due = {}
  <2>1. p = r
    BY <1>2 DEF Pop
  <2>2. r.forced = forced /\ r.released = (r.released \/ due # {})
    <3>1. r.forced \in BOOLEAN /\ r.released \in BOOLEAN
      BY <1>1 DEF RcvTyped
    <3> HIDE DEF due
    <3> QED BY <1>2, <3>1
  <2>3. Same(r, r, {"next", "released", "buffer", "forced"})
    BY DEF Same
  <2> HIDE DEF p, due
  <2> QED BY <1>1, <1>2, <2>1, <2>2, <2>3 DEF RcvTyped, p, due
<1>3. CASE due # {}
  <2>1. p = [r EXCEPT !.next = Max(due) + 1, !.released = TRUE, !.buffer = buffer,
                      !.forced = forced]
    BY <1>3 DEF Pop
  <2>2. /\ DOMAIN buffer = DOMAIN r.buffer \ due
        /\ \A e \in DOMAIN r.buffer \ due : buffer[e] = r.buffer[e]
        /\ buffer = [e \in DOMAIN buffer |-> buffer[e]]
    <3> HIDE DEF due
    <3> QED OBVIOUS
  <2> HIDE DEF p, due, buffer, forced
  <2>3. p = [f \in RcvFields |-> p[f]]
    BY <1>1, <2>1 DEF RcvTyped
  <2>4. /\ p.next = Max(due) + 1 /\ p.released = TRUE /\ p.buffer = buffer
        /\ p.forced = forced
    BY <1>1, <2>1 DEF RcvFields
  <2>5. Same(p, r, {"next", "released", "buffer", "forced"})
    BY <1>1, <2>1 DEF Same
  <2>6. p.released = (r.released \/ due # {})
    BY <1>3, <2>4
  <2>7. p.buffer = [e \in DOMAIN p.buffer |-> p.buffer[e]]
    BY <2>4 DEF buffer
  <2>8. DOMAIN p.buffer = DOMAIN r.buffer \ due
        /\ \A e \in DOMAIN p.buffer : p.buffer[e] = r.buffer[e]
    BY <2>2, <2>4
  <2>9. p.next = (IF due = {} THEN r.next ELSE Max(due) + 1)
    BY <1>3, <2>4
  <2> USE DEF p, due, forced
  <2> QED BY <2>3, <2>4, <2>5, <2>6, <2>7, <2>8, <2>9
<1> QED BY <1>2, <1>3

(* Popping keeps the shape, and nothing overdue stays.                     *)
LEMMA PopShape ==
  ASSUME NEW r, Shape(r)
  PROVE  /\ Shape(Pop(r))
         /\ \A e \in DOMAIN Pop(r).buffer : Pop(r).buffer[e].age < Hold
<1> DEFINE p == Pop(r)
           due == Due(r)
<1>1. /\ p = [f \in RcvFields |-> p[f]]
      /\ p.buffer = [e \in DOMAIN p.buffer |-> p.buffer[e]]
      /\ Same(p, r, {"next", "released", "buffer", "forced"})
      /\ DOMAIN p.buffer = DOMAIN r.buffer \ due
      /\ \A e \in DOMAIN p.buffer : p.buffer[e] = r.buffer[e]
      /\ p.next = (IF due = {} THEN r.next ELSE Max(due) + 1)
      /\ p.released = (r.released \/ due # {})
      /\ p.forced = (r.forced \/ \E e \in due : r.buffer[e].age < Hold)
  BY PopFields
<1>2. /\ due \in SUBSET (DOMAIN r.buffer) /\ due \in SUBSET Nat /\ IsFiniteSet(due)
      /\ \A e \in due, d \in DOMAIN r.buffer : d <= e => d \in due
      /\ \A e \in DOMAIN r.buffer \ due : r.buffer[e].age < Hold
      /\ due # {} => Max(due) \in due /\ \A e \in due : Max(due) >= e
  BY DueFacts
<1> HIDE DEF p, due
<1>3. RcvTyped(r) /\ Monotone(r)
  BY DEF Shape
<1>4. /\ p.highest = r.highest /\ p.check = r.check /\ p.passed = r.passed
      /\ p.ended = r.ended /\ p.media = r.media /\ p.previous = r.previous
      /\ p.dest = r.dest /\ p.goodbye = r.goodbye /\ p.holes = r.holes
  BY <1>1 DEF Same, RcvFields
<1>5. RcvTyped(p)
  <2>1. p.next \in Nat
    BY <1>1, <1>2, <1>3 DEF RcvTyped
  <2>2. IsFiniteSet(DOMAIN p.buffer) /\ DOMAIN p.buffer \in SUBSET Nat
    <3>1. IsFiniteSet(DOMAIN r.buffer) /\ DOMAIN r.buffer \in SUBSET Nat
      BY <1>3 DEF RcvTyped
    <3>2. DOMAIN p.buffer \in SUBSET (DOMAIN r.buffer)
      BY <1>1
    <3> QED BY <3>1, <3>2, FS_Subset
  <2>3. p.released \in BOOLEAN /\ p.forced \in BOOLEAN
    BY <1>1
  <2>4. \A e \in DOMAIN p.buffer :
           p.buffer[e] \in [life : {p.media}, num : Numbers, age : 0 .. Hold]
    BY <1>1, <1>3, <1>4 DEF RcvTyped
  <2> QED BY <1>1, <1>3, <1>4, <2>1, <2>2, <2>3, <2>4 DEF RcvTyped
<1>6. Monotone(p)
  BY <1>1, <1>3 DEF Monotone
<1>7. ASSUME r.media = None PROVE Fresh(p)
  <2>1. Fresh(r)
    BY <1>7 DEF Shape
  <2>2. due = {}
    BY <1>2, <2>1 DEF Fresh
  <2> QED BY <1>1, <1>4, <2>1, <2>2 DEF Fresh
<1>8. ASSUME r.media # None PROVE Running(p)
  <2>1. Running(r)
    BY <1>8 DEF Shape
  <2>2. CASE due = {}
    <3>1. DOMAIN p.buffer = DOMAIN r.buffer /\ p.next = r.next /\ (p.released <=> r.released)
      BY <1>1, <2>2
    <3> QED BY <1>4, <2>1, <3>1 DEF Running
  <2>3. CASE due # {}
    <3>0. \A e \in DOMAIN r.buffer : e \in Nat
      BY <1>3 DEF RcvTyped
    <3>1. /\ Max(due) \in due /\ Max(due) \in Nat /\ Max(due) \in DOMAIN r.buffer
          /\ r.next <= Max(due) /\ Max(due) <= r.highest /\ r.highest \in DOMAIN r.buffer
      BY <1>2, <2>1, <2>3 DEF Running
    <3>2. p.next = Max(due) + 1 /\ p.released = TRUE
      BY <1>1, <2>3
    <3>3. /\ r.highest \in Nat /\ r.next \in Nat /\ r.highest >= Period /\ r.next >= 1
      BY <1>3, <2>1 DEF Running, RcvTyped
    <3>4. ASSUME NEW e \in DOMAIN p.buffer PROVE p.next <= e /\ e <= p.highest
      <4>1. e \in DOMAIN r.buffer /\ e \notin due /\ e \in Nat /\ e <= r.highest
        BY <1>1, <2>1, <3>0 DEF Running
      <4>2. ~(e <= Max(due))
        BY <1>2, <3>1, <4>1
      <4> QED BY <1>4, <3>1, <3>2, <4>1, <4>2
    <3>5. ASSUME DOMAIN p.buffer # {} PROVE p.highest \in DOMAIN p.buffer
      <4>1. PICK e \in DOMAIN p.buffer : TRUE
        BY <3>5
      <4>2. e \in DOMAIN r.buffer /\ e \notin due /\ e <= r.highest
        BY <1>1, <2>1 DEF Running
      <4>3. r.highest \notin due
        BY <1>2, <4>2
      <4> QED BY <1>1, <1>4, <3>1, <4>3
    <3>6. ASSUME DOMAIN p.buffer = {} PROVE p.next = p.highest + 1
      <4>1. r.highest \in due
        BY <1>1, <3>1, <3>6
      <4>2. Max(due) = r.highest
        BY <1>2, <2>3, <3>1, <3>3, <4>1
      <4> QED BY <1>4, <3>2, <4>2
    <3>7. p.highest >= Period /\ p.next >= 1 /\ p.next <= p.highest + 1
      BY <1>4, <3>1, <3>2, <3>3
    <3> QED BY <3>2, <3>4, <3>5, <3>6, <3>7 DEF Running
  <2> QED BY <2>2, <2>3
<1>9. Shape(p)
  BY <1>4, <1>5, <1>6, <1>7, <1>8 DEF Shape
<1>10. \A e \in DOMAIN p.buffer : p.buffer[e].age < Hold
  BY <1>1, <1>2
<1> QED BY <1>9, <1>10 DEF p

(* What goes out: the due packets, in the order of their numbers.          *)
LEMMA PoppedFacts ==
  ASSUME NEW r, Shape(r)
  PROVE  LET n == Cardinality(Due(r))
             a == Ascending(Due(r))
         IN  /\ Popped(r) \in Seq(Packets) /\ Len(Popped(r)) = n /\ n \in Nat
             /\ a \in [1 .. n -> Due(r)]
             /\ \A i, j \in 1 .. n : i < j => a[i] < a[j]
             /\ \A e \in Due(r) : \E i \in 1 .. n : a[i] = e
             /\ \A i \in 1 .. n : /\ Popped(r)[i].life = r.media
                                  /\ Popped(r)[i].num = r.buffer[a[i]].num
<1> DEFINE due == Due(r)
           n == Cardinality(due)
           a == Ascending(due)
<1>1. due \in SUBSET (DOMAIN r.buffer) /\ due \in SUBSET Nat /\ IsFiniteSet(due)
  BY DueFacts
<1> HIDE DEF due
<1>2. /\ n \in Nat /\ a \in [1 .. n -> due]
      /\ \A i, j \in 1 .. n : i < j => a[i] < a[j]
      /\ \A e \in due : \E i \in 1 .. n : a[i] = e
  BY <1>1, AscendingFacts
<1>3. Popped(r) = [i \in 1 .. n |-> LET p == r.buffer[a[i]] IN [life |-> p.life, num |-> p.num]]
  BY DEF Popped, due
<1> HIDE DEF n, a
<1>4. ASSUME NEW i \in 1 .. n
      PROVE  /\ Popped(r)[i] \in Packets /\ Popped(r)[i].life = r.media
             /\ Popped(r)[i].num = r.buffer[a[i]].num
  <2>1. a[i] \in DOMAIN r.buffer
    BY <1>1, <1>2
  <2>2. r.media \in Lives
    BY <2>1 DEF Shape, Fresh, RcvTyped
  <2>3. r.buffer[a[i]] \in [life : {r.media}, num : Numbers, age : 0 .. Hold]
    BY <2>1 DEF Shape, RcvTyped
  <2>4. Popped(r)[i] = [life |-> r.buffer[a[i]].life, num |-> r.buffer[a[i]].num]
    BY <1>3
  <2> QED BY <2>2, <2>3, <2>4 DEF Packets
<1>5. Popped(r) \in Seq(Packets) /\ Len(Popped(r)) = n
  <2>1. Popped(r) \in [1 .. n -> Packets]
    BY <1>3, <1>4
  <2> QED BY <1>2, <2>1
<1> QED BY <1>2, <1>4, <1>5 DEF n, a, due

(* What is asked for is a set of sequence numbers that may be asked for.   *)
LEMMA RequestsFacts ==
  ASSUME NEW r, Shape(r)
  PROVE  /\ Missing(r) \in SUBSET Nat
         /\ Requests(r) \in SUBSET (0 .. Period - 1)
         /\ \A seq \in Requests(r) : Loss(r, seq).asked < MaxRequests
<1>1. Missing(r) \in SUBSET Nat
  <2>1. r.next \in Nat
    BY DEF Shape, RcvTyped
  <2>2. CASE r.next = None \/ DOMAIN r.buffer = {}
    BY <2>2 DEF Missing
  <2>3. CASE ~(r.next = None \/ DOMAIN r.buffer = {})
    <3> DEFINE end == Min({Max(DOMAIN r.buffer), r.next + Depth})
    <3>1. Missing(r) = Lowest((r.next .. end - 1) \ DOMAIN r.buffer, MaxTracked)
      BY <2>3 DEF Missing
    <3>2. end \in Nat
      <4>1. Max(DOMAIN r.buffer) \in Nat
        <5>1. DOMAIN r.buffer \in SUBSET Nat /\ IsFiniteSet(DOMAIN r.buffer)
          BY DEF Shape, RcvTyped
        <5> QED BY <2>3, <5>1, MaxOfFinite
      <4> QED BY <2>1, <4>1, MinMaxOfTwo, Constants
    <3> HIDE DEF end
    <3>3. r.next .. end - 1 \in SUBSET Nat
      BY <2>1, <3>2
    <3> QED BY <3>1, <3>3 DEF Lowest
  <2> QED BY <2>2, <2>3
<1> DEFINE may == {h \in Missing(r) : LET loss == Loss(r, h % Period)
                                      IN  loss.asked < MaxRequests /\ loss.wait = 0}
<1>2. Requests(r) = {e % Period : e \in Lowest(may, MaxNacked)}
  BY DEF Requests
<1>3. Lowest(may, MaxNacked) \in SUBSET may
  BY DEF Lowest
<1>4. \A e \in may : e \in Nat /\ e % Period \in 0 .. Period - 1
                     /\ Loss(r, e % Period).asked < MaxRequests
  BY <1>1, Constants
<1> HIDE DEF may
<1> QED BY <1>1, <1>2, <1>3, <1>4

(* What is known of a hole.                                                *)
LEMMA LossTyped ==
  ASSUME NEW r, Shape(r), NEW seq
  PROVE  Loss(r, seq) \in [wait : Nat, asked : 0 .. MaxRequests]
BY Constants DEF Loss, Shape, RcvTyped

(* Looking for holes changes only what is known of them.                   *)
LEMMA AskedFacts ==
  ASSUME NEW r, Shape(r)
  PROVE  Shape(Asked(r)) /\ Same(Asked(r), r, {"check", "holes"}) /\ Asked(r).check = 1
<1> DEFINE p == Asked(r)
           holes == [seq \in {e % Period : e \in Missing(r)} |->
                        IF seq \in Requests(r)
                        THEN [wait |-> RetryInterval, asked |-> Loss(r, seq).asked + 1]
                        ELSE Loss(r, seq)]
<1>1. RcvTyped(r) /\ DOMAIN r = RcvFields
  BY DEF Shape, RcvTyped
<1>2. p = [r EXCEPT !.check = 1, !.holes = holes]
  BY DEF Asked
<1>3. RetryInterval \in Nat
  <2>1. Max({MaxRequests, 1}) \in Nat /\ Max({MaxRequests, 1}) >= 1
    <3>1. MaxRequests \in Nat /\ MaxRequests \in Int /\ 1 \in Int
      BY Constants
    <3>2. Max({MaxRequests, 1}) = IF MaxRequests >= 1 THEN MaxRequests ELSE 1
      BY <3>1, MinMaxOfTwo
    <3> QED BY <3>1, <3>2
  <2> DEFINE n == Max({MaxRequests, 1})
             h == IF Hold > Reorder THEN Hold - Reorder ELSE 0
  <2>2. h \in Nat
    BY Constants
  <2>3. RetryInterval = h \div n
    BY DEF RetryInterval
  <2> HIDE DEF n, h
  <2>4. n \in Nat /\ n >= 1
    BY <2>1 DEF n
  <2> QED BY <2>2, <2>3, <2>4
<1>4. ASSUME NEW seq \in DOMAIN holes
      PROVE  holes[seq] \in [wait : Nat, asked : 0 .. MaxRequests]
  <2>1. Loss(r, seq) \in [wait : Nat, asked : 0 .. MaxRequests]
    BY LossTyped
  <2>2. seq \in Requests(r) => Loss(r, seq).asked < MaxRequests
    BY RequestsFacts
  <2>3. seq \in Requests(r) =>
           [wait |-> RetryInterval, asked |-> Loss(r, seq).asked + 1]
              \in [wait : Nat, asked : 0 .. MaxRequests]
    BY <1>3, <2>1, <2>2, Constants
  <2>4. holes[seq] = IF seq \in Requests(r)
                     THEN [wait |-> RetryInterval, asked |-> Loss(r, seq).asked + 1]
                     ELSE Loss(r, seq)
    OBVIOUS
  <2> HIDE DEF holes
  <2> QED BY <2>1, <2>3, <2>4
<1> HIDE DEF p, holes
<1>5. p = [f \in RcvFields |-> p[f]] /\ p.check = 1 /\ p.holes = holes
  BY <1>1, <1>2 DEF RcvFields, RcvTyped
<1>6. Same(p, r, {"check", "holes"})
  BY <1>1, <1>2 DEF Same
<1>7. /\ p.highest = r.highest /\ p.next = r.next /\ p.released = r.released
      /\ p.buffer = r.buffer /\ p.goodbye = r.goodbye /\ p.media = r.media
      /\ p.previous = r.previous /\ p.dest = r.dest /\ p.passed = r.passed
      /\ p.ended = r.ended /\ p.forced = r.forced
  BY <1>6 DEF Same, RcvFields
<1>8. RcvTyped(p)
  BY <1>1, <1>4, <1>5, <1>7 DEF RcvTyped
<1>9. Shape(p)
  BY <1>7, <1>8 DEF Shape, Monotone, Fresh, Running
<1> QED BY <1>5, <1>6, <1>9 DEF p
-----------------------------------------------------------------------------
(* One pass of the receiver.                                               *)

(* How the receiver takes a media datagram.                                *)
Took(r, m) ==
    \/ /\ Same(r, rcv, {"dest", "goodbye"})
       /\ rcv.media # m.life
       /\ m.resent \/ (rcv.media # None /\ rcv.previous = m.life)
    \/ /\ Same(r, rcv, {"highest", "next", "buffer", "dest", "goodbye"})
       /\ rcv.media = m.life
       /\ \/ PutIn(r, rcv, m, Extend(rcv.highest, m.seq))
          \/ LeftOut(r, rcv, Extend(rcv.highest, m.seq))
    \/ Adopted(r, rcv, m)

(* What it has read in this pass.                                          *)
ReadIn(r) ==
    \/ /\ Same(r, rcv, {"dest", "goodbye"})
       /\ AtMediaSocket' = AtMediaSocket
       /\ faults' = faults
    \/ \E m \in AtMediaSocket :
          /\ Took(r, m)
          /\ \/ /\ AtMediaSocket' = AtMediaSocket \ {m}
                /\ faults' = faults
             \/ /\ AtMediaSocket' = AtMediaSocket
                /\ faults.count < MaxFaults
                /\ faults' = [faults EXCEPT !.count = @ + 1]

(* What it leaves behind.                                                  *)
LeftBy(r) ==
    /\ Same(rcv', Pop(r), {"check", "holes", "passed", "ended"})
    /\ Shape(rcv')
    /\ rcv'.passed \/ DOMAIN rcv'.buffer = {}
    /\ rcv'.ended => r.ended \/ DOMAIN rcv'.buffer = {}
    /\ out' = out \o Popped(r)

(* Only such datagrams are under way.                                      *)
NetTyped == net \in SUBSET Datagrams

(* The NACK a pass sends.                                                  *)
LEMMA NacksTyped ==
  ASSUME NEW r, Shape(r)
  PROVE  Nacks(r) \in SUBSET NackMsg
<1>1. CASE Checks(r) /\ r.media # None /\ Requests(r) # {}
  <2> DEFINE m == [kind |-> "nack", to |-> r.dest, life |-> r.media, asked |-> Requests(r),
                   age |-> 0]
  <2>1. Nacks(r) = {m}
    BY <1>1 DEF Nacks
  <2>2. r.dest \in Lives /\ r.media \in Lives
    BY <1>1 DEF Checks, Shape, RcvTyped
  <2>3. m \in NackMsg
    BY <2>2, RequestsFacts, Constants DEF NackMsg
  <2> HIDE DEF m
  <2> QED BY <2>1, <2>3
<1>2. CASE ~(Checks(r) /\ r.media # None /\ Requests(r) # {})
  BY <1>2 DEF Nacks
<1> QED BY <1>1, <1>2

(* The kinds of datagram are apart.                                        *)
LEMMA Kinds ==
  /\ \A m \in MediaMsg : m.kind = "media"
  /\ \A m \in RtcpMsg : m.kind \in {"report", "bye"}
  /\ \A m \in NackMsg : m.kind = "nack"
BY DEF MediaMsg, RtcpMsg, NackMsg

(* What is read at the media socket.                                       *)
LEMMA MediaTyped ==
  ASSUME NetTyped, NEW m \in AtMediaSocket
  PROVE  m \in MediaMsg
BY Kinds DEF NetTyped, Datagrams, AtMediaSocket

(* Pop, the end of the stream and the search for holes.                    *)
LEMMA PassOverFacts ==
  ASSUME NEW r, Shape(r), NEW before \in SUBSET Datagrams, PassOver(r, before)
  PROVE  /\ LeftBy(r)
         /\ net' \in SUBSET Datagrams
         /\ AtMediaSocket' = {m \in before : m.kind = "media"}
<1> DEFINE q == Pop(r)
           s == IF Checks(q) THEN Asked(q) ELSE q
<1>1. Shape(q)
  BY PopShape
<1>2. out' = out \o Popped(r)
  BY DEF PassOver
<1>3. CASE q.goodbye /\ DOMAIN q.buffer = {}
  <2>1. rcv' = [q EXCEPT !.ended = TRUE] /\ net' = before
    BY <1>3 DEF PassOver
  <2> HIDE DEF q
  <2>2. q = [f \in RcvFields |-> q[f]] /\ DOMAIN q = RcvFields
    BY <1>1 DEF Shape, RcvTyped
  <2>3. rcv' = [f \in RcvFields |-> rcv'[f]] /\ rcv'.ended = TRUE
    BY <2>1, <2>2 DEF RcvFields
  <2>4. Same(rcv', q, {"ended"})
    BY <2>1, <2>2 DEF Same
  <2>5. /\ rcv'.highest = q.highest /\ rcv'.next = q.next /\ rcv'.released = q.released
        /\ rcv'.buffer = q.buffer /\ rcv'.holes = q.holes /\ rcv'.goodbye = q.goodbye
        /\ rcv'.media = q.media /\ rcv'.previous = q.previous /\ rcv'.dest = q.dest
        /\ rcv'.check = q.check /\ rcv'.passed = q.passed /\ rcv'.forced = q.forced
    BY <2>4 DEF Same, RcvFields
  <2>6. RcvTyped(rcv')
    BY <1>1, <2>3, <2>5 DEF Shape, RcvTyped
  <2>7. Shape(rcv')
    BY <1>1, <2>5, <2>6 DEF Shape, Monotone, Fresh, Running
  <2>8. Same(rcv', q, {"check", "holes", "passed", "ended"})
    BY <2>4 DEF Same
  <2>9. DOMAIN rcv'.buffer = {}
    BY <1>3, <2>5
  <2>10. LeftBy(r)
    BY <1>2, <2>7, <2>8, <2>9 DEF LeftBy, q
  <2> QED BY <2>1, <2>10 DEF AtMediaSocket
<1>4. CASE ~(q.goodbye /\ DOMAIN q.buffer = {})
  <2>1. rcv' = [s EXCEPT !.passed = TRUE] /\ net' = before \cup Nacks(q)
    BY <1>4 DEF PassOver
  <2> HIDE DEF q
  <2>2. Shape(s) /\ Same(s, q, {"check", "holes"})
    <3>1. CASE Checks(q)
      BY <1>1, <3>1, AskedFacts
    <3>2. CASE ~Checks(q)
      BY <1>1, <3>2 DEF Same
    <3> QED BY <3>1, <3>2
  <2> HIDE DEF s
  <2>3. s = [f \in RcvFields |-> s[f]] /\ DOMAIN s = RcvFields
    BY <2>2 DEF Shape, RcvTyped
  <2>4. rcv' = [f \in RcvFields |-> rcv'[f]] /\ rcv'.passed = TRUE
    BY <2>1, <2>3 DEF RcvFields
  <2>5. Same(rcv', s, {"passed"})
    BY <2>1, <2>3 DEF Same
  <2>6. /\ rcv'.highest = s.highest /\ rcv'.next = s.next /\ rcv'.released = s.released
        /\ rcv'.buffer = s.buffer /\ rcv'.holes = s.holes /\ rcv'.goodbye = s.goodbye
        /\ rcv'.media = s.media /\ rcv'.previous = s.previous /\ rcv'.dest = s.dest
        /\ rcv'.check = s.check /\ rcv'.ended = s.ended /\ rcv'.forced = s.forced
    BY <2>5 DEF Same, RcvFields
  <2>7. RcvTyped(rcv')
    BY <2>2, <2>4, <2>6 DEF Shape, RcvTyped
  <2>8. Shape(rcv')
    BY <2>2, <2>6, <2>7 DEF Shape, Monotone, Fresh, Running
  <2>9. Same(rcv', q, {"check", "holes", "passed", "ended"})
    BY <2>2, <2>5 DEF Same
  <2>10. LeftBy(r)
    <3>1. rcv'.ended = r.ended
      <4>1. q.ended = r.ended
        <5>1. Same(q, r, {"next", "released", "buffer", "forced"})
          BY PopFields DEF q
        <5> QED BY <5>1 DEF Same, RcvFields
      <4> QED BY <2>2, <2>6, <4>1 DEF Same, RcvFields
    <3> QED BY <1>2, <2>4, <2>8, <2>9, <3>1 DEF LeftBy, q
  <2>11. Nacks(q) \in SUBSET NackMsg
    BY <1>1, NacksTyped
  <2>12. AtMediaSocket' = {m \in before : m.kind = "media"}
    BY <2>1, <2>11, Kinds DEF AtMediaSocket
  <2> QED BY <2>1, <2>10, <2>11, <2>12 DEF Datagrams
<1> QED BY <1>3, <1>4

(* A pass reads, and leaves behind what it does.                           *)
LEMMA PassFacts ==
  ASSUME Shape(rcv), NetTyped, Pass
  PROVE  /\ \E r : Shape(r) /\ ReadIn(r) /\ LeftBy(r)
         /\ net' \in SUBSET Datagrams /\ snd' = snd
         /\ ~rcv.ended
<1>1. PICK ms \in SUBSET AtRtcpSocket :
        \E last \in IF ms = {} THEN {rcv.dest} ELSE {m.life : m \in ms} :
          \/ /\ ms # {} \/ ~rcv.passed
             /\ PassOver(TakeRtcp(rcv, ms, last), net \ ms)
             /\ UNCHANGED faults
          \/ \E m \in AtMediaSocket :
             /\ PassOver(TakeRtcp(Accept(rcv, m), ms, last), net \ (ms \cup {m}))
             /\ UNCHANGED faults
          \/ \E m \in AtMediaSocket :
             /\ faults.count < MaxFaults
             /\ PassOver(TakeRtcp(Accept(rcv, m), ms, last), net \ ms)
             /\ faults' = [faults EXCEPT !.count = @ + 1]
  BY DEF Pass
<1>2. PICK last \in IF ms = {} THEN {rcv.dest} ELSE {m.life : m \in ms} :
          \/ /\ ms # {} \/ ~rcv.passed
             /\ PassOver(TakeRtcp(rcv, ms, last), net \ ms)
             /\ UNCHANGED faults
          \/ \E m \in AtMediaSocket :
             /\ PassOver(TakeRtcp(Accept(rcv, m), ms, last), net \ (ms \cup {m}))
             /\ UNCHANGED faults
          \/ \E m \in AtMediaSocket :
             /\ faults.count < MaxFaults
             /\ PassOver(TakeRtcp(Accept(rcv, m), ms, last), net \ ms)
             /\ faults' = [faults EXCEPT !.count = @ + 1]
  BY <1>1
<1>3. /\ \A m \in ms : m \in RtcpMsg
      /\ last \in Lives \cup {None}
  <2>1. \A m \in ms : m \in RtcpMsg
    BY Kinds DEF NetTyped, Datagrams, AtRtcpSocket
  <2>2. \A m \in ms : m.life \in Lives
    BY <2>1 DEF RtcpMsg
  <2>3. rcv.dest \in Lives \cup {None}
    BY DEF Shape, RcvTyped
  <2> QED BY <2>1, <2>2, <2>3
<1>4. \A m \in ms : m.kind # "media"
  BY <1>3, Kinds
<1>5. /\ (net \ ms) \in SUBSET Datagrams
      /\ {m \in net \ ms : m.kind = "media"} = AtMediaSocket
  BY <1>4 DEF NetTyped, AtMediaSocket
<1>6. snd' = snd /\ ~rcv.ended
  BY DEF Pass
<1>7. CASE PassOver(TakeRtcp(rcv, ms, last), net \ ms) /\ UNCHANGED faults
  <2> DEFINE r == TakeRtcp(rcv, ms, last)
  <2>1. Shape(r) /\ Same(r, rcv, {"dest", "goodbye"})
    BY <1>3, TakeRtcpFacts
  <2> HIDE DEF r
  <2>2. LeftBy(r) /\ net' \in SUBSET Datagrams /\ AtMediaSocket' = AtMediaSocket
    BY <1>5, <1>7, <2>1, PassOverFacts DEF r
  <2>3. ReadIn(r)
    BY <1>7, <2>1, <2>2 DEF ReadIn
  <2> QED BY <1>6, <2>1, <2>2, <2>3
<1>8. ASSUME NEW m \in AtMediaSocket
      PROVE  LET r == TakeRtcp(Accept(rcv, m), ms, last) IN Shape(r) /\ Took(r, m)
  <2> DEFINE p == Accept(rcv, m)
             r == TakeRtcp(p, ms, last)
             ext == Extend(rcv.highest, m.seq)
  <2>1. m \in MediaMsg
    BY MediaTyped
  <2>2. /\ Shape(p)
        /\ \/ p = rcv /\ rcv.media # m.life
                      /\ (m.resent \/ (rcv.media # None /\ rcv.previous = m.life))
           \/ p = Push(rcv, m) /\ rcv.media = m.life
           \/ Adopted(p, rcv, m)
    BY <2>1, AcceptFacts
  <2> HIDE DEF p
  <2>3. Shape(r) /\ Same(r, p, {"dest", "goodbye"})
    BY <1>3, <2>2, TakeRtcpFacts
  <2> HIDE DEF r
  <2>4. CASE p = rcv /\ rcv.media # m.life
                /\ (m.resent \/ (rcv.media # None /\ rcv.previous = m.life))
    BY <2>3, <2>4 DEF Took, r, p
  <2>5. CASE p = Push(rcv, m) /\ rcv.media = m.life
    <3>1. m.life \in Lives /\ m.life # None /\ m.seq \in 0 .. Period - 1
      BY <2>1, Constants DEF MediaMsg, Lives, None
    <3>2. RcvTyped(rcv) /\ Running(rcv)
      BY <2>5, <3>1 DEF Shape
    <3>3. /\ Same(p, rcv, {"highest", "next", "buffer"})
          /\ PutIn(p, rcv, m, ext) \/ LeftOut(p, rcv, ext)
      BY <2>5, <3>1, <3>2, PushFields
    <3>4. Same(r, rcv, {"highest", "next", "buffer", "dest", "goodbye"})
      BY <2>3, <3>3 DEF Same
    <3>5. r.highest = p.highest /\ r.next = p.next /\ r.buffer = p.buffer
      BY <2>3 DEF Same, RcvFields
    <3> HIDE DEF ext
    <3>6. PutIn(r, rcv, m, ext) \/ LeftOut(r, rcv, ext)
      BY <3>3, <3>5 DEF PutIn, LeftOut
    <3> QED BY <2>3, <2>5, <3>4, <3>6 DEF Took, r, p, ext
  <2>6. CASE Adopted(p, rcv, m)
    <3>1. /\ r.highest = p.highest /\ r.next = p.next /\ r.buffer = p.buffer
          /\ r.media = p.media /\ r.previous = p.previous /\ r.released = p.released
          /\ r.check = p.check /\ r.passed = p.passed /\ r.ended = p.ended
          /\ r.forced = p.forced
      BY <2>3 DEF Same, RcvFields
    <3>2. Adopted(r, rcv, m)
      BY <2>6, <3>1 DEF Adopted
    <3> QED BY <2>3, <3>2 DEF Took, r, p
  <2> QED BY <2>2, <2>4, <2>5, <2>6
<1>9. ASSUME NEW m \in AtMediaSocket, UNCHANGED faults,
             PassOver(TakeRtcp(Accept(rcv, m), ms, last), net \ (ms \cup {m}))
      PROVE  (\E r : Shape(r) /\ ReadIn(r) /\ LeftBy(r)) /\ net' \in SUBSET Datagrams
  <2> DEFINE r == TakeRtcp(Accept(rcv, m), ms, last)
             before == net \ (ms \cup {m})
  <2>1. Shape(r) /\ Took(r, m)
    BY <1>8
  <2> HIDE DEF r
  <2>2. before \in SUBSET Datagrams /\ {d \in before : d.kind = "media"} = AtMediaSocket \ {m}
    BY <1>5
  <2>3. PassOver(r, before)
    BY <1>9 DEF r
  <2> HIDE DEF before
  <2>4. LeftBy(r) /\ net' \in SUBSET Datagrams /\ AtMediaSocket' = AtMediaSocket \ {m}
    BY <2>1, <2>2, <2>3, PassOverFacts
  <2>5. ReadIn(r)
    BY <1>9, <2>1, <2>4 DEF ReadIn
  <2> QED BY <2>1, <2>4, <2>5
<1>10. ASSUME NEW m \in AtMediaSocket, faults.count < MaxFaults,
              faults' = [faults EXCEPT !.count = @ + 1],
              PassOver(TakeRtcp(Accept(rcv, m), ms, last), net \ ms)
       PROVE  (\E r : Shape(r) /\ ReadIn(r) /\ LeftBy(r)) /\ net' \in SUBSET Datagrams
  <2> DEFINE r == TakeRtcp(Accept(rcv, m), ms, last)
  <2>1. Shape(r) /\ Took(r, m)
    BY <1>8
  <2> HIDE DEF r
  <2>2. LeftBy(r) /\ net' \in SUBSET Datagrams /\ AtMediaSocket' = AtMediaSocket
    BY <1>5, <1>10, <2>1, PassOverFacts DEF r
  <2>3. ReadIn(r)
    BY <1>10, <2>1, <2>2 DEF ReadIn
  <2> QED BY <2>1, <2>2, <2>3
<1> QED BY <1>2, <1>6, <1>7, <1>9, <1>10
-----------------------------------------------------------------------------
(* The sender's state.                                                     *)
SndFields == {"life", "phase", "offset", "sent", "input", "base", "history", "report",
              "left", "served"}
Copies(n) == [num : 1 .. n, age : 0 .. Keep + 1]

(* Every field holds a value of its kind; the copies kept are of packets   *)
(* that were sent.                                                         *)
SndTyped(s) ==
    /\ s = [f \in SndFields |-> s[f]]
    /\ s.life \in Lives /\ s.offset \in Offsets
    /\ s.phase \in {"new", "leading", "sending", "draining", "gone"}
    /\ s.sent \in Nat /\ s.input \in Nat /\ s.sent + s.input <= MaxSent
    /\ s.base \in 0 .. Period - 1 /\ s.history \in Seq(Copies(s.sent))
    /\ s.report \in 0 .. ReportEvery /\ s.left \in Nat /\ s.served \in BOOLEAN

(* The fields outside F are the same in both.                              *)
SndSame(p, s, F) == \A f \in SndFields \ F : p[f] = s[f]

(* A number on the wire.                                                   *)
LEMMA SequenceTyped ==
  ASSUME NEW offset \in Offsets, NEW num \in Nat
  PROVE  SequenceOf(offset, num) \in 0 .. Period - 1
<1>1. offset \in Int /\ num \in Int /\ Period \in Nat /\ Period > 1
  BY RistAssumption
<1> QED BY <1>1 DEF SequenceOf

(* The history stays a sequence of copies of packets that were sent.       *)
LEMMA RecordFacts ==
  ASSUME NEW s, SndTyped(s), NEW num \in Nat, num = s.sent, num >= 1
  PROVE  SndTyped(Record(s, num)) /\ SndSame(Record(s, num), s, {"base", "history"})
<1> DEFINE seq == SequenceOf(s.offset, num)
           follows == s.history # <<>> /\ seq = (s.base + Len(s.history)) % Period
           base == IF follows THEN s.base ELSE seq
           copy == [num |-> num, age |-> 0]
           kept == Append(IF follows THEN s.history ELSE <<>>, copy)
           Expired(i) == kept[i].age > Keep \/ Len(kept) - (i - 1) > Period \div 2
           gones == {n \in 0 .. Len(kept) : \A i \in 1 .. n : Expired(i)}
           gone == Max(gones)
           p == Record(s, num)
<1>1. p = [s EXCEPT !.base = (base + gone) % Period,
                    !.history = SubSeq(kept, gone + 1, Len(kept))]
  BY DEF Record
<1>2. seq \in 0 .. Period - 1
  BY SequenceTyped DEF SndTyped
<1>3. s = [f \in SndFields |-> s[f]] /\ DOMAIN s = SndFields
      /\ s.base \in 0 .. Period - 1 /\ s.history \in Seq(Copies(num))
  BY DEF SndTyped
<1> HIDE DEF p, seq
<1>4. base \in 0 .. Period - 1
  BY <1>2, <1>3
<1>5. copy \in Copies(num)
  BY Constants DEF Copies
<1> HIDE DEF copy, base
<1>6. kept \in Seq(Copies(num)) /\ Len(kept) \in Nat
  <2> HIDE DEF follows
  <2>1. (IF follows THEN s.history ELSE <<>>) \in Seq(Copies(num))
    <3>1. CASE follows
      BY <1>3, <3>1
    <3>2. CASE ~follows
      BY <3>2
    <3> QED BY <3>1, <3>2
  <2> QED BY <1>5, <2>1
<1> HIDE DEF kept
<1>7. gone \in 0 .. Len(kept)
  <2>1. 0 \in gones
    BY <1>6
  <2>2. gones \in SUBSET Nat /\ \A x \in gones : x <= Len(kept)
    BY <1>6
  <2> HIDE DEF gones
  <2>3. gone \in gones
    BY <1>6, <2>1, <2>2, MaxFacts
  <2>4. gone \in Nat /\ gone <= Len(kept)
    BY <2>2, <2>3
  <2> QED BY <1>6, <2>4
<1> HIDE DEF gone, gones, Expired
<1>8. (base + gone) % Period \in 0 .. Period - 1
  BY <1>4, <1>6, <1>7, Constants
<1>9. SubSeq(kept, gone + 1, Len(kept)) \in Seq(Copies(num))
  BY <1>6, <1>7
<1>10. /\ p = [f \in SndFields |-> p[f]]
       /\ p.base = (base + gone) % Period
       /\ p.history = SubSeq(kept, gone + 1, Len(kept))
  BY <1>1, <1>3 DEF SndFields
<1>11. SndSame(p, s, {"base", "history"})
  BY <1>1, <1>3 DEF SndSame
<1>12. /\ p.life = s.life /\ p.phase = s.phase /\ p.offset = s.offset /\ p.sent = s.sent
       /\ p.input = s.input /\ p.report = s.report /\ p.left = s.left /\ p.served = s.served
  BY <1>11 DEF SndSame, SndFields
<1>13. SndTyped(p)
  BY <1>8, <1>9, <1>10, <1>12 DEF SndTyped
<1> QED BY <1>11, <1>13 DEF p

(* A report leaves the rest of the sender alone.                           *)
LEMMA ServedFacts ==
  ASSUME NEW s, SndTyped(s)
  PROVE  SndTyped(Served(s)) /\ SndSame(Served(s), s, {"served", "report"})
<1> DEFINE p == Served(s)
           report == IF ReportDue(s) THEN ReportEvery ELSE s.report
<1>1. p = [s EXCEPT !.served = TRUE, !.report = report]
  BY DEF Served
<1>2. s = [f \in SndFields |-> s[f]] /\ DOMAIN s = SndFields
      /\ report \in 0 .. ReportEvery
  BY Constants DEF SndTyped
<1> HIDE DEF p, report
<1>3. p = [f \in SndFields |-> p[f]] /\ p.served = TRUE /\ p.report = report
  BY <1>1, <1>2 DEF SndFields
<1>4. SndSame(p, s, {"served", "report"})
  BY <1>1, <1>2 DEF SndSame
<1>5. /\ p.life = s.life /\ p.phase = s.phase /\ p.offset = s.offset /\ p.sent = s.sent
      /\ p.input = s.input /\ p.base = s.base /\ p.history = s.history /\ p.left = s.left
  BY <1>4 DEF SndSame, SndFields
<1>6. SndTyped(p)
  BY <1>2, <1>3, <1>5 DEF SndTyped
<1> QED BY <1>4, <1>6 DEF p

(* A media datagram as the sender makes it.                                *)
Made(m, s) ==
    /\ m \in MediaMsg /\ m.life = s.life /\ m.num \in 1 .. s.sent
    /\ m.seq = SequenceOf(s.offset, m.num) /\ m.age = 0

(* Media makes such a datagram.                                            *)
LEMMA MediaMade ==
  ASSUME NEW s, SndTyped(s), NEW num \in 1 .. s.sent, NEW resent \in BOOLEAN
  PROVE  Made(Media(s, num, resent), s) /\ Media(s, num, resent).resent = resent
         /\ Media(s, num, resent).num = num
<1>1. num \in Nat /\ num \in Numbers /\ s.life \in Lives /\ s.offset \in Offsets
  <2>1. s.sent \in Nat /\ s.input \in Nat /\ s.sent + s.input <= MaxSent /\ MaxSent \in Nat
    BY Constants DEF SndTyped
  <2>2. s.sent <= MaxSent
    BY <2>1
  <2> QED BY <2>1, <2>2 DEF SndTyped, Numbers
<1>2. SequenceOf(s.offset, num) \in 0 .. Period - 1
  BY <1>1, SequenceTyped
<1> QED BY <1>1, <1>2, Constants DEF Made, Media, MediaMsg

(* What is sent again was sent before.                                     *)
LEMMA ResendsMade ==
  ASSUME NEW s, SndTyped(s), NEW nacks \in SUBSET NackMsg
  PROVE  \A m \in Resends(s, nacks) : Made(m, s) /\ m.resent
<1> DEFINE asked == UNION {m.asked : m \in {n \in nacks : n.life = s.life}}
           Index(seq) == (seq - s.base) % Period
<1>1. asked \in SUBSET (0 .. Period - 1)
  BY DEF NackMsg
<1>2. ASSUME NEW seq \in asked, Index(seq) < Len(s.history)
      PROVE  s.history[Index(seq) + 1].num \in 1 .. s.sent
  <2>0. seq \in Int /\ s.base \in Int
    BY <1>1 DEF SndTyped
  <2>1. Index(seq) \in Nat
    BY <2>0, Constants
  <2>2. s.history \in Seq(Copies(s.sent))
    BY DEF SndTyped
  <2> HIDE DEF Index
  <2>3. Index(seq) + 1 \in 1 .. Len(s.history)
    BY <1>2, <2>1, <2>2
  <2>4. s.history[Index(seq) + 1] \in Copies(s.sent)
    BY <2>2, <2>3
  <2> QED BY <2>4 DEF Copies
<1>3. Retransmissions(s, asked)
        = {s.history[Index(seq) + 1].num : seq \in {q \in asked : Index(q) < Len(s.history)}}
  BY DEF Retransmissions
<1>4. Resends(s, nacks) = {Media(s, num, TRUE) : num \in Retransmissions(s, asked)}
  BY DEF Resends
<1> HIDE DEF asked, Index
<1>5. \A num \in Retransmissions(s, asked) : num \in 1 .. s.sent
  BY <1>2, <1>3
<1>6. \A num \in 1 .. s.sent : Made(Media(s, num, TRUE), s) /\ Media(s, num, TRUE).resent
  BY MediaMade
<1> QED BY <1>4, <1>5, <1>6

(* A report is RTCP.                                                       *)
LEMMA ReportsTyped ==
  ASSUME NEW s, SndTyped(s)
  PROVE  Reports(s) \in SUBSET RtcpMsg
BY Constants DEF SndTyped, Reports, Rtcp, RtcpMsg

(* The NACKs a sender reads.                                               *)
LEMMA AtSenderTyped ==
  ASSUME NetTyped, NEW nacks \in SUBSET AtSender
  PROVE  nacks \in SUBSET NackMsg /\ \A m \in nacks : m.kind # "media"
BY Kinds DEF NetTyped, Datagrams, AtSender

(* A step of the running sender: what it puts on the wire is its own, and  *)
(* only a new packet goes out as an original.                              *)
SenderStep == Announce \/ SendFrame \/ SendEos \/ Drain \/ SayGoodbye \/ Crash

(* The media datagrams a step puts on the wire.                            *)
Sent(S) ==
    /\ AtMediaSocket' = AtMediaSocket \cup S
    /\ \A m \in S : Made(m, snd') /\ (~m.resent => m.num > snd.sent)
    /\ \A n \in Nat : snd.sent < n /\ n <= snd'.sent => \E m \in S : ~m.resent /\ m.num = n

(* What such a step does.                                                  *)
LEMMA SenderFacts ==
  ASSUME SndTyped(snd), NetTyped, SenderStep
  PROVE  /\ SndTyped(snd') /\ NetTyped' /\ rcv' = rcv /\ out' = out
         /\ snd'.life = snd.life /\ snd'.offset = snd.offset /\ snd'.sent >= snd.sent
         /\ snd'.sent + snd'.input = snd.sent + snd.input
         /\ (\E S : Sent(S))
         /\ faults'.count = faults.count
<1>0. /\ snd = [f \in SndFields |-> snd[f]] /\ DOMAIN snd = SndFields
      /\ snd.sent \in Nat /\ snd.input \in Nat
  BY DEF SndTyped
<1>1. ASSUME snd' = [Served(snd) EXCEPT !.phase = "leading", !.left = Lead],
             net' = net \cup Reports(snd), UNCHANGED <<rcv, out, faults>>
      PROVE  /\ SndTyped(snd') /\ NetTyped' /\ rcv' = rcv /\ out' = out
             /\ snd'.life = snd.life /\ snd'.offset = snd.offset /\ snd'.sent = snd.sent
             /\ snd'.input = snd.input
             /\ AtMediaSocket' = AtMediaSocket
             /\ faults'.count = faults.count
  <2> DEFINE s == Served(snd)
  <2>1. SndTyped(s) /\ SndSame(s, snd, {"served", "report"})
    BY ServedFacts
  <2>2. snd' = [s EXCEPT !.phase = "leading", !.left = Lead]
    BY <1>1
  <2> HIDE DEF s
  <2>3. s = [f \in SndFields |-> s[f]] /\ DOMAIN s = SndFields
    BY <2>1 DEF SndTyped
  <2>4. /\ snd' = [f \in SndFields |-> snd'[f]] /\ snd'.phase = "leading" /\ snd'.left = Lead
        /\ snd'.life = s.life /\ snd'.offset = s.offset /\ snd'.sent = s.sent
        /\ snd'.input = s.input /\ snd'.base = s.base /\ snd'.history = s.history
        /\ snd'.report = s.report /\ snd'.served = s.served
    BY <2>2, <2>3 DEF SndFields
  <2>5. SndTyped(snd')
    BY <2>1, <2>4, Constants DEF SndTyped
  <2>6. snd'.life = snd.life /\ snd'.offset = snd.offset /\ snd'.sent = snd.sent
        /\ snd'.input = snd.input
    BY <2>1, <2>4 DEF SndSame, SndFields
  <2>7. Reports(snd) \in SUBSET RtcpMsg
    BY ReportsTyped
  <2>8. NetTyped' /\ AtMediaSocket' = AtMediaSocket
    BY <1>1, <2>7, Kinds DEF NetTyped, Datagrams, AtMediaSocket
  <2> QED BY <1>1, <2>5, <2>6, <2>8
<1>2. ASSUME NEW s, SndTyped(s), NEW nacks \in SUBSET AtSender, NEW S \in SUBSET MediaMsg,
             net' = (net \ nacks) \cup S \cup Resends(s, nacks) \cup Reports(s)
      PROVE  NetTyped' /\ AtMediaSocket' = AtMediaSocket \cup S \cup Resends(s, nacks)
             /\ \A m \in Resends(s, nacks) : Made(m, s) /\ m.resent
  <2>1. nacks \in SUBSET NackMsg /\ \A m \in nacks : m.kind # "media"
    BY AtSenderTyped
  <2>2. \A m \in Resends(s, nacks) : Made(m, s) /\ m.resent
    BY <1>2, <2>1, ResendsMade
  <2>3. Resends(s, nacks) \in SUBSET MediaMsg
    BY <2>2 DEF Made
  <2>4. Reports(s) \in SUBSET RtcpMsg
    BY <1>2, ReportsTyped
  <2>5. NetTyped'
    BY <1>2, <2>3, <2>4 DEF NetTyped, Datagrams
  <2> DEFINE R == Resends(s, nacks)
             Q == Reports(s)
  <2>6. \A m \in S \cup R : m.kind = "media"
    BY <2>3, Kinds
  <2>7. \A m \in Q : m.kind # "media"
    BY <2>4, Kinds
  <2>8. net' = (net \ nacks) \cup S \cup R \cup Q
    BY <1>2
  <2>9. AtMediaSocket' = {m \in net' : m.kind = "media"}
    BY DEF AtMediaSocket
  <2> HIDE DEF R, Q
  <2>10. AtMediaSocket' = AtMediaSocket \cup S \cup R
    BY <2>1, <2>6, <2>7, <2>8, <2>9 DEF AtMediaSocket
  <2> QED BY <2>2, <2>5, <2>10 DEF R
<1>8. ASSUME snd'.sent = snd.sent, NEW S, AtMediaSocket' = AtMediaSocket \cup S,
             \A m \in S : Made(m, snd') /\ m.resent
      PROVE  Sent(S)
  <2>1. \A n \in Nat : ~(snd.sent < n /\ n <= snd'.sent)
    BY <1>0, <1>8
  <2> QED BY <1>8, <2>1 DEF Sent
<1>3. CASE Announce
  <2>1. Sent({})
    BY <1>1, <1>3, <1>8 DEF Announce
  <2> QED BY <1>0, <1>1, <1>3, <2>1 DEF Announce
<1>4. CASE SendFrame
  <2> DEFINE num == snd.sent + 1
             s == [snd EXCEPT !.phase = "sending", !.sent = num, !.input = @ - 1]
             after == Record(s, num)
  <2>1. PICK nacks \in SUBSET AtSender :
          /\ snd' = Served(after)
          /\ net' = (net \ nacks) \cup {Media(snd, num, FALSE)}
                        \cup Resends(after, nacks) \cup Reports(after)
    BY <1>4 DEF SendFrame
  <2>2. snd.input > 0 /\ UNCHANGED <<rcv, out, faults>>
    BY <1>4 DEF SendFrame
  <2>3. num \in Nat /\ num >= 1 /\ s.sent = num
    BY <1>0 DEF SndFields
  <2>4. /\ s = [f \in SndFields |-> s[f]] /\ s.phase = "sending" /\ s.sent = num
        /\ s.input = snd.input - 1 /\ s.life = snd.life /\ s.offset = snd.offset
        /\ s.base = snd.base /\ s.history = snd.history /\ s.report = snd.report
        /\ s.left = snd.left /\ s.served = snd.served
    <3> HIDE DEF num
    <3> QED BY <1>0 DEF SndFields
  <2>5. SndTyped(s)
    <3> HIDE DEF s
    <3>1. s.input \in Nat /\ s.sent + s.input <= MaxSent /\ s.sent + s.input = snd.sent + snd.input
      <4>1. snd.sent + snd.input <= MaxSent
        BY DEF SndTyped
      <4> QED BY <1>0, <2>2, <2>4, <4>1, Constants
    <3>2. snd.history \in Seq(Copies(snd.sent))
      BY DEF SndTyped
    <3>3. Copies(snd.sent) \subseteq Copies(num)
      BY <1>0 DEF Copies
    <3> HIDE DEF num
    <3>4. snd.history \in Seq(Copies(num))
      BY <3>2, <3>3
    <3> QED BY <2>3, <2>4, <3>1, <3>4 DEF SndTyped
  <2> HIDE DEF s
  <2>6. SndTyped(after) /\ SndSame(after, s, {"base", "history"})
    BY <2>3, <2>4, <2>5, RecordFacts
  <2>7. after.life = snd.life /\ after.offset = snd.offset /\ after.sent = num
        /\ after.input = snd.input - 1
    BY <2>4, <2>6 DEF SndSame, SndFields
  <2> HIDE DEF after
  <2>8. SndTyped(snd') /\ SndSame(snd', after, {"served", "report"})
    BY <2>1, <2>6, ServedFacts
  <2>9. snd'.life = snd.life /\ snd'.offset = snd.offset /\ snd'.sent = num
        /\ snd'.input = snd.input - 1
    BY <2>7, <2>8 DEF SndSame, SndFields
  <2> DEFINE m0 == Media(after, num, FALSE)
  <2>10. Media(snd, num, FALSE) = m0
    BY <2>7 DEF Media
  <2>11. Made(m0, after) /\ m0.resent = FALSE /\ m0.num = num
    <3>1. num \in 1 .. after.sent
      BY <2>3, <2>7
    <3> QED BY <2>6, <3>1, MediaMade
  <2>12. {m0} \in SUBSET MediaMsg
    BY <2>11 DEF Made
  <2> HIDE DEF m0
  <2>13. net' = (net \ nacks) \cup {m0} \cup Resends(after, nacks) \cup Reports(after)
    BY <2>1, <2>10
  <2>14. /\ NetTyped' /\ AtMediaSocket' = AtMediaSocket \cup {m0} \cup Resends(after, nacks)
         /\ \A m \in Resends(after, nacks) : Made(m, after) /\ m.resent
    BY <1>2, <2>6, <2>12, <2>13
  <2>15. Sent({m0} \cup Resends(after, nacks))
    <3>1. \A m : Made(m, after) => Made(m, snd')
      BY <2>7, <2>9 DEF Made
    <3>2. num > snd.sent
      BY <1>0
    <3>3. ASSUME NEW n \in Nat, snd.sent < n, n <= snd'.sent PROVE n = num
      BY <1>0, <2>9, <3>3
    <3> HIDE DEF num
    <3> QED BY <2>11, <2>14, <3>1, <3>2, <3>3 DEF Sent
  <2> QED BY <1>0, <2>2, <2>8, <2>9, <2>14, <2>15
<1>5. CASE SendEos
  <2>1. snd' = [snd EXCEPT !.phase = IF snd.sent > 0 THEN "draining" ELSE "gone", !.left = Keep]
        /\ UNCHANGED <<rcv, net, out, faults>>
    BY <1>5 DEF SendEos
  <2>2. /\ snd' = [f \in SndFields |-> snd'[f]] /\ snd'.phase \in {"draining", "gone"}
        /\ snd'.left = Keep
        /\ snd'.life = snd.life /\ snd'.offset = snd.offset /\ snd'.sent = snd.sent
        /\ snd'.input = snd.input /\ snd'.base = snd.base /\ snd'.history = snd.history
        /\ snd'.report = snd.report /\ snd'.served = snd.served
    BY <1>0, <2>1 DEF SndFields
  <2>3. SndTyped(snd')
    BY <2>2, Constants DEF SndTyped
  <2>4. Sent({})
    <3>1. AtMediaSocket' = AtMediaSocket \cup {}
      BY <2>1 DEF AtMediaSocket
    <3> QED BY <1>8, <2>2, <3>1
  <2>5. NetTyped' /\ rcv' = rcv /\ out' = out /\ faults' = faults
    BY <2>1 DEF NetTyped
  <2> QED BY <1>0, <2>2, <2>3, <2>4, <2>5
<1>6. CASE Drain
  <2>1. PICK nacks \in SUBSET AtSender :
          snd' = Served(snd) /\ net' = (net \ nacks) \cup Resends(snd, nacks) \cup Reports(snd)
    BY <1>6 DEF Drain
  <2>2. UNCHANGED <<rcv, out, faults>>
    BY <1>6 DEF Drain
  <2>3. SndTyped(snd') /\ SndSame(snd', snd, {"served", "report"})
    BY <2>1, ServedFacts
  <2>4. snd'.life = snd.life /\ snd'.offset = snd.offset /\ snd'.sent = snd.sent
        /\ snd'.input = snd.input
    BY <2>3 DEF SndSame, SndFields
  <2>5. net' = (net \ nacks) \cup {} \cup Resends(snd, nacks) \cup Reports(snd)
    BY <2>1
  <2>6. /\ NetTyped' /\ AtMediaSocket' = AtMediaSocket \cup {} \cup Resends(snd, nacks)
        /\ \A m \in Resends(snd, nacks) : Made(m, snd) /\ m.resent
    <3>1. {} \in SUBSET MediaMsg
      OBVIOUS
    <3> QED BY <1>2, <2>5, <3>1
  <2>7. \A m : Made(m, snd) => Made(m, snd')
    BY <2>4 DEF Made
  <2>8. Sent(Resends(snd, nacks))
    BY <1>8, <2>4, <2>6, <2>7
  <2> QED BY <1>0, <2>2, <2>3, <2>4, <2>6, <2>8
<1>7. CASE SayGoodbye \/ Crash
  <2>1. snd' = [snd EXCEPT !.phase = "gone"] /\ rcv' = rcv /\ out' = out
    BY <1>7 DEF SayGoodbye, Crash
  <2>2. /\ snd' = [f \in SndFields |-> snd'[f]] /\ snd'.phase = "gone"
        /\ snd'.left = snd.left
        /\ snd'.life = snd.life /\ snd'.offset = snd.offset /\ snd'.sent = snd.sent
        /\ snd'.input = snd.input /\ snd'.base = snd.base /\ snd'.history = snd.history
        /\ snd'.report = snd.report /\ snd'.served = snd.served
    BY <1>0, <2>1 DEF SndFields
  <2>3. SndTyped(snd')
    BY <2>2 DEF SndTyped
  <2>4. net' = net \/ net' = net \cup {Rtcp("bye", snd.life)}
    BY <1>7 DEF SayGoodbye, Crash
  <2>5. Rtcp("bye", snd.life) \in RtcpMsg
    BY Constants DEF Rtcp, RtcpMsg, SndTyped
  <2>6. NetTyped' /\ Sent({})
    <3>1. NetTyped' /\ AtMediaSocket' = AtMediaSocket \cup {}
      BY <2>4, <2>5, Kinds DEF NetTyped, Datagrams, AtMediaSocket
    <3> QED BY <1>8, <2>2, <3>1
  <2>7. faults'.count = faults.count
    <3>1. CASE SayGoodbye
      BY <3>1 DEF SayGoodbye
    <3>2. CASE Crash
      BY <3>2 DEF Crash
    <3> QED BY <1>7, <3>1, <3>2
  <2> QED BY <1>0, <2>1, <2>2, <2>3, <2>6, <2>7
<1> QED BY <1>3, <1>4, <1>5, <1>6, <1>7 DEF SenderStep
-----------------------------------------------------------------------------
(* The clock: a packet or a datagram a tick later.                         *)
Older(p) == [p EXCEPT !.age = @ + 1]

(* A tick makes every packet held older by one, and every datagram on its  *)
(* way to the receiver.                                                    *)
Aged ==
    /\ snd'.life = snd.life /\ snd'.offset = snd.offset /\ snd'.sent = snd.sent
    /\ snd'.input = snd.input
    /\ Same(rcv', rcv, {"passed", "check", "buffer", "holes"}) /\ ~rcv'.passed
    /\ DOMAIN rcv'.buffer = DOMAIN rcv.buffer
    /\ \A e \in DOMAIN rcv.buffer : rcv'.buffer[e] = Older(rcv.buffer[e])
    /\ \A m \in AtMediaSocket' : \E d \in AtMediaSocket : m = Older(d)
    /\ ~rcv.ended => \A d \in AtMediaSocket : Older(d) \in AtMediaSocket'
    /\ out' = out /\ faults' = faults

(* A tick changes neither who sends nor what was sent.                     *)
LEMMA TickSender ==
  ASSUME SndTyped(snd), Tick
  PROVE  /\ SndTyped(snd')
         /\ snd'.life = snd.life /\ snd'.offset = snd.offset /\ snd'.sent = snd.sent
         /\ snd'.input = snd.input
<1> DEFINE h == [i \in DOMAIN snd.history |-> Held(snd.history[i], Keep)]
           report == Down(snd.report)
           left == Down(snd.left)
<1>1. snd' = [snd EXCEPT !.served = FALSE, !.report = report, !.left = left, !.history = h]
  BY DEF Tick
<1>2. /\ snd = [f \in SndFields |-> snd[f]] /\ DOMAIN snd = SndFields
      /\ snd.history \in Seq(Copies(snd.sent)) /\ snd.report \in 0 .. ReportEvery
      /\ snd.left \in Nat
  BY DEF SndTyped
<1>3. report \in 0 .. ReportEvery /\ left \in Nat
  <2>1. ReportEvery \in Nat
    BY Constants
  <2> QED BY <1>2, <2>1 DEF Down
<1>4. h \in Seq(Copies(snd.sent))
  <2>1. DOMAIN snd.history = 1 .. Len(snd.history) /\ Len(snd.history) \in Nat
    BY <1>2
  <2>2. ASSUME NEW i \in DOMAIN snd.history PROVE h[i] \in Copies(snd.sent)
    <3>1. snd.history[i] \in Copies(snd.sent)
      BY <1>2
    <3>2. h[i] = [snd.history[i] EXCEPT !.age = Up(snd.history[i].age, Keep)]
      BY DEF Held
    <3>3. Up(snd.history[i].age, Keep) \in 0 .. Keep + 1
      BY <3>1, Constants DEF Copies, Up
    <3> HIDE DEF h
    <3> QED BY <3>1, <3>2, <3>3 DEF Copies
  <2>3. h \in [1 .. Len(snd.history) -> Copies(snd.sent)]
    BY <2>1, <2>2
  <2> HIDE DEF h
  <2> QED BY <2>1, <2>3
<1> HIDE DEF h, report, left
<1>5. /\ snd' = [f \in SndFields |-> snd'[f]] /\ snd'.served = FALSE
      /\ snd'.report = report /\ snd'.left = left /\ snd'.history = h
      /\ snd'.life = snd.life /\ snd'.offset = snd.offset /\ snd'.sent = snd.sent
      /\ snd'.input = snd.input /\ snd'.base = snd.base /\ snd'.phase = snd.phase
  BY <1>1, <1>2 DEF SndFields
<1>6. SndTyped(snd')
  BY <1>3, <1>4, <1>5 DEF SndTyped
<1> QED BY <1>5, <1>6

(* A tick makes the packets held older, and moves none of them.            *)
LEMMA TickReceiver ==
  ASSUME Shape(rcv), OutputOnTime, rcv.ended => DOMAIN rcv.buffer = {}, Tick
  PROVE  /\ Shape(rcv')
         /\ Same(rcv', rcv, {"passed", "check", "buffer", "holes"}) /\ ~rcv'.passed
         /\ DOMAIN rcv'.buffer = DOMAIN rcv.buffer
         /\ \A e \in DOMAIN rcv.buffer : rcv'.buffer[e] = Older(rcv.buffer[e])
<1> DEFINE b == [e \in DOMAIN rcv.buffer |-> Held(rcv.buffer[e], Hold)]
           h == [s \in DOMAIN rcv.holes |-> Waited(rcv.holes[s])]
<1>1. rcv' = [rcv EXCEPT !.passed = FALSE, !.check = 0, !.buffer = b, !.holes = h]
      /\ (rcv.passed \/ rcv.ended)
  BY DEF Tick
<1>2. RcvTyped(rcv) /\ DOMAIN rcv = RcvFields
  BY DEF Shape, RcvTyped
<1>3. ASSUME NEW e \in DOMAIN rcv.buffer
      PROVE  /\ rcv.buffer[e] \in [life : {rcv.media}, num : Numbers, age : 0 .. Hold]
             /\ rcv.buffer[e].age < Hold
             /\ b[e] = Older(rcv.buffer[e])
             /\ b[e] \in [life : {rcv.media}, num : Numbers, age : 0 .. Hold]
             /\ b[e].age = rcv.buffer[e].age + 1
  <2>1. rcv.buffer[e] \in [life : {rcv.media}, num : Numbers, age : 0 .. Hold]
    BY <1>2 DEF RcvTyped
  <2>2. rcv.buffer[e].age < Hold
    BY <1>1 DEF OutputOnTime
  <2>3. Up(rcv.buffer[e].age, Hold) = rcv.buffer[e].age + 1
    BY <2>1, <2>2, Constants DEF Up
  <2>4. b[e] = [rcv.buffer[e] EXCEPT !.age = rcv.buffer[e].age + 1]
    BY <2>3 DEF Held
  <2> HIDE DEF b
  <2> QED BY <2>1, <2>2, <2>4, Constants DEF Older
<1>4. ASSUME NEW s \in DOMAIN rcv.holes PROVE h[s] \in [wait : Nat, asked : 0 .. MaxRequests]
  <2>1. rcv.holes[s] \in [wait : Nat, asked : 0 .. MaxRequests]
    BY <1>2 DEF RcvTyped
  <2>2. h[s] = [rcv.holes[s] EXCEPT !.wait = Down(rcv.holes[s].wait)]
    BY DEF Waited
  <2>3. Down(rcv.holes[s].wait) \in Nat
    BY <2>1 DEF Down
  <2> HIDE DEF h
  <2> QED BY <2>1, <2>2, <2>3
<1>5. DOMAIN b = DOMAIN rcv.buffer /\ DOMAIN h = DOMAIN rcv.holes
      /\ b = [e \in DOMAIN b |-> b[e]]
  OBVIOUS
<1> HIDE DEF b, h
<1>6. /\ rcv' = [f \in RcvFields |-> rcv'[f]] /\ rcv'.passed = FALSE /\ rcv'.check = 0
      /\ rcv'.buffer = b /\ rcv'.holes = h
  BY <1>1, <1>2 DEF RcvFields
<1>7. Same(rcv', rcv, {"passed", "check", "buffer", "holes"})
  BY <1>1, <1>2 DEF Same
<1>8. /\ rcv'.highest = rcv.highest /\ rcv'.next = rcv.next /\ rcv'.released = rcv.released
      /\ rcv'.goodbye = rcv.goodbye /\ rcv'.media = rcv.media /\ rcv'.previous = rcv.previous
      /\ rcv'.dest = rcv.dest /\ rcv'.ended = rcv.ended /\ rcv'.forced = rcv.forced
  BY <1>7 DEF Same, RcvFields
<1>9. RcvTyped(rcv')
  <2>1. \A e \in DOMAIN b : b[e] \in [life : {rcv'.media}, num : Numbers, age : 0 .. Hold]
    BY <1>3, <1>5, <1>8
  <2>2. \A s \in DOMAIN h : h[s] \in [wait : Nat, asked : 0 .. MaxRequests]
    BY <1>4, <1>5
  <2>3. /\ rcv'.highest \in Nat /\ rcv'.next \in Nat /\ rcv'.check \in Nat
        /\ rcv'.released \in BOOLEAN /\ rcv'.goodbye \in BOOLEAN /\ rcv'.passed \in BOOLEAN
        /\ rcv'.ended \in BOOLEAN /\ rcv'.forced \in BOOLEAN
        /\ rcv'.media \in Lives \cup {None} /\ rcv'.previous \in Lives \cup {None}
        /\ rcv'.dest \in Lives \cup {None}
    <3>1. rcv'.passed \in BOOLEAN
      <4>1. FALSE \in BOOLEAN
        OBVIOUS
      <4> QED BY <1>6, <4>1, Zenon
    <3>3. rcv'.check \in Nat
      BY <1>6
    <3>2. rcv'.released \in BOOLEAN /\ rcv'.goodbye \in BOOLEAN /\ rcv'.ended \in BOOLEAN
          /\ rcv'.forced \in BOOLEAN
      <4>1. rcv.released \in BOOLEAN /\ rcv.goodbye \in BOOLEAN /\ rcv.ended \in BOOLEAN
            /\ rcv.forced \in BOOLEAN
        BY <1>2 DEF RcvTyped
      <4> QED BY <1>8, <4>1
    <3> QED BY <1>2, <1>8, <3>1, <3>2, <3>3 DEF RcvTyped
  <2>4. DOMAIN b \in SUBSET Nat /\ IsFiniteSet(DOMAIN b)
    BY <1>2, <1>5 DEF RcvTyped
  <2> QED BY <1>5, <1>6, <2>1, <2>2, <2>3, <2>4 DEF RcvTyped
<1>10. Monotone(rcv')
  <2> SUFFICES ASSUME NEW d \in DOMAIN b, NEW e \in DOMAIN b, d <= e
               PROVE  b[e].age <= b[d].age
    BY <1>6 DEF Monotone
  <2>1. d \in DOMAIN rcv.buffer /\ e \in DOMAIN rcv.buffer
    BY <1>5
  <2>2. rcv.buffer[e].age <= rcv.buffer[d].age
    BY <2>1 DEF Shape, Monotone
  <2>3. rcv.buffer[e].age \in Nat /\ rcv.buffer[d].age \in Nat
    BY <1>3, <2>1
  <2> QED BY <1>3, <2>1, <2>2, <2>3
<1>11. Shape(rcv')
  BY <1>5, <1>6, <1>8, <1>9, <1>10 DEF Shape, Fresh, Running
<1> QED BY <1>3, <1>5, <1>6, <1>7, <1>11

(* A tick makes the datagrams under way older, adds none, and takes those  *)
(* away that the receiver does not read any more.                          *)
LEMMA TickNet ==
  ASSUME NetTyped, Tick
  PROVE  /\ NetTyped' /\ \A m \in AtMediaSocket' : \E d \in AtMediaSocket : m = Older(d)
         /\ ~rcv.ended => \A d \in AtMediaSocket : Older(d) \in AtMediaSocket'
<1> DEFINE Later(m) == [m EXCEPT !.age = IF @ < MaxDelay THEN @ + 1 ELSE @]
<1>1. net' = {Later(m) : m \in {d \in net : ~Dead(d)}}
      /\ \A m \in net : Dead(m) \/ Unread(m) \/ m.age < MaxDelay
  BY DEF Tick
<1>2. ASSUME NEW m \in net
      PROVE  /\ Later(m) \in Datagrams /\ Later(m).kind = m.kind
             /\ m.age < MaxDelay => Later(m) = Older(m)
  <2>1. m \in MediaMsg \/ m \in RtcpMsg \/ m \in NackMsg
    BY DEF NetTyped, Datagrams
  <2> DEFINE age == IF m.age < MaxDelay THEN m.age + 1 ELSE m.age
  <2>2. m.age \in 0 .. MaxDelay /\ age \in 0 .. MaxDelay
    BY <2>1, Constants DEF MediaMsg, RtcpMsg, NackMsg
  <2>3. Later(m) = [m EXCEPT !.age = age]
    OBVIOUS
  <2>4. m.age < MaxDelay => Later(m) = Older(m)
    BY DEF Older
  <2> HIDE DEF Later, age
  <2>5. CASE m \in MediaMsg
    BY <2>2, <2>3, <2>4, <2>5 DEF MediaMsg, Datagrams
  <2>6. CASE m \in RtcpMsg
    BY <2>2, <2>3, <2>4, <2>6 DEF RtcpMsg, Datagrams
  <2>7. CASE m \in NackMsg
    BY <2>2, <2>3, <2>4, <2>7 DEF NackMsg, Datagrams
  <2> QED BY <2>1, <2>5, <2>6, <2>7
<1> HIDE DEF Later
<1>3. NetTyped'
  BY <1>1, <1>2 DEF NetTyped
<1>4. ASSUME NEW m \in AtMediaSocket' PROVE \E d \in AtMediaSocket : m = Older(d)
  <2>1. m \in net' /\ m.kind = "media"
    BY DEF AtMediaSocket
  <2>2. PICK d \in net : ~Dead(d) /\ m = Later(d)
    BY <1>1, <2>1
  <2>3. d.kind = "media"
    BY <1>2, <2>1, <2>2
  <2>4. d.age < MaxDelay
    BY <1>1, <2>2, <2>3 DEF Unread
  <2> QED BY <1>2, <2>2, <2>3, <2>4 DEF AtMediaSocket
<1>5. ASSUME ~rcv.ended, NEW d \in AtMediaSocket PROVE Older(d) \in AtMediaSocket'
  <2>1. d \in net /\ d.kind = "media"
    BY DEF AtMediaSocket
  <2>2. ~Dead(d) /\ ~Unread(d)
    BY <1>5, <2>1 DEF Dead, Unread
  <2>3. Older(d) = Later(d) /\ Later(d).kind = "media" /\ Later(d) \in net'
    BY <1>1, <1>2, <2>1, <2>2
  <2> QED BY <2>3 DEF AtMediaSocket
<1> QED BY <1>3, <1>4, <1>5

(* What a tick does to the whole system.                                   *)
LEMMA TickFacts ==
  ASSUME SndTyped(snd), Shape(rcv), NetTyped, OutputOnTime,
         rcv.ended => DOMAIN rcv.buffer = {}, Tick
  PROVE  SndTyped(snd') /\ Shape(rcv') /\ NetTyped' /\ Aged
<1>1. out' = out /\ faults' = faults
  BY DEF Tick
<1> QED BY <1>1, TickSender, TickReceiver, TickNet DEF Aged
-----------------------------------------------------------------------------
(* Types, and the time a packet is held.                                   *)
FaultsTyped == faults \in [count : 0 .. MaxFaults, crashed : SUBSET Lives]

(* The types and shapes, and that no packet is overdue, are inductive      *)
(* together.                                                               *)
TypeInv ==
    /\ SndTyped(snd) /\ Shape(rcv) /\ NetTyped /\ out \in Seq(Packets) /\ FaultsTyped
    /\ rcv.ended => DOMAIN rcv.buffer = {}
    /\ OutputOnTime

(* The invariant gives the types and the deadline.                         *)
LEMMA TypeInvImplies ==
  TypeInv => TypeOK /\ OutputOnTime
<1> SUFFICES ASSUME TypeInv PROVE TypeOK
  BY DEF TypeInv
<1>1. /\ snd.life \in Lives /\ snd.offset \in Offsets
      /\ snd.phase \in {"new", "leading", "sending", "draining", "gone"}
      /\ snd.base \in 0 .. Period - 1 /\ snd.report \in 0 .. ReportEvery /\ snd.left \in Nat
  BY DEF TypeInv, SndTyped
<1>2. snd.sent \in 0 .. MaxSent /\ snd.input \in 0 .. MaxSent
  <2>1. snd.sent \in Nat /\ snd.input \in Nat /\ snd.sent + snd.input <= MaxSent
    BY DEF TypeInv, SndTyped
  <2> QED BY <2>1, Constants
<1>3. snd.history \in Seq([num : Numbers, age : 0 .. Keep + 1])
  <2>1. snd.history \in Seq(Copies(snd.sent))
    BY DEF TypeInv, SndTyped
  <2> DEFINE T == [num : Numbers, age : 0 .. Keep + 1]
  <2>2. Copies(snd.sent) \subseteq T
    BY <1>2, Constants DEF Copies, Numbers
  <2> HIDE DEF T
  <2>3. snd.history \in Seq(T)
    BY <2>1, <2>2
  <2> QED BY <2>3 DEF T
<1>4. \A m \in net : m.life \in Lives /\ m.age \in 0 .. MaxDelay
  BY DEF TypeInv, NetTyped, Datagrams, MediaMsg, RtcpMsg, NackMsg
<1>5. /\ {rcv.media, rcv.previous, rcv.dest} \subseteq Lives \cup {None}
      /\ \A s \in DOMAIN rcv.holes :
            rcv.holes[s] \in [wait : Nat, asked : 0 .. MaxRequests]
  BY DEF TypeInv, Shape, RcvTyped
<1>6. \A e \in DOMAIN rcv.buffer :
         rcv.buffer[e] \in [life : {rcv.media}, num : Numbers, age : 0 .. Hold + 1]
  <2>1. \A e \in DOMAIN rcv.buffer :
           rcv.buffer[e] \in [life : {rcv.media}, num : Numbers, age : 0 .. Hold]
    BY DEF TypeInv, Shape, RcvTyped
  <2> DEFINE S == [life : {rcv.media}, num : Numbers, age : 0 .. Hold]
             T == [life : {rcv.media}, num : Numbers, age : 0 .. Hold + 1]
  <2>2. \A p \in S : p \in T
    BY Constants
  <2>3. \A e \in DOMAIN rcv.buffer : rcv.buffer[e] \in S
    BY <2>1
  <2> HIDE DEF S, T
  <2>4. \A e \in DOMAIN rcv.buffer : rcv.buffer[e] \in T
    BY <2>2, <2>3
  <2> QED BY <2>4 DEF T
<1>7. out \in Seq(Packets) /\ faults \in [count : 0 .. MaxFaults, crashed : SUBSET Lives]
  BY DEF TypeInv, FaultsTyped
<1> QED BY <1>1, <1>2, <1>3, <1>4, <1>5, <1>6, <1>7 DEF TypeOK

(* It holds at the start.                                                  *)
LEMMA TypeInit ==
  Init => TypeInv
<1> SUFFICES ASSUME Init PROVE TypeInv
  OBVIOUS
<1>1. PICK offset \in Offsets : snd = NewSender(1, offset, MaxSent)
  BY DEF Init
<1>2. SndTyped(snd)
  <2>1. /\ snd.life = 1 /\ snd.phase = "new" /\ snd.offset = offset /\ snd.sent = 0
        /\ snd.input = MaxSent /\ snd.base = 0 /\ snd.history = <<>> /\ snd.report = 0
        /\ snd.left = 0 /\ snd.served = FALSE
    BY <1>1 DEF NewSender
  <2>2. snd = [f \in SndFields |-> snd[f]]
    BY <1>1 DEF NewSender, SndFields
  <2>3. snd.life \in Lives /\ snd.sent + snd.input <= MaxSent /\ snd.input \in Nat
        /\ snd.base \in 0 .. Period - 1 /\ snd.report \in 0 .. ReportEvery
    BY <2>1, Constants DEF Lives
  <2>4. snd.served \in BOOLEAN
    BY <2>1, Zenon
  <2> QED BY <2>1, <2>2, <2>3, <2>4 DEF SndTyped
<1>3. /\ rcv = [f \in RcvFields |-> rcv[f]]
      /\ rcv.highest = 0 /\ rcv.next = 0 /\ rcv.released = FALSE /\ rcv.buffer = NoPackets
      /\ rcv.holes = NoHoles /\ rcv.goodbye = FALSE /\ rcv.media = None
      /\ rcv.previous = None /\ rcv.dest = None /\ rcv.check = 0 /\ rcv.passed = FALSE
      /\ rcv.ended = FALSE /\ rcv.forced = FALSE
  BY DEF Init, RcvFields, None
<1>4. DOMAIN rcv.buffer = {} /\ DOMAIN rcv.holes = {}
      /\ rcv.buffer = [e \in DOMAIN rcv.buffer |-> rcv.buffer[e]]
  BY <1>3 DEF NoPackets, NoHoles
<1>5. RcvTyped(rcv)
  <2>1. /\ rcv.released \in BOOLEAN /\ rcv.goodbye \in BOOLEAN /\ rcv.passed \in BOOLEAN
        /\ rcv.ended \in BOOLEAN /\ rcv.forced \in BOOLEAN
    BY <1>3, Zenon
  <2>2. IsFiniteSet(DOMAIN rcv.buffer)
    BY <1>4, FS_EmptySet
  <2> QED BY <1>3, <1>4, <2>1, <2>2 DEF RcvTyped
<1>6. Shape(rcv)
  BY <1>3, <1>4, <1>5 DEF Shape, Monotone, Fresh
<1>7. NetTyped /\ out \in Seq(Packets) /\ FaultsTyped
  BY Constants DEF Init, NetTyped, FaultsTyped
<1> QED BY <1>2, <1>4, <1>6, <1>7 DEF TypeInv, OutputOnTime

(* One fault more.                                                         *)
LEMMA FaultCounted ==
  ASSUME FaultsTyped, faults.count < MaxFaults, faults' = [faults EXCEPT !.count = @ + 1]
  PROVE  FaultsTyped'
<1>1. MaxFaults \in Nat
  BY Constants
<1> QED BY <1>1 DEF FaultsTyped

(* What reading does to the fields that are not about packets.             *)
LEMMA ReadInFacts ==
  ASSUME NEW r, ReadIn(r), FaultsTyped
  PROVE  r.ended = rcv.ended /\ r.passed = rcv.passed /\ FaultsTyped'
<1>1. r.ended = rcv.ended /\ r.passed = rcv.passed
  BY DEF ReadIn, Took, Same, RcvFields, Adopted
<1> DEFINE more == [faults EXCEPT !.count = @ + 1]
<1>2. faults' = faults \/ (faults.count < MaxFaults /\ faults' = more)
  <2> HIDE DEF more
  <2>1. ReadIn(r) => faults' = faults \/ (faults.count < MaxFaults /\ faults' = more)
    BY DEF ReadIn, more
  <2> QED BY <2>1
<1>3. FaultsTyped'
  <2>1. CASE faults' = faults
    BY <2>1 DEF FaultsTyped
  <2>2. CASE faults.count < MaxFaults /\ faults' = more
    BY <2>2, FaultCounted
  <2> QED BY <1>2, <2>1, <2>2
<1> QED BY <1>1, <1>3

(* A new sender.                                                           *)
LEMMA RestartFacts ==
  ASSUME SndTyped(snd), Restart
  PROVE  /\ SndTyped(snd') /\ snd'.life = snd.life + 1 /\ snd'.sent = 0
         /\ snd'.input = snd.input /\ snd.life < MaxLives
         /\ rcv' = rcv /\ net' = net /\ out' = out /\ faults' = faults
<1>1. PICK offset \in Offsets : snd' = NewSender(snd.life + 1, offset, snd.input)
  BY DEF Restart
<1>2. /\ snd'.life = snd.life + 1 /\ snd'.phase = "new" /\ snd'.offset = offset
      /\ snd'.sent = 0 /\ snd'.input = snd.input /\ snd'.base = 0 /\ snd'.history = <<>>
      /\ snd'.report = 0 /\ snd'.left = 0 /\ snd'.served = FALSE
  BY <1>1 DEF NewSender
<1>3. snd' = [f \in SndFields |-> snd'[f]]
  BY <1>1 DEF NewSender, SndFields
<1>4. snd.life < MaxLives /\ UNCHANGED <<rcv, net, out, faults>>
  BY DEF Restart
<1>5. snd.life \in Lives /\ snd.input \in Nat /\ snd.sent \in Nat
      /\ snd.sent + snd.input <= MaxSent
  BY DEF SndTyped
<1>6. snd'.life \in Lives /\ snd'.sent + snd'.input <= MaxSent
      /\ snd'.base \in 0 .. Period - 1 /\ snd'.report \in 0 .. ReportEvery
  <2>1. snd'.life \in Lives
    <3>1. snd.life \in Nat /\ snd.life >= 1 /\ MaxLives \in Nat
      BY <1>5, Constants DEF Lives
    <3> QED BY <1>2, <1>4, <3>1 DEF Lives
  <2>2. snd'.sent + snd'.input <= MaxSent
    BY <1>2, <1>5, Constants
  <2>3. snd'.base \in 0 .. Period - 1 /\ snd'.report \in 0 .. ReportEvery
    BY <1>2, Constants
  <2> QED BY <2>1, <2>2, <2>3
<1>7. snd'.served \in BOOLEAN
  BY <1>2, Zenon
<1>8. SndTyped(snd')
  BY <1>2, <1>3, <1>5, <1>6, <1>7 DEF SndTyped
<1> QED BY <1>2, <1>4, <1>8

(* Every step keeps it.                                                    *)
LEMMA TypeStep ==
  TypeInv /\ [Next]_vars => TypeInv'
<1> SUFFICES ASSUME TypeInv, [Next]_vars PROVE TypeInv'
  OBVIOUS
<1>0. /\ SndTyped(snd) /\ Shape(rcv) /\ NetTyped /\ out \in Seq(Packets) /\ FaultsTyped
      /\ rcv.ended => DOMAIN rcv.buffer = {}
      /\ OutputOnTime
  BY DEF TypeInv
<1>1. CASE SenderStep
  <2>1. SndTyped(snd') /\ NetTyped' /\ rcv' = rcv /\ out' = out
    BY <1>0, <1>1, SenderFacts
  <2>2. faults' = faults \/ faults' = [faults EXCEPT !.crashed = @ \cup {snd.life}]
    BY <1>1 DEF SenderStep, Announce, SendFrame, SendEos, Drain, SayGoodbye, Crash
  <2>3. FaultsTyped'
    <3>1. snd.life \in Lives
      BY <1>0 DEF SndTyped
    <3> QED BY <1>0, <2>2, <3>1 DEF FaultsTyped
  <2> QED BY <1>0, <2>1, <2>3 DEF TypeInv, OutputOnTime
<1>2. CASE Restart
  <2>1. SndTyped(snd') /\ rcv' = rcv /\ net' = net /\ out' = out /\ faults' = faults
    BY <1>0, <1>2, RestartFacts
  <2> QED BY <1>0, <2>1 DEF TypeInv, NetTyped, FaultsTyped, OutputOnTime
<1>3. CASE Pass
  <2>1. net' \in SUBSET Datagrams /\ snd' = snd /\ ~rcv.ended
    BY <1>0, <1>3, PassFacts
  <2>2. PICK r : Shape(r) /\ ReadIn(r) /\ LeftBy(r)
    BY <1>0, <1>3, PassFacts
  <2>3. r.ended = rcv.ended /\ FaultsTyped'
    BY <1>0, <2>2, ReadInFacts
  <2>4. Shape(rcv') /\ Same(rcv', Pop(r), {"check", "holes", "passed", "ended"})
        /\ (rcv'.passed \/ DOMAIN rcv'.buffer = {})
        /\ (rcv'.ended => r.ended \/ DOMAIN rcv'.buffer = {})
        /\ out' = out \o Popped(r)
    BY <2>2 DEF LeftBy
  <2>5. rcv'.buffer = Pop(r).buffer
    BY <2>4 DEF Same, RcvFields
  <2>6. \A e \in DOMAIN rcv'.buffer : rcv'.buffer[e].age < Hold
    BY <2>2, <2>5, PopShape
  <2>7. OutputOnTime'
    BY <2>6 DEF OutputOnTime
  <2>8. out' \in Seq(Packets)
    <3>1. Popped(r) \in Seq(Packets)
      BY <2>2, PoppedFacts
    <3> QED BY <1>0, <2>4, <3>1
  <2>9. SndTyped(snd') /\ NetTyped' /\ (rcv'.ended => DOMAIN rcv'.buffer = {})
    BY <1>0, <2>1, <2>3, <2>4 DEF NetTyped
  <2> QED BY <2>3, <2>4, <2>7, <2>8, <2>9 DEF TypeInv
<1>4. CASE Lose
  <2>1. /\ \E m \in net : net' = net \ {m}
        /\ faults.count < MaxFaults /\ faults' = [faults EXCEPT !.count = @ + 1]
        /\ UNCHANGED <<snd, rcv, out>>
    BY <1>4 DEF Lose
  <2>2. NetTyped' /\ FaultsTyped'
    <3>1. NetTyped'
      BY <1>0, <2>1 DEF NetTyped
    <3>2. FaultsTyped'
      <4>1. faults.count < MaxFaults /\ faults' = [faults EXCEPT !.count = @ + 1]
        BY <2>1
      <4> QED BY <1>0, <4>1, FaultCounted
    <3> QED BY <3>1, <3>2
  <2> QED BY <1>0, <2>1, <2>2 DEF TypeInv, OutputOnTime
<1>5. CASE Tick
  <2>1. SndTyped(snd') /\ Shape(rcv') /\ NetTyped' /\ Aged
    BY <1>0, <1>5, TickFacts
  <2>2. rcv'.ended = rcv.ended /\ DOMAIN rcv'.buffer = DOMAIN rcv.buffer /\ ~rcv'.passed
        /\ out' = out /\ faults' = faults
    BY <2>1 DEF Aged, Same, RcvFields
  <2>3. OutputOnTime'
    <3>1. \A e \in DOMAIN rcv'.buffer : rcv'.buffer[e].age \in 0 .. Hold
      BY <2>1 DEF Shape, RcvTyped
    <3> QED BY <2>2, <3>1, Constants DEF OutputOnTime
  <2> QED BY <1>0, <2>1, <2>2, <2>3 DEF TypeInv, FaultsTyped
<1>6. CASE UNCHANGED vars
  <2>1. UNCHANGED <<snd, rcv, net, out, faults>>
    BY <1>6 DEF vars
  <2> QED BY <1>0, <2>1 DEF TypeInv, NetTyped, FaultsTyped, OutputOnTime
<1> QED BY <1>1, <1>2, <1>3, <1>4, <1>5, <1>6 DEF Next, SenderStep

(* They hold in every state.                                               *)
LEMMA TypeAlways ==
  Spec => []TypeInv
BY TypeInit, TypeStep, PTL DEF Spec

(* Every variable of the stream keeps its kind.                            *)
THEOREM TypeCorrect ==
  Spec => []TypeOK
BY TypeAlways, TypeInvImplies, PTL

(* RtpJitterBuffer in constant delay mode releases every packet in time:   *)
(* whatever the network loses, repeats or delays and whatever the buffer's *)
(* and the number space's sizes, no packet is ever held longer than the    *)
(* receiver buffer, and a pass leaves none that has been held that long.   *)
THEOREM HeldNoLonger ==
  Spec => []OutputOnTime
BY TypeAlways, TypeInvImplies, PTL
-----------------------------------------------------------------------------
(* The order of what goes downstream.  Equal modulo Period.                *)
Congruent(a, b) == \E q \in Int : a = b + Period * q

(* What is left of a number modulo the period.                             *)
LEMMA Remainder ==
  ASSUME NEW x \in Int, NEW d \in 0 .. Period - 1
  PROVE  /\ Congruent(x % Period, x)
         /\ Congruent(x, d) => x % Period = d
<1>0. Period \in Nat /\ Period > 1
  BY Constants
<1>1. \E q \in Int : x = Period * q + (x % Period)
  <2>1. x \div Period \in Int /\ x = Period * (x \div Period) + (x % Period)
    BY <1>0
  <2> QED BY <2>1
<1>2. Congruent(x % Period, x)
  <2>1. PICK q \in Int : x = Period * q + (x % Period)
    BY <1>1
  <2>2. x % Period \in Int
    BY <1>0
  <2>3. x % Period = x + Period * (-q) /\ -q \in Int
    BY <1>0, <2>1, <2>2
  <2> QED BY <2>3 DEF Congruent
<1>3. ASSUME Congruent(x, d) PROVE x % Period = d
  <2>1. PICK q \in Int : x = d + Period * q
    BY <1>3 DEF Congruent
  <2> QED BY <1>0, <2>1
<1> QED BY <1>2, <1>3

(* extend_wrapping undoes the wrapping of a number that lies within half   *)
(* the number space of the highest one seen.                               *)
LEMMA ExtendUnwraps ==
  ASSUME NEW highest \in Nat, highest # 0, NEW seq \in 0 .. Period - 1,
         NEW d \in -(Period \div 2) .. (Period \div 2) - 1,
         Congruent(seq, highest + d)
  PROVE  Extend(highest, seq) = highest + d
<1> DEFINE forward == (seq - highest) % Period
           h == Period \div 2
<1>0. /\ Period \in Nat /\ Period > 1 /\ h \in Nat /\ Period = 2 * h /\ h >= 1
      /\ seq \in Int /\ highest \in Int
  BY Constants, HalfPeriod
<1>1. Extend(highest, seq) = IF forward < h THEN highest + forward
                             ELSE highest - (Period - forward)
  BY DEF Extend, None
<1>2. d \in Int /\ -h <= d /\ d < h
  BY <1>0
<1> HIDE DEF forward, h
<1>3. Congruent(seq - highest, d)
  <2>1. PICK q \in Int : seq = highest + d + Period * q
    BY DEF Congruent
  <2>2. seq - highest = d + Period * q
    BY <1>0, <1>2, <2>1
  <2> QED BY <2>2 DEF Congruent
<1>4. CASE d >= 0
  <2>1. d \in 0 .. Period - 1 /\ seq - highest \in Int
    BY <1>0, <1>2, <1>4
  <2>2. forward = d
    BY <1>3, <2>1, Remainder DEF forward
  <2> QED BY <1>1, <1>2, <2>2
<1>5. CASE d < 0
  <2>1. Period + d \in 0 .. Period - 1 /\ seq - highest \in Int
    BY <1>0, <1>2, <1>5
  <2>2. Congruent(seq - highest, Period + d)
    <3>1. PICK q \in Int : seq - highest = d + Period * q
      BY <1>3 DEF Congruent
    <3>2. seq - highest = (Period + d) + Period * (q - 1) /\ q - 1 \in Int
      BY <1>0, <1>2, <3>1
    <3> QED BY <3>2 DEF Congruent
  <2>3. forward = Period + d
    BY <2>1, <2>2, Remainder DEF forward
  <2> QED BY <1>0, <1>1, <1>2, <2>3
<1> QED BY <1>2, <1>4, <1>5

(* The newest packet of the stream: the last in the buffer or, when that   *)
(* is empty, the last that went out; and what the receiver's numbers are   *)
(* ahead of the sender's.                                                  *)
Newest(r, o) == IF DOMAIN r.buffer # {} THEN r.buffer[r.highest].num ELSE o[Len(o)].num
Origin(r, o) == r.highest - Newest(r, o)

(* The receiver's numbers are the sender's, shifted: those in the buffer   *)
(* lie where they belong, and those that went out lie behind.  off gives   *)
(* the shift between numbers and sequence numbers of every sender.         *)
InStep(r, o, off) ==
    /\ r.media = None => o = <<>>
    /\ r.media # None =>
          /\ DOMAIN r.buffer = {} => Len(o) > 0 /\ o[Len(o)].life = r.media
          /\ Congruent(Origin(r, o), off[r.media])
          /\ \A e \in DOMAIN r.buffer : e = Origin(r, o) + r.buffer[e].num
          /\ \A i \in DOMAIN o :
                /\ o[i].life <= r.media
                /\ o[i].life = r.media => r.released /\ Origin(r, o) + o[i].num < r.next

(* Every life goes downstream in the order it was sent, and after the      *)
(* lives before it.                                                        *)
Ordered(o) ==
    \A i, j \in DOMAIN o :
        i < j => \/ o[i].life < o[j].life
                 \/ o[i].life = o[j].life /\ o[i].num < o[j].num

(* It is about where packets lie, not how old they are.                    *)
LEMMA InStepSame ==
  ASSUME NEW r, NEW p, NEW o, NEW off, InStep(r, o, off),
         p.media = r.media, p.highest = r.highest, p.next = r.next,
         p.released = r.released, DOMAIN p.buffer = DOMAIN r.buffer,
         \A e \in DOMAIN r.buffer : p.buffer[e].num = r.buffer[e].num,
         Shape(r)
  PROVE  InStep(p, o, off)
<1>1. r.media # None /\ DOMAIN r.buffer # {} => r.highest \in DOMAIN r.buffer
  BY DEF Shape, Running
<1>2. CASE r.media = None
  BY <1>2 DEF InStep
<1>3. CASE r.media # None
  <2>1. Origin(p, o) = Origin(r, o)
    BY <1>1, <1>3 DEF Origin, Newest
  <2> QED BY <1>3, <2>1 DEF InStep
<1> QED BY <1>2, <1>3

(* Lives and numbers are positive.                                         *)
LEMMA LivesAndNumbers ==
  /\ \A l \in Lives : l \in Nat /\ l # None /\ l >= 1
  /\ \A n \in Numbers : n \in Nat /\ n >= 1
<1>1. MaxLives \in Nat /\ MaxSent \in Nat
  BY Constants
<1> QED BY <1>1 DEF Lives, Numbers, None

(* The newest number is one.                                               *)
LEMMA NewestTyped ==
  ASSUME NEW r, Shape(r), r.media # None, NEW o \in Seq(Packets),
         DOMAIN r.buffer = {} => Len(o) > 0
  PROVE  Newest(r, o) \in Numbers /\ Newest(r, o) \in Nat /\ Origin(r, o) \in Int
<1>0. r.highest \in Nat
  BY DEF Shape, RcvTyped
<1>1. Newest(r, o) \in Numbers
  <2>1. CASE DOMAIN r.buffer # {}
    <3>1. r.highest \in DOMAIN r.buffer
      BY <2>1 DEF Shape, Running
    <3>2. r.buffer[r.highest] \in [life : {r.media}, num : Numbers, age : 0 .. Hold]
      BY <3>1 DEF Shape, RcvTyped
    <3> QED BY <2>1, <3>2 DEF Newest
  <2>2. CASE DOMAIN r.buffer = {}
    <3>1. o[Len(o)] \in Packets
      BY <2>2
    <3> QED BY <2>2, <3>1 DEF Newest, Packets
  <2> QED BY <2>1, <2>2
<1>2. Newest(r, o) \in Nat
  BY <1>1, Constants DEF Numbers
<1> QED BY <1>0, <1>1, <1>2 DEF Origin

(* A packet within half the number space of the newest one of its stream.  *)
NearBy(m) ==
    m.life = rcv.media =>
        m.num - Newest(rcv, out) \in -(Period \div 2) .. (Period \div 2) - 1

(* Such a packet gets the place that is its own.                           *)
LEMMA Placed ==
  ASSUME Shape(rcv), out \in Seq(Packets), NEW off \in [Lives -> Int],
         InStep(rcv, out, off), NEW m \in MediaMsg, NearBy(m),
         Congruent(m.seq, off[m.life] + m.num), rcv.media = m.life
  PROVE  Extend(rcv.highest, m.seq) = Origin(rcv, out) + m.num
<1> DEFINE K == Origin(rcv, out)
           d == m.num - Newest(rcv, out)
<1>0. /\ m.num \in Nat /\ m.seq \in 0 .. Period - 1 /\ m.seq \in Int
      /\ m.life # None /\ off[m.life] \in Int /\ Period \in Nat
  <2>1. m.life \in Lives /\ m.num \in Numbers /\ m.seq \in 0 .. Period - 1 /\ Period \in Nat
    BY Constants DEF MediaMsg
  <2> QED BY <2>1, LivesAndNumbers
<1>1. Running(rcv) /\ rcv.media # None
  BY <1>0 DEF Shape
<1>2. Congruent(K, off[rcv.media]) /\ (DOMAIN rcv.buffer = {} => Len(out) > 0)
  BY <1>1 DEF InStep
<1>3. Newest(rcv, out) \in Nat /\ K \in Int
  BY <1>1, <1>2, NewestTyped
<1>4. rcv.highest \in Nat /\ rcv.highest # 0
  <2>1. rcv.highest \in Nat /\ rcv.highest >= Period /\ Period \in Nat /\ Period > 1
    BY <1>1, Constants DEF Shape, RcvTyped, Running
  <2> QED BY <2>1
<1>5. d \in -(Period \div 2) .. (Period \div 2) - 1 /\ K + m.num = rcv.highest + d /\ d \in Int
  <2>1. d \in -(Period \div 2) .. (Period \div 2) - 1
    BY DEF NearBy
  <2>2. m.num \in Int /\ rcv.highest \in Int /\ Newest(rcv, out) \in Int
    BY <1>0, <1>3, <1>4
  <2>3. d \in Int /\ K + m.num = rcv.highest + d
    BY <2>2 DEF Origin
  <2> QED BY <2>1, <2>3
<1> HIDE DEF K, d
<1>6. PICK q \in Int : K = off[m.life] + Period * q
  BY <1>2 DEF Congruent
<1>7. PICK k \in Int : m.seq = off[m.life] + m.num + Period * k
  BY DEF Congruent
<1>8. Congruent(m.seq, rcv.highest + d)
  <2>1. m.seq = (K + m.num) + Period * (k - q) /\ k - q \in Int
    BY <1>0, <1>3, <1>6, <1>7
  <2>2. m.seq = (rcv.highest + d) + Period * (k - q)
    BY <1>5, <2>1
  <2> QED BY <2>1, <2>2 DEF Congruent
<1>9. Extend(rcv.highest, m.seq) = rcv.highest + d
  BY <1>0, <1>4, <1>5, <1>8, ExtendUnwraps
<1> QED BY <1>5, <1>9 DEF K

(* Taking such a packet keeps the receiver in step, unless it adopts a     *)
(* stream that is over.                                                    *)
LEMMA TookInStep ==
  ASSUME Shape(rcv), out \in Seq(Packets), NEW off \in [Lives -> Int],
         InStep(rcv, out, off), NEW m \in MediaMsg, NearBy(m),
         Congruent(m.seq, off[m.life] + m.num),
         NEW r, Shape(r), Took(r, m),
         r.media # rcv.media => \A i \in DOMAIN out : out[i].life < r.media
  PROVE  InStep(r, out, off)
<1>0. /\ m.life \in Lives /\ m.num \in Nat /\ m.seq \in 0 .. Period - 1 /\ m.seq \in Int
      /\ m.life # None /\ off[m.life] \in Int /\ Period \in Nat /\ m.life \in Nat
  <2>1. m.life \in Lives /\ m.num \in Numbers /\ m.seq \in 0 .. Period - 1 /\ Period \in Nat
    BY Constants DEF MediaMsg
  <2> QED BY <2>1, LivesAndNumbers
<1>1. CASE Same(r, rcv, {"dest", "goodbye"})
  <2>1. r.media = rcv.media /\ r.highest = rcv.highest /\ r.next = rcv.next
        /\ r.released = rcv.released /\ r.buffer = rcv.buffer
    BY <1>1 DEF Same, RcvFields
  <2> QED BY <2>1, InStepSame
<1>2. CASE /\ Same(r, rcv, {"highest", "next", "buffer", "dest", "goodbye"})
           /\ rcv.media = m.life
           /\ \/ PutIn(r, rcv, m, Extend(rcv.highest, m.seq))
              \/ LeftOut(r, rcv, Extend(rcv.highest, m.seq))
  <2> DEFINE ext == Extend(rcv.highest, m.seq)
             K == Origin(rcv, out)
  <2>1. r.media = rcv.media /\ r.released = rcv.released
    BY <1>2 DEF Same, RcvFields
  <2>2. /\ Running(rcv) /\ rcv.media # None /\ Running(r) /\ r.media # None
    BY <1>0, <1>2, <2>1 DEF Shape
  <2>3. /\ DOMAIN rcv.buffer = {} => Len(out) > 0 /\ out[Len(out)].life = rcv.media
        /\ Congruent(K, off[rcv.media])
        /\ \A e \in DOMAIN rcv.buffer : e = K + rcv.buffer[e].num
        /\ \A i \in DOMAIN out :
              /\ out[i].life <= rcv.media
              /\ out[i].life = rcv.media => rcv.released /\ K + out[i].num < rcv.next
    BY <2>2 DEF InStep
  <2>4. Newest(rcv, out) \in Nat /\ K \in Int
    BY <2>2, <2>3, NewestTyped
  <2>5. rcv.highest \in Nat /\ rcv.highest # 0 /\ rcv.next \in Nat /\ rcv.next >= 1
    <3>1. rcv.highest \in Nat /\ rcv.next \in Nat
      BY DEF Shape, RcvTyped
    <3>2. rcv.highest >= Period /\ rcv.next >= 1 /\ Period \in Nat /\ Period > 1
      BY <2>2, Constants DEF Running
    <3> QED BY <3>1, <3>2
  <2>7. ext = K + m.num
    BY <1>2, Placed
  <2> HIDE DEF K
  <2> HIDE DEF ext
  <2>8. CASE LeftOut(r, rcv, ext)
    <3>1. r.highest = rcv.highest /\ r.next = rcv.next /\ r.buffer = rcv.buffer
      BY <2>8 DEF LeftOut
    <3> QED BY <2>1, <3>1, InStepSame
  <2>9. CASE PutIn(r, rcv, m, ext)
    <3>1. /\ DOMAIN r.buffer = DOMAIN rcv.buffer \cup {ext}
          /\ \A e \in DOMAIN rcv.buffer : r.buffer[e] = rcv.buffer[e]
          /\ r.buffer[ext].num = m.num
          /\ r.next = (IF rcv.next = 0 \/ ext < rcv.next THEN ext ELSE rcv.next)
          /\ ~(rcv.released /\ ext < rcv.next)
      BY <2>9 DEF PutIn
    <3>2. \A e \in DOMAIN r.buffer : e = K + r.buffer[e].num
      BY <2>3, <2>7, <3>1
    <3>3. r.highest \in DOMAIN r.buffer /\ DOMAIN r.buffer # {}
      BY <2>2, <3>1 DEF Running
    <3>4. r.buffer[r.highest].num \in Nat
      <4>1. r.buffer[r.highest].num \in Numbers
        BY <3>3 DEF Shape, RcvTyped
      <4> QED BY <4>1, LivesAndNumbers
    <3>5. Origin(r, out) = K
      <4>1. Origin(r, out) = r.highest - r.buffer[r.highest].num
        BY <3>3 DEF Origin, Newest
      <4>2. r.highest = K + r.buffer[r.highest].num
        BY <3>2, <3>3
      <4> QED BY <2>4, <3>4, <4>1, <4>2
    <3>6. rcv.released => r.next = rcv.next
      BY <2>5, <3>1
    <3> QED BY <2>1, <2>2, <2>3, <3>2, <3>3, <3>5, <3>6 DEF InStep
  <2> QED BY <1>2, <2>8, <2>9 DEF ext
<1>3. CASE Adopted(r, rcv, m)
  <2> DEFINE e == Period + m.seq
  <2>1. /\ r.media = m.life /\ r.media # rcv.media /\ r.highest = e
        /\ DOMAIN r.buffer = {e}
        /\ r.buffer[e].num = m.num
    BY <1>3 DEF Adopted
  <2>2. e \in Nat /\ e - m.num \in Int
    BY <1>0
  <2>3. Origin(r, out) = e - m.num
    <3> HIDE DEF e
    <3> QED BY <2>1 DEF Origin, Newest
  <2>4. Congruent(e - m.num, off[m.life])
    <3>1. PICK q \in Int : m.seq = off[m.life] + m.num + Period * q
      BY DEF Congruent
    <3> DEFINE a == off[m.life]
               b == m.num
               c == m.seq
               x == Period * q
    <3>2. a \in Int /\ b \in Nat /\ c \in Int /\ x \in Int /\ q + 1 \in Int
          /\ c = a + b + x
      BY <1>0, <3>1
    <3>3. Period * (q + 1) = x + Period
      BY <1>0
    <3> HIDE DEF a, b, c, x
    <3>4. (Period + c) - b = a + (x + Period)
      BY <1>0, <3>2
    <3>5. e - m.num = off[m.life] + Period * (q + 1)
      BY <3>3, <3>4 DEF a, b, c
    <3> QED BY <3>2, <3>5 DEF Congruent
  <2> HIDE DEF e
  <2>5. e = (e - m.num) + m.num
    BY <1>0, <2>2
  <2>6. \A i \in DOMAIN out : out[i].life \in Nat
    <3>1. \A i \in DOMAIN out : out[i] \in Packets
      OBVIOUS
    <3>2. \A p \in Packets : p.life \in Lives
      BY DEF Packets
    <3> QED BY <3>1, <3>2, LivesAndNumbers
  <2>7. \A i \in DOMAIN out : out[i].life < r.media
    BY <2>1
  <2>8. \A i \in DOMAIN out : out[i].life <= r.media /\ out[i].life # r.media
    BY <1>0, <2>1, <2>6, <2>7
  <2>9. r.media # None /\ DOMAIN r.buffer # {}
    BY <1>0, <2>1
  <2> QED BY <2>1, <2>3, <2>4, <2>5, <2>8, <2>9 DEF InStep
<1> QED BY <1>1, <1>2, <1>3 DEF Took

(* What goes out lies behind what stays and in front of what went before.  *)
LEMMA PopInStep ==
  ASSUME NEW r, Shape(r), NEW o \in Seq(Packets), NEW off, InStep(r, o, off), Ordered(o)
  PROVE  LET after == o \o Popped(r)
         IN  /\ InStep(Pop(r), after, off) /\ Ordered(after)
             /\ r.media # None => Origin(Pop(r), after) = Origin(r, o)
<1> DEFINE p == Pop(r)
           due == Due(r)
           n == Cardinality(due)
           a == Ascending(due)
           s == Popped(r)
           after == o \o s
           K == Origin(r, o)
<1>1. /\ Same(p, r, {"next", "released", "buffer", "forced"})
      /\ DOMAIN p.buffer = DOMAIN r.buffer \ due
      /\ \A e \in DOMAIN p.buffer : p.buffer[e] = r.buffer[e]
      /\ p.next = (IF due = {} THEN r.next ELSE Max(due) + 1)
      /\ p.released = (r.released \/ due # {})
  BY PopFields
<1>2. p.media = r.media /\ p.highest = r.highest
  <2> HIDE DEF p
  <2> QED BY <1>1 DEF Same, RcvFields
<1>3. /\ due \in SUBSET (DOMAIN r.buffer) /\ due \in SUBSET Nat /\ IsFiniteSet(due)
      /\ due # {} => Max(due) \in due /\ \A e \in due : Max(due) >= e
  BY DueFacts
<1>4. /\ s \in Seq(Packets) /\ Len(s) = n /\ n \in Nat
      /\ a \in [1 .. n -> due]
      /\ \A i, j \in 1 .. n : i < j => a[i] < a[j]
      /\ \A e \in due : \E i \in 1 .. n : a[i] = e
      /\ \A i \in 1 .. n : s[i].life = r.media /\ s[i].num = r.buffer[a[i]].num
  BY PoppedFacts
<1>5. Shape(p)
  BY PopShape
<1>6. n = 0 <=> due = {}
  BY <1>3, FS_EmptySet
<1> HIDE DEF p, due, n, a, s
<1>7. /\ after \in Seq(Packets) /\ Len(o) \in Nat /\ Len(after) = Len(o) + n
      /\ DOMAIN o = 1 .. Len(o) /\ DOMAIN after = 1 .. Len(o) + n
      /\ \A i \in 1 .. Len(o) : after[i] = o[i]
      /\ \A i \in 1 .. n : after[Len(o) + i] = s[i]
  <2>1. s \in Seq(Packets) /\ Len(s) = n /\ n \in Nat /\ Len(o) \in Nat
    BY <1>4
  <2>2. after \in Seq(Packets) /\ Len(after) = Len(o) + Len(s)
    BY <2>1
  <2>3. \A i \in 1 .. Len(o) : after[i] = o[i]
    BY <2>1
  <2>4. \A i \in 1 .. Len(s) : after[Len(o) + i] = s[i]
    BY <2>1
  <2> HIDE DEF after
  <2> QED BY <2>1, <2>2, <2>3, <2>4
<1>8. CASE due = {}
  <2>1. p.next = r.next /\ DOMAIN p.buffer = DOMAIN r.buffer /\ p.released = r.released
    <3>1. p.released = r.released
      <4>1. r.released \in BOOLEAN
        BY DEF Shape, RcvTyped
      <4>2. due # {} <=> FALSE
        BY <1>8
      <4> QED BY <1>1, <4>1, <4>2
    <3> QED BY <1>1, <1>8, <3>1
  <2>2. after = o
    BY <1>4, <1>6, <1>8
  <2>3. \A e \in DOMAIN r.buffer : p.buffer[e].num = r.buffer[e].num
    BY <1>1, <2>1
  <2>4. InStep(p, o, off)
    BY <1>2, <2>1, <2>3, InStepSame
  <2>5. r.media # None => Origin(p, o) = K
    <3>1. r.media # None /\ DOMAIN r.buffer # {} => r.highest \in DOMAIN r.buffer
      BY DEF Shape, Running
    <3> QED BY <1>2, <2>1, <2>3, <3>1 DEF Origin, Newest
  <2> QED BY <2>2, <2>4, <2>5 DEF p, s
<1>9. CASE due # {}
  <2>1. r.media # None /\ Running(r) /\ DOMAIN r.buffer # {} /\ r.highest \in DOMAIN r.buffer
        /\ r.media \in Nat
    <3>1. DOMAIN r.buffer # {}
      BY <1>3, <1>9
    <3>2. r.media # None
      BY <3>1 DEF Shape, Fresh
    <3>3. r.media \in Lives
      BY <3>2 DEF Shape, RcvTyped
    <3> QED BY <3>1, <3>2, <3>3, LivesAndNumbers DEF Shape, Running
  <2>2. Running(p)
    BY <1>2, <1>5, <2>1 DEF Shape
  <2>3. /\ Congruent(K, off[r.media])
        /\ \A e \in DOMAIN r.buffer : e = K + r.buffer[e].num
        /\ \A i \in DOMAIN o :
              /\ o[i].life <= r.media
              /\ o[i].life = r.media => r.released /\ K + o[i].num < r.next
    BY <2>1 DEF InStep
  <2>4. K \in Int /\ r.next \in Nat /\ r.highest \in Nat
    BY <2>1, NewestTyped DEF Shape, RcvTyped
  <2>5. n >= 1 /\ Max(due) \in Nat /\ p.next = Max(due) + 1 /\ p.released
    <3>1. n # 0 /\ n \in Nat /\ Max(due) \in due
      BY <1>3, <1>4, <1>6, <1>9
    <3>2. Max(due) \in Nat
      BY <1>3, <3>1
    <3>3. p.next = Max(due) + 1 /\ p.released
      BY <1>1, <1>9
    <3> QED BY <3>1, <3>2, <3>3
  <2>6. \A e \in DOMAIN r.buffer : /\ e \in Nat /\ r.next <= e /\ e <= r.highest
                                   /\ r.buffer[e].num \in Nat
    <3>1. \A e \in DOMAIN r.buffer : e \in Nat /\ r.buffer[e].num \in Numbers
      BY DEF Shape, RcvTyped
    <3> QED BY <2>1, <3>1, LivesAndNumbers DEF Running
  <2>7. \A i \in 1 .. n : /\ a[i] \in due /\ a[i] \in DOMAIN r.buffer /\ a[i] \in Nat
                          /\ a[i] <= Max(due) /\ r.next <= a[i]
                          /\ s[i].num \in Nat /\ K + s[i].num = a[i]
    <3> SUFFICES ASSUME NEW i \in 1 .. n
                 PROVE  /\ a[i] \in due /\ a[i] \in DOMAIN r.buffer /\ a[i] \in Nat
                        /\ a[i] <= Max(due) /\ r.next <= a[i]
                        /\ s[i].num \in Nat /\ K + s[i].num = a[i]
      OBVIOUS
    <3>1. a[i] \in due /\ a[i] \in DOMAIN r.buffer
      BY <1>3, <1>4
    <3>2. s[i].num = r.buffer[a[i]].num
      BY <1>4
    <3>3. a[i] \in Nat /\ r.next <= a[i] /\ r.buffer[a[i]].num \in Nat
      BY <2>6, <3>1
    <3>4. a[i] = K + r.buffer[a[i]].num
      BY <2>3, <3>1
    <3>5. Max(due) >= a[i]
      BY <1>3, <1>9, <3>1
    <3> QED BY <2>5, <3>1, <3>2, <3>3, <3>4, <3>5
  <2> HIDE DEF K, after
  <2>8. \A i \in 1 .. Len(o) : after[i].life \in Nat /\ after[i].num \in Nat
    <3>1. \A i \in 1 .. Len(o) : after[i] \in Packets
      BY <1>7
    <3>2. \A q \in Packets : q.life \in Nat /\ q.num \in Nat
      BY LivesAndNumbers DEF Packets
    <3> QED BY <3>1, <3>2
  <2>9. Origin(p, after) = K
    <3>1. CASE DOMAIN p.buffer # {}
      <4>1. r.highest \in DOMAIN p.buffer
        BY <1>2, <2>2, <3>1 DEF Running
      <4>2. p.buffer[r.highest] = r.buffer[r.highest]
        BY <1>1, <4>1
      <4> QED BY <1>2, <2>1, <3>1, <4>2 DEF Origin, Newest, K
    <3>2. CASE DOMAIN p.buffer = {}
      <4>1. r.highest \in due
        BY <1>1, <2>1, <3>2
      <4>2. PICK i \in 1 .. n : a[i] = r.highest
        BY <1>4, <4>1
      <4>3. i = n
        <5>1. n \in 1 .. n /\ i \in Nat /\ i <= n
          BY <1>4, <2>5
        <5>2. a[n] \in Nat /\ a[n] <= r.highest
          BY <2>6, <2>7, <5>1
        <5>3. i < n => a[i] < a[n]
          BY <1>4, <5>1
        <5> QED BY <1>4, <2>4, <4>2, <5>1, <5>2, <5>3
      <4>4. after[Len(after)] = s[n]
        <5>1. n \in 1 .. n
          BY <1>4, <2>5
        <5>2. after[Len(o) + n] = s[n] /\ Len(after) = Len(o) + n
          BY <1>7, <5>1
        <5> QED BY <5>2
      <4>5. after[Len(after)].num = r.buffer[r.highest].num
        BY <1>4, <2>5, <4>2, <4>3, <4>4
      <4> QED BY <1>2, <2>1, <3>2, <4>5 DEF Origin, Newest, K
    <3> QED BY <3>1, <3>2
  <2>10. ASSUME NEW i \in DOMAIN after
         PROVE  /\ after[i].life <= r.media
                /\ after[i].life = r.media => p.released /\ K + after[i].num < p.next
    <3>1. CASE i \in 1 .. Len(o)
      <4>1. after[i] = o[i] /\ i \in DOMAIN o
        BY <1>7, <3>1
      <4>2. r.next <= Max(due)
        BY <1>3, <1>9, <2>6
      <4>3. after[i].num \in Nat
        BY <2>8, <3>1
      <4> QED BY <2>3, <2>4, <2>5, <4>1, <4>2, <4>3
    <3>2. CASE i \notin 1 .. Len(o)
      <4> DEFINE j == i - Len(o)
      <4>1. j \in 1 .. n /\ i = Len(o) + j
        BY <1>4, <1>7, <3>2
      <4> HIDE DEF j
      <4>2. after[i] = s[j]
        BY <1>7, <4>1
      <4>3. after[i].life = r.media /\ K + after[i].num = a[j] /\ a[j] <= Max(due)
            /\ a[j] \in Nat
        BY <1>4, <2>7, <4>1, <4>2
      <4> QED BY <2>1, <2>5, <4>3
    <3> QED BY <3>1, <3>2
  <2>11. DOMAIN p.buffer = {} => Len(after) > 0 /\ after[Len(after)].life = r.media
    <3>1. Len(after) > 0 /\ n \in 1 .. n /\ after[Len(after)] = s[n]
      BY <1>4, <1>7, <2>5
    <3> QED BY <1>4, <3>1
  <2>12. \A e \in DOMAIN p.buffer : e = K + p.buffer[e].num
    BY <1>1, <2>3
  <2>13. InStep(p, after, off)
    BY <1>2, <2>1, <2>3, <2>9, <2>10, <2>11, <2>12 DEF InStep
  <2>14. Ordered(after)
    <3> SUFFICES ASSUME NEW i \in DOMAIN after, NEW j \in DOMAIN after, i < j
                 PROVE  \/ after[i].life < after[j].life
                        \/ after[i].life = after[j].life /\ after[i].num < after[j].num
      BY DEF Ordered
    <3>0. i \in Nat /\ j \in Nat /\ i >= 1
      BY <1>4, <1>7
    <3>1. CASE j <= Len(o)
      <4>1. i \in DOMAIN o /\ j \in DOMAIN o /\ after[i] = o[i] /\ after[j] = o[j]
        BY <1>7, <3>0, <3>1
      <4> QED BY <4>1 DEF Ordered
    <3>2. CASE ~(j <= Len(o))
      <4> DEFINE l == j - Len(o)
      <4>1. l \in 1 .. n /\ j = Len(o) + l
        BY <1>4, <1>7, <3>0, <3>2
      <4> HIDE DEF l
      <4>2. /\ after[j] = s[l] /\ after[j].life = r.media /\ after[j].num \in Nat
            /\ K + after[j].num = a[l] /\ r.next <= a[l] /\ a[l] \in Nat
        <5>1. after[j] = s[l]
          BY <1>7, <4>1
        <5>2. s[l].life = r.media
          BY <1>4, <4>1
        <5> QED BY <2>7, <4>1, <5>1, <5>2
      <4>3. CASE i <= Len(o)
        <5>1. i \in DOMAIN o /\ i \in 1 .. Len(o) /\ after[i] = o[i]
          BY <1>7, <3>0, <4>3
        <5>2. after[i].life \in Nat /\ after[i].num \in Nat
          BY <2>8, <5>1
        <5>3. after[i].life <= r.media
              /\ (after[i].life = r.media => K + after[i].num < r.next)
          BY <2>3, <5>1
        <5>4. CASE after[i].life = r.media
          <6>1. K + after[i].num < r.next
            BY <5>3, <5>4
          <6> QED BY <2>4, <4>2, <5>2, <5>4, <6>1
        <5>5. CASE after[i].life # r.media
          BY <2>1, <4>2, <5>2, <5>3, <5>5
        <5> QED BY <5>4, <5>5
      <4>4. CASE ~(i <= Len(o))
        <5> DEFINE k == i - Len(o)
        <5>1. k \in 1 .. n /\ i = Len(o) + k
          BY <1>4, <1>7, <3>0, <4>4
        <5> HIDE DEF k
        <5>4. k < l
          <6>1. Len(o) \in Nat /\ k \in Nat /\ l \in Nat
            BY <1>4, <1>7, <4>1, <5>1
          <6> QED BY <4>1, <5>1, <6>1
        <5>2. /\ after[i] = s[k] /\ after[i].life = r.media /\ after[i].num \in Nat
              /\ K + after[i].num = a[k] /\ a[k] \in Nat
          <6>1. after[i] = s[k]
            BY <1>7, <5>1
          <6>2. s[k].life = r.media
            BY <1>4, <5>1
          <6> QED BY <2>7, <5>1, <6>1, <6>2
        <5>3. a[k] < a[l]
          BY <1>4, <4>1, <5>1, <5>4
        <5> QED BY <2>4, <4>2, <5>2, <5>3
      <4> QED BY <4>3, <4>4
    <3> QED BY <3>1, <3>2
  <2> QED BY <2>9, <2>13, <2>14 DEF p, after, s, K
<1> QED BY <1>8, <1>9

(* What every sender's sequence numbers are ahead of its packets' numbers; *)
(* nothing comes from a sender that has not started.                       *)
Numbered(off) ==
    /\ Congruent(snd.offset - 1, off[snd.life])
    /\ \A m \in AtMediaSocket : Congruent(m.seq, off[m.life] + m.num) /\ m.life <= snd.life
    /\ rcv.media <= snd.life

(* The invariant behind the order: some shift numbers every stream, and    *)
(* the receiver is in step with it.                                        *)
OrderInv ==
    /\ \E off \in [Lives -> Int] : Numbered(off) /\ InStep(rcv, out, off)
    /\ Ordered(out)

(* The packets under way are near the newest one received.                 *)
Near == \A m \in AtMediaSocket : NearBy(m)

(* A step that changes the stream changes to one that is new downstream.   *)
Onward == rcv'.media # rcv.media => \A i \in DOMAIN out : out[i].life < rcv'.media

(* It holds at the start.                                                  *)
LEMMA OrderInit ==
  Init => OrderInv
<1> SUFFICES ASSUME Init PROVE OrderInv
  OBVIOUS
<1>1. PICK offset \in Offsets : snd = NewSender(1, offset, MaxSent)
  BY DEF Init
<1> DEFINE off == [l \in Lives |-> offset - 1]
<1>2. offset \in Int
  BY RistAssumption
<1>3. snd.offset = offset /\ snd.life = 1 /\ 1 \in Lives
  BY <1>1, Constants DEF NewSender, Lives
<1>4. rcv.media = None /\ out = <<>> /\ AtMediaSocket = {}
  BY DEF Init, AtMediaSocket
<1>5. off \in [Lives -> Int] /\ off[1] = offset - 1 /\ offset - 1 \in Int
  BY <1>2, <1>3
<1>6. Congruent(offset - 1, offset - 1)
  <2>1. offset - 1 = (offset - 1) + Period * 0 /\ 0 \in Int
    BY <1>2, Constants
  <2> QED BY <2>1 DEF Congruent
<1> HIDE DEF off
<1>7. Numbered(off) /\ InStep(rcv, out, off)
  BY <1>3, <1>4, <1>5, <1>6 DEF Numbered, InStep, None
<1>8. Ordered(out)
  BY <1>4 DEF Ordered
<1> QED BY <1>5, <1>7, <1>8 DEF OrderInv

(* The first numbers are integers.                                         *)
LEMMA OffsetsTyped ==
  \A o \in Offsets : o \in Int
<1>1. Offsets \subseteq 0 .. Period - 1 /\ Period \in Nat
  BY RistAssumption
<1> QED BY <1>1

(* The sequence number a sender gives a packet.                            *)
LEMMA MadeNumbered ==
  ASSUME NEW s, SndTyped(s), NEW m, Made(m, s), NEW k \in Int, Congruent(s.offset - 1, k)
  PROVE  Congruent(m.seq, k + m.num)
<1>1. s.offset \in Int /\ m.num \in Int /\ Period \in Nat
  <2>1. s.offset \in Int /\ m.num \in Numbers
    BY OffsetsTyped DEF SndTyped, Made, MediaMsg
  <2> QED BY <2>1, LivesAndNumbers, Constants
<1>2. m.seq = (s.offset + m.num - 1) % Period
  BY DEF Made, SequenceOf
<1> DEFINE x == s.offset + m.num - 1
<1>3. x \in Int /\ Congruent(x % Period, x)
  <2>1. x \in Int /\ 0 \in 0 .. Period - 1
    BY <1>1, Constants
  <2> HIDE DEF x
  <2> QED BY <2>1, Remainder
<1>4. PICK q \in Int : m.seq = x + Period * q
  BY <1>2, <1>3 DEF Congruent
<1>5. PICK j \in Int : s.offset - 1 = k + Period * j
  BY DEF Congruent
<1>6. m.seq = (k + m.num) + Period * (q + j) /\ q + j \in Int
  BY <1>1, <1>4, <1>5
<1> QED BY <1>6 DEF Congruent

(* Reading keeps the receiver in step.                                     *)
LEMMA ReadInStep ==
  ASSUME Shape(rcv), NetTyped, out \in Seq(Packets), NEW off \in [Lives -> Int],
         Numbered(off), InStep(rcv, out, off), Near, NEW r, Shape(r), ReadIn(r),
         r.media # rcv.media => \A i \in DOMAIN out : out[i].life < r.media
  PROVE  InStep(r, out, off) /\ r.media <= snd.life
<1>1. CASE Same(r, rcv, {"dest", "goodbye"})
  <2>1. r.media = rcv.media /\ r.highest = rcv.highest /\ r.next = rcv.next
        /\ r.released = rcv.released /\ r.buffer = rcv.buffer
    BY <1>1 DEF Same, RcvFields
  <2> QED BY <2>1, InStepSame DEF Numbered
<1>2. ASSUME NEW m \in AtMediaSocket, Took(r, m)
      PROVE  InStep(r, out, off) /\ r.media <= snd.life
  <2>1. m \in MediaMsg
    BY MediaTyped
  <2>2. NearBy(m) /\ Congruent(m.seq, off[m.life] + m.num) /\ m.life <= snd.life
    BY DEF Near, Numbered
  <2>3. InStep(r, out, off)
    BY <1>2, <2>1, <2>2, TookInStep
  <2>4. r.media = rcv.media \/ r.media = m.life
    BY <1>2 DEF Took, Same, RcvFields, Adopted
  <2> QED BY <2>2, <2>3, <2>4 DEF Numbered
<1> QED BY <1>1, <1>2 DEF ReadIn

(* Every step keeps the order, if packets are near and streams change      *)
(* onward.                                                                 *)
LEMMA OrderStep ==
  TypeInv /\ OrderInv /\ Near /\ [Next]_vars /\ Onward => OrderInv'
<1> SUFFICES ASSUME TypeInv, OrderInv, Near, [Next]_vars, Onward PROVE OrderInv'
  OBVIOUS
<1>0. /\ SndTyped(snd) /\ Shape(rcv) /\ NetTyped /\ out \in Seq(Packets) /\ FaultsTyped
      /\ rcv.ended => DOMAIN rcv.buffer = {}
      /\ OutputOnTime /\ snd.life \in Lives /\ snd.life \in Nat
  BY LivesAndNumbers DEF TypeInv, SndTyped
<1>1. PICK off \in [Lives -> Int] : Numbered(off) /\ InStep(rcv, out, off)
  BY DEF OrderInv
<1>2. Ordered(out)
  BY DEF OrderInv
<1>3. CASE SenderStep
  <2>1. /\ SndTyped(snd') /\ rcv' = rcv /\ out' = out
        /\ snd'.life = snd.life /\ snd'.offset = snd.offset
    BY <1>0, <1>3, SenderFacts
  <2>2. PICK S : Sent(S)
    BY <1>0, <1>3, SenderFacts
  <2>3. off[snd.life] \in Int /\ Congruent(snd'.offset - 1, off[snd.life])
    BY <1>0, <1>1, <2>1 DEF Numbered
  <2>4. ASSUME NEW m \in AtMediaSocket'
        PROVE  Congruent(m.seq, off[m.life] + m.num) /\ m.life <= snd.life
    <3>1. CASE m \in AtMediaSocket
      BY <1>1, <3>1 DEF Numbered
    <3>2. CASE m \in S
      <4>1. Made(m, snd') /\ m.life = snd.life
        BY <2>1, <2>2, <3>2 DEF Sent, Made
      <4>2. Congruent(m.seq, off[snd.life] + m.num)
        BY <2>1, <2>3, <4>1, MadeNumbered
      <4> QED BY <1>0, <4>1, <4>2
    <3> QED BY <2>2, <3>1, <3>2 DEF Sent
  <2>5. Numbered(off)'
    BY <1>1, <2>1, <2>4 DEF Numbered
  <2> QED BY <1>1, <1>2, <2>1, <2>5 DEF OrderInv
<1>4. CASE Restart
  <2>1. /\ SndTyped(snd') /\ snd'.life = snd.life + 1
        /\ rcv' = rcv /\ net' = net /\ out' = out
    BY <1>0, <1>4, RestartFacts
  <2>2. snd'.offset \in Int /\ snd'.life \in Lives /\ snd'.offset - 1 \in Int
    <3>1. snd'.offset \in Int /\ snd'.life \in Lives
      BY <2>1, OffsetsTyped DEF SndTyped
    <3> QED BY <3>1
  <2>11. PICK k \in Int : k = snd'.offset - 1
    BY <2>2
  <2>12. PICK n \in Lives : n = snd'.life
    BY <2>2
  <2> DEFINE new == [off EXCEPT ![n] = k]
  <2>3. new \in [Lives -> Int] /\ new[snd'.life] = snd'.offset - 1
    BY <2>11, <2>12
  <2>4. \A l \in Lives : l <= snd.life => new[l] = off[l]
    <3>1. \A l \in Lives : l <= snd.life => l # n
      BY <1>0, <2>1, <2>12, LivesAndNumbers
    <3> QED BY <3>1
  <2>5. Congruent(snd'.offset - 1, new[snd'.life])
    <3>1. snd'.offset - 1 = (snd'.offset - 1) + Period * 0 /\ 0 \in Int
      BY <2>2, Constants
    <3> QED BY <2>3, <3>1 DEF Congruent
  <2> HIDE DEF new
  <2>6. ASSUME NEW m \in AtMediaSocket'
        PROVE  Congruent(m.seq, new[m.life] + m.num) /\ m.life <= snd'.life
    <3>1. m \in AtMediaSocket
      BY <2>1 DEF AtMediaSocket
    <3>2. m.life \in Lives /\ m.life <= snd.life /\ Congruent(m.seq, off[m.life] + m.num)
      BY <1>0, <1>1, <3>1, MediaTyped DEF Numbered, MediaMsg
    <3>3. m.life <= snd'.life
      BY <1>0, <2>1, <3>2, LivesAndNumbers
    <3> QED BY <2>4, <3>2, <3>3
  <2>7. rcv.media \in Lives \cup {None} /\ rcv.media <= snd.life /\ rcv.media \in Nat
    BY <1>0, <1>1, LivesAndNumbers DEF Numbered, Shape, RcvTyped, None
  <2>8. rcv'.media <= snd'.life
    BY <1>0, <2>1, <2>7
  <2>9. InStep(rcv, out, new)
    <3>1. rcv.media # None => new[rcv.media] = off[rcv.media]
      BY <2>4, <2>7
    <3> QED BY <1>1, <3>1 DEF InStep
  <2>10. Numbered(new)'
    BY <2>5, <2>6, <2>8 DEF Numbered
  <2> QED BY <1>2, <2>1, <2>3, <2>9, <2>10 DEF OrderInv
<1>5. CASE Pass
  <2>1. snd' = snd
    BY <1>0, <1>5, PassFacts
  <2>2. PICK r : Shape(r) /\ ReadIn(r) /\ LeftBy(r)
    BY <1>0, <1>5, PassFacts
  <2>3. Same(rcv', Pop(r), {"check", "holes", "passed", "ended"}) /\ Shape(rcv')
        /\ out' = out \o Popped(r)
    BY <2>2 DEF LeftBy
  <2>4. Same(Pop(r), r, {"next", "released", "buffer", "forced"}) /\ Shape(Pop(r))
    BY <2>2, PopFields, PopShape
  <2>5. /\ rcv'.media = Pop(r).media /\ rcv'.highest = Pop(r).highest
        /\ rcv'.next = Pop(r).next /\ rcv'.released = Pop(r).released
        /\ rcv'.buffer = Pop(r).buffer /\ rcv'.media = r.media
    BY <2>3, <2>4 DEF Same, RcvFields
  <2>6. \A m \in AtMediaSocket' : m \in AtMediaSocket
    BY <2>2 DEF ReadIn
  <2>7. InStep(r, out, off) /\ r.media <= snd.life
    BY <1>0, <1>1, <2>2, <2>5, ReadInStep DEF Onward
  <2>8. InStep(Pop(r), out', off) /\ Ordered(out')
    BY <1>0, <1>2, <2>2, <2>3, <2>7, PopInStep
  <2>9. InStep(rcv', out', off)
    BY <2>4, <2>5, <2>8, InStepSame
  <2>10. Numbered(off)'
    BY <1>1, <2>1, <2>5, <2>6, <2>7 DEF Numbered
  <2> QED BY <2>8, <2>9, <2>10 DEF OrderInv
<1>6. CASE Lose
  <2>1. UNCHANGED <<snd, rcv, out>> /\ \A m \in AtMediaSocket' : m \in AtMediaSocket
    BY <1>6 DEF Lose, AtMediaSocket
  <2>2. Numbered(off)'
    BY <1>1, <2>1 DEF Numbered
  <2> QED BY <1>1, <1>2, <2>1, <2>2 DEF OrderInv
<1>7. CASE Tick
  <2>1. Aged
    BY <1>0, <1>7, TickFacts
  <2>2. /\ snd'.life = snd.life /\ snd'.offset = snd.offset /\ out' = out
        /\ rcv'.media = rcv.media /\ rcv'.highest = rcv.highest /\ rcv'.next = rcv.next
        /\ rcv'.released = rcv.released /\ DOMAIN rcv'.buffer = DOMAIN rcv.buffer
    BY <2>1 DEF Aged, Same, RcvFields
  <2>3. \A e \in DOMAIN rcv.buffer : rcv'.buffer[e].num = rcv.buffer[e].num
    <3> SUFFICES ASSUME NEW e \in DOMAIN rcv.buffer
                 PROVE  rcv'.buffer[e].num = rcv.buffer[e].num
      OBVIOUS
    <3>1. rcv.buffer[e] \in [life : {rcv.media}, num : Numbers, age : 0 .. Hold]
      BY <1>0 DEF Shape, RcvTyped
    <3>2. rcv'.buffer[e] = Older(rcv.buffer[e])
      BY <2>1 DEF Aged
    <3> QED BY <3>1, <3>2 DEF Older
  <2>4. InStep(rcv', out, off)
    BY <1>0, <1>1, <2>2, <2>3, InStepSame
  <2>5. ASSUME NEW m \in AtMediaSocket'
        PROVE  Congruent(m.seq, off[m.life] + m.num) /\ m.life <= snd.life
    <3>1. PICK d \in AtMediaSocket : m = Older(d)
      BY <2>1 DEF Aged
    <3>2. d \in MediaMsg
      BY <1>0, MediaTyped
    <3>3. m.seq = d.seq /\ m.life = d.life /\ m.num = d.num
      BY <3>1, <3>2 DEF Older, MediaMsg
    <3>4. Congruent(d.seq, off[d.life] + d.num) /\ d.life <= snd.life
      BY <1>1 DEF Numbered
    <3> QED BY <3>3, <3>4
  <2>6. Numbered(off)'
    BY <1>1, <2>2, <2>5 DEF Numbered
  <2> QED BY <1>2, <2>2, <2>4, <2>6 DEF OrderInv
<1>8. CASE UNCHANGED vars
  <2>1. UNCHANGED <<snd, rcv, net, out>>
    BY <1>8 DEF vars
  <2>2. Numbered(off)'
    BY <1>1, <2>1 DEF Numbered, AtMediaSocket
  <2> QED BY <1>1, <1>2, <2>1, <2>2 DEF OrderInv
<1> QED BY <1>3, <1>4, <1>5, <1>6, <1>7, <1>8 DEF Next, SenderStep

(* Onward is what never switching back comes to.                           *)
LEMMA ForwardOnward ==
  TypeInv /\ TypeInv' /\ OrderInv /\ [rcv'.media >= rcv.media]_vars => Onward
<1> SUFFICES ASSUME TypeInv, TypeInv', OrderInv, [rcv'.media >= rcv.media]_vars,
                    rcv'.media # rcv.media, NEW i \in DOMAIN out
             PROVE  out[i].life < rcv'.media
  BY DEF Onward
<1>1. rcv'.media >= rcv.media
  BY DEF vars
<1>2. PICK off \in [Lives -> Int] : InStep(rcv, out, off)
  BY DEF OrderInv
<1>3. rcv.media # None /\ out[i].life <= rcv.media
  BY <1>2 DEF InStep
<1>4. rcv.media \in Nat /\ out[i].life \in Nat
  <2>1. rcv.media \in Lives
    BY <1>3 DEF TypeInv, Shape, RcvTyped
  <2>2. out[i] \in Packets
    BY DEF TypeInv
  <2>3. out[i].life \in Lives
    BY <2>2 DEF Packets
  <2> QED BY <2>1, <2>3, LivesAndNumbers
<1>5. rcv'.media \in Nat
  <2>1. rcv'.media \in Lives \cup {None}
    BY DEF TypeInv, Shape, RcvTyped
  <2> QED BY <2>1, LivesAndNumbers DEF None
<1> QED BY <1>1, <1>3, <1>4, <1>5

(* What goes downstream is in order and without repeats, for any number of *)
(* restarts, wherever the numbers wrap, and however packets are delayed,   *)
(* repeated or asked for again: as long as those under way are within half *)
(* the number space of the newest one received, and no late packet of an   *)
(* older sender takes the stream back.                                     *)
THEOREM ForwardInOrder ==
  Spec /\ []Near /\ NeverSwitchedBack => ReleasedInOrder
<1>1. TypeInv /\ OrderInv /\ Near /\ [Next]_vars /\ [rcv'.media >= rcv.media]_vars
        => OrderInv'
  BY TypeStep, OrderStep, ForwardOnward
<1>2. OrderInv => \A i, j \in DOMAIN out :
                     i < j => \/ out[i].life < out[j].life
                              \/ out[i].life = out[j].life /\ out[i].num < out[j].num
  BY DEF OrderInv, Ordered
<1>3. [rcv'.media >= rcv.media]_vars
        => [rcv.previous # None /\ rcv.previous < rcv.media => rcv'.media >= rcv.media]_vars
  OBVIOUS
<1> QED BY <1>1, <1>2, <1>3, OrderInit, TypeAlways, PTL
       DEF Spec, NeverSwitchedBack, ReleasedInOrder
-----------------------------------------------------------------------------
(* One restart: how the jitter buffer's delay keeps the two streams apart. *)

(* Packets of the first sender that could still take the stream back.      *)
Strays == {m \in AtMediaSocket : ~m.resent /\ m.life = 1}

(* The senders share the packets there are.                                *)
Shared ==
    \A m \in AtMediaSocket :
        /\ m.life = snd.life => m.num <= snd.sent
        /\ m.life < snd.life => snd.sent + snd.input < MaxSent

(* A receiver that began with the second sender has held no packet longer  *)
(* than a stray of the first has been under way, and has released none     *)
(* while there is one.                                                     *)
Waits(r) ==
    /\ r.media = snd.life => \A e \in DOMAIN r.buffer : r.buffer[e].num <= snd.sent
    /\ r.media = 2 => \A m \in Strays, e \in DOMAIN r.buffer : r.buffer[e].age <= m.age
    /\ r.media = 2 /\ r.previous # 1 => \A i \in DOMAIN out : out[i].life # 1 /\ Strays = {}

(* No full buffer forced a packet out, or it holds all there are.          *)
Unforced == ~rcv.forced \/ MaxSent <= Depth

(* Reading keeps it so.                                                    *)
LEMMA ReadWaits ==
  ASSUME MaxLives <= 2, TypeInv, Shared, Waits(rcv), rcv.media = None => out = <<>>,
         NEW r, ReadIn(r)
  PROVE  Waits(r)
<1>0. /\ Shape(rcv) /\ NetTyped /\ snd.sent \in Nat
      /\ \A m \in Strays : m.age \in Nat
  <2>1. \A m \in Strays : m \in MediaMsg
    BY MediaTyped DEF TypeInv, Strays
  <2>2. \A m \in MediaMsg : m.age \in Nat
    BY Constants DEF MediaMsg
  <2> QED BY <2>1, <2>2 DEF TypeInv, SndTyped
<1>1. CASE Same(r, rcv, {"dest", "goodbye"})
  <2>1. r.media = rcv.media /\ r.previous = rcv.previous /\ r.buffer = rcv.buffer
    BY <1>1 DEF Same, RcvFields
  <2> QED BY <2>1 DEF Waits
<1>2. ASSUME NEW m \in AtMediaSocket, Took(r, m), ~Same(r, rcv, {"dest", "goodbye"})
      PROVE  Waits(r)
  <2>0. m \in MediaMsg /\ m.life \in Lives /\ m.num \in Nat /\ m.seq \in 0 .. Period - 1
    <3>1. m \in MediaMsg
      BY <1>0, MediaTyped
    <3> QED BY <3>1, LivesAndNumbers DEF MediaMsg
  <2>1. CASE /\ Same(r, rcv, {"highest", "next", "buffer", "dest", "goodbye"})
             /\ rcv.media = m.life
             /\ \/ PutIn(r, rcv, m, Extend(rcv.highest, m.seq))
                \/ LeftOut(r, rcv, Extend(rcv.highest, m.seq))
    <3> DEFINE ext == Extend(rcv.highest, m.seq)
    <3>1. r.media = rcv.media /\ r.previous = rcv.previous
      BY <2>1 DEF Same, RcvFields
    <3>2. ext \in Nat
      <4>1. rcv.media # None
        BY <2>0, <2>1, LivesAndNumbers
      <4>2. Running(rcv) /\ rcv.highest \in Nat
        BY <1>0, <4>1 DEF Shape, RcvTyped
      <4> QED BY <2>0, <4>2, ExtendFacts DEF Running
    <3> HIDE DEF ext
    <3>3. CASE LeftOut(r, rcv, ext)
      <4>1. r.buffer = rcv.buffer
        BY <3>3 DEF LeftOut
      <4> QED BY <3>1, <4>1 DEF Waits
    <3>4. CASE PutIn(r, rcv, m, ext)
      <4>1. /\ DOMAIN r.buffer = DOMAIN rcv.buffer \cup {ext}
            /\ \A e \in DOMAIN rcv.buffer : r.buffer[e] = rcv.buffer[e]
            /\ r.buffer[ext].num = m.num /\ r.buffer[ext].age = ArrivalAge(rcv, ext)
        BY <3>4 DEF PutIn
      <4>2. rcv.media = snd.life => m.num <= snd.sent
        BY <2>1 DEF Shared
      <4>3. \/ ArrivalAge(rcv, ext) = 0
            \/ \E e \in DOMAIN rcv.buffer : ArrivalAge(rcv, ext) = rcv.buffer[e].age
        <5>1. RcvTyped(rcv) /\ \A e \in DOMAIN rcv.buffer : e \in Nat
          BY <1>0 DEF Shape, RcvTyped
        <5>2. \/ \A e \in DOMAIN rcv.buffer : e <= ext
              \/ \E e \in DOMAIN rcv.buffer : e > ext
          BY <3>2, <5>1
        <5> QED BY <3>2, <5>1, <5>2, ArrivalAgeFacts
      <4>4. rcv.media = 2 => \A d \in Strays : ArrivalAge(rcv, ext) <= d.age
        BY <1>0, <4>3 DEF Waits
      <4> QED BY <3>1, <4>1, <4>2, <4>4 DEF Waits
    <3> QED BY <2>1, <3>3, <3>4 DEF ext
  <2>2. CASE Adopted(r, rcv, m)
    <3> DEFINE e == Period + m.seq
    <3>1. /\ m.life # rcv.media /\ r.media = m.life
          /\ r.previous = (IF rcv.media = None THEN rcv.previous ELSE rcv.media)
          /\ DOMAIN r.buffer = {e}
          /\ r.buffer[e].num = m.num /\ r.buffer[e].age = 0
      BY <2>2 DEF Adopted
    <3> HIDE DEF e
    <3>2. r.media = snd.life => m.num <= snd.sent
      BY <3>1 DEF Shared
    <3>3. \A d \in Strays : 0 <= d.age
      BY <1>0
    <3>4. ASSUME r.media = 2, r.previous # 1 PROVE out = <<>>
      <4>1. rcv.media \in Lives \cup {None}
        BY <1>0 DEF Shape, RcvTyped
      <4>2. rcv.media \in Lives => rcv.media = 1
        <5>1. \A l \in Lives : l = 1 \/ l = 2
          BY Constants DEF Lives
        <5> QED BY <3>1, <3>4, <5>1
      <4>3. rcv.media = None
        BY <3>1, <3>4, <4>1, <4>2
      <4> QED BY <4>3
    <3>5. out = <<>> => DOMAIN out = {}
      OBVIOUS
    <3> QED BY <3>1, <3>2, <3>3, <3>4, <3>5 DEF Waits
  <2> QED BY <1>2, <2>1, <2>2 DEF Took
<1> QED BY <1>1, <1>2 DEF ReadIn

(* With a stray under way nothing is due.                                  *)
LEMMA NothingDue ==
  ASSUME MaxDelay < Hold, TypeInv, Shared, NEW r, Shape(r), Waits(r),
         NEW off, InStep(r, out, off), r.media = 2, snd.life = 2,
         NEW m \in Strays, Pop(r).forced => MaxSent <= Depth
  PROVE  Due(r) = {}
<1> SUFFICES ASSUME NEW x \in Due(r) PROVE FALSE
  OBVIOUS
<1> DEFINE D == DOMAIN r.buffer
           K == Origin(r, out)
<1>0. /\ out \in Seq(Packets) /\ snd.sent \in Nat /\ snd.input \in Nat
      /\ m \in AtMediaSocket /\ m \in MediaMsg /\ m.life = 1
  BY MediaTyped DEF TypeInv, SndTyped, Strays
<1>1. x \in D /\ r.buffer[x].age < Hold
  <2>1. x \in D
    BY DueFacts
  <2>2. r.buffer[x].age <= m.age
    BY <2>1 DEF Waits
  <2>3. m.age \in 0 .. MaxDelay
    BY <1>0 DEF MediaMsg
  <2>4. r.buffer[x].age \in 0 .. Hold
    BY <2>1 DEF Shape, RcvTyped
  <2> QED BY <2>1, <2>2, <2>3, <2>4, Constants
<1>2. MaxSent <= Depth
  <2>1. Pop(r).forced = (r.forced \/ \E e \in Due(r) : r.buffer[e].age < Hold)
    BY PopFields
  <2> QED BY <1>1, <2>1
<1>3. Cardinality(D) >= Depth /\ IsFiniteSet(D) /\ D \in SUBSET Nat
  <2>1. r.buffer[x].age >= Hold \/ Cardinality(D) >= Depth
    BY DueFacts
  <2>2. r.buffer[x].age \in 0 .. Hold
    BY <1>1 DEF Shape, RcvTyped
  <2> QED BY <1>1, <2>1, <2>2, Constants DEF Shape, RcvTyped
<1>4. snd.sent < MaxSent
  <2>1. snd.sent + snd.input < MaxSent
    BY <1>0 DEF Shared
  <2> QED BY <1>0, <2>1, Constants
<1>5. K \in Int /\ \A e \in D : e = K + r.buffer[e].num
  <2>1. r.media # None /\ D # {}
    BY <1>1 DEF None
  <2> QED BY <1>0, <2>1, NewestTyped DEF InStep
<1> HIDE DEF K
<1>6. D \in SUBSET ((K + 1) .. (K + snd.sent))
  <2> SUFFICES ASSUME NEW e \in D PROVE e \in (K + 1) .. (K + snd.sent)
    OBVIOUS
  <2>1. r.buffer[e].num \in Numbers
    BY DEF Shape, RcvTyped
  <2>2. r.buffer[e].num \in Nat /\ r.buffer[e].num >= 1 /\ r.buffer[e].num <= snd.sent
    BY <2>1, LivesAndNumbers DEF Waits
  <2>3. e = K + r.buffer[e].num
    BY <1>5
  <2> QED BY <1>0, <1>5, <2>2, <2>3
<1> HIDE DEF D
<1>7. Cardinality(D) <= snd.sent /\ Cardinality(D) \in Nat
  <2> DEFINE I == (K + 1) .. (K + snd.sent)
  <2>1. K + 1 \in Int /\ K + snd.sent \in Int
    BY <1>0, <1>5
  <2>2. IsFiniteSet(I) /\ Cardinality(I) =
           IF K + 1 > K + snd.sent THEN 0 ELSE (K + snd.sent) - (K + 1) + 1
    BY <2>1, FS_Interval
  <2>3. Cardinality(I) = snd.sent
    BY <1>0, <1>5, <2>2
  <2>4. D \in SUBSET I
    BY <1>6
  <2> HIDE DEF I
  <2> QED BY <2>2, <2>3, <2>4, FS_Subset, FS_CardinalityType
<1> QED BY <1>0, <1>2, <1>3, <1>4, <1>7, Constants

(* What is kept of the switch to a restarted sender: its packets and those *)
(* of the one before it that are still under way.                          *)
SecondInv == Shared /\ Waits(rcv)

(* Nothing is under way at the start.                                      *)
LEMMA SecondInit ==
  Init => SecondInv
<1> SUFFICES ASSUME Init PROVE SecondInv
  OBVIOUS
<1>1. AtMediaSocket = {} /\ DOMAIN rcv.buffer = {} /\ out = <<>>
  BY DEF Init, AtMediaSocket, NoPackets
<1>2. DOMAIN out = {}
  BY <1>1
<1> QED BY <1>1, <1>2 DEF SecondInv, Shared, Waits

(* With one restart, only a stray takes the stream back, and then nothing  *)
(* of the second sender has gone out.                                      *)
LEMMA SecondOnward ==
  ASSUME MaxLives <= 2, TypeInv, OrderInv, SecondInv, [Next]_vars
  PROVE  /\ Onward
         /\ rcv.previous # None /\ rcv.previous < rcv.media => rcv'.media = rcv.media
<1>0. /\ SndTyped(snd) /\ Shape(rcv) /\ NetTyped /\ out \in Seq(Packets) /\ OutputOnTime
      /\ rcv.ended => DOMAIN rcv.buffer = {}
  BY DEF TypeInv
<1>1. \A l \in Lives : l = 1 \/ l = 2
  BY Constants DEF Lives
<1>2. CASE Pass
  <2>1. PICK r : Shape(r) /\ ReadIn(r) /\ LeftBy(r)
    BY <1>0, <1>2, PassFacts
  <2>2. rcv'.media = r.media
    <3>1. Same(rcv', Pop(r), {"check", "holes", "passed", "ended"})
      BY <2>1 DEF LeftBy
    <3>2. Same(Pop(r), r, {"next", "released", "buffer", "forced"})
      BY <2>1, PopFields
    <3> QED BY <3>1, <3>2 DEF Same, RcvFields
  <2>3. CASE r.media = rcv.media
    BY <2>2, <2>3 DEF Onward
  <2>4. CASE r.media # rcv.media
    <3>1. PICK m \in AtMediaSocket : Took(r, m)
      BY <2>1, <2>4 DEF ReadIn, Same, RcvFields
    <3>2. Adopted(r, rcv, m)
      BY <2>4, <3>1 DEF Took, Same, RcvFields
    <3>3. ~m.resent /\ m.life # rcv.media /\ (rcv.media # None => rcv.previous # m.life)
          /\ r.media = m.life
      BY <3>2 DEF Adopted
    <3>4. m.life \in Lives
      BY <1>0, MediaTyped DEF MediaMsg
    <3>5. rcv.media \in Lives \cup {None} /\ rcv.previous \in Lives \cup {None}
      BY <1>0 DEF Shape, RcvTyped
    <3>6. PICK off \in [Lives -> Int] : InStep(rcv, out, off)
      BY DEF OrderInv
    <3>7. ASSUME rcv.previous # None, rcv.previous < rcv.media PROVE FALSE
      <4>1. rcv.media # None /\ rcv.previous \in Lives /\ rcv.media \in Lives
        BY <3>5, <3>7, LivesAndNumbers DEF None
      <4>2. rcv.previous = 1 /\ rcv.media = 2
        BY <1>1, <3>7, <4>1
      <4> QED BY <1>1, <3>3, <3>4, <4>1, <4>2
    <3>8. ASSUME NEW i \in DOMAIN out PROVE out[i].life < m.life
      <4>1. rcv.media # None /\ out[i].life <= rcv.media
        BY <3>6 DEF InStep
      <4>2. out[i] \in Packets
        BY <1>0
      <4>3. out[i].life \in Lives
        BY <4>2 DEF Packets
      <4>4. CASE m.life = 2
        <5>1. rcv.media = 1
          BY <1>1, <3>3, <3>5, <4>1, <4>4
        <5> QED BY <1>1, <4>1, <4>3, <4>4, <5>1
      <4>5. CASE m.life = 1
        <5>1. rcv.media = 2 /\ rcv.previous # 1
          BY <1>1, <3>3, <3>5, <4>1, <4>5
        <5>2. m \in Strays
          BY <3>3, <4>5 DEF Strays
        <5>3. Strays = {}
          BY <5>1 DEF SecondInv, Waits
        <5> QED BY <5>2, <5>3
      <4> QED BY <1>1, <3>4, <4>4, <4>5
    <3> QED BY <2>2, <3>3, <3>7, <3>8 DEF Onward
  <2> QED BY <2>3, <2>4
<1>3. CASE ~Pass
  <2>1. rcv'.media = rcv.media
    <3>1. CASE SenderStep
      BY <1>0, <3>1, SenderFacts
    <3>2. CASE Restart
      BY <3>2 DEF Restart
    <3>3. CASE Lose
      BY <3>3 DEF Lose
    <3>4. CASE Tick
      <4>1. Aged
        BY <1>0, <3>4, TickFacts
      <4> QED BY <4>1 DEF Aged, Same, RcvFields
    <3>5. CASE UNCHANGED vars
      BY <3>5 DEF vars
    <3> QED BY <1>3, <3>1, <3>2, <3>3, <3>4, <3>5 DEF Next, SenderStep
  <2> QED BY <2>1 DEF Onward
<1> QED BY <1>2, <1>3

(* Every step keeps strays behind the buffer.                              *)
LEMMA SecondStep ==
  ASSUME MaxLives <= 2, MaxDelay < Hold, TypeInv, OrderInv, SecondInv, Near, Unforced',
         [Next]_vars
  PROVE  SecondInv'
<1>0. /\ SndTyped(snd) /\ Shape(rcv) /\ NetTyped /\ out \in Seq(Packets) /\ OutputOnTime
      /\ rcv.ended => DOMAIN rcv.buffer = {}
      /\ snd.sent \in Nat /\ snd.input \in Nat /\ snd.life \in Lives /\ snd.life \in Nat
      /\ snd.sent + snd.input <= MaxSent
  BY LivesAndNumbers DEF TypeInv, SndTyped
<1>1. \A l \in Lives : l = 1 \/ l = 2
  BY Constants DEF Lives
<1>2. PICK off \in [Lives -> Int] : Numbered(off) /\ InStep(rcv, out, off)
  BY DEF OrderInv
<1>3. Shared /\ Waits(rcv)
  BY DEF SecondInv
<1>4. rcv.media = 2 => snd.life = 2
  BY <1>0, <1>1, <1>2 DEF Numbered
<1>5. \A e \in DOMAIN rcv.buffer : rcv.buffer[e].num \in Nat
  BY <1>0, LivesAndNumbers DEF Shape, RcvTyped
<1>6. \A m \in AtMediaSocket : m \in MediaMsg /\ m.num \in Nat /\ m.num >= 1 /\ m.life \in Lives
  <2>1. \A m \in AtMediaSocket : m \in MediaMsg
    BY <1>0, MediaTyped
  <2> QED BY <2>1, LivesAndNumbers DEF MediaMsg
<1>7. ASSUME snd' = snd, rcv' = rcv, out' = out, AtMediaSocket' \in SUBSET AtMediaSocket
      PROVE  SecondInv'
  <2>1. Shared'
    BY <1>3, <1>7 DEF Shared
  <2>2. Strays' \in SUBSET Strays
    BY <1>7 DEF Strays
  <2>3. Waits(rcv)'
    BY <1>3, <1>7, <2>2 DEF Waits
  <2> QED BY <2>1, <2>3 DEF SecondInv
<1>8. CASE SenderStep
  <2>1. /\ SndTyped(snd') /\ rcv' = rcv /\ out' = out /\ snd'.life = snd.life
        /\ snd'.sent >= snd.sent /\ snd'.sent + snd'.input = snd.sent + snd.input
    BY <1>0, <1>8, SenderFacts
  <2>2. PICK S : Sent(S)
    BY <1>0, <1>8, SenderFacts
  <2>3. snd'.sent \in Nat
    BY <2>1 DEF SndTyped
  <2>4. ASSUME NEW m \in AtMediaSocket'
        PROVE  /\ m.life = snd'.life => m.num <= snd'.sent
               /\ m.life < snd'.life => snd'.sent + snd'.input < MaxSent
    <3>1. CASE m \in AtMediaSocket
      <4>1. m.num \in Nat
        BY <1>6, <3>1
      <4>2. /\ m.life = snd.life => m.num <= snd.sent
            /\ m.life < snd.life => snd.sent + snd.input < MaxSent
        BY <1>3, <3>1 DEF Shared
      <4> QED BY <1>0, <2>1, <2>3, <4>1, <4>2
    <3>2. CASE m \in S
      <4>1. m.life = snd'.life /\ m.num \in 1 .. snd'.sent
        BY <2>2, <3>2 DEF Sent, Made
      <4> QED BY <1>0, <2>1, <2>3, <4>1
    <3> QED BY <2>2, <3>1, <3>2 DEF Sent
  <2>5. snd.life = 2 => Strays' \in SUBSET Strays
    <3>1. ASSUME snd.life = 2, NEW m \in Strays' PROVE m \in Strays
      <4>1. m \in AtMediaSocket' /\ ~m.resent /\ m.life = 1
        BY DEF Strays
      <4>2. m \notin S
        BY <2>1, <2>2, <3>1, <4>1 DEF Sent, Made
      <4> QED BY <2>2, <4>1, <4>2 DEF Sent, Strays
    <3> QED BY <3>1
  <2>6. rcv.media = snd.life => \A e \in DOMAIN rcv.buffer : rcv.buffer[e].num <= snd'.sent
    <3> SUFFICES ASSUME rcv.media = snd.life, NEW e \in DOMAIN rcv.buffer
                 PROVE  rcv.buffer[e].num <= snd'.sent
      OBVIOUS
    <3>1. rcv.buffer[e].num <= snd.sent /\ rcv.buffer[e].num \in Nat
      BY <1>3, <1>5 DEF Waits
    <3> QED BY <1>0, <2>1, <2>3, <3>1
  <2>7. Waits(rcv)'
    BY <1>3, <1>4, <2>1, <2>5, <2>6 DEF Waits
  <2>8. Shared'
    BY <2>4 DEF Shared
  <2> QED BY <2>7, <2>8 DEF SecondInv
<1>9. CASE Restart
  <2>1. /\ snd'.life = snd.life + 1 /\ snd'.sent = 0 /\ snd'.input = snd.input
        /\ snd.life < MaxLives /\ rcv' = rcv /\ net' = net /\ out' = out
    BY <1>0, <1>9, RestartFacts
  <2>2. snd.life = 1 /\ snd'.life = 2
    BY <1>0, <1>1, <2>1, Constants
  <2>3. rcv.media \in Nat /\ rcv.media <= 1
    <3>1. rcv.media \in Lives \cup {None}
      BY <1>0 DEF Shape, RcvTyped
    <3> QED BY <1>2, <2>2, <3>1, LivesAndNumbers DEF Numbered, None
  <2>4. Waits(rcv)'
    BY <2>1, <2>2, <2>3 DEF Waits
  <2>5. Shared'
    <3> SUFFICES ASSUME NEW m \in AtMediaSocket
                 PROVE  /\ m.life # snd'.life
                        /\ snd'.sent + snd'.input < MaxSent
      BY <2>1 DEF Shared, AtMediaSocket
    <3>1. m.life <= snd.life /\ m.life \in Lives
      BY <1>2, <1>6 DEF Numbered
    <3>2. m.life = 1
      BY <1>1, <2>2, <3>1
    <3>3. m.num <= snd.sent /\ m.num \in Nat /\ m.num >= 1
      BY <1>3, <1>6, <2>2, <3>2 DEF Shared
    <3> QED BY <1>0, <2>1, <2>2, <3>2, <3>3, Constants
  <2> QED BY <2>4, <2>5 DEF SecondInv
<1>10. CASE Pass
  <2>1. snd' = snd
    BY <1>0, <1>10, PassFacts
  <2>2. PICK r : Shape(r) /\ ReadIn(r) /\ LeftBy(r)
    BY <1>0, <1>10, PassFacts
  <2>3. /\ Same(rcv', Pop(r), {"check", "holes", "passed", "ended"})
        /\ out' = out \o Popped(r)
    BY <2>2 DEF LeftBy
  <2>4. /\ Same(Pop(r), r, {"next", "released", "buffer", "forced"})
        /\ DOMAIN Pop(r).buffer = DOMAIN r.buffer \ Due(r)
        /\ \A e \in DOMAIN Pop(r).buffer : Pop(r).buffer[e] = r.buffer[e]
    BY <2>2, PopFields
  <2>5. /\ rcv'.media = r.media /\ rcv'.previous = r.previous
        /\ rcv'.buffer = Pop(r).buffer /\ rcv'.forced = Pop(r).forced
    BY <2>3, <2>4 DEF Same, RcvFields
  <2>6. AtMediaSocket' \in SUBSET AtMediaSocket
    BY <2>2 DEF ReadIn
  <2>7. Strays' \in SUBSET Strays
    BY <2>6 DEF Strays
  <2>8. Waits(r)
    BY <1>2, <1>3, <2>2, ReadWaits DEF InStep
  <2>9. Onward
    BY SecondOnward
  <2>10. InStep(r, out, off) /\ r.media <= snd.life
    BY <1>0, <1>2, <2>2, <2>5, <2>9, ReadInStep DEF Onward
  <2>11. Shared'
    BY <1>3, <2>1, <2>6 DEF Shared
  <2>12. ASSUME rcv'.media = 2, rcv'.previous # 1, NEW i \in DOMAIN out'
         PROVE  out'[i].life # 1 /\ Strays' = {}
    <3>1. /\ Popped(r) \in Seq(Packets) /\ Len(Popped(r)) = Cardinality(Due(r))
          /\ \A j \in 1 .. Len(Popped(r)) : Popped(r)[j].life = r.media
          /\ Len(Popped(r)) \in Nat
      BY <2>2, PoppedFacts
    <3>2. r.media = 2 /\ r.previous # 1
      BY <2>5, <2>12
    <3> DEFINE s == Popped(r)
    <3>3. DOMAIN out' = 1 .. Len(out) + Len(s) /\ Len(out) \in Nat /\ Len(s) \in Nat
      <4> HIDE DEF s
      <4> QED BY <1>0, <2>3, <3>1 DEF s
    <3>4. CASE i \in 1 .. Len(out)
      <4>1. out'[i] = out[i] /\ i \in DOMAIN out
        <5> HIDE DEF s
        <5> QED BY <1>0, <2>3, <3>1, <3>4 DEF s
      <4> QED BY <2>7, <2>8, <3>2, <4>1 DEF Waits
    <3>5. CASE i \notin 1 .. Len(out)
      <4> DEFINE j == i - Len(out)
      <4>1. j \in 1 .. Len(s) /\ i = Len(out) + j
        <5> HIDE DEF s
        <5> QED BY <3>3, <3>5
      <4>2. out'[i] = s[j]
        <5> HIDE DEF j
        <5>1. s \in Seq(Packets) /\ out' = out \o s
          BY <2>3, <3>1
        <5> HIDE DEF s
        <5> QED BY <1>0, <4>1, <5>1
      <4>3. out'[i].life = 2
        BY <3>1, <3>2, <4>1, <4>2
      <4>4. Due(r) # {}
        <5>1. Len(s) # 0
          <6> HIDE DEF s, j
          <6> QED BY <3>3, <4>1
        <5> QED BY <3>1, <5>1, FS_EmptySet
      <4>5. ASSUME NEW m \in Strays' PROVE FALSE
        <5>1. m \in Strays
          BY <2>7
        <5>2. snd.life = 2
          BY <1>0, <1>1, <2>10, <3>2
        <5>3. Pop(r).forced => MaxSent <= Depth
          BY <2>5 DEF Unforced
        <5> QED BY <1>3, <2>2, <2>8, <2>10, <3>2, <4>4, <5>1, <5>2, <5>3, NothingDue
      <4> QED BY <4>3, <4>5
    <3> QED BY <3>4, <3>5
  <2>13. Waits(rcv)'
    <3>1. rcv'.media = snd.life =>
             \A e \in DOMAIN rcv'.buffer : rcv'.buffer[e].num <= snd.sent
      BY <2>4, <2>5, <2>8 DEF Waits
    <3>2. rcv'.media = 2 =>
             \A m \in Strays', e \in DOMAIN rcv'.buffer : rcv'.buffer[e].age <= m.age
      BY <2>4, <2>5, <2>7, <2>8 DEF Waits
    <3> QED BY <2>1, <2>12, <3>1, <3>2 DEF Waits
  <2> QED BY <2>11, <2>13 DEF SecondInv
<1>11. CASE Lose
  BY <1>7, <1>11 DEF Lose, AtMediaSocket
<1>12. CASE Tick
  <2>1. Aged
    BY <1>0, <1>12, TickFacts
  <2>2. /\ snd'.life = snd.life /\ snd'.sent = snd.sent /\ snd'.input = snd.input
        /\ out' = out /\ rcv'.media = rcv.media /\ rcv'.previous = rcv.previous
        /\ DOMAIN rcv'.buffer = DOMAIN rcv.buffer
    BY <2>1 DEF Aged, Same, RcvFields
  <2>3. ASSUME NEW e \in DOMAIN rcv.buffer
        PROVE  /\ rcv'.buffer[e].num = rcv.buffer[e].num
               /\ rcv'.buffer[e].age = rcv.buffer[e].age + 1 /\ rcv.buffer[e].age \in Nat
    <3>1. rcv.buffer[e] \in [life : {rcv.media}, num : Numbers, age : 0 .. Hold]
      BY <1>0 DEF Shape, RcvTyped
    <3>2. rcv'.buffer[e] = Older(rcv.buffer[e])
      BY <2>1 DEF Aged
    <3> QED BY <3>1, <3>2, Constants DEF Older
  <2>4. ASSUME NEW m \in AtMediaSocket'
        PROVE  \E d \in AtMediaSocket : /\ m.life = d.life /\ m.num = d.num
                                        /\ m.resent = d.resent
                                        /\ m.age = d.age + 1 /\ d.age \in Nat
    <3>1. PICK d \in AtMediaSocket : m = Older(d)
      BY <2>1 DEF Aged
    <3>2. d \in MediaMsg
      BY <1>6
    <3> QED BY <3>1, <3>2, Constants DEF Older, MediaMsg
  <2>5. Shared'
    BY <1>3, <2>2, <2>4 DEF Shared
  <2>6. \A m \in Strays' : \E d \in Strays : m.age = d.age + 1 /\ d.age \in Nat
    BY <2>4 DEF Strays
  <2>7. rcv'.media = 2 =>
           \A m \in Strays', e \in DOMAIN rcv'.buffer : rcv'.buffer[e].age <= m.age
    <3> SUFFICES ASSUME rcv.media = 2, NEW m \in Strays', NEW e \in DOMAIN rcv.buffer
                 PROVE  rcv'.buffer[e].age <= m.age
      BY <2>2
    <3>1. PICK d \in Strays : m.age = d.age + 1 /\ d.age \in Nat
      BY <2>6
    <3>2. rcv.buffer[e].age <= d.age
      BY <1>3 DEF Waits
    <3> QED BY <2>3, <3>1, <3>2
  <2>8. Waits(rcv)'
    BY <1>3, <2>2, <2>3, <2>6, <2>7 DEF Waits
  <2> QED BY <2>5, <2>8 DEF SecondInv
<1>13. CASE UNCHANGED vars
  BY <1>7, <1>13 DEF vars, AtMediaSocket
<1> QED BY <1>8, <1>9, <1>10, <1>11, <1>12, <1>13 DEF Next, SenderStep

(* A sender restarted once, without knowing which of its packets come      *)
(* first: what goes downstream is in order, nothing twice, and a receiver  *)
(* that has followed the restart stays with it, if packets are under way   *)
(* for less than the receiver buffer holds them, if those under way are    *)
(* within half the number space of the newest one received, and if no full *)
(* buffer forces a packet out early.  A late packet of the first sender    *)
(* may take the stream back (NeverSwitchedBack), but only before anything  *)
(* of the second one has gone out.                                         *)
THEOREM RestartInOrder ==
  ASSUME MaxLives <= 2, MaxDelay < Hold
  PROVE  Spec /\ []Near /\ []Unforced => ReleasedInOrder
<1>1. TypeInv /\ OrderInv /\ SecondInv /\ Near /\ Unforced' /\ [Next]_vars
        => OrderInv' /\ SecondInv'
  BY OrderStep, SecondOnward, SecondStep
<1>2. OrderInv => \A i, j \in DOMAIN out :
                     i < j => \/ out[i].life < out[j].life
                              \/ out[i].life = out[j].life /\ out[i].num < out[j].num
  BY DEF OrderInv, Ordered
<1>3. TypeInv /\ OrderInv /\ SecondInv /\ [Next]_vars
        => [rcv.previous # None /\ rcv.previous < rcv.media => rcv'.media >= rcv.media]_vars
  <2> SUFFICES ASSUME TypeInv, OrderInv, SecondInv, [Next]_vars,
                      rcv.previous # None, rcv.previous < rcv.media
               PROVE  rcv'.media >= rcv.media
    OBVIOUS
  <2>1. rcv'.media = rcv.media
    BY SecondOnward
  <2>2. rcv.media \in Lives \cup {None}
    BY DEF TypeInv, Shape, RcvTyped
  <2>3. rcv.media \in Nat
    BY <2>2, LivesAndNumbers DEF None
  <2> QED BY <2>1, <2>3
<1> QED BY <1>1, <1>2, <1>3, OrderInit, SecondInit, TypeAlways, PTL
       DEF Spec, ReleasedInOrder

(* When all packets there are fit in half the number space, they are near. *)
LEMMA FewAreNear ==
  ASSUME MaxSent <= Period \div 2, TypeInv, OrderInv
  PROVE  Near
<1> SUFFICES ASSUME NEW m \in AtMediaSocket, m.life = rcv.media
             PROVE  m.num - Newest(rcv, out) \in -(Period \div 2) .. (Period \div 2) - 1
  BY DEF Near, NearBy
<1>1. m \in MediaMsg
  BY MediaTyped DEF TypeInv
<1>2. m.num \in Numbers /\ m.life \in Lives
  BY <1>1 DEF MediaMsg
<1>3. rcv.media # None
  BY <1>2, LivesAndNumbers
<1>4. Newest(rcv, out) \in Numbers
  <2>1. PICK off \in [Lives -> Int] : InStep(rcv, out, off)
    BY DEF OrderInv
  <2> QED BY <1>3, <2>1, NewestTyped DEF InStep, TypeInv
<1>5. m.num \in Nat /\ m.num >= 1 /\ m.num <= MaxSent
  BY <1>2, Constants DEF Numbers
<1> DEFINE n == Newest(rcv, out)
<1>6. n \in Nat /\ n >= 1 /\ n <= MaxSent
  <2> HIDE DEF n
  <2>1. n \in Numbers
    BY <1>4 DEF n
  <2> QED BY <2>1, Constants DEF Numbers
<1> HIDE DEF n
<1>7. m.num - n \in -(Period \div 2) .. (Period \div 2) - 1
  BY <1>5, <1>6, HalfPeriod, Constants
<1> QED BY <1>7 DEF n

(* The same for every behaviour, when the packets there are fit in the     *)
(* jitter buffer and in half the number space: the case the model checker  *)
(* runs, for every such size and every number of losses and repeats.       *)
THEOREM ShortStreamInOrder ==
  ASSUME MaxLives <= 2, MaxDelay < Hold, MaxSent <= Depth, MaxSent <= Period \div 2
  PROVE  Spec => ReleasedInOrder
<1>1. TypeInv /\ OrderInv => Near
  BY FewAreNear
<1>2. Unforced
  BY DEF Unforced
<1>3. Unforced'
  BY DEF Unforced
<1>4. TypeInv /\ OrderInv /\ SecondInv /\ [Next]_vars => OrderInv' /\ SecondInv'
  BY <1>1, <1>3, OrderStep, SecondOnward, SecondStep
<1>5. Spec => []Near
  BY <1>1, <1>4, OrderInit, SecondInit, TypeAlways, PTL DEF Spec
<1>6. Spec => []Unforced
  BY <1>2, PTL
<1> QED BY <1>5, <1>6, RestartInOrder, PTL
-----------------------------------------------------------------------------
(* A network that delays and reorders, and loses nothing, leaves no gap.   *)

(* No packet is missing downstream between two that follow each other.     *)
Contiguous(o) ==
    \A i \in 1 .. Len(o) - 1 : o[i].life = o[i + 1].life => o[i].num + 1 = o[i + 1].num

(* Where the packet n of a stream can be: under way for some time, in the  *)
(* buffer, or downstream.                                                  *)
UnderWay(M, life, n, age) ==
    \E m \in M : m.life = life /\ ~m.resent /\ m.num = n /\ m.age >= age

(* It has gone downstream.                                                 *)
WentOut(o, life, n) == \E i \in DOMAIN o : o[i].life = life /\ o[i].num = n

(* The receiver has or had it.                                             *)
Has(r, o, n) == (\E e \in DOMAIN r.buffer : r.buffer[e].num = n) \/ WentOut(o, r.media, n)

(* Under way or received.                                                  *)
Accounted(M, r, o, life, n, age) == UnderWay(M, life, n, age) \/ (life = r.media /\ Has(r, o, n))

(* Nothing is missing: downstream up to the next number to release; of     *)
(* those in front of a packet in the buffer what has not come has been     *)
(* under way as long as that one was held; and of the streams in T,        *)
(* those the receiver may still turn to, all that has been sent.           *)
Gapless(M, s, r, o, T) ==
    /\ r.media # None /\ r.released =>
          /\ Len(o) > 0 /\ o[Len(o)].life = r.media
          /\ Origin(r, o) + o[Len(o)].num + 1 = r.next
          /\ \A n \in Numbers : Origin(r, o) + n < r.next => WentOut(o, r.media, n)
    /\ \A e \in DOMAIN r.buffer, n \in Numbers :
          n < r.buffer[e].num => Accounted(M, r, o, r.media, n, r.buffer[e].age)
    /\ \A m \in M, n \in Numbers :
          m.life \in T /\ n < m.num => Accounted(M, r, o, m.life, n, 0)
    /\ s.life \in T => \A n \in 1 .. s.sent : Accounted(M, r, o, s.life, n, 0)

(* What goes out follows what went before: a packet that is due has been   *)
(* held longer than any other can be under way, so those in front of it    *)
(* are there.                                                              *)
LEMMA PopGapless ==
  ASSUME MaxDelay < Hold, NEW M \in SUBSET MediaMsg, NEW z, NEW T,
         NEW r, Shape(r), NEW o \in Seq(Packets), NEW off, InStep(r, o, off), Ordered(o),
         ~Pop(r).forced, Contiguous(o), Gapless(M, z, r, o, T)
  PROVE  LET after == o \o Popped(r)
         IN  Contiguous(after) /\ Gapless(M, z, Pop(r), after, T)
<1> DEFINE p == Pop(r)
           due == Due(r)
           n == Cardinality(due)
           a == Ascending(due)
           s == Popped(r)
           after == o \o s
           K == Origin(r, o)
<1>1. /\ Same(p, r, {"next", "released", "buffer", "forced"})
      /\ DOMAIN p.buffer = DOMAIN r.buffer \ due
      /\ \A e \in DOMAIN p.buffer : p.buffer[e] = r.buffer[e]
      /\ p.next = (IF due = {} THEN r.next ELSE Max(due) + 1)
      /\ p.released = (r.released \/ due # {})
      /\ p.forced = (r.forced \/ \E e \in due : r.buffer[e].age < Hold)
  BY PopFields
<1>2. p.media = r.media
  <2> HIDE DEF p
  <2> QED BY <1>1 DEF Same, RcvFields
<1>3. /\ due \in SUBSET (DOMAIN r.buffer) /\ due \in SUBSET Nat /\ IsFiniteSet(due)
      /\ \A e \in due, d \in DOMAIN r.buffer : d <= e => d \in due
      /\ due # {} => Max(due) \in due /\ \A e \in due : Max(due) >= e
  BY DueFacts
<1>4. /\ s \in Seq(Packets) /\ Len(s) = n /\ n \in Nat
      /\ a \in [1 .. n -> due]
      /\ \A i, j \in 1 .. n : i < j => a[i] < a[j]
      /\ \A e \in due : \E i \in 1 .. n : a[i] = e
      /\ \A i \in 1 .. n : s[i].life = r.media /\ s[i].num = r.buffer[a[i]].num
  BY PoppedFacts
<1>5. n = 0 <=> due = {}
  BY <1>3, FS_EmptySet
<1>6. r.media # None => Origin(p, after) = K
  BY PopInStep
<1>7. \A e \in due : ~(r.buffer[e].age < Hold)
  BY <1>1
<1> HIDE DEF p, due, n, a, s
<1>8. /\ after \in Seq(Packets) /\ Len(o) \in Nat /\ Len(after) = Len(o) + n
      /\ DOMAIN o = 1 .. Len(o) /\ DOMAIN after = 1 .. Len(o) + n
      /\ \A i \in 1 .. Len(o) : after[i] = o[i]
      /\ \A i \in 1 .. n : after[Len(o) + i] = s[i]
  <2>1. s \in Seq(Packets) /\ Len(s) = n /\ n \in Nat /\ Len(o) \in Nat
    BY <1>4
  <2>2. after \in Seq(Packets) /\ Len(after) = Len(o) + Len(s)
    BY <2>1
  <2>3. \A i \in 1 .. Len(o) : after[i] = o[i]
    BY <2>1
  <2>4. \A i \in 1 .. Len(s) : after[Len(o) + i] = s[i]
    BY <2>1
  <2> HIDE DEF after
  <2> QED BY <2>1, <2>2, <2>3, <2>4
<1> HIDE DEF after, K
<1>9. ASSUME NEW life, NEW k, WentOut(o, life, k) PROVE WentOut(after, life, k)
  <2>1. PICK i \in DOMAIN o : o[i].life = life /\ o[i].num = k
    BY <1>9 DEF WentOut
  <2>2. i \in DOMAIN after /\ after[i] = o[i]
    BY <1>4, <1>8
  <2> QED BY <2>1, <2>2 DEF WentOut
<1>10. ASSUME NEW e \in due PROVE WentOut(after, r.media, r.buffer[e].num)
  <2>1. PICK i \in 1 .. n : a[i] = e
    BY <1>4
  <2>2. Len(o) + i \in DOMAIN after /\ after[Len(o) + i] = s[i]
    BY <1>4, <1>8
  <2> QED BY <1>4, <2>1, <2>2 DEF WentOut
<1>11. ASSUME NEW k, Has(r, o, k) PROVE Has(p, after, k)
  <2>1. CASE WentOut(o, r.media, k)
    BY <1>2, <1>9, <2>1 DEF Has
  <2>2. ASSUME NEW e \in DOMAIN r.buffer, r.buffer[e].num = k PROVE Has(p, after, k)
    <3>1. CASE e \in due
      BY <1>2, <1>10, <2>2, <3>1 DEF Has
    <3>2. CASE e \notin due
      BY <1>1, <2>2, <3>2 DEF Has
    <3> QED BY <3>1, <3>2
  <2> QED BY <1>11, <2>1, <2>2 DEF Has
<1>12. ASSUME NEW life, NEW k, NEW age, Accounted(M, r, o, life, k, age)
       PROVE  Accounted(M, p, after, life, k, age)
  BY <1>2, <1>11, <1>12 DEF Accounted
<1>13. /\ \A e \in DOMAIN p.buffer, k \in Numbers :
             k < p.buffer[e].num => Accounted(M, p, after, p.media, k, p.buffer[e].age)
       /\ \A m \in M, k \in Numbers :
             m.life \in T /\ k < m.num => Accounted(M, p, after, m.life, k, 0)
       /\ z.life \in T => \A k \in 1 .. z.sent : Accounted(M, p, after, z.life, k, 0)
  <2>1. ASSUME NEW e \in DOMAIN p.buffer, NEW k \in Numbers, k < p.buffer[e].num
        PROVE  Accounted(M, p, after, p.media, k, p.buffer[e].age)
    <3>1. e \in DOMAIN r.buffer /\ p.buffer[e] = r.buffer[e]
      BY <1>1
    <3>2. Accounted(M, r, o, r.media, k, r.buffer[e].age)
      BY <2>1, <3>1 DEF Gapless
    <3> QED BY <1>2, <1>12, <3>1, <3>2
  <2>2. ASSUME NEW m \in M, NEW k \in Numbers, m.life \in T, k < m.num
        PROVE  Accounted(M, p, after, m.life, k, 0)
    BY <1>12, <2>2 DEF Gapless
  <2>3. ASSUME z.life \in T, NEW k \in 1 .. z.sent PROVE Accounted(M, p, after, z.life, k, 0)
    BY <1>12, <2>3 DEF Gapless
  <2> QED BY <2>1, <2>2, <2>3
<1>14. CASE due = {}
  <2>1. p.next = r.next
    BY <1>1, <1>14
  <2>2. p.released => r.released
    BY <1>1, <1>14
  <2>3. after = o
    <3>1. n = 0
      BY <1>5, <1>14
    <3> QED BY <1>4, <3>1 DEF after
  <2> QED BY <1>2, <1>6, <1>13, <2>1, <2>2, <2>3 DEF Gapless, p, after, s, K
<1>15. CASE due # {}
  <2>1. r.media # None /\ Running(r) /\ DOMAIN r.buffer # {} /\ r.media \in Lives
    <3>1. DOMAIN r.buffer # {}
      BY <1>3, <1>15
    <3>2. r.media # None
      BY <3>1 DEF Shape, Fresh
    <3> QED BY <3>1, <3>2 DEF Shape, RcvTyped
  <2>2. /\ \A e \in DOMAIN r.buffer : e = K + r.buffer[e].num
        /\ \A i \in DOMAIN o :
              o[i].life = r.media => r.released /\ K + o[i].num < r.next
    BY <2>1 DEF InStep, K
  <2>3. K \in Int /\ r.next \in Nat
    BY <2>1, NewestTyped DEF Shape, RcvTyped, K
  <2>4. \A e \in DOMAIN r.buffer : /\ e \in Nat /\ r.next <= e
                                   /\ r.buffer[e].num \in Numbers
    BY <2>1 DEF Shape, RcvTyped, Running
  <2>5. \A e \in DOMAIN r.buffer : r.buffer[e].age \in Nat
    <3>1. \A e \in DOMAIN r.buffer : r.buffer[e].age \in 0 .. Hold
      BY DEF Shape, RcvTyped
    <3> QED BY <3>1
  <2>6. ASSUME NEW e \in due, NEW k \in Numbers, k < r.buffer[e].num PROVE Has(r, o, k)
    <3>1. e \in DOMAIN r.buffer /\ r.buffer[e].age \in Nat /\ r.buffer[e].age >= Hold
      BY <1>3, <1>7, <2>5, Constants
    <3>2. Accounted(M, r, o, r.media, k, r.buffer[e].age)
      BY <2>6, <3>1 DEF Gapless
    <3>3. \A m \in M : m.age \in 0 .. MaxDelay
      BY DEF MediaMsg
    <3>4. ~UnderWay(M, r.media, k, r.buffer[e].age)
      BY <3>1, <3>3, Constants DEF UnderWay
    <3> QED BY <3>2, <3>4 DEF Accounted
  <2>7. ASSUME r.released
        PROVE  /\ Len(o) > 0 /\ o[Len(o)].life = r.media
               /\ K + o[Len(o)].num + 1 = r.next
               /\ \A k \in Numbers : K + k < r.next => WentOut(o, r.media, k)
    BY <2>1, <2>7 DEF Gapless, K
  <2>8. \A i \in DOMAIN o : o[i].num \in Numbers
    <3>1. \A i \in DOMAIN o : o[i] \in Packets
      OBVIOUS
    <3> QED BY <3>1 DEF Packets
  <2>9. r.next >= K + 1
    <3>1. CASE r.released
      <4>1. Len(o) \in DOMAIN o
        BY <1>8, <2>7, <3>1
      <4>2. o[Len(o)].num \in Nat
        BY <2>8, <4>1, LivesAndNumbers
      <4> QED BY <2>3, <2>7, <3>1, <4>2
    <3>2. CASE ~r.released
      <4>1. r.next \in DOMAIN r.buffer
        BY <2>1, <3>2 DEF Running
      <4>2. r.buffer[r.next].num \in Nat /\ r.buffer[r.next].num >= 1
        BY <2>4, <4>1, LivesAndNumbers
      <4>3. r.next = K + r.buffer[r.next].num
        BY <2>2, <4>1
      <4> QED BY <2>3, <4>2, <4>3
    <3> QED BY <3>1, <3>2
  <2>10. Max(due) \in due /\ Max(due) \in Nat /\ Max(due) \in DOMAIN r.buffer
         /\ (\A e \in due : e \in Nat /\ Max(due) >= e) /\ n >= 1
    BY <1>3, <1>4, <1>5, <1>15
  <2> DEFINE top == Max(due)
  <2>11. ASSUME NEW x \in Nat, r.next <= x, x <= top PROVE x \in due
    <3>1. CASE x = top
      BY <2>10, <3>1
    <3>2. CASE x < top
      <4> DEFINE k == x - K
      <4>0. /\ top \in Nat /\ r.buffer[top].num \in Nat /\ r.buffer[top].num <= MaxSent
            /\ top = K + r.buffer[top].num
        <5>1. r.buffer[top].num \in Numbers /\ top = K + r.buffer[top].num /\ top \in Nat
          BY <2>2, <2>4, <2>10
        <5> QED BY <5>1 DEF Numbers
      <4>1. k \in Numbers /\ k < r.buffer[top].num /\ K + k = x
        <5> HIDE DEF top
        <5>1. k \in Int /\ k >= 1 /\ K + k = x
          BY <2>3, <2>9, <2>11
        <5>2. k < r.buffer[top].num
          BY <2>3, <3>2, <4>0
        <5>3. k <= MaxSent
          BY <4>0, <5>1, <5>2, Constants
        <5> QED BY <5>1, <5>2, <5>3 DEF Numbers
      <4> HIDE DEF k
      <4>2. Has(r, o, k)
        BY <2>6, <2>10, <4>1
      <4>3. CASE WentOut(o, r.media, k)
        <5>1. PICK i \in DOMAIN o : o[i].life = r.media /\ o[i].num = k
          BY <4>3 DEF WentOut
        <5>2. K + k < r.next
          BY <2>2, <5>1
        <5> QED BY <2>3, <2>11, <4>1, <5>2
      <4>4. ASSUME NEW e \in DOMAIN r.buffer, r.buffer[e].num = k PROVE x \in due
        <5>1. e = x
          BY <2>2, <4>1, <4>4
        <5> QED BY <1>3, <2>10, <2>11, <4>4, <5>1
      <4> QED BY <4>2, <4>3, <4>4 DEF Has
    <3> QED BY <2>10, <2>11, <3>1, <3>2
  <2>12. r.next \in due /\ r.next <= top
    BY <2>3, <2>4, <2>10, <2>11
  <2> HIDE DEF top
  <2>13. ASSUME NEW i \in 1 .. n
         PROVE  /\ a[i] \in due /\ a[i] \in Nat /\ r.next <= a[i] /\ a[i] <= top
                /\ s[i].num \in Nat /\ K + s[i].num = a[i]
    <3>1. a[i] \in due /\ a[i] \in DOMAIN r.buffer
      BY <1>3, <1>4
    <3>2. s[i].num = r.buffer[a[i]].num
      BY <1>4
    <3>3. a[i] \in Nat /\ r.next <= a[i] /\ r.buffer[a[i]].num \in Numbers
      BY <2>4, <3>1
    <3>4. a[i] = K + r.buffer[a[i]].num
      BY <2>2, <3>1
    <3> QED BY <2>10, <3>1, <3>2, <3>3, <3>4, LivesAndNumbers DEF top
  <2>14. a[1] = r.next
    <3>1. PICK j \in 1 .. n : a[j] = r.next
      BY <1>4, <2>12
    <3>2. 1 \in 1 .. n /\ r.next <= a[1] /\ a[1] \in Nat
      BY <1>4, <2>10, <2>13
    <3>3. CASE j = 1
      BY <3>1, <3>3
    <3>4. CASE j # 1
      <4>1. 1 < j
        BY <1>4, <3>4
      <4>2. a[1] < a[j]
        BY <1>4, <3>2, <4>1
      <4> QED BY <2>3, <3>1, <3>2, <4>2
    <3> QED BY <3>3, <3>4
  <2>15. ASSUME NEW i \in 1 .. n, i + 1 \in 1 .. n PROVE a[i + 1] = a[i] + 1
    <3>1. i \in Nat /\ i < i + 1
      BY <1>4
    <3>2. a[i] < a[i + 1]
      BY <1>4, <2>15, <3>1
    <3>3. a[i] \in Nat /\ a[i + 1] \in Nat /\ r.next <= a[i] /\ a[i + 1] <= top /\ top \in Nat
      BY <2>10, <2>13, <2>15 DEF top
    <3>4. a[i] + 1 \in due
      BY <2>3, <2>11, <3>2, <3>3 DEF top
    <3>5. PICK j \in 1 .. n : a[j] = a[i] + 1
      BY <1>4, <3>4
    <3>6. CASE j = i + 1
      BY <3>5, <3>6
    <3>7. CASE j < i + 1
      <4>1. j < i \/ j = i
        BY <1>4, <3>1, <3>7
      <4>2. j < i => a[j] < a[i]
        BY <1>4
      <4> QED BY <3>3, <3>5, <4>1, <4>2
    <3>8. CASE j > i + 1
      <4>1. a[i + 1] < a[j]
        BY <1>4, <2>15, <3>8
      <4> QED BY <3>2, <3>3, <3>5, <4>1
    <3> QED BY <1>4, <3>1, <3>6, <3>7, <3>8
  <2>16. a[n] = top /\ n \in 1 .. n
    <3>1. n \in 1 .. n
      BY <1>4, <2>10
    <3>2. PICK j \in 1 .. n : a[j] = top
      BY <1>4, <2>10 DEF top
    <3>3. j < n => a[j] < a[n]
      BY <1>4, <3>1
    <3>4. a[n] \in Nat /\ a[n] <= top /\ top \in Nat
      BY <2>10, <2>13, <3>1 DEF top
    <3> QED BY <1>4, <3>1, <3>2, <3>3, <3>4
  <2>17. Contiguous(after)
    <3> SUFFICES ASSUME NEW i \in 1 .. Len(after) - 1, after[i].life = after[i + 1].life
                 PROVE  after[i].num + 1 = after[i + 1].num
      BY DEF Contiguous
    <3>0. i \in Nat /\ i >= 1 /\ Len(o) \in Nat /\ n \in Nat /\ i + 1 <= Len(o) + n
      BY <1>4, <1>8
    <3>1. CASE i < Len(o)
      <4>1. i \in 1 .. Len(o) - 1 /\ i \in 1 .. Len(o) /\ i + 1 \in 1 .. Len(o)
        BY <3>0, <3>1
      <4>2. after[i] = o[i] /\ after[i + 1] = o[i + 1]
        BY <1>8, <4>1
      <4> QED BY <4>1, <4>2 DEF Contiguous
    <3>2. CASE i = Len(o)
      <4>1. i \in DOMAIN o /\ after[i] = o[i] /\ 1 \in 1 .. n /\ after[i + 1] = s[1]
        BY <1>8, <2>10, <3>0, <3>2
      <4>2. o[i].life = r.media
        BY <1>4, <4>1
      <4>3. r.released
        BY <2>2, <4>1, <4>2
      <4>4. K + o[i].num + 1 = r.next
        BY <2>7, <3>2, <4>3
      <4>5. K + s[1].num = r.next /\ s[1].num \in Nat
        BY <2>13, <2>14, <4>1
      <4>6. o[i].num \in Nat
        BY <2>8, <4>1, LivesAndNumbers
      <4>7. o[i].num + 1 = s[1].num
        <5> DEFINE x == o[i].num
                   y == s[1].num
        <5>1. x \in Nat /\ y \in Nat /\ K + x + 1 = r.next /\ K + y = r.next
          BY <4>4, <4>5, <4>6
        <5> HIDE DEF x, y
        <5>2. x + 1 = y
          BY <2>3, <5>1
        <5> QED BY <5>2 DEF x, y
      <4> QED BY <4>1, <4>7
    <3>3. CASE i > Len(o)
      <4> DEFINE k == i - Len(o)
      <4>1. k \in 1 .. n /\ k + 1 \in 1 .. n /\ i = Len(o) + k /\ i + 1 = Len(o) + (k + 1)
        BY <3>0, <3>3
      <4> HIDE DEF k
      <4>2. after[i] = s[k] /\ after[i + 1] = s[k + 1]
        BY <1>8, <4>1
      <4>3. a[k + 1] = a[k] + 1
        BY <2>15, <4>1
      <4>4. K + s[k].num = a[k] /\ s[k].num \in Nat
        BY <2>13, <4>1
      <4>5. K + s[k + 1].num = a[k + 1] /\ s[k + 1].num \in Nat
        BY <2>13, <4>1
      <4>6. s[k].num + 1 = s[k + 1].num
        <5> DEFINE x == s[k].num
                   y == s[k + 1].num
        <5>1. x \in Nat /\ y \in Nat /\ K + x + 1 = a[k + 1] /\ K + y = a[k + 1]
          BY <4>3, <4>4, <4>5
        <5> HIDE DEF x, y
        <5>2. x + 1 = y
          BY <2>3, <5>1
        <5> QED BY <5>2 DEF x, y
      <4> QED BY <4>2, <4>6
    <3> QED BY <3>0, <3>1, <3>2, <3>3
  <2>18. p.next = top + 1
    BY <1>1, <1>15 DEF top
  <2>19. Len(after) > 0 /\ after[Len(after)].life = r.media
         /\ K + after[Len(after)].num + 1 = p.next
    <3>1. Len(after) = Len(o) + n /\ after[Len(o) + n] = s[n]
      BY <1>8, <2>16
    <3>2. s[n].life = r.media /\ K + s[n].num = top /\ s[n].num \in Nat
      BY <1>4, <2>13, <2>16
    <3>3. Len(after) > 0
      BY <1>4, <1>8, <2>10, <3>1
    <3> QED BY <2>3, <2>18, <3>1, <3>2, <3>3
  <2>20. ASSUME NEW k \in Numbers, K + k < p.next PROVE WentOut(after, r.media, k)
    <3>0. k \in Nat /\ K + k \in Int /\ top \in Nat
      BY <2>3, <2>10, LivesAndNumbers DEF top
    <3>1. CASE K + k >= r.next
      <4>1. K + k \in Nat /\ K + k <= top
        BY <2>3, <2>18, <2>20, <3>0, <3>1
      <4>2. K + k \in due
        BY <2>11, <3>1, <4>1 DEF top
      <4>3. K + k = K + r.buffer[K + k].num /\ r.buffer[K + k].num \in Nat
        BY <1>3, <2>2, <2>4, <4>2, LivesAndNumbers
      <4>4. r.buffer[K + k].num = k
        BY <2>3, <3>0, <4>3
      <4> QED BY <1>10, <4>2, <4>4
    <3>2. CASE K + k < r.next
      <4>1. CASE r.released
        BY <1>9, <2>7, <3>2, <4>1
      <4>2. CASE ~r.released
        <5>1. r.next \in DOMAIN r.buffer /\ r.next \in due
          BY <1>3, <2>12
        <5>2. r.next = K + r.buffer[r.next].num /\ r.buffer[r.next].num \in Nat
          BY <2>2, <2>4, <5>1, LivesAndNumbers
        <5>3. k < r.buffer[r.next].num
          BY <2>3, <3>0, <3>2, <5>2
        <5>4. Has(r, o, k)
          BY <2>6, <5>1, <5>3
        <5>5. ASSUME NEW e \in DOMAIN r.buffer, r.buffer[e].num = k PROVE FALSE
          <6>1. e = K + k /\ r.next <= e
            BY <2>2, <2>4, <5>5
          <6> QED BY <2>3, <3>0, <3>2, <6>1
        <5>6. WentOut(o, r.media, k)
          BY <5>4, <5>5 DEF Has
        <5> QED BY <1>9, <5>6
      <4> QED BY <4>1, <4>2
    <3> QED BY <2>3, <3>0, <3>1, <3>2
  <2>21. Origin(p, after) = K
    BY <1>6, <2>1
  <2>22. Gapless(M, z, p, after, T)
    BY <1>2, <1>13, <2>19, <2>20, <2>21 DEF Gapless
  <2> QED BY <2>17, <2>22 DEF p, after, s
<1> QED BY <1>14, <1>15

(* The streams in T are lives: the one the receiver follows, and those it  *)
(* may turn to.                                                            *)
Heeds(r, T) ==
    /\ T \in SUBSET Lives
    /\ r.media # None => r.media \in T
    /\ \A l \in T : l = r.media \/ r.media = None \/ l # r.previous

(* A packet that is taken in, or left out because it has been taken in     *)
(* before, leaves no gap.                                                  *)
LEMMA TookGapless ==
  ASSUME Shape(rcv), out \in Seq(Packets), NEW off \in [Lives -> Int], InStep(rcv, out, off),
         NEW M \in SUBSET MediaMsg, NEW m \in M, NearBy(m),
         Congruent(m.seq, off[m.life] + m.num),
         NEW r, Shape(r), Took(r, m), InStep(r, out, off),
         NEW s, NEW T, NEW U \in SUBSET T, Heeds(r, U), Gapless(M, s, rcv, out, T)
  PROVE  Gapless(M \ {m}, s, r, out, U)
<1> DEFINE ext == Extend(rcv.highest, m.seq)
           K == Origin(rcv, out)
           N == M \ {m}
<1>0. m \in MediaMsg /\ m.life \in Lives /\ m.life # None /\ m.num \in Nat
      /\ m.num \in Numbers /\ m.resent \in BOOLEAN /\ m.seq \in 0 .. Period - 1
  <2>1. m \in MediaMsg
    OBVIOUS
  <2>2. m.life \in Lives /\ m.num \in Numbers /\ m.resent \in BOOLEAN
        /\ m.seq \in 0 .. Period - 1
    BY <2>1 DEF MediaMsg
  <2> QED BY <2>1, <2>2, LivesAndNumbers
<1>1. CASE /\ Same(r, rcv, {"dest", "goodbye"})
           /\ rcv.media # m.life
           /\ m.resent \/ (rcv.media # None /\ rcv.previous = m.life)
  <2>1. r.media = rcv.media /\ r.previous = rcv.previous /\ r.released = rcv.released
        /\ r.next = rcv.next /\ r.highest = rcv.highest /\ r.buffer = rcv.buffer
    BY <1>1 DEF Same, RcvFields
  <2>2. Origin(r, out) = K
    BY <2>1 DEF Origin, Newest
  <2>3. ASSUME NEW life \in U, NEW n, NEW age, Accounted(M, rcv, out, life, n, age)
        PROVE  Accounted(N, r, out, life, n, age)
    <3>1. CASE life = rcv.media /\ Has(rcv, out, n)
      BY <2>1, <3>1 DEF Accounted, Has
    <3>2. CASE UnderWay(M, life, n, age)
      <4>1. PICK w \in M : w.life = life /\ ~w.resent /\ w.num = n /\ w.age >= age
        BY <3>2 DEF UnderWay
      <4>2. w # m
        BY <1>1, <2>1, <4>1 DEF Heeds
      <4> QED BY <4>1, <4>2 DEF Accounted, UnderWay
    <3> QED BY <2>3, <3>1, <3>2 DEF Accounted
  <2>4. ASSUME NEW e \in DOMAIN r.buffer, NEW n \in Numbers, n < r.buffer[e].num
        PROVE  Accounted(N, r, out, r.media, n, r.buffer[e].age)
    <3>1. r.media \in U
      BY <2>4 DEF Heeds, Shape, Fresh
    <3>2. Accounted(M, rcv, out, rcv.media, n, rcv.buffer[e].age)
      BY <2>1, <2>4 DEF Gapless
    <3> QED BY <2>1, <2>3, <3>1, <3>2
  <2>5. ASSUME NEW d \in N, NEW n \in Numbers, d.life \in U, n < d.num
        PROVE  Accounted(N, r, out, d.life, n, 0)
    BY <2>3, <2>5 DEF Gapless
  <2>6. ASSUME s.life \in U, NEW n \in 1 .. s.sent PROVE Accounted(N, r, out, s.life, n, 0)
    BY <2>3, <2>6 DEF Gapless
  <2> QED BY <2>1, <2>2, <2>4, <2>5, <2>6 DEF Gapless
<1>2. CASE /\ Same(r, rcv, {"highest", "next", "buffer", "dest", "goodbye"})
           /\ rcv.media = m.life
           /\ \/ PutIn(r, rcv, m, ext)
              \/ LeftOut(r, rcv, ext)
  <2>1. r.media = rcv.media /\ r.released = rcv.released /\ r.media = m.life
        /\ r.media # None /\ r.media \in U
    <3>1. r.media = rcv.media /\ r.released = rcv.released
      BY <1>2 DEF Same, RcvFields
    <3> QED BY <1>0, <1>2, <3>1 DEF Heeds
  <2>2. ext = K + m.num
    BY <1>0, <1>2, Placed
  <2>3. /\ DOMAIN rcv.buffer = {} => Len(out) > 0
        /\ \A e \in DOMAIN rcv.buffer : e = K + rcv.buffer[e].num
    BY <2>1 DEF InStep
  <2>4. K \in Int /\ ext \in Int /\ ext \in Nat
    <3>1. K \in Int
      BY <2>1, <2>3, NewestTyped
    <3>2. rcv.highest \in Nat /\ rcv.highest >= Period
      BY <2>1 DEF Shape, RcvTyped, Running
    <3>3. ext \in Nat
      BY <1>0, <3>2, ExtendFacts
    <3> QED BY <3>1, <3>3
  <2> HIDE DEF ext, K
  <2>5. Has(r, out, m.num) /\ (\A n : Has(rcv, out, n) => Has(r, out, n))
    <3>1. CASE PutIn(r, rcv, m, ext)
      <4>1. DOMAIN r.buffer = DOMAIN rcv.buffer \cup {ext} /\ r.buffer[ext].num = m.num
            /\ \A e \in DOMAIN rcv.buffer : r.buffer[e] = rcv.buffer[e]
        BY <3>1 DEF PutIn
      <4> QED BY <2>1, <4>1 DEF Has
    <3>2. CASE LeftOut(r, rcv, ext)
      <4>1. r.buffer = rcv.buffer
        BY <3>2 DEF LeftOut
      <4>2. CASE ext \in DOMAIN rcv.buffer
        <5>1. rcv.buffer[ext].num \in Nat
          BY <4>2, LivesAndNumbers DEF Shape, RcvTyped
        <5>2. ext = K + rcv.buffer[ext].num
          BY <2>3, <4>2
        <5>3. rcv.buffer[ext].num = m.num
          BY <1>0, <2>2, <2>4, <5>1, <5>2
        <5> QED BY <2>1, <4>1, <4>2, <5>3 DEF Has
      <4>3. CASE rcv.released /\ ext < rcv.next
        <5>1. WentOut(out, rcv.media, m.num)
          BY <1>0, <2>1, <2>2, <4>3 DEF Gapless, K
        <5> QED BY <2>1, <4>1, <5>1 DEF Has
      <4> QED BY <3>2, <4>2, <4>3 DEF LeftOut
    <3> QED BY <1>2, <3>1, <3>2
  <2>6. ASSUME NEW life \in U, NEW n, NEW age, Accounted(M, rcv, out, life, n, age)
        PROVE  Accounted(N, r, out, life, n, age)
    <3>1. CASE life = rcv.media /\ Has(rcv, out, n)
      BY <2>1, <2>5, <3>1 DEF Accounted
    <3>2. CASE UnderWay(M, life, n, age)
      <4>1. PICK w \in M : w.life = life /\ ~w.resent /\ w.num = n /\ w.age >= age
        BY <3>2 DEF UnderWay
      <4>2. CASE w = m
        BY <2>1, <2>5, <4>1, <4>2 DEF Accounted
      <4>3. CASE w # m
        BY <4>1, <4>3 DEF Accounted, UnderWay
      <4> QED BY <4>2, <4>3
    <3> QED BY <2>6, <3>1, <3>2 DEF Accounted
  <2>7. ASSUME NEW e \in DOMAIN rcv.buffer, NEW n \in Numbers, n < rcv.buffer[e].num
        PROVE  Accounted(N, r, out, r.media, n, rcv.buffer[e].age)
    <3>1. Accounted(M, rcv, out, rcv.media, n, rcv.buffer[e].age)
      BY <2>7 DEF Gapless
    <3> QED BY <2>1, <2>6, <3>1
  <2>8. ASSUME NEW n \in Numbers, n < m.num PROVE Accounted(N, r, out, r.media, n, 0)
    <3>1. m.life \in T
      BY <2>1
    <3>2. Accounted(M, rcv, out, m.life, n, 0)
      BY <2>8, <3>1 DEF Gapless
    <3> QED BY <2>1, <2>6, <3>2
  <2>9. ASSUME NEW e \in DOMAIN r.buffer, NEW n \in Numbers, n < r.buffer[e].num
        PROVE  Accounted(N, r, out, r.media, n, r.buffer[e].age)
    <3>1. CASE LeftOut(r, rcv, ext)
      BY <2>7, <2>9, <3>1 DEF LeftOut
    <3>2. CASE PutIn(r, rcv, m, ext)
      <4>1. /\ DOMAIN r.buffer = DOMAIN rcv.buffer \cup {ext}
            /\ \A d \in DOMAIN rcv.buffer : r.buffer[d] = rcv.buffer[d]
            /\ r.buffer[ext].num = m.num /\ r.buffer[ext].age = ArrivalAge(rcv, ext)
        BY <3>2 DEF PutIn
      <4>2. CASE e \in DOMAIN rcv.buffer
        BY <2>7, <2>9, <4>1, <4>2
      <4>3. CASE e = ext
        <5>0. RcvTyped(rcv)
          BY DEF Shape
        <5>1. CASE \E f \in DOMAIN rcv.buffer : f > ext
          <6>1. PICK f \in DOMAIN rcv.buffer :
                   f > ext /\ ArrivalAge(rcv, ext) = rcv.buffer[f].age
            BY <2>4, <5>0, <5>1, ArrivalAgeFacts
          <6>2. rcv.buffer[f].num \in Nat /\ f \in Nat
            BY LivesAndNumbers DEF Shape, RcvTyped
          <6>3. f = K + rcv.buffer[f].num
            BY <2>3
          <6>4. m.num < rcv.buffer[f].num
            BY <1>0, <2>2, <2>4, <6>1, <6>2, <6>3
          <6>5. n \in Nat /\ n < m.num
            BY <2>9, <4>1, <4>3, LivesAndNumbers
          <6>6. n < rcv.buffer[f].num
            BY <1>0, <6>2, <6>4, <6>5
          <6> QED BY <2>7, <4>1, <4>3, <6>1, <6>6
        <5>2. CASE ~\E f \in DOMAIN rcv.buffer : f > ext
          <6>1. \A f \in DOMAIN rcv.buffer : f \in Nat
            BY DEF Shape, RcvTyped
          <6>2. \A f \in DOMAIN rcv.buffer : f <= ext
            BY <2>4, <5>2, <6>1
          <6>3. ArrivalAge(rcv, ext) = 0
            BY <2>4, <5>0, <6>2, ArrivalAgeFacts
          <6> QED BY <2>8, <2>9, <4>1, <4>3, <6>3
        <5> QED BY <5>1, <5>2
      <4> QED BY <4>1, <4>2, <4>3
    <3> QED BY <1>2, <3>1, <3>2
  <2>10. Origin(r, out) = K
    <3>1. CASE LeftOut(r, rcv, ext)
      BY <3>1 DEF LeftOut, Origin, Newest, K
    <3>2. CASE PutIn(r, rcv, m, ext)
      <4>1. ext \in DOMAIN r.buffer /\ r.buffer[ext].num = m.num
        BY <3>2 DEF PutIn
      <4>2. ext = Origin(r, out) + m.num
        BY <2>1, <4>1 DEF InStep
      <4>3. Origin(r, out) \in Int
        BY <2>1, <4>1, NewestTyped
      <4> QED BY <1>0, <2>2, <2>4, <4>2, <4>3
    <3> QED BY <1>2, <3>1, <3>2
  <2>11. r.released => r.next = rcv.next
    <3>1. rcv.next \in Nat /\ rcv.next >= 1
      BY <2>1 DEF Shape, RcvTyped, Running
    <3>2. rcv.next # 0
      BY <3>1
    <3> QED BY <1>2, <2>1, <3>2 DEF PutIn, LeftOut
  <2>12. ASSUME NEW d \in N, NEW n \in Numbers, d.life \in U, n < d.num
         PROVE  Accounted(N, r, out, d.life, n, 0)
    BY <2>6, <2>12 DEF Gapless
  <2>13. ASSUME s.life \in U, NEW n \in 1 .. s.sent PROVE Accounted(N, r, out, s.life, n, 0)
    BY <2>6, <2>13 DEF Gapless
  <2>14. r.released =>
           /\ Len(out) > 0 /\ out[Len(out)].life = r.media
           /\ Origin(r, out) + out[Len(out)].num + 1 = r.next
           /\ \A n \in Numbers : Origin(r, out) + n < r.next => WentOut(out, r.media, n)
    BY <2>1, <2>10, <2>11 DEF Gapless, K
  <2> QED BY <2>9, <2>12, <2>13, <2>14 DEF Gapless
<1>3. CASE Adopted(r, rcv, m)
  <2> DEFINE first == Period + m.seq
  <2>1. /\ r.media = m.life /\ m.life # rcv.media /\ ~r.released /\ ~m.resent
        /\ (rcv.media # None => r.previous = rcv.media)
        /\ DOMAIN r.buffer = {first}
        /\ r.buffer[first].num = m.num /\ r.buffer[first].age = 0
    BY <1>3 DEF Adopted
  <2> HIDE DEF first
  <2>2. ASSUME NEW life \in U, NEW n, NEW age, Accounted(M, rcv, out, life, n, age)
        PROVE  Accounted(N, r, out, life, n, age)
    <3>1. CASE life = rcv.media /\ Has(rcv, out, n)
      <4>1. life # None
        BY LivesAndNumbers DEF Heeds
      <4> QED BY <1>0, <2>1, <3>1, <4>1 DEF Heeds
    <3>2. CASE UnderWay(M, life, n, age)
      <4>1. PICK w \in M : w.life = life /\ ~w.resent /\ w.num = n /\ w.age >= age
        BY <3>2 DEF UnderWay
      <4>2. CASE w = m
        BY <2>1, <4>1, <4>2 DEF Accounted, Has
      <4>3. CASE w # m
        BY <4>1, <4>3 DEF Accounted, UnderWay
      <4> QED BY <4>2, <4>3
    <3> QED BY <2>2, <3>1, <3>2 DEF Accounted
  <2>3. m.life \in U /\ m.life \in T
    BY <1>0, <2>1 DEF Heeds
  <2>4. ASSUME NEW n \in Numbers, n < m.num PROVE Accounted(N, r, out, m.life, n, 0)
    <3>1. Accounted(M, rcv, out, m.life, n, 0)
      BY <2>3, <2>4 DEF Gapless
    <3> QED BY <2>2, <2>3, <3>1
  <2>5. ASSUME NEW d \in N, NEW n \in Numbers, d.life \in U, n < d.num
        PROVE  Accounted(N, r, out, d.life, n, 0)
    BY <2>2, <2>5 DEF Gapless
  <2>6. ASSUME s.life \in U, NEW n \in 1 .. s.sent PROVE Accounted(N, r, out, s.life, n, 0)
    BY <2>2, <2>6 DEF Gapless
  <2>7. ASSUME NEW e \in DOMAIN r.buffer, NEW n \in Numbers, n < r.buffer[e].num
        PROVE  Accounted(N, r, out, r.media, n, r.buffer[e].age)
    BY <2>1, <2>4, <2>7
  <2> QED BY <2>1, <2>5, <2>6, <2>7 DEF Gapless
<1> QED BY <1>1, <1>2, <1>3 DEF Took

(* It is about the packets the receiver has and where they lie, and about  *)
(* fewer streams all the more.                                             *)
LEMMA GaplessSame ==
  ASSUME NEW M, NEW s, NEW o, NEW r, NEW p, NEW T, NEW U \in SUBSET T,
         Gapless(M, s, r, o, T), p.media = r.media, p.highest = r.highest,
         p.next = r.next, p.released = r.released, p.buffer = r.buffer
  PROVE  Gapless(M, s, p, o, U)
<1>1. Origin(p, o) = Origin(r, o)
  BY DEF Origin, Newest
<1>2. \A life, n, age : Accounted(M, r, o, life, n, age) => Accounted(M, p, o, life, n, age)
  BY DEF Accounted, Has
<1>3. p.media # None /\ p.released =>
        /\ Len(o) > 0 /\ o[Len(o)].life = p.media
        /\ Origin(p, o) + o[Len(o)].num + 1 = p.next
        /\ \A n \in Numbers : Origin(p, o) + n < p.next => WentOut(o, p.media, n)
  BY <1>1 DEF Gapless
<1>4. ASSUME NEW e \in DOMAIN p.buffer, NEW n \in Numbers, n < p.buffer[e].num
      PROVE  Accounted(M, p, o, p.media, n, p.buffer[e].age)
  BY <1>2, <1>4 DEF Gapless
<1>5. ASSUME NEW m \in M, NEW n \in Numbers, m.life \in U, n < m.num
      PROVE  Accounted(M, p, o, m.life, n, 0)
  BY <1>2, <1>5 DEF Gapless
<1>6. ASSUME s.life \in U, NEW n \in 1 .. s.sent PROVE Accounted(M, p, o, s.life, n, 0)
  BY <1>2, <1>6 DEF Gapless
<1> QED BY <1>3, <1>4, <1>5, <1>6 DEF Gapless

(* The streams the receiver may follow from here on: of two, all but the   *)
(* one before; of more, if it never turns back, the later ones.            *)
Heeded(r) ==
    {l \in Lives : \/ l = r.media \/ r.media = None
                   \/ IF MaxLives <= 2 THEN l # r.previous ELSE l > r.media}

(* The receiver has never turned back to an older sender.                  *)
Advanced(r) == r.previous <= r.media

(* The streams it may follow grow fewer, if there are two or it does not   *)
(* turn back.                                                              *)
LEMMA HeededShrinks ==
  ASSUME Shape(rcv), NEW m \in MediaMsg, NEW r, Shape(r), Took(r, m),
         MaxLives <= 2 \/ (Advanced(rcv) /\ r.media >= rcv.media)
  PROVE  /\ Heeded(r) \in SUBSET Heeded(rcv) /\ Heeds(r, Heeded(r))
         /\ MaxLives <= 2 \/ Advanced(r)
<1>0. /\ m.life \in Lives /\ rcv.media \in Lives \cup {None} /\ r.media \in Lives \cup {None}
      /\ rcv.previous \in Lives \cup {None} /\ r.previous \in Lives \cup {None}
  BY DEF MediaMsg, Shape, RcvTyped
<1>1. MaxLives <= 2 => \A l \in Lives : l = 1 \/ l = 2
  BY Constants DEF Lives
<1>2. \A l \in Lives \cup {None} : l \in Nat
  BY LivesAndNumbers DEF None
<1>3. Heeded(r) \in SUBSET Heeded(rcv) /\ (MaxLives <= 2 \/ Advanced(r))
  <2>1. CASE r.media = rcv.media /\ r.previous = rcv.previous
    BY <2>1 DEF Heeded, Advanced
  <2>2. CASE Adopted(r, rcv, m)
    <3>1. /\ r.media = m.life /\ m.life # rcv.media
          /\ (rcv.media # None => rcv.previous # m.life /\ r.previous = rcv.media)
          /\ (rcv.media = None => r.previous = rcv.previous)
      BY <2>2 DEF Adopted
    <3>2. CASE rcv.media = None
      <4>1. Heeded(r) \in SUBSET Heeded(rcv)
        BY <3>2 DEF Heeded
      <4>2. Advanced(rcv) => Advanced(r)
        BY <1>0, <1>2, <3>1, <3>2 DEF Advanced, None
      <4> QED BY <4>1, <4>2
    <3>3. CASE rcv.media # None /\ MaxLives <= 2
      <4>1. \A l \in Heeded(r) : l = m.life
        BY <1>0, <1>1, <3>1, <3>3, LivesAndNumbers DEF Heeded
      <4>2. m.life \in Heeded(rcv)
        BY <1>0, <3>1, <3>3 DEF Heeded
      <4> QED BY <3>3, <4>1, <4>2
    <3>4. CASE rcv.media # None /\ ~(MaxLives <= 2)
      <4>1. m.life > rcv.media /\ Advanced(r)
        BY <1>0, <1>2, <3>1, <3>4 DEF Advanced
      <4>2. \A l \in Heeded(r) : l \in Lives /\ (l = m.life \/ l > m.life)
        BY <1>0, <3>1, <3>4, LivesAndNumbers DEF Heeded
      <4>3. \A l \in Heeded(r) : l > rcv.media
        BY <1>0, <1>2, <4>1, <4>2
      <4> QED BY <3>4, <4>1, <4>2, <4>3 DEF Heeded
    <3> QED BY <3>2, <3>3, <3>4
  <2> QED BY <2>1, <2>2 DEF Took, Same, RcvFields
<1>4. Heeds(r, Heeded(r))
  <2>1. CASE MaxLives <= 2
    BY <1>0, <2>1 DEF Heeds, Heeded
  <2>2. CASE ~(MaxLives <= 2)
    <3>1. r.previous <= r.media
      BY <1>3, <2>2 DEF Advanced
    <3>2. ASSUME NEW l \in Heeded(r) PROVE l = r.media \/ r.media = None \/ l # r.previous
      BY <1>0, <1>2, <2>2, <3>1 DEF Heeded
    <3> QED BY <1>0, <3>2 DEF Heeds, Heeded
  <2> QED BY <2>1, <2>2
<1> QED BY <1>3, <1>4

(* What a pass reads, in a network without faults, leaves no gap.          *)
LEMMA ReadGapless ==
  ASSUME Shape(rcv), NetTyped, FaultsTyped, out \in Seq(Packets), Near,
         NEW off \in [Lives -> Int], Numbered(off), InStep(rcv, out, off),
         NEW r, Shape(r), ReadIn(r), InStep(r, out, off), faults'.count = 0,
         MaxLives <= 2 \/ (Advanced(rcv) /\ r.media >= rcv.media),
         Gapless(AtMediaSocket, snd, rcv, out, Heeded(rcv))
  PROVE  Gapless(AtMediaSocket', snd, r, out, Heeded(r))
<1>1. CASE Same(r, rcv, {"dest", "goodbye"}) /\ AtMediaSocket' = AtMediaSocket
  <2>1. r.media = rcv.media /\ r.highest = rcv.highest /\ r.next = rcv.next
        /\ r.released = rcv.released /\ r.buffer = rcv.buffer /\ r.previous = rcv.previous
    BY <1>1 DEF Same, RcvFields
  <2>2. Heeded(r) = Heeded(rcv)
    BY <2>1 DEF Heeded
  <2>3. Gapless(AtMediaSocket, snd, r, out, Heeded(r))
    BY <2>1, <2>2, GaplessSame
  <2> QED BY <1>1, <2>3
<1>2. ASSUME NEW m \in AtMediaSocket, Took(r, m), AtMediaSocket' = AtMediaSocket \ {m}
      PROVE  Gapless(AtMediaSocket', snd, r, out, Heeded(r))
  <2>1. AtMediaSocket \in SUBSET MediaMsg /\ m \in MediaMsg
    BY MediaTyped
  <2>2. NearBy(m) /\ Congruent(m.seq, off[m.life] + m.num)
    BY DEF Near, Numbered
  <2>3. Heeded(r) \in SUBSET Heeded(rcv) /\ Heeds(r, Heeded(r))
    BY <1>2, <2>1, HeededShrinks
  <2>4. Gapless(AtMediaSocket \ {m}, snd, r, out, Heeded(r))
    BY <1>2, <2>1, <2>2, <2>3, TookGapless
  <2> QED BY <1>2, <2>4
<1>3. faults' # [faults EXCEPT !.count = @ + 1]
  <2>1. faults.count \in Nat
    BY Constants DEF FaultsTyped
  <2>2. faults.count + 1 # 0
    BY <2>1
  <2>3. [faults EXCEPT !.count = @ + 1].count = faults.count + 1
    BY DEF FaultsTyped
  <2> QED BY <2>2, <2>3
<1>4. \/ Same(r, rcv, {"dest", "goodbye"}) /\ AtMediaSocket' = AtMediaSocket
      \/ \E m \in AtMediaSocket : Took(r, m) /\ AtMediaSocket' = AtMediaSocket \ {m}
  BY <1>3 DEF ReadIn
<1> QED BY <1>1, <1>2, <1>4

(* No gap downstream, and none to come while the receiver runs.            *)
GapInv ==
    /\ Contiguous(out)
    /\ ~rcv.ended => Gapless(AtMediaSocket, snd, rcv, out, Heeded(rcv))

(* There are two senders, or the receiver does not turn back.              *)
Ahead == MaxLives <= 2 \/ (Advanced(rcv) /\ rcv'.media >= rcv.media)

(* A pass in a network without faults that no full buffer forces.          *)
LEMMA PassGapless ==
  ASSUME Ahead, MaxDelay < Hold, TypeInv, OrderInv, Near, Onward, GapInv, Pass,
         faults'.count = 0, ~rcv'.forced
  PROVE  GapInv'
<1>0. /\ Shape(rcv) /\ NetTyped /\ out \in Seq(Packets) /\ FaultsTyped
  BY DEF TypeInv
<1>1. PICK off \in [Lives -> Int] : Numbered(off) /\ InStep(rcv, out, off)
  BY DEF OrderInv
<1>2. snd' = snd /\ ~rcv.ended /\ net' \in SUBSET Datagrams
  BY <1>0, PassFacts
<1>3. PICK r : Shape(r) /\ ReadIn(r) /\ LeftBy(r)
  BY <1>0, PassFacts
<1>4. Same(rcv', Pop(r), {"check", "holes", "passed", "ended"}) /\ out' = out \o Popped(r)
  BY <1>3 DEF LeftBy
<1>5. Same(Pop(r), r, {"next", "released", "buffer", "forced"})
  BY <1>3, PopFields
<1>6. /\ rcv'.media = Pop(r).media /\ rcv'.highest = Pop(r).highest
      /\ rcv'.next = Pop(r).next /\ rcv'.released = Pop(r).released
      /\ rcv'.buffer = Pop(r).buffer /\ rcv'.forced = Pop(r).forced
      /\ rcv'.media = r.media /\ rcv'.previous = r.previous
  BY <1>4, <1>5 DEF Same, RcvFields
<1>7. InStep(r, out, off)
  BY <1>0, <1>1, <1>3, <1>6, ReadInStep DEF Onward
<1>8. Gapless(AtMediaSocket, snd, rcv, out, Heeded(rcv)) /\ Contiguous(out) /\ Ordered(out)
  BY <1>2 DEF GapInv, OrderInv
<1>9. Gapless(AtMediaSocket', snd, r, out, Heeded(r))
  <2>1. MaxLives <= 2 \/ (Advanced(rcv) /\ r.media >= rcv.media)
    BY <1>6 DEF Ahead
  <2> QED BY <1>0, <1>1, <1>3, <1>7, <1>8, <2>1, ReadGapless
<1>10. PICK M : M = AtMediaSocket'
  OBVIOUS
<1>11. M \in SUBSET MediaMsg
  <2>1. \A m \in M : m \in AtMediaSocket
    BY <1>3, <1>10 DEF ReadIn
  <2> QED BY <1>0, <2>1, MediaTyped
<1>12. Gapless(M, snd, r, out, Heeded(r))
  BY <1>9, <1>10
<1>13. ~Pop(r).forced
  BY <1>6
<1>14. Contiguous(out \o Popped(r))
       /\ Gapless(M, snd, Pop(r), out \o Popped(r), Heeded(r))
  BY <1>0, <1>3, <1>7, <1>8, <1>11, <1>12, <1>13, PopGapless
<1>15. PICK p : p = rcv'
  OBVIOUS
<1>16. Heeded(p) = Heeded(r)
  BY <1>6, <1>15 DEF Heeded
<1>17. Gapless(M, snd, p, out', Heeded(p))
  BY <1>4, <1>6, <1>14, <1>15, <1>16, GaplessSame
<1>18. Gapless(AtMediaSocket, snd, rcv, out, Heeded(rcv))'
  <2>1. Gapless(AtMediaSocket', snd', rcv', out', Heeded(rcv'))
    BY <1>2, <1>10, <1>15, <1>17
  <2> QED BY <2>1
<1>19. Contiguous(out)'
  BY <1>4, <1>14
<1> QED BY <1>18, <1>19 DEF GapInv

(* What the sender puts on the wire is under way.                          *)
LEMMA SentGapless ==
  ASSUME TypeInv, NEW S, Sent(S), snd'.life = snd.life, snd'.sent \in Nat, NEW T,
         Gapless(AtMediaSocket, snd, rcv, out, T)
  PROVE  Gapless(AtMediaSocket', snd', rcv, out, T)
<1> DEFINE M == AtMediaSocket
           N == AtMediaSocket'
<1>1. /\ N = M \cup S
      /\ \A m \in S : Made(m, snd')
      /\ \A n \in Nat : snd.sent < n /\ n <= snd'.sent => \E m \in S : ~m.resent /\ m.num = n
  BY DEF Sent
<1>2. snd.sent \in Nat
  BY DEF TypeInv, SndTyped
<1> HIDE DEF N
<1>3. ASSUME NEW life, NEW n, NEW age, Accounted(M, rcv, out, life, n, age)
      PROVE  Accounted(N, rcv, out, life, n, age)
  BY <1>1, <1>3 DEF Accounted, UnderWay
<1>4. ASSUME snd.life \in T, NEW n \in 1 .. snd'.sent
      PROVE  Accounted(N, rcv, out, snd.life, n, 0)
  <2>1. n \in Nat /\ n >= 1 /\ n <= snd'.sent
    OBVIOUS
  <2>2. CASE n <= snd.sent
    <3>1. n \in 1 .. snd.sent
      BY <1>2, <2>1, <2>2
    <3> QED BY <1>3, <1>4, <3>1 DEF Gapless
  <2>3. CASE snd.sent < n
    <3>1. PICK m \in S : ~m.resent /\ m.num = n
      BY <1>1, <2>1, <2>3
    <3>2. m.life = snd.life /\ m.age = 0
      BY <1>1 DEF Made
    <3> QED BY <1>1, <3>1, <3>2 DEF Accounted, UnderWay
  <2> QED BY <1>2, <2>1, <2>2, <2>3
<1>5. ASSUME NEW m \in N, NEW n \in Numbers, m.life \in T, n < m.num
      PROVE  Accounted(N, rcv, out, m.life, n, 0)
  <2>1. CASE m \in M
    BY <1>3, <1>5, <2>1 DEF Gapless
  <2>2. CASE m \in S
    <3>1. m.life = snd.life /\ m.num \in 1 .. snd'.sent
      BY <1>1, <2>2 DEF Made
    <3>2. n \in Nat /\ n >= 1
      BY LivesAndNumbers
    <3>3. n \in 1 .. snd'.sent
      BY <1>5, <3>1, <3>2
    <3> QED BY <1>4, <1>5, <3>1, <3>3
  <2> QED BY <1>1, <2>1, <2>2
<1>6. ASSUME NEW e \in DOMAIN rcv.buffer, NEW n \in Numbers, n < rcv.buffer[e].num
      PROVE  Accounted(N, rcv, out, rcv.media, n, rcv.buffer[e].age)
  BY <1>3, <1>6 DEF Gapless
<1>7. snd'.life \in T => \A n \in 1 .. snd'.sent : Accounted(N, rcv, out, snd'.life, n, 0)
  BY <1>4
<1>8. rcv.media # None /\ rcv.released =>
        /\ Len(out) > 0 /\ out[Len(out)].life = rcv.media
        /\ Origin(rcv, out) + out[Len(out)].num + 1 = rcv.next
        /\ \A n \in Numbers : Origin(rcv, out) + n < rcv.next => WentOut(out, rcv.media, n)
  BY DEF Gapless
<1>9. Gapless(N, snd', rcv, out, T)
  BY <1>5, <1>6, <1>7, <1>8 DEF Gapless
<1> QED BY <1>9 DEF N

(* Time passes for those under way as for those held.                      *)
LEMMA AgedGapless ==
  ASSUME TypeInv, Aged, ~rcv.ended, NEW T, Gapless(AtMediaSocket, snd, rcv, out, T)
  PROVE  Gapless(AtMediaSocket', snd', rcv', out', T)
<1> DEFINE M == AtMediaSocket
           N == AtMediaSocket'
<1>1. PICK p : p = rcv'
  OBVIOUS
<1>2. PICK s : s = snd'
  OBVIOUS
<1>3. /\ s.life = snd.life /\ s.sent = snd.sent /\ out' = out
      /\ p.media = rcv.media /\ p.highest = rcv.highest /\ p.next = rcv.next
      /\ p.released = rcv.released /\ DOMAIN p.buffer = DOMAIN rcv.buffer
  BY <1>1, <1>2 DEF Aged, Same, RcvFields
<1>4. Shape(rcv) /\ M \in SUBSET MediaMsg
  BY MediaTyped DEF TypeInv
<1>5. ASSUME NEW e \in DOMAIN rcv.buffer
      PROVE  /\ p.buffer[e].num = rcv.buffer[e].num
             /\ p.buffer[e].age = rcv.buffer[e].age + 1 /\ rcv.buffer[e].age \in Nat
  <2>1. rcv.buffer[e] \in [life : {rcv.media}, num : Numbers, age : 0 .. Hold]
    BY <1>4 DEF Shape, RcvTyped
  <2>2. p.buffer[e] = Older(rcv.buffer[e])
    BY <1>1 DEF Aged
  <2> QED BY <2>1, <2>2, Constants DEF Older
<1>6. \A d \in M : Older(d) \in N
  BY DEF Aged
<1>7. \A m \in N : \E d \in M : m = Older(d)
  BY DEF Aged
<1>8. ASSUME NEW d \in M
      PROVE  /\ Older(d).life = d.life /\ Older(d).num = d.num /\ Older(d).resent = d.resent
             /\ Older(d).age = d.age + 1 /\ d.age \in Nat
  <2>1. d \in MediaMsg
    BY <1>4
  <2> QED BY <2>1, Constants DEF MediaMsg, Older
<1> HIDE DEF M, N
<1>9. ASSUME NEW life, NEW n, NEW age \in Nat, Accounted(M, rcv, out, life, n, age)
      PROVE  Accounted(N, p, out, life, n, age + 1)
  <2>1. CASE UnderWay(M, life, n, age)
    <3>1. PICK d \in M : d.life = life /\ ~d.resent /\ d.num = n /\ d.age >= age
      BY <2>1 DEF UnderWay
    <3>2. Older(d) \in N /\ Older(d).life = life /\ ~Older(d).resent /\ Older(d).num = n
      BY <1>6, <1>8, <3>1
    <3>3. Older(d).age >= age + 1
      BY <1>8, <3>1
    <3> QED BY <3>2, <3>3 DEF Accounted, UnderWay
  <2>2. CASE life = rcv.media /\ Has(rcv, out, n)
    BY <1>3, <1>5, <2>2 DEF Accounted, Has
  <2> QED BY <1>9, <2>1, <2>2 DEF Accounted
<1>10. ASSUME NEW life, NEW n, Accounted(M, rcv, out, life, n, 0)
       PROVE  Accounted(N, p, out, life, n, 0)
  <2>1. CASE UnderWay(M, life, n, 0)
    <3>1. PICK d \in M : d.life = life /\ ~d.resent /\ d.num = n
      BY <2>1 DEF UnderWay
    <3>2. Older(d) \in N /\ Older(d).life = life /\ ~Older(d).resent /\ Older(d).num = n
      BY <1>6, <1>8, <3>1
    <3>3. Older(d).age >= 0
      BY <1>8, <3>1
    <3> QED BY <3>2, <3>3 DEF Accounted, UnderWay
  <2>2. CASE life = rcv.media /\ Has(rcv, out, n)
    BY <1>3, <1>5, <2>2 DEF Accounted, Has
  <2> QED BY <1>10, <2>1, <2>2 DEF Accounted
<1>11. rcv.media # None => Origin(p, out) = Origin(rcv, out)
  <2>1. rcv.media # None /\ DOMAIN rcv.buffer # {} => rcv.highest \in DOMAIN rcv.buffer
    BY <1>4 DEF Shape, Running
  <2> QED BY <1>3, <1>5, <2>1 DEF Origin, Newest
<1>12. p.media # None /\ p.released =>
         /\ Len(out) > 0 /\ out[Len(out)].life = p.media
         /\ Origin(p, out) + out[Len(out)].num + 1 = p.next
         /\ \A n \in Numbers : Origin(p, out) + n < p.next => WentOut(out, p.media, n)
  BY <1>3, <1>11 DEF Gapless
<1>13. ASSUME NEW e \in DOMAIN p.buffer, NEW n \in Numbers, n < p.buffer[e].num
       PROVE  Accounted(N, p, out, p.media, n, p.buffer[e].age)
  <2>1. Accounted(M, rcv, out, rcv.media, n, rcv.buffer[e].age)
    BY <1>3, <1>5, <1>13 DEF Gapless, M
  <2> QED BY <1>3, <1>5, <1>9, <2>1
<1>14. ASSUME NEW m \in N, NEW n \in Numbers, m.life \in T, n < m.num
       PROVE  Accounted(N, p, out, m.life, n, 0)
  <2>1. PICK d \in M : m = Older(d)
    BY <1>7
  <2>2. d.life \in T /\ n < d.num /\ m.life = d.life
    BY <1>8, <1>14, <2>1
  <2>3. Accounted(M, rcv, out, d.life, n, 0)
    BY <2>2 DEF Gapless, M
  <2> QED BY <1>10, <2>2, <2>3
<1>15. ASSUME s.life \in T, NEW n \in 1 .. s.sent PROVE Accounted(N, p, out, s.life, n, 0)
  <2>1. Accounted(M, rcv, out, s.life, n, 0)
    BY <1>3, <1>15 DEF Gapless, M
  <2> QED BY <1>10, <2>1
<1>16. Gapless(N, s, p, out, T)
  BY <1>12, <1>13, <1>14, <1>15 DEF Gapless
<1> QED BY <1>1, <1>2, <1>3, <1>16 DEF N

(* Nothing has been sent at the start.                                     *)
LEMMA GapInit ==
  Init => GapInv
<1> SUFFICES ASSUME Init PROVE GapInv
  OBVIOUS
<1>1. AtMediaSocket = {} /\ out = <<>> /\ DOMAIN rcv.buffer = {} /\ rcv.media = None
  BY DEF Init, AtMediaSocket, NoPackets
<1>2. snd.sent = 0
  BY DEF Init, NewSender
<1>3. Contiguous(out)
  BY <1>1 DEF Contiguous
<1>4. 1 .. snd.sent = {}
  BY <1>2
<1>5. Gapless(AtMediaSocket, snd, rcv, out, Heeded(rcv))
  BY <1>1, <1>4 DEF Gapless
<1> QED BY <1>3, <1>5 DEF GapInv

(* Every step keeps it while the network does nothing wrong.               *)
LEMMA GapStep ==
  ASSUME Ahead, MaxDelay < Hold, TypeInv, OrderInv, Near, Onward, GapInv,
         faults'.count = 0, ~rcv'.forced, [Next]_vars
  PROVE  GapInv'
<1>0. /\ SndTyped(snd) /\ Shape(rcv) /\ NetTyped /\ FaultsTyped /\ OutputOnTime
      /\ rcv.ended => DOMAIN rcv.buffer = {}
  BY DEF TypeInv
<1> DEFINE T == Heeded(rcv)
<1>1. ASSUME out' = out, rcv'.ended = rcv.ended,
             ~rcv.ended => Gapless(AtMediaSocket', snd', rcv', out', Heeded(rcv'))
      PROVE  GapInv'
  <2>1. Contiguous(out)'
    BY <1>1 DEF GapInv
  <2>2. ~rcv'.ended => Gapless(AtMediaSocket', snd', rcv', out', Heeded(rcv'))
    BY <1>1
  <2> QED BY <2>1, <2>2 DEF GapInv
<1>2. CASE SenderStep
  <2>1. /\ SndTyped(snd') /\ rcv' = rcv /\ out' = out /\ snd'.life = snd.life
    BY <1>0, <1>2, SenderFacts
  <2>2. PICK S : Sent(S)
    BY <1>0, <1>2, SenderFacts
  <2>3. snd'.sent \in Nat
    BY <2>1 DEF SndTyped
  <2>4. ~rcv.ended => Gapless(AtMediaSocket', snd', rcv, out, T)
    BY <2>1, <2>2, <2>3, SentGapless DEF GapInv
  <2>5. ~rcv.ended => Gapless(AtMediaSocket', snd', rcv', out', Heeded(rcv'))
    BY <2>1, <2>4
  <2> QED BY <1>1, <2>1, <2>5
<1>3. CASE Restart
  <2>1. snd'.sent = 0 /\ rcv' = rcv /\ net' = net /\ out' = out
    BY <1>0, <1>3, RestartFacts
  <2>2. 1 .. snd'.sent = {} /\ AtMediaSocket' = AtMediaSocket
    BY <2>1 DEF AtMediaSocket
  <2>3. ~rcv.ended => Gapless(AtMediaSocket, snd', rcv, out, T)
    <3> SUFFICES ASSUME ~rcv.ended PROVE Gapless(AtMediaSocket, snd', rcv, out, T)
      OBVIOUS
    <3>1. Gapless(AtMediaSocket, snd, rcv, out, T)
      BY DEF GapInv
    <3> QED BY <2>2, <3>1 DEF Gapless
  <2>4. ~rcv.ended => Gapless(AtMediaSocket', snd', rcv', out', Heeded(rcv'))
    BY <2>1, <2>2, <2>3
  <2> QED BY <1>1, <2>1, <2>4
<1>4. CASE Pass
  BY <1>4, PassGapless
<1>5. CASE Lose
  <2>1. faults.count \in Nat
    BY <1>0, Constants DEF FaultsTyped
  <2>2. faults' = [faults EXCEPT !.count = @ + 1]
    BY <1>5 DEF Lose
  <2>3. faults'.count = faults.count + 1
    BY <1>0, <2>2 DEF FaultsTyped
  <2> QED BY <2>1, <2>3
<1>6. CASE Tick
  <2>1. Aged
    BY <1>0, <1>6, TickFacts
  <2>2. out' = out /\ rcv'.ended = rcv.ended /\ rcv'.media = rcv.media
        /\ rcv'.previous = rcv.previous
    BY <2>1 DEF Aged, Same, RcvFields
  <2>3. ~rcv.ended => Gapless(AtMediaSocket', snd', rcv', out', T)
    BY <2>1, AgedGapless DEF GapInv
  <2>4. Heeded(rcv') = T
    BY <2>2 DEF Heeded
  <2> QED BY <1>1, <2>2, <2>3, <2>4
<1>7. CASE UNCHANGED vars
  BY <1>7 DEF vars, GapInv, AtMediaSocket
<1> QED BY <1>2, <1>3, <1>4, <1>5, <1>6, <1>7 DEF Next, SenderStep

(* Faults are not undone, and a receiver that was forced stays so.         *)
LEMMA FaultsLast ==
  ASSUME TypeInv, [Next]_vars, faults'.count = 0, ~rcv'.forced
  PROVE  faults.count = 0 /\ ~rcv.forced
<1>0. /\ SndTyped(snd) /\ Shape(rcv) /\ NetTyped /\ FaultsTyped /\ OutputOnTime
      /\ rcv.ended => DOMAIN rcv.buffer = {}
  BY DEF TypeInv
<1>1. faults.count \in Nat
  BY <1>0, Constants DEF FaultsTyped
<1>2. faults' # [faults EXCEPT !.count = @ + 1]
  <2>1. [faults EXCEPT !.count = @ + 1].count = faults.count + 1
    BY <1>0 DEF FaultsTyped
  <2>2. faults.count + 1 # 0
    BY <1>1
  <2> QED BY <2>1, <2>2
<1>3. CASE SenderStep
  BY <1>0, <1>3, SenderFacts
<1>4. CASE Restart
  BY <1>0, <1>4, RestartFacts
<1>5. CASE Pass
  <2>1. PICK r : Shape(r) /\ ReadIn(r) /\ LeftBy(r)
    BY <1>0, <1>5, PassFacts
  <2>2. faults' = faults
    BY <1>2, <2>1 DEF ReadIn
  <2>3. r.forced = rcv.forced
    BY <2>1 DEF ReadIn, Took, Same, RcvFields, Adopted
  <2>4. rcv'.forced = Pop(r).forced
    BY <2>1 DEF LeftBy, Same, RcvFields
  <2>5. r.forced => Pop(r).forced
    BY <2>1, PopFields
  <2> QED BY <2>2, <2>3, <2>4, <2>5
<1>6. CASE Lose
  BY <1>2, <1>6 DEF Lose
<1>7. CASE Tick
  <2>1. Aged
    BY <1>0, <1>7, TickFacts
  <2> QED BY <2>1 DEF Aged, Same, RcvFields
<1>8. CASE UNCHANGED vars
  BY <1>8 DEF vars
<1> QED BY <1>3, <1>4, <1>5, <1>6, <1>7, <1>8 DEF Next, SenderStep

(* What holds as long as nothing has gone wrong.                           *)
CleanInv ==
    faults.count = 0 /\ ~rcv.forced => OrderInv /\ SecondInv /\ GapInv

(* It is inductive with the types.                                         *)
LEMMA CleanStep ==
  ASSUME MaxLives <= 2, MaxDelay < Hold, TypeInv, CleanInv,
         faults.count = 0 /\ ~rcv.forced => Near, [Next]_vars
  PROVE  CleanInv'
<1> SUFFICES ASSUME faults'.count = 0, ~rcv'.forced
             PROVE  OrderInv' /\ SecondInv' /\ GapInv'
  BY DEF CleanInv
<1>1. faults.count = 0 /\ ~rcv.forced
  BY FaultsLast
<1>2. OrderInv /\ SecondInv /\ GapInv /\ Near
  BY <1>1 DEF CleanInv
<1>3. Onward
  BY <1>2, SecondOnward
<1>4. Unforced'
  BY DEF Unforced
<1>5. Ahead
  BY DEF Ahead
<1> QED BY <1>2, <1>3, <1>4, <1>5, OrderStep, SecondStep, GapStep

(* Unless a full buffer forced it, no stream has a gap, crashed or not.    *)
NoGap == ~rcv.forced => Contiguous(out)

(* No gap downstream is what the property asks.                            *)
LEMMA NoGapRecovers ==
  NoGap => LossesRecovered
BY DEF NoGap, LossesRecovered, Contiguous

(* Of a network that delays and reorders but neither loses nor repeats,    *)
(* the jitter buffer hides every delay: what goes downstream of a stream,  *)
(* its sender crashed or not, has no gap, if packets are under way for     *)
(* less than the receiver buffer holds them and within half the number     *)
(* space of the newest one received, the sender is restarted at most once  *)
(* and no full buffer forces a packet out.                                 *)
THEOREM DelaysHidden ==
  ASSUME MaxLives <= 2, MaxDelay < Hold
  PROVE  Spec /\ []Near => [](faults.count = 0 => NoGap /\ LossesRecovered)
<1>1. TypeInv /\ CleanInv /\ Near /\ [Next]_vars => CleanInv'
  BY CleanStep
<1>2. Init => CleanInv
  BY OrderInit, SecondInit, GapInit DEF CleanInv
<1>3. CleanInv => (faults.count = 0 => NoGap /\ LossesRecovered)
  BY NoGapRecovers DEF NoGap, CleanInv, GapInv
<1> QED BY <1>1, <1>2, <1>3, TypeAlways, PTL DEF Spec

(* The same without a condition on the packets under way, when all there   *)
(* are fit in half the number space.                                       *)
THEOREM ShortStreamDelaysHidden ==
  ASSUME MaxLives <= 2, MaxDelay < Hold, MaxSent <= Period \div 2
  PROVE  Spec => [](faults.count = 0 => NoGap /\ LossesRecovered)
<1>1. TypeInv /\ CleanInv => (faults.count = 0 /\ ~rcv.forced => Near)
  BY FewAreNear DEF CleanInv
<1>2. TypeInv /\ CleanInv /\ [Next]_vars => CleanInv'
  BY <1>1, CleanStep
<1>3. Init => CleanInv
  BY OrderInit, SecondInit, GapInit DEF CleanInv
<1>4. CleanInv => (faults.count = 0 => NoGap /\ LossesRecovered)
  BY NoGapRecovers DEF NoGap, CleanInv, GapInv
<1> QED BY <1>2, <1>3, <1>4, TypeAlways, PTL DEF Spec

(* A receiver that does not turn back has not turned back.                 *)
LEMMA AdvancedStep ==
  ASSUME TypeInv, TypeInv', Advanced(rcv), rcv'.media >= rcv.media, [Next]_vars
  PROVE  Advanced(rcv')
<1>0. /\ SndTyped(snd) /\ Shape(rcv) /\ NetTyped /\ OutputOnTime
      /\ rcv.ended => DOMAIN rcv.buffer = {}
  BY DEF TypeInv
<1>1. rcv.media \in Lives \cup {None} /\ rcv'.media \in Lives \cup {None}
  BY DEF TypeInv, Shape, RcvTyped
<1>2. rcv.media \in Nat /\ rcv'.media \in Nat
  BY <1>1, LivesAndNumbers DEF None
<1>3. CASE Pass
  <2>1. PICK r : Shape(r) /\ ReadIn(r) /\ LeftBy(r)
    BY <1>0, <1>3, PassFacts
  <2>2. Same(rcv', Pop(r), {"check", "holes", "passed", "ended"})
    BY <2>1 DEF LeftBy
  <2>3. Same(Pop(r), r, {"next", "released", "buffer", "forced"})
    BY <2>1, PopFields
  <2>4. rcv'.media = r.media /\ rcv'.previous = r.previous
    BY <2>2, <2>3 DEF Same, RcvFields
  <2>5. \/ r.media = rcv.media /\ r.previous = rcv.previous
        \/ r.previous = (IF rcv.media = None THEN rcv.previous ELSE rcv.media)
    BY <2>1 DEF ReadIn, Took, Same, RcvFields, Adopted
  <2>6. rcv.previous \in Nat
    <3>1. rcv.previous \in Lives \cup {None}
      BY <1>0 DEF Shape, RcvTyped
    <3> QED BY <3>1, LivesAndNumbers DEF None
  <2> QED BY <1>2, <2>4, <2>5, <2>6 DEF Advanced
<1>4. CASE ~Pass
  <2>1. rcv'.media = rcv.media /\ rcv'.previous = rcv.previous
    <3>1. CASE SenderStep
      BY <1>0, <3>1, SenderFacts
    <3>2. CASE Restart
      BY <3>2 DEF Restart
    <3>3. CASE Lose
      BY <3>3 DEF Lose
    <3>4. CASE Tick
      <4>1. Aged
        BY <1>0, <3>4, TickFacts
      <4> QED BY <4>1 DEF Aged, Same, RcvFields
    <3>5. CASE UNCHANGED vars
      BY <3>5 DEF vars
    <3> QED BY <1>4, <3>1, <3>2, <3>3, <3>4, <3>5 DEF Next, SenderStep
  <2> QED BY <2>1 DEF Advanced
<1> QED BY <1>3, <1>4

(* What holds of a receiver that never turns back.                         *)
ForwardInv ==
    /\ OrderInv /\ Advanced(rcv)
    /\ faults.count = 0 /\ ~rcv.forced => GapInv

(* The jitter buffer hides every delay over any number of restarts too, as *)
(* long as no late packet of an older sender takes the stream back.        *)
THEOREM ForwardDelaysHidden ==
  ASSUME MaxDelay < Hold
  PROVE  Spec /\ []Near /\ NeverSwitchedBack
            => [](faults.count = 0 => NoGap /\ LossesRecovered)
<1>1. TypeInv /\ ForwardInv /\ Near /\ [Next]_vars /\ [rcv'.media >= rcv.media]_vars
        => ForwardInv'
  <2> SUFFICES ASSUME TypeInv, ForwardInv, Near, [Next]_vars, [rcv'.media >= rcv.media]_vars
               PROVE  ForwardInv'
    OBVIOUS
  <2>1. TypeInv' /\ OrderInv /\ Advanced(rcv)
    BY TypeStep DEF ForwardInv
  <2>2. rcv'.media >= rcv.media
    <3>1. rcv.media \in Lives \cup {None}
      BY DEF TypeInv, Shape, RcvTyped
    <3>2. rcv.media \in Nat
      BY <3>1, LivesAndNumbers DEF None
    <3> QED BY <3>2 DEF vars
  <2>3. Onward
    BY <2>1, ForwardOnward
  <2>4. OrderInv'
    BY <2>1, <2>3, OrderStep
  <2>5. Advanced(rcv)'
    BY <2>1, <2>2, AdvancedStep
  <2>6. Ahead
    BY <2>1, <2>2 DEF Ahead
  <2>7. ASSUME faults'.count = 0, ~rcv'.forced PROVE GapInv'
    <3>1. faults.count = 0 /\ ~rcv.forced
      BY <2>7, FaultsLast
    <3>2. GapInv
      BY <3>1 DEF ForwardInv
    <3> QED BY <2>1, <2>3, <2>6, <2>7, <3>2, GapStep
  <2> QED BY <2>4, <2>5, <2>7 DEF ForwardInv
<1>2. Init => ForwardInv
  <2>1. Init => Advanced(rcv)
    BY DEF Init, Advanced, None
  <2> QED BY <2>1, OrderInit, GapInit DEF ForwardInv
<1>3. ForwardInv => (faults.count = 0 => NoGap /\ LossesRecovered)
  BY NoGapRecovers DEF NoGap, ForwardInv, GapInv
<1> QED BY <1>1, <1>2, <1>3, TypeAlways, PTL DEF Spec, NeverSwitchedBack
=============================================================================
