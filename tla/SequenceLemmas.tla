--------------------------- MODULE SequenceLemmas ---------------------------
(***************************************************************************)
(* What RemoveAt of SequencesExt does, for the proofs about lists and      *)
(* queues an element is taken out of, lists without repetitions, and the   *)
(* least number of a set, for proofs that would need an induction.         *)
(***************************************************************************)
EXTENDS Naturals, SequencesExt, SequenceTheorems, WellFoundedInduction, TLAPS

\* Taking one entry out of a sequence closes the gap and changes nothing else.
LEMMA RemoveAtEntries ==
  ASSUME NEW S, NEW s \in Seq(S), NEW i \in DOMAIN s
  PROVE  /\ RemoveAt(s, i) \in Seq(S)
         /\ Len(RemoveAt(s, i)) = Len(s) - 1
         /\ DOMAIN RemoveAt(s, i) = 1 .. Len(s) - 1
         /\ \A j \in 1 .. Len(s) - 1 :
              RemoveAt(s, i)[j] = IF j < i THEN s[j] ELSE s[j + 1]
<1> DEFINE before == SubSeq(s, 1, i - 1)
           after  == SubSeq(s, i + 1, Len(s))
<1>1. i \in 1 .. Len(s) /\ Len(s) \in Nat
  OBVIOUS
<1>2. /\ before \in Seq(S) /\ Len(before) = i - 1
      /\ \A j \in 1 .. i - 1 : before[j] = s[j]
  BY <1>1
<1>3. /\ after \in Seq(S) /\ Len(after) = Len(s) - i
      /\ \A j \in 1 .. Len(s) - i : after[j] = s[i + j]
  BY <1>1
<1> HIDE DEF before, after
<1>4. /\ before \o after \in Seq(S)
      /\ Len(before \o after) = Len(s) - 1
      /\ DOMAIN (before \o after) = 1 .. Len(s) - 1
      /\ \A j \in 1 .. Len(s) - 1 :
           (before \o after)[j] = IF j < i THEN before[j] ELSE after[j - (i - 1)]
  <2>1. /\ before \o after \in Seq(S)
        /\ Len(before \o after) = Len(before) + Len(after)
        /\ \A j \in 1 .. Len(before) + Len(after) :
             (before \o after)[j] = IF j <= Len(before) THEN before[j]
                                    ELSE after[j - Len(before)]
    BY <1>2, <1>3, ConcatProperties
  <2>2. Len(before) + Len(after) = Len(s) - 1
    BY <1>1, <1>2, <1>3
  <2>3. \A j \in 1 .. Len(s) - 1 : j <= Len(before) <=> j < i
    BY <1>1, <1>2
  <2> QED BY <1>2, <2>1, <2>2, <2>3
<1>5. \A j \in 1 .. Len(s) - 1 : ~(j < i) => after[j - (i - 1)] = s[j + 1]
  <2> SUFFICES ASSUME NEW j \in 1 .. Len(s) - 1, ~(j < i)
               PROVE  after[j - (i - 1)] = s[j + 1]
    OBVIOUS
  <2>1. j - (i - 1) \in 1 .. Len(s) - i /\ i + (j - (i - 1)) = j + 1
    BY <1>1
  <2> QED BY <1>3, <2>1
<1>6. RemoveAt(s, i) = before \o after
  BY DEF RemoveAt, before, after
<1> QED BY <1>1, <1>2, <1>4, <1>5, <1>6

\* The first element of a queue is answered and more are appended: the others
\* move one place to the front, in their order.
LEMMA AnsweredQueue ==
  ASSUME NEW S, NEW q \in Seq(S), q # <<>>, NEW more \in Seq(S)
  PROVE  /\ RemoveAt(q, 1) \o more \in Seq(S)
         /\ Len(RemoveAt(q, 1) \o more) = Len(q) - 1 + Len(more)
         /\ \A j \in 2 .. Len(q) :
              /\ j - 1 \in DOMAIN (RemoveAt(q, 1) \o more)
              /\ (RemoveAt(q, 1) \o more)[j - 1] = q[j]
         /\ \A j \in DOMAIN (RemoveAt(q, 1) \o more) :
              \/ j + 1 \in 2 .. Len(q) /\ (RemoveAt(q, 1) \o more)[j] = q[j + 1]
              \/ \E k \in DOMAIN more : (RemoveAt(q, 1) \o more)[j] = more[k]
<1>1. 1 \in DOMAIN q /\ Len(q) \in Nat \ {0} /\ Len(more) \in Nat
  OBVIOUS
<1> DEFINE rest == RemoveAt(q, 1)
<1>2. /\ rest \in Seq(S)
      /\ Len(rest) = Len(q) - 1
      /\ \A j \in 1 .. Len(q) - 1 : rest[j] = q[j + 1]
  <2>1. /\ rest \in Seq(S) /\ Len(rest) = Len(q) - 1
        /\ \A j \in 1 .. Len(q) - 1 : rest[j] = IF j < 1 THEN q[j] ELSE q[j + 1]
    BY <1>1, RemoveAtEntries
  <2> QED BY <1>1, <2>1
<1> HIDE DEF rest
<1>3. /\ rest \o more \in Seq(S)
      /\ Len(rest \o more) = Len(rest) + Len(more)
      /\ \A j \in 1 .. Len(rest) + Len(more) :
           (rest \o more)[j] = IF j <= Len(rest) THEN rest[j] ELSE more[j - Len(rest)]
  BY <1>2, ConcatProperties
<1>4. \A j \in 2 .. Len(q) :
         j - 1 \in DOMAIN (rest \o more) /\ (rest \o more)[j - 1] = q[j]
  BY <1>1, <1>2, <1>3
<1>5. ASSUME NEW j \in DOMAIN (rest \o more)
      PROVE  \/ j + 1 \in 2 .. Len(q) /\ (rest \o more)[j] = q[j + 1]
             \/ \E k \in DOMAIN more : (rest \o more)[j] = more[k]
  <2>0. j \in 1 .. Len(rest) + Len(more)
    BY <1>3
  <2>1. CASE j <= Len(rest)
    BY <1>1, <1>2, <1>3, <2>0, <2>1
  <2>2. CASE ~(j <= Len(rest))
    <3>1. j - Len(rest) \in DOMAIN more /\ (rest \o more)[j] = more[j - Len(rest)]
      BY <1>1, <1>2, <1>3, <2>0, <2>2
    <3> QED BY <3>1
  <2> QED BY <2>1, <2>2
<1> QED BY <1>1, <1>2, <1>3, <1>4, <1>5 DEF rest

\* Any set of natural numbers that is not empty has a least one.
LEMMA LeastNat ==
  ASSUME NEW T \in SUBSET Nat, T # {}
  PROVE  \E x \in T : \A y \in T : x <= y
<1> DEFINE R == OpToRel(<, Nat)
<1>1. IsWellFoundedOn(R, Nat)
  BY NatLessThanWellFounded
<1> HIDE DEF R
<1>2. PICK x \in T : \A y \in T : ~ (<<y, x>> \in R)
  BY <1>1, WFMin
<1>3. \A y \in T : y < x => <<y, x>> \in R
  BY DEF R, OpToRel
<1>4. \A y \in T : ~ (y < x)
  BY <1>2, <1>3, Zenon
<1>5. x \in T
  BY <1>2
<1> HIDE <1>2
<1> QED BY <1>4, <1>5

\* Induction up to a bound, for a set in place of a formula.
LEMMA UpTo ==
  ASSUME NEW n \in Nat, NEW T, 0 \in T,
         \A i \in 0..n : i < n /\ i \in T => i + 1 \in T
  PROVE  0..n \subseteq T
<1> DEFINE Bad == {i \in 0..n : i \notin T}
<1> SUFFICES ASSUME Bad # {} PROVE FALSE
  OBVIOUS
<1>1. Bad \in SUBSET Nat
  OBVIOUS
<1>2. PICK x \in Bad : \A y \in Bad : x <= y
  BY <1>1, LeastNat
<1>3. x \in 1..n /\ x - 1 \in 0..n /\ x - 1 < n /\ (x - 1) + 1 = x
  BY <1>2
<1>4. x - 1 \notin Bad
  BY <1>2, <1>3
<1> QED BY <1>2, <1>3, <1>4

\* Taking an element out of a list without repetitions.
LEMMA RemoveFirstSet ==
  ASSUME NEW S, NEW s \in Seq(S), IsInjective(s), NEW e
  PROVE  /\ RemoveFirst(s, e) \in Seq(S)
         /\ IsInjective(RemoveFirst(s, e))
         /\ ToSet(RemoveFirst(s, e)) = ToSet(s) \ {e}
<1>1. CASE \E i \in 1 .. Len(s) : s[i] = e
  <2> DEFINE I == {i \in 1 .. Len(s) : s[i] = e}
             k == Min(I)
             r == RemoveAt(s, k)
  <2>1. I \in SUBSET Nat /\ I # {} /\ I \subseteq DOMAIN s
    BY <1>1
  <2>2. \E x \in I : \A y \in I : x <= y
    BY <2>1, LeastNat
  <2>3. k \in I
    BY <2>2 DEF Min
  <2>4. RemoveFirst(s, e) = r
    BY <1>1, <2>1 DEF RemoveFirst, SelectInSeq
  <2>5. k \in DOMAIN s /\ s[k] = e /\ Len(s) \in Nat /\ DOMAIN s = 1 .. Len(s)
    BY <2>3
  <2> HIDE DEF I, k
  <2>6. /\ r \in Seq(S) /\ DOMAIN r = 1 .. Len(s) - 1
        /\ \A j \in 1 .. Len(s) - 1 : r[j] = IF j < k THEN s[j] ELSE s[j + 1]
    BY <2>5, RemoveAtEntries
  <2> HIDE DEF r
  <2> DEFINE at(j) == IF j < k THEN j ELSE j + 1
  <2>7. \A j \in DOMAIN r : at(j) \in DOMAIN s /\ at(j) # k /\ r[j] = s[at(j)]
    BY <2>5, <2>6
  <2>8. \A i, j \in DOMAIN r : at(i) = at(j) => i = j
    BY <2>5, <2>6
  <2>9. \A i \in DOMAIN s : i # k => \E j \in DOMAIN r : at(j) = i
    <3> SUFFICES ASSUME NEW i \in DOMAIN s, i # k PROVE \E j \in DOMAIN r : at(j) = i
      OBVIOUS
    <3>1. CASE i < k
      <4>1. i \in DOMAIN r /\ at(i) = i
        BY <2>5, <2>6, <3>1
      <4> QED BY <4>1
    <3>2. CASE ~ (i < k)
      <4>1. i - 1 \in DOMAIN r /\ at(i - 1) = i
        BY <2>5, <2>6, <3>2
      <4> QED BY <4>1
    <3> QED BY <3>1, <3>2
  <2> HIDE DEF at
  <2>10. IsInjective(r)
    <3> SUFFICES ASSUME NEW i \in DOMAIN r, NEW j \in DOMAIN r, r[i] = r[j] PROVE i = j
      BY DEF IsInjective
    <3>1. s[at(i)] = s[at(j)] /\ at(i) \in DOMAIN s /\ at(j) \in DOMAIN s
      BY <2>7
    <3>2. at(i) = at(j)
      BY <3>1 DEF IsInjective
    <3> QED BY <2>8, <3>2
  <2>11. ASSUME NEW x PROVE x \in ToSet(r) <=> x \in ToSet(s) \ {e}
    <3>1. ASSUME NEW j \in DOMAIN r, x = r[j] PROVE x \in ToSet(s) \ {e}
      <4>1. at(j) \in DOMAIN s /\ at(j) # k /\ x = s[at(j)]
        BY <2>7, <3>1
      <4>2. s[at(j)] # s[k]
        BY <2>5, <4>1 DEF IsInjective
      <4> QED BY <2>5, <4>1, <4>2 DEF ToSet
    <3>2. ASSUME NEW i \in DOMAIN s, x = s[i], x # e PROVE x \in ToSet(r)
      <4>1. i # k
        BY <2>5, <3>2
      <4>2. PICK j \in DOMAIN r : at(j) = i
        BY <2>9, <4>1
      <4> QED BY <2>7, <3>2, <4>2 DEF ToSet
    <3> QED BY <3>1, <3>2 DEF ToSet
  <2>12. ToSet(r) = ToSet(s) \ {e}
    BY <2>11
  <2> QED BY <2>4, <2>6, <2>10, <2>12
<1>2. CASE ~ \E i \in 1 .. Len(s) : s[i] = e
  <2>1. RemoveFirst(s, e) = s
    BY <1>2 DEF RemoveFirst
  <2>2. ToSet(s) = ToSet(s) \ {e}
    BY <1>2 DEF ToSet
  <2> QED BY <2>1, <2>2
<1> QED BY <1>1, <1>2

\* Putting a new element before a list without repetitions.
LEMMA PutFirstSet ==
  ASSUME NEW S, NEW s \in Seq(S), IsInjective(s), NEW e \in S, e \notin ToSet(s)
  PROVE  /\ <<e>> \o s \in Seq(S)
         /\ IsInjective(<<e>> \o s)
         /\ ToSet(<<e>> \o s) = ToSet(s) \cup {e}
<1> DEFINE r == <<e>> \o s
<1>1. /\ r \in Seq(S) /\ Len(s) \in Nat
      /\ DOMAIN s = 1 .. Len(s) /\ DOMAIN r = 1 .. Len(s) + 1
      /\ r[1] = e /\ \A j \in 1 .. Len(s) : r[j + 1] = s[j]
  <2>1. <<e>> \in Seq(S) /\ Len(<<e>>) = 1 /\ <<e>>[1] = e
    OBVIOUS
  <2>2. /\ r \in Seq(S) /\ Len(r) = 1 + Len(s)
        /\ \A j \in 1 .. 1 + Len(s) : r[j] = IF j <= 1 THEN <<e>>[j] ELSE s[j - 1]
    BY <2>1, ConcatProperties
  <2> HIDE DEF r
  <2>3. r[1] = e
    BY <2>1, <2>2
  <2>4. ASSUME NEW j \in 1 .. Len(s) PROVE r[j + 1] = s[j]
    <3>1. j + 1 \in 1 .. 1 + Len(s) /\ ~ (j + 1 <= 1) /\ (j + 1) - 1 = j
      OBVIOUS
    <3> QED BY <2>2, <3>1
  <2>5. DOMAIN r = 1 .. Len(s) + 1
    BY <2>2
  <2> QED BY <2>2, <2>3, <2>4, <2>5
<1> HIDE DEF r
<1>2. \A i \in DOMAIN r : i = 1 \/ (i - 1 \in DOMAIN s /\ r[i] = s[i - 1])
  <2> SUFFICES ASSUME NEW i \in DOMAIN r, i # 1 PROVE i - 1 \in DOMAIN s /\ r[i] = s[i - 1]
    OBVIOUS
  <2>1. i - 1 \in 1 .. Len(s) /\ (i - 1) + 1 = i
    BY <1>1
  <2> QED BY <1>1, <2>1
<1>3. \A j \in DOMAIN s : s[j] # e
  BY DEF ToSet
<1>4. IsInjective(r)
  <2> SUFFICES ASSUME NEW i \in DOMAIN r, NEW j \in DOMAIN r, r[i] = r[j] PROVE i = j
    BY DEF IsInjective
  <2>1. CASE i = 1 \/ j = 1
    BY <1>1, <1>2, <1>3, <2>1
  <2>2. CASE i # 1 /\ j # 1
    <3>1. i - 1 \in DOMAIN s /\ j - 1 \in DOMAIN s /\ s[i - 1] = s[j - 1]
      BY <1>2, <2>2
    <3>2. i - 1 = j - 1
      BY <3>1 DEF IsInjective
    <3> QED BY <1>1, <3>2
  <2> QED BY <2>1, <2>2
<1>5. ASSUME NEW x PROVE x \in ToSet(r) <=> x \in ToSet(s) \cup {e}
  <2>1. ASSUME NEW i \in DOMAIN r, x = r[i] PROVE x \in ToSet(s) \cup {e}
    BY <1>1, <1>2, <2>1 DEF ToSet
  <2>2. ASSUME NEW j \in DOMAIN s, x = s[j] PROVE x \in ToSet(r)
    <3>1. j + 1 \in DOMAIN r /\ r[j + 1] = x
      BY <1>1, <2>2
    <3> QED BY <3>1 DEF ToSet
  <2>3. e \in ToSet(r)
    <3>1. 1 \in DOMAIN r
      BY <1>1
    <3> QED BY <1>1, <3>1 DEF ToSet
  <2> QED BY <2>1, <2>2, <2>3 DEF ToSet
<1>6. ToSet(r) = ToSet(s) \cup {e}
  BY <1>5
<1> QED BY <1>1, <1>4, <1>6 DEF r

\* A set of numbers up to a bound has a greatest one.
LEMMA GreatestNat ==
  ASSUME NEW n \in Nat, NEW T \in SUBSET (0..n), T # {}
  PROVE  Max(T) \in T /\ \A y \in T : Max(T) >= y
<1> DEFINE U == {n - x : x \in T}
<1>1. U \in SUBSET Nat /\ U # {}
  <2>1. \A x \in T : n - x \in Nat
    OBVIOUS
  <2>2. PICK x : x \in T
    OBVIOUS
  <2> QED BY <2>1, <2>2
<1>2. PICK u \in U : \A w \in U : u <= w
  BY <1>1, LeastNat
<1>3. PICK x \in T : u = n - x
  BY <1>2
<1>4. \A y \in T : x >= y
  <2> SUFFICES ASSUME NEW y \in T PROVE x >= y
    OBVIOUS
  <2>1. n - x <= n - y
    BY <1>2, <1>3
  <2> QED BY <2>1
<1>5. \E z \in T : \A y \in T : z >= y
  BY <1>4
<1> HIDE DEF U
<1> QED BY <1>5 DEF Max
=============================================================================
