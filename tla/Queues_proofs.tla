--------------------------- MODULE Queues_proofs ---------------------------
(* Facts about queues: what is in one, how much of a kind, in which order, and *)
(* what Retain keeps of it, with the induction that needs. The library's      *)
(* induction theorems take an operator; here the induction is over a set of   *)
(* numbers, and rests on finite sets being well-founded by inclusion.         *)
EXTENDS Queues, SequenceTheorems, FiniteSetTheorems, WellFoundedInduction, TLAPS

\* Induction over the naturals: a set that has 0 and every successor has all.
LEMMA Induction ==
    ASSUME NEW T, 0 \in T, \A n \in Nat : n \in T => n + 1 \in T
    PROVE  Nat \subseteq T
<1> SUFFICES ASSUME NEW m \in Nat, m \notin T PROVE FALSE
    OBVIOUS
<1> DEFINE D == {0..n : n \in {k \in 0..m : k \notin T}}
<1>1. IsWellFoundedOn(StrictSubsetOrdering(Nat), FiniteSubsetsOf(Nat))
    BY FS_StrictSubsetOrderingWellFounded
<1>2. D \subseteq FiniteSubsetsOf(Nat)
    <2> SUFFICES ASSUME NEW n \in Nat PROVE 0..n \in FiniteSubsetsOf(Nat)
        OBVIOUS
    <2>1. IsFiniteSet(0..n)
        BY FS_Interval
    <2> QED BY <2>1 DEF FiniteSubsetsOf
<1>3. D # {}
    OBVIOUS
<1>4. PICK x \in D : \A y \in D : <<y, x>> \notin StrictSubsetOrdering(Nat)
    <2> HIDE DEF D
    <2> QED BY <1>1, <1>2, <1>3, WFMin
<1>5. PICK n \in 0..m : n \notin T /\ x = 0..n
    OBVIOUS
<1>6. n # 0 /\ n - 1 \in 0..m /\ n - 1 \notin T
    <2>1. n # 0 /\ n - 1 \in Nat /\ (n - 1) + 1 = n
        BY <1>5
    <2> QED BY <2>1, <1>5
<1>7. 0..(n - 1) \in D
    BY <1>6
<1>8. <<0..(n - 1), x>> \in StrictSubsetOrdering(Nat)
    <2>1. 0..(n - 1) \subseteq 0..n /\ n \notin 0..(n - 1) /\ n \in 0..n /\ 0..n \subseteq Nat
        OBVIOUS
    <2> QED BY <2>1, <1>5 DEF StrictSubsetOrdering
<1> QED BY <1>4, <1>7, <1>8

\* The recursive definition of Kept has a solution, which is its value.
LEMMA KeptIsDefined ==
    ASSUME NEW q, Len(q) \in Nat, NEW set
    PROVE  Kept(q, set) = [n \in 0..Len(q) |->
               IF n = 0 THEN <<>>
               ELSE IF q[n] \in set THEN Append(Kept(q, set)[n - 1], q[n])
               ELSE Kept(q, set)[n - 1]]
<1> DEFINE Step(f, n) == IF n = 0 THEN <<>>
                         ELSE IF q[n] \in set THEN Append(f[n - 1], q[n]) ELSE f[n - 1]
           T == {m \in Nat : \E f : f = [n \in 0..m |-> Step(f, n)]}
<1>1. 0 \in T
    <2> DEFINE f == [n \in 0..0 |-> <<>>]
    <2>1. f = [n \in 0..0 |-> Step(f, n)]
        OBVIOUS
    <2> HIDE DEF f
    <2> QED BY <2>1
<1>2. ASSUME NEW m \in Nat, m \in T PROVE m + 1 \in T
    <2>1. PICK f : f = [n \in 0..m |-> Step(f, n)]
        BY <1>2
    <2> DEFINE g == [n \in 0..(m + 1) |-> IF n = m + 1 THEN Step(f, n) ELSE f[n]]
    <2>2. ASSUME NEW n \in 0..(m + 1) PROVE g[n] = Step(g, n)
        <3>1. n # 0 => n - 1 \in 0..m /\ g[n - 1] = f[n - 1]
            OBVIOUS
        <3>2. n # m + 1 => n \in 0..m /\ g[n] = f[n] /\ f[n] = Step(f, n)
            <4>1. n # m + 1 => n \in 0..m /\ g[n] = f[n]
                OBVIOUS
            <4>2. ASSUME NEW k \in 0..m PROVE f[k] = Step(f, k)
                <5> HIDE DEF Step
                <5> QED BY <2>1
            <4> HIDE DEF g, Step
            <4> QED BY <4>1, <4>2
        <3>3. n = m + 1 => g[n] = Step(f, n)
            OBVIOUS
        <3>4. g[n] = Step(f, n)
            <4> HIDE DEF g, Step
            <4> QED BY <3>2, <3>3
        <3>5. Step(f, n) = Step(g, n)
            <4> HIDE DEF g
            <4> QED BY <3>1
        <3> QED BY <3>4, <3>5
    <2>3. g = [n \in 0..(m + 1) |-> Step(g, n)]
        <3>1. g = [n \in 0..(m + 1) |-> g[n]]
            OBVIOUS
        <3> HIDE DEF g, Step
        <3> QED BY <2>2, <3>1
    <2> HIDE DEF g, Step
    <2> QED BY <2>3
<1>3. Nat \subseteq T
    <2> HIDE DEF T
    <2> QED BY <1>1, <1>2, Induction
<1>4. \E f : f = [n \in 0..Len(q) |-> Step(f, n)]
    <2> HIDE DEF Step
    <2> QED BY <1>3
<1>5. Kept(q, set) = CHOOSE f : f = [n \in 0..Len(q) |-> Step(f, n)]
    BY DEF Kept
<1> HIDE DEF Step
<1>6. Kept(q, set) = [n \in 0..Len(q) |-> Step(Kept(q, set), n)]
    BY <1>4, <1>5
<1> USE DEF Step
<1> QED BY <1>6

\* r is what is left of q when what is not in the set is taken out: it is in the
\* set, all of q that is in the set is in it, and it is in its order.
Retains(A, q, set, r) ==
    /\ r \in Seq(A)
    /\ Len(r) <= Len(q)
    /\ \A i \in 1..Len(r) : r[i] \in set /\ \E j \in 1..Len(q) : q[j] = r[i]
    /\ \A j \in 1..Len(q) : q[j] \in set => \E i \in 1..Len(r) : r[i] = q[j]
    /\ \A i1, i2 \in 1..Len(r) : i1 < i2 =>
          \E j1, j2 \in 1..Len(q) : j1 < j2 /\ q[j1] = r[i1] /\ q[j2] = r[i2]

\* What Vec::retain keeps is the part of the sequence that is in the set.
LEMMA RetainFacts ==
    ASSUME NEW A, NEW q \in Seq(A), NEW set
    PROVE  Retains(A, q, set, Retain(q, set))
<1> DEFINE k == Kept(q, set)
           Good(s, n) ==
               /\ s \in Seq(A)
               /\ Len(s) <= n
               /\ \A i \in 1..Len(s) : s[i] \in set /\ \E j \in 1..n : q[j] = s[i]
               /\ \A j \in 1..n : q[j] \in set => \E i \in 1..Len(s) : s[i] = q[j]
               /\ \A i1, i2 \in 1..Len(s) : i1 < i2 =>
                     \E j1, j2 \in 1..n : j1 < j2 /\ q[j1] = s[i1] /\ q[j2] = s[i2]
           T == {n \in Nat : n <= Len(q) => Good(k[n], n)}
<1>1. Len(q) \in Nat /\ \A j \in 1..Len(q) : q[j] \in A
    OBVIOUS
<1>2. \A n \in 0..Len(q) :
          k[n] = IF n = 0 THEN <<>>
                 ELSE IF q[n] \in set THEN Append(k[n - 1], q[n]) ELSE k[n - 1]
    <2>1. k = [n \in 0..Len(q) |->
                  IF n = 0 THEN <<>>
                  ELSE IF q[n] \in set THEN Append(k[n - 1], q[n]) ELSE k[n - 1]]
        BY <1>1, KeptIsDefined
    <2> HIDE DEF k
    <2> QED BY <2>1
<1> HIDE DEF k
<1>3. 0 \in T
    <2>1. k[0] = <<>>
        BY <1>1, <1>2
    <2>2. k[0] \in Seq(A) /\ Len(k[0]) = 0
        BY <2>1
    <2>3. Good(k[0], 0)
        BY <2>2
    <2> HIDE DEF Good
    <2> QED BY <2>3
<1>4. ASSUME NEW n \in Nat, n \in T PROVE n + 1 \in T
    <2> SUFFICES ASSUME n + 1 <= Len(q) PROVE Good(k[n + 1], n + 1)
        <3> HIDE DEF Good
        <3> QED OBVIOUS
    <2>1. Good(k[n], n)
        BY <1>1, <1>4
    <2>2. n + 1 \in 0..Len(q) /\ n + 1 # 0 /\ (n + 1) - 1 = n /\ n + 1 \in 1..Len(q)
        BY <1>1
    <2>3. k[n + 1] = IF q[n + 1] \in set THEN Append(k[n], q[n + 1]) ELSE k[n]
        BY <1>2, <2>2
    <2>4. CASE q[n + 1] \in set
        <3>1. k[n + 1] = Append(k[n], q[n + 1]) /\ q[n + 1] \in A
            BY <1>1, <2>2, <2>3, <2>4
        <3>2. /\ k[n + 1] \in Seq(A) /\ Len(k[n + 1]) = Len(k[n]) + 1
              /\ \A i \in 1..Len(k[n]) : k[n + 1][i] = k[n][i]
              /\ k[n + 1][Len(k[n]) + 1] = q[n + 1]
            BY <2>1, <3>1, AppendProperties
        <3>3. Len(k[n]) \in Nat
            BY <2>1
        <3>4. ASSUME NEW i \in 1..Len(k[n + 1])
              PROVE  k[n + 1][i] \in set /\ \E j \in 1..(n + 1) : q[j] = k[n + 1][i]
            <4>1. i \in 1..Len(k[n]) \/ i = Len(k[n]) + 1
                BY <3>2, <3>3
            <4>2. CASE i \in 1..Len(k[n])
                <5>1. k[n + 1][i] = k[n][i]
                    BY <3>2, <4>2
                <5>2. k[n][i] \in set /\ \E j \in 1..n : q[j] = k[n][i]
                    BY <2>1, <4>2
                <5> QED BY <5>1, <5>2
            <4>3. CASE i = Len(k[n]) + 1
                BY <2>4, <3>2, <4>3
            <4> QED BY <4>1, <4>2, <4>3
        <3>5. ASSUME NEW j \in 1..(n + 1), q[j] \in set
              PROVE  \E i \in 1..Len(k[n + 1]) : k[n + 1][i] = q[j]
            <4>1. CASE j = n + 1
                BY <3>2, <3>3, <4>1
            <4>2. CASE j \in 1..n
                <5>1. PICK i \in 1..Len(k[n]) : k[n][i] = q[j]
                    BY <2>1, <3>5, <4>2
                <5> QED BY <3>2, <3>3, <5>1
            <4> QED BY <4>1, <4>2
        <3>6. Len(k[n + 1]) <= n + 1
            BY <2>1, <3>2, <3>3
        <3>7. ASSUME NEW i1 \in 1..Len(k[n + 1]), NEW i2 \in 1..Len(k[n + 1]), i1 < i2
              PROVE  \E j1, j2 \in 1..(n + 1) :
                         j1 < j2 /\ q[j1] = k[n + 1][i1] /\ q[j2] = k[n + 1][i2]
            <4>1. i1 \in 1..Len(k[n]) /\ k[n + 1][i1] = k[n][i1]
                BY <3>2, <3>3, <3>7
            <4>2. CASE i2 \in 1..Len(k[n])
                <5>1. PICK j1 \in 1..n, j2 \in 1..n :
                          j1 < j2 /\ q[j1] = k[n][i1] /\ q[j2] = k[n][i2]
                    BY <2>1, <3>7, <4>1, <4>2
                <5>2. k[n + 1][i2] = k[n][i2]
                    BY <3>2, <4>2
                <5> QED BY <4>1, <5>1, <5>2
            <4>3. CASE i2 = Len(k[n]) + 1
                <5>1. PICK j1 \in 1..n : q[j1] = k[n][i1]
                    BY <2>1, <4>1
                <5>2. q[n + 1] = k[n + 1][i2]
                    BY <3>2, <4>3
                <5>3. j1 < n + 1 /\ j1 \in 1..(n + 1) /\ n + 1 \in 1..(n + 1)
                    OBVIOUS
                <5> QED BY <4>1, <5>1, <5>2, <5>3
            <4> QED BY <3>2, <3>3, <4>2, <4>3
        <3> QED BY <3>2, <3>4, <3>5, <3>6, <3>7
    <2>5. CASE q[n + 1] \notin set
        <3>1. k[n + 1] = k[n]
            BY <2>3, <2>5
        <3>2. Len(k[n]) \in Nat
            BY <2>1
        <3>3. ASSUME NEW j \in 1..(n + 1), q[j] \in set
              PROVE  \E i \in 1..Len(k[n]) : k[n][i] = q[j]
            <4>1. j \in 1..n
                BY <2>5, <3>3
            <4> QED BY <2>1, <3>3, <4>1
        <3>4. \A i \in 1..Len(k[n]) : k[n][i] \in set /\ \E j \in 1..(n + 1) : q[j] = k[n][i]
            BY <2>1
        <3>5. k[n] \in Seq(A) /\ Len(k[n]) <= n + 1
            BY <2>1, <3>2
        <3>6. \A i1, i2 \in 1..Len(k[n]) : i1 < i2 =>
                  \E j1, j2 \in 1..(n + 1) :
                      j1 < j2 /\ q[j1] = k[n][i1] /\ q[j2] = k[n][i2]
            <4>1. \A j \in 1..n : j \in 1..(n + 1)
                OBVIOUS
            <4> QED BY <2>1, <4>1
        <3> QED BY <3>1, <3>3, <3>4, <3>5, <3>6
    <2> QED BY <2>4, <2>5
<1>5. Nat \subseteq T
    <2> HIDE DEF T
    <2> QED BY <1>3, <1>4, Induction
<1>6. Good(k[Len(q)], Len(q))
    <2> HIDE DEF Good
    <2> QED BY <1>1, <1>5
<1>7. k[Len(q)] = Retain(q, set)
    BY DEF Retain, k
<1>8. Good(Retain(q, set), Len(q))
    <2> HIDE DEF Good
    <2> QED BY <1>6, <1>7
<1> QED BY <1>8 DEF Retains

-----------------------------------------------------------------------------
(* What waits in a queue *)

\* The elements of a queue; how many of a set; none of one set behind another's.
Elements(q) == {q[i] : i \in DOMAIN q}
Count(q, set) == Cardinality({i \in DOMAIN q : q[i] \in set})
NoneBehind(q, first, last) ==
    \A i, j \in DOMAIN q : i < j /\ q[i] \in first => q[j] \notin last

\* The same of the empty queue.
LEMMA EmptyQueue ==
    \A set, first, last :
        Elements(<<>>) = {} /\ Count(<<>>, set) = 0 /\ NoneBehind(<<>>, first, last)
<1> TAKE set, first, last
<1>1. DOMAIN <<>> = {}
    OBVIOUS
<1>2. {i \in DOMAIN <<>> : <<>>[i] \in set} = {}
    BY <1>1
<1>3. Cardinality({}) = 0
    BY FS_EmptySet
<1> QED BY <1>1, <1>2, <1>3 DEF Elements, Count, NoneBehind

\* A count is a number, and it is none when there is none of the set.
LEMMA CountType ==
    ASSUME NEW A, NEW q \in Seq(A), NEW set
    PROVE  /\ Count(q, set) \in Nat
           /\ Count(q, set) = 0 <=> \A x \in Elements(q) : x \notin set
<1> DEFINE I == {i \in DOMAIN q : q[i] \in set}
<1>1. DOMAIN q = 1..Len(q) /\ Len(q) \in Nat
    BY LenProperties
<1>2. IsFiniteSet(I)
    <2>1. IsFiniteSet(1..Len(q))
        BY <1>1, FS_Interval
    <2>2. I \subseteq 1..Len(q)
        BY <1>1
    <2> HIDE DEF I
    <2> QED BY <2>1, <2>2, FS_Subset
<1>3. Cardinality(I) \in Nat /\ (Cardinality(I) = 0 <=> I = {})
    <2> HIDE DEF I
    <2> QED BY <1>2, FS_CardinalityType, FS_EmptySet
<1>4. I = {} <=> \A x \in Elements(q) : x \notin set
    BY DEF Elements
<1> QED BY <1>3, <1>4 DEF Count

\* What an element behind a queue changes.
LEMMA QueueAppend ==
    ASSUME NEW A, NEW q \in Seq(A), NEW a \in A
    PROVE  /\ Elements(Append(q, a)) = Elements(q) \cup {a}
           /\ \A set : Count(Append(q, a), set) = Count(q, set) + (IF a \in set THEN 1 ELSE 0)
           /\ \A first, last :
                 NoneBehind(q, first, last)
                     /\ (a \in last => \A x \in Elements(q) : x \notin first)
                 => NoneBehind(Append(q, a), first, last)
<1> DEFINE r == Append(q, a)
           n == Len(q)
<1>1. /\ n \in Nat /\ DOMAIN q = 1..n
      /\ r \in Seq(A) /\ Len(r) = n + 1 /\ DOMAIN r = 1..(n + 1)
      /\ r[n + 1] = a /\ \A i \in 1..n : r[i] = q[i]
    BY AppendProperties, LenProperties
<1> HIDE DEF r, n
<1>2. Elements(r) = Elements(q) \cup {a}
    <2>1. \A i \in 1..(n + 1) : i \in 1..n \/ i = n + 1
        BY <1>1
    <2>2. \A i \in 1..n : i \in 1..(n + 1)
        BY <1>1
    <2>3. n + 1 \in 1..(n + 1)
        BY <1>1
    <2> QED BY <1>1, <2>1, <2>2, <2>3 DEF Elements
<1>3. ASSUME NEW set PROVE Count(r, set) = Count(q, set) + (IF a \in set THEN 1 ELSE 0)
    <2> DEFINE I == {i \in DOMAIN q : q[i] \in set}
               J == {i \in DOMAIN r : r[i] \in set}
    <2>1. IsFiniteSet(I) /\ n + 1 \notin I
        <3>1. IsFiniteSet(1..n) /\ I \subseteq 1..n
            BY <1>1, FS_Interval
        <3>2. n + 1 \notin 1..n
            BY <1>1
        <3> HIDE DEF I
        <3> QED BY <3>1, <3>2, FS_Subset
    <2>2. J = IF a \in set THEN I \cup {n + 1} ELSE I
        <3>1. \A i : i \in 1..(n + 1) <=> i \in 1..n \/ i = n + 1
            BY <1>1
        <3> QED BY <1>1, <3>1
    <2>3. Cardinality(I) \in Nat /\ Cardinality(I \cup {n + 1}) = Cardinality(I) + 1
        <3> HIDE DEF I
        <3> QED BY <2>1, FS_AddElement, FS_CardinalityType
    <2>4. Count(q, set) = Cardinality(I) /\ Count(r, set) = Cardinality(J)
        BY DEF Count
    <2> HIDE DEF I, J
    <2> QED BY <2>2, <2>3, <2>4
<1>4. ASSUME NEW first, NEW last, NoneBehind(q, first, last),
             a \in last => \A x \in Elements(q) : x \notin first
      PROVE  NoneBehind(r, first, last)
    <2> SUFFICES ASSUME NEW i \in DOMAIN r, NEW j \in DOMAIN r, i < j, r[i] \in first
                 PROVE  r[j] \notin last
        BY DEF NoneBehind
    <2>1. i \in 1..n /\ r[i] = q[i]
        BY <1>1
    <2>2. CASE j \in 1..n
        BY <1>1, <1>4, <2>1, <2>2 DEF NoneBehind
    <2>3. CASE j = n + 1
        <3>1. r[j] = a /\ q[i] \in Elements(q)
            BY <1>1, <2>1, <2>3 DEF Elements
        <3> QED BY <1>4, <2>1, <3>1
    <2> QED BY <1>1, <2>2, <2>3
<1> QED BY <1>2, <1>3, <1>4 DEF r

\* What taking the first of a queue changes.
LEMMA QueueTail ==
    ASSUME NEW A, NEW q \in Seq(A), q # <<>>
    PROVE  /\ Tail(q) \in Seq(A) /\ Head(q) \in A
           /\ Elements(q) = Elements(Tail(q)) \cup {Head(q)}
           /\ \A set : /\ Count(q, set) =
                            Count(Tail(q), set) + (IF Head(q) \in set THEN 1 ELSE 0)
                       /\ Count(Tail(q), set) \in Nat
           /\ \A first, last :
                 NoneBehind(q, first, last) =>
                     /\ NoneBehind(Tail(q), first, last)
                     /\ Head(q) \in first => \A x \in Elements(Tail(q)) : x \notin last
<1> DEFINE r == Tail(q)
           n == Len(q)
<1>1. /\ n \in Nat \ {0} /\ DOMAIN q = 1..n
      /\ r \in Seq(A) /\ Len(r) = n - 1 /\ DOMAIN r = 1..(n - 1)
      /\ Head(q) = q[1] /\ \A i \in 1..(n - 1) : r[i] = q[i + 1]
      /\ Head(q) \in A
    BY HeadTailProperties, LenProperties, EmptySeq
<1> HIDE DEF r, n
<1>2. \A i \in 1..n : i = 1 \/ (i - 1 \in 1..(n - 1) /\ r[i - 1] = q[i])
    <2>1. ASSUME NEW i \in 1..n, i # 1
          PROVE  i - 1 \in 1..(n - 1) /\ (i - 1) + 1 = i
        BY <1>1, <2>1
    <2> QED BY <1>1, <2>1
<1>3. \A i \in 1..(n - 1) : i + 1 \in 1..n /\ i + 1 # 1
    BY <1>1
<1>4. Elements(q) = Elements(r) \cup {Head(q)}
    <2>1. 1 \in 1..n
        BY <1>1
    <2>2. \A x \in Elements(q) : x \in Elements(r) \cup {Head(q)}
        BY <1>1, <1>2 DEF Elements
    <2>3. \A x \in Elements(r) \cup {Head(q)} : x \in Elements(q)
        BY <1>1, <1>3, <2>1 DEF Elements
    <2> QED BY <2>2, <2>3
<1>5. ASSUME NEW set
      PROVE  /\ Count(q, set) = Count(r, set) + (IF Head(q) \in set THEN 1 ELSE 0)
             /\ Count(r, set) \in Nat
    <2> DEFINE I == {i \in DOMAIN q : q[i] \in set}
               J == {i \in DOMAIN r : r[i] \in set}
               K == I \ {1}
               f == [i \in J |-> i + 1]
    <2>1. IsFiniteSet(J)
        <3>1. IsFiniteSet(1..(n - 1)) /\ J \subseteq 1..(n - 1)
            BY <1>1, FS_Interval
        <3> HIDE DEF J
        <3> QED BY <3>1, FS_Subset
    <2>2. f \in Bijection(J, K)
        <3>1. \A i \in J : i + 1 \in K
            BY <1>1, <1>3
        <3>2. \A i \in K : i - 1 \in J /\ (i - 1) + 1 = i
            BY <1>1, <1>2
        <3>3. \A i, j \in J : i + 1 = j + 1 => i = j
            BY <1>1
        <3> HIDE DEF J, K
        <3>4. f \in [J -> K] /\ (\A i, j \in J : f[i] = f[j] => i = j)
            BY <3>1, <3>3
        <3>5. \A i \in K : \E j \in J : f[j] = i
            BY <3>2
        <3> QED BY <3>4, <3>5 DEF Bijection, Injection, Surjection, IsInjective
    <2>3. IsFiniteSet(K) /\ Cardinality(K) = Cardinality(J) /\ Cardinality(J) \in Nat
        <3> HIDE DEF J, K, f
        <3>1. ExistsBijection(J, K)
            BY <2>2 DEF ExistsBijection
        <3> QED BY <2>1, <2>2, <3>1, FS_Bijection, FS_CardinalityType
    <2>4. I = IF Head(q) \in set THEN K \cup {1} ELSE K
        BY <1>1
    <2>5. Cardinality(K \cup {1}) = Cardinality(K) + 1
        <3>1. 1 \notin K
            OBVIOUS
        <3> HIDE DEF K
        <3> QED BY <2>3, <3>1, FS_AddElement
    <2>6. Count(q, set) = Cardinality(I) /\ Count(r, set) = Cardinality(J)
        BY DEF Count
    <2> HIDE DEF I, J, K
    <2> QED BY <2>3, <2>4, <2>5, <2>6
<1>6. ASSUME NEW first, NEW last, NoneBehind(q, first, last)
      PROVE  /\ NoneBehind(r, first, last)
             /\ Head(q) \in first => \A x \in Elements(r) : x \notin last
    <2>1. NoneBehind(r, first, last)
        <3> SUFFICES ASSUME NEW i \in DOMAIN r, NEW j \in DOMAIN r, i < j, r[i] \in first
                     PROVE  r[j] \notin last
            BY DEF NoneBehind
        <3>1. i + 1 \in DOMAIN q /\ j + 1 \in DOMAIN q /\ i + 1 < j + 1
            BY <1>1, <1>3
        <3>2. q[i + 1] = r[i] /\ q[j + 1] = r[j]
            BY <1>1
        <3> QED BY <1>6, <3>1, <3>2 DEF NoneBehind
    <2>2. ASSUME Head(q) \in first, NEW i \in DOMAIN r PROVE r[i] \notin last
        <3>1. 1 \in DOMAIN q /\ i + 1 \in DOMAIN q /\ 1 < i + 1 /\ q[i + 1] = r[i]
            BY <1>1, <1>3
        <3> QED BY <1>1, <1>6, <2>2, <3>1 DEF NoneBehind
    <2> QED BY <2>1, <2>2 DEF Elements
<1> QED BY <1>1, <1>4, <1>5, <1>6 DEF r
=============================================================================
