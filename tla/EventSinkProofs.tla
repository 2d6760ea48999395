-------------------------- MODULE EventSinkProofs --------------------------
(***************************************************************************)
(* Proofs about EventSink: its type invariant, that no connected stream    *)
(* skips an event, and that it implements the abstract log of EventLog,    *)
(* for any writers, clients, filters, budgets and batches.                 *)
(*                                                                         *)
(* What a sequence of numbers holds (Elems) and that it ascends (Sorted)   *)
(* are all the proofs need of the queues, pages and buffers.  The lemmas   *)
(* on the operators come first, then the inductive invariant, one lemma    *)
(* for each action, and the theorems.                                      *)
(***************************************************************************)
EXTENDS EventSink, TLAPS, WellFoundedInduction, SequenceTheorems

\* The sequence of numbers q ascends.
Sorted(q) == \A i, j \in 1..Len(q) : i < j => q[i] < q[j]

\* Induction over the naturals, as the least element of a set: the provers can use the
\* well-foundedness of < without instantiating a predicate.
LEMMA Least ==
    ASSUME NEW S \in SUBSET Nat, S # {}
    PROVE  \E n \in S : \A m \in S : n <= m
<1>1. PICK R : /\ IsWellFoundedOn(R, Nat)
               /\ \A x, y \in Nat : <<x, y>> \in R <=> x < y
  <2> DEFINE Less == {xy \in Nat \X Nat : xy[1] < xy[2]}
  <2>1. Less = OpToRel(<, Nat)
    BY Zenon DEF OpToRel
  <2>2. IsWellFoundedOn(Less, Nat)
    BY <2>1, NatLessThanWellFounded, Zenon
  <2>3. \A x, y \in Nat : <<x, y>> \in Less <=> x < y
    OBVIOUS
  <2> HIDE DEF Less
  <2> QED
    BY <2>2, <2>3, Zenon
<1>2. IsWellFoundedOn(R, Nat) /\ S \subseteq Nat
  BY <1>1
<1>3. PICK x \in S : \A y \in S : ~ (<<y, x>> \in R)
  BY <1>2, WFMin, Zenon
<1>4. \A y \in S : ~ (y < x)
  BY <1>1, <1>3, Zenon
<1> QED
  BY <1>4

\* Above(S) is the greatest element of S, or 0.
LEMMA AboveIs ==
    ASSUME NEW L \in Nat, NEW S \in SUBSET (1..L)
    PROVE  /\ Above(S) \in S \cup {0}
           /\ \A m \in S : m <= Above(S)
<1> DEFINE T == {k \in Nat : \A m \in S : m <= k}
<1>1. L \in T
  OBVIOUS
<1>2. PICK k \in T : \A m \in T : k <= m
  <2>1. T \in SUBSET Nat /\ T # {}
    BY <1>1
  <2> QED
    BY <2>1, Least
<1>3. k \in S \cup {0}
  <2> SUFFICES ASSUME k # 0, k \notin S PROVE FALSE
    OBVIOUS
  <2>1. k - 1 \in Nat /\ \A m \in S : m <= k - 1
    BY <1>2
  <2> QED
    BY <1>2, <2>1
<1>4. \E n \in S \cup {0} : \A m \in S : m <= n
  BY <1>2, <1>3
<1> QED
  BY <1>4 DEF Above

\* The recursive function that Keep is built from exists, and so unfolds.
LEMMA KeepUnfolds ==
    ASSUME NEW S, NEW q \in Seq(Nat)
    PROVE  \E f : /\ f = [i \in 0..Len(q) |->
                            IF i = 0 THEN <<>>
                            ELSE IF q[i] \in S THEN Append(f[i - 1], q[i]) ELSE f[i - 1]]
                  /\ Keep(q, S) = f[Len(q)]
<1> DEFINE Extend(f, i) == IF i = 0 THEN <<>>
                         ELSE IF q[i] \in S THEN Append(f[i - 1], q[i]) ELSE f[i - 1]
           Upto(f, n) == f = [i \in 0..n |-> Extend(f, i)]
           Bad == {n \in 0..Len(q) : ~ \E f : Upto(f, n)}
<1>1. Bad = {}
  <2> SUFFICES ASSUME Bad # {} PROVE FALSE
    OBVIOUS
  <2>1. Len(q) \in Nat /\ Bad \in SUBSET Nat
    OBVIOUS
  <2>2. PICK n \in Bad : \A m \in Bad : n <= m
    <3> HIDE DEF Bad
    <3> QED
      BY <2>1, Least
  <2>3. CASE n = 0
    <3>1. Upto([i \in 0..0 |-> <<>>], 0)
      OBVIOUS
    <3> QED
      BY <2>2, <2>3, <3>1
  <2>4. CASE n # 0
    <3>1. n \in Nat \ {0} /\ n <= Len(q)
      BY <2>2, <2>4
    <3>2. PICK f : Upto(f, n - 1)
      <4>1. n - 1 \in 0..Len(q) /\ n - 1 \notin Bad
        <5> HIDE DEF Bad
        <5> QED
          BY <2>2, <3>1
      <4> HIDE DEF Upto
      <4> QED
        BY <4>1
    <3> DEFINE g == [i \in 0..n |-> IF i = n THEN Extend(f, n) ELSE f[i]]
    <3>3. \A j \in 0..n - 1 : g[j] = f[j]
      BY <3>1
    <3>4. \A j \in 0..n - 1 : f[j] = Extend(f, j)
      BY <3>1, <3>2
    <3>5. g[n] = Extend(f, n)
      BY <3>1
    <3>6. ASSUME NEW j \in 0..n PROVE g[j] = Extend(g, j)
      <4>1. CASE j = n
        BY <3>1, <3>3, <3>5, <4>1
      <4>2. CASE j < n
        BY <3>1, <3>3, <3>4, <4>2
      <4> QED
        BY <4>1, <4>2, <3>1
    <3>7. g = [i \in 0..n |-> g[i]]
      OBVIOUS
    <3>8. Upto(g, n)
      BY <3>6, <3>7, Zenon
    <3> HIDE DEF g, Upto
    <3> QED
      BY <2>2, <3>8
  <2> QED
    BY <2>3, <2>4
<1>2. \E f : Upto(f, Len(q))
  BY <1>1
<1>3. PICK f : f = CHOOSE g : Upto(g, Len(q))
  OBVIOUS
<1>4. Upto(f, Len(q))
  BY <1>2, <1>3
<1>5. Keep(q, S) = f[Len(q)]
  BY <1>3 DEF Keep
<1> QED
  BY <1>4, <1>5

\* Membership in Elems.
LEMMA InElems ==
    \A q, x : x \in Elems(q) <=> \E i \in 1..Len(q) : x = q[i]
BY DEF Elems

\* Keep(q, S) holds the elements of q in S, and keeps their order.
LEMMA KeepIs ==
    ASSUME NEW S, NEW q \in Seq(Nat)
    PROVE  /\ Keep(q, S) \in Seq(Nat)
           /\ Elems(Keep(q, S)) = Elems(q) \cap S
           /\ Len(Keep(q, S)) <= Len(q)
           /\ Sorted(q) => Sorted(Keep(q, S))
<1>1. PICK f : /\ f = [i \in 0..Len(q) |->
                         IF i = 0 THEN <<>>
                         ELSE IF q[i] \in S THEN Append(f[i - 1], q[i]) ELSE f[i - 1]]
               /\ Keep(q, S) = f[Len(q)]
  BY KeepUnfolds
<1> DEFINE Good(i) == /\ f[i] \in Seq(Nat)
                      /\ Len(f[i]) <= i
                      /\ Elems(f[i]) = {q[j] : j \in 1..i} \cap S
                      /\ Sorted(q) => Sorted(f[i])
           Bad == {i \in 0..Len(q) : ~ Good(i)}
<1>2. Len(q) \in Nat /\ \A j \in 1..Len(q) : q[j] \in Nat
  OBVIOUS
<1>3. \A i \in 0..Len(q) :
          f[i] = IF i = 0 THEN <<>>
                 ELSE IF q[i] \in S THEN Append(f[i - 1], q[i]) ELSE f[i - 1]
  BY <1>1, Zenon
<1>4. f[0] = <<>> /\ Good(0)
  BY <1>1, <1>2 DEF Elems, Sorted
<1>5. ASSUME NEW i \in 1..Len(q), Good(i - 1) PROVE Good(i)
  <2>1. i \in Nat /\ i - 1 \in 0..Len(q) /\ q[i] \in Nat
    BY <1>2
  <2>2. {q[j] : j \in 1..i} = {q[j] : j \in 1..i - 1} \cup {q[i]}
    BY <2>1
  <2>3. CASE q[i] \notin S
    <3>1. f[i] = f[i - 1]
      BY <1>3, <1>2, <2>1, <2>3
    <3> QED
      BY <1>5, <2>1, <2>2, <2>3, <3>1
  <2>4. CASE q[i] \in S
    <3>1. i \in 0..Len(q) /\ i # 0
      BY <1>2
    <3> DEFINE p == f[i - 1]
               r == f[i]
    <3>2. r = Append(p, q[i])
      BY <1>3, <3>1, <2>4, Zenon
    <3>3. p \in Seq(Nat) /\ Len(p) <= i - 1 /\ Elems(p) = {q[j] : j \in 1..i - 1} \cap S
      BY <1>5
    <3>4. /\ r \in Seq(Nat)
          /\ Len(r) = Len(p) + 1
          /\ r[Len(p) + 1] = q[i]
          /\ \A k \in 1..Len(p) : r[k] = p[k]
      BY <2>1, <3>2, <3>3
    <3>5. Sorted(q) => Sorted(p)
      BY <1>5
    <3> HIDE DEF p, r
    <3>6. Elems(r) = Elems(p) \cup {q[i]}
      <4>1. \A k \in 1..Len(r) : k \in 1..Len(p) \/ k = Len(p) + 1
        BY <3>3, <3>4
      <4>2. Elems(r) \subseteq Elems(p) \cup {q[i]}
        <5> SUFFICES ASSUME NEW k \in 1..Len(r) PROVE r[k] \in Elems(p) \cup {q[i]}
          BY DEF Elems
        <5>1. CASE k \in 1..Len(p)
          BY <5>1, <3>4 DEF Elems
        <5> QED
          BY <5>1, <4>1, <3>4
      <4>3. Elems(p) \cup {q[i]} \subseteq Elems(r)
        <5>1. r[Len(p) + 1] \in Elems(r)
          BY <3>3, <3>4 DEF Elems
        <5>2. ASSUME NEW k \in 1..Len(p) PROVE p[k] \in Elems(r)
          <6>1. k \in 1..Len(r) /\ p[k] = r[k]
            BY <3>3, <3>4
          <6> QED
            BY <6>1 DEF Elems
        <5>3. Elems(p) \subseteq Elems(r)
          BY <5>2 DEF Elems
        <5> QED
          BY <5>1, <5>3, <3>4
      <4> QED
        BY <4>2, <4>3
    <3>7. ASSUME Sorted(q) PROVE Sorted(r)
      <4>1. \A k \in 1..Len(p) : p[k] < q[i]
        <5> SUFFICES ASSUME NEW k \in 1..Len(p) PROVE p[k] < q[i]
          OBVIOUS
        <5>1. PICK j \in 1..i - 1 : p[k] = q[j]
          BY <3>3 DEF Elems
        <5> QED
          BY <5>1, <3>7, <2>1, <1>2 DEF Sorted
      <4>2. SUFFICES ASSUME NEW k \in 1..Len(r), NEW m \in 1..Len(r), k < m
                     PROVE  r[k] < r[m]
        BY DEF Sorted
      <4>3. Len(p) \in Nat
        BY <3>3
      <4>4. k \in 1..Len(p) /\ r[k] = p[k]
        <5>1. k \in 1..Len(p)
          BY <4>3, <4>2, <3>4
        <5> QED
          BY <5>1, <3>4
      <4>5. CASE m = Len(p) + 1
        BY <4>1, <4>4, <4>5, <3>4
      <4>6. CASE m \in 1..Len(p)
        BY <4>2, <4>4, <4>6, <3>4, <3>5, <3>7 DEF Sorted
      <4> QED
        BY <4>5, <4>6, <3>3, <3>4
    <3>8. Elems(r) = {q[j] : j \in 1..i} \cap S
      BY <3>3, <3>6, <2>2, <2>4
    <3>9. Len(r) <= i
      BY <3>3, <3>4, <2>1
    <3> QED
      BY <3>4, <3>7, <3>8, <3>9 DEF r
  <2> QED
    BY <2>3, <2>4
<1>6. Bad = {}
  <2> SUFFICES ASSUME Bad # {} PROVE FALSE
    OBVIOUS
  <2>1. Bad \in SUBSET Nat
    BY <1>2
  <2>2. PICK i \in Bad : \A m \in Bad : i <= m
    <3> HIDE DEF Bad
    <3> QED
      BY <2>1, Least
  <2>3. i \in 0..Len(q) /\ ~ Good(i)
    OBVIOUS
  <2> HIDE DEF Good
  <2>4. i # 0
    BY <1>4, <2>3
  <2>5. i \in 1..Len(q) /\ i - 1 \in 0..Len(q) /\ i - 1 < i
    BY <2>3, <2>4, <1>2
  <2>6. i - 1 \notin Bad
    <3> HIDE DEF Bad
    <3> QED
      BY <2>2, <2>5
  <2> QED
    BY <2>3, <2>5, <2>6, <1>5
<1>7. Good(Len(q))
  <2> HIDE DEF Good
  <2> QED
    BY <1>2, <1>6
<1>8. Elems(q) = {q[j] : j \in 1..Len(q)}
  BY DEF Elems
<1> QED
  BY <1>1, <1>7, <1>8

\* The empty sequence, and the elements of a sequence of numbers.
LEMMA ElemsFacts ==
    /\ Elems(<<>>) = {} /\ Sorted(<<>>)
    /\ \A q \in Seq(Nat) : Elems(q) \in SUBSET Nat /\ (Elems(q) = {} <=> q = <<>>)
<1>1. Elems(<<>>) = {} /\ Sorted(<<>>)
  BY DEF Elems, Sorted
<1>2. ASSUME NEW q \in Seq(Nat)
      PROVE  Elems(q) \in SUBSET Nat /\ (Elems(q) = {} <=> q = <<>>)
  <2>1. Len(q) \in Nat /\ \A i \in 1..Len(q) : q[i] \in Nat
    OBVIOUS
  <2>2. q # <<>> => q[1] \in Elems(q)
    BY InElems
  <2>3. Elems(q) \subseteq Nat
    BY <2>1, InElems
  <2> QED
    BY <2>2, <2>3, <1>1
<1> QED
  BY <1>1, <1>2

\* Concatenation.
LEMMA Joined ==
    ASSUME NEW p \in Seq(Nat), NEW q \in Seq(Nat)
    PROVE  /\ p \o q \in Seq(Nat)
           /\ Len(p \o q) = Len(p) + Len(q)
           /\ Elems(p \o q) = Elems(p) \cup Elems(q)
           /\ Sorted(p) /\ Sorted(q) /\ (\A x \in Elems(p), y \in Elems(q) : x < y)
                => Sorted(p \o q)
<1> DEFINE r == p \o q
<1>1. /\ r \in Seq(Nat) /\ Len(r) = Len(p) + Len(q)
      /\ \A i \in 1..Len(p) : r[i] = p[i]
      /\ \A i \in Len(p) + 1..Len(p) + Len(q) : r[i] = q[i - Len(p)]
      /\ Len(p) \in Nat /\ Len(q) \in Nat
  OBVIOUS
<1>2. \A i \in 1..Len(q) : r[Len(p) + i] = q[i]
  BY <1>1
<1> HIDE DEF r
<1>3. Elems(r) = Elems(p) \cup Elems(q)
  <2>1. Elems(r) \subseteq Elems(p) \cup Elems(q)
    <3> SUFFICES ASSUME NEW i \in 1..Len(r) PROVE r[i] \in Elems(p) \cup Elems(q)
      BY DEF Elems
    <3>1. CASE i <= Len(p)
      <4>1. i \in 1..Len(p) /\ r[i] = p[i]
        BY <1>1, <3>1
      <4> QED
        BY <4>1 DEF Elems
    <3>2. CASE i > Len(p)
      <4>1. i - Len(p) \in 1..Len(q) /\ r[i] = q[i - Len(p)]
        BY <1>1, <3>2
      <4> QED
        BY <4>1 DEF Elems
    <3> QED
      BY <3>1, <3>2, <1>1
  <2>2. Elems(p) \subseteq Elems(r)
    BY <1>1 DEF Elems
  <2>3. Elems(q) \subseteq Elems(r)
    <3> SUFFICES ASSUME NEW i \in 1..Len(q) PROVE q[i] \in Elems(r)
      BY DEF Elems
    <3>1. Len(p) + i \in 1..Len(r) /\ r[Len(p) + i] = q[i]
      BY <1>1, <1>2
    <3> QED
      BY <3>1 DEF Elems
  <2> QED
    BY <2>1, <2>2, <2>3
<1>4. ASSUME Sorted(p), Sorted(q), \A x \in Elems(p), y \in Elems(q) : x < y
      PROVE  Sorted(r)
  <2> SUFFICES ASSUME NEW i \in 1..Len(r), NEW j \in 1..Len(r), i < j PROVE r[i] < r[j]
    BY DEF Sorted
  <2>1. CASE j <= Len(p)
    <3>1. i \in 1..Len(p) /\ j \in 1..Len(p)
      BY <2>1, <1>1
    <3>2. r[i] = p[i] /\ r[j] = p[j]
      BY <3>1, <1>1
    <3> QED
      BY <3>1, <3>2, <1>4 DEF Sorted
  <2>2. CASE i > Len(p)
    <3>1. i - Len(p) \in 1..Len(q) /\ j - Len(p) \in 1..Len(q) /\ i - Len(p) < j - Len(p)
      BY <2>2, <1>1
    <3>2. i \in Len(p) + 1..Len(p) + Len(q) /\ j \in Len(p) + 1..Len(p) + Len(q)
      BY <2>2, <1>1
    <3>3. r[i] = q[i - Len(p)] /\ r[j] = q[j - Len(p)]
      BY <3>2, <1>1
    <3> QED
      BY <3>1, <3>3, <1>4 DEF Sorted
  <2>3. CASE i <= Len(p) /\ j > Len(p)
    <3>1. r[i] \in Elems(p)
      BY <2>3, <1>1 DEF Elems
    <3>2. j - Len(p) \in 1..Len(q) /\ r[j] = q[j - Len(p)]
      BY <2>3, <1>1
    <3> QED
      BY <3>1, <3>2, <1>4 DEF Elems
  <2> QED
    BY <2>1, <2>2, <2>3, <1>1
<1> QED
  BY <1>1, <1>3, <1>4 DEF r

\* The head and the tail of a sequence.
LEMMA Split ==
    ASSUME NEW q \in Seq(Nat), q # <<>>
    PROVE  /\ Head(q) \in Nat /\ Tail(q) \in Seq(Nat) /\ Len(Tail(q)) = Len(q) - 1
           /\ SubSeq(q, 1, 1) = <<Head(q)>>
           /\ Elems(q) = {Head(q)} \cup Elems(Tail(q))
           /\ Sorted(q) => Sorted(Tail(q)) /\ \A y \in Elems(Tail(q)) : Head(q) < y
<1> DEFINE r == Tail(q)
<1>1. /\ Len(q) \in Nat \ {0} /\ r \in Seq(Nat) /\ Len(r) = Len(q) - 1
      /\ Head(q) = q[1] /\ q[1] \in Nat
      /\ \A i \in 1..Len(r) : r[i] = q[i + 1]
  OBVIOUS
<1>2. SubSeq(q, 1, 1) = <<q[1]>>
  <2>1. 1 \in Int /\ \A i \in 1..1 : q[i] \in Nat
    BY <1>1
  <2>2. /\ SubSeq(q, 1, 1) \in Seq(Nat) /\ Len(SubSeq(q, 1, 1)) = 1
        /\ SubSeq(q, 1, 1)[1] = q[1]
    BY <1>1
  <2>3. /\ <<q[1]>> \in Seq(Nat) /\ Len(<<q[1]>>) = 1 /\ <<q[1]>>[1] = q[1]
    BY <1>1
  <2>4. \A i \in 1..Len(SubSeq(q, 1, 1)) : SubSeq(q, 1, 1)[i] = <<q[1]>>[i]
    BY <2>2, <2>3
  <2> QED
    BY <2>2, <2>3, <2>4, SeqEqual
<1> HIDE DEF r
<1>3. \A i \in 2..Len(q) : i - 1 \in 1..Len(r) /\ r[i - 1] = q[i]
  BY <1>1
<1>4. Elems(q) = {q[1]} \cup Elems(r)
  <2>1. Elems(q) \subseteq {q[1]} \cup Elems(r)
    <3> SUFFICES ASSUME NEW i \in 1..Len(q), i # 1 PROVE q[i] \in Elems(r)
      BY DEF Elems
    <3>1. i \in 2..Len(q)
      BY <1>1
    <3> QED
      BY <3>1, <1>3 DEF Elems
  <2>2. {q[1]} \cup Elems(r) \subseteq Elems(q)
    BY <1>1 DEF Elems
  <2> QED
    BY <2>1, <2>2
<1>5. ASSUME Sorted(q) PROVE Sorted(r) /\ \A y \in Elems(r) : q[1] < y
  <2>1. ASSUME NEW i \in 1..Len(r) PROVE i + 1 \in 1..Len(q) /\ r[i] = q[i + 1] /\ 1 < i + 1
    BY <1>1
  <2>2. 1 \in 1..Len(q)
    BY <1>1
  <2>3. ASSUME NEW i \in 1..Len(r), NEW j \in 1..Len(r), i < j PROVE r[i] < r[j]
    <3>1. i + 1 < j + 1
      BY <2>3
    <3>2. q[i + 1] < q[j + 1]
      BY <3>1, <2>1, <1>5 DEF Sorted
    <3> QED
      BY <3>2, <2>1
  <2>4. ASSUME NEW i \in 1..Len(r) PROVE q[1] < r[i]
    <3>1. q[1] < q[i + 1]
      BY <2>2, <2>1, <1>5 DEF Sorted
    <3> QED
      BY <3>1, <2>1
  <2> QED
    BY <2>3, <2>4 DEF Elems, Sorted
<1> QED
  BY <1>1, <1>2, <1>4, <1>5 DEF r

\* A sequence of one.
LEMMA Single ==
    ASSUME NEW n \in Nat
    PROVE  /\ <<n>> \in Seq(Nat) /\ Len(<<n>>) = 1
           /\ Elems(<<n>>) = {n} /\ Sorted(<<n>>) /\ <<n>> # <<>> /\ Head(<<n>>) = n
BY DEF Elems, Sorted

\* The first k of a sorted sequence: what follows is greater.
LEMMA Prefix ==
    ASSUME NEW q \in Seq(Nat), Sorted(q), NEW k \in 0..Len(q)
    PROVE  LET p == SubSeq(q, 1, k) IN
           /\ p \in Seq(Nat) /\ Len(p) = k /\ Sorted(p) /\ Elems(p) \subseteq Elems(q)
           /\ p = <<>> <=> k = 0
           /\ k = Len(q) => Elems(p) = Elems(q)
           /\ k # 0 => /\ p[k] \in Elems(p)
                       /\ \A x \in Elems(p) : x <= p[k]
                       /\ \A x \in Elems(q) : x <= p[k] => x \in Elems(p)
<1> DEFINE p == SubSeq(q, 1, k)
<1>1. /\ p \in Seq(Nat) /\ Len(p) = k /\ k \in Nat /\ Len(q) \in Nat
      /\ \A i \in 1..k : p[i] = q[i] /\ q[i] \in Nat
      /\ \A i \in 1..Len(q) : q[i] \in Nat
  OBVIOUS
<1> HIDE DEF p
<1>2. Sorted(p) /\ Elems(p) \subseteq Elems(q) /\ (k = Len(q) => Elems(p) = Elems(q))
  <2>1. \A i \in 1..Len(p) : i \in 1..Len(q) /\ p[i] = q[i]
    BY <1>1
  <2>2. Sorted(p)
    BY <2>1, <1>1 DEF Sorted
  <2>3. Elems(p) \subseteq Elems(q)
    BY <2>1 DEF Elems
  <2>4. k = Len(q) => Elems(q) \subseteq Elems(p)
    BY <1>1 DEF Elems
  <2> QED
    BY <2>2, <2>3, <2>4
<1>3. p = <<>> <=> k = 0
  BY <1>1
<1>4. ASSUME k # 0
      PROVE  /\ p[k] \in Elems(p)
             /\ \A x \in Elems(p) : x <= p[k]
             /\ \A x \in Elems(q) : x <= p[k] => x \in Elems(p)
  <2>1. p[k] \in Elems(p)
    BY <1>1, <1>4 DEF Elems
  <2>2. ASSUME NEW i \in 1..k PROVE p[i] <= p[k]
    BY <1>1, <1>2, <1>4 DEF Sorted
  <2>3. ASSUME NEW i \in 1..Len(q), q[i] <= p[k] PROVE i <= k
    BY <1>1, <1>4, <2>3 DEF Sorted
  <2>4. ASSUME NEW i \in 1..Len(q), q[i] <= p[k] PROVE q[i] \in Elems(p)
    BY <2>3, <2>4, <1>1 DEF Elems
  <2>5. \A x \in Elems(p) : x <= p[k]
    BY <2>2, <1>1 DEF Elems
  <2>6. \A x \in Elems(q) : x <= p[k] => x \in Elems(p)
    <3> SUFFICES ASSUME NEW i \in 1..Len(q), q[i] <= p[k] PROVE q[i] \in Elems(p)
      BY DEF Elems
    <3> QED
      BY <2>4
  <2> QED
    BY <2>1, <2>5, <2>6
<1> QED
  BY <1>1, <1>2, <1>3, <1>4 DEF p
-----------------------------------------------------------------------------
(***************************************************************************)
(* The inductive invariant.                                                *)
(***************************************************************************)
StreamType ==
    [pc : {"off", "opening", "replaying", "live", "failed"}, through : Nat, high : Nat,
     pos : Nat, page : Seq(Nat), last : BOOLEAN, buffer : Seq(Nat), inflight : Seq(Nat),
     charge : Nat]

SinkType ==
    /\ log \in Seq(Kinds \cup {Project})
    /\ conn \in Writers \cup {Nobody}
    /\ lane \in Writers \cup {Nobody}
    /\ wpc \in [Writers -> {"idle", "writing", "committing", "publishing"}]
    /\ batch \in [Writers -> Batches \cup {<<>>}]
    /\ stored \in [Writers -> Seq(Nat)]
    /\ todo \in [Writers -> SUBSET Hubs]
    /\ cursor \in [Subscribers -> Nat]
    /\ queue \in [Subscribers -> Seq(Nat)]
    /\ stream \in [Subscribers -> StreamType]
    /\ drops \in Nat

\* The connection is held from the start of a transaction to its end, and the lane from
\* before the commit to the end of the publication.
Held ==
    \A w \in Writers : /\ conn = w <=> wpc[w] \in {"writing", "committing"}
                       /\ lane = w <=> wpc[w] \in {"committing", "publishing"}

\* What a writer has to publish is in the log, in ascending order, and only the holder of
\* the lane has anything to publish.
Publication ==
    \A w \in Writers : /\ wpc[w] # "publishing" => todo[w] = {}
                       /\ Sorted(stored[w])
                       /\ Elems(stored[w]) \subseteq 1..Len(log)

(***************************************************************************)
(* What holds of one stream, in terms of the length L of the log, the set  *)
(* A of the events its client asked for, the client's cursor c, its queue  *)
(* q, the rest t of the stream and the events u still to be published to   *)
(* its hub.                                                                *)
(***************************************************************************)
Asked(s) == {n \in 1..Len(log) : log[n] \in Wants[s]}

\* The live events on their way.
Ahead(q, t, u) == Elems(t.buffer) \cup Elems(q) \cup u

Numbered(L, c, q, t, u) ==
    /\ c <= L /\ t.through <= L /\ t.high <= L /\ t.pos <= L
    /\ Elems(t.page) \subseteq 1..L
    /\ Elems(t.inflight) \subseteq 1..L
    /\ Ahead(q, t, u) \subseteq 1..L

\* Each part of the stream ascends, and the live events ascend from part to part.
Ordered(q, t, u) ==
    /\ Sorted(q) /\ Sorted(t.page) /\ Sorted(t.buffer) /\ Sorted(t.inflight)
    /\ \A x \in Elems(t.buffer), y \in Elems(q) : x < y
    /\ \A x \in Elems(t.buffer) \cup Elems(q), y \in u : x < y

\* What each phase of a stream leaves empty.
Phased(q, t) ==
    /\ t.pc = "off" => t = Closed
    /\ t.pc \in {"off", "failed"} => q = <<>>
    /\ t.pc = "failed" => t.page = <<>> /\ t.buffer = <<>>
    /\ t.pc = "opening" => t.page = <<>> /\ t.inflight = <<>> /\ t.charge = 0 /\ ~t.last
    /\ t.pc = "live" => t.page = <<>>

\* What a bounded stream retains fits the budget, what it has handed out included.
Budgeted(s, t) ==
    /\ t.charge <= Budget
    /\ s \in Bounded => /\ Len(t.inflight) <= t.charge
                        /\ Len(t.buffer) + t.charge <= Budget
    /\ s \notin Bounded => t.buffer = <<>>

\* What has been handed out is what comes next: no event asked for lies between the
\* cursor and the end of it that is not part of it.
HandedOut(A, c, t) ==
    /\ Elems(t.inflight) \subseteq A
    /\ \A x \in Elems(t.inflight) :
          /\ c < x
          /\ \A n \in A : c < n /\ n <= x => n \in Elems(t.inflight)

\* A replay has read all that was asked for up to its position, and reads on to the mark.
Replayed(A, c, t) ==
    t.pc = "replaying" =>
        /\ c <= t.pos /\ t.pos <= t.through /\ t.high <= t.through
        /\ t.through = t.high \/ t.pos = t.through
        /\ Elems(t.page) \subseteq A
        /\ \A x \in Elems(t.page) :
              /\ c < x /\ x <= t.pos
              /\ \A y \in Elems(t.inflight) : y < x
        /\ \A x \in Elems(t.inflight) : x <= t.pos
        /\ \A n \in A : c < n /\ n <= t.pos => n \in Elems(t.inflight) \cup Elems(t.page)
        /\ t.last => \A n \in A : ~ (t.pos < n /\ n <= t.through)

\* Beyond the replay, every event asked for is among the live events on their way, and
\* they come after all that has been handed out.
Tailed(A, c, q, t, u) ==
    /\ Elems(t.buffer) \subseteq A
    /\ t.pc = "opening" => c <= t.through /\ \A n \in A : ~ (c < n /\ n <= t.through)
    /\ t.pc = "replaying" => \A n \in A : n > t.through => n \in Ahead(q, t, u)
    /\ t.pc = "live" =>
          /\ \A n \in A : c < n =>
                n > t.through /\ n \in Elems(t.inflight) \cup Ahead(q, t, u)
          /\ \A y \in Ahead(q, t, u) : y > t.through =>
                c < y /\ \A x \in Elems(t.inflight) : x < y

Sound(s, L, A, c, q, t, u) ==
    /\ Numbered(L, c, q, t, u)
    /\ Ordered(q, t, u)
    /\ Phased(q, t)
    /\ Budgeted(s, t)
    /\ HandedOut(A, c, t)
    /\ Replayed(A, c, t)
    /\ Tailed(A, c, q, t, u)

StreamInv(s) ==
    Sound(s, Len(log), Asked(s), cursor[s], queue[s], stream[s], Unpublished(s))

SinkInv ==
    /\ SinkType
    /\ Held
    /\ Publication
    /\ \A s \in Subscribers : StreamInv(s)

-----------------------------------------------------------------------------
(***************************************************************************)
(* Initial states, and what a step leaves alone.                           *)
(***************************************************************************)
LEMMA SinkAssumed ==
    /\ Nobody \notin Writers
    /\ Budget \in Nat \ {0}
    /\ PageSize \in Nat \ {0}
    /\ MaxDrops \in Nat
    /\ Batches \in SUBSET Seq(Kinds \cup {Project})
    /\ \A b \in Batches \cup {<<>>} : b \in Seq(Kinds \cup {Project})
    /\ \A s \in Subscribers : HubOf[s] \in Hubs
<1>1. \A b \in Seq(Kinds) : b \in Seq(Kinds \cup {Project})
  BY SeqMonotonic
<1>2. <<Project>> \in Seq(Kinds \cup {Project}) /\ <<>> \in Seq(Kinds \cup {Project})
  OBVIOUS
<1> QED
  BY <1>1, <1>2, SinkAssumption DEF SinkAssumption

\* The fields of a closed stream.
LEMMA ClosedIs ==
    /\ Closed \in StreamType
    /\ Closed.pc = "off" /\ Closed.through = 0 /\ Closed.high = 0 /\ Closed.pos = 0
    /\ Closed.page = <<>> /\ Closed.last = FALSE /\ Closed.buffer = <<>>
    /\ Closed.inflight = <<>> /\ Closed.charge = 0
BY DEF Closed, StreamType

\* A closed stream is sound whatever the cursor, the log and what is being published.
LEMMA ClosedSound ==
    ASSUME NEW s, NEW L \in Nat, NEW A, NEW c \in Nat, c <= L,
           NEW u \in SUBSET (1..L)
    PROVE  Sound(s, L, A, c, <<>>, Closed, u)
<1> USE ClosedIs, ElemsFacts
<1>1. Numbered(L, c, <<>>, Closed, u)
  <2>1. Ahead(<<>>, Closed, u) \subseteq 1..L
    BY DEF Ahead
  <2>2. Elems(Closed.page) = {} /\ Elems(Closed.inflight) = {}
    OBVIOUS
  <2> QED
    BY <2>1, <2>2 DEF Numbered
<1>2. Ordered(<<>>, Closed, u)
  BY DEF Ordered
<1>3. Phased(<<>>, Closed)
  BY DEF Phased
<1>4. Budgeted(s, Closed)
  BY SinkAssumed DEF Budgeted
<1>5. HandedOut(A, c, Closed) /\ Replayed(A, c, Closed) /\ Tailed(A, c, <<>>, Closed, u)
  BY DEF HandedOut, Replayed, Tailed
<1> QED
  BY <1>1, <1>2, <1>3, <1>4, <1>5 DEF Sound

\* Nothing is written, nothing is subscribed.
LEMMA InitSound == Init => SinkInv
<1> SUFFICES ASSUME Init PROVE SinkInv
  OBVIOUS
<1>1. SinkType
  BY SinkAssumed, ClosedIs DEF Init, SinkType
<1>2. Held /\ Publication
  BY SinkAssumed, ElemsFacts DEF Init, Held, Publication
<1>3. ASSUME NEW s \in Subscribers PROVE StreamInv(s)
  <2>1. Unpublished(s) = {} /\ Len(log) = 0
    BY DEF Init, Unpublished
  <2>2. cursor[s] = 0 /\ queue[s] = <<>> /\ stream[s] = Closed
    BY DEF Init
  <2> QED
    BY <2>1, <2>2, ClosedSound DEF StreamInv
<1> QED
  BY <1>1, <1>2, <1>3 DEF SinkInv

\* A stream stays sound when nothing of it changes.
LEMMA Untouched ==
    ASSUME NEW s \in Subscribers, StreamInv(s), log' = log, cursor'[s] = cursor[s],
           queue'[s] = queue[s], stream'[s] = stream[s], Unpublished(s)' = Unpublished(s)
    PROVE  StreamInv(s)'
BY DEF StreamInv, Asked

\* The parts of a stream, with their types.
LEMMA StreamParts ==
    ASSUME SinkInv, NEW s \in Subscribers
    PROVE  /\ Len(log) \in Nat /\ cursor[s] \in Nat /\ queue[s] \in Seq(Nat)
           /\ stream[s] \in StreamType
           /\ Sound(s, Len(log), Asked(s), cursor[s], queue[s], stream[s], Unpublished(s))
           /\ Asked(s) \subseteq 1..Len(log)
           /\ Unpublished(s) \subseteq 1..Len(log)
           /\ drops \in Nat
<1>1. Unpublished(s) \subseteq 1..Len(log)
  BY DEF SinkInv, StreamInv, Sound, Numbered, Ahead
<1> QED
  BY <1>1 DEF SinkInv, SinkType, StreamInv, Asked

\* The fields of a stream.
LEMMA StreamFields ==
    ASSUME NEW t \in StreamType
    PROVE  /\ t.pc \in {"off", "opening", "replaying", "live", "failed"}
           /\ t.through \in Nat /\ t.high \in Nat /\ t.pos \in Nat /\ t.charge \in Nat
           /\ t.page \in Seq(Nat) /\ t.buffer \in Seq(Nat) /\ t.inflight \in Seq(Nat)
           /\ t.last \in BOOLEAN
BY DEF StreamType

\* A step of one stream leaves the writers and the other streams alone.
LEMMA StreamStep ==
    ASSUME SinkInv, NEW s \in Subscribers, UNCHANGED <<log, writing>>, drops' \in Nat,
           NEW c \in Nat, NEW q \in Seq(Nat), NEW t \in StreamType,
           cursor' = [cursor EXCEPT ![s] = c],
           queue' = [queue EXCEPT ![s] = q],
           stream' = [stream EXCEPT ![s] = t],
           Sound(s, Len(log), Asked(s), c, q, t, Unpublished(s))
    PROVE  SinkInv'
<1>1. SinkType'
  BY DEF SinkInv, SinkType, writing
<1>2. Held' /\ Publication'
  BY DEF SinkInv, writing, Held, Publication
<1>3. \A r \in Subscribers : Unpublished(r)' = Unpublished(r)
  BY DEF writing, Unpublished
<1>4. ASSUME NEW r \in Subscribers, r # s PROVE StreamInv(r)'
  BY <1>3, <1>4, Untouched DEF SinkInv, SinkType
<1>5. cursor'[s] = c /\ queue'[s] = q /\ stream'[s] = t
  BY DEF SinkInv, SinkType
<1>6. StreamInv(s)'
  BY <1>3, <1>5 DEF StreamInv, Asked
<1> QED
  BY <1>1, <1>2, <1>4, <1>6 DEF SinkInv

\* What a step of s leaves as it was.
LEMMA Same ==
    ASSUME SinkInv, NEW s \in Subscribers
    PROVE  /\ cursor = [cursor EXCEPT ![s] = cursor[s]]
           /\ queue = [queue EXCEPT ![s] = queue[s]]
           /\ stream = [stream EXCEPT ![s] = stream[s]]
BY DEF SinkInv, SinkType

-----------------------------------------------------------------------------
(***************************************************************************)
(* Writers.                                                                *)
(***************************************************************************)
\* Steps that neither commit nor publish change nothing a stream can see.
LEMMA QuietWriterKeeps ==
    ASSUME SinkInv, NEW w \in Writers,
           Begin(w) \/ Abandon(w) \/ TakeLane(w) \/ CommitFails(w) \/ Finish(w)
    PROVE  SinkInv'
<1> USE DEF reading
<1>1. SinkType'
  <2> USE SinkAssumed DEF SinkInv, SinkType
  <2>1. CASE Begin(w)
    BY <2>1 DEF Begin
  <2>2. CASE Abandon(w)
    BY <2>2 DEF Abandon
  <2>3. CASE TakeLane(w)
    BY <2>3 DEF TakeLane
  <2>4. CASE CommitFails(w)
    BY <2>4 DEF CommitFails
  <2>5. CASE Finish(w)
    BY <2>5, EmptySeq DEF Finish
  <2> QED
    BY <2>1, <2>2, <2>3, <2>4, <2>5
<1>2. Held'
  <2> USE SinkAssumed DEF SinkInv, SinkType, Held
  <2>1. CASE Begin(w)
    BY <2>1 DEF Begin
  <2>2. CASE Abandon(w)
    BY <2>2 DEF Abandon
  <2>3. CASE TakeLane(w)
    BY <2>3 DEF TakeLane
  <2>4. CASE CommitFails(w)
    BY <2>4 DEF CommitFails
  <2>5. CASE Finish(w)
    BY <2>5 DEF Finish
  <2> QED
    BY <2>1, <2>2, <2>3, <2>4, <2>5
<1>3. Publication'
  BY ElemsFacts DEF SinkInv, SinkType, Publication, Begin, Abandon, TakeLane, CommitFails, Finish
<1>4. ASSUME NEW s \in Subscribers PROVE StreamInv(s)'
  <2>1. /\ log' = log /\ todo' = todo
        /\ \A v \in Writers : todo[v] # {} => stored'[v] = stored[v]
    BY DEF SinkInv, SinkType, Begin, Abandon, TakeLane, CommitFails, Finish
  <2>2. Unpublished(s)' = Unpublished(s)
    BY <2>1 DEF Unpublished
  <2>3. cursor' = cursor /\ queue' = queue /\ stream' = stream
    BY DEF Begin, Abandon, TakeLane, CommitFails, Finish
  <2> QED
    BY <2>1, <2>2, <2>3, Untouched DEF SinkInv
<1> QED
  BY <1>1, <1>2, <1>3, <1>4 DEF SinkInv
\* The log grows by events that are all to be published to the hub of the stream, if the
\* client asked for them.
LEMMA LogGrows ==
    ASSUME NEW s, NEW L \in Nat, NEW M \in Nat, L <= M, NEW A \in SUBSET (1..L), NEW B,
           A \subseteq B, NEW c \in Nat, NEW q \in Seq(Nat), NEW t \in StreamType,
           NEW u \in SUBSET (L + 1..M), B \ A \subseteq u, Sound(s, L, A, c, q, t, {})
    PROVE  Sound(s, M, B, c, q, t, u)
<1>1. \A n \in B : n \in Nat /\ (n \in A \/ (n \in u /\ n > L))
  OBVIOUS
<1>2. /\ t.page \in Seq(Nat) /\ t.buffer \in Seq(Nat) /\ t.inflight \in Seq(Nat)
      /\ t.through \in Nat /\ t.high \in Nat /\ t.pos \in Nat
  BY DEF StreamType
<1>3. Ahead(q, t, u) = Ahead(q, t, {}) \cup u
  BY DEF Ahead
<1>4. Numbered(L, c, q, t, {}) /\ Numbered(M, c, q, t, u)
  <2>1. Numbered(L, c, q, t, {})
    BY DEF Sound
  <2>2. (\A n \in 1..L : n \in 1..M) /\ \A n \in u : n \in 1..M
    OBVIOUS
  <2>3. Elems(t.page) \subseteq 1..M /\ Elems(t.inflight) \subseteq 1..M
        /\ Ahead(q, t, u) \subseteq 1..M
    BY <2>1, <2>2, <1>3 DEF Numbered
  <2> QED
    BY <2>1, <2>3, <1>2 DEF Numbered
<1>5. Ordered(q, t, u)
  <2>1. \A x \in Elems(t.buffer) \cup Elems(q) : x \in 1..L
    BY <1>4 DEF Numbered, Ahead
  <2> QED
    BY <2>1 DEF Sound, Ordered
<1>6. Phased(q, t) /\ Budgeted(s, t)
  BY DEF Sound
<1>7. HandedOut(B, c, t)
  <2>1. \A x \in Elems(t.inflight) : x \in 1..L
    BY <1>4 DEF Numbered
  <2> QED
    BY <2>1, <1>1 DEF Sound, HandedOut
<1>8. Replayed(B, c, t)
  <2>1. t.pos <= L /\ t.through <= L
    BY <1>4 DEF Numbered
  <2>2. ASSUME t.pc = "replaying", NEW n \in B, n <= t.pos \/ n <= t.through PROVE n \in A
    BY <2>1, <2>2, <1>1, <1>2
  <2> QED
    BY <2>2, <1>2 DEF Sound, Replayed
<1>9. Tailed(B, c, q, t, u)
  <2>1. t.through <= L /\ \A x \in Elems(t.inflight) : x \in 1..L
    BY <1>4 DEF Numbered
  <2>2. Tailed(A, c, q, t, {}) /\ c <= L
    BY <1>4 DEF Sound, Numbered
  <2>3. Elems(t.buffer) \subseteq B
    BY <2>2 DEF Tailed
  <2>4. t.pc = "opening" => c <= t.through /\ \A n \in B : ~ (c < n /\ n <= t.through)
    <3>1. \A n \in B : n <= t.through => n \in A
      BY <2>1, <1>1, <1>2
    <3> QED
      BY <2>2, <3>1 DEF Tailed
  <2>5. t.pc = "replaying" => \A n \in B : n > t.through => n \in Ahead(q, t, u)
    BY <2>2, <1>1, <1>3 DEF Tailed
  <2>6. ASSUME t.pc = "live", NEW n \in B, c < n
        PROVE  n > t.through /\ n \in Elems(t.inflight) \cup Ahead(q, t, u)
    BY <2>1, <2>2, <2>6, <1>1, <1>2, <1>3 DEF Tailed
  <2>7. ASSUME t.pc = "live", NEW y \in Ahead(q, t, u), y > t.through
        PROVE  c < y /\ \A x \in Elems(t.inflight) : x < y
    BY <2>1, <2>2, <2>7, <1>3 DEF Tailed
  <2> QED
    BY <2>3, <2>4, <2>5, <2>6, <2>7 DEF Tailed
<1> QED
  BY <1>4, <1>5, <1>6, <1>7, <1>8, <1>9 DEF Sound

\* The hub hands the stream what it carries of a publication.
LEMMA HubDelivers ==
    ASSUME NEW s, NEW L \in Nat, NEW A, NEW c \in Nat, NEW q \in Seq(Nat),
           NEW t \in StreamType, NEW u, Sound(s, L, A, c, q, t, u),
           t.pc \in {"opening", "replaying", "live"},
           NEW p \in Seq(Nat), Sorted(p), Elems(p) \subseteq u, A \cap u \subseteq Elems(p)
    PROVE  Sound(s, L, A, c, q \o p, t, {})
<1>1. Elems(q \o p) = Elems(q) \cup Elems(p) /\ q \o p \in Seq(Nat)
  BY Joined
<1>2. Ahead(q \o p, t, {}) \subseteq Ahead(q, t, u)
      /\ A \cap Ahead(q, t, u) \subseteq Ahead(q \o p, t, {})
  BY <1>1 DEF Ahead
<1>3. Numbered(L, c, q \o p, t, {})
  BY <1>2 DEF Sound, Numbered
<1>4. Ordered(q \o p, t, {})
  <2>1. Sorted(q \o p)
    BY Joined DEF Sound, Ordered
  <2> QED
    BY <2>1, <1>1 DEF Sound, Ordered
<1>5. Phased(q \o p, t)
  BY DEF Sound, Phased
<1>6. Tailed(A, c, q \o p, t, {})
  BY <1>2 DEF Sound, Tailed
<1> QED
  BY <1>3, <1>4, <1>5, <1>6 DEF Sound

\* A stream that is not subscribed misses the publication.
LEMMA HubPasses ==
    ASSUME NEW s, NEW L, NEW A, NEW c, NEW q, NEW t, NEW u, Sound(s, L, A, c, q, t, u),
           t.pc \notin {"opening", "replaying", "live"}
    PROVE  Sound(s, L, A, c, q, t, {})
BY DEF Sound, Numbered, Ordered, Tailed, Ahead

\* Only the holder of the lane has anything to publish.
LEMMA OnePublisher ==
    ASSUME SinkInv, NEW w \in Writers, wpc[w] \in {"committing", "publishing"}
    PROVE  /\ \A v \in Writers \ {w} : todo[v] = {}
           /\ wpc[w] = "committing" => todo[w] = {}
BY DEF SinkInv, SinkType, Held, Publication

\* Commit: the new events are beyond all that is under way, and all unpublished.
LEMMA CommitKeeps ==
    ASSUME SinkInv, NEW w \in Writers, Commit(w)
    PROVE  SinkInv'
<1> USE DEF reading
<1> DEFINE b == batch[w]
           L == Len(log)
           new == [i \in 1..Len(b) |-> L + i]
<1>1. /\ b \in Seq(Kinds \cup {Project}) /\ b \in Batches \cup {<<>>} /\ L \in Nat /\ Len(b) \in Nat
      /\ log' = log \o b /\ log' \in Seq(Kinds \cup {Project}) /\ Len(log') = L + Len(b)
      /\ \A n \in 1..L : log'[n] = log[n]
      /\ \A n \in L + 1..L + Len(b) : log'[n] = b[n - L]
  BY SinkAssumed DEF SinkInv, SinkType, Commit
<1>2. new \in Seq(Nat) /\ Len(new) = Len(b) /\ \A i \in 1..Len(b) : new[i] = L + i
  BY <1>1
<1>3. Sorted(new) /\ Elems(new) = L + 1..L + Len(b)
  <2>1. Sorted(new)
    BY <1>1, <1>2 DEF Sorted
  <2>2. Elems(new) \subseteq L + 1..L + Len(b)
    <3> SUFFICES ASSUME NEW i \in 1..Len(b) PROVE new[i] \in L + 1..L + Len(b)
      BY <1>2 DEF Elems
    <3> QED
      BY <1>1, <1>2
  <2>3. ASSUME NEW n \in L + 1..L + Len(b) PROVE n \in Elems(new)
    <3>1. n - L \in 1..Len(new) /\ new[n - L] = n
      BY <1>1, <1>2
    <3> QED
      BY <3>1 DEF Elems
  <2> QED
    BY <2>1, <2>2, <2>3
<1>4. stored' = [stored EXCEPT ![w] = new] /\ todo' = [todo EXCEPT ![w] = HubsOf(b)]
  BY DEF Commit
<1> HIDE DEF b, new
<1>5. SinkType'
  <2>1. HubsOf(b) \subseteq Hubs
    BY DEF HubsOf, Hubs
  <2> QED
    BY <2>1, <1>1, <1>2, <1>4 DEF SinkInv, SinkType, Commit
<1>6. Held'
  BY SinkAssumed DEF SinkInv, SinkType, Held, Commit
<1>7. Publication'
  <2>1. \A v \in Writers \ {w} : stored'[v] = stored[v] /\ todo'[v] = todo[v] /\ wpc'[v] = wpc[v]
    BY <1>4 DEF SinkInv, SinkType, Commit
  <2>2. stored'[w] = new /\ wpc'[w] = "publishing"
    BY <1>4 DEF SinkInv, SinkType, Commit
  <2>3. \A n \in 1..L : n \in 1..Len(log')
    BY <1>1
  <2>4. \A n \in L + 1..L + Len(b) : n \in 1..Len(log')
    BY <1>1
  <2> QED
    BY <2>1, <2>2, <2>3, <2>4, <1>3 DEF SinkInv, Publication
<1>8. ASSUME NEW s \in Subscribers PROVE StreamInv(s)'
  <2>1. Unpublished(s) = {}
    BY OnePublisher DEF Commit, Unpublished
  <2>2. Unpublished(s)' = IF HubOf[s] \in HubsOf(b) THEN Elems(new) ELSE {}
    <3>1. \A v \in Writers : HubOf[s] \in todo'[v] => v = w /\ HubOf[s] \in HubsOf(b)
      BY OnePublisher, <1>4 DEF SinkInv, SinkType, Commit
    <3>2. todo'[w] = HubsOf(b) /\ stored'[w] = new
      BY <1>4 DEF SinkInv, SinkType
    <3> QED
      BY <3>1, <3>2 DEF Unpublished
  <2>3. Asked(s) \subseteq Asked(s)'
    BY <1>1 DEF Asked
  <2>4. ASSUME NEW n \in Asked(s)', n \notin Asked(s)
        PROVE  n \in L + 1..L + Len(b) /\ b[n - L] \in Wants[s] /\ n - L \in 1..Len(b)
    BY <2>4, <1>1 DEF Asked
  <2>5. Asked(s)' \ Asked(s) \subseteq Unpublished(s)'
    <3> SUFFICES ASSUME NEW n \in Asked(s)', n \notin Asked(s)
                 PROVE  n \in Unpublished(s)'
      OBVIOUS
    <3>1. b # <<>>
      BY <2>4
    <3>2. CASE b = <<Project>>
      <4>1. Project \in Wants[s]
        BY <2>4, <3>2
      <4>2. HubOf[s] = "application"
        BY <4>1, SinkAssumption DEF SinkAssumption
      <4> QED
        BY <4>2, <3>2, <2>2, <2>4, <1>3 DEF HubsOf
    <3>3. CASE b # <<Project>>
      BY <3>1, <3>3, <2>2, <2>4, <1>3, SinkAssumed DEF HubsOf
    <3> QED
      BY <3>2, <3>3
  <2>6. Unpublished(s)' \subseteq L + 1..L + Len(b)
    BY <2>2, <1>3
  <2>7. cursor' = cursor /\ queue' = queue /\ stream' = stream
    BY DEF Commit
  <2>8. Asked(s) \subseteq 1..L
    BY DEF Asked
  <2>9. Sound(s, L, Asked(s), cursor[s], queue[s], stream[s], {})
    BY <2>1 DEF SinkInv, StreamInv
  <2>10. cursor[s] \in Nat /\ queue[s] \in Seq(Nat) /\ stream[s] \in StreamType
    BY DEF SinkInv, SinkType
  <2>11. L + Len(b) \in Nat /\ L <= L + Len(b)
    BY <1>1
  <2> HIDE DEF L
  <2>12. Sound(s, L + Len(b), Asked(s)', cursor[s], queue[s], stream[s], Unpublished(s)')
    BY <2>3, <2>5, <2>6, <2>8, <2>9, <2>10, <2>11, <1>1, LogGrows
  <2> QED
    BY <2>12, <2>7, <1>1 DEF StreamInv
<1> QED
  BY <1>5, <1>6, <1>7, <1>8 DEF SinkInv
\* A hub carries every published event that a subscriber of it asked for.
LEMMA CarriedByHub ==
    ASSUME SinkInv, NEW s \in Subscribers, NEW w \in Writers
    PROVE  LET p == OnHub(HubOf[s], stored[w]) IN
           /\ p \in Seq(Nat) /\ Sorted(p) /\ Elems(p) \subseteq Elems(stored[w])
           /\ Asked(s) \cap Elems(stored[w]) \subseteq Elems(p)
<1> DEFINE h == HubOf[s]
           C == {n \in 1..Len(log) : h \in {"application", "all"} \/ log[n] = h}
<1>1. stored[w] \in Seq(Nat) /\ Sorted(stored[w])
  BY DEF SinkInv, SinkType, Publication
<1>2. OnHub(h, stored[w]) = Keep(stored[w], C)
  BY DEF OnHub
<1>3. Asked(s) \subseteq C
  BY SinkAssumption DEF SinkAssumption, Asked
<1> HIDE DEF C
<1> QED
  BY <1>1, <1>2, <1>3, KeepIs

\* Publish: what was unpublished moves to the queues of the streams of the hub.
LEMMA PublishKeeps ==
    ASSUME SinkInv, NEW w \in Writers, NEW h \in Hubs, Publish(w, h)
    PROVE  SinkInv'
<1>1. SinkType'
  <2>1. \A s \in Subscribers : HubOf[s] = h => queue[s] \o OnHub(h, stored[w]) \in Seq(Nat)
    BY CarriedByHub DEF SinkInv, SinkType
  <2>2. queue' \in [Subscribers -> Seq(Nat)]
    BY <2>1 DEF SinkInv, SinkType, Publish
  <2> QED
    BY <2>2 DEF SinkInv, SinkType, Publish
<1>2. Held'
  BY DEF SinkInv, Held, Publish
<1>3. Publication'
  BY DEF SinkInv, SinkType, Publication, Publish
<1>4. ASSUME NEW s \in Subscribers PROVE StreamInv(s)'
  <2>1. /\ log' = log /\ cursor' = cursor /\ stream' = stream /\ stored' = stored
        /\ todo' = [todo EXCEPT ![w] = todo[w] \ {h}] /\ h \in todo[w] /\ wpc[w] = "publishing"
    BY DEF Publish
  <2>2. \A v \in Writers : todo[v] # {} => v = w
    BY <2>1, OnePublisher
  <2>3. todo'[w] = todo[w] \ {h} /\ \A v \in Writers : v # w => todo'[v] = {}
    BY <2>1, <2>2 DEF SinkInv, SinkType
  <2>4. CASE HubOf[s] # h
    <3>1. Unpublished(s)' = Unpublished(s)
      BY <2>1, <2>2, <2>3, <2>4 DEF Unpublished
    <3>2. queue'[s] = queue[s]
      BY <2>4 DEF SinkInv, SinkType, Publish
    <3> QED
      BY <2>1, <3>1, <3>2, Untouched DEF SinkInv
  <2>5. CASE HubOf[s] = h
    <3>1. Unpublished(s) = Elems(stored[w])
      BY <2>1, <2>2, <2>5 DEF Unpublished
    <3>2. Unpublished(s)' = {}
      BY <2>3, <2>5 DEF Unpublished
    <3>3. /\ cursor[s] \in Nat /\ queue[s] \in Seq(Nat) /\ stream[s] \in StreamType
          /\ Len(log) \in Nat
          /\ Sound(s, Len(log), Asked(s), cursor[s], queue[s], stream[s], Unpublished(s))
      BY DEF SinkInv, SinkType, StreamInv
    <3>4. Asked(s)' = Asked(s)
      BY <2>1 DEF Asked
    <3>5. CASE Subscribed(s)
      <4>1. queue'[s] = queue[s] \o OnHub(h, stored[w])
        BY <2>5, <3>5 DEF Publish
      <4>2. Sound(s, Len(log), Asked(s), cursor[s], queue[s] \o OnHub(h, stored[w]), stream[s], {})
        BY <2>5, <3>1, <3>3, <3>5, CarriedByHub, HubDelivers DEF Subscribed
      <4> QED
        BY <2>1, <3>2, <3>4, <4>1, <4>2 DEF StreamInv
    <3>6. CASE ~ Subscribed(s)
      <4>1. queue'[s] = queue[s]
        BY <3>6 DEF Publish
      <4>2. Sound(s, Len(log), Asked(s), cursor[s], queue[s], stream[s], {})
        BY <3>3, <3>6, HubPasses DEF Subscribed
      <4> QED
        BY <2>1, <3>2, <3>4, <4>1, <4>2 DEF StreamInv
    <3> QED
      BY <3>5, <3>6
  <2> QED
    BY <2>4, <2>5
<1> QED
  BY <1>1, <1>2, <1>3, <1>4 DEF SinkInv

\* Every step of a writer.
LEMMA WriterKeeps ==
    ASSUME SinkInv, NEW w \in Writers, Writer(w)
    PROVE  SinkInv'
BY QuietWriterKeeps, CommitKeeps, PublishKeeps DEF Writer, Advance

\* Crash: every stream is closed, and nothing is left to publish.
LEMMA CrashKeeps ==
    ASSUME SinkInv, Crash
    PROVE  SinkInv'
<1>1. SinkType'
  BY SinkAssumed, ClosedIs, EmptySeq DEF SinkInv, SinkType, Crash
<1>2. Held' /\ Publication'
  BY SinkAssumed, ElemsFacts DEF Held, Publication, Crash
<1>3. ASSUME NEW s \in Subscribers PROVE StreamInv(s)'
  <2>1. /\ log' = log /\ cursor'[s] = cursor[s] /\ queue'[s] = <<>> /\ stream'[s] = Closed
        /\ Unpublished(s)' = {}
    BY DEF Crash, Unpublished
  <2>2. Len(log) \in Nat /\ cursor[s] \in Nat /\ cursor[s] <= Len(log)
    BY DEF SinkInv, SinkType, StreamInv, Sound, Numbered
  <2> QED
    BY <2>1, <2>2, ClosedSound DEF StreamInv
<1> QED
  BY <1>1, <1>2, <1>3 DEF SinkInv
-----------------------------------------------------------------------------
(***************************************************************************)
(* Streams.                                                                *)
(***************************************************************************)
\* A stream may start at its client's cursor, or beyond it if nothing the client asked for
\* lies between the two.
LEMMA OpenKeeps ==
    ASSUME SinkInv, NEW s \in Subscribers, NEW a \in Nat, cursor[s] <= a, a <= Len(log),
           \A n \in Asked(s) : ~ (cursor[s] < n /\ n <= a),
           Open(s, a)
    PROVE  SinkInv'
<1> DEFINE L == Len(log)
           A == Asked(s)
           c == cursor[s]
           q == queue[s]
           u == Unpublished(s)
           t == [Closed EXCEPT !.pc = "opening", !.through = a]
<1> USE StreamParts, Same
<1>1. /\ t \in StreamType /\ t.pc = "opening" /\ t.through = a /\ t.high = 0 /\ t.pos = 0
      /\ t.page = <<>> /\ t.last = FALSE /\ t.buffer = <<>> /\ t.inflight = <<>> /\ t.charge = 0
  BY ClosedIs DEF StreamType
<1>2. q = <<>>
  BY DEF Sound, Phased, Open
<1>3. stream' = [stream EXCEPT ![s] = t]
  BY DEF Open
<1> HIDE DEF t
<1>4. Numbered(L, c, q, t, u)
  <2>1. Ahead(q, t, u) = u /\ Elems(t.page) = {} /\ Elems(t.inflight) = {}
    BY <1>1, <1>2, ElemsFacts DEF Ahead
  <2> QED
    BY <1>1, <2>1 DEF Sound, Numbered
<1>5. Ordered(q, t, u) /\ Phased(q, t)
  BY <1>1, <1>2, ElemsFacts DEF Ordered, Phased
<1>6. Budgeted(s, t)
  BY <1>1, SinkAssumed DEF Budgeted
<1>7. HandedOut(A, c, t) /\ Replayed(A, c, t) /\ Tailed(A, c, q, t, u)
  BY <1>1, ElemsFacts DEF HandedOut, Replayed, Tailed
<1>8. Sound(s, L, A, c, q, t, u)
  BY <1>4, <1>5, <1>6, <1>7 DEF Sound
<1>9. /\ UNCHANGED <<log, writing>> /\ drops' \in Nat
      /\ cursor' = [cursor EXCEPT ![s] = c] /\ queue' = [queue EXCEPT ![s] = q]
  BY DEF Open
<1> QED
  BY <1>1, <1>3, <1>8, <1>9, StreamStep

\* The mark a replay reads to covers every event that the client asked for.
LEMMA HighWater ==
    ASSUME SinkInv, NEW s \in Subscribers
    PROVE  /\ latestSequence(s) \in 0..Len(log)
           /\ \A n \in Asked(s) : n <= latestSequence(s)
<1> USE StreamParts
<1>1. CASE HubOf[s] = "application"
  BY <1>1 DEF latestSequence
<1>2. CASE HubOf[s] # "application"
  <2> DEFINE S == {n \in 1..Len(log) : log[n] # Project}
  <2>1. latestSequence(s) = Above(S)
    BY <1>2 DEF latestSequence
  <2>2. Asked(s) \subseteq S
    BY <1>2, SinkAssumption DEF SinkAssumption, Asked
  <2>3. S \in SUBSET (1..Len(log))
    OBVIOUS
  <2> HIDE DEF S
  <2>4. Above(S) \in S \cup {0} /\ \A n \in S : n <= Above(S)
    BY <2>3, AboveIs
  <2>5. S \cup {0} \subseteq 0..Len(log)
    BY <2>3
  <2> QED
    BY <2>1, <2>2, <2>4, <2>5
<1> QED
  BY <1>1, <1>2

\* The mark is read after the hub was joined: what is beyond it is on its way.
LEMMA ReadHighWaterKeeps ==
    ASSUME SinkInv, NEW s \in Subscribers, ReadHighWater(s)
    PROVE  SinkInv'
<1> DEFINE L == Len(log)
           A == Asked(s)
           c == cursor[s]
           q == queue[s]
           u == Unpublished(s)
           t == stream[s]
           high == latestSequence(s)
           t2 == [t EXCEPT !.pc = "replaying", !.high = high,
                    !.through = IF high > @ THEN high ELSE @, !.pos = t.through]
<1> USE StreamParts, Same
<1>1. high \in Nat /\ high <= L /\ \A n \in A : n <= high
  BY HighWater
<1>2. stream' = [stream EXCEPT ![s] = t2] /\ t.pc = "opening"
  BY DEF ReadHighWater, SinkInv, SinkType
<1>3. /\ t2 \in StreamType /\ t2.pc = "replaying" /\ t2.high = high /\ t2.pos = t.through
      /\ t2.through = IF high > t.through THEN high ELSE t.through
      /\ t2.page = t.page /\ t2.last = t.last /\ t2.buffer = t.buffer
      /\ t2.inflight = t.inflight /\ t2.charge = t.charge
  BY <1>1 DEF StreamType
<1>4. t.page = <<>> /\ t.inflight = <<>> /\ t.last = FALSE
  BY <1>2, StreamFields DEF Sound, Phased
<1>5. c <= t.through /\ t.through <= L /\ t.through \in Nat
      /\ \A n \in A : ~ (c < n /\ n <= t.through)
  BY <1>2, StreamFields DEF Sound, Tailed, Numbered
<1> HIDE DEF t2, high
<1>6. Ahead(q, t2, u) = Ahead(q, t, u)
  BY <1>3 DEF Ahead
<1>7. Numbered(L, c, q, t2, u)
  BY <1>1, <1>3, <1>5, <1>6 DEF Sound, Numbered
<1>8. Ordered(q, t2, u) /\ Phased(q, t2) /\ Budgeted(s, t2)
  BY <1>2, <1>3 DEF Sound, Ordered, Phased, Budgeted
<1>9. HandedOut(A, c, t2)
  BY <1>3 DEF Sound, HandedOut
<1>10. Replayed(A, c, t2)
  BY <1>1, <1>3, <1>4, <1>5, ElemsFacts DEF Replayed
<1>11. Tailed(A, c, q, t2, u)
  <2>1. \A n \in A : ~ (n > t2.through)
    BY <1>1, <1>3, <1>5
  <2> QED
    BY <1>2, <1>3, <2>1 DEF Sound, Tailed
<1>12. Sound(s, L, A, c, q, t2, u)
  BY <1>7, <1>8, <1>9, <1>10, <1>11 DEF Sound
<1>13. /\ UNCHANGED <<log, writing>> /\ drops' \in Nat
       /\ cursor' = [cursor EXCEPT ![s] = c] /\ queue' = [queue EXCEPT ![s] = q]
  BY DEF ReadHighWater
<1> QED
  BY <1>2, <1>3, <1>12, <1>13, StreamStep
\* Acknowledge: the budget no longer counts what was handed out.
LEMMA AcknowledgeKeeps ==
    ASSUME SinkInv, NEW s \in Subscribers, Acknowledge(s)
    PROVE  SinkInv'
<1> DEFINE L == Len(log)
           A == Asked(s)
           c == cursor[s]
           q == queue[s]
           u == Unpublished(s)
           t == stream[s]
           t2 == [t EXCEPT !.charge = 0]
<1> USE StreamParts, Same
<1>1. stream' = [stream EXCEPT ![s] = t2] /\ t.inflight = <<>> /\ t.charge # 0
  BY StreamFields DEF Acknowledge
<1>2. /\ t2 \in StreamType /\ t2.pc = t.pc /\ t2.high = t.high /\ t2.pos = t.pos
      /\ t2.through = t.through /\ t2.page = t.page /\ t2.last = t.last
      /\ t2.buffer = t.buffer /\ t2.inflight = t.inflight /\ t2.charge = 0
  BY DEF StreamType
<1> HIDE DEF t2
<1>3. Ahead(q, t2, u) = Ahead(q, t, u)
  BY <1>2 DEF Ahead
<1>4. Phased(q, t2)
  BY <1>1, <1>2, ClosedIs DEF Sound, Phased
<1>5. Budgeted(s, t2)
  <2>1. Len(<<>>) = 0 /\ Len(t.buffer) \in Nat /\ t.charge \in Nat /\ Budget \in Nat
    BY SinkAssumed, StreamFields
  <2> QED
    BY <2>1, <1>1, <1>2 DEF Sound, Budgeted
<1>6. Sound(s, L, A, c, q, t2, u)
  BY <1>2, <1>3, <1>4, <1>5 DEF Sound, Numbered, Ordered, HandedOut, Replayed, Tailed
<1>7. /\ UNCHANGED <<log, writing>> /\ drops' \in Nat
      /\ cursor' = [cursor EXCEPT ![s] = c] /\ queue' = [queue EXCEPT ![s] = q]
  BY DEF Acknowledge
<1> QED
  BY <1>1, <1>2, <1>6, <1>7, StreamStep

\* A stream that overflows drops its page, its buffer and its subscription, and what has
\* been handed out is still what comes next.
LEMMA FailKeeps ==
    ASSUME SinkInv, NEW s \in Subscribers, stream[s].pc # "off", Fail(s),
           UNCHANGED <<log, writing, cursor, drops>>
    PROVE  SinkInv'
<1> DEFINE L == Len(log)
           A == Asked(s)
           c == cursor[s]
           q == queue[s]
           u == Unpublished(s)
           t == stream[s]
           t2 == [t EXCEPT !.pc = "failed", !.page = <<>>, !.buffer = <<>>]
<1> USE StreamParts, Same
<1>1. stream' = [stream EXCEPT ![s] = t2] /\ queue' = [queue EXCEPT ![s] = <<>>]
  BY DEF Fail, SinkInv, SinkType
<1>2. /\ t2 \in StreamType /\ t2.pc = "failed" /\ t2.high = t.high /\ t2.pos = t.pos
      /\ t2.through = t.through /\ t2.page = <<>> /\ t2.last = t.last
      /\ t2.buffer = <<>> /\ t2.inflight = t.inflight /\ t2.charge = t.charge
  <2>1. <<>> \in Seq(Nat)
    BY EmptySeq
  <2> QED
    BY <2>1 DEF StreamType
<1> HIDE DEF t2
<1>3. Ahead(<<>>, t2, u) = u /\ Elems(t2.page) = {}
  BY <1>2, ElemsFacts DEF Ahead
<1>4. Numbered(L, c, <<>>, t2, u)
  BY <1>2, <1>3 DEF Sound, Numbered
<1>5. Ordered(<<>>, t2, u) /\ Phased(<<>>, t2)
  BY <1>2, ElemsFacts DEF Sound, Ordered, Phased
<1>6. Budgeted(s, t2)
  <2>1. Len(<<>>) = 0 /\ Len(t.buffer) \in Nat /\ t.charge \in Nat /\ Budget \in Nat
    BY SinkAssumed, StreamFields
  <2> QED
    BY <2>1, <1>2 DEF Sound, Budgeted
<1>7. HandedOut(A, c, t2) /\ Replayed(A, c, t2)
  BY <1>2 DEF Sound, HandedOut, Replayed
<1>8. Tailed(A, c, <<>>, t2, u)
  BY <1>2, ElemsFacts DEF Tailed
<1>9. Sound(s, L, A, c, <<>>, t2, u)
  BY <1>4, <1>5, <1>6, <1>7, <1>8 DEF Sound
<1>10. /\ UNCHANGED <<log, writing>> /\ drops' \in Nat /\ <<>> \in Seq(Nat)
       /\ cursor' = [cursor EXCEPT ![s] = c]
  BY EmptySeq
<1> QED
  BY <1>1, <1>2, <1>9, <1>10, StreamStep

\* What a stream keeps of a sequence of events: those its client asked for, and those the
\* replay does not cover.
LEMMA WantedIs ==
    ASSUME SinkInv, NEW s \in Subscribers, NEW p \in Seq(Nat)
    PROVE  /\ Wanted(s, p) \in Seq(Nat) /\ Len(Wanted(s, p)) <= Len(p)
           /\ Elems(Wanted(s, p)) = Elems(p) \cap Asked(s)
           /\ Sorted(p) => Sorted(Wanted(s, p))
BY KeepIs DEF Wanted, Asked

\* BeyondReplay keeps what is beyond the replay.
LEMMA BeyondIs ==
    ASSUME SinkInv, NEW s \in Subscribers, NEW p \in Seq(Nat), Elems(p) \subseteq 1..Len(log)
    PROVE  /\ BeyondReplay(s, p) \in Seq(Nat) /\ Len(BeyondReplay(s, p)) <= Len(p)
           /\ Elems(BeyondReplay(s, p)) = {n \in Elems(p) : n > stream[s].through}
           /\ Sorted(p) => Sorted(BeyondReplay(s, p))
<1> DEFINE B == {n \in 1..Len(log) : n > stream[s].through}
<1>1. Elems(p) \cap B = {n \in Elems(p) : n > stream[s].through}
  OBVIOUS
<1> HIDE DEF B
<1>2. BeyondReplay(s, p) = Keep(p, B)
  BY DEF BeyondReplay, B
<1> QED
  BY <1>1, <1>2, KeepIs

\* Drain: an event of the queue moves to the buffer, or is covered by the replay.
LEMMA DrainKeeps ==
    ASSUME SinkInv, NEW s \in Subscribers, Drain(s)
    PROVE  SinkInv'
<1> DEFINE L == Len(log)
           A == Asked(s)
           c == cursor[s]
           q == queue[s]
           u == Unpublished(s)
           t == stream[s]
           n == Head(q)
           item == BeyondReplay(s, Wanted(s, SubSeq(q, 1, 1)))
           t2 == [t EXCEPT !.buffer = @ \o item]
<1> USE StreamParts, Same
<1>1. q # <<>> /\ s \in Bounded /\ t.pc \in {"opening", "replaying", "live"}
  BY StreamFields DEF Drain, Sound, Phased
<1>2. /\ n \in Nat /\ Tail(q) \in Seq(Nat) /\ SubSeq(q, 1, 1) = <<n>>
      /\ Elems(q) = {n} \cup Elems(Tail(q)) /\ Sorted(q)
      /\ Sorted(Tail(q)) /\ \A y \in Elems(Tail(q)) : n < y
  BY <1>1, Split DEF Sound, Ordered
<1>3. /\ item \in Seq(Nat) /\ Len(item) <= 1 /\ Sorted(item)
      /\ Elems(item) = {m \in {n} \cap A : m > t.through}
  <2> DEFINE w == Wanted(s, <<n>>)
  <2>1. w \in Seq(Nat) /\ Len(w) <= 1 /\ Elems(w) = {n} \cap A /\ Sorted(w)
    BY <1>2, Single, WantedIs
  <2>2. Elems(w) \subseteq 1..L
    BY <2>1
  <2>3. item = BeyondReplay(s, w)
    BY <1>2
  <2> HIDE DEF w, item, n
  <2>4. /\ item \in Seq(Nat) /\ Len(item) <= Len(w) /\ Sorted(item)
        /\ Elems(item) = {m \in Elems(w) : m > t.through}
    BY <2>1, <2>2, <2>3, BeyondIs
  <2>5. Len(item) <= 1
    BY <2>1, <2>4
  <2> QED
    BY <2>1, <2>4, <2>5
<1>4. CASE item # <<>> /\ ~ Fits(s)
  BY <1>1, <1>4, FailKeeps DEF Drain
<1>5. CASE ~ (item # <<>> /\ ~ Fits(s))
  <2>1. /\ stream' = [stream EXCEPT ![s] = t2] /\ queue' = [queue EXCEPT ![s] = Tail(q)]
        /\ UNCHANGED <<log, writing>> /\ drops' \in Nat /\ cursor' = [cursor EXCEPT ![s] = c]
    BY <1>5 DEF Drain, SinkInv, SinkType
  <2>2. /\ t.buffer \o item \in Seq(Nat) /\ Len(t.buffer \o item) = Len(t.buffer) + Len(item)
        /\ Elems(t.buffer \o item) = Elems(t.buffer) \cup Elems(item)
    BY <1>3, Joined, StreamFields
  <2>3. Sorted(t.buffer \o item)
    <3>1. \A x \in Elems(t.buffer), y \in Elems(item) : x < y
      BY <1>2, <1>3 DEF Sound, Ordered
    <3> QED
      BY <3>1, <1>3, Joined, StreamFields DEF Sound, Ordered
  <2>4. /\ t2 \in StreamType /\ t2.pc = t.pc /\ t2.high = t.high /\ t2.pos = t.pos
        /\ t2.through = t.through /\ t2.page = t.page /\ t2.last = t.last
        /\ t2.buffer = t.buffer \o item /\ t2.inflight = t.inflight /\ t2.charge = t.charge
    BY <2>2 DEF StreamType
  <2>5. Fits(s) \/ item = <<>>
    BY <1>5
  <2> HIDE DEF t2, item, n
  <2>6. /\ Ahead(Tail(q), t2, u) \subseteq Ahead(q, t, u)
        /\ \A m \in A : m > t.through /\ m \in Ahead(q, t, u) => m \in Ahead(Tail(q), t2, u)
    BY <1>2, <1>3, <2>2, <2>4 DEF Ahead
  <2>7. Numbered(L, c, Tail(q), t2, u)
    BY <2>4, <2>6 DEF Sound, Numbered
  <2>8. Ordered(Tail(q), t2, u)
    BY <1>2, <1>3, <2>2, <2>3, <2>4 DEF Sound, Ordered
  <2>9. Phased(Tail(q), t2)
    BY <1>1, <2>4 DEF Sound, Phased
  <2>10. Budgeted(s, t2)
    <3>1. /\ Len(t.buffer) \in Nat /\ Len(item) \in Nat /\ t.charge \in Nat /\ Budget \in Nat
          /\ item = <<>> => Len(item) = 0
      BY <1>3, SinkAssumed, StreamFields
    <3> QED
      BY <3>1, <1>1, <1>3, <2>2, <2>4, <2>5 DEF Sound, Budgeted, Fits
  <2>11. HandedOut(A, c, t2) /\ Replayed(A, c, t2)
    BY <2>4 DEF Sound, HandedOut, Replayed
  <2>12. Tailed(A, c, Tail(q), t2, u)
    <3>1. Elems(t2.buffer) \subseteq A
      BY <1>3, <2>2, <2>4 DEF Sound, Tailed
    <3> QED
      BY <3>1, <2>4, <2>6 DEF Sound, Tailed
  <2>13. Sound(s, L, A, c, Tail(q), t2, u)
    BY <2>7, <2>8, <2>9, <2>10, <2>11, <2>12 DEF Sound
  <2> QED
    BY <1>2, <2>1, <2>4, <2>13, StreamStep
<1> QED
  BY <1>4, <1>5
\* One page of the rows in R: the least of them, in order, and all of them if it is short.
LEMMA PageIs ==
    ASSUME SinkInv, NEW R \in SUBSET (1..Len(log))
    PROVE  LET rows == InOrder(R)
               page == SubSeq(rows, 1, IF Len(rows) < PageSize THEN Len(rows) ELSE PageSize)
               k == Len(page)
           IN /\ page \in Seq(Nat) /\ k \in Nat /\ PageSize \in Nat \ {0}
              /\ Sorted(page) /\ Elems(page) \subseteq R
              /\ page = <<>> <=> k = 0
              /\ k < PageSize => Elems(page) = R
              /\ k # 0 => /\ page[k] \in Elems(page)
                          /\ \A x \in Elems(page) : x <= page[k]
                          /\ \A x \in R : x <= page[k] => x \in Elems(page)
<1> DEFINE L == Len(log)
           rows == InOrder(R)
           k == IF Len(rows) < PageSize THEN Len(rows) ELSE PageSize
<1>1. L \in Nat
  BY DEF SinkInv, SinkType
<1>2. rows \in Seq(Nat) /\ Sorted(rows) /\ Elems(rows) = R
  <2> DEFINE all == [n \in 1..L |-> n]
  <2>1. all \in Seq(Nat) /\ Len(all) = L /\ Sorted(all)
    BY <1>1 DEF Sorted
  <2>2. Elems(all) = 1..L
    BY <2>1 DEF Elems
  <2>3. rows = Keep(all, R)
    BY DEF InOrder
  <2> HIDE DEF all, rows
  <2>4. rows \in Seq(Nat) /\ Sorted(rows) /\ Elems(rows) = Elems(all) \cap R
    BY <2>1, <2>3, KeepIs
  <2> QED
    BY <2>2, <2>4
<1>3. Len(rows) \in Nat /\ k \in 0..Len(rows) /\ (k < PageSize => k = Len(rows))
      /\ PageSize \in Nat \ {0}
  BY <1>2, SinkAssumed
<1> DEFINE page == SubSeq(rows, 1, k)
<1> HIDE DEF rows, k
<1>4. /\ page \in Seq(Nat) /\ Len(page) = k /\ Sorted(page) /\ Elems(page) \subseteq R
      /\ page = <<>> <=> k = 0
      /\ k < PageSize => Elems(page) = R
      /\ k # 0 => /\ page[k] \in Elems(page)
                  /\ \A x \in Elems(page) : x <= page[k]
                  /\ \A x \in R : x <= page[k] => x \in Elems(page)
  BY <1>2, <1>3, Prefix
<1>5. k \in Nat
  BY <1>3
<1> HIDE DEF page
<1>6. /\ page \in Seq(Nat) /\ Len(page) \in Nat /\ PageSize \in Nat \ {0}
      /\ Sorted(page) /\ Elems(page) \subseteq R
      /\ page = <<>> <=> Len(page) = 0
      /\ Len(page) < PageSize => Elems(page) = R
      /\ Len(page) # 0 => /\ page[Len(page)] \in Elems(page)
                          /\ \A x \in Elems(page) : x <= page[Len(page)]
                          /\ \A x \in R : x <= page[Len(page)] => x \in Elems(page)
  BY <1>3, <1>4, <1>5, Zenon
<1> QED
  BY <1>6, Zenon DEF page, k, rows

\* ReadPage: a page holds all that was asked for up to where the next one starts.
LEMMA ReadPageKeeps ==
    ASSUME SinkInv, NEW s \in Subscribers, ReadPage(s)
    PROVE  SinkInv' /\ stream[s].pos <= stream'[s].pos
<1> DEFINE L == Len(log)
           A == Asked(s)
           c == cursor[s]
           q == queue[s]
           u == Unpublished(s)
           t == stream[s]
           R == Rows(s)
           rows == InOrder(R)
           page == SubSeq(rows, 1, IF Len(rows) < PageSize THEN Len(rows) ELSE PageSize)
           k == Len(page)
           pos == IF page = <<>> THEN t.pos ELSE page[Len(page)]
           last == Len(page) < PageSize \/ page[Len(page)] >= t.high
           t2 == [t EXCEPT !.page = Wanted(s, page), !.pos = pos, !.last = last]
<1> USE StreamParts, Same
<1>1. /\ stream' = [stream EXCEPT ![s] = t2] /\ t.pc = "replaying" /\ t.page = <<>>
      /\ t.inflight = <<>> /\ ~ t.last
      /\ UNCHANGED <<log, writing>> /\ drops' \in Nat
      /\ cursor' = [cursor EXCEPT ![s] = c] /\ queue' = [queue EXCEPT ![s] = q]
  <2>1. stream' = [stream EXCEPT ![s].page = Wanted(s, page), ![s].pos = pos, ![s].last = last]
    BY Zenon DEF ReadPage
  <2> HIDE DEF page, pos, last
  <2>2. stream' = [stream EXCEPT ![s] = t2]
    BY <2>1 DEF SinkInv, SinkType
  <2> QED
    BY <2>2 DEF ReadPage, Pulling
<1>2. /\ t.pos \in Nat /\ t.high \in Nat /\ t.through \in Nat /\ t.through <= L
      /\ c <= t.pos /\ t.pos <= t.through /\ t.high <= t.through
      /\ t.through = t.high \/ t.pos = t.through
      /\ \A n \in A : ~ (c < n /\ n <= t.pos)
  BY <1>1, StreamFields, ElemsFacts DEF Sound, Numbered, Replayed
<1>3. /\ R \subseteq 1..L
      /\ \A n \in R : t.pos < n /\ n <= t.high
      /\ \A n \in A : t.pos < n /\ n <= t.high => n \in R
  BY DEF Rows, Asked
<1>4. /\ page \in Seq(Nat) /\ k \in Nat /\ PageSize \in Nat \ {0}
      /\ Sorted(page) /\ Elems(page) \subseteq R
      /\ page = <<>> <=> k = 0
      /\ k < PageSize => Elems(page) = R
      /\ k # 0 => /\ page[k] \in Elems(page)
                  /\ \A x \in Elems(page) : x <= page[k]
                  /\ \A x \in R : x <= page[k] => x \in Elems(page)
  BY <1>3, PageIs, Zenon
<1> HIDE DEF page
<1>5. /\ pos \in Nat /\ t.pos <= pos /\ pos <= t.through
      /\ \A x \in Elems(page) : x <= pos
      /\ \A x \in R : x <= pos => x \in Elems(page)
  <2>1. CASE k = 0
    <3>1. pos = t.pos /\ Elems(page) = {} /\ R = {}
      BY <2>1, <1>4, ElemsFacts
    <3> QED
      BY <3>1, <1>2
  <2>2. CASE k # 0
    <3>1. pos = page[k] /\ page[k] \in R
      BY <2>2, <1>4
    <3>2. t.pos < page[k] /\ page[k] <= t.high /\ page[k] \in Nat
      BY <3>1, <1>3
    <3> QED
      BY <2>2, <3>1, <3>2, <1>2, <1>4
  <2> QED
    BY <2>1, <2>2
<1>6. last \in BOOLEAN /\ (last => \A n \in A : ~ (pos < n /\ n <= t.through))
  <2>1. CASE k < PageSize
    <3>1. last = TRUE
      BY <2>1, <1>4
    <3>2. ASSUME NEW n \in A, pos < n, n <= t.through PROVE FALSE
      <4>1. n \in Nat /\ t.pos < n /\ n <= t.high
        BY <3>2, <1>2, <1>5
      <4>2. n \in Elems(page)
        BY <4>1, <2>1, <1>3, <1>4
      <4> QED
        BY <4>1, <4>2, <3>2, <1>5
    <3> QED
      BY <3>1, <3>2
  <2>2. CASE ~ (k < PageSize)
    <3>1. k # 0 /\ pos = page[k] /\ last = (pos >= t.high)
      BY <2>2, <1>4
    <3>2. ASSUME pos >= t.high, NEW n \in A, pos < n, n <= t.through PROVE FALSE
      BY <3>2, <1>2, <1>5
    <3> QED
      BY <3>1, <3>2, <1>2, <1>5
  <2> QED
    BY <2>1, <2>2
<1>7. /\ Wanted(s, page) \in Seq(Nat) /\ Sorted(Wanted(s, page))
      /\ Elems(Wanted(s, page)) = Elems(page) \cap A
  BY <1>4, WantedIs
<1> HIDE DEF last, pos
<1>8. /\ t2 \in StreamType /\ t2.pc = "replaying" /\ t2.high = t.high /\ t2.pos = pos
       /\ t2.through = t.through /\ t2.page = Wanted(s, page) /\ t2.last = last
       /\ t2.buffer = t.buffer /\ t2.inflight = <<>> /\ t2.charge = t.charge
  BY <1>1, <1>5, <1>6, <1>7 DEF StreamType
<1> HIDE DEF t2
<1>9. Ahead(q, t2, u) = Ahead(q, t, u)
  BY <1>8 DEF Ahead
<1>10. Numbered(L, c, q, t2, u)
  <2>1. Elems(t2.page) \subseteq 1..L /\ Elems(t2.inflight) = {}
    BY <1>7, <1>8, ElemsFacts
  <2>2. pos <= L
    BY <1>2, <1>5
  <2> QED
    BY <2>1, <2>2, <1>8, <1>9 DEF Sound, Numbered
<1>11. Ordered(q, t2, u)
  BY <1>7, <1>8, ElemsFacts DEF Sound, Ordered
<1>12. Phased(q, t2) /\ Budgeted(s, t2) /\ HandedOut(A, c, t2) /\ Tailed(A, c, q, t2, u)
  BY <1>1, <1>8, <1>9 DEF Sound, Phased, Budgeted, HandedOut, Tailed
<1>13. Replayed(A, c, t2)
  <2>1. Elems(t2.inflight) = {} /\ Elems(t2.page) = Elems(page) \cap A
    BY <1>7, <1>8, ElemsFacts
  <2>2. \A x \in Elems(t2.page) : c < x /\ x <= pos
    BY <2>1, <1>2, <1>3, <1>4, <1>5
  <2>3. ASSUME NEW n \in A, c < n, n <= pos PROVE n \in Elems(t2.page)
    <3>1. n \in Nat /\ t.pos < n
      BY <2>3, <1>2
    <3>2. n \in R
      <4>1. CASE n <= t.high
        BY <3>1, <4>1, <1>3
      <4>2. CASE t.high < n
        BY <2>3, <3>1, <4>2, <1>2, <1>5
      <4> QED
        BY <4>1, <4>2, <3>1, <1>2
    <3> QED
      BY <2>1, <2>3, <3>2, <1>5
  <2>4. c <= pos
    BY <1>2, <1>5
  <2>5. t2.through = t2.high \/ t2.pos = t2.through
    BY <1>2, <1>5, <1>8
  <2> QED
    BY <2>1, <2>2, <2>3, <2>4, <2>5, <1>2, <1>5, <1>6, <1>8 DEF Replayed
<1>14. Sound(s, L, A, c, q, t2, u)
  BY <1>10, <1>11, <1>12, <1>13 DEF Sound
<1>15. stream'[s] = t2
  BY <1>1 DEF SinkInv, SinkType
<1>16. SinkInv'
  BY <1>1, <1>8, <1>14, StreamStep
<1> QED
  BY <1>5, <1>8, <1>15, <1>16

\* PullReplay: what is handed out comes next.
LEMMA PullReplayKeeps ==
    ASSUME SinkInv, NEW s \in Subscribers, PullReplay(s)
    PROVE  SinkInv'
<1> DEFINE L == Len(log)
           A == Asked(s)
           c == cursor[s]
           q == queue[s]
           u == Unpublished(s)
           t == stream[s]
<1> USE StreamParts, Same
<1>1. /\ t.page # <<>> /\ t.inflight = <<>> /\ t.charge = 0
      /\ UNCHANGED <<log, writing>> /\ drops' \in Nat /\ cursor' = [cursor EXCEPT ![s] = c]
  BY DEF PullReplay, Pulling
<1>2. t.pc = "replaying"
  BY <1>1, StreamFields, ClosedIs DEF Sound, Phased
<1>3. /\ t.page \in Seq(Nat) /\ Head(t.page) \in Nat /\ Tail(t.page) \in Seq(Nat)
      /\ Elems(t.page) = {Head(t.page)} \cup Elems(Tail(t.page))
      /\ Sorted(t.page) /\ Sorted(Tail(t.page))
      /\ \A y \in Elems(Tail(t.page)) : Head(t.page) < y
  BY <1>1, Split, StreamFields DEF Sound, Ordered
<1>4. /\ Elems(t.page) \subseteq A /\ Elems(t.page) \subseteq 1..L
      /\ \A x \in Elems(t.page) : c < x /\ x <= t.pos
      /\ \A n \in A : c < n /\ n <= t.pos => n \in Elems(t.page)
      /\ t.pos \in Nat
  BY <1>1, <1>2, ElemsFacts, StreamFields DEF Sound, Replayed, Numbered
\* The sound streams that take the page, or its first event.
<1>5. ASSUME NEW given \in Seq(Nat), NEW rest \in Seq(Nat), NEW charge \in Nat,
             Elems(t.page) = Elems(given) \cup Elems(rest), Sorted(given), Sorted(rest),
             \A x \in Elems(given), y \in Elems(rest) : x < y,
             s \in Bounded => Len(given) <= charge /\ Len(t.buffer) + charge <= Budget,
             charge <= Budget,
             stream' = [stream EXCEPT ![s] = [t EXCEPT !.inflight = given, !.page = rest,
                                                       !.charge = charge]],
             queue' = [queue EXCEPT ![s] = q]
      PROVE  SinkInv'
  <2> DEFINE t2 == [t EXCEPT !.inflight = given, !.page = rest, !.charge = charge]
  <2>1. /\ t2 \in StreamType /\ t2.pc = "replaying" /\ t2.high = t.high /\ t2.pos = t.pos
        /\ t2.through = t.through /\ t2.page = rest /\ t2.last = t.last
        /\ t2.buffer = t.buffer /\ t2.inflight = given /\ t2.charge = charge
    BY <1>2 DEF StreamType
  <2>2. stream' = [stream EXCEPT ![s] = t2]
    BY <1>5
  <2> HIDE DEF t2
  <2>3. Ahead(q, t2, u) = Ahead(q, t, u)
    BY <2>1 DEF Ahead
  <2>4. Numbered(L, c, q, t2, u)
    BY <1>4, <1>5, <2>1, <2>3 DEF Sound, Numbered
  <2>5. Ordered(q, t2, u) /\ Phased(q, t2)
    BY <1>2, <1>5, <2>1 DEF Sound, Ordered, Phased
  <2>6. Budgeted(s, t2)
    BY <1>5, <2>1 DEF Sound, Budgeted
  <2>7. HandedOut(A, c, t2)
    <3>1. ASSUME NEW x \in Elems(given), NEW n \in A, c < n, n <= x PROVE n \in Elems(given)
      <4>1. x \in Nat /\ n \in Nat /\ x <= t.pos
        BY <1>4, <1>5
      <4>2. n \in Elems(t.page)
        BY <3>1, <4>1, <1>4
      <4> QED
        BY <3>1, <4>1, <4>2, <1>5
    <3> QED
      BY <3>1, <1>4, <1>5, <2>1 DEF HandedOut
  <2>8. Replayed(A, c, t2)
    BY <1>2, <1>4, <1>5, <2>1 DEF Sound, Replayed
  <2>9. Tailed(A, c, q, t2, u)
    BY <1>2, <2>1, <2>3 DEF Sound, Tailed
  <2>10. Sound(s, L, A, c, q, t2, u)
    BY <2>4, <2>5, <2>6, <2>7, <2>8, <2>9 DEF Sound
  <2> QED
    BY <1>1, <1>5, <2>1, <2>2, <2>10, StreamStep
<1>6. CASE s \notin Bounded
  <2>1. stream' = [stream EXCEPT ![s] = [t EXCEPT !.inflight = t.page, !.page = <<>>, !.charge = 0]]
    <3>1. [t EXCEPT !.inflight = t.page, !.page = <<>>, !.charge = 0]
            = [t EXCEPT !.inflight = t.page, !.page = <<>>]
      BY <1>1 DEF StreamType
    <3> QED
      BY <3>1, <1>6 DEF PullReplay, SinkInv, SinkType
  <2>2. queue' = [queue EXCEPT ![s] = q]
    BY <1>6 DEF PullReplay
  <2>3. /\ <<>> \in Seq(Nat) /\ 0 \in Nat /\ 0 <= Budget /\ Sorted(<<>>)
        /\ Elems(t.page) = Elems(t.page) \cup Elems(<<>>)
        /\ \A x \in Elems(t.page), y \in Elems(<<>>) : x < y
    BY ElemsFacts, EmptySeq, SinkAssumed
  <2> HIDE DEF t, q
  <2> QED
    BY <1>3, <1>5, <1>6, <2>1, <2>2, <2>3, Zenon
<1>7. CASE s \in Bounded /\ ~ Fits(s)
  BY <1>2, <1>7, FailKeeps DEF PullReplay
<1>8. CASE s \in Bounded /\ Fits(s)
  <2>1. stream' = [stream EXCEPT ![s] = [t EXCEPT !.inflight = <<Head(t.page)>>,
                                                  !.page = Tail(t.page), !.charge = 1]]
    BY <1>8 DEF PullReplay, SinkInv, SinkType
  <2>2. queue' = [queue EXCEPT ![s] = q]
    BY <1>8 DEF PullReplay
  <2>3. /\ <<Head(t.page)>> \in Seq(Nat) /\ Len(<<Head(t.page)>>) = 1
        /\ Elems(<<Head(t.page)>>) = {Head(t.page)} /\ Sorted(<<Head(t.page)>>)
    BY <1>3, Single
  <2>4. 1 <= Budget /\ Len(t.buffer) + 1 <= Budget
    <3>1. Len(t.buffer) \in Nat /\ Budget \in Nat \ {0}
      BY SinkAssumed, StreamFields
    <3> QED
      BY <3>1, <1>1, <1>8 DEF Fits
  <2>5. /\ Elems(t.page) = Elems(<<Head(t.page)>>) \cup Elems(Tail(t.page))
        /\ \A x \in Elems(<<Head(t.page)>>), y \in Elems(Tail(t.page)) : x < y
        /\ Len(<<Head(t.page)>>) <= 1 /\ 1 \in Nat
    BY <1>3, <2>3
  <2> HIDE DEF t, q
  <2> QED
    BY <1>3, <1>5, <2>1, <2>2, <2>3, <2>4, <2>5, Zenon
<1> QED
  BY <1>6, <1>7, <1>8

\* EndReplay: the replay has reached the mark, and the live events follow.
LEMMA EndReplayKeeps ==
    ASSUME SinkInv, NEW s \in Subscribers, EndReplay(s)
    PROVE  SinkInv'
<1> DEFINE L == Len(log)
           A == Asked(s)
           c == cursor[s]
           q == queue[s]
           u == Unpublished(s)
           t == stream[s]
           t2 == [t EXCEPT !.pc = "live"]
<1> USE StreamParts, Same
<1>1. /\ stream' = [stream EXCEPT ![s] = t2] /\ t.pc = "replaying" /\ t.page = <<>>
      /\ t.inflight = <<>> /\ t.last
      /\ UNCHANGED <<log, writing>> /\ drops' \in Nat
      /\ cursor' = [cursor EXCEPT ![s] = c] /\ queue' = [queue EXCEPT ![s] = q]
  BY DEF EndReplay, Pulling
<1>2. /\ t2 \in StreamType /\ t2.pc = "live" /\ t2.high = t.high /\ t2.pos = t.pos
      /\ t2.through = t.through /\ t2.page = t.page /\ t2.last = t.last
      /\ t2.buffer = t.buffer /\ t2.inflight = <<>> /\ t2.charge = t.charge
  BY <1>1 DEF StreamType
<1> HIDE DEF t2
<1>3. Ahead(q, t2, u) = Ahead(q, t, u)
  BY <1>2 DEF Ahead
<1>4. Numbered(L, c, q, t2, u) /\ Ordered(q, t2, u) /\ Phased(q, t2) /\ Budgeted(s, t2)
  BY <1>1, <1>2, <1>3 DEF Sound, Numbered, Ordered, Phased, Budgeted
<1>5. HandedOut(A, c, t2) /\ Replayed(A, c, t2)
  BY <1>2, ElemsFacts DEF HandedOut, Replayed
<1>6. Tailed(A, c, q, t2, u)
  <2>1. /\ c <= t.pos /\ t.pos <= t.through /\ t.pos \in Nat /\ t.through \in Nat
        /\ \A n \in A : ~ (c < n /\ n <= t.pos)
        /\ \A n \in A : ~ (t.pos < n /\ n <= t.through)
    BY <1>1, ElemsFacts, StreamFields DEF Sound, Replayed
  <2>2. \A n \in A : c < n => n > t.through
    BY <2>1
  <2>3. \A n \in A : n > t.through => n \in Ahead(q, t, u)
    BY <1>1 DEF Sound, Tailed
  <2>4. \A y \in Ahead(q, t, u) : y \in Nat
    BY DEF Sound, Numbered
  <2>5. \A y \in Ahead(q, t, u) : y > t.through => c < y
    BY <2>1, <2>4
  <2> QED
    BY <1>2, <1>3, <2>2, <2>3, <2>5, ElemsFacts DEF Sound, Tailed
<1>7. Sound(s, L, A, c, q, t2, u)
  BY <1>4, <1>5, <1>6 DEF Sound
<1> QED
  BY <1>1, <1>2, <1>7, StreamStep

\* End and Drop: the stream is closed.
LEMMA EndKeeps ==
    ASSUME SinkInv, NEW s \in Subscribers, End(s) \/ Drop(s)
    PROVE  SinkInv'
<1> USE StreamParts, Same
<1>1. /\ UNCHANGED <<log, writing>> /\ drops' \in Nat
      /\ cursor' = [cursor EXCEPT ![s] = cursor[s]]
      /\ stream' = [stream EXCEPT ![s] = Closed]
  BY DEF End, Drop
<1>2. queue' = [queue EXCEPT ![s] = <<>>]
  <2>1. CASE End(s)
    <3>1. queue[s] = <<>>
      BY <2>1 DEF Sound, Phased, End
    <3> QED
      BY <2>1, <3>1 DEF End
  <2>2. CASE Drop(s)
    BY <2>2 DEF Drop
  <2> QED
    BY <2>1, <2>2
<1>3. cursor[s] <= Len(log)
  BY DEF Sound, Numbered
<1>4. Sound(s, Len(log), Asked(s), cursor[s], <<>>, Closed, Unpublished(s))
  BY <1>3, ClosedSound
<1> QED
  BY <1>1, <1>2, <1>4, ClosedIs, EmptySeq, StreamStep
\* PullLive: the live events that are handed out come next.
LEMMA PullLiveKeeps ==
    ASSUME SinkInv, NEW s \in Subscribers, PullLive(s)
    PROVE  SinkInv'
<1> DEFINE L == Len(log)
           A == Asked(s)
           c == cursor[s]
           q == queue[s]
           u == Unpublished(s)
           t == stream[s]
<1> USE StreamParts, Same
<1>1. /\ t.pc = "live" /\ t.inflight = <<>> /\ t.charge = 0
      /\ UNCHANGED <<log, writing>> /\ drops' \in Nat /\ cursor' = [cursor EXCEPT ![s] = c]
  BY DEF PullLive, Pulling
<1>2. /\ \A n \in A : c < n => n > t.through /\ n \in Ahead(q, t, u)
      /\ \A y \in Ahead(q, t, u) : y > t.through => c < y
      /\ Ahead(q, t, u) \subseteq 1..L
      /\ c \in Nat /\ t.through \in Nat
  BY <1>1, ElemsFacts, StreamFields DEF Sound, Tailed, Numbered
\* The sound streams that hand out what of `taken' lies beyond the replay, and leave of the
\* live events those of q2 and buffer2.
<1>3. ASSUME NEW taken \in Seq(Nat), NEW q2 \in Seq(Nat), NEW buffer2 \in Seq(Nat),
             NEW given \in Seq(Nat), NEW charge \in Nat,
             Sorted(taken), Sorted(given), Sorted(q2), Sorted(buffer2),
             Elems(given) = {n \in Elems(taken) \cap A : n > t.through},
             Elems(taken) \cup Elems(q2) \cup Elems(buffer2) = Elems(q) \cup Elems(t.buffer),
             \A x \in Elems(taken), y \in Elems(q2) \cup Elems(buffer2) \cup u : x < y,
             buffer2 = <<>> \/ (q2 = q /\ buffer2 = t.buffer),
             q2 = q \/ q2 = <<>>,
             s \notin Bounded => buffer2 = <<>>,
             s \in Bounded => Len(given) <= charge /\ Len(buffer2) + charge <= Budget,
             charge <= Budget,
             stream' = [stream EXCEPT ![s] = [t EXCEPT !.inflight = given, !.buffer = buffer2,
                                                       !.charge = charge]],
             queue' = [queue EXCEPT ![s] = q2]
      PROVE  SinkInv'
  <2> DEFINE t2 == [t EXCEPT !.inflight = given, !.buffer = buffer2, !.charge = charge]
  <2>1. /\ t2 \in StreamType /\ t2.pc = "live" /\ t2.high = t.high /\ t2.pos = t.pos
        /\ t2.through = t.through /\ t2.page = t.page /\ t2.last = t.last
        /\ t2.buffer = buffer2 /\ t2.inflight = given /\ t2.charge = charge
    BY <1>1 DEF StreamType
  <2>2. stream' = [stream EXCEPT ![s] = t2]
    BY <1>3
  <2> HIDE DEF t2
  <2>3. /\ Ahead(q2, t2, u) \subseteq Ahead(q, t, u)
        /\ Ahead(q, t, u) = Elems(taken) \cup Ahead(q2, t2, u)
        /\ \A x \in Elems(taken), y \in Ahead(q2, t2, u) : x < y
    BY <1>3, <2>1 DEF Ahead
  <2>4. Numbered(L, c, q2, t2, u)
    BY <1>2, <1>3, <2>1, <2>3 DEF Sound, Numbered
  <2>5. Ordered(q2, t2, u)
    BY <1>3, <2>1, ElemsFacts DEF Sound, Ordered
  <2>6. Phased(q2, t2) /\ Budgeted(s, t2)
    BY <1>1, <1>3, <2>1 DEF Sound, Phased, Budgeted
  <2>7. HandedOut(A, c, t2)
    <3>1. ASSUME NEW x \in Elems(given), NEW n \in A, c < n, n <= x PROVE n \in Elems(given)
      <4>1. n \in Ahead(q, t, u) /\ n > t.through /\ x \in Elems(taken)
        BY <3>1, <1>2, <1>3
      <4>2. n \in Elems(taken)
        <5> SUFFICES ASSUME n \in Ahead(q2, t2, u) PROVE FALSE
          BY <4>1, <2>3
        <5>1. x < n /\ x \in Nat /\ n \in Nat
          BY <1>2, <2>3, <4>1
        <5> QED
          BY <5>1, <3>1
      <4> QED
        BY <4>1, <4>2, <1>3
    <3>2. \A x \in Elems(given) : x \in A /\ c < x
      BY <1>2, <1>3, <2>3
    <3> QED
      BY <3>1, <3>2, <2>1 DEF HandedOut
  <2>8. Replayed(A, c, t2)
    BY <2>1 DEF Replayed
  <2>9. Tailed(A, c, q2, t2, u)
    <3>1. Elems(t2.buffer) \subseteq A
      BY <1>3, <2>1, ElemsFacts DEF Sound, Tailed
    <3>2. ASSUME NEW n \in A, c < n
          PROVE  n > t.through /\ n \in Elems(given) \cup Ahead(q2, t2, u)
      BY <3>2, <1>2, <1>3, <2>3
    <3>3. ASSUME NEW y \in Ahead(q2, t2, u), y > t.through
          PROVE  c < y /\ \A x \in Elems(given) : x < y
      BY <3>3, <1>2, <1>3, <2>3
    <3> QED
      BY <3>1, <3>2, <3>3, <2>1 DEF Tailed
  <2>10. Sound(s, L, A, c, q2, t2, u)
    BY <2>4, <2>5, <2>6, <2>7, <2>8, <2>9 DEF Sound
  <2>11. queue' = [queue EXCEPT ![s] = q2] /\ t2 \in StreamType
    BY <1>3, <2>1
  <2> HIDE DEF L, A, c, u, t
  <2> QED
    BY <1>1, <1>2, <2>2, <2>10, <2>11, StreamStep, Zenon DEF L, A, c, u
<1>4. /\ Sorted(q) /\ Sorted(t.buffer) /\ Elems(t.buffer) \subseteq A
      /\ Elems(q) \subseteq 1..L /\ Elems(t.buffer) \subseteq 1..L
      /\ \A x \in Elems(t.buffer), y \in Elems(q) : x < y
      /\ \A x \in Elems(t.buffer) \cup Elems(q), y \in u : x < y
      /\ q \in Seq(Nat) /\ t.buffer \in Seq(Nat) /\ t.page = <<>>
      /\ s \in Bounded => Len(t.buffer) + t.charge <= Budget
      /\ s \notin Bounded => t.buffer = <<>>
      /\ Len(t.buffer) \in Nat /\ Budget \in Nat /\ t.inflight = <<>>
      /\ <<>> \in Seq(Nat) /\ Elems(<<>>) = {} /\ Sorted(<<>>) /\ Len(<<>>) = 0
  BY <1>1, <1>2, StreamFields, ElemsFacts, SinkAssumed, EmptySeq
     DEF Sound, Ordered, Tailed, Budgeted, Ahead, Phased
<1>5. CASE s \in Bounded
  <2> DEFINE items == BeyondReplay(s, t.buffer)
  <2>1. /\ stream' = [stream EXCEPT ![s] = [t EXCEPT !.inflight = items, !.buffer = <<>>,
                                                     !.charge = Len(items)]]
        /\ queue' = [queue EXCEPT ![s] = q]
    BY <1>5 DEF PullLive, SinkInv, SinkType
  <2>2. /\ items \in Seq(Nat) /\ Len(items) <= Len(t.buffer) /\ Sorted(items)
        /\ Elems(items) = {n \in Elems(t.buffer) : n > t.through}
    BY <1>4, BeyondIs
  <2> HIDE DEF items
  <2>3. Elems(items) = {n \in Elems(t.buffer) \cap A : n > t.through}
    BY <1>4, <2>2
  <2>4. Len(items) \in Nat /\ Len(items) <= Budget /\ Len(<<>>) + Len(items) <= Budget
        /\ Len(items) <= Len(items)
    BY <1>1, <1>4, <1>5, <2>2
  <2>5. /\ Elems(t.buffer) \cup Elems(q) \cup Elems(<<>>) = Elems(q) \cup Elems(t.buffer)
        /\ \A x \in Elems(t.buffer), y \in Elems(q) \cup Elems(<<>>) \cup u : x < y
    BY <1>4
  <2> HIDE DEF t, q, A, u
  <2> QED
    BY <1>3, <1>4, <1>5, <2>1, <2>2, <2>3, <2>4, <2>5, Zenon
<1>6. CASE s \notin Bounded
  <2> DEFINE w == Wanted(s, q)
             items == BeyondReplay(s, w)
  <2>1. /\ stream' = [stream EXCEPT ![s] = [t EXCEPT !.inflight = items, !.buffer = <<>>,
                                                     !.charge = 0]]
        /\ queue' = [queue EXCEPT ![s] = <<>>]
    <3> HIDE DEF items
    <3>1. stream' = [stream EXCEPT ![s].inflight = items]
      BY <1>6 DEF PullLive, items
    <3>2. [t EXCEPT !.inflight = items, !.buffer = <<>>, !.charge = 0] = [t EXCEPT !.inflight = items]
      BY <1>1, <1>4, <1>6 DEF StreamType
    <3> QED
      BY <1>6, <3>1, <3>2 DEF PullLive, SinkInv, SinkType
  <2>2. w \in Seq(Nat) /\ Sorted(w) /\ Elems(w) = Elems(q) \cap A
    BY <1>4, WantedIs
  <2>3. Elems(w) \subseteq 1..L
    BY <1>4, <2>2
  <2> HIDE DEF w
  <2>4. items \in Seq(Nat) /\ Sorted(items) /\ Elems(items) = {n \in Elems(w) : n > t.through}
    BY <2>2, <2>3, BeyondIs
  <2> HIDE DEF items
  <2>5. Elems(items) = {n \in Elems(q) \cap A : n > t.through}
    BY <2>2, <2>4
  <2>6. 0 \in Nat /\ 0 <= Budget
    BY <1>4
  <2>7. /\ Elems(q) \cup Elems(<<>>) \cup Elems(<<>>) = Elems(q) \cup Elems(t.buffer)
        /\ \A x \in Elems(q), y \in Elems(<<>>) \cup Elems(<<>>) \cup u : x < y
    BY <1>4, <1>6
  <2> HIDE DEF t, q, A, u
  <2> QED
    BY <1>3, <1>4, <1>6, <2>1, <2>4, <2>5, <2>6, <2>7, Zenon
<1> QED
  BY <1>5, <1>6

\* Receive: the next event is the least that the client is due.
LEMMA ReceiveKeeps ==
    ASSUME SinkInv, NEW s \in Subscribers, Receive(s)
    PROVE  /\ SinkInv'
           /\ Head(stream[s].inflight) \in Asked(s)
           /\ cursor[s] < Head(stream[s].inflight)
           /\ \A n \in Asked(s) : n > cursor[s] => Head(stream[s].inflight) <= n
<1> DEFINE L == Len(log)
           A == Asked(s)
           c == cursor[s]
           q == queue[s]
           u == Unpublished(s)
           t == stream[s]
           n == Head(t.inflight)
           t2 == [t EXCEPT !.inflight = Tail(t.inflight)]
<1> USE StreamParts, Same
<1>1. /\ t.inflight # <<>> /\ UNCHANGED <<log, writing>> /\ drops' \in Nat
      /\ cursor' = [cursor EXCEPT ![s] = n] /\ queue' = [queue EXCEPT ![s] = q]
      /\ stream' = [stream EXCEPT ![s] = t2]
  BY DEF Receive, SinkInv, SinkType
<1>2. t.inflight \in Seq(Nat) /\ Sorted(t.inflight)
  BY StreamFields DEF Sound, Ordered
<1>3. /\ n \in Nat /\ Tail(t.inflight) \in Seq(Nat)
      /\ Len(Tail(t.inflight)) = Len(t.inflight) - 1 /\ Len(t.inflight) \in Nat
      /\ Elems(t.inflight) = {n} \cup Elems(Tail(t.inflight))
      /\ Sorted(Tail(t.inflight)) /\ \A y \in Elems(Tail(t.inflight)) : n < y
  BY <1>1, <1>2, Split
<1>4. /\ t2 \in StreamType /\ t2.pc = t.pc /\ t2.high = t.high /\ t2.pos = t.pos
      /\ t2.through = t.through /\ t2.page = t.page /\ t2.last = t.last
      /\ t2.buffer = t.buffer /\ t2.inflight = Tail(t.inflight) /\ t2.charge = t.charge
  BY <1>3 DEF StreamType
<1>5. /\ n \in A /\ c < n /\ n \in 1..L
      /\ \A x \in Elems(t.inflight) : x \in A /\ \A m \in A : c < m /\ m <= x => m \in Elems(t.inflight)
  BY <1>3 DEF Sound, HandedOut, Numbered
<1>6. \A m \in A : m > c => n <= m
  BY <1>3, <1>5
<1>7. t.pc \notin {"off", "opening"}
  BY <1>1, ClosedIs DEF Sound, Phased
<1> HIDE DEF t2, n
<1>8. Ahead(q, t2, u) = Ahead(q, t, u)
  BY <1>4 DEF Ahead
<1>9. Numbered(L, n, q, t2, u)
  BY <1>3, <1>4, <1>5, <1>8 DEF Sound, Numbered
<1>10. Ordered(q, t2, u) /\ Phased(q, t2)
  BY <1>3, <1>4, <1>7 DEF Sound, Ordered, Phased
<1>11. Budgeted(s, t2)
  BY <1>3, <1>4, StreamFields DEF Sound, Budgeted
<1>12. HandedOut(A, n, t2)
  <2>1. ASSUME NEW x \in Elems(Tail(t.inflight)), NEW m \in A, n < m, m <= x
        PROVE  m \in Elems(Tail(t.inflight))
    BY <2>1, <1>3, <1>5
  <2> QED
    BY <2>1, <1>3, <1>4, <1>5 DEF HandedOut
<1>13. Replayed(A, n, t2)
  <2> SUFFICES ASSUME t.pc = "replaying" PROVE Replayed(A, n, t2)
    BY <1>4 DEF Replayed
  <2>1. n <= t.pos /\ \A x \in Elems(t.page) : n < x
    BY <1>3 DEF Sound, Replayed
  <2>2. ASSUME NEW m \in A, n < m, m <= t.pos
        PROVE  m \in Elems(Tail(t.inflight)) \cup Elems(t.page)
    <3>1. c < m
      BY <2>2, <1>3, <1>5
    <3> QED
      BY <2>2, <3>1, <1>3 DEF Sound, Replayed
  <2> QED
    BY <2>1, <2>2, <1>3, <1>4 DEF Sound, Replayed
<1>14. Tailed(A, n, q, t2, u)
  <2>1. ASSUME t.pc = "live", NEW m \in A, n < m
        PROVE  m > t.through /\ m \in Elems(Tail(t.inflight)) \cup Ahead(q, t, u)
    <3>1. c < m
      BY <2>1, <1>3, <1>5
    <3> QED
      BY <2>1, <3>1, <1>3 DEF Sound, Tailed
  <2>2. ASSUME t.pc = "live", NEW y \in Ahead(q, t, u), y > t.through
        PROVE  n < y /\ \A x \in Elems(Tail(t.inflight)) : x < y
    BY <2>2, <1>3 DEF Sound, Tailed
  <2>3. Elems(t.buffer) \subseteq A /\ (t.pc = "replaying" => \A m \in A : m > t.through => m \in Ahead(q, t, u))
    BY DEF Sound, Tailed
  <2> QED
    BY <2>1, <2>2, <2>3, <1>4, <1>7, <1>8 DEF Tailed
<1>15. Sound(s, L, A, n, q, t2, u)
  BY <1>9, <1>10, <1>11, <1>12, <1>13, <1>14 DEF Sound
<1>16. SinkInv'
  BY <1>1, <1>3, <1>4, <1>15, StreamStep
<1> QED
  BY <1>5, <1>6, <1>16 DEF n
\* Every step of the server for a stream.
LEMMA ServeKeeps ==
    ASSUME SinkInv, NEW s \in Subscribers, Serve(s)
    PROVE  SinkInv'
BY ReadHighWaterKeeps, DrainKeeps, AcknowledgeKeeps, ReadPageKeeps, PullReplayKeeps,
   EndReplayKeeps, PullLiveKeeps, EndKeeps DEF Serve

\* Connect: a stream that starts at the cursor of its client.
LEMMA ConnectKeeps ==
    ASSUME SinkInv, NEW s \in Subscribers, Connect(s)
    PROVE  SinkInv'
<1>1. /\ cursor[s] \in Nat /\ cursor[s] <= cursor[s] /\ cursor[s] <= Len(log)
      /\ \A n \in Asked(s) : ~ (cursor[s] < n /\ n <= cursor[s])
  BY StreamParts DEF Sound, Numbered
<1> QED
  BY <1>1, OpenKeeps DEF Connect

\* Steps of others, a lost connection among them, leave the sink as it is.
LEMMA StutterKeeps ==
    ASSUME SinkInv, UNCHANGED <<log, writing, reading>>, drops' \in Nat
    PROVE  SinkInv'
<1>1. SinkType' /\ Held' /\ Publication'
  BY DEF writing, reading, SinkInv, SinkType, Held, Publication
<1>2. ASSUME NEW s \in Subscribers PROVE StreamInv(s)'
  <2>1. Unpublished(s)' = Unpublished(s)
    BY DEF writing, Unpublished
  <2> QED
    BY <2>1, Untouched DEF SinkInv, reading
<1> QED
  BY <1>1, <1>2 DEF SinkInv

\* SinkInv is inductive.
LEMMA NextKeeps == SinkInv /\ [Next]_vars => SinkInv'
<1> SUFFICES ASSUME SinkInv, [Next]_vars PROVE SinkInv'
  OBVIOUS
<1>1. ASSUME NEW w \in Writers, Writer(w) PROVE SinkInv'
  BY <1>1, WriterKeeps
<1>2. ASSUME NEW s \in Subscribers, Step(s) \/ Drop(s) PROVE SinkInv'
  BY <1>2, ConnectKeeps, ServeKeeps, ReceiveKeeps, EndKeeps DEF Step
<1>3. CASE Crash
  BY <1>3, CrashKeeps
<1>4. CASE UNCHANGED vars
  BY <1>4, StutterKeeps DEF vars, SinkInv, SinkType
<1> QED
  BY <1>1, <1>2, <1>3, <1>4 DEF Next

\* The inductive invariant holds of every reachable state of the sink.
THEOREM SinkInvHolds == Spec => []SinkInv
BY InitSound, NextKeeps, PTL DEF Spec

-----------------------------------------------------------------------------
(***************************************************************************)
(* Theorems.                                                               *)
(***************************************************************************)
LEMMA InvTypes == SinkInv => TypeOK
<1> SUFFICES ASSUME SinkInv PROVE TypeOK
  OBVIOUS
<1>1. \A q \in Seq(Nat) : Elems(q) \subseteq 1..Len(log) => IsNumbered(q)
  BY DEF Elems, IsNumbered
<1>2. ASSUME NEW w \in Writers
      PROVE  /\ IsNumbered(stored[w])
             /\ todo[w] \subseteq Hubs
             /\ conn = w <=> wpc[w] \in {"writing", "committing"}
  BY <1>1 DEF SinkInv, SinkType, Held, Publication
<1>3. ASSUME NEW s \in Subscribers
      PROVE  cursor[s] \in 0..Len(log) /\ IsNumbered(queue[s]) /\ StreamOK(s)
  <2> DEFINE t == stream[s]
  <2> USE StreamParts
  <2>1. /\ t.pc \in {"off", "opening", "replaying", "live", "failed"}
        /\ t.through \in Nat /\ t.high \in Nat /\ t.pos \in Nat /\ t.charge \in Nat
        /\ t.page \in Seq(Nat) /\ t.buffer \in Seq(Nat) /\ t.inflight \in Seq(Nat)
        /\ t.last \in BOOLEAN
    BY StreamFields
  <2>2. /\ cursor[s] <= Len(log) /\ t.through <= Len(log) /\ t.high <= Len(log) /\ t.pos <= Len(log)
        /\ Elems(t.page) \subseteq 1..Len(log) /\ Elems(t.buffer) \subseteq 1..Len(log)
        /\ Elems(t.inflight) \subseteq 1..Len(log) /\ Elems(queue[s]) \subseteq 1..Len(log)
    BY DEF Sound, Numbered, Ahead
  <2>3. t.charge \in 0..Budget /\ (s \in Bounded => Len(t.buffer) + Len(t.inflight) <= Budget)
    <3>1. Len(t.buffer) \in Nat /\ Len(t.inflight) \in Nat /\ Budget \in Nat
      BY <2>1, SinkAssumed
    <3>2. /\ t.charge <= Budget
          /\ s \in Bounded => Len(t.inflight) <= t.charge /\ Len(t.buffer) + t.charge <= Budget
      BY DEF Sound, Budgeted
    <3>3. t.charge \in 0..Budget
      BY <2>1, <3>1, <3>2
    <3>4. ASSUME s \in Bounded PROVE Len(t.buffer) + Len(t.inflight) <= Budget
      <4>1. \A b, i, c, m \in Nat : i <= c /\ b + c <= m => b + i <= m
        OBVIOUS
      <4> QED
        BY <2>1, <3>1, <3>2, <3>4, <4>1, Zenon
    <3> QED
      BY <3>3, <3>4, Zenon
  <2>4. (t.pc = "off" => t = Closed) /\ (Subscribed(s) \/ queue[s] = <<>>)
    BY <2>1 DEF Sound, Phased, Subscribed
  <2>5. IsNumbered(t.page) /\ IsNumbered(t.buffer) /\ IsNumbered(t.inflight) /\ IsNumbered(queue[s])
    BY <1>1, <2>1, <2>2
  <2>6. {t.through, t.high, t.pos} \subseteq 0..Len(log) /\ cursor[s] \in 0..Len(log)
    <3>1. \A n \in Nat : n <= Len(log) => n \in 0..Len(log)
      OBVIOUS
    <3> QED
      BY <2>1, <2>2, <3>1, Zenon
  <2> QED
    BY <2>1, <2>3, <2>4, <2>5, <2>6, Zenon DEF StreamOK
<1>4. /\ log \in Seq(Kinds \cup {Project})
      /\ {conn, lane} \subseteq Writers \cup {Nobody}
      /\ wpc \in [Writers -> {"idle", "writing", "committing", "publishing"}]
      /\ cursor \in [Subscribers -> 0..Len(log)]
  BY <1>3 DEF SinkInv, SinkType
<1> QED
  BY <1>2, <1>3, <1>4 DEF TypeOK

\* Types; the connection is held exactly during a transaction; what is retained for a
\* client never exceeds its budget, with any number of writers, clients and kinds of events.
THEOREM TypesCorrect == Spec => []TypeOK
BY SinkInvHolds, InvTypes, PTL

\* Between the cursor and the mark events are read or to be read; beyond it they are live.
LEMMA InvSkipsNothing == SinkInv => NothingSkipped
<1> SUFFICES ASSUME SinkInv, NEW s \in Subscribers, Subscribed(s),
                    NEW n \in 1..Len(log), n > cursor[s], log[n] \in Wants[s]
             PROVE  n \in OnTheWay(s) \cup Unpublished(s)
  BY DEF NothingSkipped
<1> DEFINE t == stream[s]
<1> USE StreamParts
<1>1. n \in Asked(s) /\ n \in Nat /\ cursor[s] < n
  BY DEF Asked
<1>2. CASE t.pc = "opening"
  <2>1. n <= latestSequence(s) /\ latestSequence(s) \in Nat
    BY <1>1, HighWater
  <2> QED
    BY <1>1, <1>2, <2>1 DEF OnTheWay
<1>3. CASE t.pc = "replaying"
  <2>1. /\ t.through = t.high \/ t.pos = t.through
        /\ n <= t.pos => n \in Elems(t.inflight) \cup Elems(t.page)
        /\ t.last => ~ (t.pos < n /\ n <= t.through)
        /\ n > t.through => n \in Ahead(queue[s], t, Unpublished(s))
        /\ t.pos \in Nat /\ t.through \in Nat /\ t.high \in Nat
    BY <1>1, <1>3, StreamFields DEF Sound, Replayed, Tailed
  <2>2. CASE n <= t.pos
    BY <2>1, <2>2 DEF OnTheWay
  <2>3. CASE n > t.through
    BY <2>1, <2>3 DEF OnTheWay, Ahead
  <2>4. CASE t.pos < n /\ n <= t.through
    <3>1. ~ t.last /\ n \in (t.pos + 1)..t.high
      BY <2>1, <2>4, <1>1
    <3> QED
      BY <1>3, <3>1 DEF OnTheWay
  <2> QED
    BY <1>1, <2>1, <2>2, <2>3, <2>4
<1>4. CASE t.pc = "live"
  <2>1. n \in Elems(t.inflight) \cup Ahead(queue[s], t, Unpublished(s))
    BY <1>1, <1>4 DEF Sound, Tailed
  <2> QED
    BY <2>1 DEF OnTheWay, Ahead
<1> QED
  BY <1>2, <1>3, <1>4 DEF Subscribed

\* No event is lost between the log and a connected client, whatever the order in which
\* transactions commit, hubs are served, pages are read and buffers drain.
THEOREM NothingIsSkipped == Spec => []NothingSkipped
BY SinkInvHolds, InvSkipsNothing, PTL

\* A step of the sink is a step of the abstract log, or changes nothing of it.
LEMMA StepRefines ==
    ASSUME SinkInv, [Next]_vars
    PROVE  [Log!Next]_Log!vars
<1> USE DEF Log!vars
<1>1. ASSUME NEW w \in Writers, Commit(w) PROVE [Log!Next]_Log!vars
  <2>1. log' = log \o batch[w] /\ cursor' = cursor
    BY <1>1 DEF Commit, reading
  <2>2. batch[w] \in Batches \cup {<<>>} /\ log \in Seq(Kinds \cup {Project})
    BY DEF SinkInv, SinkType
  <2>3. CASE batch[w] = <<>>
    <3>1. log' = log
      BY <2>1, <2>2, <2>3, ConcatEmptySeq
    <3> QED
      BY <2>1, <3>1
  <2>4. CASE batch[w] \in Batches
    BY <2>1, <2>4 DEF Log!Next, Log!Commit
  <2> QED
    BY <2>2, <2>3, <2>4
<1>2. ASSUME NEW s \in Subscribers, Receive(s) PROVE [Log!Next]_Log!vars
  <2> DEFINE n == Head(stream[s].inflight)
  <2>1. log' = log /\ cursor' = [cursor EXCEPT ![s] = n]
    BY <1>2 DEF Receive
  <2>2. Log!Due(log, s) = {m \in Asked(s) : m > cursor[s]}
    BY DEF Log!Due, Asked
  <2>3. n \in Log!Due(log, s) /\ \A m \in Log!Due(log, s) : n <= m
    BY <1>2, <2>2, ReceiveKeeps, StreamParts
  <2> HIDE DEF n
  <2>4. Log!Receive(s)
    BY <2>1, <2>3 DEF Log!Receive
  <2> QED
    BY <2>4 DEF Log!Next
<1>3. ASSUME NEW w \in Writers, Writer(w), ~ Commit(w) PROVE UNCHANGED <<log, cursor>>
  BY <1>3 DEF Writer, Advance, Begin, Abandon, CommitFails, TakeLane, Finish, Publish, reading
<1>4. ASSUME NEW s \in Subscribers, Connect(s) \/ Serve(s) \/ Drop(s)
      PROVE  UNCHANGED <<log, cursor>>
  BY <1>4 DEF Connect, Open, Serve, ReadHighWater, Drain, Acknowledge, ReadPage, PullReplay,
              EndReplay, PullLive, End, Drop
<1>5. CASE Crash
  BY <1>5 DEF Crash
<1>6. CASE UNCHANGED vars
  BY <1>6 DEF vars, reading
<1> QED
  BY <1>1, <1>2, <1>3, <1>4, <1>5, <1>6 DEF Next, Step

\* The sink implements the abstract log: clients receive what they asked for in the order
\* of the log, once each, across transactions, overflows, lost connections and crashes.
THEOREM SinkImplementsLog == Spec => LogSpec
<1>1. Init => Log!Init
  BY DEF Init, Log!Init
<1>2. SinkInv /\ [Next]_vars => [Log!Next]_Log!vars
  BY StepRefines
<1> QED
  BY <1>1, <1>2, SinkInvHolds, PTL DEF Spec, LogSpec, Log!Spec
====
