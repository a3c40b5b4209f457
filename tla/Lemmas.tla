------------------------------- MODULE Lemmas -------------------------------
(***************************************************************************)
(* What the proofs about several components use: induction and recursion   *)
(* over the natural numbers, stated about sets and functions, and what     *)
(* taking the first element off a queue, appending one and taking one out  *)
(* of the middle do.                                                       *)
(***************************************************************************)
EXTENDS Integers, Sequences, SequencesExt, Selection, Index, Scan, FiniteSetTheorems, SequenceTheorems, TLAPS

(***************************************************************************)
(* Induction.  Strict inclusion of finite sets is well-founded, so among   *)
(* the intervals 1..n that end outside of a set there is a least one.      *)
(***************************************************************************)

\* Among finite sets of numbers there is one that includes no other.
LEMMA LeastFinite ==
  ASSUME NEW C, C # {}, \A T \in C : T \subseteq Nat /\ IsFiniteSet(T)
  PROVE  \E T \in C : \A U \in C : ~(U \subseteq T /\ U # T)
<1>1. C \subseteq FiniteSubsetsOf(Nat)
  BY DEF FiniteSubsetsOf
<1>2. \E T \in C : \A U \in C : ~(<<U, T>> \in StrictSubsetOrdering(Nat))
  BY <1>1, FS_StrictSubsetOrderingWellFounded, WFMin
<1> QED
  BY <1>1, <1>2 DEF StrictSubsetOrdering, FiniteSubsetsOf

\* A set that holds 0 and with every number the next one holds all numbers.
THEOREM SetInduction ==
  ASSUME NEW S, 0 \in S, \A n \in Nat : n \in S => n + 1 \in S
  PROVE  \A n \in Nat : n \in S
<1> SUFFICES ASSUME NEW k \in Nat, k \notin S PROVE FALSE
  OBVIOUS
<1> DEFINE C == {1..n : n \in Nat \ S}
<1>1. C # {} /\ \A T \in C : T \subseteq Nat /\ IsFiniteSet(T)
  <2>1. 1..k \in C
    OBVIOUS
  <2>2. \A n \in Nat : IsFiniteSet(1..n) /\ 1..n \subseteq Nat
    BY FS_Interval
  <2> QED
    BY <2>1, <2>2
<1>2. PICK T \in C : \A U \in C : ~(U \subseteq T /\ U # T)
  <2> HIDE DEF C
  <2> QED
    BY <1>1, LeastFinite
<1>3. PICK n \in Nat \ S : T = 1..n
  BY <1>2
<1>4. n # 0 /\ n - 1 \in Nat \ S
  <2>1. n # 0
    BY <1>3
  <2> QED
    BY <2>1, <1>3
<1>5. 1..(n - 1) \in C
  BY <1>4
<1>6. 1..(n - 1) \subseteq 1..n /\ 1..(n - 1) # 1..n
  <2>1. n \in 1..n /\ n \notin 1..(n - 1)
    BY <1>4
  <2> QED
    BY <2>1
<1> QED
  BY <1>2, <1>3, <1>5, <1>6

\* A set of numbers that is not empty has a least one.
LEMMA LeastNumber ==
  ASSUME NEW S \in SUBSET Nat, S # {}
  PROVE  \E n \in S : \A m \in S : n <= m
<1> SUFFICES ASSUME \A n \in S : \E m \in S : ~(n <= m) PROVE FALSE
  OBVIOUS
<1> DEFINE B == {n \in Nat : \A m \in S : n < m}
<1>1. 0 \in B
  <2> SUFFICES ASSUME NEW m \in S PROVE 0 < m
    OBVIOUS
  <2>1. m # 0
    <3>1. \E k \in S : ~(m <= k)
      OBVIOUS
    <3> QED
      BY <3>1
  <2> QED
    BY <2>1
<1>2. ASSUME NEW n \in Nat, n \in B PROVE n + 1 \in B
  <2> SUFFICES ASSUME NEW m \in S PROVE n + 1 < m
    OBVIOUS
  <2>1. PICK k \in S : ~(m <= k)
    OBVIOUS
  <2>2. n < m /\ n < k
    BY <1>2
  <2> QED
    BY <2>1, <2>2
<1>3. \A n \in Nat : n \in B
  <2> HIDE DEF B
  <2> QED
    BY <1>1, <1>2, SetInduction
<1>4. PICK k \in S : TRUE
  OBVIOUS
<1>5. k \in B
  BY <1>3
<1> QED
  BY <1>5

\* A function can be iterated: there is a function on the numbers whose values
\* are the start and what the step makes of the value before.
THEOREM Iterates ==
  ASSUME NEW S, NEW a \in S, NEW g \in [S -> S]
  PROVE  \E f \in [Nat -> S] : f[0] = a /\ \A n \in Nat : f[n + 1] = g[f[n]]
<1> DEFINE Upto(n, h) == /\ h \in [0..n -> S] /\ h[0] = a
                         /\ \A i \in 0..n : i < n => h[i + 1] = g[h[i]]
<1>1. \A n \in Nat : \E h : Upto(n, h)
  <2> DEFINE P == {n \in Nat : \E h : Upto(n, h)}
  <2>1. 0 \in P
    <3>1. Upto(0, [i \in 0..0 |-> a])
      OBVIOUS
    <3> QED
      BY <3>1
  <2>2. ASSUME NEW n \in Nat, n \in P PROVE n + 1 \in P
    <3>1. PICK h : Upto(n, h)
      BY <2>2
    <3> DEFINE k == [i \in 0..(n + 1) |-> IF i = n + 1 THEN g[h[n]] ELSE h[i]]
    <3>2. h[n] \in S /\ g[h[n]] \in S
      BY <3>1
    <3>3. k \in [0..(n + 1) -> S] /\ k[0] = a
      BY <3>1, <3>2
    <3>4. ASSUME NEW i \in 0..(n + 1), i < n + 1 PROVE k[i + 1] = g[k[i]]
      <4>1. CASE i = n
        BY <4>1
      <4>2. CASE i < n
        BY <3>1, <4>2
      <4> QED
        BY <3>4, <4>1, <4>2
    <3>5. Upto(n + 1, k)
      BY <3>3, <3>4
    <3> QED
      BY <3>5
  <2> HIDE DEF P
  <2>3. \A n \in Nat : n \in P
    BY <2>1, <2>2, SetInduction
  <2> QED
    BY <2>3 DEF P
<1>2. ASSUME NEW m \in Nat, NEW n \in Nat, m <= n, NEW h, NEW k, Upto(m, h), Upto(n, k)
      PROVE  h[m] = k[m]
  <2> DEFINE Q == {i \in Nat : i <= m => h[i] = k[i]}
  <2>1. 0 \in Q
    BY <1>2
  <2>2. ASSUME NEW i \in Nat, i \in Q PROVE i + 1 \in Q
    BY <1>2, <2>2
  <2>3. \A i \in Nat : i \in Q
    <3> HIDE DEF Q
    <3> QED
      BY <2>1, <2>2, SetInduction
  <2> QED
    BY <2>3
<1> DEFINE H(n) == CHOOSE h : Upto(n, h)
           f == [n \in Nat |-> H(n)[n]]
<1>3. \A n \in Nat : Upto(n, H(n))
  BY <1>1
<1> HIDE DEF H
<1>4. f \in [Nat -> S] /\ f[0] = a
  BY <1>3
<1>5. ASSUME NEW n \in Nat PROVE f[n + 1] = g[f[n]]
  <2>1. Upto(n, H(n)) /\ Upto(n + 1, H(n + 1))
    BY <1>3
  <2>2. H(n)[n] = H(n + 1)[n]
    <3> HIDE DEF Upto
    <3> QED
      BY <1>2, <2>1
  <2>3. H(n + 1)[n + 1] = g[H(n + 1)[n]]
    BY <2>1
  <2> QED
    BY <2>2, <2>3
<1> QED
  BY <1>4, <1>5

-----------------------------------------------------------------------------
(***************************************************************************)
(* Queues.                                                                 *)
(***************************************************************************)
\* What a queue holds, the URLs of the pages it holds, and that it holds one page
\* at most of a URL.
InQueue(q) == {q[i] : i \in DOMAIN q}

UrlsOf(q) == {q[i].url : i \in DOMAIN q}

NoDuplicate(q) == \A i, j \in DOMAIN q : q[i].url = q[j].url => i = j

\* The empty queue is the one of length 0.
LEMMA EmptyQueue ==
  ASSUME NEW S, NEW q \in Seq(S)
  PROVE  q = <<>> <=> Len(q) = 0
OBVIOUS

\* Taking the first element off a queue leaves a queue of such elements.
LEMMA QueueType ==
  ASSUME NEW S, NEW q \in Seq(S)
  PROVE  /\ q # <<>> => Head(q) \in S /\ Tail(q) \in Seq(S)
         /\ \A p \in S : Append(q, p) \in Seq(S)
OBVIOUS

\* qget takes one element off a queue, qput adds one.
LEMMA QueuePages ==
  ASSUME NEW S, NEW q \in Seq(S)
  PROVE  /\ q # <<>> => InQueue(q) = InQueue(Tail(q)) \cup {Head(q)}
         /\ \A p \in S : InQueue(Append(q, p)) = InQueue(q) \cup {p}
<1>1. ASSUME q # <<>> PROVE InQueue(q) = InQueue(Tail(q)) \cup {Head(q)}
  <2>1. /\ Len(q) \in Nat \ {0} /\ DOMAIN q = 1..Len(q) /\ Head(q) = q[1]
        /\ DOMAIN Tail(q) = 1..(Len(q) - 1)
        /\ \A i \in 1..(Len(q) - 1) : Tail(q)[i] = q[i + 1]
    BY <1>1
  <2>2. InQueue(Tail(q)) \cup {Head(q)} \subseteq InQueue(q)
    BY <2>1 DEF InQueue
  <2>3. ASSUME NEW i \in DOMAIN q PROVE q[i] \in InQueue(Tail(q)) \cup {Head(q)}
    <3>1. i # 1 => i - 1 \in DOMAIN Tail(q) /\ Tail(q)[i - 1] = q[i]
      BY <2>1
    <3> QED
      BY <2>1, <3>1 DEF InQueue
  <2> QED
    BY <2>2, <2>3 DEF InQueue
<1>2. ASSUME NEW p \in S PROVE InQueue(Append(q, p)) = InQueue(q) \cup {p}
  <2>1. /\ DOMAIN q = 1..Len(q) /\ Len(q) \in Nat
        /\ DOMAIN Append(q, p) = 1..(Len(q) + 1)
        /\ \A i \in 1..Len(q) : Append(q, p)[i] = q[i]
        /\ Append(q, p)[Len(q) + 1] = p
    OBVIOUS
  <2> QED
    BY <2>1 DEF InQueue
<1> QED
  BY <1>1, <1>2

\* Appending what is not in a sequence keeps its elements different.
LEMMA AppendOnce ==
  ASSUME NEW S, NEW s \in Seq(S), NEW e \in S, e \notin InQueue(s),
         \A j, k \in DOMAIN s : s[j] = s[k] => j = k
  PROVE  \A j, k \in DOMAIN Append(s, e) : Append(s, e)[j] = Append(s, e)[k] => j = k
<1>1. /\ DOMAIN s = 1..Len(s) /\ Len(s) \in Nat
      /\ DOMAIN Append(s, e) = 1..(Len(s) + 1)
      /\ \A i \in 1..Len(s) : Append(s, e)[i] = s[i]
      /\ Append(s, e)[Len(s) + 1] = e
  OBVIOUS
<1>2. \A i \in 1..Len(s) : s[i] # e
  BY <1>1 DEF InQueue
<1> QED
  BY <1>1, <1>2

\* qget takes one URL out of a queue without duplicates, qput adds one.
LEMMA QueueUrls ==
  ASSUME NEW S, NEW q \in Seq(S)
  PROVE  /\ q # <<>> /\ NoDuplicate(q) =>
              /\ Head(q).url \in UrlsOf(q)
              /\ UrlsOf(Tail(q)) = UrlsOf(q) \ {Head(q).url}
              /\ NoDuplicate(Tail(q))
         /\ \A p \in S :
              /\ UrlsOf(Append(q, p)) = UrlsOf(q) \cup {p.url}
              /\ NoDuplicate(q) /\ p.url \notin UrlsOf(q) => NoDuplicate(Append(q, p))
<1>1. ASSUME q # <<>>, NoDuplicate(q)
      PROVE  /\ Head(q).url \in UrlsOf(q)
             /\ UrlsOf(Tail(q)) = UrlsOf(q) \ {Head(q).url}
             /\ NoDuplicate(Tail(q))
  <2>1. Len(q) \in Nat \ {0} /\ DOMAIN q = 1..Len(q) /\ Head(q) = q[1]
    BY <1>1
  <2>2. /\ DOMAIN Tail(q) = 1..(Len(q) - 1)
        /\ \A i \in 1..(Len(q) - 1) : Tail(q)[i] = q[i + 1]
    BY <1>1
  <2>3. \A j \in 2..Len(q) : j - 1 \in DOMAIN Tail(q) /\ Tail(q)[j - 1] = q[j]
    BY <2>1, <2>2
  <2>4. NoDuplicate(Tail(q))
    BY <1>1, <2>1, <2>2 DEF NoDuplicate
  <2>5. UrlsOf(Tail(q)) \subseteq UrlsOf(q) \ {Head(q).url}
    BY <1>1, <2>1, <2>2 DEF NoDuplicate, UrlsOf
  <2>6. UrlsOf(q) \ {Head(q).url} \subseteq UrlsOf(Tail(q))
    <3> SUFFICES ASSUME NEW j \in DOMAIN q, q[j].url # Head(q).url
                 PROVE  q[j].url \in UrlsOf(Tail(q))
      BY DEF UrlsOf
    <3>1. j \in 2..Len(q)
      BY <2>1
    <3> QED
      BY <3>1, <2>3 DEF UrlsOf
  <2>7. Head(q).url \in UrlsOf(q)
    <3>1. 1 \in DOMAIN q
      BY <2>1
    <3> QED
      BY <2>1, <3>1 DEF UrlsOf
  <2> QED
    BY <2>4, <2>5, <2>6, <2>7
<1>2. ASSUME NEW p \in S
      PROVE  /\ UrlsOf(Append(q, p)) = UrlsOf(q) \cup {p.url}
             /\ NoDuplicate(q) /\ p.url \notin UrlsOf(q) => NoDuplicate(Append(q, p))
  <2>1. /\ DOMAIN q = 1..Len(q) /\ Len(q) \in Nat
        /\ DOMAIN Append(q, p) = 1..(Len(q) + 1)
        /\ \A i \in 1..Len(q) : Append(q, p)[i] = q[i]
        /\ Append(q, p)[Len(q) + 1] = p
    OBVIOUS
  <2> QED
    BY <2>1 DEF UrlsOf, NoDuplicate
<1> QED
  BY <1>1, <1>2

-----------------------------------------------------------------------------
(***************************************************************************)
(* Taking an element out of a sequence.                                    *)
(***************************************************************************)
\* A sequence without its i-th element.
Without(s, i) == [k \in 1..(Len(s) - 1) |-> IF k < i THEN s[k] ELSE s[k + 1]]

\* What the places of Without come from.
LEMMA WithoutType ==
  ASSUME NEW S, NEW s \in Seq(S), NEW i \in DOMAIN s
  PROVE  /\ Without(s, i) \in Seq(S) /\ Len(Without(s, i)) = Len(s) - 1
         /\ DOMAIN Without(s, i) = 1..(Len(s) - 1) /\ Len(s) \in Nat \ {0} /\ i \in 1..Len(s)
         /\ DOMAIN s = 1..Len(s)
         /\ \A k \in DOMAIN Without(s, i) :
              Without(s, i)[k] = (IF k < i THEN s[k] ELSE s[k + 1]) /\ k \in DOMAIN s /\ k + 1 \in DOMAIN s
         /\ Without(s, i) = <<>> <=> Len(s) = 1
<1> DEFINE t == Without(s, i)
<1>1. Len(s) \in Nat \ {0} /\ i \in 1..Len(s) /\ DOMAIN s = 1..Len(s)
  OBVIOUS
<1>2. /\ DOMAIN t = 1..(Len(s) - 1)
      /\ \A k \in DOMAIN t : t[k] = IF k < i THEN s[k] ELSE s[k + 1]
      /\ \A k \in DOMAIN t : k \in DOMAIN s /\ k + 1 \in DOMAIN s
  BY <1>1 DEF Without
<1>3. t \in Seq(S) /\ Len(t) = Len(s) - 1
  <2>1. \A k \in 1..(Len(s) - 1) : (IF k < i THEN s[k] ELSE s[k + 1]) \in S
    BY <1>1
  <2>2. Len(s) - 1 \in Nat
    BY <1>1
  <2> QED
    BY <1>1, <2>1, <2>2 DEF Without
<1> HIDE DEF t
<1>4. t = <<>> <=> Len(s) = 1
  BY <1>1, <1>3, EmptyQueue
<1> QED
  BY <1>1, <1>2, <1>3, <1>4 DEF t

\* It is what is before and behind the element.
LEMMA WithoutParts ==
  ASSUME NEW S, NEW s \in Seq(S), NEW i \in DOMAIN s
  PROVE  Without(s, i) = SubSeq(s, 1, i - 1) \o SubSeq(s, i + 1, Len(s))
<1> DEFINE a == SubSeq(s, 1, i - 1)
           b == SubSeq(s, i + 1, Len(s))
<1>1. Len(s) \in Nat \ {0} /\ i \in 1..Len(s) /\ DOMAIN s = 1..Len(s)
  OBVIOUS
<1>2. a \in Seq(S) /\ Len(a) = i - 1 /\ \A k \in 1..(i - 1) : a[k] = s[k]
  BY <1>1
<1>3. b \in Seq(S) /\ Len(b) = Len(s) - i /\ \A k \in 1..(Len(s) - i) : b[k] = s[i + k]
  BY <1>1
<1> HIDE DEF a, b
<1> DEFINE c == a \o b
<1>4. /\ c \in Seq(S) /\ Len(c) = Len(a) + Len(b)
      /\ \A k \in 1..(Len(a) + Len(b)) : c[k] = IF k <= Len(a) THEN a[k] ELSE b[k - Len(a)]
  BY <1>2, <1>3, ConcatProperties
<1> HIDE DEF c
<1>5. ASSUME NEW k \in 1..(Len(s) - 1) PROVE c[k] = IF k < i THEN s[k] ELSE s[k + 1]
  <2>1. CASE k < i
    BY <1>1, <1>2, <1>3, <1>4, <2>1
  <2>2. CASE ~(k < i)
    <3>1. c[k] = b[k - (i - 1)]
      BY <1>1, <1>2, <1>3, <1>4, <2>2
    <3>2. k - (i - 1) \in 1..(Len(s) - i) /\ i + (k - (i - 1)) = k + 1
      BY <1>1, <2>2
    <3> QED
      BY <1>3, <2>2, <3>1, <3>2
  <2> QED
    BY <2>1, <2>2
<1>6. c = [k \in 1..(Len(s) - 1) |-> c[k]]
  <2>1. Len(c) = Len(s) - 1
    BY <1>1, <1>2, <1>3, <1>4
  <2> QED
    BY <1>4, <2>1
<1>7. Without(s, i) = c
  BY <1>5, <1>6 DEF Without
<1> QED
  BY <1>7 DEF a, b, c

\* It holds what the sequence holds but for the element, if that was there once.
LEMMA WithoutElements ==
  ASSUME NEW S, NEW s \in Seq(S), NEW i \in DOMAIN s, \A j, k \in DOMAIN s : s[j] = s[k] => j = k
  PROVE  /\ InQueue(Without(s, i)) = InQueue(s) \ {s[i]}
         /\ \A j, k \in DOMAIN Without(s, i) : Without(s, i)[j] = Without(s, i)[k] => j = k
<1> DEFINE t == Without(s, i)
<1>1. /\ DOMAIN t = 1..(Len(s) - 1) /\ Len(s) \in Nat \ {0} /\ i \in 1..Len(s) /\ DOMAIN s = 1..Len(s)
      /\ \A k \in DOMAIN t : t[k] = (IF k < i THEN s[k] ELSE s[k + 1]) /\ k \in DOMAIN s /\ k + 1 \in DOMAIN s
  BY WithoutType
<1> HIDE DEF t
<1>2. \A j, k \in DOMAIN t : t[j] = t[k] => j = k
  <2> SUFFICES ASSUME NEW j \in DOMAIN t, NEW k \in DOMAIN t, t[j] = t[k] PROVE j = k
    OBVIOUS
  <2>1. PICK x \in DOMAIN s : t[j] = s[x] /\ x = IF j < i THEN j ELSE j + 1
    BY <1>1
  <2>2. PICK y \in DOMAIN s : t[k] = s[y] /\ y = IF k < i THEN k ELSE k + 1
    BY <1>1
  <2>3. x = y
    BY <2>1, <2>2
  <2>4. j \in Int /\ k \in Int /\ i \in Int
    BY <1>1
  <2> QED
    BY <2>1, <2>2, <2>3, <2>4
<1>3. InQueue(t) \subseteq InQueue(s) \ {s[i]}
  <2> SUFFICES ASSUME NEW k \in DOMAIN t PROVE t[k] \in InQueue(s) /\ t[k] # s[i]
    BY DEF InQueue
  <2>1. PICK y \in DOMAIN s : t[k] = s[y] /\ y = IF k < i THEN k ELSE k + 1
    BY <1>1
  <2>2. y # i
    BY <1>1, <2>1
  <2> QED
    BY <2>1, <2>2 DEF InQueue
<1>4. InQueue(s) \ {s[i]} \subseteq InQueue(t)
  <2> SUFFICES ASSUME NEW y \in DOMAIN s, s[y] # s[i] PROVE s[y] \in InQueue(t)
    BY DEF InQueue
  <2>1. \E k \in DOMAIN t : t[k] = s[y]
    <3>1. CASE y < i
      <4>1. y \in DOMAIN t /\ t[y] = s[y]
        BY <1>1, <3>1
      <4> QED
        BY <4>1
    <3>2. CASE y > i
      <4>1. y - 1 \in DOMAIN t /\ ~(y - 1 < i) /\ (y - 1) + 1 = y
        BY <1>1, <3>2
      <4>2. t[y - 1] = s[y]
        BY <1>1, <4>1
      <4> QED
        BY <4>1, <4>2
    <3>3. y # i /\ y \in Int /\ i \in Int
      BY <1>1
    <3> QED
      BY <3>1, <3>2, <3>3
  <2> QED
    BY <2>1 DEF InQueue
<1> QED
  BY <1>2, <1>3, <1>4 DEF t

-----------------------------------------------------------------------------
(***************************************************************************)
(* Sequences that are made step by step: what is selected from one, and    *)
(* the concatenation of many.                                              *)
(***************************************************************************)
\* There is a function that has the values of g, applied again and again from a on.
Iterated(S, a, g) == \E f \in [Nat -> S] : f[0] = a /\ \A k \in Nat : f[k + 1] = g[f[k]]

\* Every function on a set has such iterates.
LEMMA Iterable ==
  ASSUME NEW S, NEW a \in S, NEW g \in [S -> S]
  PROVE  Iterated(S, a, g)
BY Iterates DEF Iterated

\* A function on the numbers up to n is given by its first value and its steps.
Recursed(n, T, a, g) ==
  \E f \in [0..n -> T] : f[0] = a /\ \A i \in 1..n : f[i] = g[<<i, f[i - 1]>>]

\* Every step and first value have such a function.
LEMMA Recursion ==
  ASSUME NEW n \in Nat, NEW T, NEW a \in T, NEW g \in [(1..n) \X T -> T]
  PROVE  Recursed(n, T, a, g)
<1> DEFINE R == Nat \X T
           step == [x \in R |-> IF x[1] < n THEN <<x[1] + 1, g[<<x[1] + 1, x[2]>>]>>
                                ELSE <<x[1] + 1, x[2]>>]
<1>1. step \in [R -> R]
  <2> SUFFICES ASSUME NEW k \in Nat, NEW x \in T
               PROVE  (IF k < n THEN <<k + 1, g[<<k + 1, x>>]>> ELSE <<k + 1, x>>) \in R
    OBVIOUS
  <2>1. CASE k < n
    <3>1. k + 1 \in 1..n
      BY <2>1
    <3> QED
      BY <2>1, <3>1
  <2>2. CASE ~(k < n)
    BY <2>2
  <2> QED
    BY <2>1, <2>2
<1>2. \E it \in [Nat -> R] : it[0] = <<0, a>> /\ \A k \in Nat : it[k + 1] = step[it[k]]
  <2>1. PICK b, Q, h : b = <<0, a>> /\ Q = R /\ h = step
    OBVIOUS
  <2>2. b \in Q /\ h \in [Q -> Q]
    BY <1>1, <2>1
  <2>3. Iterated(Q, b, h)
    BY <2>2, Iterable
  <2> QED
    BY <2>1, <2>3 DEF Iterated
<1>3. PICK it \in [Nat -> R] : it[0] = <<0, a>> /\ \A k \in Nat : it[k + 1] = step[it[k]]
  BY <1>2
<1>4. ASSUME NEW k \in Nat
      PROVE  /\ it[k] \in R /\ it[k][1] \in Nat /\ it[k][2] \in T
             /\ it[k + 1][1] = it[k][1] + 1
             /\ it[k][1] < n => it[k + 1][2] = g[<<it[k][1] + 1, it[k][2]>>]
  <2>1. it[k] \in R /\ it[k + 1] = step[it[k]]
    BY <1>3
  <2>2. PICK x : x = it[k]
    OBVIOUS
  <2>3. it[k + 1] = IF x[1] < n THEN <<x[1] + 1, g[<<x[1] + 1, x[2]>>]>> ELSE <<x[1] + 1, x[2]>>
    BY <2>1, <2>2
  <2>4. x[1] \in Nat /\ x[2] \in T
    BY <2>1, <2>2
  <2>5. it[k + 1][1] = x[1] + 1 /\ (x[1] < n => it[k + 1][2] = g[<<x[1] + 1, x[2]>>])
    BY <2>3
  <2> HIDE DEF R, step
  <2> QED
    BY <2>1, <2>2, <2>4, <2>5
<1> DEFINE P == {k \in Nat : it[k][1] = k}
<1>5. \A k \in Nat : k \in P
  <2>1. 0 \in P
    BY <1>3
  <2>2. ASSUME NEW k \in Nat, k \in P PROVE k + 1 \in P
    <3>1. it[k][1] = k
      BY <2>2
    <3> HIDE DEF R, step, P
    <3>2. it[k + 1][1] = it[k][1] + 1
      BY <1>4
    <3> QED
      BY <3>1, <3>2 DEF P
  <2> HIDE DEF P
  <2> QED
    BY <2>1, <2>2, SetInduction
<1>6. PICK f : f = [i \in 0..n |-> it[i][2]]
  OBVIOUS
<1>7. f \in [0..n -> T] /\ f[0] = a
  <2>1. \A i \in 0..n : it[i][2] \in T
    BY <1>4
  <2>2. it[0][2] = a
    BY <1>3
  <2> HIDE DEF R, step, P
  <2> QED
    BY <1>6, <2>1, <2>2
<1>8. ASSUME NEW i \in 1..n PROVE f[i] = g[<<i, f[i - 1]>>]
  <2>1. PICK k \in Nat : k = i - 1 /\ k + 1 = i /\ k < n /\ k \in 0..n
    OBVIOUS
  <2>2. it[k][1] = k
    BY <1>5
  <2> HIDE DEF R, step, P
  <2>3. it[k + 1][2] = g[<<k + 1, it[k][2]>>]
    BY <1>4, <2>1, <2>2
  <2> QED
    BY <1>6, <2>1, <2>3
<1> QED
  BY <1>7, <1>8 DEF Recursed

\* The function that FlattenSeq describes exists.
LEMMA FlattenSteps ==
  ASSUME NEW S, NEW seqs \in Seq(Seq(S)), seqs # <<>>
  PROVE  \E f : /\ \A i \in 1..Len(seqs) : f[i] \in Seq(S)
                /\ f[1] = seqs[1] /\ \A i \in 2..Len(seqs) : f[i] = f[i - 1] \o seqs[i]
                /\ FlattenSeq(seqs) = f[Len(seqs)]
<1>1. PICK n : n = Len(seqs)
  OBVIOUS
<1>2. n \in Nat \ {0} /\ \A i \in 1..n : seqs[i] \in Seq(S)
  BY <1>1, EmptyQueue
<1> DEFINE Flat(f) == f = [i \in 1..n |-> IF i = 1 THEN seqs[i] ELSE f[i - 1] \o seqs[i]]
           g == [x \in (1..n) \X Seq(S) |-> IF x[1] = 1 THEN seqs[x[1]] ELSE x[2] \o seqs[x[1]]]
<1>3. \E f : Flat(f)
  <2>1. PICK h, T, a : h = g /\ T = Seq(S) /\ a = <<>>
    OBVIOUS
  <2>2. h \in [(1..n) \X T -> T]
    <3> SUFFICES ASSUME NEW i \in 1..n, NEW x \in Seq(S)
                 PROVE  (IF i = 1 THEN seqs[i] ELSE x \o seqs[i]) \in Seq(S)
      BY <2>1
    <3>1. seqs[i] \in Seq(S)
      BY <1>2
    <3>2. x \o seqs[i] \in Seq(S)
      BY <3>1
    <3> QED
      BY <3>1, <3>2
  <2>3. a \in T
    <3>1. <<>> \in Seq(S)
      OBVIOUS
    <3> QED
      BY <2>1, <3>1
  <2>4. Recursed(n, T, a, h)
    BY <1>2, <2>2, <2>3, Recursion
  <2>5. PICK f \in [0..n -> T] : \A i \in 1..n : f[i] = h[<<i, f[i - 1]>>]
    BY <2>4 DEF Recursed
  <2>6. ASSUME NEW i \in 1..n PROVE f[i] = IF i = 1 THEN seqs[i] ELSE f[i - 1] \o seqs[i]
    <3>1. i - 1 \in 0..n
      BY <1>2
    <3>2. f[i - 1] \in Seq(S)
      BY <2>1, <3>1
    <3>3. f[i] = g[<<i, f[i - 1]>>]
      BY <2>1, <2>5
    <3> QED
      BY <3>2, <3>3
  <2>7. PICK e : e = [i \in 1..n |-> f[i]]
    OBVIOUS
  <2>8. ASSUME NEW i \in 1..n PROVE e[i] = IF i = 1 THEN seqs[i] ELSE e[i - 1] \o seqs[i]
    <3>1. i # 1 => e[i - 1] = f[i - 1]
      BY <1>2, <2>7
    <3> QED
      BY <2>6, <2>7, <3>1
  <2>9. e = [i \in 1..n |-> e[i]]
    BY <2>7
  <2>10. Flat(e)
    BY <2>8, <2>9
  <2> QED
    BY <2>10
<1>4. PICK f : Flat(f) /\ f = CHOOSE h : Flat(h)
  BY <1>3
<1>5. FlattenSeq(seqs) = f[n]
  BY <1>1, <1>2, <1>4 DEF FlattenSeq
<1>6. f[1] = seqs[1] /\ \A i \in 2..n : f[i] = f[i - 1] \o seqs[i]
  <2>1. \A i \in 1..n : f[i] = IF i = 1 THEN seqs[i] ELSE f[i - 1] \o seqs[i]
    BY <1>4
  <2>2. 1 \in 1..n /\ \A i \in 2..n : i \in 1..n /\ i # 1
    BY <1>2
  <2> QED
    BY <2>1, <2>2
<1> DEFINE P == {k \in Nat : k \in 1..n => f[k] \in Seq(S)}
<1>7. \A k \in Nat : k \in P
  <2>1. 0 \in P
    OBVIOUS
  <2>2. ASSUME NEW k \in Nat, k \in P PROVE k + 1 \in P
    <3> SUFFICES ASSUME k + 1 \in 1..n PROVE f[k + 1] \in Seq(S)
      OBVIOUS
    <3>1. seqs[k + 1] \in Seq(S)
      BY <1>2
    <3>2. CASE k = 0
      BY <1>6, <3>1, <3>2
    <3>3. CASE k # 0
      <4>1. k \in 1..n /\ (k + 1) - 1 = k /\ k + 1 \in 2..n
        BY <1>2, <3>3
      <4>2. f[k] \in Seq(S) /\ f[k + 1] = f[k] \o seqs[k + 1]
        BY <1>6, <2>2, <4>1
      <4> QED
        BY <3>1, <4>2
    <3> QED
      BY <3>2, <3>3
  <2> HIDE DEF P
  <2> QED
    BY <2>1, <2>2, SetInduction
<1> HIDE DEF Flat
<1>8. \A i \in 1..n : f[i] \in Seq(S)
  BY <1>2, <1>7
<1> QED
  BY <1>1, <1>5, <1>6, <1>8

\* The concatenation of sequences of elements is one.
LEMMA FlattenType ==
  ASSUME NEW S, NEW seqs \in Seq(Seq(S))
  PROVE  FlattenSeq(seqs) \in Seq(S)
<1>1. CASE seqs = <<>>
  <2>1. FlattenSeq(seqs) = seqs /\ <<>> \in Seq(S)
    <3>1. Len(seqs) = 0
      BY <1>1
    <3>2. FlattenSeq(seqs) = seqs
      BY <3>1 DEF FlattenSeq
    <3>3. <<>> \in Seq(S)
      OBVIOUS
    <3> QED
      BY <3>2, <3>3
  <2> QED
    BY <1>1, <2>1
<1>2. CASE seqs # <<>>
  <2>1. PICK f : (\A i \in 1..Len(seqs) : f[i] \in Seq(S)) /\ FlattenSeq(seqs) = f[Len(seqs)]
    BY <1>2, FlattenSteps
  <2>2. Len(seqs) \in 1..Len(seqs)
    BY <1>2, EmptyQueue
  <2> QED
    BY <2>1, <2>2
<1> QED
  BY <1>1, <1>2


\* A set that holds the empty sequence and what can be appended to its members holds
\* all sequences.
LEMMA SeqInduction ==
  ASSUME NEW S, NEW G, <<>> \in G, \A s \in Seq(S), e \in S : s \in G => Append(s, e) \in G
  PROVE  \A s \in Seq(S) : s \in G
<1> DEFINE P == {n \in Nat : \A s \in Seq(S) : Len(s) = n => s \in G}
<1>1. 0 \in P
  <2> SUFFICES ASSUME NEW s \in Seq(S), Len(s) = 0 PROVE s \in G
    OBVIOUS
  <2>1. s = <<>>
    BY EmptyQueue
  <2> QED
    BY <2>1
<1>2. ASSUME NEW n \in Nat, n \in P PROVE n + 1 \in P
  <2> SUFFICES ASSUME NEW s \in Seq(S), Len(s) = n + 1 PROVE s \in G
    OBVIOUS
  <2>1. s # <<>>
    BY EmptyQueue
  <2>2. PICK t \in Seq(S), e \in S : s = Append(t, e)
    BY <2>1, SequenceEmptyOrAppend
  <2>3. Len(t) = n
    BY <2>2, AppendProperties, LenProperties
  <2> QED
    BY <1>2, <2>2, <2>3
<1>3. \A n \in Nat : n \in P
  <2> HIDE DEF P
  <2> QED
    BY <1>1, <1>2, SetInduction
<1> QED
  BY <1>3, LenProperties

\* The steps in which Selected goes through a sequence.
Selecting(f, s, T) ==
  f = [i \in 0..Len(s) |->
         IF i = 0 THEN <<>> ELSE IF s[i] \in T THEN Append(f[i - 1], s[i]) ELSE f[i - 1]]

\* What is selected is the last of a sequence of values, a step for each element.
LEMMA SelectedSteps ==
  ASSUME NEW S, NEW s \in Seq(S), NEW T
  PROVE  \E f : /\ \A i \in 0..Len(s) : f[i] \in Seq(S)
                /\ f[0] = <<>>
                /\ \A i \in 1..Len(s) :
                     f[i] = IF s[i] \in T THEN Append(f[i - 1], s[i]) ELSE f[i - 1]
                /\ Selected(s, T) = f[Len(s)]
<1>1. PICK n : n = Len(s) /\ n \in Nat /\ \A i \in 1..n : s[i] \in S
  OBVIOUS
<1> DEFINE g == [x \in (1..n) \X Seq(S) |-> IF s[x[1]] \in T THEN Append(x[2], s[x[1]]) ELSE x[2]]
<1>2. \E f : Selecting(f, s, T)
  <2>1. PICK h, R, a : h = g /\ R = Seq(S) /\ a = <<>>
    OBVIOUS
  <2>2. h \in [(1..n) \X R -> R]
    <3> SUFFICES ASSUME NEW i \in 1..n, NEW x \in Seq(S)
                 PROVE  (IF s[i] \in T THEN Append(x, s[i]) ELSE x) \in Seq(S)
      BY <2>1
    <3>1. Append(x, s[i]) \in Seq(S)
      BY <1>1
    <3> QED
      BY <3>1
  <2>3. a \in R
    <3>1. <<>> \in Seq(S)
      OBVIOUS
    <3> QED
      BY <2>1, <3>1
  <2>4. Recursed(n, R, a, h)
    BY <1>1, <2>2, <2>3, Recursion
  <2>5. PICK f \in [0..n -> R] : f[0] = a /\ \A i \in 1..n : f[i] = h[<<i, f[i - 1]>>]
    BY <2>4 DEF Recursed
  <2>6. ASSUME NEW i \in 1..n
        PROVE  f[i] = IF s[i] \in T THEN Append(f[i - 1], s[i]) ELSE f[i - 1]
    <3>1. i - 1 \in 0..n
      BY <1>1
    <3>2. f[i - 1] \in Seq(S)
      BY <2>1, <3>1
    <3>3. f[i] = g[<<i, f[i - 1]>>]
      BY <2>1, <2>5
    <3> QED
      BY <3>2, <3>3
  <2>7. ASSUME NEW i \in 0..n
        PROVE  f[i] = IF i = 0 THEN <<>> ELSE IF s[i] \in T THEN Append(f[i - 1], s[i]) ELSE f[i - 1]
    <3>1. CASE i = 0
      BY <2>1, <2>5, <3>1
    <3>2. CASE i # 0
      <4>1. i \in 1..n
        BY <3>2
      <4> QED
        BY <2>6, <3>2, <4>1
    <3> QED
      BY <3>1, <3>2
  <2>8. f = [i \in 0..n |-> f[i]]
    BY <2>5
  <2>9. Selecting(f, s, T)
    BY <1>1, <2>7, <2>8 DEF Selecting
  <2> QED
    BY <2>9
<1>3. PICK f : Selecting(f, s, T) /\ f = CHOOSE h : Selecting(h, s, T)
  BY <1>2
<1>4. Selected(s, T) = f[n]
  BY <1>1, <1>3 DEF Selected, Selecting
<1>5. /\ f[0] = <<>>
      /\ \A i \in 1..n : f[i] = IF s[i] \in T THEN Append(f[i - 1], s[i]) ELSE f[i - 1]
  <2>1. \A i \in 0..n : f[i] = IF i = 0 THEN <<>> ELSE IF s[i] \in T THEN Append(f[i - 1], s[i]) ELSE f[i - 1]
    BY <1>1, <1>3 DEF Selecting
  <2>2. 0 \in 0..n /\ \A i \in 1..n : i \in 0..n /\ i # 0
    BY <1>1
  <2> QED
    BY <2>1, <2>2
<1> DEFINE P == {k \in Nat : k <= n => f[k] \in Seq(S)}
<1>6. \A k \in Nat : k \in P
  <2>1. 0 \in P
    <3>1. <<>> \in Seq(S)
      OBVIOUS
    <3> QED
      BY <1>5, <3>1
  <2>2. ASSUME NEW k \in Nat, k \in P PROVE k + 1 \in P
    <3> SUFFICES ASSUME k + 1 <= n PROVE f[k + 1] \in Seq(S)
      OBVIOUS
    <3>1. k + 1 \in 1..n /\ (k + 1) - 1 = k /\ f[k] \in Seq(S)
      BY <1>1, <2>2
    <3>2. s[k + 1] \in S
      BY <1>1, <3>1
    <3>3. f[k + 1] = IF s[k + 1] \in T THEN Append(f[k], s[k + 1]) ELSE f[k]
      BY <1>5, <3>1
    <3>4. Append(f[k], s[k + 1]) \in Seq(S)
      BY <3>1, <3>2
    <3> QED
      BY <3>1, <3>3, <3>4
  <2> HIDE DEF P
  <2> QED
    BY <2>1, <2>2, SetInduction
<1>7. \A i \in 0..n : f[i] \in Seq(S)
  BY <1>1, <1>6
<1> QED
  BY <1>1, <1>4, <1>5, <1>7

\* What is selected is a sequence; of the empty sequence, and of one with a new
\* element at the end.
LEMMA SelectedType ==
  ASSUME NEW S, NEW s \in Seq(S), NEW T
  PROVE  Selected(s, T) \in Seq(S)
<1>1. PICK f : (\A i \in 0..Len(s) : f[i] \in Seq(S)) /\ Selected(s, T) = f[Len(s)]
  BY SelectedSteps
<1>2. Len(s) \in 0..Len(s)
  BY LenProperties
<1> QED
  BY <1>1, <1>2

\* Nothing is selected from the empty sequence.
LEMMA SelectedEmpty ==
  ASSUME NEW T
  PROVE  Selected(<<>>, T) = <<>>
<1>1. PICK S, s : S = {} /\ s = <<>> /\ s \in Seq(S) /\ Len(s) = 0
  <2>1. <<>> \in Seq({}) /\ Len(<<>>) = 0
    BY EmptySeq
  <2> QED
    BY <2>1
<1>2. PICK f : f[0] = <<>> /\ Selected(s, T) = f[Len(s)]
  <2>1. s \in Seq(S)
    BY <1>1
  <2> QED
    BY <2>1, SelectedSteps
<1> QED
  BY <1>1, <1>2

\* The last element is selected if it is wanted.
LEMMA SelectedAppend ==
  ASSUME NEW S, NEW s \in Seq(S), NEW e \in S, NEW T
  PROVE  Selected(Append(s, e), T) = IF e \in T THEN Append(Selected(s, T), e) ELSE Selected(s, T)
<1>1. PICK t, n : t = Append(s, e) /\ n = Len(s)
  OBVIOUS
<1>2. /\ n \in Nat /\ t \in Seq(S) /\ Len(t) = n + 1 /\ t[n + 1] = e
      /\ \A i \in 1..n : t[i] = s[i]
  BY <1>1, AppendProperties, LenProperties
<1>3. PICK f : /\ f[0] = <<>>
               /\ \A i \in 1..n : f[i] = IF s[i] \in T THEN Append(f[i - 1], s[i]) ELSE f[i - 1]
               /\ Selected(s, T) = f[n]
  BY <1>1, SelectedSteps
<1>4. PICK h : /\ h[0] = <<>>
               /\ \A i \in 1..(n + 1) : h[i] = IF t[i] \in T THEN Append(h[i - 1], t[i]) ELSE h[i - 1]
               /\ Selected(t, T) = h[n + 1]
  <2>1. PICK h : /\ h[0] = <<>>
                 /\ \A i \in 1..Len(t) : h[i] = IF t[i] \in T THEN Append(h[i - 1], t[i]) ELSE h[i - 1]
                 /\ Selected(t, T) = h[Len(t)]
    <3>1. t \in Seq(S)
      BY <1>2
    <3> QED
      BY <3>1, SelectedSteps
  <2> QED
    BY <1>2, <2>1
<1> DEFINE P == {k \in Nat : k <= n => f[k] = h[k]}
<1>5. \A k \in Nat : k \in P
  <2>1. 0 \in P
    BY <1>3, <1>4
  <2>2. ASSUME NEW k \in Nat, k \in P PROVE k + 1 \in P
    <3> SUFFICES ASSUME k + 1 <= n PROVE f[k + 1] = h[k + 1]
      OBVIOUS
    <3>1. k + 1 \in 1..n /\ k + 1 \in 1..(n + 1) /\ (k + 1) - 1 = k /\ f[k] = h[k]
      BY <1>2, <2>2
    <3>2. f[k + 1] = IF s[k + 1] \in T THEN Append(f[k], s[k + 1]) ELSE f[k]
      BY <1>3, <3>1
    <3>3. h[k + 1] = IF t[k + 1] \in T THEN Append(h[k], t[k + 1]) ELSE h[k]
      BY <1>4, <3>1
    <3>4. t[k + 1] = s[k + 1]
      BY <1>2, <3>1
    <3> QED
      BY <3>1, <3>2, <3>3, <3>4
  <2> HIDE DEF P
  <2> QED
    BY <2>1, <2>2, SetInduction
<1>6. f[n] = h[n]
  BY <1>2, <1>5
<1>7. n + 1 \in 1..(n + 1) /\ (n + 1) - 1 = n
  BY <1>2
<1>8. h[n + 1] = IF e \in T THEN Append(h[n], e) ELSE h[n]
  BY <1>2, <1>4, <1>7
<1> QED
  BY <1>1, <1>3, <1>4, <1>6, <1>8

\* What is selected from two sequences one after the other.
LEMMA SelectedConcat ==
  ASSUME NEW S, NEW s \in Seq(S), NEW t \in Seq(S), NEW T
  PROVE  Selected(s \o t, T) = Selected(s, T) \o Selected(t, T)
<1> DEFINE G == {u \in Seq(S) : Selected(s \o u, T) = Selected(s, T) \o Selected(u, T)}
<1>1. <<>> \in G
  <2>1. <<>> \in Seq(S) /\ s \o <<>> = s /\ Selected(<<>>, T) = <<>>
    BY EmptySeq, ConcatEmptySeq, SelectedEmpty
  <2>2. Selected(s, T) \o <<>> = Selected(s, T)
    BY SelectedType, ConcatEmptySeq
  <2> QED
    BY <2>1, <2>2
<1>2. ASSUME NEW u \in Seq(S), NEW e \in S, u \in G PROVE Append(u, e) \in G
  <2>1. PICK a, b, v : a = Selected(s, T) /\ b = Selected(u, T) /\ v = s \o u
    OBVIOUS
  <2>2. a \in Seq(S) /\ b \in Seq(S) /\ v \in Seq(S)
    BY <2>1, SelectedType, ConcatProperties
  <2>3. s \o Append(u, e) = Append(v, e) /\ a \o Append(b, e) = Append(a \o b, e)
    <3>1. ASSUME NEW x \in Seq(S), NEW y \in Seq(S) PROVE x \o Append(y, e) = Append(x \o y, e)
      <4>1. <<e>> \in Seq(S) /\ x \o y \in Seq(S)
        BY ConcatProperties
      <4>2. Append(y, e) = y \o <<e>> /\ Append(x \o y, e) = (x \o y) \o <<e>>
        BY <4>1, AppendIsConcat
      <4>3. (x \o y) \o <<e>> = x \o (y \o <<e>>)
        BY <4>1, ConcatAssociative
      <4> QED
        BY <4>2, <4>3
    <3> QED
      BY <2>1, <2>2, <3>1
  <2>4. Selected(Append(v, e), T) = IF e \in T THEN Append(Selected(v, T), e) ELSE Selected(v, T)
    BY <2>2, SelectedAppend
  <2>5. Selected(Append(u, e), T) = IF e \in T THEN Append(b, e) ELSE b
    BY <2>1, SelectedAppend
  <2>6. Selected(v, T) = a \o b
    BY <1>2, <2>1
  <2>7. Append(u, e) \in Seq(S)
    BY AppendProperties
  <2>8. Selected(s \o Append(u, e), T) = a \o Selected(Append(u, e), T)
    BY <2>3, <2>4, <2>5, <2>6
  <2> QED
    BY <2>1, <2>7, <2>8
<1>3. \A u \in Seq(S) : u \in G
  <2> HIDE DEF G
  <2> QED
    BY <1>1, <1>2, SeqInduction
<1> QED
  BY <1>3

\* Nothing is selected if nothing of the sequence is wanted.
LEMMA SelectedNone ==
  ASSUME NEW S, NEW s \in Seq(S), NEW T, \A i \in 1..Len(s) : s[i] \notin T
  PROVE  Selected(s, T) = <<>>
<1>1. PICK f : /\ f[0] = <<>>
               /\ \A i \in 1..Len(s) : f[i] = IF s[i] \in T THEN Append(f[i - 1], s[i]) ELSE f[i - 1]
               /\ Selected(s, T) = f[Len(s)]
  BY SelectedSteps
<1>2. PICK n : n = Len(s) /\ n \in Nat
  BY LenProperties
<1>3. \A i \in 1..n : f[i] = f[i - 1]
  BY <1>1, <1>2
<1> DEFINE P == {k \in Nat : k <= n => f[k] = <<>>}
<1>4. \A k \in Nat : k \in P
  <2>1. 0 \in P
    BY <1>1
  <2>2. ASSUME NEW k \in Nat, k \in P PROVE k + 1 \in P
    <3> SUFFICES ASSUME k + 1 <= n PROVE f[k + 1] = <<>>
      OBVIOUS
    <3>1. k + 1 \in 1..n /\ (k + 1) - 1 = k /\ f[k] = <<>>
      BY <1>2, <2>2
    <3> QED
      BY <1>3, <3>1
  <2> HIDE DEF P
  <2> QED
    BY <2>1, <2>2, SetInduction
<1>5. f[n] = <<>>
  BY <1>2, <1>4
<1> QED
  BY <1>1, <1>2, <1>5


\* What is selected from one element.
LEMMA SelectedOne ==
  ASSUME NEW S, NEW x \in S, NEW T
  PROVE  Selected(<<x>>, T) = IF x \in T THEN <<x>> ELSE <<>>
<1>1. PICK e, o : e = <<>> /\ o = <<x>>
  OBVIOUS
<1>2. e \in Seq(S)
  BY <1>1, EmptySeq
<1>3. Append(e, x) = e \o <<x>>
  BY <1>2, AppendIsConcat
<1>4. o \in Seq(S)
  BY <1>1
<1>5. e \o o = o
  BY <1>1, <1>4, ConcatEmptySeq
<1>6. Append(e, x) = o
  BY <1>1, <1>3, <1>5
<1>7. Selected(Append(e, x), T) = IF x \in T THEN Append(Selected(e, T), x) ELSE Selected(e, T)
  BY <1>2, SelectedAppend
<1>8. Selected(e, T) = e
  BY <1>1, SelectedEmpty
<1> QED
  BY <1>1, <1>6, <1>7, <1>8

\* What is selected from two sequences, and from them with an element between them.
SelectsParts(a, x, b, T) ==
  /\ Selected(a \o b, T) = Selected(a, T) \o Selected(b, T)
  /\ x \notin T => Selected(a \o (<<x>> \o b), T) = Selected(a, T) \o Selected(b, T)
  /\ x \in T => Selected(a \o (<<x>> \o b), T) = Selected(a, T) \o (<<x>> \o Selected(b, T))

\* Taking an element out of a sequence takes it out of what is selected, if it was.
LEMMA SelectedThree ==
  ASSUME NEW S, NEW a \in Seq(S), NEW x \in S, NEW b \in Seq(S), NEW T
  PROVE  SelectsParts(a, x, b, T)
<1>1. Selected(a \o b, T) = Selected(a, T) \o Selected(b, T)
  BY SelectedConcat
<1>2. PICK o : o = <<x>>
  OBVIOUS
<1>3. o \in Seq(S)
  BY <1>2
<1>4. PICK c : c = o \o b
  OBVIOUS
<1>5. c \in Seq(S)
  BY <1>3, <1>4, ConcatProperties
<1>6. Selected(o \o b, T) = Selected(o, T) \o Selected(b, T)
  BY <1>3, SelectedConcat
<1>7. Selected(a \o c, T) = Selected(a, T) \o Selected(c, T)
  BY <1>5, SelectedConcat
<1>8. Selected(o, T) = IF x \in T THEN o ELSE <<>>
  BY <1>2, SelectedOne
<1>9. PICK r : r = Selected(b, T)
  OBVIOUS
<1>10. r \in Seq(S)
  BY <1>9, SelectedType
<1>11. <<>> \o r = r
  BY <1>10, ConcatEmptySeq
<1>12. x \notin T => Selected(a \o c, T) = Selected(a, T) \o r
  BY <1>4, <1>6, <1>7, <1>8, <1>9, <1>11
<1>13. x \in T => Selected(a \o c, T) = Selected(a, T) \o (o \o r)
  BY <1>4, <1>6, <1>7, <1>8, <1>9
<1> QED
  BY <1>1, <1>2, <1>4, <1>9, <1>12, <1>13 DEF SelectsParts

\* A sequence is what is before one of its elements, the element, and what is after it.
LEMMA SeqParts ==
  ASSUME NEW S, NEW s \in Seq(S), NEW i \in 1..Len(s)
  PROVE  /\ SubSeq(s, 1, i - 1) \in Seq(S) /\ SubSeq(s, i + 1, Len(s)) \in Seq(S) /\ s[i] \in S
         /\ s = SubSeq(s, 1, i - 1) \o (<<s[i]>> \o SubSeq(s, i + 1, Len(s)))
<1>1. PICK n, x : n = Len(s) /\ n \in Nat /\ x = s[i] /\ x \in S
  BY ElementOfSeq, LenProperties
<1>2. SubSeq(s, 1, i - 1) \o SubSeq(s, i, n) = SubSeq(s, 1, n)
  <2>1. /\ 1 \in 1..(Len(s) + 1) /\ i - 1 \in (1 - 1)..Len(s) /\ n \in (i - 1)..Len(s)
        /\ (i - 1) + 1 = i
    BY <1>1
  <2>2. SubSeq(s, 1, i - 1) \o SubSeq(s, (i - 1) + 1, n) = SubSeq(s, 1, n)
    BY <2>1, ConcatAdjacentSubSeq
  <2> QED
    BY <2>1, <2>2
<1>3. SubSeq(s, i, n) = <<x>> \o SubSeq(s, i + 1, n)
  <2>1. n \in i..Len(s)
    BY <1>1
  <2> QED
    BY <1>1, <2>1, SubSeqRecursiveFirst
<1>4. SubSeq(s, 1, n) = s
  BY <1>1, SubSeqFull
<1>5. SubSeq(s, 1, i - 1) \in Seq(S) /\ SubSeq(s, i + 1, n) \in Seq(S)
  BY <1>1
<1> QED
  BY <1>1, <1>2, <1>3, <1>4, <1>5

\* What is selected from s, and what without its element x, which is between a and b.
SelectsWithout(s, a, x, b, T) ==
  /\ Selected(a \o b, T) = Selected(a, T) \o Selected(b, T)
  /\ x \notin T => Selected(a \o b, T) = Selected(s, T)
  /\ x \in T => Selected(s, T) = Selected(a, T) \o (<<x>> \o Selected(b, T))

\* The two together.
LEMMA SelectedParts ==
  ASSUME NEW S, NEW s \in Seq(S), NEW i \in 1..Len(s), NEW a, NEW b, NEW T,
         a = SubSeq(s, 1, i - 1), b = SubSeq(s, i + 1, Len(s))
  PROVE  a \in Seq(S) /\ b \in Seq(S) /\ s[i] \in S /\ SelectsWithout(s, a, s[i], b, T)
<1>1. PICK x : x = s[i]
  OBVIOUS
<1>2. a \in Seq(S) /\ b \in Seq(S) /\ x \in S /\ s = a \o (<<x>> \o b)
  BY <1>1, SeqParts
<1>3. SelectsParts(a, x, b, T)
  BY <1>2, SelectedThree
<1>4. PICK o, c : o = <<x>> /\ c = o \o b
  OBVIOUS
<1>5. s = a \o c
  BY <1>2, <1>4
<1>6. /\ Selected(a \o b, T) = Selected(a, T) \o Selected(b, T)
      /\ x \notin T => Selected(a \o c, T) = Selected(a, T) \o Selected(b, T)
      /\ x \in T => Selected(a \o c, T) = Selected(a, T) \o (<<x>> \o Selected(b, T))
  BY <1>3, <1>4 DEF SelectsParts
<1> QED
  BY <1>1, <1>2, <1>5, <1>6 DEF SelectsWithout

\* The first element that is wanted is the first one selected; without it the rest is.
LEMMA SelectedFirst ==
  ASSUME NEW S, NEW s \in Seq(S), NEW i \in 1..Len(s), NEW T, s[i] \in T,
         \A j \in 1..Len(s) : j < i => s[j] \notin T
  PROVE  /\ Selected(s, T) # <<>> /\ Head(Selected(s, T)) = s[i]
         /\ Selected(SubSeq(s, 1, i - 1) \o SubSeq(s, i + 1, Len(s)), T) = Tail(Selected(s, T))
<1>1. PICK a, b : a = SubSeq(s, 1, i - 1) /\ b = SubSeq(s, i + 1, Len(s))
  OBVIOUS
<1>2. a \in Seq(S) /\ b \in Seq(S) /\ s[i] \in S /\ SelectsWithout(s, a, s[i], b, T)
  BY <1>1, SelectedParts
<1>3. Selected(a, T) = <<>>
  <2>1. Len(a) = i - 1 /\ \A j \in 1..(i - 1) : a[j] = s[j]
    BY <1>1, LenProperties
  <2>2. \A j \in 1..Len(a) : a[j] \notin T
    BY <2>1, LenProperties
  <2> QED
    BY <1>2, <2>2, SelectedNone
<1>4. PICK r, x : r = Selected(b, T) /\ r \in Seq(S) /\ x = s[i] /\ x \in S
  BY <1>2, SelectedType
<1>5. PICK c : c = <<x>> \o r
  OBVIOUS
<1>6. c \in Seq(S) /\ c # <<>> /\ Head(c) = x /\ Tail(c) = r
  <2>1. <<x>> \in Seq(S) /\ Len(<<x>>) = 1 /\ <<x>>[1] = x
    BY <1>4
  <2>2. c \in Seq(S) /\ Len(c) = 1 + Len(r)
    BY <1>4, <1>5, <2>1, ConcatProperties
  <2>3. Len(r) \in Nat
    BY <1>4, LenProperties
  <2>4. c # <<>>
    BY <2>2, <2>3, EmptySeq
  <2>5. c[1] = x /\ \A j \in 1..Len(r) : c[j + 1] = r[j]
    <3>1. \A k \in 1..(Len(<<x>>) + Len(r)) : c[k] = IF k <= Len(<<x>>) THEN <<x>>[k] ELSE r[k - Len(<<x>>)]
      BY <1>4, <1>5, <2>1, ConcatProperties
    <3>2. \A k \in 1..(1 + Len(r)) : c[k] = IF k <= 1 THEN <<x>>[k] ELSE r[k - 1]
      BY <2>1, <3>1
    <3> QED
      BY <2>1, <2>3, <3>2
  <2>6. Head(c) = x
    BY <2>2, <2>4, <2>5
  <2>7. Tail(c) \in Seq(S) /\ Len(Tail(c)) = Len(r) /\ \A j \in 1..Len(Tail(c)) : Tail(c)[j] = c[j + 1]
    BY <2>2, <2>3, <2>4, HeadTailProperties
  <2>8. Tail(c) = r
    BY <1>4, <2>5, <2>7, SeqEqual
  <2> QED
    BY <2>2, <2>4, <2>6, <2>8
<1>7. Selected(s, T) = c /\ Selected(a \o b, T) = r
  <2>1. <<>> \o c = c /\ <<>> \o r = r
    BY <1>4, <1>6, ConcatEmptySeq
  <2>2. /\ Selected(a \o b, T) = Selected(a, T) \o Selected(b, T)
        /\ Selected(s, T) = Selected(a, T) \o (<<s[i]>> \o Selected(b, T))
    BY <1>2 DEF SelectsWithout
  <2> QED
    BY <1>3, <1>4, <1>5, <2>1, <2>2
<1> QED
  BY <1>1, <1>4, <1>6, <1>7

\* SelectedConcat for the use of the next lemma.
SelectsBoth(a, b, T) == Selected(a \o b, T) = Selected(a, T) \o Selected(b, T)

\* SelectedConcat, with its conclusion as a definition.
LEMMA SelectedBoth ==
  ASSUME NEW S, NEW a \in Seq(S), NEW b \in Seq(S), NEW T
  PROVE  SelectsBoth(a, b, T)
BY SelectedConcat DEF SelectsBoth

\* What is selected from a concatenation whose parts are not wanted but for one.
LEMMA SelectedFlatten ==
  ASSUME NEW S, NEW seqs \in Seq(Seq(S)), NEW T, NEW k \in 1..Len(seqs),
         \A i \in 1..Len(seqs) : i # k => Selected(seqs[i], T) = <<>>
  PROVE  Selected(FlattenSeq(seqs), T) = Selected(seqs[k], T)
<1>1. PICK n : n = Len(seqs) /\ n \in Nat /\ k \in 1..n /\ seqs # <<>> /\ \A i \in 1..n : seqs[i] \in Seq(S)
  BY LenProperties, ElementOfSeq, EmptySeq, SMTT(30)
<1>2. PICK f : /\ \A i \in 1..n : f[i] \in Seq(S)
               /\ f[1] = seqs[1] /\ \A i \in 2..n : f[i] = f[i - 1] \o seqs[i]
               /\ FlattenSeq(seqs) = f[n]
  BY <1>1, FlattenSteps
<1>3. PICK r : r = Selected(seqs[k], T) /\ r \in Seq(S)
  BY <1>1, SelectedType
<1> DEFINE P == {i \in Nat : i \in 1..n => Selected(f[i], T) = IF i < k THEN <<>> ELSE r}
<1>4. \A i \in Nat : i \in P
  <2>1. 0 \in P
    OBVIOUS
  <2>2. ASSUME NEW i \in Nat, i \in P PROVE i + 1 \in P
    <3> SUFFICES ASSUME i + 1 \in 1..n
                 PROVE  Selected(f[i + 1], T) = IF i + 1 < k THEN <<>> ELSE r
      OBVIOUS
    <3>1. Selected(seqs[i + 1], T) = IF i + 1 = k THEN r ELSE <<>>
      BY <1>1, <1>3
    <3>2. CASE i = 0
      <4>1. f[i + 1] = seqs[i + 1]
        BY <1>2, <3>2
      <4>2. i + 1 < k \/ i + 1 = k
        BY <1>1, <3>2
      <4> QED
        BY <1>1, <3>1, <4>1, <4>2
    <3>3. CASE i # 0
      <4>1. i \in 1..n /\ i + 1 \in 2..n /\ (i + 1) - 1 = i
        BY <1>1, <3>3
      <4>2. f[i + 1] = f[i] \o seqs[i + 1] /\ f[i] \in Seq(S) /\ seqs[i + 1] \in Seq(S)
        BY <1>1, <1>2, <4>1
      <4>3. Selected(f[i + 1], T) = Selected(f[i], T) \o Selected(seqs[i + 1], T)
        <5>1. SelectsBoth(f[i], seqs[i + 1], T)
          BY <4>2, SelectedBoth
        <5> QED
          BY <4>2, <5>1 DEF SelectsBoth
      <4>4. Selected(f[i], T) = IF i < k THEN <<>> ELSE r
        BY <2>2, <4>1
      <4>5. <<>> \o <<>> = <<>> /\ <<>> \o r = r /\ r \o <<>> = r
        BY <1>3, EmptySeq, ConcatEmptySeq
      <4>6. CASE i + 1 < k
        BY <1>1, <3>1, <4>3, <4>4, <4>5, <4>6
      <4>7. CASE i + 1 = k
        <5>1. i < k /\ ~(i + 1 < k)
          BY <1>1, <4>7
        <5>2. Selected(f[i], T) = <<>> /\ Selected(seqs[i + 1], T) = r
          BY <3>1, <4>4, <4>7, <5>1
        <5> QED
          BY <4>3, <4>5, <5>1, <5>2
      <4>8. CASE i + 1 > k
        <5>1. ~(i < k) /\ ~(i + 1 < k) /\ i + 1 # k
          BY <1>1, <4>8
        <5>2. Selected(f[i], T) = r /\ Selected(seqs[i + 1], T) = <<>>
          BY <3>1, <4>4, <5>1
        <5> QED
          BY <4>3, <4>5, <5>1, <5>2
      <4> QED
        BY <1>1, <4>6, <4>7, <4>8
    <3> QED
      BY <3>2, <3>3
  <2> HIDE DEF P
  <2> QED
    BY <2>1, <2>2, SetInduction
<1>5. n \in 1..n /\ ~(n < k)
  BY <1>1
<1>6. Selected(f[n], T) = r
  BY <1>1, <1>4, <1>5
<1> QED
  BY <1>2, <1>3, <1>6


\* The concatenation of pairs has the first of each at the odd places and the second at
\* the even ones.
Paired(ns, n, a, b) ==
  Len(ns) = 2 * n /\ \A j \in 1..n : ns[2 * j - 1] = a[j] /\ ns[2 * j] = b[j]

\* The concatenation of n pairs has 2 * n elements, in this order.
LEMMA FlattenPairs ==
  ASSUME NEW S, NEW n \in Nat, NEW a, NEW b, \A j \in 1..n : a[j] \in S /\ b[j] \in S,
         NEW seqs, seqs = [j \in 1..n |-> <<a[j], b[j]>>], NEW ns, ns = FlattenSeq(seqs)
  PROVE  ns \in Seq(S) /\ Paired(ns, n, a, b)
<1>1. seqs = [j \in 1..n |-> <<a[j], b[j]>>]
  OBVIOUS
<1>2. /\ \A j \in 1..n : /\ seqs[j] \in Seq(S) /\ Len(seqs[j]) = 2
                         /\ seqs[j][1] = a[j] /\ seqs[j][2] = b[j]
      /\ seqs \in Seq(Seq(S)) /\ Len(seqs) = n
  <2>1. ASSUME NEW j \in 1..n
        PROVE  seqs[j] \in Seq(S) /\ Len(seqs[j]) = 2 /\ seqs[j][1] = a[j] /\ seqs[j][2] = b[j]
    <3>1. PICK x \in S, y \in S : x = a[j] /\ y = b[j]
      OBVIOUS
    <3>2. <<x, y>> \in Seq(S) /\ Len(<<x, y>>) = 2 /\ <<x, y>>[1] = x /\ <<x, y>>[2] = y
      OBVIOUS
    <3>3. seqs[j] = <<x, y>>
      BY <1>1, <3>1
    <3> QED
      BY <3>1, <3>2, <3>3
  <2>2. seqs \in Seq(Seq(S)) /\ Len(seqs) = n
    <3>1. \A j \in 1..n : seqs[j] \in Seq(S)
      BY <2>1
    <3>2. PICK T : T = Seq(S)
      OBVIOUS
    <3>3. seqs = [j \in 1..n |-> seqs[j]]
      BY <1>1
    <3> QED
      BY <3>1, <3>2, <3>3
  <2> QED
    BY <2>1, <2>2
<1>3. ns \in Seq(S)
  BY <1>1, <1>2, FlattenType
<1>4. CASE n = 0
  <2>1. Len(seqs) = 0 /\ ns = FlattenSeq(seqs)
    BY <1>1, <1>2, <1>4
  <2>2. ns = seqs
    BY <2>1 DEF FlattenSeq
  <2> QED
    BY <1>3, <1>4, <2>1, <2>2 DEF Paired
<1>5. CASE n # 0
  <2>1. seqs # <<>>
    BY <1>2, <1>5, EmptySeq
  <2>2. PICK f : /\ \A i \in 1..n : f[i] \in Seq(S)
                 /\ f[1] = seqs[1] /\ \A i \in 2..n : f[i] = f[i - 1] \o seqs[i]
                 /\ ns = f[n]
    <3>1. seqs \in Seq(Seq(S)) /\ ns = FlattenSeq(seqs)
      BY <1>1, <1>2
    <3>2. \E f : /\ \A i \in 1..Len(seqs) : f[i] \in Seq(S)
                 /\ f[1] = seqs[1] /\ \A i \in 2..Len(seqs) : f[i] = f[i - 1] \o seqs[i]
                 /\ FlattenSeq(seqs) = f[Len(seqs)]
      BY <2>1, <3>1, FlattenSteps
    <3> QED
      BY <1>2, <3>1, <3>2
  <2> DEFINE P == {k \in Nat : k \in 1..n =>
                     Len(f[k]) = 2 * k /\ \A j \in 1..k : f[k][2 * j - 1] = a[j] /\ f[k][2 * j] = b[j]}
  <2>3. 0 \in P
    OBVIOUS
  <2>4. ASSUME NEW k \in Nat, k \in P PROVE k + 1 \in P
    <3> SUFFICES ASSUME k + 1 \in 1..n
                 PROVE  /\ Len(f[k + 1]) = 2 * (k + 1)
                        /\ \A j \in 1..(k + 1) : f[k + 1][2 * j - 1] = a[j] /\ f[k + 1][2 * j] = b[j]
      OBVIOUS
    <3>1. CASE k = 0
      <4>1. k + 1 = 1 /\ 1 \in 1..n /\ f[1] = seqs[1]
        BY <2>2, <3>1
      <4>2. Len(f[1]) = 2 /\ f[1][1] = a[1] /\ f[1][2] = b[1]
        BY <1>2, <4>1
      <4>3. PICK l : l = k + 1 /\ l = 1
        BY <4>1
      <4>4. \A j \in 1..l : j = 1 /\ 2 * j - 1 = 1 /\ 2 * j = 2
        BY <4>3
      <4>5. Len(f[l]) = 2 * l /\ \A j \in 1..l : f[l][2 * j - 1] = a[j] /\ f[l][2 * j] = b[j]
        <5>1. Len(f[l]) = 2 /\ f[l][1] = a[1] /\ f[l][2] = b[1] /\ 2 * l = 2
          BY <4>2, <4>3
        <5>2. ASSUME NEW j \in 1..l PROVE f[l][2 * j - 1] = a[j] /\ f[l][2 * j] = b[j]
          <6>1. j = 1 /\ 2 * j - 1 = 1 /\ 2 * j = 2
            BY <4>4
          <6> QED
            BY <5>1, <6>1
        <5> QED
          BY <5>1, <5>2
      <4> QED
        BY <4>3, <4>5
    <3>2. CASE k # 0
      <4>1. k \in 1..n /\ k + 1 \in 2..n /\ (k + 1) - 1 = k
        BY <3>2
      <4>2. PICK u, v, w : u = f[k] /\ v = seqs[k + 1] /\ w = f[k + 1]
        OBVIOUS
      <4>3. u \in Seq(S) /\ v \in Seq(S) /\ w = u \o v /\ Len(v) = 2 /\ v[1] = a[k + 1] /\ v[2] = b[k + 1]
        BY <1>2, <2>2, <4>1, <4>2
      <4>4. Len(u) = 2 * k /\ \A j \in 1..k : u[2 * j - 1] = a[j] /\ u[2 * j] = b[j]
        BY <2>4, <4>1, <4>2
      <4>5. /\ Len(w) = Len(u) + Len(v)
            /\ \A i \in 1..(Len(u) + Len(v)) : w[i] = IF i <= Len(u) THEN u[i] ELSE v[i - Len(u)]
        BY <4>3, ConcatProperties
      <4>6. Len(w) = 2 * k + 2 /\ \A i \in 1..(2 * k + 2) : w[i] = IF i <= 2 * k THEN u[i] ELSE v[i - 2 * k]
        BY <4>3, <4>4, <4>5
      <4>7. ASSUME NEW j \in 1..(k + 1) PROVE w[2 * j - 1] = a[j] /\ w[2 * j] = b[j]
        <5>1. CASE j <= k
          <6>1. /\ 2 * j - 1 \in 1..(2 * k + 2) /\ 2 * j \in 1..(2 * k + 2)
                /\ 2 * j - 1 <= 2 * k /\ 2 * j <= 2 * k /\ j \in 1..k
            BY <5>1
          <6> QED
            BY <4>4, <4>6, <6>1
        <5>2. CASE j = k + 1
          <6>1. /\ 2 * j - 1 \in 1..(2 * k + 2) /\ 2 * j \in 1..(2 * k + 2)
                /\ ~(2 * j - 1 <= 2 * k) /\ ~(2 * j <= 2 * k)
                /\ (2 * j - 1) - 2 * k = 1 /\ 2 * j - 2 * k = 2
            BY <5>2
          <6>2. w[2 * j - 1] = v[(2 * j - 1) - 2 * k] /\ w[2 * j] = v[2 * j - 2 * k]
            BY <4>6, <6>1
          <6> QED
            BY <4>3, <5>2, <6>1, <6>2
        <5> QED
          BY <5>1, <5>2
      <4> QED
        BY <4>2, <4>6, <4>7
    <3> QED
      BY <3>1, <3>2
  <2>5. \A k \in Nat : k \in P
    <3> HIDE DEF P
    <3> QED
      BY <2>3, <2>4, SetInduction
  <2>6. n \in 1..n
    BY <1>5
  <2> QED
    BY <1>3, <2>2, <2>5, <2>6 DEF Paired
<1> QED
  BY <1>4, <1>5

\* A prefix with the element after it is the next prefix.
LEMMA PrefixAppend ==
  ASSUME NEW S, NEW s \in Seq(S), NEW j \in 1..Len(s)
  PROVE  Append(SubSeq(s, 1, j - 1), s[j]) = SubSeq(s, 1, j)
<1>1. PICK p, q, r : p = SubSeq(s, 1, j - 1) /\ q = SubSeq(s, 1, j) /\ r = Append(p, s[j])
  OBVIOUS
<1>2. Len(s) \in Nat /\ \A i \in 1..Len(s) : s[i] \in S
  BY LenProperties, ElementOfSeq
<1>3. p \in Seq(S) /\ Len(p) = j - 1 /\ \A i \in 1..(j - 1) : p[i] = s[i]
  BY <1>1, <1>2
<1>4. q \in Seq(S) /\ Len(q) = j /\ \A i \in 1..j : q[i] = s[i]
  BY <1>1, <1>2
<1>5. r \in Seq(S) /\ Len(r) = j /\ \A i \in 1..j : r[i] = s[i]
  <2>1. /\ r \in Seq(S) /\ Len(r) = Len(p) + 1 /\ \A i \in 1..Len(p) : r[i] = p[i]
        /\ r[Len(p) + 1] = s[j]
    BY <1>1, <1>2, <1>3, AppendProperties
  <2> QED
    BY <1>3, <2>1
<1>6. r = q
  BY <1>4, <1>5, SeqEqual
<1> QED
  BY <1>1, <1>6

-----------------------------------------------------------------------------
(***************************************************************************)
(* Folds.  A fold over a sequence is a function on the sets of its         *)
(* positions, which takes the largest position out of a set.               *)
(***************************************************************************)
\* The positions of a sequence have a largest one.
LEMMA MaxPosition ==
  ASSUME NEW n \in Nat, NEW t \in SUBSET (1..n), t # {}
  PROVE  Max(t) \in t /\ \A x \in t : x <= Max(t)
<1> DEFINE S == {n - x : x \in t}
<1>1. S \in SUBSET Nat /\ S # {}
  <2>1. \A x \in t : n - x \in Nat
    OBVIOUS
  <2>2. PICK x \in t : TRUE
    OBVIOUS
  <2> QED
    BY <2>1, <2>2
<1>2. PICK m \in S : \A k \in S : m <= k
  <2> HIDE DEF S
  <2> QED
    BY <1>1, LeastNumber
<1>3. PICK x \in t : m = n - x
  BY <1>2
<1>4. \A y \in t : x >= y
  <2> SUFFICES ASSUME NEW y \in t PROVE x >= y
    OBVIOUS
  <2>1. n - y \in S
    OBVIOUS
  <2>2. m <= n - y
    BY <1>2, <2>1
  <2> QED
    BY <1>3, <2>2
<1>5. Max(t) \in t /\ \A y \in t : Max(t) >= y
  BY <1>4 DEF Max
<1> QED
  BY <1>5

\* What is left of a set of positions without the largest one.
LEMMA BeforeMax ==
  ASSUME NEW n \in Nat, NEW t \in SUBSET (1..n), t # {}
  PROVE  /\ Max(t) \in 1..n /\ t \ {Max(t)} \in SUBSET (1..n)
         /\ \A k \in Nat : t \subseteq 1..(k + 1) => t \ {Max(t)} \subseteq 1..k
<1>1. PICK m : m = Max(t)
  OBVIOUS
<1>2. m \in t /\ \A x \in t : x <= m
  BY <1>1, MaxPosition
<1>3. ASSUME NEW k \in Nat, t \subseteq 1..(k + 1) PROVE t \ {m} \subseteq 1..k
  <2> SUFFICES ASSUME NEW x \in t, x # m PROVE x \in 1..k
    OBVIOUS
  <2>1. x \in 1..(k + 1) /\ m \in 1..(k + 1) /\ x <= m
    BY <1>2, <1>3
  <2> QED
    BY <2>1
<1> QED
  BY <1>1, <1>2, <1>3

\* What holds for no positions, and for a set of them if it does without the largest
\* one, holds for all sets of positions.
LEMMA PositionInduction ==
  ASSUME NEW n \in Nat, NEW G, {} \in G,
         \A t \in SUBSET (1..n) : t # {} /\ t \ {Max(t)} \in G => t \in G
  PROVE  \A t \in SUBSET (1..n) : t \in G
<1> DEFINE P == {k \in Nat : \A t \in SUBSET (1..n) : t \subseteq 1..k => t \in G}
<1>1. 0 \in P
  <2> SUFFICES ASSUME NEW t \in SUBSET (1..n), t \subseteq 1..0 PROVE t \in G
    OBVIOUS
  <2>1. t = {}
    OBVIOUS
  <2> QED
    BY <2>1
<1>2. ASSUME NEW k \in Nat, k \in P PROVE k + 1 \in P
  <2> SUFFICES ASSUME NEW t \in SUBSET (1..n), t \subseteq 1..(k + 1), t # {} PROVE t \in G
    OBVIOUS
  <2>2. t \ {Max(t)} \subseteq 1..k
    BY BeforeMax
  <2>3. t \ {Max(t)} \in SUBSET (1..n)
    OBVIOUS
  <2>4. t \ {Max(t)} \in G
    BY <1>2, <2>2, <2>3
  <2>5. t \ {Max(t)} \in G => t \in G
    OBVIOUS
  <2> QED
    BY <2>4, <2>5
<1>3. \A k \in Nat : k \in P
  <2> HIDE DEF P
  <2> QED
    BY <1>1, <1>2, SetInduction
<1>4. n \in P
  BY <1>3
<1> QED
  BY <1>4

\* The largest position of a prefix.
PrefixEnds(i) == Max(1..i) = i /\ (1..i) \ {i} = 1..(i - 1)

\* The largest number up to i is i, and those below it are the ones up to i - 1.
LEMMA MaxInterval ==
  ASSUME NEW i \in Nat \ {0}
  PROVE  PrefixEnds(i)
<1>1. 1..i # {} /\ i \in 1..i /\ 1..i \in SUBSET (1..i)
  OBVIOUS
<1>2. Max(1..i) \in 1..i /\ \A x \in 1..i : x <= Max(1..i)
  BY <1>1, MaxPosition
<1>3. Max(1..i) = i
  <2>1. PICK m : m = Max(1..i)
    OBVIOUS
  <2>2. m \in 1..i /\ i <= m
    BY <1>1, <1>2, <2>1
  <2> QED
    BY <2>1, <2>2
<1> QED
  BY <1>3 DEF PrefixEnds

\* There is a function for every step h and base of a fold.
IsFold(f, n, base, h) ==
  f = [t \in SUBSET (1..n) |-> IF t = {} THEN base ELSE h[<<Max(t), f[t \ {Max(t)}]>>]]

\* Such a function exists: it is reached from any other by taking one step after another.
LEMMA FoldExists ==
  ASSUME NEW n \in Nat, NEW V, NEW base \in V, NEW h \in [(1..n) \X V -> V]
  PROVE  \E f \in [SUBSET (1..n) -> V] : IsFold(f, n, base, h)
<1> DEFINE D == SUBSET (1..n)
           Before(t) == t \ {Max(t)}
           F == [D -> V]
           Step(f) == [t \in D |-> IF t = {} THEN base ELSE h[<<Max(t), f[Before(t)]>>]]
           step == [f \in F |-> Step(f)]
<1>1. ASSUME NEW t \in D, t # {}
      PROVE  /\ Max(t) \in 1..n /\ Before(t) \in D
             /\ \A k \in Nat : t \subseteq 1..(k + 1) => Before(t) \subseteq 1..k
  BY <1>1, BeforeMax
<1>2. ASSUME NEW f \in F PROVE Step(f) \in F
  <2> SUFFICES ASSUME NEW t \in D, t # {} PROVE h[<<Max(t), f[Before(t)]>>] \in V
    OBVIOUS
  <2>1. Max(t) \in 1..n /\ Before(t) \in D
    BY <1>1
  <2> HIDE DEF Before, D
  <2>2. f[Before(t)] \in V
    BY <2>1
  <2> QED
    BY <2>1, <2>2
<1>3. [t \in D |-> base] \in F
  OBVIOUS
<1>4. PICK it \in [Nat -> F] : it[0] = [t \in D |-> base] /\ \A k \in Nat : it[k + 1] = step[it[k]]
  <2>1. PICK a : a = [t \in D |-> base]
    OBVIOUS
  <2> HIDE DEF F, Step
  <2>2. step \in [F -> F] /\ a \in F
    BY <1>2, <1>3, <2>1
  <2> HIDE DEF step
  <2>3. \E it \in [Nat -> F] : it[0] = a /\ \A k \in Nat : it[k + 1] = step[it[k]]
    <3>1. PICK S, g : S = F /\ g = step
      OBVIOUS
    <3>2. g \in [S -> S] /\ a \in S
      BY <2>2, <3>1
    <3>3. Iterated(S, a, g)
      BY <3>2, Iterable
    <3> QED
      BY <3>1, <3>3 DEF Iterated
  <2> QED
    BY <2>1, <2>3
<1>5. ASSUME NEW k \in Nat
      PROVE  it[k] \in F /\ it[k + 1] = Step(it[k])
  <2> HIDE DEF F, Step
  <2> QED
    BY <1>4
<1> DEFINE P == {k \in Nat : \A t \in D : t \subseteq 1..k => it[k][t] = it[k + 1][t]}
<1>6. 0 \in P
  <2> SUFFICES ASSUME NEW t \in D, t \subseteq 1..0 PROVE it[0][t] = it[0 + 1][t]
    OBVIOUS
  <2>1. t = {} /\ 0 \in Nat
    OBVIOUS
  <2>2. it[0 + 1] = Step(it[0])
    BY <1>5, <2>1
  <2>3. it[0 + 1][t] = base
    BY <2>1, <2>2
  <2> QED
    BY <1>4, <2>3
<1>7. ASSUME NEW k \in Nat, k \in P PROVE k + 1 \in P
  <2> SUFFICES ASSUME NEW t \in D, t \subseteq 1..(k + 1) PROVE it[k + 1][t] = it[(k + 1) + 1][t]
    OBVIOUS
  <2>1. it[k + 1] = Step(it[k]) /\ it[(k + 1) + 1] = Step(it[k + 1])
    <3>1. k + 1 \in Nat
      OBVIOUS
    <3> HIDE DEF Step
    <3> QED
      BY <1>5, <3>1
  <2>2. CASE t = {}
    BY <2>1, <2>2
  <2>3. CASE t # {}
    <3>1. Before(t) \subseteq 1..k /\ Before(t) \in D
      BY <1>1, <2>3
    <3>2. it[k][Before(t)] = it[k + 1][Before(t)]
      BY <1>7, <3>1
    <3> HIDE DEF D, Before
    <3> QED
      BY <2>1, <2>3, <3>2
  <2> QED
    BY <2>2, <2>3
<1>8. n \in P
  <2>1. \A k \in Nat : k \in P
    <3> HIDE DEF P
    <3> QED
      BY <1>6, <1>7, SetInduction
  <2> QED
    BY <2>1
<1>9. \A t \in D : it[n][t] = it[n + 1][t]
  BY <1>8
<1>10. it[n] = it[n + 1]
  <2>1. it[n] \in [D -> V] /\ it[n + 1] \in [D -> V]
    BY <1>4
  <2> HIDE DEF D
  <2> QED
    BY <1>9, <2>1
<1>11. it[n] = Step(it[n])
  BY <1>5, <1>10
<1>12. IsFold(it[n], n, base, h)
  BY <1>11 DEF IsFold
<1>13. it[n] \in [SUBSET (1..n) -> V]
  BY <1>5
<1> QED
  BY <1>12, <1>13

\* The values of a fold are where its steps lead.
LEMMA FoldValues ==
  ASSUME NEW n \in Nat, NEW V, NEW base \in V, NEW h \in [(1..n) \X V -> V],
         NEW f, f[{}] = base,
         \A t \in SUBSET (1..n) : t # {} /\ f[t \ {Max(t)}] \in V =>
                                    f[t] = h[<<Max(t), f[t \ {Max(t)}]>>]
  PROVE  \A t \in SUBSET (1..n) : f[t] \in V
<1> DEFINE G == {t \in SUBSET (1..n) : f[t] \in V}
<1>1. {} \in G
  OBVIOUS
<1>2. ASSUME NEW t \in SUBSET (1..n), t # {}, t \ {Max(t)} \in G PROVE t \in G
  <2>1. Max(t) \in 1..n /\ f[t \ {Max(t)}] \in V
    BY <1>2, BeforeMax
  <2>2. f[t] = h[<<Max(t), f[t \ {Max(t)}]>>]
    BY <1>2, <2>1
  <2> QED
    BY <2>1, <2>2
<1> HIDE DEF G
<1>3. \A t \in SUBSET (1..n) : t \in G
  BY <1>1, <1>2, PositionInduction
<1> QED
  BY <1>3 DEF G

\* A run of n steps h from base, through values of V, ends with the value r.
Runs(g, n, V, base, h, r) ==
  /\ g[0] = base /\ g[n] = r
  /\ \A i \in 0..n : g[i] \in V
  /\ \A i \in 1..n : g[i] = h[<<i, g[i - 1]>>]

\* A fold is the end of such a run.
LEMMA FoldSteps ==
  ASSUME NEW n \in Nat, NEW V, NEW base \in V, NEW h \in [(1..n) \X V -> V],
         NEW f, f[{}] = base,
         \A t \in SUBSET (1..n) : t # {} /\ f[t \ {Max(t)}] \in V =>
                                    f[t] = h[<<Max(t), f[t \ {Max(t)}]>>]
  PROVE  \E g : Runs(g, n, V, base, h, f[1..n])
<1>1. \A t \in SUBSET (1..n) : f[t] \in V
  BY FoldValues
<1>2. PICK g : g = [i \in 0..n |-> f[1..i]]
  OBVIOUS
<1>3. \A i \in 0..n : 1..i \in SUBSET (1..n) /\ g[i] = f[1..i]
  BY <1>2
<1>4. g[0] = base
  <2>1. 1..0 = {} /\ 0 \in 0..n
    OBVIOUS
  <2> QED
    BY <1>3, <2>1
<1>5. ASSUME NEW i \in 1..n PROVE g[i] = h[<<i, g[i - 1]>>]
  <2>1. Max(1..i) = i /\ (1..i) \ {i} = 1..(i - 1) /\ 1..i # {}
    <3>1. i \in Nat \ {0}
      OBVIOUS
    <3>2. PrefixEnds(i)
      BY <3>1, MaxInterval
    <3>3. i \in 1..i
      BY <3>1
    <3> QED
      BY <3>2, <3>3 DEF PrefixEnds
  <2>2. i \in 0..n /\ i - 1 \in 0..n
    OBVIOUS
  <2>3. 1..i \in SUBSET (1..n) /\ g[i] = f[1..i] /\ g[i - 1] = f[1..(i - 1)] /\ f[1..(i - 1)] \in V
    BY <1>1, <1>3, <2>2
  <2>4. f[1..i] = h[<<Max(1..i), f[(1..i) \ {Max(1..i)}]>>]
    BY <2>1, <2>3
  <2> QED
    BY <2>1, <2>3, <2>4
<1>6. g[n] = f[1..n] /\ \A i \in 0..n : g[i] \in V
  BY <1>1, <1>3
<1> QED
  BY <1>4, <1>5, <1>6 DEF Runs

-----------------------------------------------------------------------------
(***************************************************************************)
(* Indexes: their type, and the counts in them.  W are the words.          *)
(***************************************************************************)
\* The numbers of int.
Ints == (-IntMax - 1)..IntMax

\* Lists of postings, entries and indexes of words W, as index_add_posting makes them.
PostingLists == Seq([docid : 1..IntMax, count : Ints])

IndexEntries(W) == [word : W, postings : PostingLists]

Indexes(W) == {idx \in Seq(IndexEntries(W)) : NoDuplicates(idx)}

\* A list of postings has the count n for a document, and an index for a word in it.
Has(ps, d, n) == \E j \in DOMAIN ps : ps[j].docid = d /\ ps[j].count = n

HasCount(idx, w, d, n) == \E i \in DOMAIN idx : idx[i].word = w /\ Has(idx[i].postings, d, n)

\* A document has one posting.
OneEach(ps) == \A j, k \in DOMAIN ps : ps[j].docid = ps[k].docid => j = k

\* The postings of a list.
LEMMA PostingType ==
  ASSUME NEW ps \in PostingLists
  PROVE  /\ Len(ps) \in Nat /\ DOMAIN ps = 1..Len(ps)
         /\ \A j \in DOMAIN ps : /\ ps[j] \in [docid : 1..IntMax, count : Ints]
                                /\ ps[j].docid \in 1..IntMax /\ ps[j].count \in Ints
<1>1. PICK P : P = [docid : 1..IntMax, count : Ints]
  OBVIOUS
<1>2. ps \in Seq(P)
  BY <1>1 DEF PostingLists
<1>3. Len(ps) \in Nat /\ DOMAIN ps = 1..Len(ps)
  BY <1>2
<1>4. \A j \in DOMAIN ps : ps[j] \in P
  BY <1>2
<1>5. \A p \in P : p.docid \in 1..IntMax /\ p.count \in Ints
  BY <1>1
<1> QED
  BY <1>1, <1>3, <1>4, <1>5

\* The conversion to int gives an int, and leaves an int as it is.
LEMMA ToIntIsInt ==
  ASSUME NEW n \in Int
  PROVE  ToInt(n) \in Ints /\ (n \in Ints => ToInt(n) = n)
BY IndexAssumption DEF ToInt, Ints

\* The word and the postings of an entry.
LEMMA EntryType ==
  ASSUME NEW W, NEW idx \in Indexes(W), NEW i \in DOMAIN idx
  PROVE  /\ idx \in Seq(IndexEntries(W)) /\ Len(idx) \in Nat /\ DOMAIN idx = 1..Len(idx)
         /\ idx[i] \in IndexEntries(W) /\ idx[i].word \in W /\ idx[i].postings \in PostingLists
         /\ OneEach(idx[i].postings)
         /\ \A k \in DOMAIN idx : idx[k].word = idx[i].word => k = i
<1>1. idx \in Seq(IndexEntries(W)) /\ NoDuplicates(idx)
  BY DEF Indexes
<1>2. Len(idx) \in Nat /\ DOMAIN idx = 1..Len(idx) /\ idx[i] \in IndexEntries(W)
  BY <1>1
<1>3. idx[i].word \in W /\ idx[i].postings \in PostingLists
  BY <1>2 DEF IndexEntries
<1>4. OneEach(idx[i].postings) /\ \A k \in DOMAIN idx : idx[k].word = idx[i].word => k = i
  BY <1>1 DEF NoDuplicates, OneEach
<1> QED
  BY <1>1, <1>2, <1>3, <1>4

\* The entry of a word has its counts.
LEMMA CountedAt ==
  ASSUME NEW idx, NEW k \in DOMAIN idx, \A i \in DOMAIN idx : idx[i].word = idx[k].word => i = k,
         NEW ps, ps = idx[k].postings
  PROVE  \A e, n : HasCount(idx, idx[k].word, e, n) <=> Has(ps, e, n)
BY DEF HasCount

\* CountOf finds the count that is there, and 0 if none is.
LEMMA CountIs ==
  ASSUME NEW W, NEW idx \in Indexes(W), NEW w, NEW d, NEW n, HasCount(idx, w, d, n)
  PROVE  CountOf(idx, w, d) = n
<1>1. PICK i \in DOMAIN idx : idx[i].word = w /\ Has(idx[i].postings, d, n)
  BY DEF HasCount
<1>2. PICK j \in DOMAIN idx[i].postings : idx[i].postings[j].docid = d /\ idx[i].postings[j].count = n
  BY <1>1 DEF Has
<1>3. WordAt(idx, w) = {i}
  BY <1>1, EntryType DEF WordAt
<1>4. DocAt(idx[i].postings, d) = {j}
  <2>1. OneEach(idx[i].postings)
    BY EntryType
  <2> QED
    BY <1>2, <2>1 DEF DocAt, OneEach
<1>5. (CHOOSE x \in {i} : TRUE) = i /\ (CHOOSE x \in {j} : TRUE) = j
  OBVIOUS
<1>6. CountOf(idx, w, d) = idx[i].postings[j].count
  BY <1>3, <1>4, <1>5 DEF CountOf
<1> QED
  BY <1>2, <1>6

\* A word and document without posting count 0.
LEMMA CountZero ==
  ASSUME NEW idx, NEW w, NEW d, \A n : ~HasCount(idx, w, d, n)
  PROVE  CountOf(idx, w, d) = 0
<1>1. ~(\E i \in WordAt(idx, w) : DocAt(idx[i].postings, d) # {})
  <2> SUFFICES ASSUME NEW i \in WordAt(idx, w), NEW j \in DocAt(idx[i].postings, d) PROVE FALSE
    OBVIOUS
  <2>1. Has(idx[i].postings, d, idx[i].postings[j].count)
    BY DEF Has, DocAt
  <2>2. HasCount(idx, w, d, idx[i].postings[j].count)
    BY <2>1 DEF HasCount, WordAt
  <2> QED
    BY <2>2
<1> QED
  BY <1>1 DEF CountOf

\* Two indexes that have the same counts count the same.
LEMMA SameCount ==
  ASSUME NEW W, NEW x \in Indexes(W), NEW y \in Indexes(W), NEW w, NEW d,
         \A n : HasCount(x, w, d, n) <=> HasCount(y, w, d, n)
  PROVE  CountOf(x, w, d) = CountOf(y, w, d)
<1>1. CASE \E n : HasCount(x, w, d, n)
  <2>1. PICK n : HasCount(x, w, d, n) /\ HasCount(y, w, d, n)
    BY <1>1
  <2>2. CountOf(x, w, d) = n /\ CountOf(y, w, d) = n
    BY <2>1, CountIs
  <2> QED
    BY <2>2
<1>2. CASE ~\E n : HasCount(x, w, d, n)
  <2>1. CountOf(x, w, d) = 0 /\ CountOf(y, w, d) = 0
    BY <1>2, CountZero
  <2> QED
    BY <2>1
<1> QED
  BY <1>1, <1>2

\* The index without entries counts nothing.
LEMMA EmptyIndex ==
  ASSUME NEW W
  PROVE  <<>> \in Indexes(W) /\ \A w, d : CountOf(<<>>, w, d) = 0
<1>1. \A w, d, n : ~HasCount(<<>>, w, d, n)
  BY DEF HasCount
<1>2. <<>> \in Indexes(W)
  BY DEF Indexes, NoDuplicates
<1> QED
  BY <1>1, <1>2, CountZero

\* A count is an int.
LEMMA CountType ==
  ASSUME NEW W, NEW idx \in Indexes(W), NEW w, NEW d
  PROVE  CountOf(idx, w, d) \in Ints
<1>1. CASE \E n : HasCount(idx, w, d, n)
  <2>1. PICK n : HasCount(idx, w, d, n)
    BY <1>1
  <2>2. PICK i \in DOMAIN idx : Has(idx[i].postings, d, n)
    BY <2>1 DEF HasCount
  <2>3. PICK j \in DOMAIN idx[i].postings : idx[i].postings[j].count = n
    BY <2>2 DEF Has
  <2>4. idx[i].postings[j].count \in Ints
    <3>1. idx[i].postings \in PostingLists
      BY EntryType
    <3> QED
      BY <3>1, PostingType
  <2>5. n \in Ints
    BY <2>3, <2>4
  <2> QED
    BY <2>1, <2>5, CountIs
<1>2. CASE ~\E n : HasCount(idx, w, d, n)
  <2>1. CountOf(idx, w, d) = 0
    BY <1>2, CountZero
  <2> QED
    BY <2>1, IndexAssumption DEF Ints
<1> QED
  BY <1>1, <1>2

\* Adding to a list of postings: one document gets the sum, the others keep theirs.
LEMMA AddToPostingsAdds ==
  ASSUME NEW ps \in PostingLists, OneEach(ps), NEW d \in 1..IntMax, NEW c \in 1..IntMax
  PROVE  LET qs == AddToPostings(ps, d, c)
         IN  /\ qs \in PostingLists /\ OneEach(qs)
             /\ \A e, n : e # d => (Has(qs, e, n) <=> Has(ps, e, n))
             /\ \A n : Has(ps, d, n) => Has(qs, d, ToInt(n + c))
             /\ (\A n : ~Has(ps, d, n)) => Has(qs, d, c)
<1> DEFINE P == [docid : 1..IntMax, count : Ints]
           qs == AddToPostings(ps, d, c)
<1>1. ps \in Seq(P) /\ Len(ps) \in Nat /\ DOMAIN ps = 1..Len(ps)
  BY DEF PostingLists
<1>2. \A j \in DOMAIN ps : ps[j] \in P /\ ps[j].docid \in 1..IntMax /\ ps[j].count \in Ints
  BY PostingType
<1>3. CASE DocAt(ps, d) = {}
  <2>1. qs = Append(ps, Posting(d, c)) /\ Posting(d, c) \in P
    BY <1>3, IndexAssumption DEF AddToPostings, Posting, Ints
  <2>2. /\ qs \in Seq(P) /\ DOMAIN qs = 1..(Len(ps) + 1)
        /\ \A j \in 1..Len(ps) : qs[j] = ps[j]
        /\ qs[Len(ps) + 1] = Posting(d, c)
    BY <1>1, <2>1
  <2>3. qs[Len(ps) + 1].docid = d /\ qs[Len(ps) + 1].count = c
    BY <2>2 DEF Posting
  <2>4. \A j \in DOMAIN ps : ps[j].docid # d
    BY <1>3 DEF DocAt
  <2> HIDE DEF qs, P
  <2>5. OneEach(qs)
    BY <1>1, <2>2, <2>3, <2>4 DEF OneEach
  <2>6. \A e, n : e # d => (Has(qs, e, n) <=> Has(ps, e, n))
    BY <1>1, <2>2, <2>3 DEF Has
  <2>7. Has(qs, d, c)
    <3>1. Len(ps) + 1 \in DOMAIN qs
      BY <1>1, <2>2
    <3> QED
      BY <2>3, <3>1 DEF Has
  <2>8. \A n : ~Has(ps, d, n)
    BY <2>4 DEF Has
  <2> QED
    BY <2>2, <2>5, <2>6, <2>7, <2>8 DEF qs, P, PostingLists
<1>4. CASE DocAt(ps, d) # {}
  <2>1. PICK k \in DOMAIN ps : ps[k].docid = d
    BY <1>4 DEF DocAt
  <2>2. DocAt(ps, d) = {k}
    BY <2>1 DEF DocAt, OneEach
  <2>3. qs = [j \in DOMAIN ps |-> IF j = k THEN Posting(d, ToInt(ps[j].count + c)) ELSE ps[j]]
    BY <2>2 DEF AddToPostings
  <2>4. ToInt(ps[k].count + c) \in Ints
    <3>1. ps[k].count + c \in Int
      BY <1>2 DEF Ints
    <3> QED
      BY <3>1, ToIntIsInt
  <2>5. /\ DOMAIN qs = DOMAIN ps
        /\ qs[k] = Posting(d, ToInt(ps[k].count + c))
        /\ \A j \in DOMAIN ps : j # k => qs[j] = ps[j]
    BY <2>3
  <2>6. qs[k].docid = d /\ qs[k].count = ToInt(ps[k].count + c) /\ qs[k] \in P
    BY <2>4, <2>5 DEF Posting
  <2>7. qs \in Seq(P)
    <3>1. \A j \in DOMAIN ps : qs[j] \in P
      BY <1>2, <2>5, <2>6
    <3>2. qs = [j \in 1..Len(ps) |-> qs[j]]
      BY <1>1, <2>3
    <3> HIDE DEF qs, P
    <3> QED
      BY <1>1, <3>1, <3>2
  <2> HIDE DEF qs, P
  <2>8. OneEach(qs)
    <3>1. \A j \in DOMAIN ps : qs[j].docid = ps[j].docid
      BY <2>1, <2>5, <2>6
    <3> QED
      BY <2>5, <3>1 DEF OneEach
  <2>9. \A e, n : e # d => (Has(qs, e, n) <=> Has(ps, e, n))
    BY <2>1, <2>5, <2>6 DEF Has
  <2>10. ASSUME NEW n, Has(ps, d, n) PROVE Has(qs, d, ToInt(n + c))
    <3>1. n = ps[k].count
      BY <2>1, <2>10 DEF Has, OneEach
    <3> QED
      BY <2>5, <2>6, <3>1 DEF Has
  <2>11. Has(ps, d, ps[k].count)
    BY <2>1 DEF Has
  <2> QED
    BY <2>7, <2>8, <2>9, <2>10, <2>11 DEF qs, P, PostingLists
<1> QED
  BY <1>3, <1>4


\* WithEntry adds a word without posting, if the word is not there.
LEMMA WithEntryKeeps ==
  ASSUME NEW W, NEW idx \in Indexes(W), NEW w \in W
  PROVE  /\ WithEntry(idx, w) \in Indexes(W)
         /\ \E k \in DOMAIN WithEntry(idx, w) : WithEntry(idx, w)[k].word = w
         /\ \A u, e, n : HasCount(WithEntry(idx, w), u, e, n) <=> HasCount(idx, u, e, n)
<1>1. CASE WordAt(idx, w) # {}
  <2>1. WithEntry(idx, w) = idx
    BY <1>1 DEF WithEntry
  <2> QED
    BY <1>1, <2>1 DEF WordAt
<1>2. CASE WordAt(idx, w) = {}
  <2>1. PICK new : new = [word |-> w, postings |-> <<>>]
    OBVIOUS
  <2>2. PICK x : x = Append(idx, new)
    OBVIOUS
  <2>3. WithEntry(idx, w) = x
    BY <1>2, <2>1, <2>2 DEF WithEntry
  <2>4. idx \in Seq(IndexEntries(W)) /\ NoDuplicates(idx) /\ \A i \in DOMAIN idx : idx[i].word # w
    BY <1>2 DEF Indexes, WordAt
  <2>5. new \in IndexEntries(W) /\ new.word = w /\ new.postings = <<>>
    <3>1. <<>> \in PostingLists
      BY DEF PostingLists
    <3> QED
      BY <2>1, <3>1 DEF IndexEntries
  <2>6. /\ x \in Seq(IndexEntries(W)) /\ DOMAIN x = 1..(Len(idx) + 1) /\ Len(idx) \in Nat
        /\ DOMAIN idx = 1..Len(idx)
        /\ \A i \in DOMAIN idx : x[i] = idx[i]
        /\ x[Len(idx) + 1] = new
    BY <2>2, <2>4, <2>5
  <2>7. \A i \in DOMAIN x : i \in DOMAIN idx \/ i = Len(idx) + 1
    BY <2>6
  <2>8. Len(idx) + 1 \in DOMAIN x
    BY <2>6
  <2>9. NoDuplicates(x)
    <3>1. \A i, j \in DOMAIN x : x[i].word = x[j].word => i = j
      BY <2>4, <2>5, <2>6, <2>7 DEF NoDuplicates
    <3>2. ASSUME NEW i \in DOMAIN x PROVE OneEach(x[i].postings)
      <4>1. CASE i \in DOMAIN idx
        BY <2>4, <2>6, <4>1 DEF NoDuplicates, OneEach
      <4>2. CASE i = Len(idx) + 1
        BY <2>5, <2>6, <4>2 DEF OneEach
      <4> QED
        BY <2>7, <4>1, <4>2
    <3> QED
      BY <3>1, <3>2 DEF NoDuplicates, OneEach
  <2>10. ASSUME NEW u, NEW e, NEW n PROVE HasCount(x, u, e, n) <=> HasCount(idx, u, e, n)
    <3>1. ~Has(new.postings, e, n)
      BY <2>5 DEF Has
    <3> QED
      BY <2>6, <2>7, <3>1 DEF HasCount
  <2>11. x \in Indexes(W)
    BY <2>6, <2>9 DEF Indexes
  <2> QED
    BY <2>3, <2>5, <2>6, <2>8, <2>10, <2>11
<1> QED
  BY <1>1, <1>2

\* index_add_posting keeps the type of an index; the word and document that it is
\* called with get the sum, the others keep their counts.
LEMMA AddPostingAdds ==
  ASSUME NEW W, NEW idx \in Indexes(W), NEW w \in W, NEW d \in 1..IntMax, NEW c \in 1..IntMax
  PROVE  LET y == AddPosting(idx, w, d, c)
         IN  /\ y \in Indexes(W)
             /\ \A u, e, n : ~(u = w /\ e = d) => (HasCount(y, u, e, n) <=> HasCount(idx, u, e, n))
             /\ \A n : HasCount(idx, w, d, n) => HasCount(y, w, d, ToInt(n + c))
             /\ (\A n : ~HasCount(idx, w, d, n)) => HasCount(y, w, d, c)
<1> DEFINE Added(y) == /\ y \in Indexes(W)
                       /\ \A u, e, n : ~(u = w /\ e = d) => (HasCount(y, u, e, n) <=> HasCount(idx, u, e, n))
                       /\ \A n : HasCount(idx, w, d, n) => HasCount(y, w, d, ToInt(n + c))
                       /\ (\A n : ~HasCount(idx, w, d, n)) => HasCount(y, w, d, c)
<1>1. PICK x, k :
        /\ x \in Indexes(W) /\ k \in DOMAIN x
        /\ x = WithEntry(idx, w) /\ x[k].word = w
        /\ \A u, e, n : HasCount(x, u, e, n) <=> HasCount(idx, u, e, n)
  BY WithEntryKeeps
<1>2. /\ x \in Seq(IndexEntries(W)) /\ NoDuplicates(x) /\ Len(x) \in Nat /\ DOMAIN x = 1..Len(x)
      /\ x[k].postings \in PostingLists /\ OneEach(x[k].postings)
      /\ \A i \in DOMAIN x : x[i].word = w => i = k
  BY <1>1, EntryType DEF Indexes
<1>3. PICK ps, qs : ps = x[k].postings /\ qs = AddToPostings(ps, d, c)
  OBVIOUS
<1>4. /\ qs \in PostingLists /\ OneEach(qs)
      /\ \A e, n : e # d => (Has(qs, e, n) <=> Has(ps, e, n))
      /\ \A n : Has(ps, d, n) => Has(qs, d, ToInt(n + c))
      /\ (\A n : ~Has(ps, d, n)) => Has(qs, d, c)
  BY <1>2, <1>3, AddToPostingsAdds
<1>5. PICK y : y = [i \in DOMAIN x |-> IF x[i].word = w THEN [x[i] EXCEPT !.postings = AddToPostings(@, d, c)]
                                       ELSE x[i]]
  OBVIOUS
<1>6. AddPosting(idx, w, d, c) = y
  <2>1. Accepts(d, c)
    BY IndexAssumption DEF Accepts
  <2> QED
    BY <1>1, <1>5, <2>1 DEF AddPosting
<1>7. /\ DOMAIN y = DOMAIN x /\ \A i \in DOMAIN x : i # k => y[i] = x[i]
      /\ y[k] = [x[k] EXCEPT !.postings = qs]
  BY <1>1, <1>2, <1>3, <1>5
<1>8. x[k] \in IndexEntries(W)
  BY <1>1, <1>2
<1>9. y[k] \in IndexEntries(W) /\ y[k].word = w /\ y[k].postings = qs
  BY <1>1, <1>4, <1>7, <1>8 DEF IndexEntries
<1>10. y \in Seq(IndexEntries(W))
  <2>1. \A i \in 1..Len(x) : y[i] \in IndexEntries(W)
    BY <1>2, <1>7, <1>9
  <2>2. y = [i \in 1..Len(x) |-> y[i]]
    BY <1>2, <1>5
  <2> QED
    BY <1>2, <2>1, <2>2
<1>11. \A i \in DOMAIN x : y[i].word = x[i].word
  BY <1>1, <1>7, <1>9
<1>12. NoDuplicates(y)
  <2>1. \A i, j \in DOMAIN y : y[i].word = y[j].word => i = j
    BY <1>2, <1>7, <1>11 DEF NoDuplicates
  <2>2. \A i \in DOMAIN y : OneEach(y[i].postings)
    BY <1>2, <1>4, <1>7, <1>9, ZenonT(30) DEF NoDuplicates, OneEach
  <2> QED
    BY <2>1, <2>2 DEF NoDuplicates, OneEach
<1>13. \A e, n : HasCount(x, w, e, n) <=> Has(ps, e, n)
  <2>1. \A i \in DOMAIN x : x[i].word = x[k].word => i = k
    BY <1>1, <1>2
  <2>2. \A e, n : HasCount(x, x[k].word, e, n) <=> Has(ps, e, n)
    BY <1>1, <1>3, <2>1, CountedAt
  <2> QED
    BY <1>1, <2>2
<1>14. \A e, n : HasCount(y, w, e, n) <=> Has(qs, e, n)
  <2>1. k \in DOMAIN y /\ \A i \in DOMAIN y : y[i].word = y[k].word => i = k
    BY <1>1, <1>2, <1>7, <1>11
  <2>2. \A e, n : HasCount(y, y[k].word, e, n) <=> Has(qs, e, n)
    BY <1>9, <2>1, CountedAt
  <2> QED
    BY <1>9, <2>2
<1>15. ASSUME NEW u, NEW e, NEW n, ~(u = w /\ e = d)
       PROVE  HasCount(y, u, e, n) <=> HasCount(x, u, e, n)
  <2>1. CASE u # w
    <3>1. \A i \in DOMAIN x : x[i].word = u => i # k /\ y[i] = x[i]
      BY <1>1, <1>7, <2>1
    <3>2. \A i \in DOMAIN y : y[i].word = u => y[i] = x[i] /\ x[i].word = u
      BY <1>7, <1>11, <3>1
    <3> QED
      BY <1>7, <3>1, <3>2 DEF HasCount
  <2>2. CASE u = w
    <3>1. Has(qs, e, n) <=> Has(ps, e, n)
      BY <1>4, <1>15, <2>2
    <3> QED
      BY <1>13, <1>14, <2>2, <3>1
  <2> QED
    BY <2>1, <2>2
<1>16. Added(y)
  <2>1. y \in Indexes(W)
    BY <1>10, <1>12 DEF Indexes
  <2>2. \A u, e, n : ~(u = w /\ e = d) => (HasCount(y, u, e, n) <=> HasCount(idx, u, e, n))
    BY <1>1, <1>15
  <2>3. ASSUME NEW n, HasCount(idx, w, d, n) PROVE HasCount(y, w, d, ToInt(n + c))
    BY <1>1, <1>4, <1>13, <1>14, <2>3
  <2>4. ASSUME \A n : ~HasCount(idx, w, d, n) PROVE HasCount(y, w, d, c)
    BY <1>1, <1>4, <1>13, <1>14, <2>4
  <2> QED
    BY <2>1, <2>2, <2>3, <2>4
<1> HIDE DEF Added
<1>17. Added(AddPosting(idx, w, d, c))
  BY <1>6, <1>16
<1> QED
  BY <1>17 DEF Added

\* What index_add_posting makes of the counts.
LEMMA CountAdds ==
  ASSUME NEW W, NEW idx \in Indexes(W), NEW w \in W, NEW d \in 1..IntMax, NEW c \in 1..IntMax
  PROVE  /\ CountOf(AddPosting(idx, w, d, c), w, d) = ToInt(CountOf(idx, w, d) + c)
         /\ \A u, e : ~(u = w /\ e = d) => CountOf(AddPosting(idx, w, d, c), u, e) = CountOf(idx, u, e)
<1>1. PICK y : y = AddPosting(idx, w, d, c)
  OBVIOUS
<1>2. /\ y \in Indexes(W)
      /\ \A u, e, n : ~(u = w /\ e = d) => (HasCount(y, u, e, n) <=> HasCount(idx, u, e, n))
      /\ \A n : HasCount(idx, w, d, n) => HasCount(y, w, d, ToInt(n + c))
      /\ (\A n : ~HasCount(idx, w, d, n)) => HasCount(y, w, d, c)
  BY <1>1, AddPostingAdds
<1>3. CountOf(y, w, d) = ToInt(CountOf(idx, w, d) + c)
  <2>1. CASE \E n : HasCount(idx, w, d, n)
    <3>1. PICK n : HasCount(idx, w, d, n)
      BY <2>1
    <3>2. CountOf(idx, w, d) = n /\ HasCount(y, w, d, ToInt(n + c))
      BY <1>2, <3>1, CountIs
    <3> QED
      BY <1>2, <3>2, CountIs
  <2>2. CASE ~\E n : HasCount(idx, w, d, n)
    <3>1. CountOf(idx, w, d) = 0 /\ CountOf(y, w, d) = c
      BY <1>2, <2>2, CountIs, CountZero
    <3>2. ToInt(0 + c) = c
      <4>1. 0 + c = c /\ c \in Int /\ c \in Ints
        BY IndexAssumption DEF Ints
      <4> QED
        BY <4>1, ToIntIsInt
    <3> QED
      BY <3>1, <3>2
  <2> QED
    BY <2>1, <2>2
<1>4. ASSUME NEW u, NEW e, ~(u = w /\ e = d) PROVE CountOf(y, u, e) = CountOf(idx, u, e)
  <2>1. CASE \E n : HasCount(idx, u, e, n)
    <3>1. PICK n : HasCount(idx, u, e, n)
      BY <2>1
    <3>2. CountOf(idx, u, e) = n
      BY <3>1, CountIs
    <3>3. HasCount(y, u, e, n)
      BY <1>2, <1>4, <3>1
    <3>4. CountOf(y, u, e) = n
      BY <1>2, <3>3, CountIs
    <3> QED
      BY <3>2, <3>4
  <2>2. CASE ~\E n : HasCount(idx, u, e, n)
    <3>1. \A n : ~HasCount(y, u, e, n)
      BY <1>2, <1>4, <2>2
    <3> QED
      BY <2>2, <3>1, CountZero
  <2> QED
    BY <2>1, <2>2
<1> QED
  BY <1>1, <1>3, <1>4

-----------------------------------------------------------------------------
(***************************************************************************)
(* The scanner for words.                                                  *)
(***************************************************************************)
\* A set of numbers has a least one, which Min finds.
LEMMA LeastOf ==
  ASSUME NEW I \in SUBSET Nat, I # {}
  PROVE  Min(I) \in I /\ \A m \in I : Min(I) <= m
<1>1. PICK x \in I : \A m \in I : x <= m
  BY LeastNumber
<1> QED
  BY <1>1 DEF Min

\* What holds for a position if it holds for all later ones holds for all positions.
LEMMA DownInduction ==
  ASSUME NEW n \in Nat, NEW G, \A i \in 1..n : (\A j \in (i + 1)..n : j \in G) => i \in G
  PROVE  \A i \in 1..n : i \in G
<1> DEFINE P == {k \in Nat : \A i \in 1..n : i > n - k => i \in G}
<1>1. 0 \in P
  OBVIOUS
<1>2. ASSUME NEW k \in Nat, k \in P PROVE k + 1 \in P
  <2> SUFFICES ASSUME NEW i \in 1..n, i > n - (k + 1) PROVE i \in G
    OBVIOUS
  <2>1. \A j \in (i + 1)..n : j \in 1..n /\ j > n - k
    OBVIOUS
  <2>2. \A j \in (i + 1)..n : j \in G
    BY <1>2, <2>1
  <2> QED
    BY <2>2
<1>3. \A k \in Nat : k \in P
  <2> HIDE DEF P
  <2> QED
    BY <1>1, <1>2, SetInduction
<1>4. n \in P /\ \A i \in 1..n : i > n - n
  BY <1>3
<1> QED
  BY <1>4

\* A function whose value at a position is an answer, or its value at a later position.
Leads(f, n, a, next) == f = [i \in 1..n |-> IF next[i] = 0 THEN a[i] ELSE f[next[i]]]

\* There is one.
LEMMA LeadsExist ==
  ASSUME NEW n \in Nat, NEW a, NEW next, \A i \in 1..n : next[i] = 0 \/ next[i] \in (i + 1)..n
  PROVE  \E f : Leads(f, n, a, next)
<1> DEFINE At(g, i) == IF next[i] = 0 THEN a[i] ELSE g[next[i]]
           P == {k \in Nat : \E g : \A i \in 1..n : i > n - k => g[i] = At(g, i)}
<1>1. 0 \in P
  <2>1. \A i \in 1..n : ~(i > n - 0)
    OBVIOUS
  <2> QED
    BY <2>1
<1>2. ASSUME NEW k \in Nat, k \in P PROVE k + 1 \in P
  <2>1. PICK g : \A i \in 1..n : i > n - k => g[i] = At(g, i)
    BY <1>2
  <2>2. PICK h : h = [i \in 1..n |-> IF i = n - k THEN At(g, i) ELSE g[i]]
    OBVIOUS
  <2>3. ASSUME NEW i \in 1..n, i > n - (k + 1) PROVE h[i] = At(h, i)
    <3>1. next[i] # 0 => next[i] \in 1..n /\ next[i] # n - k
      BY <2>3
    <3>2. At(h, i) = At(g, i)
      BY <2>2, <3>1
    <3>3. CASE i = n - k
      BY <2>2, <3>2, <3>3
    <3>4. CASE i > n - k
      <4>1. h[i] = g[i]
        BY <2>2, <3>4
      <4> QED
        BY <2>1, <3>2, <3>4, <4>1
    <3> QED
      BY <2>3, <3>3, <3>4
  <2> QED
    BY <2>3
<1>3. n \in P
  <2>1. \A k \in Nat : k \in P
    <3> HIDE DEF P
    <3> QED
      BY <1>1, <1>2, SetInduction
  <2> QED
    BY <2>1
<1>4. PICK g : \A i \in 1..n : g[i] = At(g, i)
  <2>1. \A i \in 1..n : i > n - n
    OBVIOUS
  <2> QED
    BY <1>3, <2>1
<1>5. PICK f : f = [i \in 1..n |-> g[i]]
  OBVIOUS
<1>6. \A i \in 1..n : At(f, i) = At(g, i)
  BY <1>5
<1>7. f = [i \in 1..n |-> At(f, i)]
  BY <1>4, <1>5, <1>6
<1> QED
  BY <1>7 DEF Leads

\* Position i is not behind a "<" that is not closed before it.
OutsideTags(doc, i) == \A j \in 1..(i - 1) : doc[j] = "<" => \E k \in (j + 1)..(i - 1) : doc[k] = ">"

\* A letter outside of tags.
IsText(doc, i) == doc[i] \in Letters /\ ~InTag(doc, i)

NoText(doc, i, k) == \A j \in i..k : ~IsText(doc, j)

\* What the scan from position i on returns: the next word, from its first letter to its
\* last, or that there is none.
Scans(doc, i, r) ==
  \/ /\ r.kind = "found" /\ r.first \in i..Len(doc) /\ r.last \in r.first..Len(doc)
     /\ NoText(doc, i, r.first - 1) /\ OutsideTags(doc, r.first)
     /\ \A j \in r.first..r.last : doc[j] \in Letters
     /\ r.last < Len(doc) => doc[r.last + 1] \notin Letters
  \/ r.kind = "end" /\ NoText(doc, i, Len(doc))
  \/ r.kind = "crash" /\ NoText(doc, i, Len(doc)) /\ InTag(doc, Len(doc))

\* The first ">" from position i on.
TagEnd(doc, i) == SelectInSubSeq(doc, i, Len(doc), LAMBDA c : c = ">")

\* It is the first, or 0 if there is none.
LEMMA TagEndIs ==
  ASSUME NEW S, NEW doc \in Seq(S), NEW i \in 1..Len(doc), NEW c, c = TagEnd(doc, i)
  PROVE  \/ c = 0 /\ \A k \in i..Len(doc) : doc[k] # ">"
         \/ c \in i..Len(doc) /\ doc[c] = ">" /\ \A k \in i..(c - 1) : doc[k] # ">"
<1>1. PICK n \in Nat : n = Len(doc)
  OBVIOUS
<1>2. PICK I : I = {k \in i..n : doc[k] = ">"}
  OBVIOUS
<1>3. c = IF I # {} THEN Min(I) ELSE 0
  BY <1>1, <1>2 DEF TagEnd, SelectInSubSeq
<1>4. I # {} => Min(I) \in I /\ \A m \in I : Min(I) <= m
  <2>1. I \in SUBSET Nat
    BY <1>1, <1>2
  <2> QED
    BY <2>1, LeastOf
<1>5. CASE I = {}
  BY <1>1, <1>2, <1>3, <1>5
<1>6. CASE I # {}
  <2>1. c \in I /\ \A m \in I : c <= m
    BY <1>3, <1>4, <1>6
  <2>2. c \in i..n /\ doc[c] = ">"
    BY <1>2, <2>1
  <2>3. ASSUME NEW k \in i..(c - 1) PROVE doc[k] # ">"
    <3>1. k \in i..n /\ ~(c <= k)
      BY <1>1, <2>2
    <3> QED
      BY <1>2, <2>1, <3>1
  <2> QED
    BY <1>1, <2>2, <2>3
<1> QED
  BY <1>5, <1>6

\* A word ends before the first token that is no letter.
LEMMA WordFromIs ==
  ASSUME NEW S, NEW doc \in Seq(S), NEW i \in 1..Len(doc), doc[i] \in Letters, OutsideTags(doc, i)
  PROVE  Scans(doc, i, WordFrom(doc, i))
<1>1. PICK n \in Nat : n = Len(doc)
  OBVIOUS
<1>2. PICK I : I = {k \in i..n : doc[k] \notin Letters}
  OBVIOUS
<1>3. PICK after : after = IF I # {} THEN Min(I) ELSE 0
  OBVIOUS
<1>4. PICK r : r = [kind |-> "found", first |-> i, last |-> IF after = 0 THEN n ELSE after - 1]
  OBVIOUS
<1>5. WordFrom(doc, i) = r
  BY <1>1, <1>2, <1>3, <1>4 DEF WordFrom, SelectInSubSeq
<1>6. I # {} => Min(I) \in I /\ \A m \in I : Min(I) <= m
  <2>1. I \in SUBSET Nat
    BY <1>1, <1>2
  <2> QED
    BY <2>1, LeastOf
<1>7. r.kind = "found" /\ r.first = i
  BY <1>4
<1>8. NoText(doc, i, i - 1)
  BY <1>1 DEF NoText
<1>9. CASE I = {}
  <2>1. r.last = n
    BY <1>3, <1>4, <1>9
  <2>2. \A j \in i..n : doc[j] \in Letters
    BY <1>2, <1>9
  <2> QED
    BY <1>1, <1>5, <1>7, <1>8, <2>1, <2>2 DEF Scans
<1>10. CASE I # {}
  <2>1. after \in I /\ \A m \in I : after <= m
    BY <1>3, <1>6, <1>10
  <2>2. after \in i..n /\ doc[after] \notin Letters
    BY <1>2, <2>1
  <2>3. r.last = after - 1 /\ after # i
    BY <1>1, <1>4, <2>2
  <2>4. ASSUME NEW j \in i..(after - 1) PROVE doc[j] \in Letters
    <3>1. j \in i..n /\ ~(after <= j)
      BY <1>1, <2>2
    <3> QED
      BY <1>2, <2>1, <3>1
  <2>5. r.last \in i..n /\ r.last + 1 = after
    BY <1>1, <2>2, <2>3
  <2> QED
    BY <1>1, <1>5, <1>7, <1>8, <2>2, <2>3, <2>4, <2>5 DEF Scans
<1> QED
  BY <1>9, <1>10

\* Where the scan goes on, 0 if it ends, and what it returns if it does.
ScanNext(doc, i) ==
  IF i > Len(doc) \/ doc[i] \in Letters THEN 0
  ELSE IF doc[i] # "<" THEN i + 1
  ELSE IF TagEnd(doc, i) \in {0, Len(doc)} THEN 0 ELSE TagEnd(doc, i) + 1

ScanEnd(doc, i) ==
  IF i > Len(doc) THEN [kind |-> "end"]
  ELSE IF doc[i] \in Letters THEN WordFrom(doc, i)
  ELSE IF TagEnd(doc, i) = 0 THEN [kind |-> "crash"] ELSE [kind |-> "end"]

\* FindWord is a function of this kind.
LEMMA FindWordLeads ==
  ASSUME NEW S, NEW doc \in Seq(S)
  PROVE  \E f : /\ \A i \in 1..(Len(doc) + 1) :
                     f[i] = IF ScanNext(doc, i) = 0 THEN ScanEnd(doc, i) ELSE f[ScanNext(doc, i)]
                /\ \A i \in 1..(Len(doc) + 1) : FindWord(doc, i) = f[i]
<1> DEFINE ScanFun(f) == f = [i \in 1..(Len(doc) + 1) |->
             IF i > Len(doc) THEN [kind |-> "end"]
             ELSE IF doc[i] \in Letters THEN WordFrom(doc, i)
             ELSE IF doc[i] # "<" THEN f[i + 1]
             ELSE IF TagEnd(doc, i) = 0 THEN [kind |-> "crash"]
             ELSE IF TagEnd(doc, i) = Len(doc) THEN [kind |-> "end"]
             ELSE f[TagEnd(doc, i) + 1]]
<1>1. PICK n \in Nat : n = Len(doc) + 1
  OBVIOUS
<1>2. PICK a, next : /\ a = [i \in 1..n |-> ScanEnd(doc, i)]
                     /\ next = [i \in 1..n |-> ScanNext(doc, i)]
  OBVIOUS
<1>3. ASSUME NEW i \in 1..n PROVE next[i] = 0 \/ next[i] \in (i + 1)..n
  <2>1. CASE i \in 1..Len(doc)
    <3>1. TagEnd(doc, i) \in {0} \cup i..Len(doc)
      BY <2>1, TagEndIs
    <3> QED
      BY <1>1, <1>2, <2>1, <3>1 DEF ScanNext
  <2>2. CASE i > Len(doc)
    BY <1>2, <2>2 DEF ScanNext
  <2> QED
    BY <1>1, <2>1, <2>2
<1>4. \A i \in 1..n : a[i] = ScanEnd(doc, i) /\ next[i] = ScanNext(doc, i)
  BY <1>2
<1>5. \E f : ScanFun(f)
  <2>1. PICK f : Leads(f, n, a, next)
    BY <1>3, LeadsExist
  <2>2. f = [i \in 1..n |-> IF next[i] = 0 THEN a[i] ELSE f[next[i]]]
    BY <2>1 DEF Leads
  <2>3. ASSUME NEW i \in 1..n
        PROVE  (IF next[i] = 0 THEN a[i] ELSE f[next[i]]) =
                 IF i > Len(doc) THEN [kind |-> "end"]
                 ELSE IF doc[i] \in Letters THEN WordFrom(doc, i)
                 ELSE IF doc[i] # "<" THEN f[i + 1]
                 ELSE IF TagEnd(doc, i) = 0 THEN [kind |-> "crash"]
                 ELSE IF TagEnd(doc, i) = Len(doc) THEN [kind |-> "end"]
                 ELSE f[TagEnd(doc, i) + 1]
    <3>1. i \in 1..Len(doc) => TagEnd(doc, i) \in Nat
      BY TagEndIs
    <3>2. Len(doc) \in Nat
      OBVIOUS
    <3> QED
      BY <1>1, <1>4, <3>1, <3>2 DEF ScanNext, ScanEnd
  <2>4. ScanFun(f)
    BY <1>1, <2>2, <2>3
  <2> QED
    BY <2>4
<1>6. PICK f : ScanFun(f) /\ \A i \in 1..n : FindWord(doc, i) = f[i]
  <2>1. \A i \in 1..n : FindWord(doc, i) = (CHOOSE f : ScanFun(f))[i]
    BY DEF FindWord, TagEnd
  <2> HIDE DEF ScanFun
  <2> QED
    BY <1>5, <2>1
<1>7. ASSUME NEW i \in 1..n
      PROVE  f[i] = IF ScanNext(doc, i) = 0 THEN ScanEnd(doc, i) ELSE f[ScanNext(doc, i)]
  <2>1. i \in 1..Len(doc) => TagEnd(doc, i) \in Nat
    BY TagEndIs
  <2>2. Len(doc) \in Nat
    OBVIOUS
  <2>3. f[i] = IF i > Len(doc) THEN [kind |-> "end"]
               ELSE IF doc[i] \in Letters THEN WordFrom(doc, i)
               ELSE IF doc[i] # "<" THEN f[i + 1]
               ELSE IF TagEnd(doc, i) = 0 THEN [kind |-> "crash"]
               ELSE IF TagEnd(doc, i) = Len(doc) THEN [kind |-> "end"]
               ELSE f[TagEnd(doc, i) + 1]
    BY <1>1, <1>6
  <2> QED
    BY <1>1, <2>1, <2>2, <2>3 DEF ScanNext, ScanEnd
<1> QED
  BY <1>1, <1>6, <1>7

\* Before the position where the scan goes on there is no letter outside of tags, and it
\* is outside of tags if the scan was.
LEMMA ScanNextIs ==
  ASSUME NEW S, NEW doc \in Seq(S), NEW i \in 1..(Len(doc) + 1), OutsideTags(doc, i),
         NEW m, m = ScanNext(doc, i), m # 0
  PROVE  m \in (i + 1)..(Len(doc) + 1) /\ NoText(doc, i, m - 1) /\ OutsideTags(doc, m)
<1>1. PICK n \in Nat : n = Len(doc)
  OBVIOUS
<1>2. i \in 1..n /\ doc[i] \notin Letters
  BY <1>1 DEF ScanNext
<1>3. CASE doc[i] # "<"
  <2>1. m = i + 1
    BY <1>1, <1>2, <1>3 DEF ScanNext
  <2>2. NoText(doc, i, m - 1)
    BY <1>2, <2>1 DEF NoText, IsText
  <2>3. OutsideTags(doc, m)
    <3> SUFFICES ASSUME NEW j \in 1..i, doc[j] = "<" PROVE \E k \in (j + 1)..i : doc[k] = ">"
      BY <1>2, <2>1 DEF OutsideTags
    <3>1. j \in 1..(i - 1)
      BY <1>2, <1>3
    <3>2. PICK k \in (j + 1)..(i - 1) : doc[k] = ">"
      BY <3>1 DEF OutsideTags
    <3>3. k \in (j + 1)..i
      BY <1>2, <3>1
    <3> QED
      BY <3>2, <3>3
  <2> QED
    BY <1>1, <1>2, <2>1, <2>2, <2>3
<1>4. CASE doc[i] = "<"
  <2>1. PICK c : c = TagEnd(doc, i)
    OBVIOUS
  <2>2. c # 0 /\ c # n /\ m = c + 1
    BY <1>1, <1>2, <1>4, <2>1 DEF ScanNext
  <2>3. c \in i..n /\ doc[c] = ">" /\ \A k \in i..(c - 1) : doc[k] # ">"
    BY <1>1, <1>2, <2>1, <2>2, TagEndIs
  <2>4. c \in (i + 1)..n
    <3>1. c # i
      BY <1>4, <2>3
    <3> QED
      BY <1>2, <2>3, <3>1
  <2>5. ASSUME NEW j \in i..c PROVE InTag(doc, j)
    <3>1. i \in 1..j /\ \A k \in (i + 1)..(j - 1) : doc[k] # ">"
      BY <1>2, <2>3, <2>4
    <3> QED
      BY <1>4, <3>1 DEF InTag
  <2>6. NoText(doc, i, m - 1)
    <3>1. m - 1 = c
      BY <1>1, <2>2, <2>3
    <3> QED
      BY <2>5, <3>1 DEF NoText, IsText
  <2>7. OutsideTags(doc, m)
    <3> SUFFICES ASSUME NEW j \in 1..c, doc[j] = "<" PROVE \E k \in (j + 1)..c : doc[k] = ">"
      BY <1>1, <2>2, <2>3 DEF OutsideTags
    <3>1. j # c
      BY <2>3
    <3>2. c \in (j + 1)..c
      BY <1>1, <2>3, <3>1
    <3> QED
      BY <2>3, <3>2
  <2> QED
    BY <1>1, <2>2, <2>4, <2>6, <2>7
<1> QED
  BY <1>3, <1>4

\* Where the scan ends it returns what is said of it.
LEMMA ScanEndIs ==
  ASSUME NEW S, NEW doc \in Seq(S), NEW i \in 1..(Len(doc) + 1), OutsideTags(doc, i),
         ScanNext(doc, i) = 0
  PROVE  Scans(doc, i, ScanEnd(doc, i))
<1>1. PICK n \in Nat : n = Len(doc)
  OBVIOUS
<1>2. PICK r : r = ScanEnd(doc, i)
  OBVIOUS
<1>3. CASE i > n
  <2>1. r.kind = "end" /\ NoText(doc, i, Len(doc))
    BY <1>1, <1>2, <1>3 DEF ScanEnd, NoText
  <2> QED
    BY <1>2, <2>1 DEF Scans
<1>4. CASE i \in 1..n /\ doc[i] \in Letters
  BY <1>1, <1>4, WordFromIs DEF ScanEnd
<1>5. CASE i \in 1..n /\ doc[i] \notin Letters
  <2>1. PICK c : c = TagEnd(doc, i)
    OBVIOUS
  <2>2. doc[i] = "<" /\ c \in {0, n}
    <3>1. c \in {0} \cup i..n
      BY <1>1, <1>5, <2>1, TagEndIs
    <3>2. i > 0 /\ c + 1 > 0 /\ ~(i > n)
      BY <1>1, <1>5, <3>1
    <3> QED
      BY <1>1, <1>5, <2>1, <3>2 DEF ScanNext
  <2>3. \/ c = 0 /\ \A k \in i..n : doc[k] # ">"
        \/ c = n /\ \A k \in i..(n - 1) : doc[k] # ">"
    BY <1>1, <1>5, <2>1, <2>2, TagEndIs
  <2>4. ASSUME NEW j \in i..n PROVE InTag(doc, j)
    <3>1. i \in 1..j /\ \A k \in (i + 1)..(j - 1) : doc[k] # ">"
      BY <1>1, <1>5, <2>3
    <3> QED
      BY <2>2, <3>1 DEF InTag
  <2>5. NoText(doc, i, Len(doc)) /\ InTag(doc, Len(doc))
    BY <1>1, <1>5, <2>4 DEF NoText, IsText
  <2>6. r.kind \in {"end", "crash"}
    BY <1>1, <1>2, <1>5 DEF ScanEnd
  <2> QED
    BY <1>2, <2>5, <2>6 DEF Scans
<1> QED
  BY <1>1, <1>3, <1>4, <1>5

\* What a scan returns from a later position it returns from an earlier one without text
\* between the two.
LEMMA ScansBefore ==
  ASSUME NEW S, NEW doc \in Seq(S), NEW i \in 1..(Len(doc) + 1), NEW m \in i..(Len(doc) + 1),
         NoText(doc, i, m - 1), NEW r, Scans(doc, m, r)
  PROVE  Scans(doc, i, r)
<1>1. PICK n \in Nat : n = Len(doc)
  OBVIOUS
<1>2. ASSUME NEW k \in Int, NoText(doc, m, k) PROVE NoText(doc, i, k)
  <2> SUFFICES ASSUME NEW j \in i..k PROVE ~IsText(doc, j)
    BY DEF NoText
  <2>1. j \in i..(m - 1) \/ j \in m..k
    BY <1>1
  <2> QED
    BY <1>2, <2>1 DEF NoText
<1>3. CASE r.kind = "found"
  <2>1. /\ r.first \in m..n /\ r.last \in r.first..n
        /\ NoText(doc, m, r.first - 1) /\ OutsideTags(doc, r.first)
        /\ \A j \in r.first..r.last : doc[j] \in Letters
        /\ r.last < n => doc[r.last + 1] \notin Letters
    BY <1>1, <1>3 DEF Scans
  <2>2. r.first \in i..n /\ r.first - 1 \in Int
    BY <1>1, <2>1
  <2>3. NoText(doc, i, r.first - 1)
    BY <1>2, <2>1, <2>2
  <2> QED
    BY <1>1, <1>3, <2>1, <2>2, <2>3 DEF Scans
<1>4. CASE r.kind # "found"
  <2>1. n \in Int
    BY <1>1
  <2> QED
    BY <1>1, <1>2, <1>4, <2>1 DEF Scans
<1> QED
  BY <1>3, <1>4

\* The scan finds the next word outside of tags, or that there is none.
LEMMA FindWordScans ==
  ASSUME NEW S, NEW doc \in Seq(S), NEW start \in 1..(Len(doc) + 1), OutsideTags(doc, start)
  PROVE  Scans(doc, start, FindWord(doc, start))
<1>1. PICK n \in Nat : n = Len(doc) + 1
  OBVIOUS
<1>2. PICK f : /\ \A i \in 1..(Len(doc) + 1) :
                     f[i] = IF ScanNext(doc, i) = 0 THEN ScanEnd(doc, i) ELSE f[ScanNext(doc, i)]
               /\ \A i \in 1..(Len(doc) + 1) : FindWord(doc, i) = f[i]
  BY FindWordLeads
<1> DEFINE G == {i \in 1..n : OutsideTags(doc, i) => Scans(doc, i, f[i])}
<1>3. ASSUME NEW i \in 1..n, \A j \in (i + 1)..n : j \in G PROVE i \in G
  <2> SUFFICES ASSUME OutsideTags(doc, i) PROVE Scans(doc, i, f[i])
    OBVIOUS
  <2>1. CASE ScanNext(doc, i) = 0
    <3>1. Scans(doc, i, ScanEnd(doc, i))
      BY <1>1, <2>1, ScanEndIs
    <3> QED
      BY <1>1, <1>2, <2>1, <3>1
  <2>2. CASE ScanNext(doc, i) # 0
    <3>1. PICK m : m = ScanNext(doc, i)
      OBVIOUS
    <3>2. m \in (i + 1)..n /\ NoText(doc, i, m - 1) /\ OutsideTags(doc, m)
      BY <1>1, <2>2, <3>1, ScanNextIs
    <3>3. Scans(doc, m, f[m]) /\ f[i] = f[m]
      BY <1>1, <1>2, <1>3, <2>2, <3>1, <3>2
    <3>4. i \in 1..(Len(doc) + 1) /\ m \in i..(Len(doc) + 1)
      BY <1>1, <3>2
    <3> QED
      BY <3>2, <3>3, <3>4, ScansBefore
  <2> QED
    BY <2>1, <2>2
<1>4. \A i \in 1..n : i \in G
  <2> HIDE DEF G
  <2> QED
    BY <1>3, DownInduction
<1> QED
  BY <1>1, <1>2, <1>4

\* Behind a word outside of tags one is still outside of them, and so are all its letters.
LEMMA WordOutside ==
  ASSUME NEW S, NEW doc \in Seq(S), NEW first \in 1..Len(doc), NEW last \in first..Len(doc),
         OutsideTags(doc, first), \A j \in first..last : doc[j] \in Letters
  PROVE  OutsideTags(doc, last + 1) /\ \A j \in first..last : IsText(doc, j)
<1>1. PICK n \in Nat : n = Len(doc)
  OBVIOUS
<1>2. ASSUME NEW i \in first..(last + 1), NEW j \in 1..(i - 1), doc[j] = "<"
      PROVE  \E k \in (j + 1)..(i - 1) : doc[k] = ">"
  <2>1. j \notin first..last
    BY <1>2, ScanAssumption
  <2>2. j \in 1..(first - 1)
    BY <1>1, <2>1
  <2>3. PICK k \in (j + 1)..(first - 1) : doc[k] = ">"
    BY <1>2, <2>2 DEF OutsideTags
  <2>4. k \in (j + 1)..(i - 1)
    BY <1>1, <2>2
  <2> QED
    BY <2>3, <2>4
<1>3. OutsideTags(doc, last + 1)
  <2>1. last + 1 \in first..(last + 1)
    BY <1>1
  <2> QED
    BY <1>2, <2>1 DEF OutsideTags
<1>4. ASSUME NEW i \in first..last PROVE IsText(doc, i)
  <2>1. ASSUME NEW j \in 1..i, doc[j] = "<", \A k \in (j + 1)..(i - 1) : doc[k] # ">" PROVE FALSE
    <3>1. j # i
      BY <2>1, ScanAssumption
    <3>2. j \in 1..(i - 1) /\ i \in first..(last + 1)
      BY <1>1, <3>1
    <3> QED
      BY <1>2, <2>1, <3>2
  <2> QED
    BY <2>1 DEF IsText, InTag
<1> QED
  BY <1>3, <1>4


-----------------------------------------------------------------------------
(***************************************************************************)
(* Sums: a run of n steps from the number base, of which step i adds a[i]. *)
(***************************************************************************)
Adds(g, n, base, a) ==
  /\ g[0] = base /\ \A i \in 0..n : g[i] \in Int
  /\ \A i \in 1..n : a[i] \in Int /\ g[i] = g[i - 1] + a[i]

\* A run that begins c higher ends c higher.
LEMMA SumsShift ==
  ASSUME NEW n \in Nat, NEW x \in Int, NEW c \in Int, NEW a, NEW b, NEW g, NEW h,
         Adds(g, n, x, a), Adds(h, n, x + c, b), \A i \in 1..n : b[i] = a[i]
  PROVE  h[n] = g[n] + c
<1> DEFINE P == {i \in Nat : i <= n => h[i] = g[i] + c}
<1>1. 0 \in P
  BY DEF Adds
<1>2. ASSUME NEW i \in Nat, i \in P PROVE i + 1 \in P
  <2> SUFFICES ASSUME i + 1 <= n PROVE h[i + 1] = g[i + 1] + c
    OBVIOUS
  <2>1. i + 1 \in 1..n /\ (i + 1) - 1 = i /\ i \in 0..n /\ h[i] = g[i] + c
    BY <1>2
  <2>2. /\ g[i + 1] = g[i] + a[i + 1] /\ h[i + 1] = h[i] + b[i + 1]
        /\ g[i] \in Int /\ a[i + 1] \in Int /\ b[i + 1] = a[i + 1]
    BY <2>1 DEF Adds
  <2> QED
    BY <2>1, <2>2
<1>3. \A i \in Nat : i \in P
  <2> HIDE DEF P
  <2> QED
    BY <1>1, <1>2, SetInduction
<1> QED
  BY <1>3

\* Step k of n adds c more.
AddsMore(b, a, n, k, c) == \A i \in 1..n : b[i] = IF i = k THEN a[i] + c ELSE a[i]

\* A run of which one step adds c more ends c higher.
LEMMA SumsDiffer ==
  ASSUME NEW n \in Nat, NEW x \in Int, NEW c \in Int, NEW a, NEW b, NEW g, NEW h, NEW k \in 1..n,
         Adds(g, n, x, a), Adds(h, n, x, b), AddsMore(b, a, n, k, c)
  PROVE  h[n] = g[n] + c
<1> DEFINE P == {i \in Nat : i <= n => h[i] = g[i] + (IF i < k THEN 0 ELSE c)}
<1>1. 0 \in P
  BY DEF Adds
<1>2. ASSUME NEW i \in Nat, i \in P PROVE i + 1 \in P
  <2> SUFFICES ASSUME i + 1 <= n PROVE h[i + 1] = g[i + 1] + (IF i + 1 < k THEN 0 ELSE c)
    OBVIOUS
  <2>1. i + 1 \in 1..n /\ (i + 1) - 1 = i /\ i \in 0..n /\ h[i] = g[i] + (IF i < k THEN 0 ELSE c)
    BY <1>2
  <2>2. /\ g[i + 1] = g[i] + a[i + 1] /\ h[i + 1] = h[i] + b[i + 1]
        /\ g[i] \in Int /\ a[i + 1] \in Int /\ b[i + 1] = IF i + 1 = k THEN a[i + 1] + c ELSE a[i + 1]
    BY <2>1 DEF Adds, AddsMore
  <2> QED
    BY <2>1, <2>2
<1>3. \A i \in Nat : i \in P
  <2> HIDE DEF P
  <2> QED
    BY <1>1, <1>2, SetInduction
<1>4. n \in P
  BY <1>3
<1> QED
  BY <1>4

\* A run of one step more.
LEMMA SumsAppend ==
  ASSUME NEW n \in Nat, NEW x \in Int, NEW a, NEW b, NEW g, NEW h,
         Adds(g, n, x, a), Adds(h, n + 1, x, b), \A i \in 1..n : b[i] = a[i]
  PROVE  h[n + 1] = g[n] + b[n + 1]
<1>1. Adds(h, n, x + 0, b)
  BY DEF Adds
<1>2. h[n] = g[n] + 0
  BY <1>1, SumsShift
<1>3. n + 1 \in 1..(n + 1) /\ (n + 1) - 1 = n /\ n \in 0..n
  OBVIOUS
<1>4. h[n + 1] = h[n] + b[n + 1] /\ g[n] \in Int
  BY <1>3 DEF Adds
<1> QED
  BY <1>2, <1>4

-----------------------------------------------------------------------------
(***************************************************************************)
(* Lines of an index file, whole and torn.  S are the stumps of a word, B  *)
(* is the base numbers are written in.                                     *)
(***************************************************************************)
\* The pairs of numbers in the line of a word with these postings.
PairsOf(ps) == [j \in DOMAIN ps |-> <<ps[j].docid, ps[j].count>>]

\* Postings as indexsave finds them unless a sum has overflowed.
Positive(ps) == \A j \in DOMAIN ps : ps[j].count > 0

\* A line holds its postings, number by number.
Holds(ns, ps) ==
  /\ ns \in Seq(Int) /\ Len(ns) = 2 * Len(ps)
  /\ \A j \in 1..Len(ps) : ns[2 * j - 1] = ps[j].docid /\ ns[2 * j] = ps[j].count

\* The line of an entry has its word and, in pairs, the numbers of its postings.
LEMMA LineNumbers ==
  ASSUME NEW W, NEW e \in IndexEntries(W), NEW ps, ps = e.postings, NEW l, l = Line(e), NEW ns, ns = l.numbers
  PROVE  l = [word |-> e.word, numbers |-> ns] /\ Holds(ns, ps)
<1>1. PICK n : n = Len(ps)
  OBVIOUS
<1>2. /\ ps \in PostingLists /\ n \in Nat /\ DOMAIN ps = 1..n
      /\ \A j \in 1..n : ps[j].docid \in Int /\ ps[j].count \in Int
  <2>1. ps \in PostingLists
    BY DEF IndexEntries
  <2> QED
    BY <1>1, <2>1, PostingType DEF Ints
<1>3. PICK a, b : a = [j \in 1..n |-> ps[j].docid] /\ b = [j \in 1..n |-> ps[j].count]
  OBVIOUS
<1>4. Line(e) = [word |-> e.word, numbers |-> FlattenSeq([j \in 1..n |-> <<a[j], b[j]>>])]
  <2>1. [j \in DOMAIN ps |-> <<ps[j].docid, ps[j].count>>] = [j \in 1..n |-> <<a[j], b[j]>>]
    BY <1>2, <1>3
  <2> QED
    BY <2>1 DEF Line
<1>5. PICK I, seqs : I = Int /\ seqs = [j \in 1..n |-> <<a[j], b[j]>>]
  OBVIOUS
<1>6. ns = FlattenSeq(seqs) /\ l = [word |-> e.word, numbers |-> ns]
  BY <1>4, <1>5
<1>7. \A j \in 1..n : a[j] \in I /\ b[j] \in I
  BY <1>2, <1>3, <1>5
<1>8. ns \in Seq(I) /\ Paired(ns, n, a, b)
  BY <1>2, <1>5, <1>6, <1>7, FlattenPairs
<1> QED
  BY <1>1, <1>3, <1>5, <1>6, <1>8 DEF Paired, Holds

\* The line that is written for an entry loads as the pairs of its postings.
LEMMA LinePairs ==
  ASSUME NEW W, NEW e \in IndexEntries(W)
  PROVE  Line(e).word = e.word /\ Pairs(Line(e)) = PairsOf(e.postings)
<1>1. PICK ps, ns, n, l : ps = e.postings /\ ns = Line(e).numbers /\ n = Len(ps) /\ l = Line(e)
  OBVIOUS
<1>2. /\ l = [word |-> e.word, numbers |-> ns]
      /\ Len(ns) = 2 * n
      /\ \A j \in 1..n : ns[2 * j - 1] = ps[j].docid /\ ns[2 * j] = ps[j].count
  <2>1. l = [word |-> e.word, numbers |-> ns] /\ Holds(ns, ps)
    BY <1>1, LineNumbers
  <2> QED
    BY <1>1, <2>1 DEF Holds
<1>3. n \in Nat /\ DOMAIN ps = 1..n
  <2>1. ps \in PostingLists
    BY <1>1 DEF IndexEntries
  <2> QED
    BY <1>1, <2>1, PostingType
<1>4. l.word = e.word /\ l.numbers = ns /\ Len(ns) \div 2 = n
  BY <1>2, <1>3
<1>5. [j \in 1..n |-> <<ns[2 * j - 1], ns[2 * j]>>] = [j \in 1..n |-> <<ps[j].docid, ps[j].count>>]
  BY <1>2
<1>6. Pairs(l) = PairsOf(ps)
  BY <1>3, <1>4, <1>5 DEF Pairs, PairsOf
<1> QED
  BY <1>1, <1>4, <1>6

\* The postings qs are the first of ps, but that the count at j may be too low.
IsCut(qs, ps, j) ==
  /\ qs \in PostingLists /\ Len(qs) <= Len(ps)
  /\ \A i \in 1..Len(qs) :
       /\ qs[i].docid = ps[i].docid /\ 0 < qs[i].count /\ qs[i].count <= ps[i].count
       /\ i # j => qs[i].count = ps[i].count

\* What is left of a positive number is not more.
LEMMA CutIsLess ==
  ASSUME NEW B \in Nat \ {0, 1}, NEW n \in Nat
  PROVE  CutNumber(n, B) \in 0..n
<1>1. B \in Nat /\ B >= 2
  OBVIOUS
<1>2. PICK q : q = n \div B /\ q \in Int
  BY <1>1
<1>3. q >= 0 /\ q <= n
  BY <1>1, <1>2
<1>4. CutNumber(n, B) = q
  BY <1>1, <1>2 DEF CutNumber
<1> QED
  BY <1>2, <1>3, <1>4

\* Sets of powers of a base.
PowerSets == SUBSET (Nat \ {0, 1})

\* The numbers of a line up to the place k, the last one cut or not.
Prefix(t, ns, k, P) ==
  /\ t \in Seq(Int) /\ Len(t) = k /\ k \in 1..Len(ns)
  /\ \A i \in 1..(k - 1) : t[i] = ns[i]
  /\ t[k] = ns[k] \/ (t[k] # 0 /\ \E B \in P : t[k] = CutNumber(ns[k], B))

\* A torn line is a stump of a word, or has a prefix of the numbers, the last one cut or not.
LEMMA TornNumbers ==
  ASSUME NEW P \in PowerSets, NEW S,
         NEW line, NEW ns, line.numbers = ns, ns \in Seq(Int), NEW part \in TornLines(line, S, P)
  PROVE  \/ \E u \in S : part = [word |-> u, numbers |-> <<>>]
         \/ \E k, t : part = [line EXCEPT !.numbers = t] /\ Prefix(t, ns, k, P)
<1>1. Len(ns) \in Nat /\ DOMAIN ns = 1..Len(ns)
  OBVIOUS
<1>2. CASE part \in {[word |-> u, numbers |-> <<>>] : u \in S}
  BY <1>2
<1>3. CASE part \in {[line EXCEPT !.numbers = SubSeq(@, 1, k)] : k \in DOMAIN line.numbers}
  <2>1. PICK k \in DOMAIN ns : part = [line EXCEPT !.numbers = SubSeq(ns, 1, k)]
    BY <1>3
  <2>2. PICK t : t = SubSeq(ns, 1, k)
    OBVIOUS
  <2>3. t \in Seq(Int) /\ Len(t) = k /\ \A i \in 1..k : t[i] = ns[i]
    BY <1>1, <2>2
  <2>4. k \in 1..k /\ \A i \in 1..(k - 1) : i \in 1..k
    BY <1>1
  <2>5. Prefix(t, ns, k, P)
    BY <1>1, <2>3, <2>4 DEF Prefix
  <2> QED
    BY <2>1, <2>2, <2>5
<1>4. ASSUME NEW B \in P,
             part \in {[line EXCEPT !.numbers = Append(SubSeq(@, 1, k - 1), CutNumber(@[k], B))] :
                         k \in {k \in DOMAIN line.numbers : CutNumber(line.numbers[k], B) # 0}}
      PROVE  \E k, t : part = [line EXCEPT !.numbers = t] /\ Prefix(t, ns, k, P)
  <2>1. PICK k \in DOMAIN ns :
          /\ CutNumber(ns[k], B) # 0
          /\ part = [line EXCEPT !.numbers = Append(SubSeq(ns, 1, k - 1), CutNumber(ns[k], B))]
    BY <1>4
  <2>2. PICK s, c, t : s = SubSeq(ns, 1, k - 1) /\ c = CutNumber(ns[k], B) /\ t = Append(s, c)
    OBVIOUS
  <2>3. s \in Seq(Int) /\ Len(s) = k - 1 /\ \A i \in 1..(k - 1) : s[i] = ns[i]
    BY <1>1, <2>2
  <2>4. c \in Int
    <3>1. ns[k] \in Int
      OBVIOUS
    <3> QED
      BY <1>4, <2>2, <3>1, SMTT(30) DEF CutNumber, PowerSets
  <2>5. t \in Seq(Int) /\ Len(t) = k /\ \A i \in 1..(k - 1) : t[i] = s[i]
    BY <1>1, <2>2, <2>3, <2>4, AppendProperties
  <2>6. t[k] = c
    <3>1. (k - 1) + 1 = k
      BY <1>1
    <3> QED
      BY <2>2, <2>3, <2>4, <3>1, AppendProperties
  <2>7. Prefix(t, ns, k, P)
    BY <1>1, <1>4, <2>1, <2>2, <2>3, <2>5, <2>6 DEF Prefix
  <2> QED
    BY <2>1, <2>2, <2>7
<1>5. \/ part \in {[word |-> u, numbers |-> <<>>] : u \in S}
      \/ part \in {[line EXCEPT !.numbers = SubSeq(@, 1, k)] : k \in DOMAIN line.numbers}
      \/ \E B \in P :
           part \in {[line EXCEPT !.numbers = Append(SubSeq(@, 1, k - 1), CutNumber(@[k], B))] :
                       k \in {k \in DOMAIN line.numbers : CutNumber(line.numbers[k], B) # 0}}
  BY DEF TornLines
<1> QED
  BY <1>2, <1>3, <1>4, <1>5

\* What is left of a line is a stump of a word, or the word with the first of its postings.
LEMMA TornPostings ==
  ASSUME NEW W, NEW e \in IndexEntries(W), NEW ps, ps = e.postings, Positive(ps),
         NEW P \in PowerSets, NEW S,
         NEW part \in TornLines(Line(e), S, P)
  PROVE  \/ \E u \in S : part = [word |-> u, numbers |-> <<>>]
         \/ \E qs, j : part.word = e.word /\ Pairs(part) = PairsOf(qs) /\ IsCut(qs, ps, j)
<1>1. PICK l, ns, n : l = Line(e) /\ ns = l.numbers /\ n = Len(ps)
  OBVIOUS
<1>2. l = [word |-> e.word, numbers |-> ns] /\ Holds(ns, ps)
  BY <1>1, LineNumbers
<1>3. /\ ns \in Seq(Int) /\ Len(ns) = 2 * n
      /\ \A i \in 1..n : ns[2 * i - 1] = ps[i].docid /\ ns[2 * i] = ps[i].count
  BY <1>1, <1>2 DEF Holds
<1>4. /\ n \in Nat /\ DOMAIN ps = 1..n
      /\ \A i \in 1..n : ps[i].docid \in 1..IntMax /\ ps[i].count \in Ints /\ ps[i].count > 0
  <2>1. ps \in PostingLists
    BY DEF IndexEntries
  <2> QED
    BY <1>1, <2>1, PostingType DEF Positive
<1>5. CASE \E u \in S : part = [word |-> u, numbers |-> <<>>]
  BY <1>5
<1>6. CASE \E k, t : part = [l EXCEPT !.numbers = t] /\ Prefix(t, ns, k, P)
  <2>1. PICK k, t : part = [l EXCEPT !.numbers = t] /\ Prefix(t, ns, k, P)
    BY <1>6
  <2>2. /\ t \in Seq(Int) /\ Len(t) = k /\ k \in 1..(2 * n)
        /\ \A i \in 1..(k - 1) : t[i] = ns[i]
        /\ t[k] = ns[k] \/ (t[k] # 0 /\ \E B \in P : t[k] = CutNumber(ns[k], B))
    BY <1>3, <2>1 DEF Prefix
  <2>3. part.word = e.word /\ part.numbers = t
    BY <1>2, <2>1
  <2>4. PICK m : m = k \div 2
    OBVIOUS
  <2>5. m \in Nat /\ m <= n /\ 2 * m <= k /\ k <= 2 * m + 1
    BY <1>4, <2>2, <2>4
  <2>6. ASSUME NEW i \in 1..m
        PROVE  /\ t[2 * i - 1] = ps[i].docid /\ t[2 * i] \in Ints
               /\ 0 < t[2 * i] /\ t[2 * i] <= ps[i].count
               /\ i # m => t[2 * i] = ps[i].count
    <3>1. PICK a, b, c : a = 2 * i - 1 /\ b = 2 * i /\ c = ps[i].count
      OBVIOUS
    <3>2. a \in 1..(k - 1) /\ b \in 1..k /\ (b # k => b \in 1..(k - 1)) /\ (i # m => b # k) /\ i \in 1..n
      <4>1. k \in Nat /\ m \in Nat /\ n \in Nat /\ i \in Nat /\ 1 <= i /\ i <= m
        BY <1>4, <2>2, <2>5
      <4>2. 1 <= a /\ a <= k - 1 /\ 1 <= b /\ b <= k /\ (b # k => b <= k - 1) /\ a \in Int /\ b \in Int
        BY <2>5, <3>1, <4>1
      <4>3. i # m => b # k
        BY <2>5, <3>1, <4>1
      <4>4. i <= n
        BY <2>5, <4>1
      <4> QED
        BY <4>1, <4>2, <4>3, <4>4
    <3>3. ns[a] = ps[i].docid /\ ns[b] = c
      BY <1>3, <3>1, <3>2
    <3>4. c \in Ints /\ c > 0 /\ c \in Nat
      <4>1. c \in Ints /\ c > 0
        BY <1>4, <3>1, <3>2
      <4> QED
        BY <4>1 DEF Ints
    <3>5. t[a] = ps[i].docid
      BY <2>2, <3>2, <3>3
    <3>6. t[b] = c \/ (b = k /\ t[b] # 0 /\ \E B \in P : t[b] = CutNumber(c, B))
      BY <2>2, <3>2, <3>3
    <3>7. t[b] \in Ints /\ 0 < t[b] /\ t[b] <= c
      <4>1. CASE t[b] = c
        BY <3>4, <4>1 DEF Ints
      <4>2. CASE t[b] # 0 /\ \E B \in P : t[b] = CutNumber(c, B)
        <5>1. PICK v : v = t[b]
          OBVIOUS
        <5>2. v \in 0..c /\ v # 0
          <6>1. PICK B \in Nat \ {0, 1} : v = CutNumber(c, B)
            BY <4>2, <5>1 DEF PowerSets
          <6> QED
            BY <3>4, <4>2, <5>1, <6>1, CutIsLess
        <5>3. v \in Ints /\ 0 < v /\ v <= c
          BY <3>4, <5>2, IndexAssumption DEF Ints
        <5> QED
          BY <5>1, <5>3
      <4> QED
        BY <3>6, <4>1, <4>2
    <3>8. i # m => t[b] = c
      BY <3>2, <3>6
    <3> QED
      BY <3>1, <3>5, <3>7, <3>8
  <2>7. PICK qs : qs = [i \in 1..m |-> Posting(t[2 * i - 1], t[2 * i])]
    OBVIOUS
  <2>8. \A i \in 1..m : qs[i].docid = t[2 * i - 1] /\ qs[i].count = t[2 * i]
    BY <2>7 DEF Posting
  <2>9. qs \in PostingLists /\ Len(qs) = m /\ DOMAIN qs = 1..m
    <3>1. PICK T : T = [docid : 1..IntMax, count : Ints]
      OBVIOUS
    <3>2. \A i \in 1..m : Posting(t[2 * i - 1], t[2 * i]) \in T
      <4> SUFFICES ASSUME NEW i \in 1..m PROVE Posting(t[2 * i - 1], t[2 * i]) \in T
        OBVIOUS
      <4>1. i \in 1..n
        BY <1>4, <2>5
      <4>2. t[2 * i - 1] \in 1..IntMax /\ t[2 * i] \in Ints
        BY <1>4, <2>6, <4>1
      <4> QED
        BY <3>1, <4>2 DEF Posting
    <3>3. qs \in Seq(T) /\ Len(qs) = m /\ DOMAIN qs = 1..m
      BY <2>5, <2>7, <3>2
    <3> QED
      BY <3>1, <3>3 DEF PostingLists
  <2>10. IsCut(qs, ps, m)
    BY <1>1, <2>5, <2>6, <2>8, <2>9 DEF IsCut
  <2>11. Pairs(part) = PairsOf(qs)
    <3>1. Len(part.numbers) \div 2 = m
      BY <2>2, <2>3, <2>4
    <3>2. [i \in 1..m |-> <<t[2 * i - 1], t[2 * i]>>] = [i \in 1..m |-> <<qs[i].docid, qs[i].count>>]
      BY <2>8
    <3> QED
      BY <2>3, <2>9, <3>1, <3>2 DEF Pairs, PairsOf
  <2> QED
    BY <2>3, <2>10, <2>11
<1>7. part \in TornLines(l, S, P) /\ l.numbers = ns /\ ns \in Seq(Int)
  BY <1>1, <1>3
<1> QED
  BY <1>5, <1>6, <1>7, TornNumbers

=============================================================================
