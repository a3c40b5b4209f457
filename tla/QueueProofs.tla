----------------------------- MODULE QueueProofs -----------------------------
(***************************************************************************)
(* Proofs about the queues of module3, for any number of queues, nodes and *)
(* elements: the pointers always form lists, nothing leaks but what        *)
(* qconcat(NULL, q2) drops, and seen through the interface the lists are   *)
(* sequences.  They come first, and assume nothing about the locked queue, *)
(* whose proofs are built on them.  The list of cars, which is linked      *)
(* through what its callers own, comes last: it is a stack.                *)
(***************************************************************************)
EXTENDS LQueue, MCQueue, Lemmas

\* The types of the heap and of the queues.
HeapType ==
  /\ open \subseteq Queues
  /\ start \in [Queues -> Nodes \cup {NULL}] /\ end \in [Queues -> Nodes \cup {NULL}]
  /\ allocated \subseteq Nodes /\ orphaned \subseteq allocated
  /\ data \in [Nodes -> Elements \cup {NULL}]
  /\ next \in [Nodes -> Nodes \cup {NULL}]

\* s lists the nodes between first and last: every node once, each one pointing
\* to the one after it.
Linked(s, first, last, nx) ==
  /\ s \in Seq(Nodes)
  /\ \A i, j \in DOMAIN s : s[i] = s[j] => i = j
  /\ \A i \in DOMAIN s : i < Len(s) => nx[s[i]] = s[i + 1]
  /\ s = <<>> => first = NULL /\ last = NULL
  /\ s # <<>> => first = s[1] /\ last = s[Len(s)] /\ nx[s[Len(s)]] = NULL

\* L gives every open queue the list of its nodes.  They are allocated and hold
\* elements; no node is in two queues; every allocated node is in one or orphaned.
Listing(L) ==
  /\ \A q \in open : Linked(L[q], start[q], end[q], next)
  /\ \A q \in open : InQueue(L[q]) \subseteq allocated \ orphaned
  /\ \A q \in open : \A n \in InQueue(L[q]) : data[n] \in Elements
  /\ \A p, q \in open : p # q => InQueue(L[p]) \cap InQueue(L[q]) = {}
  /\ \A n \in allocated \ orphaned : \E q \in open : n \in InQueue(L[q])

Chains == [q \in open |-> Chain(q)]

QueueInv == HeapType /\ Listing(Chains)

-----------------------------------------------------------------------------
(***************************************************************************)
(* Walking along a list.                                                   *)
(***************************************************************************)
\* Walk starts at the first node and follows the pointers until it meets NULL.
LEMMA WalkSteps ==
  ASSUME HeapType, NEW q \in Queues
  PROVE  /\ Walk(q, 0) = start[q]
         /\ \A n \in Nat : Walk(q, n + 1) = IF Walk(q, n) = NULL THEN NULL ELSE next[Walk(q, n)]
<1> DEFINE T == Nodes \cup {NULL}
           g == [n \in T |-> IF n = NULL THEN NULL ELSE next[n]]
           IsWalk(current) == current = [i \in Nat |->
             IF i = 0 THEN start[q]
             ELSE IF current[i - 1] = NULL THEN NULL ELSE next[current[i - 1]]]
           W == CHOOSE current : IsWalk(current)
<1>1. start[q] \in T /\ g \in [T -> T]
  BY DEF HeapType
<1>2. PICK f \in [Nat -> T] : f[0] = start[q] /\ \A n \in Nat : f[n + 1] = g[f[n]]
  <2> DEFINE a == start[q]
  <2>1. a \in T /\ g \in [T -> T]
    BY <1>1
  <2> HIDE DEF g, T, a
  <2>2. \E f \in [Nat -> T] : f[0] = a /\ \A n \in Nat : f[n + 1] = g[f[n]]
    BY <2>1, Iterates
  <2> QED
    BY <2>2 DEF a
<1>3. IsWalk(f)
  <2> SUFFICES ASSUME NEW k \in Nat \ {0}
               PROVE  f[k] = IF f[k - 1] = NULL THEN NULL ELSE next[f[k - 1]]
    BY <1>2
  <2>1. k - 1 \in Nat /\ (k - 1) + 1 = k
    OBVIOUS
  <2>2. f[k] = g[f[k - 1]] /\ f[k - 1] \in T
    BY <1>2, <2>1
  <2> QED
    BY <2>2
<1>4. IsWalk(W)
  <2> HIDE DEF IsWalk
  <2> QED
    BY <1>3
<1>5. \A n : Walk(q, n) = W[n]
  BY DEF Walk
<1> HIDE DEF W
<1>6. W[0] = start[q]
  BY <1>4
<1>7. ASSUME NEW n \in Nat PROVE W[n + 1] = IF W[n] = NULL THEN NULL ELSE next[W[n]]
  <2>1. n + 1 \in Nat /\ n + 1 # 0 /\ (n + 1) - 1 = n
    OBVIOUS
  <2>2. W[n + 1] = IF W[(n + 1) - 1] = NULL THEN NULL ELSE next[W[(n + 1) - 1]]
    BY <1>4, <2>1
  <2> QED
    BY <2>1, <2>2
<1> QED
  BY <1>5, <1>6, <1>7

\* Along a list, Walk meets its nodes in order and then NULL.
LEMMA WalkOfList ==
  ASSUME HeapType, NEW q \in Queues, NEW s, NEW last, Linked(s, start[q], last, next)
  PROVE  /\ \A n \in Nat : n < Len(s) => Walk(q, n) = s[n + 1]
         /\ Walk(q, Len(s)) = NULL
<1> DEFINE K == {n \in Nat : n < Len(s) => Walk(q, n) = s[n + 1]}
<1>1. Len(s) \in Nat /\ DOMAIN s = 1..Len(s) /\ \A i \in DOMAIN s : s[i] \in Nodes /\ s[i] # NULL
  BY QueueAssumption DEF Linked
<1>2. 0 \in K
  BY <1>1, WalkSteps DEF Linked
<1>3. ASSUME NEW n \in Nat, n \in K PROVE n + 1 \in K
  <2> SUFFICES ASSUME n + 1 < Len(s) PROVE Walk(q, n + 1) = s[(n + 1) + 1]
    OBVIOUS
  <2>1. n + 1 \in DOMAIN s /\ Walk(q, n) = s[n + 1]
    BY <1>1, <1>3
  <2>2. Walk(q, n + 1) = next[s[n + 1]]
    BY <1>1, <2>1, WalkSteps, SMTT(30)
  <2> QED
    BY <2>1, <2>2 DEF Linked
<1>4. \A n \in Nat : n \in K
  <2> HIDE DEF K
  <2> QED
    BY <1>2, <1>3, SetInduction
<1>5. Walk(q, Len(s)) = NULL
  <2>1. CASE s = <<>>
    BY <2>1, WalkSteps DEF Linked
  <2>2. CASE s # <<>>
    <3>1. Len(s) - 1 \in Nat /\ (Len(s) - 1) + 1 = Len(s) /\ Len(s) \in DOMAIN s
      BY <1>1, <2>2
    <3>2. Walk(q, Len(s) - 1) = s[Len(s)]
      BY <1>4, <3>1
    <3>3. Walk(q, Len(s)) = next[s[Len(s)]]
      BY <1>1, <3>1, <3>2, WalkSteps
    <3> QED
      BY <2>2, <3>3 DEF Linked
  <2> QED
    BY <2>1, <2>2
<1> QED
  BY <1>4, <1>5

\* A list without repetition is not longer than there are nodes.
LEMMA ListLength ==
  ASSUME NEW s \in Seq(Nodes), \A i, j \in DOMAIN s : s[i] = s[j] => i = j
  PROVE  Len(s) \in 0..Cardinality(Nodes)
<1>1. s \in [1..Len(s) -> Nodes] /\ Len(s) \in Nat /\ DOMAIN s = 1..Len(s)
  OBVIOUS
<1>2. s \in Injection(1..Len(s), Nodes)
  BY <1>1 DEF Injection, IsInjective
<1>3. Cardinality(1..Len(s)) = Len(s)
  <2>1. 1 \in Int /\ Len(s) \in Int
    BY <1>1
  <2>2. Cardinality(1..Len(s)) = IF 1 > Len(s) THEN 0 ELSE Len(s) - 1 + 1
    BY <2>1, FS_Interval
  <2> QED
    BY <1>1, <2>2
<1>5. Cardinality(Nodes) \in Nat
  BY FS_CardinalityType, QueueAssumption
<1>4. Cardinality(1..Len(s)) <= Cardinality(Nodes)
  BY <1>2, FS_Injection, QueueAssumption
<1> QED
  BY <1>1, <1>3, <1>4, <1>5

\* Length, Chain and Contents compute what the list of a queue is, and do not look
\* at its end pointer.
LEMMA ChainOfList ==
  ASSUME HeapType, NEW q \in Queues, NEW s, NEW last, Linked(s, start[q], last, next)
  PROVE  /\ Length(q) = Len(s) /\ Chain(q) = s
         /\ Contents(q) = [i \in 1..Len(s) |-> data[s[i]]]
         /\ Len(s) \in 0..Cardinality(Nodes)
<1>1. Len(s) \in Nat /\ DOMAIN s = 1..Len(s) /\ s = [i \in 1..Len(s) |-> s[i]]
      /\ \A i \in DOMAIN s : s[i] \in Nodes /\ s[i] # NULL
  BY QueueAssumption DEF Linked
<1>2. Len(s) \in 0..Cardinality(Nodes) /\ Cardinality(Nodes) \in Nat
  BY ListLength, FS_CardinalityType, QueueAssumption DEF Linked
<1>3. Walk(q, Len(s)) = NULL /\ \A j \in 0..(Len(s) - 1) : Walk(q, j) # NULL
  <2> SUFFICES ASSUME NEW j \in 0..(Len(s) - 1) PROVE Walk(q, j) # NULL
    BY WalkOfList
  <2>1. j \in Nat /\ j < Len(s) /\ j + 1 \in DOMAIN s
    BY <1>1
  <2> QED
    BY <1>1, <2>1, WalkOfList
<1>4. Length(q) = Len(s)
  <2>1. \A k \in 0..Cardinality(Nodes) :
          Walk(q, k) = NULL /\ (\A j \in 0..(k - 1) : Walk(q, j) # NULL) => k = Len(s)
    BY <1>1, <1>2, <1>3
  <2> QED
    BY <1>2, <1>3, <2>1 DEF Length
<1>5. Chain(q) = s
  <2>1. ASSUME NEW i \in 1..Len(s) PROVE Walk(q, i - 1) = s[i]
    <3>1. i - 1 \in Nat /\ i - 1 < Len(s) /\ (i - 1) + 1 = i
      BY <1>1
    <3>2. Walk(q, i - 1) = s[(i - 1) + 1]
      BY <3>1, WalkOfList
    <3> QED
      BY <3>1, <3>2
  <2> QED
    BY <1>1, <1>4, <2>1 DEF Chain
<1> QED
  BY <1>2, <1>4, <1>5 DEF Contents

-----------------------------------------------------------------------------
(***************************************************************************)
(* What the operations do to a list.                                       *)
(***************************************************************************)
\* A list stays one as long as the pointers of its nodes stay.
LEMMA LinkedFrame ==
  ASSUME NEW s, NEW first, NEW last, NEW nx, NEW mx, Linked(s, first, last, nx),
         \A n \in InQueue(s) : mx[n] = nx[n]
  PROVE  Linked(s, first, last, mx)
<1>1. Len(s) \in Nat /\ DOMAIN s = 1..Len(s) /\ \A i \in DOMAIN s : mx[s[i]] = nx[s[i]]
  BY DEF Linked, InQueue
<1>2. s # <<>> => Len(s) \in DOMAIN s
  BY <1>1 DEF Linked
<1> QED
  BY <1>1, <1>2 DEF Linked

\* The pointers to the two ends of a list.
LEMMA LinkedEnds ==
  ASSUME NEW s, NEW first, NEW last, NEW nx, Linked(s, first, last, nx)
  PROVE  /\ first = NULL <=> s = <<>>
         /\ s # <<>> => /\ first \in InQueue(s) /\ last \in InQueue(s)
                        /\ first = last <=> Len(s) = 1
         /\ InQueue(s) \subseteq Nodes
<1>1. Len(s) \in Nat /\ DOMAIN s = 1..Len(s) /\ \A i \in DOMAIN s : s[i] \in Nodes /\ s[i] # NULL
  BY QueueAssumption DEF Linked
<1>2. s # <<>> => 1 \in DOMAIN s /\ Len(s) \in DOMAIN s
  BY <1>1 DEF Linked
<1> QED
  BY <1>1, <1>2 DEF Linked, InQueue

\* qput links a node behind the last one.
LEMMA LinkedPut ==
  ASSUME NEW s, NEW first, NEW last, NEW nx \in [Nodes -> Nodes \cup {NULL}],
         Linked(s, first, last, nx), NEW n \in Nodes, n \notin InQueue(s), NEW mx,
         s = <<>> => mx = [nx EXCEPT ![n] = NULL],
         s # <<>> => mx = [[nx EXCEPT ![n] = NULL] EXCEPT ![last] = n]
  PROVE  /\ Linked(Append(s, n), IF s = <<>> THEN n ELSE first, n, mx)
         /\ InQueue(Append(s, n)) = InQueue(s) \cup {n}
<1> DEFINE t == Append(s, n)
<1>1. /\ s \in Seq(Nodes) /\ t \in Seq(Nodes) /\ Len(s) \in Nat /\ Len(t) = Len(s) + 1
      /\ DOMAIN s = 1..Len(s) /\ DOMAIN t = 1..(Len(s) + 1)
      /\ \A i \in DOMAIN s : t[i] = s[i] /\ s[i] # n /\ s[i] \in Nodes
      /\ t[Len(s) + 1] = n
  BY DEF Linked, InQueue
<1>2. \A i, j \in DOMAIN t : t[i] = t[j] => i = j
  BY <1>1 DEF Linked
<1>3. s # <<>> => Len(s) \in DOMAIN s /\ last = s[Len(s)] /\ first = s[1] /\ 1 \in DOMAIN s
  BY <1>1 DEF Linked
<1>4. mx[n] = NULL
  BY <1>1, <1>3
<1>5. ASSUME NEW i \in DOMAIN t, i < Len(t) PROVE mx[t[i]] = t[i + 1]
  <2>1. i \in DOMAIN s /\ s # <<>> /\ t[i] = s[i]
    BY <1>1, <1>5
  <2>2. CASE i = Len(s)
    BY <1>1, <1>3, <2>1, <2>2
  <2>3. CASE i < Len(s)
    <3>1. s[i] # last /\ s[i] # n /\ t[i + 1] = s[i + 1]
      BY <1>1, <1>3, <2>1, <2>3 DEF Linked
    <3>2. mx[s[i]] = nx[s[i]] /\ nx[s[i]] = s[i + 1]
      BY <1>1, <2>1, <2>3, <3>1 DEF Linked
    <3> QED
      BY <2>1, <3>1, <3>2
  <2> QED
    BY <1>1, <2>1, <2>2, <2>3
<1>6. t # <<>> /\ t[Len(t)] = n /\ t[1] = IF s = <<>> THEN n ELSE first
  <2>1. t # <<>> /\ (s = <<>> <=> Len(s) = 0)
    BY <1>1, EmptyQueue
  <2> HIDE DEF t
  <2> QED
    BY <1>1, <1>3, <2>1
<1> HIDE DEF t
<1>7. Linked(t, IF s = <<>> THEN n ELSE first, n, mx)
  BY <1>1, <1>2, <1>4, <1>5, <1>6 DEF Linked
<1> QED
  BY <1>1, <1>7, QueuePages DEF t

\* qget takes the first node off.
LEMMA LinkedGet ==
  ASSUME NEW s, NEW first, NEW last, NEW nx, Linked(s, first, last, nx), s # <<>>
  PROVE  /\ Linked(Tail(s), IF Len(s) = 1 THEN NULL ELSE nx[first],
                            IF Len(s) = 1 THEN NULL ELSE last, nx)
         /\ first = Head(s) /\ InQueue(Tail(s)) = InQueue(s) \ {first}
<1> DEFINE t == Tail(s)
<1>1. /\ s \in Seq(Nodes) /\ t \in Seq(Nodes) /\ Len(s) \in Nat \ {0} /\ Len(t) = Len(s) - 1
      /\ DOMAIN s = 1..Len(s) /\ DOMAIN t = 1..(Len(s) - 1)
      /\ \A i \in DOMAIN t : t[i] = s[i + 1]
      /\ Head(s) = s[1] /\ first = s[1]
  BY DEF Linked
<1>2. Len(s) = 1 <=> t = <<>>
  <2>1. t = <<>> <=> Len(t) = 0
    <3> HIDE DEF t
    <3> QED
      BY <1>1, EmptyQueue
  <2> HIDE DEF t
  <2> QED
    BY <1>1, <2>1
<1>3. \A i, j \in DOMAIN t : t[i] = t[j] => i = j
  BY <1>1 DEF Linked
<1>4. ASSUME NEW i \in DOMAIN t, i < Len(t) PROVE nx[t[i]] = t[i + 1]
  <2>1. t[i] = s[i + 1] /\ t[i + 1] = s[(i + 1) + 1] /\ i + 1 \in DOMAIN s /\ i + 1 < Len(s)
    BY <1>1, <1>4
  <2> QED
    BY <2>1 DEF Linked
<1>5. t # <<>> => nx[first] = t[1] /\ last = t[Len(t)] /\ nx[t[Len(t)]] = NULL
  BY <1>1, <1>2 DEF Linked
<1>6. Head(s) \notin InQueue(t)
  BY <1>1 DEF Linked, InQueue
<1>7. InQueue(s) = InQueue(t) \cup {Head(s)}
  BY <1>1, QueuePages
<1> HIDE DEF t
<1>8. Linked(t, IF Len(s) = 1 THEN NULL ELSE nx[first], IF Len(s) = 1 THEN NULL ELSE last, nx)
  BY <1>1, <1>2, <1>3, <1>4, <1>5 DEF Linked
<1> QED
  BY <1>1, <1>6, <1>7, <1>8 DEF t

\* qremove takes the i-th node out.
LEMMA LinkedRemove ==
  ASSUME NEW s, NEW first, NEW last, NEW nx \in [Nodes -> Nodes \cup {NULL}],
         Linked(s, first, last, nx), NEW i \in DOMAIN s,
         NEW first2, NEW last2, NEW mx,
         i = 1 => /\ first2 = nx[s[i]] /\ mx = nx
                  /\ last2 = IF nx[s[i]] = NULL THEN NULL ELSE last,
         i > 1 => /\ first2 = first /\ mx = [nx EXCEPT ![s[i - 1]] = nx[s[i]]]
                  /\ last2 = IF s[i] = last THEN s[i - 1] ELSE last
  PROVE  /\ Linked(Without(s, i), first2, last2, mx)
         /\ InQueue(Without(s, i)) = InQueue(s) \ {s[i]}
<1> DEFINE t == Without(s, i)
<1>1. /\ s \in Seq(Nodes) /\ t \in Seq(Nodes) /\ Len(t) = Len(s) - 1
      /\ DOMAIN t = 1..(Len(s) - 1) /\ Len(s) \in Nat \ {0} /\ i \in 1..Len(s)
      /\ DOMAIN s = 1..Len(s)
      /\ \A k \in DOMAIN t : k \in DOMAIN s /\ k + 1 \in DOMAIN s
      /\ \A k \in DOMAIN t : k < i => t[k] = s[k]
      /\ \A k \in DOMAIN t : ~(k < i) => t[k] = s[k + 1]
      /\ t = <<>> <=> Len(s) = 1
  BY WithoutType DEF Linked
<1> HIDE DEF t
<1>2. /\ \A j, k \in DOMAIN s : s[j] = s[k] => j = k
      /\ \A k \in DOMAIN s : s[k] \in Nodes /\ s[k] # NULL
      /\ \A k \in DOMAIN s : k < Len(s) => nx[s[k]] = s[k + 1]
      /\ first = s[1] /\ last = s[Len(s)] /\ nx[s[Len(s)]] = NULL
  <2>1. s # <<>>
    BY <1>1, EmptyQueue
  <2> QED
    BY <1>1, <2>1, QueueAssumption DEF Linked
<1>3. \A j, k \in DOMAIN t : t[j] = t[k] => j = k
  BY <1>1, <1>2
<1>4. ASSUME NEW k \in DOMAIN s, k # i
      PROVE  mx[s[k]] = IF k = i - 1 THEN nx[s[i]] ELSE nx[s[k]]
  <2>1. CASE i = 1
    BY <1>1, <2>1
  <2>2. CASE i > 1
    <3>1. i - 1 \in DOMAIN s
      BY <1>1, <2>2
    <3> QED
      BY <1>1, <1>2, <2>2, <3>1
  <2> QED
    BY <1>1, <2>1, <2>2
<1>5. nx[s[i]] = IF i = Len(s) THEN NULL ELSE s[i + 1]
  BY <1>1, <1>2
<1>6. ASSUME NEW k \in DOMAIN t, k < Len(t) PROVE mx[t[k]] = t[k + 1]
  <2>1. k + 1 \in DOMAIN t /\ k \in DOMAIN s /\ k + 1 \in DOMAIN s
    BY <1>1, <1>6
  <2>2. CASE k < i - 1
    <3>1. t[k] = s[k] /\ t[k + 1] = s[k + 1] /\ k < Len(s) /\ k # i
      BY <1>1, <2>1, <2>2
    <3> QED
      BY <1>1, <1>2, <1>4, <2>1, <2>2, <3>1
  <2>3. CASE k = i - 1
    <3>1. t[k] = s[k] /\ t[k + 1] = s[(k + 1) + 1] /\ k # i /\ i # Len(s)
      BY <1>1, <1>6, <2>1, <2>3
    <3>2. (k + 1) + 1 = i + 1
      BY <1>1, <2>3
    <3> QED
      BY <1>4, <1>5, <2>1, <2>3, <3>1, <3>2
  <2>4. CASE k > i - 1
    <3>1. t[k] = s[k + 1] /\ t[k + 1] = s[(k + 1) + 1] /\ k + 1 # i /\ k + 1 # i - 1 /\ k + 1 < Len(s)
      BY <1>1, <1>6, <2>1, <2>4
    <3> QED
      BY <1>2, <1>4, <2>1, <3>1
  <2> QED
    BY <1>1, <2>2, <2>3, <2>4
<1>7. CASE t = <<>>
  <2>1. Len(s) = 1 /\ i = 1
    BY <1>1, <1>7
  <2>2. first2 = NULL /\ last2 = NULL
    BY <1>2, <1>5, <2>1
  <2>3. Linked(t, first2, last2, mx)
    BY <1>1, <1>3, <1>6, <1>7, <2>2 DEF Linked
  <2>4. InQueue(t) = {} /\ InQueue(s) = {s[i]}
    BY <1>1, <2>1 DEF InQueue
  <2> QED
    BY <2>3, <2>4 DEF t
<1>8. CASE t # <<>>
  <2>1. Len(s) > 1 /\ Len(t) \in DOMAIN t /\ 1 \in DOMAIN t
    BY <1>1, <1>8
  <2>2. first2 = t[1]
    BY <1>1, <1>2, <1>5, <2>1
  <2>3. last2 = t[Len(t)] /\ mx[t[Len(t)]] = NULL
    <3>1. CASE i = Len(s)
      <4>1. i > 1 /\ Len(t) = i - 1 /\ t[Len(t)] = s[i - 1] /\ i - 1 \in DOMAIN s /\ i - 1 # i
        BY <1>1, <2>1, <3>1
      <4>2. last2 = s[i - 1]
        BY <1>2, <3>1, <4>1
      <4>3. mx[s[i - 1]] = nx[s[i]]
        BY <1>4, <4>1
      <4> QED
        BY <1>5, <3>1, <4>1, <4>2, <4>3
    <3>2. CASE i < Len(s)
      <4>1. t[Len(t)] = s[Len(s)] /\ Len(s) \in DOMAIN s /\ Len(s) # i /\ Len(s) # i - 1
        BY <1>1, <2>1, <3>2
      <4>2. mx[s[Len(s)]] = NULL
        BY <1>2, <1>4, <4>1
      <4>3. s[i] # last /\ nx[s[i]] # NULL
        BY <1>1, <1>2, <1>5, <4>1
      <4>4. last2 = last
        BY <1>1, <4>3
      <4> QED
        BY <1>2, <4>1, <4>2, <4>4
    <3> QED
      BY <1>1, <3>1, <3>2
  <2>4. Linked(t, first2, last2, mx)
    BY <1>1, <1>3, <1>6, <1>8, <2>2, <2>3 DEF Linked
  <2>5. InQueue(t) \subseteq InQueue(s) \ {s[i]}
    <3> SUFFICES ASSUME NEW k \in DOMAIN t PROVE t[k] \in InQueue(s) \ {s[i]}
      BY DEF InQueue
    <3> QED
      BY <1>1, <1>2 DEF InQueue
  <2>6. InQueue(s) \ {s[i]} \subseteq InQueue(t)
    <3> SUFFICES ASSUME NEW k \in DOMAIN s, k # i PROVE s[k] \in InQueue(t)
      BY DEF InQueue
    <3>1. CASE k < i
      <4>1. k \in DOMAIN t /\ t[k] = s[k]
        BY <1>1, <3>1
      <4> QED
        BY <4>1 DEF InQueue
    <3>2. CASE k > i
      <4>1. k - 1 \in DOMAIN t /\ t[k - 1] = s[k]
        BY <1>1, <3>2
      <4> QED
        BY <4>1 DEF InQueue
    <3> QED
      BY <1>1, <3>1, <3>2
  <2> QED
    BY <2>4, <2>5, <2>6 DEF t
<1> QED
  BY <1>7, <1>8

\* qconcat links the first node of one list behind the last one of another.
LEMMA LinkedConcat ==
  ASSUME NEW nx \in [Nodes -> Nodes \cup {NULL}],
         NEW s, NEW first, NEW last, Linked(s, first, last, nx),
         NEW t, NEW first2, NEW last2, Linked(t, first2, last2, nx), t # <<>>,
         InQueue(s) \cap InQueue(t) = {}, NEW mx,
         s = <<>> => mx = nx, s # <<>> => mx = [nx EXCEPT ![last] = first2]
  PROVE  /\ Linked(s \o t, IF s = <<>> THEN first2 ELSE first, last2, mx)
         /\ InQueue(s \o t) = InQueue(s) \cup InQueue(t)
<1> DEFINE u == s \o t
<1>1. /\ s \in Seq(Nodes) /\ t \in Seq(Nodes) /\ u \in Seq(Nodes)
      /\ Len(s) \in Nat /\ Len(t) \in Nat \ {0} /\ Len(u) = Len(s) + Len(t)
      /\ DOMAIN s = 1..Len(s) /\ DOMAIN t = 1..Len(t) /\ DOMAIN u = 1..(Len(s) + Len(t))
      /\ \A i \in DOMAIN s : u[i] = s[i]
      /\ \A i \in DOMAIN u \ DOMAIN s : u[i] = t[i - Len(s)] /\ i - Len(s) \in DOMAIN t
      /\ s = <<>> <=> Len(s) = 0
  <2>1. s \in Seq(Nodes) /\ t \in Seq(Nodes)
    BY DEF Linked
  <2> QED
    BY <2>1
<1> HIDE DEF u
<1>2. /\ \A i, j \in DOMAIN s : s[i] = s[j] => i = j
      /\ \A i, j \in DOMAIN t : t[i] = t[j] => i = j
      /\ \A i \in DOMAIN s, j \in DOMAIN t : s[i] # t[j]
      /\ \A i \in DOMAIN s : s[i] \in Nodes
      /\ \A j \in DOMAIN t : t[j] \in Nodes
  <2>1. \A i \in DOMAIN s, j \in DOMAIN t : s[i] # t[j]
    BY DEF InQueue
  <2>2. /\ \A i, j \in DOMAIN s : s[i] = s[j] => i = j
        /\ \A i, j \in DOMAIN t : t[i] = t[j] => i = j
    BY DEF Linked
  <2> QED
    BY <1>1, <2>1, <2>2
<1>3. \A i, j \in DOMAIN u : u[i] = u[j] => i = j
  BY <1>1, <1>2
<1>4. \A n \in Nodes : mx[n] = IF s # <<>> /\ n = last THEN first2 ELSE nx[n]
  <2>1. s # <<>> => last \in Nodes
    BY LinkedEnds
  <2> QED
    BY <2>1
<1>5. s # <<>> => last = s[Len(s)] /\ first = s[1] /\ Len(s) \in DOMAIN s /\ 1 \in DOMAIN s
  BY <1>1 DEF Linked
<1>6. last2 = t[Len(t)] /\ first2 = t[1] /\ nx[t[Len(t)]] = NULL /\ 1 \in DOMAIN t /\ Len(t) \in DOMAIN t
  BY <1>1 DEF Linked
<1>7. ASSUME NEW i \in DOMAIN u, i < Len(u) PROVE mx[u[i]] = u[i + 1]
  <2>1. CASE i < Len(s)
    <3>1. i \in DOMAIN s /\ i + 1 \in DOMAIN s /\ s # <<>> /\ i # Len(s)
      BY <1>1, <2>1
    <3>2. u[i] = s[i] /\ u[i + 1] = s[i + 1] /\ s[i] # last /\ s[i] \in Nodes
      BY <1>1, <1>2, <1>5, <3>1
    <3>3. nx[s[i]] = s[i + 1]
      BY <2>1, <3>1 DEF Linked
    <3> QED
      BY <1>4, <3>2, <3>3
  <2>2. CASE i = Len(s)
    <3>1. i \in DOMAIN s /\ s # <<>> /\ i + 1 \in DOMAIN u \ DOMAIN s /\ (i + 1) - Len(s) = 1
      BY <1>1, <1>7, <2>2
    <3>2. u[i] = last /\ last \in Nodes
      BY <1>1, <1>2, <1>5, <2>2, <3>1
    <3>3. u[i + 1] = t[1]
      BY <1>1, <3>1
    <3> QED
      BY <1>4, <1>6, <3>1, <3>2, <3>3
  <2>3. CASE i > Len(s)
    <3> DEFINE j == i - Len(s)
    <3>1. /\ i \in DOMAIN u \ DOMAIN s /\ i + 1 \in DOMAIN u \ DOMAIN s /\ (i + 1) - Len(s) = j + 1
          /\ j \in DOMAIN t /\ j < Len(t)
      BY <1>1, <1>7, <2>3
    <3>2. u[i] = t[j] /\ u[i + 1] = t[j + 1]
      BY <1>1, <3>1
    <3> HIDE DEF j
    <3>3. nx[t[j]] = t[j + 1]
      BY <3>1 DEF Linked
    <3>4. t[j] \in Nodes /\ (s # <<>> => t[j] # last)
      BY <1>2, <1>5, <3>1
    <3> QED
      BY <1>4, <3>2, <3>3, <3>4
  <2> QED
    BY <1>1, <2>1, <2>2, <2>3
<1>8. u # <<>> /\ u[1] = (IF s = <<>> THEN first2 ELSE first) /\ u[Len(u)] = last2
  <2>1. u # <<>>
    BY <1>1, EmptyQueue
  <2>2. Len(u) \in DOMAIN u \ DOMAIN s /\ Len(u) - Len(s) = Len(t)
    BY <1>1
  <2>3. s = <<>> => 1 \in DOMAIN u \ DOMAIN s /\ 1 - Len(s) = 1
    BY <1>1
  <2> QED
    BY <1>1, <1>5, <1>6, <2>1, <2>2, <2>3
<1>9. mx[u[Len(u)]] = NULL
  <2>1. last2 \in Nodes /\ (s # <<>> => last2 # last) /\ nx[last2] = NULL
    BY <1>2, <1>5, <1>6
  <2> QED
    BY <1>4, <1>8, <2>1
<1>10. Linked(u, IF s = <<>> THEN first2 ELSE first, last2, mx)
  BY <1>1, <1>3, <1>7, <1>8, <1>9 DEF Linked
<1>11. InQueue(u) = InQueue(s) \cup InQueue(t)
  <2>1. InQueue(u) \subseteq InQueue(s) \cup InQueue(t)
    BY <1>1 DEF InQueue
  <2>2. \A i \in DOMAIN s : i \in DOMAIN u /\ u[i] = s[i]
    BY <1>1
  <2>3. ASSUME NEW j \in DOMAIN t PROVE j + Len(s) \in DOMAIN u /\ u[j + Len(s)] = t[j]
    <3>1. j + Len(s) \in DOMAIN u \ DOMAIN s /\ (j + Len(s)) - Len(s) = j
      BY <1>1
    <3> QED
      BY <1>1, <3>1
  <2> QED
    BY <2>1, <2>2, <2>3 DEF InQueue
<1> QED
  BY <1>10, <1>11 DEF u

-----------------------------------------------------------------------------
(***************************************************************************)
(* The invariant.                                                          *)
(***************************************************************************)
\* A listing is what Chain, Length and Contents compute.
ChainFact ==
  HeapType => \A L : Listing(L) =>
    /\ Listing(Chains)
    /\ \A q \in open : /\ Chain(q) = L[q] /\ Length(q) = Len(L[q])
                       /\ Contents(q) = [i \in 1..Len(L[q]) |-> data[L[q][i]]]

\* If there are lists at all, they are the ones that Walk follows.
LEMMA ListingChains == ChainFact
<1> SUFFICES ASSUME HeapType, NEW L, Listing(L)
             PROVE  /\ Listing(Chains)
                    /\ \A q \in open : /\ Chain(q) = L[q] /\ Length(q) = Len(L[q])
                                       /\ Contents(q) = [i \in 1..Len(L[q]) |-> data[L[q][i]]]
  BY DEF ChainFact
<1>1. \A q \in open : /\ Chain(q) = L[q] /\ Length(q) = Len(L[q])
                      /\ Contents(q) = [i \in 1..Len(L[q]) |-> data[L[q][i]]]
  BY ChainOfList DEF HeapType, Listing
<1>2. \A q \in open : Chains[q] = L[q]
  BY <1>1 DEF Chains
<1>3. Listing(Chains)
  BY <1>2 DEF Listing
<1> QED
  BY <1>1, <1>3

\* The same after a step: who finds a listing knows the chains.
LEMMA ListingAfter ==
  ASSUME HeapType', NEW M, Listing(M)'
  PROVE  /\ QueueInv'
         /\ \A q \in open' : /\ Chain(q)' = M[q]
                            /\ Contents(q)' = [i \in 1..Len(M[q]) |-> data'[M[q][i]]]
<1>1. ChainFact'
  BY ListingChains, PTL
<1> QED
  BY <1>1 DEF ChainFact, QueueInv

\* What the invariant says of one queue.
LEMMA ListOf ==
  ASSUME QueueInv, NEW q \in open
  PROVE  /\ q \in Queues /\ Linked(Chain(q), start[q], end[q], next)
         /\ Chain(q) \in Seq(Nodes) /\ DOMAIN Chain(q) = 1..Len(Chain(q))
         /\ InQueue(Chain(q)) \subseteq allocated \ orphaned
         /\ \A n \in InQueue(Chain(q)) : data[n] \in Elements
         /\ \A p \in open : p # q => InQueue(Chain(p)) \cap InQueue(Chain(q)) = {}
         /\ Length(q) = Len(Chain(q)) /\ {Chain(q)[i] : i \in 1..Length(q)} = InQueue(Chain(q))
         /\ Contents(q) = [i \in 1..Len(Chain(q)) |-> data[Chain(q)[i]]]
         /\ start[q] = NULL <=> Chain(q) = <<>>
<1>1. \A p \in open : Chains[p] = Chain(p)
  BY DEF Chains
<1>2. /\ q \in Queues /\ Linked(Chain(q), start[q], end[q], next)
      /\ InQueue(Chain(q)) \subseteq allocated \ orphaned
      /\ \A n \in InQueue(Chain(q)) : data[n] \in Elements
      /\ \A p \in open : p # q => InQueue(Chain(p)) \cap InQueue(Chain(q)) = {}
  BY <1>1 DEF QueueInv, Listing, HeapType
<1>3. Chain(q) \in Seq(Nodes) /\ DOMAIN Chain(q) = 1..Len(Chain(q))
  BY <1>2 DEF Linked
<1>4. /\ Length(q) = Len(Chain(q))
      /\ Contents(q) = [i \in 1..Len(Chain(q)) |-> data[Chain(q)[i]]]
  BY <1>1, ListingChains DEF ChainFact, QueueInv
<1>5. start[q] = NULL <=> Chain(q) = <<>>
  BY <1>2, LinkedEnds
<1> QED
  BY <1>2, <1>3, <1>4, <1>5 DEF InQueue

\* Every allocated node that is not orphaned is in a queue.
LEMMA NodeInQueue ==
  ASSUME QueueInv, NEW n \in allocated \ orphaned
  PROVE  \E q \in open : n \in InQueue(Chain(q))
BY DEF QueueInv, Listing, Chains

\* The chains of the queues a step leaves alone.
LEMMA ChainStays ==
  ASSUME QueueInv, NEW p \in open, start'[p] = start[p], end'[p] = end[p],
         \A n \in InQueue(Chain(p)) : next'[n] = next[n]
  PROVE  Linked(Chain(p), start'[p], end'[p], next')
BY ListOf, LinkedFrame

\* qopen adds an empty queue.
LEMMA OpenLists ==
  ASSUME QueueInv, NEW q \in Queues, QOpen(q)
  PROVE  /\ HeapType'
         /\ \E M : /\ M = [p \in open \cup {q} |-> IF p = q THEN <<>> ELSE Chain(p)]
                  /\ Listing(M)'
<1>1. HeapType'
  BY DEF QueueInv, HeapType, QOpen, heap
<1>2. PICK M : M = [p \in open \cup {q} |-> IF p = q THEN <<>> ELSE Chain(p)]
  OBVIOUS
<1>3. /\ open' = open \cup {q} /\ q \notin open
      /\ \A p \in open : start'[p] = start[p] /\ end'[p] = end[p] /\ M[p] = Chain(p)
      /\ M[q] = <<>> /\ InQueue(M[q]) = {} /\ start'[q] = NULL /\ end'[q] = NULL
      /\ next' = next /\ data' = data /\ allocated' = allocated /\ orphaned' = orphaned
  BY <1>2 DEF QueueInv, HeapType, QOpen, heap, InQueue
<1>4. \A p \in open' : Linked(M[p], start'[p], end'[p], next')
  <2>1. Linked(M[q], start'[q], end'[q], next')
    BY <1>3 DEF Linked
  <2> QED
    BY <1>3, <2>1, ChainStays
<1>5. /\ \A p \in open' : InQueue(M[p]) \subseteq allocated' \ orphaned'
      /\ \A p \in open' : \A n \in InQueue(M[p]) : data'[n] \in Elements
      /\ \A p, r \in open' : p # r => InQueue(M[p]) \cap InQueue(M[r]) = {}
  BY <1>3, ListOf
<1>6. \A n \in allocated' \ orphaned' : \E p \in open' : n \in InQueue(M[p])
  BY <1>3, NodeInQueue
<1>7. Listing(M)'
  BY <1>4, <1>5, <1>6 DEF Listing
<1> QED
  BY <1>1, <1>2, <1>7

\* qclose frees the nodes of a queue, or drops them with qconcat(NULL, q).
LEMMA CloseLists ==
  ASSUME QueueInv, NEW q \in open, QClose(q) \/ QConcatNull(q)
  PROVE  /\ HeapType'
         /\ \E M : M = [p \in open \ {q} |-> Chain(p)] /\ Listing(M)'
<1> DEFINE N == InQueue(Chain(q))
<1>1. N \subseteq allocated \ orphaned /\ N = {Chain(q)[i] : i \in 1..Length(q)}
  BY ListOf
<1>2. /\ open' = open \ {q} /\ start' = start /\ end' = end /\ next' = next /\ data' = data
      /\ allocated' \ orphaned' = (allocated \ orphaned) \ N
      /\ allocated' \subseteq Nodes /\ orphaned' \subseteq allocated'
  BY <1>1 DEF QueueInv, HeapType, QClose, QConcatNull, heap
<1>3. HeapType'
  BY <1>2 DEF QueueInv, HeapType
<1>4. PICK M : M = [p \in open \ {q} |-> Chain(p)]
  OBVIOUS
<1>5. \A p \in open' : p \in open /\ p # q /\ M[p] = Chain(p)
  BY <1>2, <1>4
<1>6. \A p \in open' : Linked(M[p], start'[p], end'[p], next')
  BY <1>2, <1>5, ListOf
<1>7. /\ \A p \in open' : InQueue(M[p]) \subseteq allocated' \ orphaned'
      /\ \A p \in open' : \A n \in InQueue(M[p]) : data'[n] \in Elements
      /\ \A p, r \in open' : p # r => InQueue(M[p]) \cap InQueue(M[r]) = {}
  BY <1>2, <1>5, ListOf
<1>8. \A n \in allocated' \ orphaned' : \E p \in open' : n \in InQueue(M[p])
  <2> SUFFICES ASSUME NEW n \in allocated \ orphaned, n \notin N
               PROVE  \E p \in open' : n \in InQueue(M[p])
    BY <1>2
  <2>1. PICK p \in open : n \in InQueue(Chain(p))
    BY NodeInQueue
  <2>2. p \in open' /\ M[p] = Chain(p)
    BY <1>2, <1>4, <2>1
  <2> QED
    BY <2>1, <2>2
<1>9. Listing(M)'
  BY <1>6, <1>7, <1>8 DEF Listing
<1> QED
  BY <1>3, <1>4, <1>9

\* A step that gives the list t to the queue q and drops the queues of D, seen from
\* the fields and the heap.
Updated(q, t, D) ==
  /\ q \notin D /\ open' = open \ D
  /\ Linked(t, start'[q], end'[q], next')
  /\ InQueue(t) \subseteq allocated' \ orphaned'
  /\ \A n \in InQueue(t) : data'[n] \in Elements
  /\ \A p \in open' \ {q} : start'[p] = start[p] /\ end'[p] = end[p]
  /\ \A p \in open' \ {q} : \A n \in InQueue(Chain(p)) :
       /\ next'[n] = next[n] /\ data'[n] = data[n]
       /\ n \in allocated' \ orphaned' /\ n \notin InQueue(t)
  /\ \A n \in allocated' \ orphaned' :
       n \in InQueue(t) \/ \E p \in open' \ {q} : n \in InQueue(Chain(p))

\* Such a step leaves a listing.
LEMMA OneChanges ==
  ASSUME QueueInv, HeapType', NEW q \in open, NEW t, NEW D, Updated(q, t, D)
  PROVE  \E M : M = [p \in open \ D |-> IF p = q THEN t ELSE Chain(p)] /\ Listing(M)'
<1> USE DEF Updated
<1>1. PICK M : M = [p \in open \ D |-> IF p = q THEN t ELSE Chain(p)]
  OBVIOUS
<1>2. M[q] = t /\ \A p \in open' \ {q} : p \in open /\ M[p] = Chain(p)
  BY <1>1
<1>3. \A p \in open' : Linked(M[p], start'[p], end'[p], next')
  BY <1>2, ChainStays
<1>4. \A p \in open' : InQueue(M[p]) \subseteq allocated' \ orphaned'
  BY <1>2
<1>5. \A p \in open' : \A n \in InQueue(M[p]) : data'[n] \in Elements
  BY <1>2, ListOf
<1>6. ASSUME NEW p \in open', NEW r \in open', p # r
      PROVE  InQueue(M[p]) \cap InQueue(M[r]) = {}
  <2>1. CASE p # q /\ r # q
    BY <1>2, <1>6, <2>1, ListOf
  <2>2. CASE p = q \/ r = q
    BY <1>2, <1>6, <2>2
  <2> QED
    BY <2>1, <2>2
<1>7. \A n \in allocated' \ orphaned' : \E p \in open' : n \in InQueue(M[p])
  BY <1>2
<1>8. Listing(M)'
  BY <1>3, <1>4, <1>5, <1>6, <1>7 DEF Listing
<1> QED
  BY <1>1, <1>8

\* qput adds a node at the end.
LEMMA PutLists ==
  ASSUME QueueInv, NEW q \in open, NEW e \in Elements, QPut(q, e)
  PROVE  /\ HeapType'
         /\ \E n \in Nodes \ allocated : \E M :
              /\ M = [p \in open \ {} |-> IF p = q THEN Append(Chain(q), n) ELSE Chain(p)]
              /\ Listing(M)' /\ data' = [data EXCEPT ![n] = e]
<1> DEFINE s == Chain(q)
<1>1. PICK n \in Nodes \ allocated :
        /\ allocated' = allocated \cup {n} /\ data' = [data EXCEPT ![n] = e]
        /\ start[q] = NULL => /\ start' = [start EXCEPT ![q] = n]
                              /\ next' = [next EXCEPT ![n] = NULL]
        /\ start[q] # NULL => /\ start' = start
                              /\ next' = [[next EXCEPT ![n] = NULL] EXCEPT ![end[q]] = n]
        /\ end' = [end EXCEPT ![q] = n] /\ open' = open /\ orphaned' = orphaned
  BY DEF QPut
<1>2. PICK t : t = Append(s, n)
  OBVIOUS
<1>3. /\ q \in Queues /\ Linked(s, start[q], end[q], next) /\ s \in Seq(Nodes)
      /\ InQueue(s) \subseteq allocated \ orphaned /\ (start[q] = NULL <=> s = <<>>)
  BY ListOf
<1>4. s # <<>> => end[q] \in InQueue(s)
  BY <1>3, LinkedEnds
<1>5. HeapType'
  <2>1. start' \in [Queues -> Nodes \cup {NULL}] /\ end' \in [Queues -> Nodes \cup {NULL}]
    BY <1>1 DEF QueueInv, HeapType
  <2>2. next' \in [Nodes -> Nodes \cup {NULL}]
    BY <1>1 DEF QueueInv, HeapType
  <2> QED
    BY <1>1, <2>1, <2>2 DEF QueueInv, HeapType
<1>6. Linked(t, start'[q], end'[q], next') /\ InQueue(t) = InQueue(s) \cup {n}
  <2>1. next \in [Nodes -> Nodes \cup {NULL}] /\ n \in Nodes /\ n \notin InQueue(s)
    BY <1>1, <1>3 DEF QueueInv, HeapType
  <2>2. start'[q] = (IF s = <<>> THEN n ELSE start[q]) /\ end'[q] = n
    BY <1>1, <1>3 DEF QueueInv, HeapType
  <2>3. /\ s = <<>> => next' = [next EXCEPT ![n] = NULL]
        /\ s # <<>> => next' = [[next EXCEPT ![n] = NULL] EXCEPT ![end[q]] = n]
    BY <1>1, <1>3
  <2> HIDE DEF s
  <2> QED
    BY <1>2, <1>3, <2>1, <2>2, <2>3, LinkedPut
<1>7. \A p \in open' \ {q} : /\ p \in open /\ start'[p] = start[p] /\ end'[p] = end[p]
                            /\ InQueue(Chain(p)) \subseteq allocated \ orphaned
                            /\ InQueue(Chain(p)) \cap InQueue(s) = {}
  <2>1. open' \subseteq Queues
    BY <1>1 DEF QueueInv, HeapType
  <2>2. \A p \in open' \ {q} : start'[p] = start[p] /\ end'[p] = end[p]
    BY <1>1, <2>1 DEF QueueInv, HeapType
  <2> QED
    BY <1>1, <2>2, ListOf
<1>8. /\ \A k \in Nodes \ {n} : k \notin InQueue(s) => next'[k] = next[k]
      /\ \A k \in Nodes \ {n} : data'[k] = data[k]
      /\ data'[n] = e /\ allocated \subseteq Nodes
  BY <1>1, <1>3, <1>4 DEF QueueInv, HeapType
<1>9. \A k \in InQueue(t) : data'[k] \in Elements
  BY <1>1, <1>3, <1>6, <1>8, ListOf
<1>10. \A p \in open' \ {q} : \A k \in InQueue(Chain(p)) :
         /\ next'[k] = next[k] /\ data'[k] = data[k]
         /\ k \in allocated' \ orphaned' /\ k \notin InQueue(t)
  BY <1>1, <1>6, <1>7, <1>8
<1>11. \A k \in allocated' \ orphaned' :
         k \in InQueue(t) \/ \E p \in open' \ {q} : k \in InQueue(Chain(p))
  BY <1>1, <1>6, NodeInQueue
<1>12. InQueue(t) \subseteq allocated' \ orphaned'
  BY <1>1, <1>3, <1>6 DEF QueueInv, HeapType
<1>13. open' = open \ {}
  BY <1>1
<1>14. Updated(q, t, {})
  BY <1>5, <1>6, <1>7, <1>9, <1>10, <1>11, <1>12, <1>13 DEF Updated
<1>15. \E M : M = [p \in open \ {} |-> IF p = q THEN t ELSE Chain(p)] /\ Listing(M)'
  BY <1>5, <1>14, OneChanges
<1> QED
  BY <1>1, <1>2, <1>5, <1>15

\* qget takes the first node off and frees it.
LEMMA GetLists ==
  ASSUME QueueInv, NEW q \in open, QGet(q), start[q] # NULL
  PROVE  /\ HeapType'
         /\ \E M : /\ M = [p \in open \ {} |-> IF p = q THEN Tail(Chain(q)) ELSE Chain(p)]
                  /\ Listing(M)'
<1> DEFINE s == Chain(q)
<1>1. /\ allocated' = allocated \ {start[q]} /\ data' = data /\ next' = next
      /\ open' = open /\ orphaned' = orphaned
      /\ start[q] = end[q] => start' = [start EXCEPT ![q] = NULL] /\ end' = [end EXCEPT ![q] = NULL]
      /\ start[q] # end[q] => start' = [start EXCEPT ![q] = next[start[q]]] /\ end' = end
  BY DEF QGet
<1>2. PICK t : t = Tail(s)
  OBVIOUS
<1>3. /\ q \in Queues /\ Linked(s, start[q], end[q], next) /\ s \in Seq(Nodes) /\ s # <<>>
      /\ InQueue(s) \subseteq allocated \ orphaned
  BY ListOf
<1>4. /\ start[q] = end[q] <=> Len(s) = 1
      /\ start[q] \in InQueue(s) /\ start[q] \in Nodes
  BY <1>3, LinkedEnds
<1>5. HeapType'
  <2>1. start' \in [Queues -> Nodes \cup {NULL}] /\ end' \in [Queues -> Nodes \cup {NULL}]
    BY <1>1, <1>3, <1>4 DEF QueueInv, HeapType
  <2> QED
    BY <1>1, <1>3, <1>4, <2>1 DEF QueueInv, HeapType
<1>6. Linked(t, start'[q], end'[q], next') /\ InQueue(t) = InQueue(s) \ {start[q]}
  <2>1. /\ start'[q] = (IF Len(s) = 1 THEN NULL ELSE next[start[q]])
        /\ end'[q] = (IF Len(s) = 1 THEN NULL ELSE end[q])
    BY <1>1, <1>3, <1>4 DEF QueueInv, HeapType
  <2> HIDE DEF s
  <2> QED
    BY <1>1, <1>2, <1>3, <2>1, LinkedGet
<1>7. \A p \in open' \ {q} : /\ p \in open /\ start'[p] = start[p] /\ end'[p] = end[p]
                            /\ InQueue(Chain(p)) \subseteq allocated \ orphaned
                            /\ InQueue(Chain(p)) \cap InQueue(s) = {}
  <2>1. open' \subseteq Queues
    BY <1>1 DEF QueueInv, HeapType
  <2>2. \A p \in open' \ {q} : start'[p] = start[p] /\ end'[p] = end[p]
    BY <1>1, <2>1 DEF QueueInv, HeapType
  <2> QED
    BY <1>1, <2>2, ListOf
<1>8. /\ \A k \in InQueue(t) : data'[k] \in Elements
      /\ InQueue(t) \subseteq allocated' \ orphaned'
  BY <1>1, <1>3, <1>6, ListOf
<1>9. \A p \in open' \ {q} : \A k \in InQueue(Chain(p)) :
         /\ next'[k] = next[k] /\ data'[k] = data[k]
         /\ k \in allocated' \ orphaned' /\ k \notin InQueue(t)
  BY <1>1, <1>4, <1>6, <1>7
<1>10. \A k \in allocated' \ orphaned' :
         k \in InQueue(t) \/ \E p \in open' \ {q} : k \in InQueue(Chain(p))
  BY <1>1, <1>6, NodeInQueue
<1>11. open' = open \ {}
  BY <1>1
<1>12. Updated(q, t, {})
  BY <1>5, <1>6, <1>7, <1>8, <1>9, <1>10, <1>11 DEF Updated
<1>13. \E M : M = [p \in open \ {} |-> IF p = q THEN t ELSE Chain(p)] /\ Listing(M)'
  BY <1>5, <1>12, OneChanges
<1> QED
  BY <1>2, <1>5, <1>13

\* The loop with the test searchfn stops at the first match.
LEMMA FirstMatch ==
  ASSUME QueueInv, NEW q \in open, NEW Found, Matches(q, Found) # {}
  PROVE  /\ First(q, Found) \in Matches(q, Found)
         /\ \A j \in Matches(q, Found) : First(q, Found) <= j
         /\ Matches(q, Found) \subseteq DOMAIN Chain(q)
<1>1. Matches(q, Found) \subseteq DOMAIN Chain(q) /\ DOMAIN Chain(q) = 1..Len(Chain(q))
  BY ListOf DEF Matches
<1>2. Matches(q, Found) \in SUBSET Nat
  BY <1>1
<1>3. \E i \in Matches(q, Found) : \A j \in Matches(q, Found) : i <= j
  BY <1>2, LeastNumber
<1> QED
  BY <1>1, <1>3 DEF First

\* qremove takes the first match out and frees its node.
LEMMA RemoveLists ==
  ASSUME QueueInv, NEW q \in open, NEW Found, QRemove(q, Found), Matches(q, Found) # {}
  PROVE  /\ HeapType'
         /\ \E M : /\ M = [p \in open \ {} |-> IF p = q THEN Without(Chain(q), First(q, Found)) ELSE Chain(p)]
                  /\ Listing(M)'
<1> DEFINE s == Chain(q)
<1>1. PICK i : i = First(q, Found)
  OBVIOUS
<1>2. /\ allocated' = allocated \ {s[i]} /\ data' = data /\ open' = open /\ orphaned' = orphaned
      /\ \/ /\ i = 1 /\ next' = next
            /\ start' = [start EXCEPT ![q] = next[s[i]]]
            /\ end' = [end EXCEPT ![q] = IF next[s[i]] = NULL THEN NULL ELSE end[q]]
         \/ /\ i > 1 /\ start' = start
            /\ next' = [next EXCEPT ![s[i - 1]] = next[s[i]]]
            /\ end' = [end EXCEPT ![q] = IF s[i] = end[q] THEN s[i - 1] ELSE end[q]]
  BY <1>1 DEF QRemove, QueueInv, HeapType
<1>3. PICK t : t = Without(s, i)
  OBVIOUS
<1>4. /\ q \in Queues /\ Linked(s, start[q], end[q], next) /\ s \in Seq(Nodes)
      /\ InQueue(s) \subseteq allocated \ orphaned /\ DOMAIN s = 1..Len(s) /\ Len(s) \in Nat
  BY ListOf
<1>5. /\ i \in DOMAIN s /\ i \in Nat \ {0} /\ s[i] \in InQueue(s)
      /\ i > 1 => i - 1 \in DOMAIN s /\ s[i - 1] \in InQueue(s)
  <2>1. i \in DOMAIN s
    BY <1>1, FirstMatch
  <2> QED
    BY <1>4, <2>1 DEF InQueue
<1>6. s[i] \in Nodes /\ (i > 1 => s[i - 1] \in Nodes) /\ s[i] \notin orphaned
  BY <1>4, <1>5 DEF QueueInv, HeapType
<1>7. HeapType'
  <2>1. start' \in [Queues -> Nodes \cup {NULL}] /\ end' \in [Queues -> Nodes \cup {NULL}]
    BY <1>2, <1>4, <1>6 DEF QueueInv, HeapType
  <2>2. next' \in [Nodes -> Nodes \cup {NULL}]
    BY <1>2, <1>6 DEF QueueInv, HeapType
  <2>3. orphaned' \subseteq allocated'
    BY <1>2, <1>6 DEF QueueInv, HeapType
  <2> QED
    BY <1>2, <2>1, <2>2, <2>3 DEF QueueInv, HeapType
<1>8. Linked(t, start'[q], end'[q], next') /\ InQueue(t) = InQueue(s) \ {s[i]}
  <2>1. next \in [Nodes -> Nodes \cup {NULL}]
    BY DEF QueueInv, HeapType
  <2>2. i = 1 => /\ start'[q] = next[s[i]] /\ next' = next
                 /\ end'[q] = IF next[s[i]] = NULL THEN NULL ELSE end[q]
    BY <1>2, <1>4 DEF QueueInv, HeapType
  <2>3. i > 1 => /\ start'[q] = start[q] /\ next' = [next EXCEPT ![s[i - 1]] = next[s[i]]]
                 /\ end'[q] = IF s[i] = end[q] THEN s[i - 1] ELSE end[q]
    BY <1>2, <1>4 DEF QueueInv, HeapType
  <2> HIDE DEF s
  <2> QED
    BY <1>3, <1>4, <1>5, <2>1, <2>2, <2>3, LinkedRemove
<1>9. \A p \in open' \ {q} : /\ p \in open /\ start'[p] = start[p] /\ end'[p] = end[p]
                            /\ InQueue(Chain(p)) \subseteq allocated \ orphaned
                            /\ InQueue(Chain(p)) \cap InQueue(s) = {}
  <2>1. open' \subseteq Queues
    BY <1>2 DEF QueueInv, HeapType
  <2>2. \A p \in open' \ {q} : start'[p] = start[p] /\ end'[p] = end[p]
    BY <1>2, <2>1 DEF QueueInv, HeapType
  <2> QED
    BY <1>2, <2>2, ListOf
<1>10. /\ \A k \in InQueue(t) : data'[k] \in Elements
       /\ InQueue(t) \subseteq allocated' \ orphaned'
  BY <1>2, <1>4, <1>8, ListOf
<1>11. \A k \in Nodes : k \notin InQueue(s) => next'[k] = next[k]
  BY <1>2, <1>5 DEF QueueInv, HeapType
<1>12. \A p \in open' \ {q} : \A k \in InQueue(Chain(p)) :
         /\ next'[k] = next[k] /\ data'[k] = data[k]
         /\ k \in allocated' \ orphaned' /\ k \notin InQueue(t)
  BY <1>2, <1>5, <1>8, <1>9, <1>11 DEF QueueInv, HeapType
<1>13. \A k \in allocated' \ orphaned' :
         k \in InQueue(t) \/ \E p \in open' \ {q} : k \in InQueue(Chain(p))
  BY <1>2, <1>8, NodeInQueue
<1>14. Updated(q, t, {})
  BY <1>2, <1>8, <1>9, <1>10, <1>12, <1>13 DEF Updated
<1>15. \E M : M = [p \in open \ {} |-> IF p = q THEN t ELSE Chain(p)] /\ Listing(M)'
  BY <1>7, <1>14, OneChanges
<1> QED
  BY <1>1, <1>3, <1>7, <1>15

\* qconcat moves the nodes of one queue to the end of another.
LEMMA ConcatLists ==
  ASSUME QueueInv, NEW q1 \in open, NEW q2 \in open \ {q1}, QConcat(q1, q2)
  PROVE  /\ HeapType'
         /\ \E M : /\ M = [p \in open \ {q2} |-> IF p = q1 THEN Chain(q1) \o Chain(q2) ELSE Chain(p)]
                  /\ Listing(M)'
<1> DEFINE s == Chain(q1)
           u == Chain(q2)
<1>1. /\ allocated' = allocated /\ data' = data /\ open' = open \ {q2} /\ orphaned' = orphaned
      /\ start[q2] = NULL => start' = start /\ end' = end /\ next' = next
      /\ start[q2] # NULL =>
           /\ end' = [end EXCEPT ![q1] = end[q2]]
           /\ start[q1] = NULL => start' = [start EXCEPT ![q1] = start[q2]] /\ next' = next
           /\ start[q1] # NULL => start' = start /\ next' = [next EXCEPT ![end[q1]] = start[q2]]
  BY DEF QConcat
<1>2. PICK t : t = s \o u
  OBVIOUS
<1>3. /\ q1 \in Queues /\ Linked(s, start[q1], end[q1], next) /\ s \in Seq(Nodes)
      /\ InQueue(s) \subseteq allocated \ orphaned /\ (start[q1] = NULL <=> s = <<>>)
  BY ListOf
<1>4. /\ q2 \in Queues /\ Linked(u, start[q2], end[q2], next) /\ u \in Seq(Nodes)
      /\ InQueue(u) \subseteq allocated \ orphaned /\ (start[q2] = NULL <=> u = <<>>)
  BY ListOf
<1>5. InQueue(s) \cap InQueue(u) = {}
  BY ListOf
<1>6. /\ s # <<>> => end[q1] \in InQueue(s) /\ end[q1] \in Nodes
      /\ u # <<>> => start[q2] \in Nodes /\ end[q2] \in Nodes
  BY <1>3, <1>4, LinkedEnds
<1>7. HeapType'
  <2>1. start' \in [Queues -> Nodes \cup {NULL}] /\ end' \in [Queues -> Nodes \cup {NULL}]
    BY <1>1, <1>3, <1>4 DEF QueueInv, HeapType
  <2>2. next' \in [Nodes -> Nodes \cup {NULL}]
    BY <1>1, <1>3, <1>4, <1>6 DEF QueueInv, HeapType
  <2> QED
    BY <1>1, <2>1, <2>2 DEF QueueInv, HeapType
<1>8. Linked(t, start'[q1], end'[q1], next') /\ InQueue(t) = InQueue(s) \cup InQueue(u)
  <2>1. CASE u = <<>>
    <3>1. t = s /\ InQueue(u) = {}
      <4>1. InQueue(u) = {}
        BY <2>1 DEF InQueue
      <4> HIDE DEF s, u
      <4>2. s \o u = s
        BY <1>3, <2>1, ConcatEmptySeq
      <4> QED
        BY <1>2, <4>1, <4>2
    <3> QED
      BY <1>1, <1>3, <1>4, <2>1, <3>1
  <2>2. CASE u # <<>>
    <3>1. next \in [Nodes -> Nodes \cup {NULL}]
      BY DEF QueueInv, HeapType
    <3>2. /\ end'[q1] = end[q2] /\ start'[q1] = IF s = <<>> THEN start[q2] ELSE start[q1]
          /\ s = <<>> => next' = next
          /\ s # <<>> => next' = [next EXCEPT ![end[q1]] = start[q2]]
      BY <1>1, <1>3, <1>4, <2>2 DEF QueueInv, HeapType
    <3> HIDE DEF s, u
    <3>3. /\ Linked(s \o u, IF s = <<>> THEN start[q2] ELSE start[q1], end[q2], next')
          /\ InQueue(s \o u) = InQueue(s) \cup InQueue(u)
      BY <1>3, <1>4, <1>5, <2>2, <3>1, <3>2, LinkedConcat
    <3> QED
      BY <1>2, <3>2, <3>3
  <2> QED
    BY <2>1, <2>2
<1>9. \A p \in open' \ {q1} : /\ p \in open /\ start'[p] = start[p] /\ end'[p] = end[p]
                             /\ InQueue(Chain(p)) \subseteq allocated \ orphaned
                             /\ InQueue(Chain(p)) \cap InQueue(s) = {}
                             /\ InQueue(Chain(p)) \cap InQueue(u) = {}
  <2>1. open' \subseteq Queues
    BY <1>1 DEF QueueInv, HeapType
  <2>2. \A p \in open' \ {q1} : start'[p] = start[p] /\ end'[p] = end[p]
    BY <1>1, <2>1 DEF QueueInv, HeapType
  <2> QED
    BY <1>1, <2>2, ListOf
<1>10. /\ \A k \in InQueue(t) : data'[k] \in Elements
       /\ InQueue(t) \subseteq allocated' \ orphaned'
  BY <1>1, <1>3, <1>4, <1>8, ListOf
<1>11. \A k \in Nodes : k \notin InQueue(s) => next'[k] = next[k]
  BY <1>1, <1>3, <1>6 DEF QueueInv, HeapType
<1>12. \A p \in open' \ {q1} : \A k \in InQueue(Chain(p)) :
         /\ next'[k] = next[k] /\ data'[k] = data[k]
         /\ k \in allocated' \ orphaned' /\ k \notin InQueue(t)
  BY <1>1, <1>8, <1>9, <1>11 DEF QueueInv, HeapType
<1>13. \A k \in allocated' \ orphaned' :
         k \in InQueue(t) \/ \E p \in open' \ {q1} : k \in InQueue(Chain(p))
  BY <1>1, <1>8, NodeInQueue
<1>14. Updated(q1, t, {q2})
  BY <1>1, <1>8, <1>9, <1>10, <1>12, <1>13 DEF Updated
<1>15. \E M : M = [p \in open \ {q2} |-> IF p = q1 THEN t ELSE Chain(p)] /\ Listing(M)'
  BY <1>7, <1>14, OneChanges, ZenonT(30)
<1> QED
  BY <1>2, <1>7, <1>15

\* The operations that only read change no list.
LEMMA SameLists ==
  ASSUME QueueInv, UNCHANGED <<queues, heap, orphaned>>
  PROVE  HeapType' /\ \E M : M = [p \in open \ {} |-> Chain(p)] /\ Listing(M)'
<1>1. HeapType'
  BY DEF QueueInv, HeapType, queues, heap
<1>2. PICK M : M = Chains
  OBVIOUS
<1>3. Listing(M)
  BY <1>2 DEF QueueInv
<1>4. Listing(M)'
  BY <1>3 DEF Listing, queues, heap
<1> QED
  BY <1>1, <1>2, <1>4 DEF Chains

\* The failing malloc and the operations that only read.
Reads ==
  \/ QOpenFails
  \/ \E q \in open : QPutFails(q) \/ QApply(q) \/ (QGet(q) /\ start[q] = NULL)
  \/ \E q \in open : \E Found \in SUBSET Elements :
       QSearch(q, Found) \/ (QRemove(q, Found) /\ Matches(q, Found) = {})

\* They leave the queues and the heap alone.
LEMMA ReadsChangeNothing ==
  Reads => UNCHANGED <<queues, heap, orphaned>>
BY DEF Reads, QOpenFails, QPutFails, QApply, QGet, QSearch, QRemove

\* Every step is one of those, or of the operations that change a list.
LEMMA Steps ==
  ASSUME Next
  PROVE  \/ Reads
         \/ \E q \in Queues : QOpen(q)
         \/ \E q \in open : QClose(q) \/ QConcatNull(q) \/ (QGet(q) /\ start[q] # NULL)
         \/ \E q \in open : \E e \in Elements : QPut(q, e)
         \/ \E q \in open : \E Found \in SUBSET Elements : QRemove(q, Found) /\ Matches(q, Found) # {}
         \/ \E q \in open : \E q2 \in open \ {q} : QConcat(q, q2)
<1>1. CASE QOpenFails \/ \E q \in Queues : QOpen(q)
  BY <1>1 DEF Reads
<1>2. ASSUME NEW q \in open,
             QClose(q) \/ QPutFails(q) \/ QGet(q) \/ QApply(q) \/ QConcatNull(q)
      PROVE  Reads \/ \E r \in open : QClose(r) \/ QConcatNull(r) \/ (QGet(r) /\ start[r] # NULL)
  BY <1>2 DEF Reads
<1>3. ASSUME NEW q \in open, NEW Found \in SUBSET Elements, QSearch(q, Found) \/ QRemove(q, Found)
      PROVE  Reads \/ (QRemove(q, Found) /\ Matches(q, Found) # {})
  BY <1>3 DEF Reads
<1> QED
  BY <1>1, <1>2, <1>3 DEF Next

\* The lists are lists after every step.
LEMMA StepListing ==
  ASSUME QueueInv, [Next]_vars
  PROVE  HeapType' /\ \E M : Listing(M)'
<1>1. CASE Reads \/ UNCHANGED vars
  BY <1>1, ReadsChangeNothing, SameLists DEF vars
<1>2. CASE \E q \in Queues : QOpen(q)
  BY <1>2, OpenLists
<1>3. ASSUME NEW q \in open, QClose(q) \/ QConcatNull(q) PROVE HeapType' /\ \E M : Listing(M)'
  BY <1>3, CloseLists
<1>4. ASSUME NEW q \in open, QGet(q) /\ start[q] # NULL PROVE HeapType' /\ \E M : Listing(M)'
  BY <1>4, GetLists
<1>5. ASSUME NEW q \in open, NEW e \in Elements, QPut(q, e) PROVE HeapType' /\ \E M : Listing(M)'
  BY <1>5, PutLists
<1>6. ASSUME NEW q \in open, NEW Found, QRemove(q, Found) /\ Matches(q, Found) # {}
      PROVE  HeapType' /\ \E M : Listing(M)'
  BY <1>6, RemoveLists
<1>7. ASSUME NEW q \in open, NEW q2 \in open \ {q}, QConcat(q, q2) PROVE HeapType' /\ \E M : Listing(M)'
  BY <1>7, ConcatLists
<1> QED
  BY <1>1, <1>2, <1>3, <1>4, <1>5, <1>6, <1>7, Steps

\* In every reachable state the pointers form lists: queue.c keeps the heap in
\* shape, whatever calls are made in whatever order.
THEOREM QueueInvariant == Spec => []QueueInv
<1>1. Init => QueueInv
  BY DEF Init, QueueInv, HeapType, Listing
<1>2. QueueInv /\ [Next]_vars => QueueInv'
  BY StepListing, ListingAfter
<1> QED
  BY <1>1, <1>2, PTL DEF Spec

\* No operation of queue.c leaves a pointer to a node that was freed or that
\* another queue still uses, makes a cycle, or forgets to move the end pointer.
THEOREM PointersWellFormed == Spec => []WellFormed
<1>1. QueueInv => WellFormed
  <2> SUFFICES ASSUME QueueInv PROVE WellFormed
    OBVIOUS
  <2>1. ASSUME NEW q \in open
        PROVE  /\ \E k \in 0..Cardinality(Nodes) : Walk(q, k) = NULL
               /\ end[q] = IF Length(q) = 0 THEN NULL ELSE Chain(q)[Length(q)]
               /\ \A i \in 1..Length(q) : Chain(q)[i] \in allocated
    <3>1. /\ q \in Queues /\ Linked(Chain(q), start[q], end[q], next)
          /\ Chain(q) \in Seq(Nodes) /\ Length(q) = Len(Chain(q))
          /\ InQueue(Chain(q)) \subseteq allocated /\ DOMAIN Chain(q) = 1..Len(Chain(q))
      BY ListOf
    <3>2. Len(Chain(q)) \in 0..Cardinality(Nodes) /\ Walk(q, Len(Chain(q))) = NULL
      BY <3>1, ChainOfList, WalkOfList DEF QueueInv
    <3>3. end[q] = IF Length(q) = 0 THEN NULL ELSE Chain(q)[Length(q)]
      BY <3>1, EmptyQueue DEF Linked
    <3> QED
      BY <3>1, <3>2, <3>3 DEF InQueue
  <2>2. ASSUME NEW p \in open, NEW q \in open, NEW i \in 1..Length(p), NEW j \in 1..Length(q),
               Chain(p)[i] = Chain(q)[j]
        PROVE  p = q /\ i = j
    <3>1. Chain(p)[i] \in InQueue(Chain(p)) /\ Chain(q)[j] \in InQueue(Chain(q))
      <4>1. DOMAIN Chain(p) = 1..Length(p) /\ DOMAIN Chain(q) = 1..Length(q)
        BY ListOf
      <4> QED
        BY <4>1 DEF InQueue
    <3>2. p = q
      BY <2>2, <3>1, ListOf
    <3> QED
      BY <2>2, <3>2, ListOf DEF Linked
  <2> QED
    BY <2>1, <2>2 DEF WellFormed
<1> QED
  BY <1>1, QueueInvariant, PTL

\* Only qconcat(NULL, q2) leaks: every other allocated node is in an open queue.
THEOREM NothingLeaks == Spec => []NoLeak
<1>1. QueueInv => NoLeak
  <2> SUFFICES ASSUME QueueInv PROVE NoLeak
    OBVIOUS
  <2>1. \A q \in open : /\ {Chain(q)[i] : i \in 1..Length(q)} = InQueue(Chain(q))
                        /\ InQueue(Chain(q)) \subseteq allocated \ orphaned
    BY ListOf
  <2>2. \A n \in allocated \ orphaned : \E q \in open : n \in InQueue(Chain(q))
    BY NodeInQueue
  <2>3. orphaned \subseteq allocated
    BY DEF QueueInv, HeapType
  <2>4. \A q \in open : \A i \in 1..Length(q) : Chain(q)[i] \notin orphaned
    BY <2>1
  <2>5. allocated = orphaned \cup UNION {{Chain(q)[i] : i \in 1..Length(q)} : q \in open}
    <3>1. \A n \in allocated \ orphaned : \E q \in open : n \in {Chain(q)[i] : i \in 1..Length(q)}
      BY <2>1, <2>2
    <3>2. \A q \in open : {Chain(q)[i] : i \in 1..Length(q)} \subseteq allocated
      BY <2>1
    <3> QED
      BY <2>3, <3>1, <3>2
  <2> QED
    BY <2>4, <2>5 DEF NoLeak
<1> QED
  BY <1>1, QueueInvariant, PTL

-----------------------------------------------------------------------------
(***************************************************************************)
(* Seen through the interface: the elements of a list as a sequence.       *)
(***************************************************************************)
DataOf(s, d) == [i \in 1..Len(s) |-> d[s[i]]]

\* The sequence has a place for every node.
LEMMA DataType ==
  ASSUME NEW s \in Seq(Nodes), NEW d, \A n \in InQueue(s) : d[n] \in Elements
  PROVE  /\ DataOf(s, d) \in Seq(Elements) /\ Len(DataOf(s, d)) = Len(s)
         /\ \A i \in 1..Len(s) : DataOf(s, d)[i] = d[s[i]]
<1>1. Len(s) \in Nat /\ \A i \in 1..Len(s) : d[s[i]] \in Elements
  BY DEF InQueue
<1> QED
  BY <1>1 DEF DataOf

\* It depends on the data of the nodes only.
LEMMA DataFrame ==
  ASSUME NEW s \in Seq(Nodes), NEW d, NEW f, \A n \in InQueue(s) : f[n] = d[n]
  PROVE  DataOf(s, f) = DataOf(s, d)
BY DEF DataOf, InQueue

\* qput appends an element.
LEMMA DataPut ==
  ASSUME NEW s \in Seq(Nodes), NEW d \in [Nodes -> Elements \cup {NULL}],
         \A k \in InQueue(s) : d[k] \in Elements, NEW n \in Nodes, n \notin InQueue(s), NEW e \in Elements
  PROVE  DataOf(Append(s, n), [d EXCEPT ![n] = e]) = Append(DataOf(s, d), e)
<1> DEFINE t == Append(s, n)
           f == [d EXCEPT ![n] = e]
           a == DataOf(s, d)
           b == DataOf(t, f)
<1>1. /\ t \in Seq(Nodes) /\ Len(t) = Len(s) + 1 /\ Len(s) \in Nat /\ t[Len(s) + 1] = n
      /\ \A i \in 1..Len(s) : t[i] = s[i] /\ s[i] \in InQueue(s) /\ s[i] \in Nodes
  BY DEF InQueue
<1>2. InQueue(t) = InQueue(s) \cup {n} /\ InQueue(s) \subseteq Nodes
  BY <1>1, QueuePages DEF InQueue
<1>3. f[n] = e /\ \A k \in InQueue(s) : f[k] = d[k]
  BY <1>2
<1> HIDE DEF t, f
<1>4. a \in Seq(Elements) /\ Len(a) = Len(s) /\ \A i \in 1..Len(s) : a[i] = d[s[i]]
  BY DataType
<1>5. \A k \in InQueue(t) : f[k] \in Elements
  BY <1>2, <1>3
<1>6. b \in Seq(Elements) /\ Len(b) = Len(s) + 1 /\ \A i \in 1..(Len(s) + 1) : b[i] = f[t[i]]
  BY <1>1, <1>5, DataType
<1> HIDE DEF a, b
<1>7. Append(a, e) \in Seq(Elements) /\ Len(Append(a, e)) = Len(s) + 1
      /\ \A i \in 1..(Len(s) + 1) : Append(a, e)[i] = IF i = Len(s) + 1 THEN e ELSE a[i]
  BY <1>1, <1>4, AppendProperties
<1>8. \A i \in 1..(Len(s) + 1) : b[i] = Append(a, e)[i]
  BY <1>1, <1>3, <1>4, <1>6, <1>7
<1>9. b = Append(a, e)
  BY <1>6, <1>7, <1>8, SeqEqual
<1> QED
  BY <1>9 DEF a, b, t, f

\* qget takes the first element.
LEMMA DataGet ==
  ASSUME NEW s \in Seq(Nodes), NEW d, \A k \in InQueue(s) : d[k] \in Elements, s # <<>>
  PROVE  /\ DataOf(s, d) # <<>> /\ Head(DataOf(s, d)) = d[Head(s)]
         /\ DataOf(Tail(s), d) = Tail(DataOf(s, d))
<1> DEFINE t == Tail(s)
           a == DataOf(s, d)
           b == DataOf(t, d)
<1>1. /\ t \in Seq(Nodes) /\ Len(t) = Len(s) - 1 /\ Len(s) \in Nat \ {0} /\ Head(s) = s[1]
      /\ \A i \in 1..(Len(s) - 1) : t[i] = s[i + 1]
  OBVIOUS
<1>2. InQueue(t) \subseteq InQueue(s)
  BY QueuePages
<1> HIDE DEF t
<1>3. a \in Seq(Elements) /\ Len(a) = Len(s) /\ \A i \in 1..Len(s) : a[i] = d[s[i]]
  BY DataType
<1>4. b \in Seq(Elements) /\ Len(b) = Len(t) /\ \A i \in 1..Len(t) : b[i] = d[t[i]]
  BY <1>1, <1>2, DataType
<1> HIDE DEF a, b
<1>5. a # <<>> /\ Head(a) = a[1]
  BY <1>1, <1>3, EmptyQueue
<1>6. Tail(a) \in Seq(Elements) /\ Len(Tail(a)) = Len(s) - 1
      /\ \A i \in 1..(Len(s) - 1) : Tail(a)[i] = a[i + 1]
  BY <1>1, <1>3, <1>5, HeadTailProperties
<1>7. \A i \in 1..Len(b) : b[i] = Tail(a)[i]
  BY <1>1, <1>3, <1>4, <1>6
<1>8. b = Tail(a)
  BY <1>1, <1>4, <1>6, <1>7, SeqEqual
<1>9. Head(a) = d[Head(s)]
  BY <1>1, <1>3, <1>5
<1> QED
  BY <1>5, <1>8, <1>9 DEF a, b, t

\* qremove takes out one element.
LEMMA DataRemove ==
  ASSUME NEW s \in Seq(Nodes), NEW d, \A k \in InQueue(s) : d[k] \in Elements, NEW i \in DOMAIN s
  PROVE  DataOf(Without(s, i), d) = Without(DataOf(s, d), i)
<1> DEFINE t == Without(s, i)
           a == DataOf(s, d)
<1>1. /\ t \in Seq(Nodes) /\ Len(t) = Len(s) - 1 /\ Len(s) \in Nat \ {0} /\ i \in 1..Len(s)
      /\ \A k \in 1..(Len(s) - 1) : t[k] = IF k < i THEN s[k] ELSE s[k + 1]
  BY WithoutType
<1> HIDE DEF t
<1>2. Len(a) = Len(s) /\ \A k \in 1..Len(s) : a[k] = d[s[k]]
  BY DataType
<1> HIDE DEF a
<1>3. \A k \in 1..(Len(s) - 1) : d[t[k]] = IF k < i THEN a[k] ELSE a[k + 1]
  BY <1>1, <1>2
<1>4. DataOf(t, d) = [k \in 1..(Len(s) - 1) |-> d[t[k]]]
  BY <1>1 DEF DataOf
<1>5. Without(a, i) = [k \in 1..(Len(s) - 1) |-> IF k < i THEN a[k] ELSE a[k + 1]]
  BY <1>2 DEF Without
<1> QED
  BY <1>3, <1>4, <1>5 DEF a, t

\* qconcat appends one sequence to another.
LEMMA DataConcat ==
  ASSUME NEW s \in Seq(Nodes), NEW t \in Seq(Nodes), NEW d,
         \A k \in InQueue(s) \cup InQueue(t) : d[k] \in Elements
  PROVE  DataOf(s \o t, d) = DataOf(s, d) \o DataOf(t, d)
<1> DEFINE u == s \o t
           a == DataOf(s, d)
           b == DataOf(t, d)
           c == DataOf(u, d)
<1>1. /\ u \in Seq(Nodes) /\ Len(u) = Len(s) + Len(t) /\ Len(s) \in Nat /\ Len(t) \in Nat
      /\ \A i \in 1..(Len(s) + Len(t)) : u[i] = IF i <= Len(s) THEN s[i] ELSE t[i - Len(s)]
  BY ConcatProperties
<1>2. a \in Seq(Elements) /\ Len(a) = Len(s) /\ \A i \in 1..Len(s) : a[i] = d[s[i]]
  BY DataType
<1>3. b \in Seq(Elements) /\ Len(b) = Len(t) /\ \A i \in 1..Len(t) : b[i] = d[t[i]]
  BY DataType
<1> HIDE DEF a, b, u
<1>4. c = [i \in 1..(Len(s) + Len(t)) |-> d[u[i]]]
  BY <1>1 DEF DataOf
<1> DEFINE v == a \o b
<1>5. /\ v \in Seq(Elements) /\ Len(v) = Len(a) + Len(b)
      /\ \A i \in 1..(Len(a) + Len(b)) : v[i] = IF i <= Len(a) THEN a[i] ELSE b[i - Len(a)]
  BY <1>2, <1>3, ConcatProperties
<1> HIDE DEF v
<1>6. ASSUME NEW i \in 1..(Len(s) + Len(t)) PROVE d[u[i]] = v[i]
  <2>1. i <= Len(s) => i \in 1..Len(s)
    BY <1>1
  <2>2. ~(i <= Len(s)) => i - Len(s) \in 1..Len(t)
    BY <1>1
  <2>3. /\ v[i] = IF i <= Len(s) THEN a[i] ELSE b[i - Len(s)]
        /\ u[i] = IF i <= Len(s) THEN s[i] ELSE t[i - Len(s)]
    BY <1>1, <1>2, <1>3, <1>5
  <2> QED
    BY <1>2, <1>3, <2>1, <2>2, <2>3
<1>7. v = [i \in 1..(Len(s) + Len(t)) |-> v[i]]
  BY <1>2, <1>3, <1>5
<1>8. c = v
  BY <1>4, <1>6, <1>7
<1> QED
  BY <1>8 DEF a, b, c, u, v

\* What a queue holds is the data of its nodes.
LEMMA ContentsOf ==
  ASSUME QueueInv, NEW q \in open
  PROVE  /\ Contents(q) = DataOf(Chain(q), data) /\ Contents(q) \in Seq(Elements)
         /\ Len(Contents(q)) = Len(Chain(q)) /\ DOMAIN Contents(q) = DOMAIN Chain(q)
         /\ \A i \in DOMAIN Chain(q) : Contents(q)[i] = data[Chain(q)[i]]
         /\ start[q] = NULL <=> Contents(q) = <<>>
<1>1. Contents(q) = DataOf(Chain(q), data)
  BY ListOf DEF DataOf
<1>2. /\ Contents(q) \in Seq(Elements) /\ Len(Contents(q)) = Len(Chain(q))
      /\ \A i \in DOMAIN Chain(q) : Contents(q)[i] = data[Chain(q)[i]]
  BY <1>1, ListOf, DataType
<1>3. DOMAIN Contents(q) = DOMAIN Chain(q)
  BY <1>2, ListOf
<1>4. start[q] = NULL <=> Contents(q) = <<>>
  BY <1>2, ListOf, EmptyQueue
<1> QED
  BY <1>1, <1>2, <1>3, <1>4

\* What the queues hold after a step that changes one list.
LEMMA ContentsAfter ==
  ASSUME QueueInv, HeapType', NEW q \in open, NEW t, NEW D, q \notin D, open' = open \ D,
         \A k \in allocated : data'[k] = data[k],
         \E M : M = [p \in open \ D |-> IF p = q THEN t ELSE Chain(p)] /\ Listing(M)'
  PROVE  \A p \in open' : Contents(p)' = IF p = q THEN DataOf(t, data') ELSE Contents(p)
<1>1. PICK M : M = [p \in open \ D |-> IF p = q THEN t ELSE Chain(p)] /\ Listing(M)'
  OBVIOUS
<1> SUFFICES ASSUME NEW p \in open'
             PROVE  Contents(p)' = IF p = q THEN DataOf(t, data') ELSE Contents(p)
  OBVIOUS
<1>2. Contents(p)' = DataOf(M[p], data')
  BY <1>1, ListingAfter DEF DataOf
<1>3. CASE p = q
  BY <1>1, <1>2, <1>3
<1>4. CASE p # q
  <2>1. M[p] = Chain(p) /\ p \in open
    BY <1>1, <1>4
  <2>2. Chain(p) \in Seq(Nodes) /\ InQueue(Chain(p)) \subseteq allocated
    BY <2>1, ListOf
  <2>3. DataOf(Chain(p), data') = DataOf(Chain(p), data)
    BY <2>2, DataFrame
  <2> QED
    BY <1>2, <1>4, <2>1, <2>3, ContentsOf
<1> QED
  BY <1>3, <1>4

\* The loops over the nodes and the search in the sequence stop at the same place.
LEMMA FirstSame ==
  ASSUME QueueInv, NEW q \in open, NEW Found
  PROVE  /\ Matches(q, Found) # {} <=> \E i \in DOMAIN Contents(q) : Contents(q)[i] \in Found
         /\ Matches(q, Found) # {} => Interface!First(Contents(q), Found) = First(q, Found)
<1>1. DOMAIN Contents(q) = 1..Length(q) /\ Length(q) \in Nat
  BY ContentsOf, ListOf
<1>2. Matches(q, Found) = {i \in DOMAIN Contents(q) : Contents(q)[i] \in Found}
  BY <1>1 DEF Matches
<1>3. ASSUME Matches(q, Found) # {} PROVE Interface!First(Contents(q), Found) = First(q, Found)
  <2> DEFINE f == First(q, Found)
             IsFirst(i) == Contents(q)[i] \in Found /\ \A j \in 1..(i - 1) : Contents(q)[j] \notin Found
  <2>1. f \in Matches(q, Found) /\ \A j \in Matches(q, Found) : f <= j
    BY <1>3, FirstMatch
  <2> HIDE DEF f
  <2>2. f \in DOMAIN Contents(q) /\ IsFirst(f)
    <3> SUFFICES ASSUME NEW j \in 1..(f - 1), Contents(q)[j] \in Found PROVE FALSE
      BY <1>2, <2>1
    <3>1. f \in 1..Length(q)
      BY <1>1, <1>2, <2>1
    <3>2. j \in 1..Length(q) /\ ~(f <= j)
      BY <1>1, <3>1
    <3> QED
      BY <1>1, <1>2, <2>1, <3>2
  <2>3. ASSUME NEW i \in DOMAIN Contents(q), IsFirst(i) PROVE i = f
    BY <1>1, <1>2, <2>1, <2>3
  <2> HIDE DEF IsFirst
  <2>4. f = CHOOSE i \in DOMAIN Contents(q) : IsFirst(i)
    BY <2>2, <2>3
  <2> QED
    BY <2>4 DEF Interface!First, IsFirst, f
<1> QED
  BY <1>2, <1>3

\* The operations that only read return what the interface says.
LEMMA ReadsRefine ==
  ASSUME QueueInv, Reads
  PROVE  Interface!Next
<1> DEFINE content == [q \in open |-> Contents(q)]
<1>1. content' = content
  <2>1. HeapType' /\ \E M : M = [p \in open \ {} |-> Chain(p)] /\ Listing(M)'
    BY ReadsChangeNothing, SameLists
  <2>2. PICK M : M = [p \in open \ {} |-> Chain(p)] /\ Listing(M)'
    BY <2>1
  <2>3. open' = open /\ data' = data
    BY ReadsChangeNothing DEF queues, heap
  <2>4. \A p \in open : Contents(p)' = Contents(p)
    <3>1. \A p \in open' : Contents(p)' = DataOf(M[p], data')
      BY <2>1, <2>2, ListingAfter DEF DataOf
    <3> QED
      BY <2>2, <2>3, <3>1, ContentsOf
  <2> QED
    BY <2>3, <2>4
<1>2. Interface!Open = open
  BY DEF Interface!Open
<1>3. CASE ret' \in {<<NULL>>, <<-1>>}
  BY <1>1, <1>3 DEF Interface!Next, Interface!Failed
<1>4. CASE \E q \in open : QApply(q)
  <2>1. PICK q \in open : QApply(q)
    BY <1>4
  <2>2. Interface!Apply(q)
    BY <1>1, <2>1 DEF Interface!Apply, QApply
  <2> QED
    BY <1>2, <2>2 DEF Interface!Next
<1>5. CASE \E q \in open : \E Found \in SUBSET Elements : QSearch(q, Found)
  <2>1. PICK q \in open, Found \in SUBSET Elements : QSearch(q, Found)
    BY <1>5
  <2>2. content[q] = Contents(q)
    OBVIOUS
  <2>3. Interface!Search(q, Found)
    <3> HIDE DEF content
    <3>1. ret' = IF \E i \in DOMAIN content[q] : content[q][i] \in Found
                 THEN <<content[q][Interface!First(content[q], Found)]>> ELSE <<NULL>>
      BY <2>1, <2>2, FirstSame DEF QSearch
    <3> QED
      BY <1>1, <3>1 DEF Interface!Search, content
  <2> QED
    BY <1>2, <2>1, <2>3 DEF Interface!Next
<1>6. \/ ret' \in {<<NULL>>, <<-1>>}
      \/ \E q \in open : QApply(q)
      \/ \E q \in open : \E Found \in SUBSET Elements : QSearch(q, Found)
  BY DEF Reads, QOpenFails, QPutFails, QGet, QRemove
<1> QED
  BY <1>3, <1>4, <1>5, <1>6

\* What a step does to the contents of the queues, as functions.
LEMMA OneContents ==
  ASSUME open' = open, NEW q \in open, NEW v,
         \A p \in open' : Contents(p)' = IF p = q THEN v ELSE Contents(p)
  PROVE  Interface!With(q, v)
<1>1. [p \in open' |-> Contents(p)'] = [[p \in open |-> Contents(p)] EXCEPT ![q] = v]
  OBVIOUS
<1> QED
  BY <1>1 DEF Interface!With

\* The operations that change a list do to its sequence what the interface says.
LEMMA OpenRefines ==
  ASSUME QueueInv, NEW q \in Queues, QOpen(q)
  PROVE  Interface!Opened(q)
<1>1. /\ HeapType'
      /\ \E M : M = [p \in open \cup {q} |-> IF p = q THEN <<>> ELSE Chain(p)] /\ Listing(M)'
  BY OpenLists
<1>2. PICK M : M = [p \in open \cup {q} |-> IF p = q THEN <<>> ELSE Chain(p)] /\ Listing(M)'
  BY <1>1
<1>3. open' = open \cup {q} /\ q \notin open /\ data' = data /\ ret' = <<q>>
  BY DEF QOpen, heap
<1>4. \A p \in open' : Contents(p)' = DataOf(M[p], data)
  BY <1>1, <1>2, <1>3, ListingAfter DEF DataOf
<1>5. \A p \in open' : Contents(p)' = IF p = q THEN <<>> ELSE Contents(p)
  <2>1. DataOf(<<>>, data) = <<>>
    BY DEF DataOf
  <2> QED
    BY <1>2, <1>3, <1>4, <2>1, ContentsOf
<1>6. [p \in open' |-> Contents(p)']
        = [p \in open \cup {q} |-> IF p = q THEN <<>> ELSE [r \in open |-> Contents(r)][p]]
  BY <1>3, <1>5
<1> QED
  BY <1>3, <1>6 DEF Interface!Opened, Interface!Open

\* qclose is Close of the interface.
LEMMA CloseRefines ==
  ASSUME QueueInv, NEW q \in open, QClose(q) \/ QConcatNull(q)
  PROVE  Interface!Closed({q})
<1>1. HeapType' /\ \E M : M = [p \in open \ {q} |-> Chain(p)] /\ Listing(M)'
  BY CloseLists
<1>2. PICK M : M = [p \in open \ {q} |-> Chain(p)] /\ Listing(M)'
  BY <1>1
<1>3. open' = open \ {q} /\ data' = data /\ ret' = <<NULL>>
  BY DEF QClose, QConcatNull, heap
<1>4. \A p \in open' : Contents(p)' = DataOf(M[p], data)
  BY <1>1, <1>2, <1>3, ListingAfter DEF DataOf
<1>5. \A p \in open' : Contents(p)' = Contents(p)
  BY <1>2, <1>3, <1>4, ContentsOf
<1>6. [p \in open' |-> Contents(p)'] = [p \in open \ {q} |-> [r \in open |-> Contents(r)][p]]
  BY <1>3, <1>5
<1> QED
  BY <1>3, <1>6 DEF Interface!Closed, Interface!Open

\* qput is Put of the interface.
LEMMA PutRefines ==
  ASSUME QueueInv, NEW q \in open, NEW e \in Elements, QPut(q, e)
  PROVE  Interface!Put(q, e)
<1>1. PICK n \in Nodes \ allocated :
        /\ \E M : /\ M = [p \in open \ {} |-> IF p = q THEN Append(Chain(q), n) ELSE Chain(p)]
                 /\ Listing(M)'
        /\ data' = [data EXCEPT ![n] = e]
  BY PutLists
<1>2. HeapType' /\ open' = open /\ open' = open \ {} /\ ret' = <<0>> /\ q \notin {}
  BY PutLists DEF QPut
<1>3. Chain(q) \in Seq(Nodes) /\ InQueue(Chain(q)) \subseteq allocated
      /\ \A k \in InQueue(Chain(q)) : data[k] \in Elements
  BY ListOf
<1>4. DataOf(Append(Chain(q), n), data') = Append(Contents(q), e)
  <2>1. data \in [Nodes -> Elements \cup {NULL}]
    BY DEF QueueInv, HeapType
  <2>2. n \in Nodes /\ n \notin InQueue(Chain(q))
    BY <1>3
  <2>3. DataOf(Append(Chain(q), n), [data EXCEPT ![n] = e]) = Append(DataOf(Chain(q), data), e)
    BY <1>3, <2>1, <2>2, DataPut
  <2> QED
    BY <1>1, <2>3, ContentsOf
<1>5. \A k \in allocated : data'[k] = data[k]
  BY <1>1 DEF QueueInv, HeapType
<1>6. PICK t : t = Append(Chain(q), n)
  OBVIOUS
<1>7. \E M : M = [p \in open \ {} |-> IF p = q THEN t ELSE Chain(p)] /\ Listing(M)'
  BY <1>1, <1>6
<1>8. \A p \in open' : Contents(p)' = IF p = q THEN Append(Contents(q), e) ELSE Contents(p)
  <2>1. DataOf(t, data') = Append(Contents(q), e)
    BY <1>4, <1>6
  <2>2. \A p \in open' : Contents(p)' = IF p = q THEN DataOf(t, data') ELSE Contents(p)
    BY <1>2, <1>5, <1>7, ContentsAfter
  <2> QED
    BY <2>1, <2>2
<1>9. Interface!With(q, Append(Contents(q), e))
  BY <1>2, <1>8, OneContents
<1>10. [p \in open |-> Contents(p)][q] = Contents(q)
  OBVIOUS
<1> QED
  BY <1>2, <1>9, <1>10 DEF Interface!Put

\* qget is Get of the interface.
LEMMA GetRefines ==
  ASSUME QueueInv, NEW q \in open, QGet(q), start[q] # NULL
  PROVE  Interface!Get(q)
<1>1. /\ HeapType'
      /\ \E M : M = [p \in open \ {} |-> IF p = q THEN Tail(Chain(q)) ELSE Chain(p)] /\ Listing(M)'
  BY GetLists
<1>2. /\ open' = open /\ open' = open \ {} /\ ret' = <<data[start[q]]>> /\ q \notin {}
      /\ data' = data
  BY DEF QGet
<1>3. /\ Chain(q) \in Seq(Nodes) /\ Chain(q) # <<>> /\ start[q] = Head(Chain(q))
      /\ \A k \in InQueue(Chain(q)) : data[k] \in Elements
  BY ListOf, LinkedGet
<1>4. /\ Contents(q) # <<>> /\ Head(Contents(q)) = data[start[q]]
      /\ DataOf(Tail(Chain(q)), data') = Tail(Contents(q))
  BY <1>2, <1>3, DataGet, ContentsOf
<1>5. PICK t : t = Tail(Chain(q))
  OBVIOUS
<1>6. \A p \in open' : Contents(p)' = IF p = q THEN Tail(Contents(q)) ELSE Contents(p)
  BY <1>1, <1>2, <1>4, <1>5, ContentsAfter
<1>7. Interface!With(q, Tail(Contents(q)))
  BY <1>2, <1>6, OneContents
<1>8. [p \in open |-> Contents(p)][q] = Contents(q)
  OBVIOUS
<1> QED
  BY <1>2, <1>4, <1>7, <1>8 DEF Interface!Get

\* qremove is Remove of the interface, when it finds an element.
LEMMA RemoveRefines ==
  ASSUME QueueInv, NEW q \in open, NEW Found, QRemove(q, Found), Matches(q, Found) # {}
  PROVE  Interface!Remove(q, Found)
<1> DEFINE i == First(q, Found)
<1>1. /\ HeapType'
      /\ \E M : /\ M = [p \in open \ {} |-> IF p = q THEN Without(Chain(q), i) ELSE Chain(p)]
               /\ Listing(M)'
  BY RemoveLists
<1>2. /\ open' = open /\ open' = open \ {} /\ ret' = <<data[Chain(q)[i]]>> /\ q \notin {}
      /\ data' = data
  BY DEF QRemove
<1>3. /\ Chain(q) \in Seq(Nodes) /\ i \in DOMAIN Chain(q)
      /\ \A k \in InQueue(Chain(q)) : data[k] \in Elements
  BY ListOf, FirstMatch
<1>4. /\ \E j \in DOMAIN Contents(q) : Contents(q)[j] \in Found
      /\ Interface!First(Contents(q), Found) = i
  BY FirstSame
<1> HIDE DEF i
<1>5. /\ DataOf(Without(Chain(q), i), data') = Without(Contents(q), i)
      /\ Contents(q)[i] = data[Chain(q)[i]]
      /\ Without(Contents(q), i) = SubSeq(Contents(q), 1, i - 1) \o SubSeq(Contents(q), i + 1, Len(Contents(q)))
  <2>1. DataOf(Without(Chain(q), i), data') = Without(Contents(q), i)
    BY <1>2, <1>3, DataRemove, ContentsOf
  <2>2. /\ Contents(q)[i] = data[Chain(q)[i]] /\ i \in DOMAIN Contents(q)
        /\ Contents(q) \in Seq(Elements)
    BY <1>3, ContentsOf
  <2> QED
    BY <2>1, <2>2, WithoutParts
<1>6. PICK t : t = Without(Chain(q), i)
  OBVIOUS
<1>7. \A p \in open' : Contents(p)' = IF p = q THEN Without(Contents(q), i) ELSE Contents(p)
  BY <1>1, <1>2, <1>5, <1>6, ContentsAfter
<1>8. Interface!With(q, SubSeq(Contents(q), 1, i - 1) \o SubSeq(Contents(q), i + 1, Len(Contents(q))))
  BY <1>2, <1>5, <1>7, OneContents
<1>9. [p \in open |-> Contents(p)][q] = Contents(q)
  OBVIOUS
<1> QED
  BY <1>2, <1>4, <1>5, <1>8, <1>9 DEF Interface!Remove

\* qconcat is Concat of the interface.
LEMMA ConcatRefines ==
  ASSUME QueueInv, NEW q1 \in open, NEW q2 \in open \ {q1}, QConcat(q1, q2)
  PROVE  Interface!Concat(q1, q2)
<1>1. /\ HeapType'
      /\ \E M : /\ M = [p \in open \ {q2} |-> IF p = q1 THEN Chain(q1) \o Chain(q2) ELSE Chain(p)]
               /\ Listing(M)'
  BY ConcatLists
<1>2. open' = open \ {q2} /\ ret' = <<NULL>> /\ q1 \notin {q2} /\ data' = data
  BY DEF QConcat
<1>3. /\ Chain(q1) \in Seq(Nodes) /\ Chain(q2) \in Seq(Nodes)
      /\ \A k \in InQueue(Chain(q1)) \cup InQueue(Chain(q2)) : data[k] \in Elements
  BY ListOf
<1>4. DataOf(Chain(q1) \o Chain(q2), data') = Contents(q1) \o Contents(q2)
  <2>1. DataOf(Chain(q1) \o Chain(q2), data) = DataOf(Chain(q1), data) \o DataOf(Chain(q2), data)
    BY <1>3, DataConcat
  <2> QED
    BY <1>2, <2>1, ContentsOf
<1>5. PICK t : t = Chain(q1) \o Chain(q2)
  OBVIOUS
<1>6. \A p \in open' : Contents(p)' = IF p = q1 THEN Contents(q1) \o Contents(q2) ELSE Contents(p)
  BY <1>1, <1>2, <1>4, <1>5, ContentsAfter, ZenonT(30)
<1>7. [p \in open' |-> Contents(p)']
        = [p \in open \ {q2} |-> IF p = q1 THEN Contents(q1) \o Contents(q2)
                                 ELSE [r \in open |-> Contents(r)][p]]
  BY <1>2, <1>6
<1>8. /\ [p \in open |-> Contents(p)][q1] = Contents(q1)
      /\ [p \in open |-> Contents(p)][q2] = Contents(q2)
  OBVIOUS
<1> QED
  BY <1>2, <1>7, <1>8 DEF Interface!Concat, Interface!Open

\* queue.c implements the interface of queue.h: whatever calls are made, the lists
\* behave as sequences, and every call returns what it would of those.
THEOREM QueuesAreSequences == Spec => ImplementsFifo
<1>1. Init => Interface!Init
  BY DEF Init, Interface!Init
<1>2. QueueInv /\ [Next]_vars => [Interface!Next]_(Interface!vars)
  <2> SUFFICES ASSUME QueueInv, [Next]_vars PROVE [Interface!Next]_(Interface!vars)
    OBVIOUS
  <2>1. Interface!Open = open
    BY DEF Interface!Open
  <2>2. CASE Reads
    BY <2>2, ReadsRefine
  <2>3. CASE \E q \in Queues : QOpen(q)
    BY <2>3, OpenRefines DEF Interface!Next
  <2>4. ASSUME NEW q \in open, QClose(q) \/ QConcatNull(q) PROVE Interface!Next
    BY <2>1, <2>4, CloseRefines DEF Interface!Next
  <2>5. ASSUME NEW q \in open, QGet(q), start[q] # NULL PROVE Interface!Next
    BY <2>1, <2>5, GetRefines DEF Interface!Next
  <2>6. ASSUME NEW q \in open, NEW e \in Elements, QPut(q, e) PROVE Interface!Next
    BY <2>1, <2>6, PutRefines DEF Interface!Next
  <2>7. ASSUME NEW q \in open, NEW Found \in SUBSET Elements, QRemove(q, Found), Matches(q, Found) # {}
        PROVE  Interface!Next
    BY <2>1, <2>7, RemoveRefines DEF Interface!Next
  <2>8. ASSUME NEW q \in open, NEW q2 \in open \ {q}, QConcat(q, q2) PROVE Interface!Next
    BY <2>1, <2>8, ConcatRefines DEF Interface!Next
  <2>9. CASE UNCHANGED vars
    <3>1. HeapType' /\ \E M : M = [p \in open \ {} |-> Chain(p)] /\ Listing(M)'
      BY <2>9, SameLists DEF vars
    <3>2. PICK M : M = [p \in open \ {} |-> Chain(p)] /\ Listing(M)'
      BY <3>1
    <3>3. open' = open /\ data' = data /\ ret' = ret
      BY <2>9 DEF vars, queues, heap
    <3>4. \A p \in open' : Contents(p)' = DataOf(M[p], data')
      BY <3>1, <3>2, ListingAfter DEF DataOf
    <3>5. \A p \in open' : Contents(p)' = Contents(p)
      BY <3>2, <3>3, <3>4, ContentsOf
    <3>6. [p \in open' |-> Contents(p)'] = [p \in open |-> Contents(p)]
      BY <3>3, <3>5
    <3> QED
      BY <3>3, <3>6 DEF Interface!vars
  <2> QED
    BY <2>2, <2>3, <2>4, <2>5, <2>6, <2>7, <2>8, <2>9, Steps
<1> QED
  BY <1>1, <1>2, QueueInvariant, PTL DEF Spec, ImplementsFifo, Interface!Spec

-----------------------------------------------------------------------------
(***************************************************************************)
(* The locked queue, for any number of threads and calls: the mutex makes  *)
(* the broken-up operations of queue.c atomic, so that no element is lost  *)
(* or overtaken, no thread follows a dangling pointer, and a traversal     *)
(* sees the queue as it was at one moment.                                 *)
(***************************************************************************)
Labels == {"idle", "put", "link", "last", "get", "unlink", "apply", "search",
           "applying", "searching", "unlock"}

\* The types of the variables.
LTypeInv ==
  /\ HeapType /\ open \subseteq {lq} /\ orphaned = {}
  /\ m \in Threads \cup {NoThread}
  /\ pc \in [Threads -> Labels]
  /\ node \in [Threads -> Nodes \cup {NULL}]
  /\ item \in [Threads -> Elements \cup {NULL}]
  /\ seen \in [Threads -> Seq(Elements)]
  /\ puts \in Seq(Elements) /\ gets \in Seq(Elements)

\* Whoever is inside a call holds the mutex, and nobody else does.
MutexInv == \A t \in Threads : pc[t] # "idle" <=> m = t

\* The end of the list: the field end, but for the moment in qput between the two
\* writes that link the new node.
LastNode == IF m \in Threads /\ pc[m] = "last" THEN node[m] ELSE end[lq]

\* The nodes that are filled in and not linked yet.
Unlinked == {node[t] : t \in {u \in Threads : pc[u] = "link"}}

\* The pointers form a list of all other allocated nodes.
ShapeInv ==
  lq \in open =>
    /\ Linked(Chain(lq), start[lq], LastNode, next)
    /\ InQueue(Chain(lq)) = allocated \ Unlinked
    /\ \A n \in InQueue(Chain(lq)) : data[n] \in Elements

\* What a thread inside a call has in its hands.
Holding(t) ==
  /\ pc[t] \in {"put", "link", "last"} => item[t] \in Elements
  /\ pc[t] = "link" =>
       node[t] \in allocated /\ next[node[t]] = NULL /\ data[node[t]] = item[t]
  /\ pc[t] = "last" => Chain(lq) # <<>> /\ data[node[t]] = item[t]
  /\ pc[t] = "unlink" =>
       Chain(lq) # <<>> /\ node[t] = start[lq] /\ item[t] = data[node[t]]
  /\ pc[t] \in {"apply", "search", "put", "get", "link", "last", "unlink"} => seen[t] = <<>>
  /\ pc[t] \in {"applying", "searching"} =>
       \E n \in 0..Len(Chain(lq)) :
         /\ seen[t] = SubSeq(Contents(lq), 1, n)
         /\ node[t] = IF n < Len(Chain(lq)) THEN Chain(lq)[n + 1] ELSE NULL
  /\ pc[t] = "unlock" => \E n \in 0..Len(Chain(lq)) : seen[t] = SubSeq(Contents(lq), 1, n)

\* What was put, in its order, is what was taken and what the queue holds; at
\* "last" the new element is in the queue and not yet counted as put.
OrderInv ==
  lq \in open =>
    gets \o Contents(lq) = IF m \in Threads /\ pc[m] = "last" THEN Append(puts, item[m]) ELSE puts

\* Once the queue is closed, nothing is left.
ClosedInv == lq \notin open => allocated = {} /\ \A t \in Threads : pc[t] = "idle"

LQueueInv ==
  /\ LTypeInv /\ MutexInv /\ ShapeInv /\ OrderInv /\ ClosedInv
  /\ \A t \in Threads : Holding(t)

-----------------------------------------------------------------------------
(***************************************************************************)
(* The one queue, its holder and its list.                                 *)
(***************************************************************************)
LEMMA OneQueue == lq \in Queues
BY LQueueAssumption DEF lq

\* Who is inside a call holds the mutex alone; the node it is about to link is the
\* only one that is not in the list.
HolderFact ==
  /\ MutexInv => \A t \in Threads : pc[t] # "idle" =>
       /\ m = t /\ \A u \in Threads \ {t} : pc[u] = "idle"
       /\ LastNode = IF pc[t] = "last" THEN node[t] ELSE end[lq]
       /\ Unlinked = IF pc[t] = "link" THEN {node[t]} ELSE {}
  /\ MutexInv /\ m \notin Threads =>
       LastNode = end[lq] /\ Unlinked = {} /\ \A u \in Threads : pc[u] = "idle"

\* The mutex says who is inside, and so what is in hand.
LEMMA Holder == HolderFact
<1>1. ASSUME MutexInv, NEW t \in Threads, pc[t] # "idle"
      PROVE  /\ m = t /\ \A u \in Threads \ {t} : pc[u] = "idle"
             /\ LastNode = IF pc[t] = "last" THEN node[t] ELSE end[lq]
             /\ Unlinked = IF pc[t] = "link" THEN {node[t]} ELSE {}
  <2>1. m = t /\ \A u \in Threads \ {t} : pc[u] = "idle"
    BY <1>1 DEF MutexInv
  <2>2. {u \in Threads : pc[u] = "link"} = IF pc[t] = "link" THEN {t} ELSE {}
    BY <2>1
  <2> QED
    BY <2>1, <2>2 DEF LastNode, Unlinked
<1>2. ASSUME MutexInv, m \notin Threads
      PROVE  LastNode = end[lq] /\ Unlinked = {} /\ \A u \in Threads : pc[u] = "idle"
  <2>1. \A u \in Threads : pc[u] = "idle"
    BY <1>2 DEF MutexInv
  <2> QED
    BY <1>2, <2>1 DEF LastNode, Unlinked
<1> QED
  BY <1>1, <1>2 DEF HolderFact

\* The same after a step.
LEMMA HolderAfter ==
  ASSUME MutexInv'
  PROVE  /\ \A t \in Threads : pc'[t] # "idle" =>
              /\ m' = t /\ \A u \in Threads \ {t} : pc'[u] = "idle"
              /\ LastNode' = IF pc'[t] = "last" THEN node'[t] ELSE end'[lq]
              /\ Unlinked' = IF pc'[t] = "link" THEN {node'[t]} ELSE {}
         /\ m' \notin Threads =>
              LastNode' = end'[lq] /\ Unlinked' = {} /\ \A u \in Threads : pc'[u] = "idle"
<1>1. HolderFact'
  BY Holder, PTL
<1> QED
  BY <1>1 DEF HolderFact

\* What Chain and Contents compute after a step that leaves a list.
ListFact ==
  HeapType => \A q \in Queues : \A s, last : Linked(s, start[q], last, next) =>
    Chain(q) = s /\ Length(q) = Len(s) /\ Contents(q) = DataOf(s, data)

\* Walk follows the list.
LEMMA ListIsChain == ListFact
BY ChainOfList DEF ListFact, DataOf

\* The same after a step.
LEMMA ChainAfter ==
  ASSUME HeapType', NEW s, NEW last, Linked(s, start'[lq], last, next')
  PROVE  Chain(lq)' = s /\ Contents(lq)' = DataOf(s, data')
<1>1. ListFact'
  BY ListIsChain, PTL
<1> QED
  BY <1>1, OneQueue DEF ListFact

\* The list of the queue while it is open.
LEMMA TheList ==
  ASSUME LQueueInv, lq \in open
  PROVE  /\ Linked(Chain(lq), start[lq], LastNode, next)
         /\ Chain(lq) \in Seq(Nodes) /\ DOMAIN Chain(lq) = 1..Len(Chain(lq)) /\ Len(Chain(lq)) \in Nat
         /\ Contents(lq) = DataOf(Chain(lq), data) /\ Contents(lq) \in Seq(Elements)
         /\ Length(lq) = Len(Chain(lq)) /\ Len(Contents(lq)) = Len(Chain(lq))
         /\ \A i \in DOMAIN Chain(lq) : Contents(lq)[i] = data[Chain(lq)[i]]
         /\ \A n \in InQueue(Chain(lq)) : data[n] \in Elements
         /\ InQueue(Chain(lq)) = allocated \ Unlinked
         /\ start[lq] = NULL <=> Chain(lq) = <<>>
<1>1. /\ Linked(Chain(lq), start[lq], LastNode, next)
      /\ InQueue(Chain(lq)) = allocated \ Unlinked
      /\ \A n \in InQueue(Chain(lq)) : data[n] \in Elements
  BY DEF LQueueInv, ShapeInv
<1>2. /\ Chain(lq) \in Seq(Nodes) /\ DOMAIN Chain(lq) = 1..Len(Chain(lq)) /\ Len(Chain(lq)) \in Nat
      /\ start[lq] = NULL <=> Chain(lq) = <<>>
  <2>1. start[lq] = NULL <=> Chain(lq) = <<>>
    BY <1>1, LinkedEnds
  <2>2. Chain(lq) \in Seq(Nodes)
    BY <1>1 DEF Linked
  <2> QED
    BY <2>1, <2>2
<1>3. Contents(lq) = DataOf(Chain(lq), data) /\ Length(lq) = Len(Chain(lq))
  <2>1. HeapType
    BY DEF LQueueInv, LTypeInv
  <2> QED
    BY <1>1, <2>1, OneQueue, ListIsChain DEF ListFact
<1>4. /\ Contents(lq) \in Seq(Elements) /\ Len(Contents(lq)) = Len(Chain(lq))
      /\ \A i \in DOMAIN Chain(lq) : Contents(lq)[i] = data[Chain(lq)[i]]
  BY <1>1, <1>2, <1>3, DataType
<1> QED
  BY <1>1, <1>2, <1>3, <1>4

\* The list stays as long as its nodes do.
LEMMA ListStays ==
  ASSUME LQueueInv, lq \in open, HeapType', start'[lq] = start[lq],
         \A n \in InQueue(Chain(lq)) : next'[n] = next[n] /\ data'[n] = data[n]
  PROVE  /\ Linked(Chain(lq), start'[lq], LastNode, next')
         /\ Chain(lq)' = Chain(lq) /\ Contents(lq)' = Contents(lq)
<1>1. Linked(Chain(lq), start'[lq], LastNode, next')
  BY TheList, LinkedFrame
<1>2. Chain(lq)' = Chain(lq) /\ Contents(lq)' = DataOf(Chain(lq), data')
  BY <1>1, ChainAfter
<1>3. DataOf(Chain(lq), data') = DataOf(Chain(lq), data)
  BY TheList, DataFrame
<1> QED
  BY <1>1, <1>2, <1>3, TheList

\* What is known of a thread inside a call.
LEMMA Inside ==
  ASSUME LQueueInv, NEW t \in Threads, pc[t] # "idle"
  PROVE  /\ m = t /\ lq \in open /\ open \subseteq {lq} /\ Holding(t)
         /\ \A u \in Threads \ {t} : pc[u] = "idle"
         /\ LastNode = IF pc[t] = "last" THEN node[t] ELSE end[lq]
         /\ Unlinked = IF pc[t] = "link" THEN {node[t]} ELSE {}
<1>1. lq \in open
  BY DEF LQueueInv, ClosedInv
<1> QED
  BY <1>1, Holder DEF HolderFact, LQueueInv, LTypeInv

\* A step inside a call changes nobody else: what is left to show.
LEMMA StepInside ==
  ASSUME LQueueInv, NEW t \in Threads, pc[t] # "idle", NEW l \in Labels \ {"idle"},
         pc' = [pc EXCEPT ![t] = l], m' = m, open' = open
  PROVE  /\ MutexInv' /\ ClosedInv'
         /\ LastNode' = IF l = "last" THEN node'[t] ELSE end'[lq]
         /\ Unlinked' = IF l = "link" THEN {node'[t]} ELSE {}
         /\ pc'[t] = l /\ \A u \in Threads \ {t} : Holding(u)'
         /\ m' = t /\ m' \in Threads /\ pc' \in [Threads -> Labels]
<1>1. /\ pc \in [Threads -> Labels] /\ lq \in open /\ m = t
      /\ \A u \in Threads \ {t} : pc[u] = "idle"
  BY Inside DEF LQueueInv, LTypeInv
<1>2. pc'[t] = l /\ l # "idle" /\ pc' \in [Threads -> Labels] /\ \A u \in Threads \ {t} : pc'[u] = "idle"
  BY <1>1
<1>3. MutexInv'
  BY <1>1, <1>2 DEF MutexInv
<1>4. ClosedInv'
  BY <1>1 DEF ClosedInv
<1>5. \A u \in Threads \ {t} : Holding(u)'
  BY <1>2 DEF Holding
<1> QED
  BY <1>1, <1>2, <1>3, <1>4, <1>5, HolderAfter

-----------------------------------------------------------------------------
(***************************************************************************)
(* Every step keeps the invariant.                                         *)
(***************************************************************************)
LEMMA LInitInv == LInit => LQueueInv
<1> SUFFICES ASSUME LInit PROVE LQueueInv
  OBVIOUS
<1>1. LTypeInv
  BY OneQueue DEF LInit, LTypeInv, HeapType, Labels
<1>2. MutexInv
  BY LQueueAssumption DEF LInit, MutexInv
<1>3. /\ LastNode = NULL /\ Unlinked = {} /\ ~(m \in Threads /\ pc[m] = "last")
      /\ start[lq] = NULL /\ allocated = {}
  <2>1. LastNode = end[lq] /\ Unlinked = {}
    BY <1>2, Holder, LQueueAssumption DEF HolderFact, LInit
  <2> QED
    BY <2>1, OneQueue, LQueueAssumption DEF LInit
<1>4. Linked(<<>>, start[lq], LastNode, next) /\ InQueue(<<>>) = {} /\ DataOf(<<>>, data) = <<>>
  BY <1>3 DEF Linked, InQueue, DataOf
<1>5. Chain(lq) = <<>> /\ Contents(lq) = <<>>
  <2>1. HeapType
    BY <1>1 DEF LTypeInv
  <2> QED
    BY <1>4, <2>1, ListIsChain, OneQueue DEF ListFact
<1>6. ShapeInv
  BY <1>3, <1>4, <1>5 DEF ShapeInv
<1>7. OrderInv
  BY <1>3, <1>5 DEF OrderInv, LInit
<1>8. ClosedInv /\ \A t \in Threads : Holding(t)
  BY DEF LInit, ClosedInv, Holding
<1> QED
  BY <1>1, <1>2, <1>6, <1>7, <1>8 DEF LQueueInv

\* Steps that leave the queue and the heap as they are.
LEMMA QuietStep ==
  ASSUME LQueueInv, NEW t \in Threads, pc[t] \notin {"idle", "link", "last"},
         NEW l \in Labels \ {"idle", "link", "last"}, pc' = [pc EXCEPT ![t] = l],
         UNCHANGED <<vars, m, puts, gets>>,
         node' \in [Threads -> Nodes \cup {NULL}], item' \in [Threads -> Elements \cup {NULL}],
         seen' \in [Threads -> Seq(Elements)],
         Chain(lq)' = Chain(lq) /\ Contents(lq)' = Contents(lq) => Holding(t)'
  PROVE  LQueueInv'
<1>1. /\ open' = open /\ start' = start /\ end' = end /\ next' = next /\ data' = data
      /\ allocated' = allocated /\ orphaned' = orphaned /\ m' = m /\ puts' = puts /\ gets' = gets
  BY DEF vars, queues, heap
<1>2. HeapType'
  BY <1>1 DEF LQueueInv, LTypeInv, HeapType
<1>3. /\ MutexInv' /\ ClosedInv' /\ LastNode' = end'[lq] /\ Unlinked' = {}
      /\ pc'[t] = l /\ \A u \in Threads \ {t} : Holding(u)'
      /\ m' = t /\ m' \in Threads /\ pc' \in [Threads -> Labels]
  BY <1>1, StepInside
<1>4. lq \in open /\ LastNode = end[lq] /\ Unlinked = {} /\ m = t
  BY Inside
<1>5. /\ Linked(Chain(lq), start'[lq], LastNode, next')
      /\ Chain(lq)' = Chain(lq) /\ Contents(lq)' = Contents(lq)
  BY <1>1, <1>2, <1>4, ListStays
<1>6. LTypeInv'
  BY <1>1, <1>2, <1>3 DEF LQueueInv, LTypeInv
<1>7. ShapeInv'
  BY <1>1, <1>3, <1>4, <1>5, TheList DEF ShapeInv
<1>8. OrderInv'
  BY <1>1, <1>3, <1>4, <1>5 DEF LQueueInv, OrderInv
<1> QED
  BY <1>3, <1>5, <1>6, <1>7, <1>8 DEF LQueueInv

\* The thread variables have their types, and what is in the list too.
LEMMA ThreadTypes ==
  ASSUME LQueueInv, NEW t \in Threads, pc[t] # "idle"
  PROVE  /\ pc \in [Threads -> Labels] /\ node \in [Threads -> Nodes \cup {NULL}]
         /\ item \in [Threads -> Elements \cup {NULL}] /\ seen \in [Threads -> Seq(Elements)]
         /\ start[lq] \in Nodes \cup {NULL} /\ HeapType /\ NULL \notin Nodes
         /\ Chain(lq) # <<>> => start[lq] = Chain(lq)[1] /\ start[lq] \in InQueue(Chain(lq))
<1>1. /\ pc \in [Threads -> Labels] /\ node \in [Threads -> Nodes \cup {NULL}]
      /\ item \in [Threads -> Elements \cup {NULL}] /\ seen \in [Threads -> Seq(Elements)] /\ HeapType
  BY DEF LQueueInv, LTypeInv
<1>2. start[lq] \in Nodes \cup {NULL} /\ NULL \notin Nodes
  BY <1>1, OneQueue, QueueAssumption DEF HeapType
<1>3. Linked(Chain(lq), start[lq], LastNode, next)
  BY Inside, TheList
<1>4. Chain(lq) # <<>> => start[lq] \in InQueue(Chain(lq))
  BY <1>3, LinkedEnds
<1>5. Chain(lq) # <<>> => start[lq] = Chain(lq)[1]
  BY <1>3 DEF Linked
<1> QED
  BY <1>1, <1>2, <1>4, <1>5

\* Nothing has been looked at yet.
LEMMA NothingSeen ==
  ASSUME NEW S, NEW c \in Seq(S), NEW k \in Nat
  PROVE  0 \in 0..k /\ SubSeq(c, 1, 0) = <<>>
OBVIOUS

\* Taking the head over from one sequence to the end of the other, and appending.
LEMMA ConcatPut ==
  ASSUME NEW S, NEW g \in Seq(S), NEW c \in Seq(S), NEW e \in S
  PROVE  g \o Append(c, e) = Append(g \o c, e)
<1>1. Append(c, e) = c \o <<e>> /\ <<e>> \in Seq(S) /\ g \o c \in Seq(S)
  BY AppendIsConcat, ConcatProperties
<1>2. Append(g \o c, e) = (g \o c) \o <<e>>
  BY <1>1, AppendIsConcat
<1> QED
  BY <1>1, <1>2, ConcatAssociative

\* Moving the head of one sequence to the end of another leaves their concatenation.
LEMMA ConcatGet ==
  ASSUME NEW S, NEW g \in Seq(S), NEW c \in Seq(S), c # <<>>
  PROVE  Append(g, Head(c)) \o Tail(c) = g \o c
<1>1. Head(c) \in S /\ Tail(c) \in Seq(S) /\ c = <<Head(c)>> \o Tail(c)
  OBVIOUS
<1>2. Append(g, Head(c)) = g \o <<Head(c)>> /\ <<Head(c)>> \in Seq(S)
  BY <1>1, AppendIsConcat
<1> QED
  BY <1>1, <1>2, ConcatAssociative

\* qget reads the first node, or finds none.
LEMMA GetReadInv ==
  ASSUME LQueueInv, NEW t \in Threads, GetRead(t)
  PROVE  LQueueInv'
<1> DEFINE l == IF start[lq] = NULL THEN "unlock" ELSE "unlink"
<1>1. /\ pc[t] = "get" /\ pc' = [pc EXCEPT ![t] = l] /\ l \in Labels \ {"idle", "link", "last"}
      /\ node' = [node EXCEPT ![t] = start[lq]]
      /\ item' = [item EXCEPT ![t] = IF start[lq] = NULL THEN NULL ELSE data[start[lq]]]
      /\ UNCHANGED <<vars, m, puts, gets>> /\ seen' = seen /\ data' = data /\ start' = start
  BY DEF GetRead, Goto, Labels, vars, queues, heap
<1>2. /\ Holding(t) /\ lq \in open
  BY <1>1, Inside
<1>3. node'[t] = start[lq] /\ pc'[t] = l /\ seen'[t] = <<>>
  BY <1>1, <1>2, ThreadTypes DEF Holding
<1>4. /\ node' \in [Threads -> Nodes \cup {NULL}] /\ item' \in [Threads -> Elements \cup {NULL}]
      /\ start[lq] # NULL => item'[t] = data[node'[t]]
  BY <1>1, ThreadTypes DEF HeapType
<1>5. ASSUME Chain(lq)' = Chain(lq), Contents(lq)' = Contents(lq) PROVE Holding(t)'
  <2>1. start[lq] = NULL <=> Chain(lq) = <<>>
    BY <1>2, TheList
  <2>2. 0 \in 0..Len(Chain(lq)) /\ SubSeq(Contents(lq), 1, 0) = <<>>
    BY <1>2, TheList, NothingSeen
  <2> QED
    BY <1>1, <1>3, <1>4, <1>5, <2>1, <2>2 DEF Holding
<1> HIDE DEF l
<1>6. seen' \in [Threads -> Seq(Elements)]
  BY <1>1, ThreadTypes
<1> QED
  BY <1>1, <1>4, <1>5, <1>6, QuietStep

\* A traversal begins with nothing seen.
LEMMA WalkFirstInv ==
  ASSUME LQueueInv, NEW t \in Threads, WalkFirst(t)
  PROVE  LQueueInv'
<1> DEFINE l == IF pc[t] = "apply" THEN "applying" ELSE "searching"
<1>1. /\ pc[t] \in {"apply", "search"} /\ pc' = [pc EXCEPT ![t] = l]
      /\ l \in Labels \ {"idle", "link", "last"} /\ l \in {"applying", "searching"}
      /\ node' = [node EXCEPT ![t] = start[lq]]
      /\ UNCHANGED <<vars, m, puts, gets>> /\ seen' = seen /\ item' = item
  BY DEF WalkFirst, Goto, Labels
<1> HIDE DEF l
<1>2. Holding(t) /\ lq \in open
  BY <1>1, Inside
<1>3. /\ node'[t] = start[lq] /\ pc'[t] = l /\ seen'[t] = <<>>
      /\ node' \in [Threads -> Nodes \cup {NULL}] /\ item' \in [Threads -> Elements \cup {NULL}]
      /\ seen' \in [Threads -> Seq(Elements)]
  BY <1>1, <1>2, ThreadTypes DEF Holding
<1>4. ASSUME Chain(lq)' = Chain(lq), Contents(lq)' = Contents(lq) PROVE Holding(t)'
  <2>1. 0 \in 0..Len(Chain(lq)) /\ SubSeq(Contents(lq), 1, 0) = <<>>
    BY <1>2, TheList, NothingSeen
  <2>2. start[lq] = IF 0 < Len(Chain(lq)) THEN Chain(lq)[0 + 1] ELSE NULL
    BY <1>1, <1>2, TheList, ThreadTypes, EmptyQueue
  <2> QED
    BY <1>1, <1>3, <1>4, <2>1, <2>2 DEF Holding
<1> QED
  BY <1>1, <1>3, <1>4, QuietStep

\* A traversal goes from an element that was seen to the next one.
LEMMA WalkNextInv ==
  ASSUME LQueueInv, NEW t \in Threads, WalkNext(t)
  PROVE  LQueueInv'
<1> DEFINE s == Chain(lq)
           c == Contents(lq)
<1>1. PICK l : l = IF pc[t] = "searching" /\ data[node[t]] = item[t] THEN "unlock" ELSE pc[t]
  OBVIOUS
<1>2. /\ pc[t] \in {"applying", "searching"} /\ node[t] # NULL
      /\ seen' = [seen EXCEPT ![t] = Append(seen[t], data[node[t]])]
      /\ l # "unlock" => node' = [node EXCEPT ![t] = next[node[t]]]
      /\ l = "unlock" => node' = node
      /\ UNCHANGED <<vars, m, puts, gets>> /\ item' = item
  BY <1>1 DEF WalkNext, LQueueInv, LTypeInv
<1>3. pc' = [pc EXCEPT ![t] = l] /\ l \in {"applying", "searching", "unlock"}
  BY <1>1, <1>2 DEF WalkNext, Goto, LQueueInv, LTypeInv
<1>4. Holding(t) /\ lq \in open /\ LastNode = end[lq]
  BY <1>2, Inside
<1>5. PICK n \in 0..Len(s) : seen[t] = SubSeq(c, 1, n) /\ node[t] = IF n < Len(s) THEN s[n + 1] ELSE NULL
  BY <1>2, <1>4 DEF Holding
<1>6. /\ Linked(s, start[lq], end[lq], next) /\ s \in Seq(Nodes) /\ DOMAIN s = 1..Len(s) /\ Len(s) \in Nat
      /\ c \in Seq(Elements) /\ Len(c) = Len(s) /\ \A i \in DOMAIN s : c[i] = data[s[i]]
  BY <1>4, TheList
<1> HIDE DEF s, c
<1>7. n + 1 \in DOMAIN s /\ n < Len(s) /\ node[t] = s[n + 1] /\ data[node[t]] = c[n + 1] /\ c[n + 1] \in Elements
  BY <1>2, <1>5, <1>6
<1>8. Append(SubSeq(c, 1, n), c[n + 1]) = SubSeq(c, 1, n + 1)
  <2>1. n \in Nat /\ n + 1 <= Len(c)
    BY <1>5, <1>6, <1>7
  <2> QED
    BY <1>6, <2>1
<1>9. next[node[t]] = IF n + 1 < Len(s) THEN s[(n + 1) + 1] ELSE NULL
  <2>1. CASE n + 1 < Len(s)
    BY <1>6, <1>7, <2>1 DEF Linked
  <2>2. CASE ~(n + 1 < Len(s))
    <3>1. n + 1 = Len(s) /\ s # <<>>
      <4>1. n \in Nat /\ Len(s) \in Nat /\ n < Len(s)
        BY <1>5, <1>6, <1>7
      <4>2. n + 1 = Len(s) /\ Len(s) # 0
        BY <2>2, <4>1
      <4> QED
        BY <1>6, <4>2, EmptyQueue
    <3>2. next[s[Len(s)]] = NULL
      BY <1>6, <3>1 DEF Linked
    <3> QED
      BY <1>7, <2>2, <3>1, <3>2
  <2> QED
    BY <2>1, <2>2
<1>10. /\ seen'[t] = SubSeq(c, 1, n + 1) /\ pc'[t] = l /\ (l # "unlock" => node'[t] = next[node[t]])
  BY <1>2, <1>3, <1>5, <1>7, <1>8, ThreadTypes
<1>11. /\ node' \in [Threads -> Nodes \cup {NULL}] /\ item' \in [Threads -> Elements \cup {NULL}]
       /\ seen' \in [Threads -> Seq(Elements)]
  <2>1. Append(seen[t], data[node[t]]) \in Seq(Elements) /\ next[node[t]] \in Nodes \cup {NULL}
    BY <1>2, <1>7, ThreadTypes DEF HeapType
  <2> QED
    BY <1>2, <2>1, ThreadTypes
<1>12. ASSUME Chain(lq)' = s, Contents(lq)' = c PROVE Holding(t)'
  <2>1. n + 1 \in 0..Len(s)
    BY <1>5, <1>7
  <2> QED
    BY <1>3, <1>9, <1>10, <1>12, <2>1 DEF Holding
<1> QED
  BY <1>2, <1>3, <1>11, <1>12, QuietStep DEF s, c, Labels

\* A traversal ends.
LEMMA WalkEndInv ==
  ASSUME LQueueInv, NEW t \in Threads, WalkEnd(t)
  PROVE  LQueueInv'
<1>1. /\ pc[t] \in {"applying", "searching"} /\ pc' = [pc EXCEPT ![t] = "unlock"]
      /\ item' = [item EXCEPT ![t] = NULL] /\ node' = node /\ seen' = seen
      /\ UNCHANGED <<vars, m, puts, gets>> /\ "unlock" \in Labels \ {"idle", "link", "last"}
  BY DEF WalkEnd, Goto, Labels
<1>2. Holding(t) /\ pc'[t] = "unlock"
  BY <1>1, Inside, ThreadTypes
<1>3. /\ node' \in [Threads -> Nodes \cup {NULL}] /\ item' \in [Threads -> Elements \cup {NULL}]
      /\ seen' \in [Threads -> Seq(Elements)]
  BY <1>1, ThreadTypes
<1>4. ASSUME Chain(lq)' = Chain(lq), Contents(lq)' = Contents(lq) PROVE Holding(t)'
  BY <1>1, <1>2, <1>4 DEF Holding
<1> QED
  BY <1>1, <1>3, <1>4, QuietStep

\* A call takes the mutex when nobody holds it.
LEMMA CallInv ==
  ASSUME LQueueInv, NEW t \in Threads, NEW op \in {"put", "search", "get", "apply"},
         NEW e \in Elements \cup {NULL}, op = "put" => e \in Elements, Call(t, op, e)
  PROVE  LQueueInv'
<1>1. /\ pc[t] = "idle" /\ lq \in open /\ m = NoThread /\ m' = t /\ m \notin Threads
      /\ pc' = [pc EXCEPT ![t] = op] /\ item' = [item EXCEPT ![t] = e]
      /\ seen' = [seen EXCEPT ![t] = <<>>] /\ node' = node /\ puts' = puts /\ gets' = gets
      /\ open' = open /\ start' = start /\ end' = end /\ next' = next /\ data' = data
      /\ allocated' = allocated /\ orphaned' = orphaned
  BY LQueueAssumption DEF Call, Goto, vars, queues, heap
<1>2. LTypeInv
  BY DEF LQueueInv
<1>3. \A u \in Threads : pc[u] = "idle"
  BY <1>1, Holder DEF HolderFact, LQueueInv
<1>4. pc'[t] = op /\ item'[t] = e /\ seen'[t] = <<>> /\ \A u \in Threads \ {t} : pc'[u] = "idle"
  BY <1>1, <1>2, <1>3 DEF LTypeInv
<1>5. HeapType' /\ LTypeInv'
  BY <1>1, <1>2, <1>4 DEF LTypeInv, HeapType, Labels
<1>6. MutexInv'
  BY <1>1, <1>4 DEF MutexInv
<1>7. LastNode' = end'[lq] /\ Unlinked' = {} /\ LastNode = end[lq] /\ Unlinked = {}
  <2>1. LastNode = end[lq] /\ Unlinked = {}
    BY <1>1, Holder DEF HolderFact, LQueueInv
  <2> QED
    BY <1>4, <1>6, <2>1, HolderAfter
<1>8. /\ Linked(Chain(lq), start'[lq], LastNode, next')
      /\ Chain(lq)' = Chain(lq) /\ Contents(lq)' = Contents(lq)
  BY <1>1, <1>5, ListStays
<1>9. ShapeInv'
  BY <1>1, <1>7, <1>8, TheList DEF ShapeInv
<1>10. OrderInv'
  BY <1>1, <1>4, <1>8 DEF LQueueInv, OrderInv
<1>11. ClosedInv'
  BY <1>1 DEF ClosedInv
<1>12. \A u \in Threads : Holding(u)'
  BY <1>4 DEF Holding
<1> QED
  BY <1>5, <1>6, <1>9, <1>10, <1>11, <1>12 DEF LQueueInv

\* The end of a call gives the mutex back.
LEMMA UnlockInv ==
  ASSUME LQueueInv, NEW t \in Threads, Unlock(t)
  PROVE  LQueueInv'
<1>1. /\ pc[t] = "unlock" /\ m' = NoThread /\ m' \notin Threads
      /\ pc' = [pc EXCEPT ![t] = "idle"] /\ item' = item
      /\ seen' = seen /\ node' = node /\ puts' = puts /\ gets' = gets
      /\ open' = open /\ start' = start /\ end' = end /\ next' = next /\ data' = data
      /\ allocated' = allocated /\ orphaned' = orphaned
  BY LQueueAssumption DEF Unlock, Goto, vars, queues, heap
<1>2. LTypeInv
  BY DEF LQueueInv
<1>3. /\ \A u \in Threads \ {t} : pc[u] = "idle"
      /\ lq \in open /\ LastNode = end[lq] /\ Unlinked = {} /\ m = t
  BY <1>1, Inside
<1>4. \A u \in Threads : pc'[u] = "idle"
  BY <1>1, <1>2, <1>3 DEF LTypeInv
<1>5. HeapType' /\ LTypeInv'
  BY <1>1, <1>2 DEF LTypeInv, HeapType, Labels
<1>6. MutexInv'
  BY <1>1, <1>4 DEF MutexInv
<1>7. LastNode' = end'[lq] /\ Unlinked' = {}
  BY <1>1, <1>6, HolderAfter
<1>8. /\ Linked(Chain(lq), start'[lq], LastNode, next')
      /\ Chain(lq)' = Chain(lq) /\ Contents(lq)' = Contents(lq)
  BY <1>1, <1>3, <1>5, ListStays
<1>9. ShapeInv'
  BY <1>1, <1>3, <1>7, <1>8, TheList DEF ShapeInv
<1>10. OrderInv'
  BY <1>1, <1>3, <1>8 DEF LQueueInv, OrderInv
<1>11. ClosedInv' /\ \A u \in Threads : Holding(u)'
  BY <1>1, <1>3, <1>4 DEF ClosedInv, Holding
<1> QED
  BY <1>5, <1>6, <1>9, <1>10, <1>11 DEF LQueueInv

\* qput has filled in a node, or malloc has failed.
LEMMA PutNodeInv ==
  ASSUME LQueueInv, NEW t \in Threads, PutNode(t)
  PROVE  LQueueInv'
<1>1. CASE pc' = [pc EXCEPT ![t] = "unlock"] /\ UNCHANGED <<heap, node>>
  <2>1. /\ pc[t] = "put" /\ "unlock" \in Labels \ {"idle", "link", "last"}
        /\ node' = node /\ item' = item /\ seen' = seen /\ UNCHANGED <<vars, m, puts, gets>>
    BY <1>1 DEF PutNode, Labels, vars
  <2>2. Holding(t) /\ lq \in open /\ pc'[t] = "unlock"
    BY <1>1, <2>1, Inside, ThreadTypes
  <2>3. ASSUME Chain(lq)' = Chain(lq), Contents(lq)' = Contents(lq) PROVE Holding(t)'
    <3>1. 0 \in 0..Len(Chain(lq)) /\ SubSeq(Contents(lq), 1, 0) = <<>>
      BY <2>2, TheList, NothingSeen
    <3> QED
      BY <2>1, <2>2, <2>3, <3>1 DEF Holding
  <2>4. /\ node' \in [Threads -> Nodes \cup {NULL}] /\ item' \in [Threads -> Elements \cup {NULL}]
        /\ seen' \in [Threads -> Seq(Elements)]
    BY <2>1, ThreadTypes
  <2> QED
    BY <1>1, <2>1, <2>3, <2>4, QuietStep
<1>2. CASE \E store \in Nodes \ allocated :
             /\ allocated' = allocated \cup {store}
             /\ data' = [data EXCEPT ![store] = item[t]]
             /\ next' = [next EXCEPT ![store] = NULL]
             /\ node' = [node EXCEPT ![t] = store]
             /\ pc' = [pc EXCEPT ![t] = "link"]
  <2>1. PICK store \in Nodes \ allocated :
             /\ allocated' = allocated \cup {store}
             /\ data' = [data EXCEPT ![store] = item[t]]
             /\ next' = [next EXCEPT ![store] = NULL]
             /\ node' = [node EXCEPT ![t] = store]
             /\ pc' = [pc EXCEPT ![t] = "link"]
    BY <1>2
  <2>2. /\ pc[t] = "put" /\ item' = item /\ seen' = seen /\ m' = m /\ puts' = puts /\ gets' = gets
        /\ open' = open /\ start' = start /\ end' = end /\ orphaned' = orphaned
        /\ "link" \in Labels \ {"idle"}
    BY DEF PutNode, queues, Labels
  <2>3. LTypeInv /\ HeapType
    BY DEF LQueueInv, LTypeInv
  <2>4. /\ lq \in open /\ LastNode = end[lq] /\ Unlinked = {} /\ Holding(t) /\ m = t
        /\ item[t] \in Elements /\ seen[t] = <<>>
    BY <2>2, Inside DEF Holding
  <2>5. /\ MutexInv' /\ ClosedInv' /\ LastNode' = end'[lq] /\ Unlinked' = {node'[t]}
        /\ pc'[t] = "link" /\ \A u \in Threads \ {t} : Holding(u)'
        /\ m' = t /\ pc' \in [Threads -> Labels]
    BY <2>1, <2>2, StepInside
  <2>6. /\ node'[t] = store /\ node' \in [Threads -> Nodes \cup {NULL}]
        /\ data'[store] = item[t] /\ next'[store] = NULL
        /\ \A n \in Nodes \ {store} : next'[n] = next[n] /\ data'[n] = data[n]
    BY <2>1, <2>3 DEF LTypeInv, HeapType
  <2>7. HeapType'
    BY <2>1, <2>2, <2>3, <2>4 DEF HeapType
  <2>8. LTypeInv'
    BY <2>2, <2>3, <2>5, <2>6, <2>7 DEF LTypeInv
  <2>9. InQueue(Chain(lq)) = allocated /\ store \notin allocated /\ allocated \subseteq Nodes
    BY <2>1, <2>3, <2>4, TheList DEF HeapType
  <2>10. /\ Linked(Chain(lq), start'[lq], LastNode, next')
         /\ Chain(lq)' = Chain(lq) /\ Contents(lq)' = Contents(lq)
    BY <2>2, <2>4, <2>6, <2>7, <2>9, ListStays
  <2>11. ShapeInv'
    BY <2>1, <2>2, <2>4, <2>5, <2>6, <2>9, <2>10, TheList DEF ShapeInv
  <2>12. OrderInv'
    BY <2>2, <2>4, <2>5, <2>10 DEF LQueueInv, OrderInv
  <2>13. Holding(t)'
    BY <2>1, <2>2, <2>4, <2>5, <2>6 DEF Holding
  <2> QED
    BY <2>5, <2>8, <2>11, <2>12, <2>13 DEF LQueueInv
<1> QED
  BY <1>1, <1>2 DEF PutNode, Goto

\* qput has linked the node.
LEMMA PutLinkInv ==
  ASSUME LQueueInv, NEW t \in Threads, PutLink(t)
  PROVE  LQueueInv'
<1> DEFINE s == Chain(lq)
<1>1. /\ pc[t] = "link" /\ "last" \in Labels \ {"idle"}
      /\ start[lq] = NULL => start' = [start EXCEPT ![lq] = node[t]] /\ next' = next
      /\ start[lq] # NULL => next' = [next EXCEPT ![end[lq]] = node[t]] /\ start' = start
      /\ pc' = [pc EXCEPT ![t] = "last"] /\ item' = item /\ seen' = seen /\ m' = m
      /\ puts' = puts /\ gets' = gets /\ open' = open /\ end' = end /\ orphaned' = orphaned
      /\ allocated' = allocated /\ data' = data /\ node' = node
  BY DEF PutLink, Goto, Labels
<1>2. LTypeInv /\ HeapType /\ lq \in Queues
  BY OneQueue DEF LQueueInv, LTypeInv
<1>3. /\ lq \in open /\ LastNode = end[lq] /\ Unlinked = {node[t]} /\ Holding(t) /\ m = t
  BY <1>1, Inside
<1>4. /\ node[t] \in allocated /\ node[t] \in Nodes /\ next[node[t]] = NULL
      /\ data[node[t]] = item[t] /\ item[t] \in Elements /\ seen[t] = <<>>
  BY <1>1, <1>2, <1>3 DEF Holding, HeapType
<1>5. /\ MutexInv' /\ ClosedInv' /\ LastNode' = node[t] /\ Unlinked' = {}
      /\ pc'[t] = "last" /\ \A u \in Threads \ {t} : Holding(u)'
      /\ m' = t /\ m' \in Threads /\ pc' \in [Threads -> Labels]
  BY <1>1, StepInside
<1>6. /\ Linked(s, start[lq], end[lq], next) /\ s \in Seq(Nodes)
      /\ InQueue(s) = allocated \ {node[t]} /\ (start[lq] = NULL <=> s = <<>>)
      /\ \A n \in InQueue(s) : data[n] \in Elements
      /\ Contents(lq) = DataOf(s, data)
  BY <1>3, TheList
<1>7. PICK r : r = Append(s, node[t])
  OBVIOUS
<1>8. Linked(r, start'[lq], node[t], next') /\ InQueue(r) = InQueue(s) \cup {node[t]}
  <2>1. next \in [Nodes -> Nodes \cup {NULL}] /\ [next EXCEPT ![node[t]] = NULL] = next
    BY <1>2, <1>4 DEF HeapType
  <2>2. start'[lq] = IF s = <<>> THEN node[t] ELSE start[lq]
    BY <1>1, <1>2, <1>6 DEF HeapType
  <2>3. /\ s = <<>> => next' = [next EXCEPT ![node[t]] = NULL]
        /\ s # <<>> => next' = [[next EXCEPT ![node[t]] = NULL] EXCEPT ![end[lq]] = node[t]]
    BY <1>1, <1>6, <2>1
  <2>4. node[t] \notin InQueue(s)
    BY <1>6
  <2> HIDE DEF s
  <2>5. /\ Linked(Append(s, node[t]), IF s = <<>> THEN node[t] ELSE start[lq], node[t], next')
        /\ InQueue(Append(s, node[t])) = InQueue(s) \cup {node[t]}
    BY <1>4, <1>6, <2>1, <2>3, <2>4, LinkedPut
  <2> QED
    BY <1>7, <2>2, <2>5
<1>9. HeapType'
  BY <1>1, <1>2, <1>4 DEF HeapType
<1>10. LTypeInv'
  BY <1>1, <1>2, <1>5, <1>9 DEF LTypeInv
<1>11. Chain(lq)' = r /\ Contents(lq)' = DataOf(r, data)
  BY <1>1, <1>8, <1>9, ChainAfter
<1>12. DataOf(r, data) = Append(Contents(lq), item[t])
  <2>1. data \in [Nodes -> Elements \cup {NULL}]
    BY <1>2 DEF HeapType
  <2>2. [data EXCEPT ![node[t]] = item[t]] = data
    BY <1>4, <2>1
  <2>3. node[t] \notin InQueue(s) /\ s \in Seq(Nodes) /\ \A n \in InQueue(s) : data[n] \in Elements
    BY <1>6
  <2>4. node[t] \in Nodes /\ item[t] \in Elements
    BY <1>4
  <2> HIDE DEF s
  <2>5. DataOf(Append(s, node[t]), [data EXCEPT ![node[t]] = item[t]]) = Append(DataOf(s, data), item[t])
    BY <2>1, <2>3, <2>4, DataPut
  <2> QED
    BY <1>6, <1>7, <2>2, <2>5
<1>13. ShapeInv'
  <2>1. InQueue(r) = allocated /\ \A n \in InQueue(r) : data[n] \in Elements
    BY <1>4, <1>6, <1>8
  <2> QED
    BY <1>1, <1>5, <1>8, <1>11, <2>1 DEF ShapeInv
<1>14. OrderInv'
  <2>1. gets \o Contents(lq) = puts
    BY <1>1, <1>3 DEF LQueueInv, OrderInv
  <2>2. gets \in Seq(Elements) /\ Contents(lq) \in Seq(Elements)
    BY <1>2, <1>3, TheList DEF LTypeInv
  <2>3. gets \o Append(Contents(lq), item[t]) = Append(gets \o Contents(lq), item[t])
    BY <1>4, <2>2, ConcatPut
  <2> QED
    BY <1>1, <1>5, <1>11, <1>12, <2>1, <2>3 DEF OrderInv
<1>15. r # <<>>
  <2>1. r \in Seq(Nodes) /\ Len(r) = Len(s) + 1 /\ Len(s) \in Nat
    BY <1>4, <1>6, <1>7
  <2> QED
    BY <2>1, EmptyQueue
<1>16. Holding(t)'
  BY <1>1, <1>4, <1>5, <1>11, <1>15 DEF Holding
<1> QED
  BY <1>5, <1>10, <1>13, <1>14, <1>16 DEF LQueueInv

\* qput has moved the end pointer: the element is in the queue.
LEMMA PutLastInv ==
  ASSUME LQueueInv, NEW t \in Threads, PutLast(t)
  PROVE  LQueueInv'
<1>1. /\ pc[t] = "last" /\ "unlock" \in Labels \ {"idle"}
      /\ end' = [end EXCEPT ![lq] = node[t]] /\ puts' = Append(puts, item[t])
      /\ pc' = [pc EXCEPT ![t] = "unlock"] /\ item' = item /\ seen' = seen /\ m' = m
      /\ gets' = gets /\ open' = open /\ start' = start /\ orphaned' = orphaned
      /\ allocated' = allocated /\ data' = data /\ next' = next /\ node' = node
  BY DEF PutLast, Goto, Labels, heap
<1>2. LTypeInv /\ HeapType /\ lq \in Queues
  BY OneQueue DEF LQueueInv, LTypeInv
<1>3. /\ lq \in open /\ LastNode = node[t] /\ Unlinked = {} /\ Holding(t) /\ m = t
  BY <1>1, Inside
<1>4. item[t] \in Elements /\ seen[t] = <<>>
  BY <1>1, <1>3 DEF Holding
<1>5. /\ MutexInv' /\ ClosedInv' /\ LastNode' = end'[lq] /\ Unlinked' = {}
      /\ pc'[t] = "unlock" /\ \A u \in Threads \ {t} : Holding(u)'
      /\ m' = t /\ pc' \in [Threads -> Labels]
  BY <1>1, StepInside
<1>6. end'[lq] = node[t] /\ node[t] \in Nodes \cup {NULL}
  BY <1>1, <1>2 DEF HeapType, LTypeInv
<1>7. HeapType' /\ LTypeInv'
  <2>1. HeapType'
    BY <1>1, <1>2, <1>6 DEF HeapType
  <2>2. puts' \in Seq(Elements)
    BY <1>1, <1>2, <1>4 DEF LTypeInv
  <2> QED
    BY <1>1, <1>2, <1>5, <2>1, <2>2 DEF LTypeInv
<1>8. /\ Linked(Chain(lq), start'[lq], LastNode, next')
      /\ Chain(lq)' = Chain(lq) /\ Contents(lq)' = Contents(lq)
  BY <1>1, <1>3, <1>7, ListStays
<1>9. ShapeInv'
  BY <1>1, <1>3, <1>5, <1>6, <1>8, TheList DEF ShapeInv
<1>10. OrderInv'
  BY <1>1, <1>3, <1>5, <1>8 DEF LQueueInv, OrderInv
<1>11. Holding(t)'
  <2>1. 0 \in 0..Len(Chain(lq)) /\ SubSeq(Contents(lq), 1, 0) = <<>>
    BY <1>3, TheList, NothingSeen
  <2> QED
    BY <1>1, <1>4, <1>5, <1>8, <2>1 DEF Holding
<1> QED
  BY <1>5, <1>7, <1>9, <1>10, <1>11 DEF LQueueInv

\* qget has taken the first node off.
LEMMA GetUnlinkInv ==
  ASSUME LQueueInv, NEW t \in Threads, GetUnlink(t)
  PROVE  LQueueInv'
<1> DEFINE s == Chain(lq)
<1>1. /\ pc[t] = "unlink" /\ "unlock" \in Labels \ {"idle"}
      /\ start[lq] = end[lq] => start' = [start EXCEPT ![lq] = NULL] /\ end' = [end EXCEPT ![lq] = NULL]
      /\ start[lq] # end[lq] => start' = [start EXCEPT ![lq] = next[node[t]]] /\ end' = end
      /\ allocated' = allocated \ {node[t]} /\ node' = [node EXCEPT ![t] = NULL]
      /\ gets' = Append(gets, item[t]) /\ puts' = puts
      /\ pc' = [pc EXCEPT ![t] = "unlock"] /\ item' = item /\ seen' = seen /\ m' = m
      /\ open' = open /\ orphaned' = orphaned /\ data' = data /\ next' = next
  BY DEF GetUnlink, Goto, Labels
<1>2. LTypeInv /\ HeapType /\ lq \in Queues
  BY OneQueue DEF LQueueInv, LTypeInv
<1>3. /\ lq \in open /\ LastNode = end[lq] /\ Unlinked = {} /\ Holding(t) /\ m = t
  BY <1>1, Inside
<1>4. s # <<>> /\ node[t] = start[lq] /\ item[t] = data[node[t]] /\ seen[t] = <<>>
  BY <1>1, <1>3 DEF Holding
<1>5. /\ MutexInv' /\ ClosedInv' /\ LastNode' = end'[lq] /\ Unlinked' = {}
      /\ pc'[t] = "unlock" /\ \A u \in Threads \ {t} : Holding(u)'
      /\ m' = t /\ pc' \in [Threads -> Labels]
  BY <1>1, StepInside
<1>6. /\ Linked(s, start[lq], end[lq], next) /\ s \in Seq(Nodes) /\ InQueue(s) = allocated
      /\ \A n \in InQueue(s) : data[n] \in Elements
      /\ Contents(lq) = DataOf(s, data) /\ Contents(lq) \in Seq(Elements)
  BY <1>3, TheList
<1>7. (start[lq] = end[lq] <=> Len(s) = 1) /\ start[lq] \in InQueue(s) /\ InQueue(s) \subseteq Nodes
  BY <1>4, <1>6, LinkedEnds
<1>8. PICK r : r = Tail(s)
  OBVIOUS
<1>9. Linked(r, start'[lq], end'[lq], next') /\ InQueue(r) = InQueue(s) \ {node[t]} /\ start[lq] = Head(s)
  <2>1. /\ start'[lq] = (IF Len(s) = 1 THEN NULL ELSE next[start[lq]])
        /\ end'[lq] = (IF Len(s) = 1 THEN NULL ELSE end[lq])
    BY <1>1, <1>2, <1>4, <1>7 DEF HeapType
  <2> HIDE DEF s
  <2> QED
    BY <1>1, <1>4, <1>6, <1>8, <2>1, LinkedGet
<1>10. HeapType'
  <2>1. start' \in [Queues -> Nodes \cup {NULL}] /\ end' \in [Queues -> Nodes \cup {NULL}]
    BY <1>1, <1>2, <1>4, <1>7 DEF HeapType
  <2> QED
    BY <1>1, <1>2, <2>1 DEF HeapType, LTypeInv
<1>11. item[t] \in Elements
  BY <1>4, <1>6, <1>7
<1>12. LTypeInv'
  <2>1. gets' \in Seq(Elements) /\ node' \in [Threads -> Nodes \cup {NULL}]
    BY <1>1, <1>2, <1>11 DEF LTypeInv
  <2> QED
    BY <1>1, <1>2, <1>5, <1>10, <2>1 DEF LTypeInv
<1>13. Chain(lq)' = r /\ Contents(lq)' = DataOf(r, data)
  BY <1>1, <1>9, <1>10, ChainAfter
<1>14. /\ Contents(lq) # <<>> /\ Head(Contents(lq)) = item[t]
       /\ DataOf(r, data) = Tail(Contents(lq))
  <2> HIDE DEF s
  <2> QED
    BY <1>4, <1>6, <1>8, <1>9, DataGet
<1>15. ShapeInv'
  BY <1>1, <1>5, <1>6, <1>9, <1>13 DEF ShapeInv
<1>16. OrderInv'
  <2>1. gets \o Contents(lq) = puts
    BY <1>1, <1>3 DEF LQueueInv, OrderInv
  <2>2. gets \in Seq(Elements) /\ Contents(lq) \in Seq(Elements)
    BY <1>2, <1>6 DEF LTypeInv
  <2>3. Append(gets, Head(Contents(lq))) \o Tail(Contents(lq)) = gets \o Contents(lq)
    BY <1>14, <2>2, ConcatGet
  <2> QED
    BY <1>1, <1>5, <1>13, <1>14, <2>1, <2>3 DEF OrderInv
<1>17. Holding(t)'
  <2>1. r \in Seq(Nodes) /\ Contents(lq)' \in Seq(Elements) /\ Len(r) \in Nat
    <3>1. Tail(Contents(lq)) \in Seq(Elements) /\ r \in Seq(Nodes)
      BY <1>4, <1>6, <1>8, <1>14
    <3> QED
      BY <1>13, <1>14, <3>1
  <2>2. 0 \in 0..Len(r) /\ SubSeq(Contents(lq)', 1, 0) = <<>>
    BY <2>1, NothingSeen
  <2> QED
    BY <1>1, <1>4, <1>5, <1>13, <2>2 DEF Holding
<1> QED
  BY <1>5, <1>12, <1>15, <1>16, <1>17 DEF LQueueInv

\* lqclose frees every node there is.
LEMMA CloseInv ==
  ASSUME LQueueInv, Close
  PROVE  LQueueInv'
<1>1. /\ \A t \in Threads : pc[t] = "idle"
      /\ m = NoThread /\ m' = m /\ m \notin Threads /\ lq \in open /\ open' = {}
      /\ allocated' = allocated \ {Chain(lq)[i] : i \in 1..Length(lq)}
      /\ start' = start /\ end' = end /\ data' = data /\ next' = next /\ orphaned' = orphaned
      /\ pc' = pc /\ node' = node /\ item' = item /\ seen' = seen /\ puts' = puts /\ gets' = gets
  BY LQueueAssumption DEF Close, thread
<1>2. Unlinked = {}
  BY <1>1, Holder DEF HolderFact, LQueueInv
<1>3. allocated = {Chain(lq)[i] : i \in 1..Length(lq)}
  BY <1>1, <1>2, TheList DEF InQueue
<1>4. allocated' = {}
  BY <1>1, <1>3
<1>5. LTypeInv'
  BY <1>1, <1>4 DEF LQueueInv, LTypeInv, HeapType
<1>6. MutexInv' /\ ClosedInv' /\ \A t \in Threads : Holding(t)'
  BY <1>1, <1>4 DEF LQueueInv, MutexInv, ClosedInv, Holding
<1>7. ShapeInv' /\ OrderInv'
  BY <1>1 DEF ShapeInv, OrderInv
<1> QED
  BY <1>5, <1>6, <1>7 DEF LQueueInv

\* A step of another component changes nothing.
LEMMA StutterInv ==
  ASSUME LQueueInv, UNCHANGED lvars
  PROVE  LQueueInv'
<1>1. /\ open' = open /\ start' = start /\ end' = end /\ next' = next /\ data' = data
      /\ allocated' = allocated /\ orphaned' = orphaned /\ m' = m /\ puts' = puts /\ gets' = gets
      /\ pc' = pc /\ node' = node /\ item' = item /\ seen' = seen
  BY DEF lvars, vars, queues, heap, thread
<1>2. LTypeInv' /\ HeapType'
  BY <1>1 DEF LQueueInv, LTypeInv, HeapType
<1>3. MutexInv' /\ ClosedInv'
  BY <1>1 DEF LQueueInv, MutexInv, ClosedInv
<1>4. LastNode' = LastNode /\ Unlinked' = Unlinked
  BY <1>1 DEF LastNode, Unlinked
<1>5. CASE lq \in open
  <2>1. /\ Linked(Chain(lq), start'[lq], LastNode, next')
        /\ Chain(lq)' = Chain(lq) /\ Contents(lq)' = Contents(lq)
    BY <1>1, <1>2, <1>5, ListStays
  <2>2. ShapeInv'
    BY <1>1, <1>4, <1>5, <2>1, TheList DEF ShapeInv
  <2>3. OrderInv'
    BY <1>1, <2>1 DEF LQueueInv, OrderInv
  <2>4. \A t \in Threads : Holding(t)'
    BY <1>1, <2>1 DEF LQueueInv, Holding
  <2> QED
    BY <1>2, <1>3, <2>2, <2>3, <2>4 DEF LQueueInv
<1>6. CASE lq \notin open
  <2>1. ShapeInv' /\ OrderInv'
    BY <1>1, <1>6 DEF ShapeInv, OrderInv
  <2>2. \A t \in Threads : pc'[t] = "idle"
    BY <1>1, <1>6 DEF LQueueInv, ClosedInv
  <2>3. \A t \in Threads : Holding(t)'
    BY <2>2 DEF Holding
  <2> QED
    BY <1>2, <1>3, <2>1, <2>3 DEF LQueueInv
<1> QED
  BY <1>5, <1>6

-----------------------------------------------------------------------------
\* The mutex makes every call atomic: whoever is inside is alone, the pointers form
\* a list but for the node in hand, and what was put is what was taken and is left.
THEOREM LQueueInvariant == LSpec => []LQueueInv
<1>1. LInit => LQueueInv
  BY LInitInv
<1>2. LQueueInv /\ [LNext]_lvars => LQueueInv'
  <2> SUFFICES ASSUME LQueueInv, [LNext]_lvars PROVE LQueueInv'
    OBVIOUS
  <2>1. CASE UNCHANGED lvars
    BY <2>1, StutterInv
  <2>2. CASE Close
    BY <2>2, CloseInv
  <2>3. CASE Closed
    BY <2>3, StutterInv DEF Closed
  <2>4. ASSUME NEW t \in Threads, ThreadStep(t) PROVE LQueueInv'
    <3>1. ASSUME NEW e \in Elements, NEW op \in {"put", "search"}, Call(t, op, e) PROVE LQueueInv'
      BY <3>1, CallInv
    <3>2. ASSUME NEW op \in {"get", "apply"}, Call(t, op, NULL) PROVE LQueueInv'
      BY <3>2, CallInv
    <3>3. CASE PutNode(t) \/ PutLink(t) \/ PutLast(t)
      BY <3>3, PutNodeInv, PutLinkInv, PutLastInv
    <3>4. CASE GetRead(t) \/ GetUnlink(t)
      BY <3>4, GetReadInv, GetUnlinkInv
    <3>5. CASE WalkFirst(t) \/ WalkNext(t) \/ WalkEnd(t)
      BY <3>5, WalkFirstInv, WalkNextInv, WalkEndInv
    <3>6. CASE Unlock(t)
      BY <3>6, UnlockInv
    <3> QED
      BY <2>4, <3>1, <3>2, <3>3, <3>4, <3>5, <3>6 DEF ThreadStep
  <2> QED
    BY <2>1, <2>2, <2>3, <2>4 DEF LNext
<1> QED
  BY <1>1, <1>2, PTL DEF LSpec

\* At most one thread is between its lock and its unlock.
Exclusion == \A t, u \in Threads : pc[t] # "idle" /\ pc[u] # "idle" => t = u

\* The operations of queue.c never overlap, however many threads call them.
THEOREM MutualExclusion == LSpec => []Exclusion
<1>1. LQueueInv => Exclusion
  BY DEF LQueueInv, MutexInv, Exclusion
<1> QED
  BY <1>1, LQueueInvariant, PTL

\* While nobody is inside, the queue holds exactly what was put and not yet taken,
\* in the order it was put.
THEOREM QueueIsFirstInFirstOut == LSpec => []FirstInFirstOut
<1>1. LQueueInv => FirstInFirstOut
  BY LQueueAssumption DEF LQueueInv, OrderInv, FirstInFirstOut
<1> QED
  BY <1>1, LQueueInvariant, PTL

\* lqapply and lqsearch look at the elements of one moment, in their order, however
\* many calls of other threads wait meanwhile.
THEOREM TraversalsAreSnapshots == LSpec => []Snapshot
<1>1. LQueueInv => Snapshot
  <2> SUFFICES ASSUME LQueueInv, NEW t \in Threads, pc[t] = "unlock"
               PROVE  \E n \in 0..Length(lq) : seen[t] = SubSeq(Contents(lq), 1, n)
    BY DEF Snapshot
  <2>1. lq \in open /\ Holding(t)
    BY Inside
  <2> QED
    BY <2>1, TheList DEF Holding
<1> QED
  BY <1>1, LQueueInvariant, PTL

\* No thread follows a pointer to a node that another one has freed, and lqclose
\* leaves no node allocated.
THEOREM NoThreadDangles == LSpec => []NoDangling
<1>1. LQueueInv => NoDangling
  <2> SUFFICES ASSUME LQueueInv PROVE NoDangling
    OBVIOUS
  <2>1. ASSUME NEW t \in Threads, pc[t] \in {"link", "last", "unlink", "applying", "searching"},
               node[t] # NULL
        PROVE  node[t] \in allocated
    <3>1. /\ lq \in open /\ Holding(t)
          /\ LastNode = IF pc[t] = "last" THEN node[t] ELSE end[lq]
      BY <2>1, Inside
    <3>2. /\ Linked(Chain(lq), start[lq], LastNode, next) /\ InQueue(Chain(lq)) \subseteq allocated
          /\ DOMAIN Chain(lq) = 1..Len(Chain(lq)) /\ Len(Chain(lq)) \in Nat
      BY <3>1, TheList
    <3>3. CASE pc[t] = "link"
      BY <3>1, <3>3 DEF Holding
    <3>4. CASE pc[t] \in {"last", "unlink"}
      <4>1. Chain(lq) # <<>>
        BY <3>1, <3>4 DEF Holding
      <4>2. start[lq] \in InQueue(Chain(lq)) /\ LastNode \in InQueue(Chain(lq))
        BY <3>2, <4>1, LinkedEnds
      <4> QED
        BY <3>1, <3>2, <3>4, <4>2 DEF Holding
    <3>5. CASE pc[t] \in {"applying", "searching"}
      <4>1. PICK n \in 0..Len(Chain(lq)) :
              node[t] = IF n < Len(Chain(lq)) THEN Chain(lq)[n + 1] ELSE NULL
        BY <3>1, <3>5 DEF Holding
      <4>2. node[t] = Chain(lq)[n + 1] /\ n + 1 \in DOMAIN Chain(lq)
        BY <2>1, <3>2, <4>1
      <4> QED
        BY <3>2, <4>2 DEF InQueue
    <3> QED
      BY <2>1, <3>3, <3>4, <3>5
  <2>2. open = {} => allocated = {}
    BY DEF LQueueInv, ClosedInv
  <2> QED
    BY <2>1, <2>2 DEF NoDangling
<1> QED
  BY <1>1, LQueueInvariant, PTL

-----------------------------------------------------------------------------
(***************************************************************************)
(* The list of cars, through fields that its callers own in between.       *)
(***************************************************************************)
\* s lists the cars from first on: every car once, each one pointing to the one after it.
Path(s, first, nx) ==
  /\ s \in Seq(Cars)
  /\ \A i, j \in DOMAIN s : s[i] = s[j] => i = j
  /\ \A i \in DOMAIN s : i < Len(s) => nx[s[i]] = s[i + 1]
  /\ s = <<>> => first = NULL
  /\ s # <<>> => first = s[1] /\ nx[s[Len(s)]] = NULL

\* Following the pointers from first on.
IsCurr(curr, first, nx) ==
  curr = [i \in Nat |-> IF i = 0 THEN first ELSE IF curr[i - 1] = NULL THEN NULL ELSE nx[curr[i - 1]]]

Curr(first, nx) == CHOOSE curr : IsCurr(curr, first, nx)

PathLength(first, nx) ==
  CHOOSE n \in 0..Cardinality(Cars) :
    Curr(first, nx)[n] = NULL /\ \A i \in 0..(n - 1) : Curr(first, nx)[i] # NULL

Followed(first, nx) == [i \in 1..PathLength(first, nx) |-> Curr(first, nx)[i - 1]]

\* The pointers are followed one by one.
LEMMA CurrSteps ==
  ASSUME NEW nx \in [Cars -> Cars \cup {NULL}], NEW first \in Cars \cup {NULL}, NEW W, W = Curr(first, nx)
  PROVE  /\ W[0] = first
         /\ \A n \in Nat : W[n + 1] = IF W[n] = NULL THEN NULL ELSE nx[W[n]]
<1>1. PICK T, g, a : T = Cars \cup {NULL} /\ g = [n \in T |-> IF n = NULL THEN NULL ELSE nx[n]] /\ a = first
  OBVIOUS
<1>2. a \in T /\ g \in [T -> T]
  BY <1>1
<1>3. PICK f \in [Nat -> T] : f[0] = a /\ \A n \in Nat : f[n + 1] = g[f[n]]
  <2>1. Iterated(T, a, g)
    BY <1>2, Iterable
  <2> QED
    BY <2>1 DEF Iterated
<1>4. IsCurr(f, first, nx)
  <2>1. ASSUME NEW k \in Nat \ {0}
        PROVE  f[k] = IF f[k - 1] = NULL THEN NULL ELSE nx[f[k - 1]]
    <3>1. k - 1 \in Nat /\ (k - 1) + 1 = k
      OBVIOUS
    <3>2. f[k] = g[f[k - 1]] /\ f[k - 1] \in T
      BY <1>3, <3>1
    <3> QED
      BY <1>1, <3>2
  <2> QED
    BY <1>1, <1>3, <2>1 DEF IsCurr
<1>5. IsCurr(W, first, nx)
  BY <1>4 DEF Curr
<1>6. W[0] = first
  BY <1>5 DEF IsCurr
<1>7. ASSUME NEW n \in Nat PROVE W[n + 1] = IF W[n] = NULL THEN NULL ELSE nx[W[n]]
  <2>1. n + 1 \in Nat /\ n + 1 # 0 /\ (n + 1) - 1 = n
    OBVIOUS
  <2>2. W[n + 1] = IF W[(n + 1) - 1] = NULL THEN NULL ELSE nx[W[(n + 1) - 1]]
    BY <1>5, <2>1 DEF IsCurr
  <2> QED
    BY <2>1, <2>2
<1> QED
  BY <1>6, <1>7

\* A sequence of cars without repetition is not longer than there are cars.
LEMMA PathIsShort ==
  ASSUME NEW s \in Seq(Cars), \A i, j \in DOMAIN s : s[i] = s[j] => i = j
  PROVE  Len(s) \in 0..Cardinality(Cars)
<1>1. s \in [1..Len(s) -> Cars] /\ Len(s) \in Nat /\ DOMAIN s = 1..Len(s)
  OBVIOUS
<1>2. s \in Injection(1..Len(s), Cars)
  BY <1>1 DEF Injection, IsInjective
<1>3. Cardinality(1..Len(s)) = Len(s)
  <2>1. 1 \in Int /\ Len(s) \in Int
    BY <1>1
  <2>2. Cardinality(1..Len(s)) = IF 1 > Len(s) THEN 0 ELSE Len(s) - 1 + 1
    BY <2>1, FS_Interval
  <2> QED
    BY <1>1, <2>2
<1>4. Cardinality(Cars) \in Nat
  BY FS_CardinalityType, CarsAssumption
<1>5. Cardinality(1..Len(s)) <= Cardinality(Cars)
  BY <1>2, FS_Injection, CarsAssumption
<1> QED
  BY <1>1, <1>3, <1>4, <1>5

\* Along a list the pointers lead to its cars in order and then to NULL.
LEMMA CurrOfPath ==
  ASSUME NEW nx \in [Cars -> Cars \cup {NULL}], NEW first \in Cars \cup {NULL}, NEW s, Path(s, first, nx),
         NEW W, W = Curr(first, nx)
  PROVE  /\ \A n \in Nat : n < Len(s) => W[n] = s[n + 1]
         /\ W[Len(s)] = NULL
<1> DEFINE K == {n \in Nat : n < Len(s) => W[n] = s[n + 1]}
<1>1. Len(s) \in Nat /\ DOMAIN s = 1..Len(s) /\ \A i \in DOMAIN s : s[i] \in Cars /\ s[i] # NULL
  BY CarsAssumption DEF Path
<1>2. 0 \in K
  BY <1>1, CurrSteps DEF Path
<1>3. ASSUME NEW n \in Nat, n \in K PROVE n + 1 \in K
  <2> SUFFICES ASSUME n + 1 < Len(s) PROVE W[n + 1] = s[(n + 1) + 1]
    OBVIOUS
  <2>1. n + 1 \in DOMAIN s /\ W[n] = s[n + 1]
    BY <1>1, <1>3
  <2>2. W[n + 1] = nx[s[n + 1]]
    BY <1>1, <2>1, CurrSteps, SMTT(30)
  <2> QED
    BY <2>1, <2>2 DEF Path
<1>4. \A n \in Nat : n \in K
  <2> HIDE DEF K
  <2> QED
    BY <1>2, <1>3, SetInduction
<1>5. W[Len(s)] = NULL
  <2>1. CASE s = <<>>
    BY <2>1, CurrSteps DEF Path
  <2>2. CASE s # <<>>
    <3>1. Len(s) - 1 \in Nat /\ (Len(s) - 1) + 1 = Len(s) /\ Len(s) \in DOMAIN s
      BY <1>1, <2>2
    <3>2. W[Len(s) - 1] = s[Len(s)]
      BY <1>4, <3>1
    <3>3. PICK l \in Nat : l = Len(s) - 1
      BY <3>1
    <3>4. W[l + 1] = IF W[l] = NULL THEN NULL ELSE nx[W[l]]
      BY CurrSteps
    <3>5. W[Len(s)] = nx[s[Len(s)]]
      BY <1>1, <3>1, <3>2, <3>3, <3>4
    <3> QED
      BY <2>2, <3>5 DEF Path
  <2> QED
    BY <2>1, <2>2
<1> QED
  BY <1>4, <1>5

\* Followed computes what the list is.
LEMMA FollowedIs ==
  ASSUME NEW nx \in [Cars -> Cars \cup {NULL}], NEW first \in Cars \cup {NULL}, NEW s, Path(s, first, nx)
  PROVE  Followed(first, nx) = s
<1>1. Len(s) \in Nat /\ DOMAIN s = 1..Len(s) /\ s = [i \in 1..Len(s) |-> s[i]]
      /\ \A i \in DOMAIN s : s[i] \in Cars /\ s[i] # NULL
  BY CarsAssumption DEF Path
<1>2. Len(s) \in 0..Cardinality(Cars) /\ Cardinality(Cars) \in Nat
  BY PathIsShort, FS_CardinalityType, CarsAssumption DEF Path
<1>3. PICK W : W = Curr(first, nx)
  OBVIOUS
<1>4. W[Len(s)] = NULL /\ \A j \in 0..(Len(s) - 1) : W[j] # NULL
  <2> SUFFICES ASSUME NEW j \in 0..(Len(s) - 1) PROVE W[j] # NULL
    BY <1>3, CurrOfPath
  <2>1. j \in Nat /\ j < Len(s) /\ j + 1 \in DOMAIN s
    BY <1>1
  <2> QED
    BY <1>1, <1>3, <2>1, CurrOfPath
<1>5. PathLength(first, nx) = Len(s)
  <2>1. \A k \in 0..Cardinality(Cars) :
          W[k] = NULL /\ (\A j \in 0..(k - 1) : W[j] # NULL) => k = Len(s)
    BY <1>1, <1>2, <1>4
  <2> QED
    BY <1>2, <1>3, <1>4, <2>1 DEF PathLength
<1>6. ASSUME NEW i \in 1..Len(s) PROVE W[i - 1] = s[i]
  <2>1. i - 1 \in Nat /\ i - 1 < Len(s) /\ (i - 1) + 1 = i
    BY <1>1
  <2>2. W[i - 1] = s[(i - 1) + 1]
    BY <1>3, <2>1, CurrOfPath
  <2> QED
    BY <2>1, <2>2
<1> QED
  BY <1>1, <1>3, <1>5, <1>6 DEF Followed

\* A car that is put comes first.
LEMMA PathPut ==
  ASSUME NEW nx \in [Cars -> Cars \cup {NULL}], NEW first, NEW s, Path(s, first, nx),
         NEW c \in Cars, \A i \in DOMAIN s : s[i] # c, NEW mx, mx = [nx EXCEPT ![c] = first],
         NEW t, t = <<c>> \o s
  PROVE  Path(t, c, mx)
<1>1. Len(s) \in Nat /\ DOMAIN s = 1..Len(s) /\ \A i \in 1..Len(s) : s[i] \in Cars
  BY DEF Path
<1>2. PICK n \in Nat : n = Len(s)
  BY <1>1
<1>3. /\ t \in Seq(Cars) /\ Len(t) = n + 1 /\ t[1] = c /\ DOMAIN t = 1..(n + 1)
      /\ \A i \in 1..n : t[i + 1] = s[i]
  <2>1. <<c>> \in Seq(Cars) /\ Len(<<c>>) = 1 /\ s \in Seq(Cars)
    BY DEF Path
  <2>2. t \in Seq(Cars) /\ Len(t) = 1 + n /\ \A i \in 1..(1 + n) : t[i] = IF i <= 1 THEN <<c>>[i] ELSE s[i - 1]
    BY <1>2, <2>1, ConcatProperties
  <2>3. DOMAIN t = 1..Len(t)
    BY <2>2, LenProperties
  <2>4. \A i \in 1..n : t[i + 1] = s[i]
    BY <1>2, <2>2
  <2>5. t[1] = c
    BY <1>2, <2>2
  <2> QED
    BY <1>2, <2>2, <2>3, <2>4, <2>5
<1>4. \A k \in 2..(n + 1) : k - 1 \in 1..n /\ t[k] = s[k - 1]
  <2> SUFFICES ASSUME NEW k \in 2..(n + 1) PROVE k - 1 \in 1..n /\ t[k] = s[k - 1]
    OBVIOUS
  <2>1. PICK j \in 1..n : k = j + 1 /\ j = k - 1
    BY <1>2
  <2> QED
    BY <1>3, <2>1
<1>5. ASSUME NEW i \in DOMAIN t, NEW j \in DOMAIN t, t[i] = t[j] PROVE i = j
  <2>1. CASE i = 1 /\ j = 1
    BY <2>1
  <2>2. CASE i = 1 /\ j # 1
    <3>1. j \in 2..(n + 1)
      BY <1>3, <2>2
    <3> QED
      BY <1>1, <1>2, <1>3, <1>4, <1>5, <2>2, <3>1
  <2>3. CASE i # 1 /\ j = 1
    <3>1. i \in 2..(n + 1)
      BY <1>3, <2>3
    <3> QED
      BY <1>1, <1>2, <1>3, <1>4, <1>5, <2>3, <3>1
  <2>4. CASE i # 1 /\ j # 1
    <3>1. i \in 2..(n + 1) /\ j \in 2..(n + 1)
      BY <1>3, <2>4
    <3>2. s[i - 1] = s[j - 1] /\ i - 1 \in DOMAIN s /\ j - 1 \in DOMAIN s
      BY <1>1, <1>2, <1>4, <1>5, <3>1
    <3>3. i - 1 = j - 1
      BY <3>2 DEF Path
    <3> QED
      BY <1>2, <3>1, <3>3
  <2> QED
    BY <2>1, <2>2, <2>3, <2>4
<1>6. \A i \in 1..n : mx[s[i]] = nx[s[i]]
  BY <1>1, <1>2
<1>7. mx[c] = first
  OBVIOUS
<1>8. ASSUME NEW i \in DOMAIN t, i < Len(t) PROVE mx[t[i]] = t[i + 1]
  <2>1. CASE i = 1
    <3>1. n >= 1 /\ 1 \in 1..n /\ s # <<>>
      BY <1>1, <1>2, <1>3, <1>8, <2>1, EmptyQueue DEF Path
    <3>2. first = s[1] /\ t[1 + 1] = s[1]
      BY <1>3, <3>1 DEF Path
    <3> QED
      BY <1>3, <1>7, <2>1, <3>2
  <2>2. CASE i # 1
    <3>1. PICK j \in 1..n : j = i - 1 /\ i = j + 1 /\ j < n /\ j + 1 \in 1..n
      <4>1. i \in 1..(n + 1) /\ i < n + 1 /\ i # 1
        BY <1>3, <1>8, <2>2
      <4>2. i - 1 \in 1..n /\ i = (i - 1) + 1 /\ i - 1 < n /\ (i - 1) + 1 \in 1..n
        BY <1>2, <4>1
      <4> QED
        BY <4>2
    <3>2. nx[s[j]] = s[j + 1]
      BY <1>1, <1>2, <3>1 DEF Path
    <3>3. t[j + 1] = s[j] /\ t[(j + 1) + 1] = s[j + 1]
      BY <1>3, <3>1
    <3> QED
      BY <1>6, <3>1, <3>2, <3>3
  <2> QED
    BY <2>1, <2>2
<1>9. mx[t[Len(t)]] = NULL
  <2>1. CASE n = 0
    <3>1. s = <<>> /\ t[Len(t)] = c
      BY <1>2, <1>3, <2>1, EmptyQueue DEF Path
    <3> QED
      BY <1>7, <3>1 DEF Path
  <2>2. CASE n # 0
    <3>1. s # <<>> /\ n \in 1..n
      BY <1>2, <2>2, EmptyQueue DEF Path
    <3>2. nx[s[n]] = NULL
      BY <1>2, <3>1 DEF Path
    <3>3. t[Len(t)] = s[n]
      BY <1>3, <3>1
    <3> QED
      BY <1>6, <3>1, <3>2, <3>3
  <2> QED
    BY <2>1, <2>2
<1>10. t # <<>>
  BY <1>2, <1>3, EmptyQueue
<1> QED
  BY <1>3, <1>5, <1>8, <1>9, <1>10 DEF Path

\* A car that is taken out is unlinked, whatever its own pointer becomes.
LEMMA PathRemove ==
  ASSUME NEW nx \in [Cars -> Cars \cup {NULL}], NEW first, NEW s, Path(s, first, nx), NEW i \in DOMAIN s,
         NEW first2, NEW mx,
         i = 1 => first2 = nx[s[i]] /\ \A c \in Cars : c # s[i] => mx[c] = nx[c],
         i > 1 => first2 = first /\ mx = [nx EXCEPT ![s[i - 1]] = nx[s[i]]],
         NEW t, t = Without(s, i)
  PROVE  Path(t, first2, mx)
<1>1. /\ s \in Seq(Cars) /\ t \in Seq(Cars) /\ Len(t) = Len(s) - 1
      /\ DOMAIN t = 1..(Len(s) - 1) /\ Len(s) \in Nat \ {0} /\ i \in 1..Len(s)
      /\ DOMAIN s = 1..Len(s)
      /\ \A k \in DOMAIN t : k \in DOMAIN s /\ k + 1 \in DOMAIN s
      /\ \A k \in DOMAIN t : k < i => t[k] = s[k]
      /\ \A k \in DOMAIN t : ~(k < i) => t[k] = s[k + 1]
      /\ t = <<>> <=> Len(s) = 1
  BY WithoutType DEF Path
<1>2. /\ \A j, k \in DOMAIN s : s[j] = s[k] => j = k
      /\ \A k \in DOMAIN s : s[k] \in Cars /\ s[k] # NULL
      /\ \A k \in DOMAIN s : k < Len(s) => nx[s[k]] = s[k + 1]
      /\ first = s[1] /\ nx[s[Len(s)]] = NULL
  <2>1. s # <<>>
    BY <1>1, EmptyQueue
  <2> QED
    BY <1>1, <2>1, CarsAssumption DEF Path
<1>3. \A j, k \in DOMAIN t : t[j] = t[k] => j = k
  BY <1>1, <1>2
<1>4. ASSUME NEW k \in DOMAIN s, k # i
      PROVE  mx[s[k]] = IF k = i - 1 THEN nx[s[i]] ELSE nx[s[k]]
  <2>1. CASE i = 1
    <3>1. s[k] # s[i] /\ k # i - 1
      BY <1>1, <1>2, <1>4, <2>1
    <3> QED
      BY <1>2, <2>1, <3>1
  <2>2. CASE i > 1
    <3>1. i - 1 \in DOMAIN s
      BY <1>1, <2>2
    <3> QED
      BY <1>1, <1>2, <2>2, <3>1
  <2> QED
    BY <1>1, <2>1, <2>2
<1>5. nx[s[i]] = IF i = Len(s) THEN NULL ELSE s[i + 1]
  BY <1>1, <1>2
<1>6. ASSUME NEW k \in DOMAIN t, k < Len(t) PROVE mx[t[k]] = t[k + 1]
  <2>1. k + 1 \in DOMAIN t /\ k \in DOMAIN s /\ k + 1 \in DOMAIN s
    BY <1>1, <1>6
  <2>2. CASE k < i - 1
    <3>1. t[k] = s[k] /\ t[k + 1] = s[k + 1] /\ k < Len(s) /\ k # i
      BY <1>1, <2>1, <2>2
    <3> QED
      BY <1>1, <1>2, <1>4, <2>1, <2>2, <3>1
  <2>3. CASE k = i - 1
    <3>1. t[k] = s[k] /\ t[k + 1] = s[(k + 1) + 1] /\ k # i /\ i # Len(s)
      BY <1>1, <1>6, <2>1, <2>3
    <3>2. (k + 1) + 1 = i + 1
      BY <1>1, <2>3
    <3> QED
      BY <1>4, <1>5, <2>1, <2>3, <3>1, <3>2
  <2>4. CASE k > i - 1
    <3>1. t[k] = s[k + 1] /\ t[k + 1] = s[(k + 1) + 1] /\ k + 1 # i /\ k + 1 # i - 1 /\ k + 1 < Len(s)
      BY <1>1, <1>6, <2>1, <2>4
    <3> QED
      BY <1>2, <1>4, <2>1, <3>1
  <2> QED
    BY <1>1, <2>2, <2>3, <2>4
<1>7. CASE t = <<>>
  <2>1. Len(s) = 1 /\ i = 1
    BY <1>1, <1>7
  <2>2. first2 = NULL
    BY <1>2, <1>5, <2>1
  <2> QED
    BY <1>1, <1>3, <1>6, <1>7, <2>2 DEF Path
<1>8. CASE t # <<>>
  <2>1. Len(s) > 1 /\ Len(t) \in DOMAIN t /\ 1 \in DOMAIN t
    BY <1>1, <1>8
  <2>2. first2 = t[1]
    BY <1>1, <1>2, <1>5, <2>1
  <2>3. mx[t[Len(t)]] = NULL
    <3>1. CASE i = Len(s)
      <4>0. i > 1 /\ Len(t) = i - 1 /\ i - 1 \in DOMAIN s /\ i - 1 # i /\ Len(t) < i
        <5>1. PICK l \in Nat : l = Len(s)
          BY <1>1
        <5>2. i = l /\ l > 1 /\ Len(t) = l - 1 /\ DOMAIN s = 1..l
          BY <1>1, <2>1, <3>1, <5>1
        <5> QED
          BY <5>2
      <4>1. i > 1 /\ Len(t) = i - 1 /\ t[Len(t)] = s[i - 1] /\ i - 1 \in DOMAIN s /\ i - 1 # i
        <5>1. t[Len(t)] = s[Len(t)]
          BY <1>1, <2>1, <4>0
        <5> QED
          BY <4>0, <5>1
      <4>2. mx[s[i - 1]] = nx[s[i]]
        BY <1>4, <4>1
      <4> QED
        BY <1>5, <3>1, <4>1, <4>2
    <3>2. CASE i < Len(s)
      <4>0. PICK l \in Nat : l = Len(s)
        BY <1>1
      <4>1. t[Len(t)] = s[Len(s)] /\ Len(s) \in DOMAIN s /\ Len(s) # i /\ Len(s) # i - 1
        <5>1. i < l /\ l \in DOMAIN s /\ Len(t) = l - 1 /\ Len(t) \in DOMAIN t /\ ~(l - 1 < i)
          BY <1>1, <2>1, <3>2, <4>0
        <5>2. t[Len(t)] = s[(l - 1) + 1] /\ (l - 1) + 1 = l
          BY <1>1, <4>0, <5>1
        <5> QED
          BY <4>0, <5>1, <5>2
      <4>2. mx[s[Len(s)]] = NULL
        BY <1>2, <1>4, <4>1
      <4> QED
        BY <4>1, <4>2
    <3> QED
      BY <1>1, <3>1, <3>2
  <2> QED
    BY <1>1, <1>3, <1>6, <1>8, <2>2, <2>3 DEF Path
<1> QED
  BY <1>7, <1>8

\* Nothing is left out of a sequence all of whose elements are selected.
LEMMA SelectedAll ==
  ASSUME NEW S, NEW s \in Seq(S), NEW T, \A i \in 1..Len(s) : s[i] \in T
  PROVE  Selected(s, T) = s
<1> DEFINE G == {r \in Seq(S) : (\A i \in 1..Len(r) : r[i] \in T) => Selected(r, T) = r}
<1>1. <<>> \in G
  BY SelectedEmpty
<1>2. ASSUME NEW r \in Seq(S), NEW e \in S, r \in G PROVE Append(r, e) \in G
  <2>1. PICK u : u = Append(r, e)
    OBVIOUS
  <2>2. /\ u \in Seq(S) /\ Len(u) = Len(r) + 1 /\ u[Len(r) + 1] = e /\ \A i \in 1..Len(r) : u[i] = r[i]
    BY <2>1, AppendProperties
  <2>3. Len(r) \in Nat
    OBVIOUS
  <2>4. ASSUME \A i \in 1..Len(u) : u[i] \in T PROVE Selected(u, T) = u
    <3>1. e \in T /\ \A i \in 1..Len(r) : r[i] \in T
      BY <2>2, <2>3, <2>4, SMTT(30)
    <3>2. Selected(r, T) = r
      BY <1>2, <3>1
    <3> QED
      BY <2>1, <3>1, <3>2, SelectedAppend
  <2> QED
    BY <2>1, <2>2, <2>4
<1>3. \A r \in Seq(S) : r \in G
  <2> HIDE DEF G
  <2> QED
    BY <1>1, <1>2, SeqInduction
<1> QED
  BY <1>3

\* Leaving out one element of a sequence without repetition.
LEMMA SelectedWithout ==
  ASSUME NEW s \in Seq(Cars), \A j, k \in DOMAIN s : s[j] = s[k] => j = k, NEW i \in DOMAIN s,
         NEW x, x = s[i]
  PROVE  Selected(s, Cars \ {x}) = Without(s, i)
<1>1. PICK T : T = Cars \ {x}
  OBVIOUS
<1>2. PICK a, b : a = SubSeq(s, 1, i - 1) /\ b = SubSeq(s, i + 1, Len(s))
  OBVIOUS
<1>3. i \in 1..Len(s) /\ DOMAIN s = 1..Len(s)
  OBVIOUS
<1>4. SelectsWithout(s, a, s[i], b, T)
  BY <1>2, <1>3, SelectedParts
<1>5. Selected(a \o b, T) = Selected(s, T)
  BY <1>1, <1>4 DEF SelectsWithout
<1>6. PICK t : t = Without(s, i)
  OBVIOUS
<1>7. t = a \o b /\ t \in Seq(Cars) /\ InQueue(t) = InQueue(s) \ {s[i]}
  BY <1>2, <1>6, WithoutParts, WithoutType, WithoutElements
<1>8. \A j \in 1..Len(t) : t[j] \in T
  <2> SUFFICES ASSUME NEW j \in 1..Len(t) PROVE t[j] \in T
    OBVIOUS
  <2>1. j \in DOMAIN t /\ t[j] \in Cars
    BY <1>7
  <2>2. t[j] \in InQueue(t)
    BY <2>1 DEF InQueue
  <2> QED
    BY <1>1, <1>7, <2>1, <2>2
<1>9. Selected(t, T) = t
  BY <1>7, <1>8, SelectedAll
<1> QED
  BY <1>1, <1>5, <1>6, <1>7, <1>9

-----------------------------------------------------------------------------
\* The selection in the instance of List is the same operator.
LEMMA SameSelected ==
  ASSUME NEW s, NEW T
  PROVE  CarList!Selected(s, T) = Selected(s, T)
BY DEF CarList!Selected, Selected

\* So is the number of elements.
LEMMA SameCardinality ==
  ASSUME NEW S
  PROVE  CarList!Cardinality(S) = Cardinality(S)
BY DEF CarList!Cardinality, Cardinality, CarList!IsFiniteSet, IsFiniteSet

\* The position of the first car with plate p, 0 if there is none.
FirstWith(s, pl, p) ==
  LET I == {i \in 1..Len(s) : pl[s[i]] = p}
  IN  IF I # {} THEN Min(I) ELSE 0

\* It is the first.
LEMMA FirstWithIs ==
  ASSUME NEW s \in Seq(Cars), NEW pl, NEW p, NEW i, i = FirstWith(s, pl, p)
  PROVE  \/ i = 0 /\ \A j \in 1..Len(s) : pl[s[j]] # p
         \/ i \in 1..Len(s) /\ pl[s[i]] = p /\ \A j \in 1..Len(s) : j < i => pl[s[j]] # p
<1>1. PICK I : I = {k \in 1..Len(s) : pl[s[k]] = p}
  OBVIOUS
<1>2. i = IF I # {} THEN Min(I) ELSE 0
  BY <1>1 DEF FirstWith
<1>3. CASE I = {}
  BY <1>1, <1>2, <1>3
<1>4. CASE I # {}
  <2>1. I \subseteq Nat
    BY <1>1
  <2>2. i \in I /\ \A j \in I : i <= j
    BY <1>2, <1>4, <2>1, LeastOf
  <2> QED
    BY <1>1, <2>1, <2>2
<1> QED
  BY <1>3, <1>4

\* The invariant: the cars in the list can be named one by one, whatever the others point to.
ListInv ==
  /\ following \in [Cars -> Cars \cup {NULL}] /\ plate \in [Cars -> Plates] /\ head \in Cars \cup {NULL}
  /\ \E s : Path(s, head, following)

\* What List computes from the pointers are these cars.
LEMMA ListIs ==
  ASSUME ListInv
  PROVE  Path(CarList!List, head, following)
<1>1. CarList!List = Followed(head, following)
  BY SameCardinality DEF CarList!List, Followed, PathLength, Curr, IsCurr
<1>2. PICK s : Path(s, head, following)
  BY DEF ListInv
<1>3. Followed(head, following) = s
  BY <1>2, FollowedIs DEF ListInv
<1> QED
  BY <1>1, <1>2, <1>3

\* And after a step.
LEMMA ListBecomes ==
  ASSUME following' \in [Cars -> Cars \cup {NULL}], plate' \in [Cars -> Plates], head' \in Cars \cup {NULL},
         NEW s, Path(s, head', following')
  PROVE  ListInv' /\ CarList!List' = s
<1>1. CarList!List' = Followed(head', following')
  BY SameCardinality DEF CarList!List, Followed, PathLength, Curr, IsCurr
<1>2. PICK nx, first : nx = following' /\ first = head'
  OBVIOUS
<1>3. Followed(first, nx) = s
  BY <1>2, FollowedIs
<1>4. ListInv'
  BY DEF ListInv
<1> QED
  BY <1>1, <1>2, <1>3, <1>4

\* A call that changes nothing.
LEMMA CarsStay ==
  ASSUME ListInv, UNCHANGED <<head, following, plate>>
  PROVE  ListInv' /\ CarList!List' = CarList!List
<1>1. PICK s : s = CarList!List
  OBVIOUS
<1>2. Path(s, head', following')
  BY <1>1, ListIs
<1> QED
  BY <1>1, <1>2, ListBecomes DEF ListInv

\* lput.
LEMMA LPutSteps ==
  ASSUME ListInv, NEW cp \in Cars, CarList!LPut(cp)
  PROVE  ListInv' /\ CarList!StackStep
<1>1. PICK s : s = CarList!List
  OBVIOUS
<1>2. Path(s, head, following) /\ s \in Seq(Cars)
  BY <1>1, ListIs DEF Path
<1>3. /\ \A i \in DOMAIN s : s[i] # cp
      /\ following' = [following EXCEPT ![cp] = head] /\ head' = cp /\ plate' = plate
      /\ call' = [fn |-> "lput", arg |-> cp, result |-> <<0>>]
  BY <1>1, <1>2 DEF CarList!LPut, CarList!Contains, CarList!Returns
<1>4. PICK t, nx, first, mx : t = <<cp>> \o s /\ nx = following /\ first = head /\ mx = following'
  OBVIOUS
<1>5. Path(t, cp, mx)
  BY <1>2, <1>3, <1>4, PathPut DEF ListInv
<1>6. mx \in [Cars -> Cars \cup {NULL}]
  BY <1>3, <1>4 DEF ListInv
<1>7. ListInv' /\ CarList!List' = t
  BY <1>3, <1>4, <1>5, <1>6, ListBecomes DEF ListInv
<1>8. call'.fn = "lput" /\ call'.arg = cp /\ call'.arg # NULL /\ call'.result = <<0>>
  BY <1>3, CarsAssumption
<1> QED
  BY <1>1, <1>4, <1>7, <1>8 DEF CarList!StackStep

\* Taking the car at position i out, as lget and lremove do.
LEMMA TakenOut ==
  ASSUME ListInv, NEW s, s = CarList!List, NEW i \in DOMAIN s, plate' = plate,
         i = 1 => head' = following[s[i]] /\ \A c \in Cars : c # s[i] => following'[c] = following[c],
         i > 1 => head' = head /\ following' = [following EXCEPT ![s[i - 1]] = following[s[i]]],
         following' \in [Cars -> Cars \cup {NULL}]
  PROVE  ListInv' /\ CarList!List' = Selected(s, Cars \ {s[i]}) /\ s \in Seq(Cars)
<1>1. Path(s, head, following)
  BY ListIs
<1>2. s \in Seq(Cars) /\ \A j, k \in DOMAIN s : s[j] = s[k] => j = k
  BY <1>1 DEF Path
<1>3. PICK t, x : t = Without(s, i) /\ x = s[i]
  OBVIOUS
<1>4. PICK nx, first, mx, first2 : nx = following /\ first = head /\ mx = following' /\ first2 = head'
  OBVIOUS
<1>5. nx \in [Cars -> Cars \cup {NULL}] /\ Path(s, first, nx)
  BY <1>1, <1>4 DEF ListInv
<1>6. Path(t, first2, mx)
  BY <1>3, <1>4, <1>5, PathRemove
<1>7. head' \in Cars \cup {NULL}
  <2>1. i \in 1..Len(s) /\ s[i] \in Cars
    BY <1>2
  <2> QED
    BY <2>1 DEF ListInv
<1>8. ListInv' /\ CarList!List' = t
  BY <1>4, <1>6, <1>7, ListBecomes DEF ListInv
<1>9. Selected(s, Cars \ {x}) = t
  BY <1>2, <1>3, SelectedWithout
<1> QED
  BY <1>2, <1>3, <1>8, <1>9

\* lget.
LEMMA LGetSteps ==
  ASSUME ListInv, CarList!LGet
  PROVE  ListInv' /\ CarList!StackStep
<1>1. PICK s : s = CarList!List
  OBVIOUS
<1>2. /\ Path(s, head, following) /\ s \in Seq(Cars) /\ Len(s) \in Nat /\ DOMAIN s = 1..Len(s)
      /\ \A i \in DOMAIN s : s[i] \in Cars
  BY <1>1, ListIs DEF Path
<1>3. CASE head = NULL
  <2>1. /\ UNCHANGED <<head, following, plate>>
        /\ call' = [fn |-> "lget", arg |-> NULL, result |-> <<NULL>>]
    BY <1>3 DEF CarList!LGet, CarList!Returns
  <2>2. s = <<>>
    <3> SUFFICES ASSUME s # <<>> PROVE FALSE
      OBVIOUS
    <3>1. 1 \in DOMAIN s
      BY <1>2, EmptyQueue
    <3> QED
      BY <1>2, <1>3, <3>1, CarsAssumption DEF Path
  <2>3. ListInv' /\ CarList!List' = s
    BY <1>1, <2>1, CarsStay
  <2>4. call'.fn = "lget" /\ call'.arg = NULL /\ call'.result = <<NULL>>
    BY <2>1
  <2> QED
    BY <1>1, <2>2, <2>3, <2>4 DEF CarList!StackStep
<1>4. CASE head # NULL
  <2>1. /\ head' = following[head] /\ following' = [following EXCEPT ![head] = NULL] /\ plate' = plate
        /\ call' = [fn |-> "lget", arg |-> NULL, result |-> <<head>>]
    BY <1>4 DEF CarList!LGet, CarList!Returns
  <2>2. s # <<>> /\ head = s[1]
    BY <1>2, <1>4 DEF Path
  <2>3. 1 \in DOMAIN s /\ head \in Cars /\ Head(s) = head
    <3>1. 1 \in DOMAIN s
      BY <1>2, <2>2, EmptyQueue
    <3> QED
      BY <1>2, <2>2, <3>1
  <2>4. following' \in [Cars -> Cars \cup {NULL}]
    BY <2>1, <2>3 DEF ListInv
  <2>5. head' = following[s[1]] /\ \A c \in Cars : c # s[1] => following'[c] = following[c]
    BY <2>1, <2>2 DEF ListInv
  <2>6. ListInv' /\ CarList!List' = Selected(s, Cars \ {s[1]})
    <3>1. PICK i : i = 1
      OBVIOUS
    <3>2. i \in DOMAIN s /\ ~(i > 1)
      BY <2>3, <3>1
    <3>3. i = 1 => head' = following[s[i]] /\ \A c \in Cars : c # s[i] => following'[c] = following[c]
      BY <2>5, <3>1
    <3>4. i > 1 => head' = head /\ following' = [following EXCEPT ![s[i - 1]] = following[s[i]]]
      BY <3>2
    <3>5. ListInv' /\ CarList!List' = Selected(s, Cars \ {s[i]})
      BY <1>1, <2>1, <2>4, <3>2, <3>3, <3>4, TakenOut
    <3> QED
      BY <3>1, <3>5
  <2>7. CarList!List' = CarList!Selected(s, Cars \ {Head(s)})
    BY <2>2, <2>3, <2>6, SameSelected
  <2>8. call'.fn = "lget" /\ call'.arg = NULL /\ call'.result = <<Head(s)>>
    BY <2>1, <2>3
  <2> QED
    BY <1>1, <2>2, <2>6, <2>7, <2>8 DEF CarList!StackStep
<1> QED
  BY <1>3, <1>4

\* lremove.
LEMMA LRemoveSteps ==
  ASSUME ListInv, NEW p \in Plates, CarList!LRemove(p)
  PROVE  ListInv' /\ CarList!StackStep
<1>1. PICK s, i : s = CarList!List /\ i = FirstWith(s, plate, p)
  OBVIOUS
<1>2. /\ s \in Seq(Cars) /\ Len(s) \in Nat /\ DOMAIN s = 1..Len(s)
      /\ \A j \in DOMAIN s : s[j] \in Cars
  BY <1>1, ListIs DEF Path
<1>3. \/ i = 0 /\ \A j \in 1..Len(s) : plate[s[j]] # p
      \/ i \in 1..Len(s) /\ plate[s[i]] = p /\ \A j \in 1..Len(s) : j < i => plate[s[j]] # p
  BY <1>1, <1>2, FirstWithIs
<1>4. i = CarList!SelectInSeq(s, LAMBDA c : plate[c] = p)
  BY <1>1 DEF CarList!SelectInSeq, CarList!Min, FirstWith, Min
<1>5. /\ call' = [fn |-> "lremove", arg |-> p, result |-> IF i = 0 THEN <<NULL>> ELSE <<s[i]>>]
      /\ plate' = plate
      /\ CASE i = 0 -> UNCHANGED <<head, following>>
           [] i = 1 -> head' = following[head] /\ UNCHANGED following
           [] i > 1 -> following' = [following EXCEPT ![s[i - 1]] = following[s[i]]] /\ UNCHANGED head
  BY <1>1, <1>4 DEF CarList!LRemove, CarList!Returns
<1>6. call'.fn = "lremove" /\ call'.arg = p
  BY <1>5
<1>7. PICK T, w : T = {c \in Cars : plate[c] = call'.arg} /\ w = CarList!Selected(s, T)
  OBVIOUS
<1>8. w = Selected(s, T) /\ T = {c \in Cars : plate[c] = p}
  BY <1>6, <1>7, SameSelected
<1>9. CASE i = 0
  <2>1. UNCHANGED <<head, following, plate>> /\ call'.result = <<NULL>>
    BY <1>5, <1>9
  <2>2. ListInv' /\ CarList!List' = s
    BY <1>1, <2>1, CarsStay
  <2>3. \A j \in 1..Len(s) : s[j] \notin T
    BY <1>2, <1>3, <1>8, <1>9
  <2>4. w = <<>>
    BY <1>2, <1>8, <2>3, SelectedNone
  <2> QED
    BY <1>1, <1>6, <1>7, <2>1, <2>2, <2>4 DEF CarList!StackStep
<1>10. CASE i # 0
  <2>1. i \in DOMAIN s /\ i \in 1..Len(s) /\ call'.result = <<s[i]>> /\ s[i] \in T
    BY <1>2, <1>3, <1>5, <1>8, <1>10
  <2>2. \A j \in 1..Len(s) : j < i => s[j] \notin T
    BY <1>2, <1>3, <1>8, <1>10
  <2>3. w # <<>> /\ Head(w) = s[i]
    BY <1>2, <1>8, <2>1, <2>2, SelectedFirst
  <2>4. i = 1 => head' = following[s[i]] /\ \A c \in Cars : c # s[i] => following'[c] = following[c]
    <3> SUFFICES ASSUME i = 1
                 PROVE  head' = following[s[i]] /\ \A c \in Cars : c # s[i] => following'[c] = following[c]
      OBVIOUS
    <3>1. head' = following[head] /\ following' = following
      BY <1>5
    <3>2. s # <<>>
      BY <1>2, <2>1, EmptyQueue
    <3>3. head = s[1]
      BY <1>1, <3>2, ListIs DEF Path
    <3> QED
      BY <3>1, <3>3
  <2>5. i > 1 => head' = head /\ following' = [following EXCEPT ![s[i - 1]] = following[s[i]]]
    BY <1>5
  <2>6. following' \in [Cars -> Cars \cup {NULL}]
    <3>1. CASE i = 1
      BY <1>5, <3>1 DEF ListInv
    <3>2. CASE i > 1
      <4>1. following[s[i]] \in Cars \cup {NULL}
        BY <1>2, <2>1 DEF ListInv
      <4>2. following' = [following EXCEPT ![s[i - 1]] = following[s[i]]]
        BY <2>5, <3>2
      <4> QED
        BY <4>1, <4>2 DEF ListInv
    <3> QED
      BY <1>2, <2>1, <3>1, <3>2
  <2>7. ListInv' /\ CarList!List' = Selected(s, Cars \ {s[i]})
    BY <1>1, <1>5, <2>1, <2>4, <2>5, <2>6, TakenOut
  <2>8. CarList!List' = CarList!Selected(s, Cars \ {Head(w)})
    BY <2>3, <2>7, SameSelected
  <2>9. call'.result = <<Head(w)>>
    BY <2>1, <2>3
  <2> QED
    BY <1>1, <1>6, <1>7, <2>3, <2>7, <2>8, <2>9 DEF CarList!StackStep
<1> QED
  BY <1>9, <1>10

\* Any step.
LEMMA ListSteps == ListInv /\ [CarList!Next]_CarList!vars => ListInv' /\ [CarList!StackStep]_CarList!vars
<1> SUFFICES ASSUME ListInv, [CarList!Next]_CarList!vars
             PROVE  ListInv' /\ [CarList!StackStep]_CarList!vars
  OBVIOUS
<1>1. CASE CarList!LPutNull
  <2>1. UNCHANGED <<head, following, plate>> /\ call' = [fn |-> "lput", arg |-> NULL, result |-> <<-1>>]
    BY <1>1 DEF CarList!LPutNull, CarList!Returns
  <2>2. ListInv' /\ CarList!List' = CarList!List
    BY <2>1, CarsStay
  <2> QED
    BY <2>1, <2>2 DEF CarList!StackStep
<1>2. CASE CarList!LApply
  <2>1. UNCHANGED <<head, following, plate>> /\ call' = [fn |-> "lapply", arg |-> NULL, result |-> CarList!List]
    BY <1>2 DEF CarList!LApply, CarList!Returns
  <2>2. ListInv' /\ CarList!List' = CarList!List
    BY <2>1, CarsStay
  <2> QED
    BY <2>1, <2>2 DEF CarList!StackStep
<1>3. CASE CarList!LGet
  BY <1>3, LGetSteps
<1>4. ASSUME NEW cp \in Cars, CarList!LPut(cp) PROVE ListInv' /\ CarList!StackStep
  BY <1>4, LPutSteps
<1>5. ASSUME NEW p \in Plates, CarList!LRemove(p) PROVE ListInv' /\ CarList!StackStep
  BY <1>5, LRemoveSteps
<1>6. CASE UNCHANGED CarList!vars
  <2>1. UNCHANGED <<head, following, plate>>
    BY <1>6 DEF CarList!vars
  <2> QED
    BY <1>6, <2>1, CarsStay
<1> QED
  BY <1>1, <1>2, <1>3, <1>4, <1>5, <1>6 DEF CarList!Next

\* The list of cars behaves as a stack: whatever next fields the callers hand over, and
\* whatever they still hold when a car is handed out, each call of list.c changes the list,
\* and returns, as on a stack from which the uppermost car with a plate can be taken.
THEOREM ListIsAStack == CarList!Spec => ListActsAsStack
<1>1. CarList!Init => ListInv
  <2> SUFFICES ASSUME CarList!Init PROVE ListInv
    OBVIOUS
  <2>1. Path(<<>>, head, following)
    <3>1. <<>> \in Seq(Cars) /\ DOMAIN <<>> = {}
      OBVIOUS
    <3> QED
      BY <3>1 DEF Path, CarList!Init
  <2> QED
    BY <2>1 DEF ListInv, CarList!Init
<1>2. ListInv /\ [CarList!Next]_CarList!vars => ListInv' /\ [CarList!StackStep]_CarList!vars
  BY ListSteps
<1> QED
  BY <1>1, <1>2, PTL DEF CarList!Spec, ListActsAsStack, CarList!ActsAsStack

=============================================================================
