-------------------------------- MODULE Queue -------------------------------
(***************************************************************************)
(* module3/queue/queue.c: singly linked queues with a pointer to both      *)
(* ends, over a heap of nodes that malloc hands out and free takes back.   *)
(* A freed node keeps what it held, and may be handed out again.           *)
(***************************************************************************)
EXTENDS Integers, Sequences, FiniteSets

CONSTANTS
  Queues,    \* queue_t pointers
  Nodes,     \* node pointers
  Elements,  \* what elementp points to
  NULL

ASSUME QueueAssumption ==
  /\ NULL \notin Nodes \cup Queues \cup Elements \cup Int
  /\ IsFiniteSet(Nodes)

VARIABLES
  open,        \* the queues that are allocated
  start, end,  \* the fields of struct queue
  allocated,   \* the nodes that are allocated
  data, next,  \* the fields of struct node
  ret,         \* what the last call returned, or handed to fn, in order
  orphaned     \* the nodes that no pointer leads to any more

queues == <<open, start, end>>
heap   == <<allocated, data, next>>
vars   == <<queues, heap, ret, orphaned>>

Init ==
  /\ open = {} /\ allocated = {}
  /\ start = [q \in Queues |-> NULL] /\ end = [q \in Queues |-> NULL]
  /\ data = [n \in Nodes |-> NULL] /\ next = [n \in Nodes |-> NULL]
  /\ ret = <<>> /\ orphaned = {}

-----------------------------------------------------------------------------
\* current = q->start, then current = current->next, as often as k says.
Walk(q, k) ==
  LET current[i \in Nat] ==
        IF i = 0 THEN start[q]
        ELSE IF current[i - 1] = NULL THEN NULL ELSE next[current[i - 1]]
  IN  current[k]

\* The number of nodes the loops over a queue visit.
Length(q) ==
  CHOOSE k \in 0..Cardinality(Nodes) :
    Walk(q, k) = NULL /\ \A j \in 0..(k - 1) : Walk(q, j) # NULL

Chain(q) == [i \in 1..Length(q) |-> Walk(q, i - 1)]

Contents(q) == [i \in 1..Length(q) |-> data[Chain(q)[i]]]

\* The node at which the loop with the test searchfn stops.
Matches(q, Found) == {i \in 1..Length(q) : Contents(q)[i] \in Found}
First(q, Found) == CHOOSE i \in Matches(q, Found) : \A j \in Matches(q, Found) : i <= j

-----------------------------------------------------------------------------
QOpen(q) ==
  /\ q \notin open
  /\ open' = open \cup {q}
  /\ start' = [start EXCEPT ![q] = NULL] /\ end' = [end EXCEPT ![q] = NULL]
  /\ ret' = <<q>>
  /\ UNCHANGED <<heap, orphaned>>

\* malloc returns NULL in qopen.
QOpenFails == ret' = <<NULL>> /\ UNCHANGED <<queues, heap, orphaned>>

QClose(q) ==
  /\ allocated' = allocated \ {Chain(q)[i] : i \in 1..Length(q)}
  /\ open' = open \ {q}
  /\ ret' = <<NULL>>
  /\ UNCHANGED <<start, end, data, next, orphaned>>

QPut(q, e) ==
  \E store \in Nodes \ allocated :
    /\ allocated' = allocated \cup {store}
    /\ data' = [data EXCEPT ![store] = e]
    /\ IF start[q] = NULL
       THEN /\ start' = [start EXCEPT ![q] = store]
            /\ next' = [next EXCEPT ![store] = NULL]
       ELSE /\ next' = [[next EXCEPT ![store] = NULL] EXCEPT ![end[q]] = store]
            /\ UNCHANGED start
    /\ end' = [end EXCEPT ![q] = store]
    /\ ret' = <<0>>
    /\ UNCHANGED <<open, orphaned>>

QPutFails(q) == ret' = <<-1>> /\ UNCHANGED <<queues, heap, orphaned>>

\* Faulty variant: the last node of a queue is not freed.
QGetLeaks(q) ==
  \/ /\ start[q] = NULL
     /\ ret' = <<NULL>>
     /\ UNCHANGED <<queues, heap, orphaned>>
  \/ /\ start[q] # NULL
     /\ ret' = <<data[start[q]]>>
     /\ IF start[q] = end[q]
        THEN /\ start' = [start EXCEPT ![q] = NULL] /\ end' = [end EXCEPT ![q] = NULL]
             /\ UNCHANGED allocated
        ELSE /\ start' = [start EXCEPT ![q] = next[start[q]]] /\ UNCHANGED end
             /\ allocated' = allocated \ {start[q]}
     /\ UNCHANGED <<open, data, next, orphaned>>

QGet(q) ==
  \/ /\ start[q] = NULL
     /\ ret' = <<NULL>>
     /\ UNCHANGED <<queues, heap, orphaned>>
  \/ /\ start[q] # NULL
     /\ ret' = <<data[start[q]]>>
     /\ allocated' = allocated \ {start[q]}
     /\ IF start[q] = end[q]
        THEN start' = [start EXCEPT ![q] = NULL] /\ end' = [end EXCEPT ![q] = NULL]
        ELSE start' = [start EXCEPT ![q] = next[start[q]]] /\ UNCHANGED end
     /\ UNCHANGED <<open, data, next, orphaned>>

\* fn is called on every element in turn; ret keeps the order of the calls.
QApply(q) == ret' = Contents(q) /\ UNCHANGED <<queues, heap, orphaned>>

QSearch(q, Found) ==
  /\ ret' = IF Matches(q, Found) = {} THEN <<NULL>> ELSE <<Contents(q)[First(q, Found)]>>
  /\ UNCHANGED <<queues, heap, orphaned>>

\* Faulty variant: the pointer to the last node is not moved back.
QRemoveKeepsEnd(q, Found) ==
  \/ /\ Matches(q, Found) = {}
     /\ ret' = <<NULL>>
     /\ UNCHANGED <<queues, heap, orphaned>>
  \/ /\ Matches(q, Found) # {}
     /\ LET i == First(q, Found)
            current == Chain(q)[i]
        IN  /\ ret' = <<data[current]>>
            /\ allocated' = allocated \ {current}
            /\ \/ /\ i = 1
                  /\ start' = [start EXCEPT ![q] = next[current]]
                  /\ end' = [end EXCEPT ![q] = IF next[current] = NULL THEN NULL ELSE @]
                  /\ UNCHANGED next
               \/ /\ i > 1
                  /\ next' = [next EXCEPT ![Chain(q)[i - 1]] = next[current]]
                  /\ UNCHANGED <<start, end>>
     /\ UNCHANGED <<open, data, orphaned>>

QRemove(q, Found) ==
  \/ /\ Matches(q, Found) = {}
     /\ ret' = <<NULL>>
     /\ UNCHANGED <<queues, heap, orphaned>>
  \/ /\ Matches(q, Found) # {}
     /\ LET i == First(q, Found)
            current == Chain(q)[i]
        IN  /\ ret' = <<data[current]>>
            /\ allocated' = allocated \ {current}
            /\ \/ /\ i = 1
                  /\ start' = [start EXCEPT ![q] = next[current]]
                  /\ end' = [end EXCEPT ![q] = IF next[current] = NULL THEN NULL ELSE @]
                  /\ UNCHANGED next
               \/ /\ i > 1
                  /\ next' = [next EXCEPT ![Chain(q)[i - 1]] = next[current]]
                  /\ end' = [end EXCEPT ![q] = IF current = @ THEN Chain(q)[i - 1] ELSE @]
                  /\ UNCHANGED start
     /\ UNCHANGED <<open, data, orphaned>>

\* Faulty variant: q1 keeps its pointer to the last node.
QConcatKeepsEnd(q1, q2) ==
  /\ open' = open \ {q2}
  /\ ret' = <<NULL>>
  /\ \/ /\ start[q2] = NULL
        /\ UNCHANGED <<start, end, next>>
     \/ /\ start[q2] # NULL
        /\ IF start[q1] = NULL
           THEN /\ start' = [start EXCEPT ![q1] = start[q2]] /\ UNCHANGED next
                /\ end' = [end EXCEPT ![q1] = end[q2]]
           ELSE next' = [next EXCEPT ![end[q1]] = start[q2]] /\ UNCHANGED <<start, end>>
  /\ UNCHANGED <<allocated, data, orphaned>>

\* The nodes of q2 move over to q1 and the struct of q2 is freed.
QConcat(q1, q2) ==
  /\ open' = open \ {q2}
  /\ ret' = <<NULL>>
  /\ \/ /\ start[q2] = NULL
        /\ UNCHANGED <<start, end, next>>
     \/ /\ start[q2] # NULL
        /\ IF start[q1] = NULL
           THEN start' = [start EXCEPT ![q1] = start[q2]] /\ UNCHANGED next
           ELSE next' = [next EXCEPT ![end[q1]] = start[q2]] /\ UNCHANGED start
        /\ end' = [end EXCEPT ![q1] = end[q2]]
  /\ UNCHANGED <<allocated, data, orphaned>>

\* With a NULL first queue only the struct of q2 is freed; its nodes stay
\* allocated with no pointer to them.
QConcatNull(q2) ==
  /\ open' = open \ {q2}
  /\ ret' = <<NULL>>
  /\ orphaned' = orphaned \cup {Chain(q2)[i] : i \in 1..Length(q2)}
  /\ UNCHANGED <<start, end, heap>>

Next ==
  \/ QOpenFails
  \/ \E q \in Queues : QOpen(q)
  \/ \E q \in open :
       \/ QClose(q) \/ QPutFails(q) \/ QGet(q) \/ QApply(q) \/ QConcatNull(q)
       \/ \E e \in Elements : QPut(q, e)
       \/ \E Found \in SUBSET Elements : QSearch(q, Found) \/ QRemove(q, Found)
       \/ \E q2 \in open \ {q} : QConcat(q, q2)

Spec == Init /\ [][Next]_vars

-----------------------------------------------------------------------------
\* Every open queue is a list without cycle of allocated nodes, end is its last
\* node, and no node is in two queues: no operation leaves a pointer to a node
\* that was freed or that another queue still uses.
WellFormed ==
  /\ \A q \in open :
       /\ \E k \in 0..Cardinality(Nodes) : Walk(q, k) = NULL
       /\ end[q] = IF Length(q) = 0 THEN NULL ELSE Chain(q)[Length(q)]
       /\ \A i \in 1..Length(q) : Chain(q)[i] \in allocated
  /\ \A p, q \in open : \A i \in 1..Length(p), j \in 1..Length(q) :
       Chain(p)[i] = Chain(q)[j] => p = q /\ i = j

\* Every allocated node is in an open queue, except those qconcat(NULL, q2) drops:
\* no other operation leaks, and qclose and qget free what they take out.
NoLeak ==
  /\ allocated = orphaned \cup UNION {{Chain(q)[i] : i \in 1..Length(q)} : q \in open}
  /\ \A q \in open : \A i \in 1..Length(q) : Chain(q)[i] \notin orphaned

\* Seen through the interface, the pointers are sequences.
Interface == INSTANCE Fifo WITH contents <- [q \in open |-> Contents(q)]
ImplementsFifo == Interface!Spec

=============================================================================
