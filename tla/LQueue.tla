------------------------------- MODULE LQueue -------------------------------
(***************************************************************************)
(* utils/lqueue.c: a queue of module3/queue behind one mutex, as threads   *)
(* use it.  The operations of queue.c are broken into the reads and writes *)
(* of the fields that other threads could see between two of them.         *)
(***************************************************************************)
EXTENDS Queue

CONSTANTS
  Threads,
  NoThread,  \* the owner of a free mutex
  MaxOps     \* bound: calls per thread

ASSUME LQueueAssumption ==
  /\ IsFiniteSet(Threads) /\ NoThread \notin Threads
  /\ Queues # {}
  /\ MaxOps \in Nat

VARIABLES
  m,          \* lqp->m
  pc,         \* per thread: where it is in a call
  node,       \* per thread: store in qput, current in qapply and qsearch
  item,       \* per thread: elementp, and the result of a call
  seen,       \* per thread: the elements qapply or qsearch has looked at
  calls,      \* per thread: calls made
  puts, gets  \* the elements put and taken so far, in order

thread == <<pc, node, item, seen, calls>>
lvars  == <<vars, m, thread, puts, gets>>

lq == CHOOSE q \in Queues : TRUE

\* lqopen has returned and the threads have been created.
LInit ==
  /\ open = {lq} /\ allocated = {}
  /\ start = [q \in Queues |-> NULL] /\ end = [q \in Queues |-> NULL]
  /\ data = [n \in Nodes |-> NULL] /\ next = [n \in Nodes |-> NULL]
  /\ ret = <<>> /\ orphaned = {}
  /\ m = NoThread
  /\ pc = [t \in Threads |-> "idle"]
  /\ node = [t \in Threads |-> NULL]
  /\ item = [t \in Threads |-> NULL]
  /\ seen = [t \in Threads |-> <<>>]
  /\ calls = [t \in Threads |-> 0]
  /\ puts = <<>> /\ gets = <<>>

Goto(t, label) == pc' = [pc EXCEPT ![t] = label]

-----------------------------------------------------------------------------
\* Faulty variant: lqput forgets to lock.
CallPutUnlocked(t, op, e) ==
  /\ pc[t] = "idle" /\ lq \in open /\ calls[t] < MaxOps
  /\ IF op = "put" THEN UNCHANGED m ELSE m = NoThread /\ m' = t
  /\ calls' = [calls EXCEPT ![t] = @ + 1]
  /\ item' = [item EXCEPT ![t] = e]
  /\ seen' = [seen EXCEPT ![t] = <<>>]
  /\ Goto(t, op)
  /\ UNCHANGED <<vars, node, puts, gets>>

\* Faulty variant: lqapply forgets to lock.
CallApplyUnlocked(t, op, e) ==
  /\ pc[t] = "idle" /\ lq \in open /\ calls[t] < MaxOps
  /\ IF op = "apply" THEN UNCHANGED m ELSE m = NoThread /\ m' = t
  /\ calls' = [calls EXCEPT ![t] = @ + 1]
  /\ item' = [item EXCEPT ![t] = e]
  /\ seen' = [seen EXCEPT ![t] = <<>>]
  /\ Goto(t, op)
  /\ UNCHANGED <<vars, node, puts, gets>>

\* A thread calls lqput, lqget, lqapply or lqsearch; e is elementp or the key.
Call(t, op, e) ==
  /\ pc[t] = "idle" /\ lq \in open /\ calls[t] < MaxOps
  /\ m = NoThread /\ m' = t
  /\ calls' = [calls EXCEPT ![t] = @ + 1]
  /\ item' = [item EXCEPT ![t] = e]
  /\ seen' = [seen EXCEPT ![t] = <<>>]
  /\ Goto(t, op)
  /\ UNCHANGED <<vars, node, puts, gets>>

Unlock(t) ==
  /\ pc[t] = "unlock"
  /\ m' = NoThread
  /\ Goto(t, "idle")
  /\ UNCHANGED <<vars, node, item, seen, calls, puts, gets>>

\* qput: the new node is filled in, linked behind the last one, and made the last.
PutNode(t) ==
  /\ pc[t] = "put"
  /\ \/ \E store \in Nodes \ allocated :
          /\ allocated' = allocated \cup {store}
          /\ data' = [data EXCEPT ![store] = item[t]]
          /\ next' = [next EXCEPT ![store] = NULL]
          /\ node' = [node EXCEPT ![t] = store]
          /\ Goto(t, "link")
     \/ Goto(t, "unlock") /\ UNCHANGED <<heap, node>>
  /\ UNCHANGED <<queues, ret, orphaned, m, item, seen, calls, puts, gets>>

PutLink(t) ==
  /\ pc[t] = "link"
  /\ \/ /\ start[lq] = NULL
        /\ start' = [start EXCEPT ![lq] = node[t]]
        /\ UNCHANGED next
     \/ /\ start[lq] # NULL
        /\ next' = [next EXCEPT ![end[lq]] = node[t]]
        /\ UNCHANGED start
  /\ Goto(t, "last")
  /\ UNCHANGED <<open, end, allocated, data, ret, orphaned, m, node, item, seen, calls, puts, gets>>

PutLast(t) ==
  /\ pc[t] = "last"
  /\ end' = [end EXCEPT ![lq] = node[t]]
  /\ puts' = Append(puts, item[t])
  /\ Goto(t, "unlock")
  /\ UNCHANGED <<open, start, heap, ret, orphaned, m, node, item, seen, calls, gets>>

\* Faulty variant: an empty queue is waited on with the mutex held.
GetReadWaits(t) ==
  /\ pc[t] = "get"
  /\ node' = [node EXCEPT ![t] = start[lq]]
  /\ item' = [item EXCEPT ![t] = IF start[lq] = NULL THEN NULL ELSE data[start[lq]]]
  /\ Goto(t, IF start[lq] = NULL THEN "get" ELSE "unlink")
  /\ UNCHANGED <<vars, m, seen, calls, puts, gets>>

\* qget: the element of the first node is read, then the node is unlinked and freed.
GetRead(t) ==
  /\ pc[t] = "get"
  /\ node' = [node EXCEPT ![t] = start[lq]]
  /\ item' = [item EXCEPT ![t] = IF start[lq] = NULL THEN NULL ELSE data[start[lq]]]
  /\ Goto(t, IF start[lq] = NULL THEN "unlock" ELSE "unlink")
  /\ UNCHANGED <<vars, m, seen, calls, puts, gets>>

GetUnlink(t) ==
  /\ pc[t] = "unlink"
  /\ IF start[lq] = end[lq]
     THEN start' = [start EXCEPT ![lq] = NULL] /\ end' = [end EXCEPT ![lq] = NULL]
     ELSE start' = [start EXCEPT ![lq] = next[node[t]]] /\ UNCHANGED end
  /\ allocated' = allocated \ {node[t]}
  /\ node' = [node EXCEPT ![t] = NULL]
  /\ gets' = Append(gets, item[t])
  /\ Goto(t, "unlock")
  /\ UNCHANGED <<open, data, next, ret, orphaned, m, item, seen, calls, puts>>

\* qapply and qsearch: one node after the other, up to the end or to a match.
WalkFirst(t) ==
  /\ pc[t] \in {"apply", "search"}
  /\ node' = [node EXCEPT ![t] = start[lq]]
  /\ Goto(t, IF pc[t] = "apply" THEN "applying" ELSE "searching")
  /\ UNCHANGED <<vars, m, item, seen, calls, puts, gets>>

WalkNext(t) ==
  /\ pc[t] \in {"applying", "searching"} /\ node[t] # NULL
  /\ seen' = [seen EXCEPT ![t] = Append(@, data[node[t]])]
  /\ IF pc[t] = "searching" /\ data[node[t]] = item[t]
     THEN Goto(t, "unlock") /\ UNCHANGED node
     ELSE node' = [node EXCEPT ![t] = next[node[t]]] /\ UNCHANGED pc
  /\ UNCHANGED <<vars, m, item, calls, puts, gets>>

WalkEnd(t) ==
  /\ pc[t] \in {"applying", "searching"} /\ node[t] = NULL
  /\ item' = [item EXCEPT ![t] = NULL]
  /\ Goto(t, "unlock")
  /\ UNCHANGED <<vars, m, node, seen, calls, puts, gets>>

ThreadStep(t) ==
  \/ \E e \in Elements, op \in {"put", "search"} : Call(t, op, e)
  \/ \E op \in {"get", "apply"} : Call(t, op, NULL)
  \/ PutNode(t) \/ PutLink(t) \/ PutLast(t)
  \/ GetRead(t) \/ GetUnlink(t)
  \/ WalkFirst(t) \/ WalkNext(t) \/ WalkEnd(t)
  \/ Unlock(t)

\* lqclose, called once the threads have been joined.
Close ==
  /\ \A t \in Threads : pc[t] = "idle" /\ calls[t] = MaxOps
  /\ m = NoThread
  /\ lq \in open
  /\ open' = {}
  /\ allocated' = allocated \ {Chain(lq)[i] : i \in 1..Length(lq)}
  /\ UNCHANGED <<start, end, data, next, ret, orphaned, m, thread, puts, gets>>

Closed == open = {} /\ UNCHANGED lvars

LNext == Close \/ Closed \/ \E t \in Threads : ThreadStep(t)

\* Threads are scheduled fairly, the one that joins and closes included.
LSpec ==
  /\ LInit /\ [][LNext]_lvars
  /\ WF_lvars(Close)
  /\ \A t \in Threads : WF_lvars(ThreadStep(t))

-----------------------------------------------------------------------------
\* While nobody is inside, the queue holds what was put and not yet taken, in the
\* order it was put: no element is lost, taken twice or overtaken.
FirstInFirstOut == m = NoThread /\ lq \in open => puts = gets \o Contents(lq)

\* A traversal sees the queue as it was at one moment.
Snapshot ==
  \A t \in Threads : pc[t] = "unlock" /\ seen[t] # <<>> =>
    \E n \in 0..Length(lq) : seen[t] = SubSeq(Contents(lq), 1, n)

\* No thread follows a pointer to a node that was freed, and lqclose frees all.
NoDangling ==
  /\ \A t \in Threads :
       pc[t] \in {"link", "last", "unlink", "applying", "searching"} /\ node[t] # NULL =>
         node[t] \in allocated
  /\ open = {} => allocated = {}

\* Every call returns, so that the threads are joined and the queue is closed.
EveryCallReturns == <>(open = {})

=============================================================================
