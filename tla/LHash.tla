-------------------------------- MODULE LHash -------------------------------
(***************************************************************************)
(* utils/lhash.c: a hash table of module Hash behind one mutex, as threads *)
(* use it.  hput is broken into the reads and writes of the array and of   *)
(* the bucket that other threads could come between.                       *)
(***************************************************************************)
EXTENDS Hash

CONSTANTS
  Threads,
  NoThread   \* the owner of a free mutex

\* An entry is never a NULL pointer: lhremove could not return it.
ASSUME LHashAssumption == NoThread \notin Threads /\ NULL \notin Entries

VARIABLES
  m,        \* lhtp->m
  pc,       \* per thread: where it is in a call
  arg,      \* per thread: the entry or the key it was called with
  bucket,   \* per thread: the queue it read from the array
  stored,   \* entries that lhput has accepted
  removed   \* how often lhremove has returned an entry

lvars == <<vars, m, pc, arg, bucket, stored, removed>>

\* lhopen has returned and the threads have been created.
LInit ==
  /\ Init
  /\ m = NoThread
  /\ pc = [t \in Threads |-> "idle"]
  /\ arg = [t \in Threads |-> NULL]
  /\ bucket = [t \in Threads |-> NoQueue]
  /\ stored = {} /\ removed = [e \in Entries |-> 0]

Goto(t, label) == pc' = [pc EXCEPT ![t] = label]

\* Faulty variant: lhput forgets to lock.
CallPutUnlocked(t, op, a) ==
  /\ pc[t] = "idle"
  /\ IF op = "put" THEN UNCHANGED m ELSE m = NoThread /\ m' = t
  /\ arg' = [arg EXCEPT ![t] = a]
  /\ Goto(t, op)
  /\ UNCHANGED <<vars, bucket, stored, removed>>

Call(t, op, a) ==
  /\ pc[t] = "idle"
  /\ m = NoThread /\ m' = t
  /\ arg' = [arg EXCEPT ![t] = a]
  /\ Goto(t, op)
  /\ UNCHANGED <<vars, bucket, stored, removed>>

Unlock(t) ==
  /\ pc[t] = "unlock"
  /\ m' = NoThread
  /\ arg' = [arg EXCEPT ![t] = NULL]
  /\ bucket' = [bucket EXCEPT ![t] = NoQueue]
  /\ Goto(t, "idle")
  /\ UNCHANGED <<vars, stored, removed>>

\* hput: open the queue of the bucket if there is none, then append to it; qput
\* reads the end of the queue and writes it.
PutOpen(t) ==
  /\ pc[t] = "put"
  /\ LET i == Hashed[KeyOf[arg[t]]]
     IN  \/ /\ queues[i] # NoQueue
            /\ UNCHANGED <<queues, ret>>
            /\ Goto(t, "read")
         \/ /\ queues[i] = NoQueue
            /\ queues' = [queues EXCEPT ![i] = <<>>]
            /\ UNCHANGED ret
            /\ Goto(t, "read")
         \/ /\ queues[i] = NoQueue   \* qopen fails, and qput refuses the NULL queue
            /\ ret' = <<-1>>
            /\ UNCHANGED queues
            /\ Goto(t, "unlock")
  /\ UNCHANGED <<m, arg, bucket, stored, removed>>

PutRead(t) ==
  /\ pc[t] = "read"
  /\ bucket' = [bucket EXCEPT ![t] = queues[Hashed[KeyOf[arg[t]]]]]
  /\ Goto(t, "append")
  /\ UNCHANGED <<vars, m, arg, stored, removed>>

PutAppend(t) ==
  /\ pc[t] = "append"
  /\ \/ /\ queues' = [queues EXCEPT ![Hashed[KeyOf[arg[t]]]] = Append(bucket[t], arg[t])]
        /\ stored' = stored \cup {arg[t]}
        /\ ret' = <<0>>
     \/ ret' = <<-1>> /\ UNCHANGED <<queues, stored>>
  /\ Goto(t, "unlock")
  /\ UNCHANGED <<m, arg, bucket, removed>>

SearchKey(t) ==
  /\ pc[t] = "search"
  /\ HSearch(arg[t])
  /\ Goto(t, "unlock")
  /\ UNCHANGED <<m, arg, bucket, stored, removed>>

RemoveKey(t) ==
  /\ pc[t] = "remove"
  /\ HRemove(arg[t])
  /\ removed' = [e \in Entries |-> removed[e] + IF ret' = <<e>> THEN 1 ELSE 0]
  /\ Goto(t, "unlock")
  /\ UNCHANGED <<m, arg, bucket, stored>>

ApplyAll(t) ==
  /\ pc[t] = "apply"
  /\ HApply
  /\ Goto(t, "unlock")
  /\ UNCHANGED <<m, arg, bucket, stored, removed>>

\* An entry is put by one thread only, once.
Fresh(e) ==
  e \notin stored /\ \A s \in Threads : arg[s] # e

ThreadStep(t) ==
  \/ \E e \in Entries : Fresh(e) /\ Call(t, "put", e)
  \/ \E k \in AllKeys, op \in {"search", "remove"} : Call(t, op, k)
  \/ Call(t, "apply", NULL)
  \/ PutOpen(t) \/ PutRead(t) \/ PutAppend(t)
  \/ SearchKey(t) \/ RemoveKey(t) \/ ApplyAll(t)
  \/ Unlock(t)

\* lhclose, called once the threads have been joined.
Close ==
  /\ \A t \in Threads : pc[t] = "idle"
  /\ HClose
  /\ m = NoThread
  /\ pc' = [t \in Threads |-> "closed"]
  /\ UNCHANGED <<m, arg, bucket, stored, removed>>

Closed == (\A t \in Threads : pc[t] = "closed") /\ UNCHANGED lvars

LNext == Close \/ Closed \/ \E t \in Threads : ThreadStep(t)

LSpec == LInit /\ [][LNext]_lvars

-----------------------------------------------------------------------------
Present == UNION {{Bucket(i)[j] : j \in DOMAIN Bucket(i)} : i \in Index}

\* Every entry that lhput accepted is in the table until one lhremove returns it,
\* and no two calls of lhremove return the same entry.
NothingLost ==
  /\ m = NoThread /\ (\E t \in Threads : pc[t] # "closed") =>
       Present = {e \in stored : removed[e] = 0}
  /\ \A e \in Entries : removed[e] <= 1

=============================================================================
