----------------------------- MODULE LHashProofs ----------------------------
(***************************************************************************)
(* Proofs about the locked hash table, for any number of threads, keys,    *)
(* entries and buckets: the mutex makes the steps of hput one step, so     *)
(* that no entry is lost, none is removed twice, and all that are in the   *)
(* table are found under their keys.                                       *)
(***************************************************************************)
EXTENDS LHash, Lemmas

Labels == {"idle", "put", "read", "append", "search", "remove", "apply", "unlock", "closed"}

\* Threads in these places are not in a call.
Outside == {"idle", "closed"}

\* The types of the variables.
LTypeInv ==
  /\ queues \in [Index -> Seq(Entries) \cup {NoQueue}]
  /\ pc \in [Threads -> Labels]
  /\ DOMAIN arg = Threads /\ DOMAIN bucket = Threads
  /\ stored \subseteq Entries
  /\ removed \in [Entries -> 0..1]

\* Whoever is inside a call holds the mutex, and nobody else does; the table is
\* closed for all threads at once.
MutexInv ==
  /\ \A t \in Threads : pc[t] \notin Outside <=> m = t
  /\ (\E t \in Threads : pc[t] = "closed") => \A t \in Threads : pc[t] = "closed"

IsOpen == \E t \in Threads : pc[t] # "closed"

\* The entries that were accepted and not removed.
Kept == {e \in stored : removed[e] = 0}

\* A bucket holds the kept entries of its hash value, each of them once.
BucketInv(i) ==
  /\ InQueue(Bucket(i)) = {e \in Kept : Hashed[KeyOf[e]] = i}
  /\ \A j, k \in DOMAIN Bucket(i) : Bucket(i)[j] = Bucket(i)[k] => j = k

TableInv ==
  /\ IsOpen => \A i \in Index : BucketInv(i)
  /\ \A e \in Entries \ stored : removed[e] = 0

\* What a thread inside a call has in its hands.
Holding(t) ==
  /\ pc[t] \in {"put", "read", "append"} => arg[t] \in Entries \ stored
  /\ pc[t] \in {"read", "append"} => queues[Hashed[KeyOf[arg[t]]]] # NoQueue
  /\ pc[t] = "append" => bucket[t] = queues[Hashed[KeyOf[arg[t]]]]
  /\ pc[t] \in {"search", "remove"} => arg[t] \in AllKeys

LHashInv ==
  /\ LTypeInv /\ MutexInv /\ TableInv
  /\ \A t \in Threads : Holding(t)

-----------------------------------------------------------------------------
(***************************************************************************)
(* Buckets.                                                                *)
(***************************************************************************)
\* A bucket is a sequence of entries, empty as long as its queue is not open.
BucketFact ==
  queues \in [Index -> Seq(Entries) \cup {NoQueue}] =>
    \A i \in Index : /\ Bucket(i) \in Seq(Entries)
                     /\ queues[i] # NoQueue => Bucket(i) = queues[i]
                     /\ queues[i] = NoQueue => Bucket(i) = <<>>

\* The type of a bucket.
LEMMA Buckets == BucketFact
BY DEF BucketFact, Bucket

\* A key has its bucket.
LEMMA KeyBucket ==
  /\ \A k \in AllKeys : Hashed[k] \in Index
  /\ \A e \in Entries : KeyOf[e] \in AllKeys /\ Hashed[KeyOf[e]] \in Index
BY HashAssumption

\* Writing one bucket leaves the others alone.
LEMMA OneBucket ==
  ASSUME queues \in [Index -> Seq(Entries) \cup {NoQueue}], NEW i \in Index, NEW s \in Seq(Entries),
         queues' = [queues EXCEPT ![i] = s]
  PROVE  /\ queues' \in [Index -> Seq(Entries) \cup {NoQueue}]
         /\ queues'[i] = s /\ s # NoQueue
         /\ Bucket(i)' = s /\ \A k \in Index \ {i} : Bucket(k)' = Bucket(k)
<1>1. queues' \in [Index -> Seq(Entries) \cup {NoQueue}] /\ queues'[i] = s /\ s # NoQueue
  BY HashAssumption
<1>2. Bucket(i)' = s
  BY <1>1 DEF Bucket
<1>3. \A k \in Index \ {i} : Bucket(k)' = Bucket(k)
  BY DEF Bucket
<1> QED
  BY <1>1, <1>2, <1>3

\* What is known of a thread inside a call.
LEMMA Inside ==
  ASSUME LHashInv, NEW t \in Threads, pc[t] \notin Outside
  PROVE  /\ m = t /\ IsOpen /\ Holding(t)
         /\ \A u \in Threads \ {t} : pc[u] = "idle"
<1>1. m = t /\ \A u \in Threads \ {t} : pc[u] \in Outside
  BY DEF LHashInv, MutexInv
<1>2. pc[t] # "closed"
  BY DEF Outside
<1>3. \A u \in Threads : pc[u] # "closed"
  BY <1>2 DEF LHashInv, MutexInv
<1> QED
  BY <1>1, <1>2, <1>3 DEF LHashInv, IsOpen, Outside

\* A step inside a call changes nobody else: what is left to show.
LEMMA StepInside ==
  ASSUME LHashInv, NEW t \in Threads, pc[t] \notin Outside, NEW l \in Labels \ Outside,
         pc' = [pc EXCEPT ![t] = l], m' = m
  PROVE  /\ MutexInv' /\ pc'[t] = l /\ pc' \in [Threads -> Labels]
         /\ \A u \in Threads \ {t} : Holding(u)'
<1>1. pc \in [Threads -> Labels] /\ m = t /\ \A u \in Threads \ {t} : pc[u] = "idle"
  BY Inside DEF LHashInv, LTypeInv
<1>2. pc'[t] = l /\ pc' \in [Threads -> Labels] /\ \A u \in Threads \ {t} : pc'[u] = "idle"
  BY <1>1
<1>3. MutexInv'
  BY <1>1, <1>2 DEF MutexInv, Outside
<1>4. \A u \in Threads \ {t} : Holding(u)'
  BY <1>2 DEF Holding
<1> QED
  BY <1>2, <1>3, <1>4

\* As long as the buckets hold the same, and so do the counters, the table is right.
LEMMA TableStays ==
  ASSUME TableInv, \A i \in Index : Bucket(i)' = Bucket(i), stored' = stored, removed' = removed,
         IsOpen' => IsOpen
  PROVE  TableInv'
<1>1. Kept' = Kept
  BY DEF Kept
<1>2. ASSUME IsOpen', NEW i \in Index PROVE BucketInv(i)'
  <2>1. BucketInv(i) /\ Bucket(i)' = Bucket(i)
    BY <1>2 DEF TableInv
  <2> QED
    BY <1>1, <2>1 DEF BucketInv
<1> QED
  BY <1>2 DEF TableInv, Index

-----------------------------------------------------------------------------
(***************************************************************************)
(* Every step keeps the invariant.                                         *)
(***************************************************************************)
LEMMA LInitInv == LInit => LHashInv
<1> SUFFICES ASSUME LInit PROVE LHashInv
  OBVIOUS
<1>1. /\ queues = [i \in Index |-> NoQueue] /\ m = NoThread /\ NoThread \notin Threads
      /\ pc = [t \in Threads |-> "idle"] /\ stored = {} /\ removed = [e \in Entries |-> 0]
      /\ arg = [t \in Threads |-> NULL] /\ bucket = [t \in Threads |-> NoQueue]
  BY LHashAssumption DEF LInit, Init
<1>2. LTypeInv
  BY <1>1 DEF LTypeInv, Labels
<1>3. MutexInv
  BY <1>1 DEF MutexInv, Outside
<1>4. TableInv
  <2>1. Kept = {} /\ \A i \in Index : Bucket(i) = <<>>
    BY <1>1 DEF Kept, Bucket
  <2>2. \A i \in Index : BucketInv(i)
    BY <2>1 DEF BucketInv, InQueue
  <2> QED
    BY <1>1, <2>2 DEF TableInv
<1>5. \A t \in Threads : Holding(t)
  BY <1>1 DEF Holding
<1> QED
  BY <1>2, <1>3, <1>4, <1>5 DEF LHashInv

\* Steps inside a call that leave what the buckets hold as it is.
LEMMA QuietStep ==
  ASSUME LHashInv, NEW t \in Threads, pc[t] \notin Outside, NEW l \in Labels \ Outside,
         pc' = [pc EXCEPT ![t] = l], UNCHANGED <<m, stored, removed, arg>>,
         DOMAIN bucket' = Threads,
         queues' \in [Index -> Seq(Entries) \cup {NoQueue}],
         \A i \in Index : Bucket(i)' = Bucket(i),
         Holding(t)'
  PROVE  LHashInv'
<1>1. MutexInv' /\ pc' \in [Threads -> Labels] /\ \A u \in Threads \ {t} : Holding(u)'
  BY StepInside
<1>2. LTypeInv'
  BY <1>1 DEF LHashInv, LTypeInv
<1>3. TableInv'
  <2>1. IsOpen /\ TableInv
    BY Inside DEF LHashInv
  <2> QED
    BY <2>1, TableStays
<1> QED
  BY <1>1, <1>2, <1>3 DEF LHashInv

\* A call takes the mutex when nobody holds it.
LEMMA CallInv ==
  ASSUME LHashInv, NEW t \in Threads, NEW op \in {"put", "search", "remove", "apply"}, NEW a,
         Call(t, op, a), op = "put" => a \in Entries \ stored,
         op \in {"search", "remove"} => a \in AllKeys
  PROVE  LHashInv'
<1>1. /\ pc[t] = "idle" /\ m = NoThread /\ m' = t /\ m \notin Threads
      /\ arg' = [arg EXCEPT ![t] = a] /\ pc' = [pc EXCEPT ![t] = op]
      /\ queues' = queues /\ bucket' = bucket /\ stored' = stored /\ removed' = removed
  BY LHashAssumption DEF Call, Goto, vars
<1>2. LTypeInv /\ TableInv /\ MutexInv
  BY DEF LHashInv
<1>3. \A u \in Threads : pc[u] = "idle"
  BY <1>1, <1>2 DEF MutexInv, Outside
<1>4. pc'[t] = op /\ arg'[t] = a /\ \A u \in Threads \ {t} : pc'[u] = "idle"
  BY <1>1, <1>2, <1>3 DEF LTypeInv
<1>5. LTypeInv'
  BY <1>1, <1>2 DEF LTypeInv, Labels
<1>6. MutexInv'
  BY <1>1, <1>4 DEF MutexInv, Outside
<1>7. TableInv'
  <2>1. IsOpen /\ \A i \in Index : Bucket(i)' = Bucket(i)
    BY <1>1, <1>3 DEF IsOpen, Bucket
  <2> QED
    BY <1>1, <1>2, <2>1, TableStays
<1>8. \A u \in Threads : Holding(u)'
  BY <1>1, <1>4 DEF Holding
<1> QED
  BY <1>5, <1>6, <1>7, <1>8 DEF LHashInv

\* The end of a call gives the mutex back.
LEMMA UnlockInv ==
  ASSUME LHashInv, NEW t \in Threads, Unlock(t)
  PROVE  LHashInv'
<1>1. /\ pc[t] = "unlock" /\ m' = NoThread /\ m' \notin Threads
      /\ pc' = [pc EXCEPT ![t] = "idle"]
      /\ arg' = [arg EXCEPT ![t] = NULL] /\ bucket' = [bucket EXCEPT ![t] = NoQueue]
      /\ queues' = queues /\ stored' = stored /\ removed' = removed
  BY LHashAssumption DEF Unlock, Goto, vars
<1>2. LTypeInv /\ TableInv /\ IsOpen /\ \A u \in Threads \ {t} : pc[u] = "idle"
  BY <1>1, Inside DEF LHashInv, Outside
<1>3. \A u \in Threads : pc'[u] = "idle"
  BY <1>1, <1>2 DEF LTypeInv
<1>4. LTypeInv'
  BY <1>1, <1>2 DEF LTypeInv, Labels
<1>5. MutexInv'
  BY <1>1, <1>3 DEF MutexInv, Outside
<1>6. TableInv'
  <2>1. \A i \in Index : Bucket(i)' = Bucket(i)
    BY <1>1 DEF Bucket
  <2> QED
    BY <1>1, <1>2, <2>1, TableStays
<1>7. \A u \in Threads : Holding(u)'
  BY <1>3 DEF Holding
<1> QED
  BY <1>4, <1>5, <1>6, <1>7 DEF LHashInv

\* Opening its queue does not change what a bucket holds.
LEMMA PutOpenBuckets ==
  ASSUME LHashInv, NEW t \in Threads, PutOpen(t)
  PROVE  queues' \in [Index -> Seq(Entries) \cup {NoQueue}] /\ \A k \in Index : Bucket(k)' = Bucket(k)
<1>1. PICK i : i = Hashed[KeyOf[arg[t]]]
  OBVIOUS
<1>2. queues' = queues \/ (queues[i] = NoQueue /\ queues' = [queues EXCEPT ![i] = <<>>])
  BY <1>1 DEF PutOpen
<1>3. LTypeInv /\ i \in Index
  <2>1. Holding(t) /\ LTypeInv /\ pc[t] = "put"
    BY DEF LHashInv, PutOpen
  <2> QED
    BY <1>1, <2>1, KeyBucket DEF Holding
<1>4. CASE queues' = queues
  BY <1>3, <1>4 DEF LTypeInv, Bucket
<1>5. CASE queues[i] = NoQueue /\ queues' = [queues EXCEPT ![i] = <<>>]
  <2>1. /\ queues' \in [Index -> Seq(Entries) \cup {NoQueue}] /\ Bucket(i)' = <<>>
        /\ \A k \in Index \ {i} : Bucket(k)' = Bucket(k)
    <3>1. <<>> \in Seq(Entries) /\ queues \in [Index -> Seq(Entries) \cup {NoQueue}]
      BY <1>3 DEF LTypeInv
    <3>2. PICK s : s = <<>>
      OBVIOUS
    <3>3. s \in Seq(Entries) /\ queues' = [queues EXCEPT ![i] = s]
      BY <1>5, <3>1, <3>2
    <3>4. /\ queues' \in [Index -> Seq(Entries) \cup {NoQueue}] /\ Bucket(i)' = s
          /\ \A k \in Index \ {i} : Bucket(k)' = Bucket(k)
      BY <1>3, <3>1, <3>3, OneBucket
    <3> QED
      BY <3>2, <3>4
  <2>2. Bucket(i) = <<>>
    BY <1>5 DEF Bucket
  <2> QED
    BY <2>1, <2>2
<1> QED
  BY <1>2, <1>4, <1>5

\* hput opens the queue of the bucket, or qopen fails.
LEMMA PutOpenInv ==
  ASSUME LHashInv, NEW t \in Threads, PutOpen(t)
  PROVE  LHashInv'
<1>1. PICK i : i = Hashed[KeyOf[arg[t]]]
  OBVIOUS
<1>2. /\ pc[t] = "put" /\ UNCHANGED <<m, arg, bucket, stored, removed>>
      /\ \/ /\ queues[i] # NoQueue /\ queues' = queues /\ pc' = [pc EXCEPT ![t] = "read"]
         \/ /\ queues[i] = NoQueue /\ queues' = [queues EXCEPT ![i] = <<>>]
            /\ pc' = [pc EXCEPT ![t] = "read"]
         \/ /\ queues[i] = NoQueue /\ queues' = queues /\ pc' = [pc EXCEPT ![t] = "unlock"]
  BY <1>1 DEF PutOpen, Goto
<1>3. LTypeInv /\ arg[t] \in Entries \ stored /\ i \in Index
  <2>1. Holding(t) /\ LTypeInv
    BY DEF LHashInv
  <2> QED
    BY <1>1, <1>2, <2>1, KeyBucket DEF Holding
<1>4. PICK l \in {"read", "unlock"} : pc' = [pc EXCEPT ![t] = l] /\ (l = "read" => queues'[i] # NoQueue)
  <2>1. CASE queues[i] # NoQueue /\ queues' = queues /\ pc' = [pc EXCEPT ![t] = "read"]
    BY <2>1
  <2>2. CASE queues' = [queues EXCEPT ![i] = <<>>] /\ pc' = [pc EXCEPT ![t] = "read"]
    <3>1. queues'[i] = <<>> /\ <<>> \in Seq(Entries)
      BY <1>3, <2>2 DEF LTypeInv
    <3> QED
      BY <2>2, <3>1, HashAssumption
  <2>3. CASE queues' = queues /\ pc' = [pc EXCEPT ![t] = "unlock"]
    BY <2>3
  <2> QED
    BY <1>2, <2>1, <2>2, <2>3
<1>5. queues' \in [Index -> Seq(Entries) \cup {NoQueue}] /\ \A k \in Index : Bucket(k)' = Bucket(k)
  BY PutOpenBuckets
<1>6. pc'[t] = l
  BY <1>3, <1>4 DEF LTypeInv
<1>7. Holding(t)'
  BY <1>1, <1>2, <1>3, <1>4, <1>6 DEF Holding
<1>8. pc[t] \notin Outside /\ l \in Labels \ Outside /\ DOMAIN bucket' = Threads
  BY <1>2, <1>3, <1>4 DEF Outside, Labels, LTypeInv
<1> QED
  BY <1>2, <1>4, <1>5, <1>7, <1>8, QuietStep

\* qput reads the end of the queue.
LEMMA PutReadInv ==
  ASSUME LHashInv, NEW t \in Threads, PutRead(t)
  PROVE  LHashInv'
<1>1. /\ pc[t] = "read" /\ UNCHANGED <<m, arg, stored, removed>> /\ queues' = queues
      /\ bucket' = [bucket EXCEPT ![t] = queues[Hashed[KeyOf[arg[t]]]]]
      /\ pc' = [pc EXCEPT ![t] = "append"]
  BY DEF PutRead, Goto, vars
<1>2. LTypeInv /\ Holding(t)
  BY DEF LHashInv
<1>3. pc'[t] = "append" /\ bucket'[t] = queues[Hashed[KeyOf[arg[t]]]] /\ DOMAIN bucket' = Threads
  BY <1>1, <1>2 DEF LTypeInv
<1>4. Holding(t)'
  BY <1>1, <1>2, <1>3 DEF Holding
<1>5. queues' \in [Index -> Seq(Entries) \cup {NoQueue}] /\ \A k \in Index : Bucket(k)' = Bucket(k)
  BY <1>1, <1>2 DEF LTypeInv, Bucket
<1>6. pc[t] \notin Outside /\ "append" \in Labels \ Outside
  BY <1>1 DEF Outside, Labels
<1> QED
  BY <1>1, <1>3, <1>4, <1>5, <1>6, QuietStep

\* The functions that leave the table alone.
LEMMA ReadOnlyInv ==
  ASSUME LHashInv, NEW t \in Threads, pc[t] \notin Outside, pc' = [pc EXCEPT ![t] = "unlock"],
         UNCHANGED <<queues, m, arg, bucket, stored, removed>>
  PROVE  LHashInv'
<1>1. LTypeInv
  BY DEF LHashInv
<1>2. pc'[t] = "unlock"
  BY <1>1 DEF LTypeInv
<1>3. Holding(t)'
  BY <1>2 DEF Holding
<1>4. /\ queues' \in [Index -> Seq(Entries) \cup {NoQueue}] /\ \A k \in Index : Bucket(k)' = Bucket(k)
      /\ DOMAIN bucket' = Threads
  BY <1>1 DEF LTypeInv, Bucket
<1>5. "unlock" \in Labels \ Outside
  BY DEF Outside, Labels
<1> QED
  BY <1>3, <1>4, <1>5, QuietStep

\* qput writes the end: the entry is in the table and accepted at once.
LEMMA PutAppendInv ==
  ASSUME LHashInv, NEW t \in Threads, PutAppend(t)
  PROVE  LHashInv'
<1>1. PICK e, i : e = arg[t] /\ i = Hashed[KeyOf[e]]
  OBVIOUS
<1>2. /\ pc[t] = "append" /\ UNCHANGED <<m, arg, bucket, removed>>
      /\ pc' = [pc EXCEPT ![t] = "unlock"]
      /\ \/ queues' = [queues EXCEPT ![i] = Append(bucket[t], e)] /\ stored' = stored \cup {e}
         \/ queues' = queues /\ stored' = stored
  BY <1>1 DEF PutAppend, Goto
<1>3. pc[t] \notin Outside /\ "unlock" \in Labels \ Outside
  BY <1>2 DEF Outside, Labels
<1>4. CASE queues' = queues /\ stored' = stored
  BY <1>2, <1>3, <1>4, ReadOnlyInv
<1>5. CASE queues' = [queues EXCEPT ![i] = Append(bucket[t], e)] /\ stored' = stored \cup {e}
  <2>1. LTypeInv /\ IsOpen /\ Holding(t) /\ TableInv
    BY <1>3, Inside DEF LHashInv
  <2>2. e \in Entries \ stored /\ i \in Index /\ bucket[t] = queues[i] /\ queues[i] # NoQueue
    BY <1>1, <1>2, <2>1, KeyBucket DEF Holding
  <2>3. bucket[t] = Bucket(i) /\ Bucket(i) \in Seq(Entries)
    BY <2>1, <2>2, Buckets DEF BucketFact, LTypeInv
  <2>4. PICK s : s = Append(Bucket(i), e)
    OBVIOUS
  <2>5. s \in Seq(Entries) /\ InQueue(s) = InQueue(Bucket(i)) \cup {e}
    BY <2>2, <2>3, <2>4, QueueType, QueuePages
  <2>6. queues' = [queues EXCEPT ![i] = s] /\ queues \in [Index -> Seq(Entries) \cup {NoQueue}]
    BY <1>5, <2>1, <2>3, <2>4 DEF LTypeInv
  <2>7. /\ queues' \in [Index -> Seq(Entries) \cup {NoQueue}] /\ Bucket(i)' = s
        /\ \A k \in Index \ {i} : Bucket(k)' = Bucket(k)
    BY <2>2, <2>5, <2>6, OneBucket
  <2>8. MutexInv' /\ pc'[t] = "unlock" /\ pc' \in [Threads -> Labels] /\ \A u \in Threads \ {t} : Holding(u)'
    BY <1>2, <1>3, StepInside
  <2>9. LTypeInv'
    BY <1>2, <1>5, <2>1, <2>2, <2>7, <2>8 DEF LTypeInv
  <2>10. Kept' = Kept \cup {e} /\ e \notin Kept /\ \A x \in Entries \ stored' : removed'[x] = 0
    BY <1>2, <1>5, <2>1, <2>2 DEF Kept, TableInv
  <2>11. \A k \in Index : BucketInv(k)
    BY <2>1 DEF TableInv
  <2>12. BucketInv(i)'
    <3>1. InQueue(s) = {x \in Kept' : Hashed[KeyOf[x]] = i}
      BY <1>1, <2>2, <2>5, <2>10, <2>11 DEF BucketInv
    <3>2. e \notin InQueue(Bucket(i))
      BY <2>2, <2>10, <2>11 DEF BucketInv
    <3>3. \A j, k \in DOMAIN s : s[j] = s[k] => j = k
      <4>1. \A j, k \in DOMAIN Bucket(i) : Bucket(i)[j] = Bucket(i)[k] => j = k
        BY <2>2, <2>11 DEF BucketInv
      <4> QED
        BY <2>2, <2>3, <2>4, <3>2, <4>1, AppendOnce
    <3> QED
      BY <2>7, <3>1, <3>3 DEF BucketInv
  <2>13. ASSUME NEW k \in Index \ {i} PROVE BucketInv(k)'
    <3>1. {x \in Kept' : Hashed[KeyOf[x]] = k} = {x \in Kept : Hashed[KeyOf[x]] = k}
      BY <1>1, <2>10
    <3> QED
      BY <2>7, <2>11, <3>1 DEF BucketInv
  <2>14. TableInv'
    <3>1. \A k \in Index : BucketInv(k)'
      BY <2>12, <2>13
    <3> QED
      BY <2>10, <3>1 DEF TableInv, Index
  <2>15. Holding(t)'
    BY <2>8 DEF Holding
  <2> QED
    BY <2>8, <2>9, <2>14, <2>15 DEF LHashInv
<1> QED
  BY <1>2, <1>4, <1>5

\* lhsearch and lhapply change nothing but where the thread is.
LEMMA SearchInv ==
  ASSUME LHashInv, NEW t \in Threads, SearchKey(t) \/ ApplyAll(t)
  PROVE  LHashInv'
<1>1. /\ pc[t] \in {"search", "apply"} /\ pc' = [pc EXCEPT ![t] = "unlock"]
      /\ UNCHANGED <<queues, m, arg, bucket, stored, removed>>
  BY DEF SearchKey, ApplyAll, HSearch, HApply, Goto
<1>2. pc[t] \notin Outside
  BY <1>1 DEF Outside
<1> QED
  BY <1>1, <1>2, ReadOnlyInv

\* The place at which searchfn accepts a key first.
LEMMA FirstMatch ==
  ASSUME queues \in [Index -> Seq(Entries) \cup {NoQueue}], NEW k \in Keys, Matches(k) # {}
  PROVE  /\ Hashed[k] \in Index /\ First(k) \in DOMAIN Bucket(Hashed[k])
         /\ KeyOf[Bucket(Hashed[k])[First(k)]] = k
<1>1. Hashed[k] \in Index
  BY KeyBucket DEF AllKeys
<1>2. Bucket(Hashed[k]) \in Seq(Entries)
  BY <1>1, Buckets DEF BucketFact
<1>3. Matches(k) \in SUBSET Nat
  BY <1>2 DEF Matches
<1>4. \E j \in Matches(k) : \A i \in Matches(k) : j <= i
  BY <1>3, LeastNumber
<1>5. First(k) \in Matches(k)
  BY <1>4 DEF First
<1> QED
  BY <1>1, <1>5 DEF Matches

\* hremove finds nothing.
LEMMA RemoveNothingInv ==
  ASSUME LHashInv, NEW t \in Threads, RemoveKey(t), ~Found(arg[t])
  PROVE  LHashInv'
<1>1. /\ pc[t] = "remove" /\ pc' = [pc EXCEPT ![t] = "unlock"] /\ ret' = <<NULL>>
      /\ UNCHANGED <<queues, m, arg, bucket, stored>>
      /\ removed' = [e \in Entries |-> removed[e] + IF ret' = <<e>> THEN 1 ELSE 0]
  BY DEF RemoveKey, HRemove, Goto
<1>2. removed \in [Entries -> 0..1]
  BY DEF LHashInv, LTypeInv
<1>3. \A e \in Entries : removed[e] + (IF ret' = <<e>> THEN 1 ELSE 0) = removed[e]
  <2> SUFFICES ASSUME NEW e \in Entries
               PROVE  removed[e] + (IF ret' = <<e>> THEN 1 ELSE 0) = removed[e]
    OBVIOUS
  <2>1. ret' # <<e>>
    BY <1>1, LHashAssumption
  <2> QED
    BY <1>2, <2>1
<1>4. removed' = removed
  BY <1>1, <1>2, <1>3
<1>5. pc[t] \notin Outside
  BY <1>1 DEF Outside
<1> QED
  BY <1>1, <1>4, <1>5, ReadOnlyInv

\* hremove takes the first entry of the key out of its bucket.
LEMMA RemoveInv ==
  ASSUME LHashInv, NEW t \in Threads, RemoveKey(t), Found(arg[t])
  PROVE  LHashInv'
<1>1. PICK k, i, p, e : k = arg[t] /\ i = Hashed[k] /\ p = First(k) /\ e = Bucket(i)[p]
  OBVIOUS
<1>2. /\ pc[t] = "remove" /\ pc' = [pc EXCEPT ![t] = "unlock"] /\ ret' = <<e>>
      /\ UNCHANGED <<m, arg, bucket, stored>>
      /\ queues' = [queues EXCEPT ![i] = RemoveAt(queues[i], p)]
      /\ removed' = [x \in Entries |-> removed[x] + IF ret' = <<x>> THEN 1 ELSE 0]
      /\ k \in Keys /\ Matches(k) # {}
  BY <1>1 DEF RemoveKey, HRemove, Goto, Found
<1>3. pc[t] \notin Outside /\ "unlock" \in Labels \ Outside
  BY <1>2 DEF Outside, Labels
<1>4. LTypeInv /\ IsOpen /\ TableInv /\ queues \in [Index -> Seq(Entries) \cup {NoQueue}]
  BY <1>3, Inside DEF LHashInv, LTypeInv
<1>5. i \in Index /\ p \in DOMAIN Bucket(i) /\ KeyOf[e] = k
  BY <1>1, <1>2, <1>4, FirstMatch
<1>6. Bucket(i) \in Seq(Entries) /\ queues[i] = Bucket(i)
  <2>1. /\ Bucket(i) \in Seq(Entries)
        /\ queues[i] # NoQueue => Bucket(i) = queues[i]
        /\ queues[i] = NoQueue => Bucket(i) = <<>>
    BY <1>4, <1>5, Buckets DEF BucketFact
  <2>2. Bucket(i) # <<>>
    BY <1>5
  <2> QED
    BY <2>1, <2>2
<1>7. PICK s : s = Without(Bucket(i), p)
  OBVIOUS
<1>8. s \in Seq(Entries) /\ queues' = [queues EXCEPT ![i] = s]
  <2>1. s = RemoveAt(queues[i], p)
    BY <1>5, <1>6, <1>7, WithoutParts DEF RemoveAt
  <2>2. s \in Seq(Entries)
    BY <1>5, <1>6, <1>7, WithoutType
  <2> QED
    BY <1>2, <2>1, <2>2
<1>9. /\ queues' \in [Index -> Seq(Entries) \cup {NoQueue}] /\ Bucket(i)' = s
      /\ \A j \in Index \ {i} : Bucket(j)' = Bucket(j)
  BY <1>4, <1>5, <1>8, OneBucket
<1>10. \A j \in Index : BucketInv(j)
  BY <1>4 DEF TableInv
<1>11. /\ InQueue(Bucket(i)) = {x \in Kept : Hashed[KeyOf[x]] = i}
       /\ \A j, l \in DOMAIN Bucket(i) : Bucket(i)[j] = Bucket(i)[l] => j = l
  BY <1>5, <1>10 DEF BucketInv
<1>12. /\ InQueue(s) = InQueue(Bucket(i)) \ {e}
       /\ \A j, l \in DOMAIN s : s[j] = s[l] => j = l
  BY <1>1, <1>5, <1>6, <1>7, <1>11, WithoutElements
<1>13. e \in Kept /\ e \in stored /\ e \in Entries /\ removed[e] = 0
  <2>1. e \in InQueue(Bucket(i))
    BY <1>1, <1>5 DEF InQueue
  <2> QED
    BY <1>4, <1>11, <2>1 DEF Kept, LTypeInv
<1>14. removed' \in [Entries -> 0..1] /\ removed'[e] = 1 /\ \A x \in Entries \ {e} : removed'[x] = removed[x]
  <2>1. removed \in [Entries -> 0..1]
    BY <1>4 DEF LTypeInv
  <2>2. \A x \in Entries : ret' = <<x>> <=> x = e
    BY <1>2
  <2>3. \A x \in Entries : removed'[x] = IF x = e THEN removed[x] + 1 ELSE removed[x]
    BY <1>2, <2>1, <2>2
  <2>4. \A x \in Entries : removed'[x] \in 0..1
    BY <1>13, <2>1, <2>3
  <2> QED
    BY <1>2, <1>13, <2>3, <2>4
<1>15. Kept' = Kept \ {e} /\ \A x \in Entries \ stored' : removed'[x] = 0
  <2>1. stored' = stored /\ stored \subseteq Entries /\ \A x \in Entries \ stored : removed[x] = 0
    BY <1>2, <1>4 DEF LTypeInv, TableInv
  <2> QED
    BY <1>13, <1>14, <2>1 DEF Kept
<1>16. MutexInv' /\ pc'[t] = "unlock" /\ pc' \in [Threads -> Labels] /\ \A u \in Threads \ {t} : Holding(u)'
  BY <1>2, <1>3, StepInside
<1>17. LTypeInv'
  BY <1>2, <1>4, <1>9, <1>14, <1>16 DEF LTypeInv
<1>18. BucketInv(i)'
  <2>1. InQueue(s) = {x \in Kept' : Hashed[KeyOf[x]] = i}
    BY <1>11, <1>12, <1>15
  <2> QED
    BY <1>9, <1>12, <2>1 DEF BucketInv
<1>19. ASSUME NEW j \in Index \ {i} PROVE BucketInv(j)'
  <2>1. {x \in Kept' : Hashed[KeyOf[x]] = j} = {x \in Kept : Hashed[KeyOf[x]] = j}
    BY <1>1, <1>5, <1>15
  <2> QED
    BY <1>9, <1>10, <2>1 DEF BucketInv
<1>20. TableInv'
  <2>1. \A j \in Index : BucketInv(j)'
    BY <1>18, <1>19
  <2> QED
    BY <1>15, <2>1 DEF TableInv, Index
<1>21. Holding(t)'
  BY <1>16 DEF Holding
<1> QED
  BY <1>16, <1>17, <1>20, <1>21 DEF LHashInv

\* lhclose empties the table for all threads at once.
LEMMA CloseInv ==
  ASSUME LHashInv, Close
  PROVE  LHashInv'
<1>1. /\ m' = m /\ arg' = arg /\ bucket' = bucket /\ stored' = stored /\ removed' = removed
      /\ m = NoThread /\ m \notin Threads
      /\ queues' = [i \in Index |-> NoQueue] /\ pc' = [t \in Threads |-> "closed"]
  BY LHashAssumption DEF Close, HClose
<1>2. LTypeInv'
  BY <1>1 DEF LHashInv, LTypeInv, Labels
<1>3. MutexInv'
  BY <1>1 DEF MutexInv, Outside
<1>4. TableInv'
  BY <1>1 DEF LHashInv, TableInv, IsOpen, Index
<1>5. \A t \in Threads : Holding(t)'
  BY <1>1 DEF Holding
<1> QED
  BY <1>2, <1>3, <1>4, <1>5 DEF LHashInv

\* A step that changes nothing keeps the invariant.
LEMMA StutterInv ==
  ASSUME LHashInv, UNCHANGED lvars
  PROVE  LHashInv'
<1>1. /\ m' = m /\ arg' = arg /\ bucket' = bucket /\ stored' = stored /\ removed' = removed
      /\ queues' = queues /\ pc' = pc
  BY DEF lvars, vars
<1>2. LTypeInv' /\ MutexInv' /\ \A t \in Threads : Holding(t)'
  BY <1>1 DEF LHashInv, LTypeInv, MutexInv, Holding
<1>3. TableInv'
  <2>1. TableInv /\ (IsOpen' => IsOpen) /\ \A i \in Index : Bucket(i)' = Bucket(i)
    BY <1>1 DEF LHashInv, IsOpen, Bucket
  <2> QED
    BY <1>1, <2>1, TableStays
<1> QED
  BY <1>2, <1>3 DEF LHashInv

-----------------------------------------------------------------------------
\* The mutex makes every call atomic, and every bucket holds exactly the entries of
\* its hash value that were accepted and not removed, each once.
THEOREM LHashInvariant == LSpec => []LHashInv
<1>1. LInit => LHashInv
  BY LInitInv
<1>2. LHashInv /\ [LNext]_lvars => LHashInv'
  <2> SUFFICES ASSUME LHashInv, [LNext]_lvars PROVE LHashInv'
    OBVIOUS
  <2>1. CASE UNCHANGED lvars
    BY <2>1, StutterInv
  <2>2. CASE Close
    BY <2>2, CloseInv
  <2>3. CASE Closed
    BY <2>3, StutterInv DEF Closed
  <2>4. ASSUME NEW t \in Threads, ThreadStep(t) PROVE LHashInv'
    <3>1. ASSUME NEW e \in Entries, Fresh(e), Call(t, "put", e) PROVE LHashInv'
      BY <3>1, CallInv DEF Fresh
    <3>2. ASSUME NEW k \in AllKeys, NEW op \in {"search", "remove"}, Call(t, op, k) PROVE LHashInv'
      BY <3>2, CallInv
    <3>3. CASE Call(t, "apply", NULL)
      BY <3>3, CallInv
    <3>4. CASE PutOpen(t) \/ PutRead(t) \/ PutAppend(t)
      BY <3>4, PutOpenInv, PutReadInv, PutAppendInv
    <3>5. CASE SearchKey(t) \/ ApplyAll(t)
      BY <3>5, SearchInv
    <3>6. CASE RemoveKey(t)
      BY <3>6, RemoveInv, RemoveNothingInv
    <3>7. CASE Unlock(t)
      BY <3>7, UnlockInv
    <3> QED
      BY <2>4, <3>1, <3>2, <3>3, <3>4, <3>5, <3>6, <3>7 DEF ThreadStep
  <2> QED
    BY <2>1, <2>2, <2>3, <2>4 DEF LNext
<1> QED
  BY <1>1, <1>2, PTL DEF LSpec

\* Every entry that lhput accepted is in the table until one lhremove returns it,
\* and no two calls of lhremove return the same entry.
THEOREM NoEntryIsLost == LSpec => []NothingLost
<1>1. LHashInv => NothingLost
  <2> SUFFICES ASSUME LHashInv PROVE NothingLost
    OBVIOUS
  <2>1. \A e \in Entries : removed[e] <= 1
    BY DEF LHashInv, LTypeInv
  <2>2. ASSUME IsOpen PROVE Present = Kept
    <3>1. \A i \in Index : {Bucket(i)[j] : j \in DOMAIN Bucket(i)} = {e \in Kept : Hashed[KeyOf[e]] = i}
      BY <2>2 DEF LHashInv, TableInv, BucketInv, InQueue
    <3>2. \A e \in Kept : Hashed[KeyOf[e]] \in Index
      BY KeyBucket DEF Kept, LHashInv, LTypeInv
    <3> QED
      BY <3>1, <3>2 DEF Present
  <2> QED
    BY <2>1, <2>2 DEF NothingLost, IsOpen, Kept
<1> QED
  BY <1>1, LHashInvariant, PTL

\* A kept entry is where its key is looked up, so that lhsearch and lhremove find
\* its key, whatever other keys share the bucket.
EntriesFound == IsOpen => \A e \in Kept : KeyOf[e] \in Keys => Found(KeyOf[e])

\* hsearch finds every key under which an entry was accepted and not removed.
THEOREM EntriesAreFound == LSpec => []EntriesFound
<1>1. LHashInv => EntriesFound
  <2> SUFFICES ASSUME LHashInv, IsOpen, NEW e \in Kept, KeyOf[e] \in Keys PROVE Matches(KeyOf[e]) # {}
    BY DEF EntriesFound, Found
  <2>1. e \in Entries /\ Hashed[KeyOf[e]] \in Index
    BY KeyBucket DEF Kept, LHashInv, LTypeInv
  <2>2. e \in InQueue(Bucket(Hashed[KeyOf[e]]))
    BY <2>1 DEF LHashInv, TableInv, BucketInv
  <2> QED
    BY <2>2 DEF InQueue, Matches
<1> QED
  BY <1>1, LHashInvariant, PTL


-----------------------------------------------------------------------------
(***************************************************************************)
(* The table is a KeyedStore: what a bucket holds under a key, in the      *)
(* order of the bucket, is what the store holds under it.                  *)
(***************************************************************************)
Under(k) == {e \in Entries : KeyOf[e] = k}
Listed(k) == Selected(Bucket(Hashed[k]), Under(k))
Contents == [k \in AllKeys |-> Listed(k)]

\* The steps of a store, on what the buckets hold.
StorePut(e) == Contents' = [Contents EXCEPT ![KeyOf[e]] = Append(@, e)] /\ ret' = <<0>>
StoreRemove(k) ==
  /\ ret' = <<Store!Oldest(k)>>
  /\ Contents' = [Contents EXCEPT ![k] = IF Store!Found(k) THEN Tail(@) ELSE @]
StoreApply ==
  /\ ret' \in Seq(Entries)
  /\ \A k \in AllKeys : Selected(ret', Under(k)) = Contents[k]
  /\ Contents' = Contents
StoreStep ==
  \/ \E e \in Entries : StorePut(e)
  \/ ret' = <<-1>> /\ Contents' = Contents
  \/ StoreApply
  \/ Contents' = [k \in AllKeys |-> <<>>] /\ ret' = <<NULL>>
  \/ \E k \in AllKeys : (ret' = <<Store!Oldest(k)>> /\ Contents' = Contents) \/ StoreRemove(k)
  \/ Contents' = Contents /\ ret' = ret

\* KeyedStore selects as module Selection does.
LEMMA SameSelection == \A s, T : Store!Selected(s, T) = Selected(s, T)
BY DEF Store!Selected, Selected

\* They are the steps of KeyedStore, or stutter.
LEMMA StoreSteps == StoreStep => [Store!Next]_(Store!vars)
<1> SUFFICES ASSUME StoreStep PROVE [Store!Next]_(Store!vars)
  OBVIOUS
<1>1. ASSUME NEW e \in Entries, StorePut(e) PROVE Store!Next
  <2>1. Store!Put(e)
    BY <1>1 DEF StorePut, Store!Put, Contents, Listed, Under
  <2> QED
    BY <2>1 DEF Store!Next
<1>2. CASE ret' = <<-1>> /\ Contents' = Contents
  <2>1. Store!PutFails
    BY <1>2 DEF Store!PutFails, Contents, Listed, Under
  <2> QED
    BY <2>1 DEF Store!Next
<1>3. CASE StoreApply
  <2>1. \A k \in AllKeys : Store!Selected(ret', Store!Under(k)) = Contents[k]
    BY <1>3, SameSelection DEF StoreApply, Store!Under, Under
  <2>2. ret' \in Seq(Entries) /\ Contents' = Contents
    BY <1>3 DEF StoreApply
  <2>3. Store!Apply
    BY <2>1, <2>2 DEF Store!Apply, Contents, Listed, Under
  <2> QED
    BY <2>3 DEF Store!Next
<1>4. CASE Contents' = [k \in AllKeys |-> <<>>] /\ ret' = <<NULL>>
  <2>1. Store!Close
    BY <1>4 DEF Store!Close, Contents, Listed, Under
  <2> QED
    BY <2>1 DEF Store!Next
<1>5. ASSUME NEW k \in AllKeys, ret' = <<Store!Oldest(k)>>, Contents' = Contents PROVE Store!Next
  <2>1. Store!Search(k)
    BY <1>5 DEF Store!Search, Contents, Listed, Under
  <2> QED
    BY <2>1 DEF Store!Next
<1>6. ASSUME NEW k \in AllKeys, StoreRemove(k) PROVE Store!Next
  <2>1. Store!Remove(k)
    BY <1>6 DEF StoreRemove, Store!Remove, Contents, Listed, Under
  <2> QED
    BY <2>1 DEF Store!Next
<1>7. CASE Contents' = Contents /\ ret' = ret
  BY <1>7 DEF Store!vars, Contents, Listed, Under
<1> QED
  BY <1>1, <1>2, <1>3, <1>4, <1>5, <1>6, <1>7 DEF StoreStep

\* What a bucket holds under a key are entries.
LEMMA ListedType ==
  ASSUME queues \in [Index -> Seq(Entries) \cup {NoQueue}], NEW k \in AllKeys
  PROVE  Listed(k) \in Seq(Entries) /\ Bucket(Hashed[k]) \in Seq(Entries) /\ Hashed[k] \in Index
<1>1. Bucket(Hashed[k]) \in Seq(Entries) /\ Hashed[k] \in Index
  BY KeyBucket, Buckets DEF BucketFact
<1>2. PICK b, T : b = Bucket(Hashed[k]) /\ T = Under(k)
  OBVIOUS
<1>3. Selected(b, T) \in Seq(Entries)
  BY <1>1, <1>2, SelectedType
<1> QED
  BY <1>1, <1>2, <1>3 DEF Listed

\* As long as the buckets hold the same, so does the store.
LEMMA ContentsStay ==
  ASSUME \A i \in Index : Bucket(i)' = Bucket(i)
  PROVE  Contents' = Contents
<1>1. ASSUME NEW k \in AllKeys PROVE Listed(k)' = Listed(k)
  <2>1. PICK b : b = Bucket(Hashed[k])
    OBVIOUS
  <2>2. Bucket(Hashed[k])' = b
    BY <2>1, KeyBucket
  <2> QED
    BY <2>1, <2>2 DEF Listed, Under
<1> QED
  BY <1>1 DEF Contents

\* A change of one bucket that concerns one key.
LEMMA ContentsChange ==
  ASSUME NEW k \in AllKeys, NEW i, i = Hashed[k], NEW s, NEW r, Bucket(i)' = s,
         \A j \in Index \ {i} : Bucket(j)' = Bucket(j),
         Selected(s, Under(k)) = r,
         \A l \in AllKeys \ {k} : Hashed[l] = i => Selected(s, Under(l)) = Listed(l)
  PROVE  Contents' = [Contents EXCEPT ![k] = r]
<1>1. Listed(k)' = r
  BY DEF Listed, Under
<1>2. ASSUME NEW l \in AllKeys \ {k} PROVE Listed(l)' = Listed(l)
  <2>1. CASE Hashed[l] = i
    BY <2>1 DEF Listed, Under
  <2>2. CASE Hashed[l] # i
    <3>1. PICK b : b = Bucket(Hashed[l])
      OBVIOUS
    <3>2. Bucket(Hashed[l])' = b
      BY <2>2, <3>1, KeyBucket
    <3> QED
      BY <3>1, <3>2 DEF Listed, Under
  <2> QED
    BY <2>1, <2>2
<1> QED
  BY <1>1, <1>2 DEF Contents

\* hsearch and hremove find the entry that is first among those of the key.
LEMMA OldestFound ==
  ASSUME queues \in [Index -> Seq(Entries) \cup {NoQueue}], NEW k \in AllKeys
  PROVE  /\ Store!Found(k) <=> Found(k)
         /\ Store!Oldest(k) = IF Found(k) THEN Bucket(Hashed[k])[First(k)] ELSE NULL
         /\ Found(k) => LET b == Bucket(Hashed[k])
                            p == First(k)
                        IN  Selected(SubSeq(b, 1, p - 1) \o SubSeq(b, p + 1, Len(b)), Under(k)) = Tail(Listed(k))
<1>1. PICK b, T, p : b = Bucket(Hashed[k]) /\ T = Under(k) /\ p = First(k)
  OBVIOUS
<1>2. b \in Seq(Entries) /\ Listed(k) = Selected(b, T) /\ T \subseteq Entries
  BY <1>1, ListedType DEF Listed, Under
<1>3. (Store!Found(k) <=> k \in Keys /\ Listed(k) # <<>>) /\ (Store!Found(k) => Store!Oldest(k) = Head(Listed(k)))
      /\ (~Store!Found(k) => Store!Oldest(k) = NULL)
  BY HashAssumption DEF Store!Found, Store!Oldest, Listed, Under, AllKeys
<1>4. CASE k \in Keys /\ Matches(k) = {}
  <2>1. \A j \in 1..Len(b) : b[j] \notin T
    BY <1>1, <1>2, <1>4 DEF Matches, Under
  <2>2. Selected(b, T) = <<>>
    BY <1>2, <2>1, SelectedNone
  <2> QED
    BY <1>2, <1>3, <1>4, <2>2 DEF Found
<1>5. CASE k \in Keys /\ Matches(k) # {}
  <2>1. p \in Matches(k) /\ \A j \in Matches(k) : p <= j
    <3>1. Matches(k) \in SUBSET Nat
      BY <1>1, <1>2 DEF Matches
    <3>2. \E j \in Matches(k) : \A i \in Matches(k) : j <= i
      BY <1>5, <3>1, LeastNumber
    <3> QED
      BY <1>1, <3>2 DEF First
  <2>2. p \in 1..Len(b) /\ b[p] \in Entries /\ b[p] \in T
    BY <1>1, <1>2, <2>1 DEF Matches, Under
  <2>3. \A j \in 1..Len(b) : j < p => b[j] \notin T
    <3> SUFFICES ASSUME NEW j \in 1..Len(b), j < p, b[j] \in T PROVE FALSE
      OBVIOUS
    <3>1. j \in Matches(k)
      BY <1>1, <1>2 DEF Matches, Under
    <3> QED
      BY <2>1, <2>2, <3>1
  <2>4. /\ Selected(b, T) # <<>> /\ Head(Selected(b, T)) = b[p]
        /\ Selected(SubSeq(b, 1, p - 1) \o SubSeq(b, p + 1, Len(b)), T) = Tail(Selected(b, T))
    BY <1>2, <2>2, <2>3, SelectedFirst
  <2> QED
    BY <1>1, <1>2, <1>3, <1>5, <2>4 DEF Found
<1>6. CASE k \notin Keys
  BY <1>3, <1>6 DEF Found
<1> QED
  BY <1>4, <1>5, <1>6


\* hput is a put when it writes the end of the bucket, or when it fails.
LEMMA PutStore ==
  ASSUME LHashInv, NEW t \in Threads, PutAppend(t)
  PROVE  StoreStep
<1>1. PICK e, k, i : e = arg[t] /\ k = KeyOf[e] /\ i = Hashed[k]
  OBVIOUS
<1>2. CASE ret' = <<-1>> /\ queues' = queues
  <2>1. \A j \in Index : Bucket(j)' = Bucket(j)
    BY <1>2 DEF Bucket
  <2> QED
    BY <1>2, <2>1, ContentsStay DEF StoreStep
<1>3. CASE queues' = [queues EXCEPT ![i] = Append(bucket[t], e)] /\ ret' = <<0>> /\ pc[t] = "append"
  <2>1. LTypeInv /\ Holding(t) /\ queues \in [Index -> Seq(Entries) \cup {NoQueue}]
    BY DEF LHashInv, LTypeInv
  <2>2. e \in Entries /\ k \in AllKeys /\ i \in Index /\ bucket[t] = queues[i] /\ queues[i] # NoQueue
    BY <1>1, <1>3, <2>1, KeyBucket DEF Holding
  <2>3. PICK b, s : b = Bucket(i) /\ s = Append(b, e)
    OBVIOUS
  <2>4. b \in Seq(Entries) /\ bucket[t] = b
    BY <2>1, <2>2, <2>3, Buckets DEF BucketFact
  <2>5. s \in Seq(Entries)
    BY <2>2, <2>3, <2>4, QueueType
  <2>6. queues' = [queues EXCEPT ![i] = s]
    BY <1>3, <2>3, <2>4
  <2>7. Bucket(i)' = s /\ \A j \in Index \ {i} : Bucket(j)' = Bucket(j)
    BY <2>1, <2>2, <2>5, <2>6, OneBucket
  <2>8. ASSUME NEW l \in AllKeys, Hashed[l] = i
        PROVE  Selected(s, Under(l)) = IF l = k THEN Append(Listed(l), e) ELSE Listed(l)
    <3>1. PICK T : T = Under(l)
      OBVIOUS
    <3>2. e \in T <=> l = k
      BY <1>1, <2>2, <3>1 DEF Under
    <3>3. Selected(Append(b, e), T) = IF e \in T THEN Append(Selected(b, T), e) ELSE Selected(b, T)
      BY <2>2, <2>4, SelectedAppend
    <3>4. Listed(l) = Selected(b, T)
      BY <2>3, <2>8, <3>1 DEF Listed
    <3> QED
      BY <2>3, <3>1, <3>2, <3>3, <3>4
  <2>9. PICK r : r = Append(Listed(k), e)
    OBVIOUS
  <2>10. Contents' = [Contents EXCEPT ![k] = r]
    <3>1. Selected(s, Under(k)) = r
      BY <1>1, <2>2, <2>8, <2>9
    <3>2. \A l \in AllKeys \ {k} : Hashed[l] = i => Selected(s, Under(l)) = Listed(l)
      BY <2>8
    <3> QED
      BY <1>1, <2>2, <2>7, <3>1, <3>2, ContentsChange
  <2>11. Contents[k] = Listed(k)
    BY <2>2 DEF Contents
  <2>12. StorePut(e)
    BY <1>1, <1>3, <2>9, <2>10, <2>11 DEF StorePut
  <2> QED
    BY <2>2, <2>12 DEF StoreStep
<1> QED
  BY <1>1, <1>2, <1>3 DEF PutAppend

\* hremove takes out the oldest entry of the key.
LEMMA RemoveStore ==
  ASSUME LHashInv, NEW t \in Threads, RemoveKey(t)
  PROVE  StoreStep
<1>1. PICK k, i, p, b, e : k = arg[t] /\ i = Hashed[k] /\ p = First(k) /\ b = Bucket(i) /\ e = b[p]
  OBVIOUS
<1>2. LTypeInv /\ Holding(t) /\ queues \in [Index -> Seq(Entries) \cup {NoQueue}] /\ k \in AllKeys
  BY <1>1 DEF LHashInv, LTypeInv, RemoveKey, Holding
<1>3. /\ Store!Found(k) <=> Found(k)
      /\ Store!Oldest(k) = IF Found(k) THEN e ELSE NULL
      /\ Found(k) => Selected(SubSeq(b, 1, p - 1) \o SubSeq(b, p + 1, Len(b)), Under(k)) = Tail(Listed(k))
  BY <1>1, <1>2, OldestFound
<1>4. \/ ~Found(k) /\ ret' = <<NULL>> /\ queues' = queues
      \/ Found(k) /\ ret' = <<e>> /\ queues' = [queues EXCEPT ![i] = RemoveAt(queues[i], p)]
  BY <1>1 DEF RemoveKey, HRemove
<1>5. CASE ~Found(k) /\ ret' = <<NULL>> /\ queues' = queues
  <2>1. \A j \in Index : Bucket(j)' = Bucket(j)
    BY <1>5 DEF Bucket
  <2>2. Contents' = Contents
    BY <2>1, ContentsStay
  <2> QED
    BY <1>2, <1>3, <1>5, <2>2 DEF StoreStep
<1>6. CASE Found(k) /\ ret' = <<e>> /\ queues' = [queues EXCEPT ![i] = RemoveAt(queues[i], p)]
  <2>1. i \in Index /\ p \in DOMAIN b /\ KeyOf[e] = k
    BY <1>1, <1>2, <1>6, FirstMatch DEF Found
  <2>2. b \in Seq(Entries) /\ queues[i] = b
    <3>1. b \in Seq(Entries) /\ (queues[i] # NoQueue => b = queues[i]) /\ (queues[i] = NoQueue => b = <<>>)
      BY <1>1, <1>2, <2>1, Buckets DEF BucketFact
    <3>2. b # <<>>
      BY <2>1
    <3> QED
      BY <3>1, <3>2
  <2>3. PICK x, y, s : x = SubSeq(b, 1, p - 1) /\ y = SubSeq(b, p + 1, Len(b)) /\ s = x \o y
    OBVIOUS
  <2>4. p \in 1..Len(b)
    BY <2>1, <2>2
  <2>5. x \in Seq(Entries) /\ y \in Seq(Entries) /\ e \in Entries
    BY <1>1, <2>2, <2>3, <2>4, SelectedParts
  <2>6. s \in Seq(Entries) /\ queues' = [queues EXCEPT ![i] = s]
    <3>1. s \in Seq(Entries)
      BY <2>3, <2>5, ConcatProperties
    <3>2. RemoveAt(b, p) = s
      BY <2>3 DEF RemoveAt
    <3> QED
      BY <1>6, <2>2, <3>1, <3>2
  <2>7. Bucket(i)' = s /\ \A j \in Index \ {i} : Bucket(j)' = Bucket(j)
    BY <1>2, <2>1, <2>6, OneBucket
  <2>8. ASSUME NEW l \in AllKeys \ {k}, Hashed[l] = i PROVE Selected(s, Under(l)) = Listed(l)
    <3>1. PICK T : T = Under(l)
      OBVIOUS
    <3>2. e \notin T
      BY <2>1, <2>8, <3>1 DEF Under
    <3>3. SelectsWithout(b, x, b[p], y, T)
      BY <2>2, <2>3, <2>4, SelectedParts
    <3>4. Selected(s, T) = Selected(b, T)
      BY <1>1, <2>3, <3>2, <3>3 DEF SelectsWithout
    <3> QED
      BY <1>1, <2>8, <3>1, <3>4 DEF Listed
  <2>9. PICK r : r = Tail(Listed(k))
    OBVIOUS
  <2>10. Contents' = [Contents EXCEPT ![k] = r]
    <3>1. Selected(s, Under(k)) = r
      BY <1>3, <1>6, <2>3, <2>9
    <3> QED
      BY <1>1, <1>2, <2>7, <2>8, <3>1, ContentsChange
  <2>11. Contents[k] = Listed(k)
    BY <1>2 DEF Contents
  <2>12. StoreRemove(k)
    BY <1>3, <1>6, <2>9, <2>10, <2>11 DEF StoreRemove
  <2> QED
    BY <1>2, <2>12 DEF StoreStep
<1> QED
  BY <1>4, <1>5, <1>6

\* hsearch returns the oldest entry of the key.
LEMMA SearchStore ==
  ASSUME LHashInv, NEW t \in Threads, SearchKey(t)
  PROVE  StoreStep
<1>1. PICK k : k = arg[t]
  OBVIOUS
<1>2. queues \in [Index -> Seq(Entries) \cup {NoQueue}] /\ k \in AllKeys
  BY <1>1 DEF LHashInv, LTypeInv, SearchKey, Holding
<1>3. ret' = <<IF Found(k) THEN Bucket(Hashed[k])[First(k)] ELSE NULL>> /\ queues' = queues
  BY <1>1 DEF SearchKey, HSearch
<1>4. ret' = <<Store!Oldest(k)>>
  BY <1>2, <1>3, OldestFound
<1>5. \A j \in Index : Bucket(j)' = Bucket(j)
  BY <1>3 DEF Bucket
<1>6. Contents' = Contents
  BY <1>5, ContentsStay
<1> QED
  BY <1>2, <1>4, <1>6 DEF StoreStep

\* happly visits every entry, those of one key in their order.
LEMMA ApplyStore ==
  ASSUME LHashInv, NEW t \in Threads, ApplyAll(t)
  PROVE  StoreStep
<1>1. PICK seqs : seqs = [i \in 1..Size |-> Bucket(i - 1)]
  OBVIOUS
<1>2. ret' = FlattenSeq(seqs) /\ queues' = queues /\ pc[t] = "apply"
  BY <1>1 DEF ApplyAll, HApply
<1>3. /\ queues \in [Index -> Seq(Entries) \cup {NoQueue}] /\ Size \in Nat \ {0}
      /\ IsOpen /\ \A i \in Index : BucketInv(i)
  <2>1. pc[t] \notin Outside
    BY <1>2 DEF Outside
  <2>2. IsOpen
    BY <2>1, Inside
  <2> QED
    BY <2>2, HashAssumption DEF LHashInv, LTypeInv, TableInv
<1>4. \A i \in 1..Size : i - 1 \in Index /\ seqs[i] = Bucket(i - 1) /\ seqs[i] \in Seq(Entries)
  BY <1>1, <1>3, Buckets DEF BucketFact, Index
<1>5. seqs \in Seq(Seq(Entries)) /\ Len(seqs) = Size
  BY <1>1, <1>3, <1>4
<1>6. ret' \in Seq(Entries)
  BY <1>2, <1>5, FlattenType
<1>7. ASSUME NEW k \in AllKeys PROVE Selected(ret', Under(k)) = Contents[k]
  <2>1. PICK i, T : i = Hashed[k] + 1 /\ T = Under(k)
    OBVIOUS
  <2>2. i \in 1..Len(seqs) /\ seqs[i] = Bucket(Hashed[k])
    <3>1. Hashed[k] \in Index
      BY KeyBucket
    <3>2. i \in 1..Size /\ i - 1 = Hashed[k]
      BY <1>3, <2>1, <3>1 DEF Index
    <3> QED
      BY <1>4, <1>5, <3>2
  <2>3. ASSUME NEW j \in 1..Len(seqs), j # i PROVE Selected(seqs[j], T) = <<>>
    <3>1. PICK s : s = seqs[j]
      OBVIOUS
    <3>2. s \in Seq(Entries) /\ j - 1 \in Index /\ s = Bucket(j - 1) /\ j - 1 # Hashed[k]
      BY <1>3, <1>4, <1>5, <2>1, <2>3, <3>1, KeyBucket DEF Index
    <3>3. \A n \in 1..Len(s) : s[n] \notin T
      <4> SUFFICES ASSUME NEW n \in 1..Len(s), s[n] \in T PROVE FALSE
        OBVIOUS
      <4>1. s[n] \in InQueue(Bucket(j - 1))
        BY <3>2 DEF InQueue
      <4>2. Hashed[KeyOf[s[n]]] = j - 1
        BY <1>3, <3>2, <4>1 DEF BucketInv
      <4>3. KeyOf[s[n]] = k
        BY <2>1 DEF Under
      <4> QED
        BY <3>2, <4>2, <4>3
    <3> QED
      BY <3>1, <3>2, <3>3, SelectedNone
  <2>4. Selected(FlattenSeq(seqs), T) = Selected(seqs[i], T)
    BY <1>5, <2>2, <2>3, SelectedFlatten
  <2> QED
    BY <1>2, <2>1, <2>2, <2>4 DEF Contents, Listed
<1>8. \A j \in Index : Bucket(j)' = Bucket(j)
  BY <1>2 DEF Bucket
<1>9. Contents' = Contents
  BY <1>8, ContentsStay
<1> QED
  BY <1>6, <1>7, <1>9 DEF StoreApply, StoreStep

\* hclose forgets everything.
LEMMA CloseStore ==
  ASSUME Close
  PROVE  StoreStep
<1>1. queues' = [i \in Index |-> NoQueue] /\ ret' = <<NULL>>
  BY DEF Close, HClose
<1>2. \A i \in Index : Bucket(i)' = <<>>
  BY <1>1 DEF Bucket
<1>3. ASSUME NEW k \in AllKeys PROVE Listed(k)' = <<>>
  <2>1. Bucket(Hashed[k])' = <<>>
    BY <1>2, KeyBucket
  <2>2. Selected(<<>>, Under(k)) = <<>>
    BY SelectedEmpty
  <2> QED
    BY <2>1, <2>2 DEF Listed, Under
<1> QED
  BY <1>1, <1>3 DEF StoreStep, Contents

\* Everything else happens inside of a call and is not seen, but that hput may fail.
LEMMA QuietStore ==
  ASSUME LHashInv, NEW t \in Threads,
         PutOpen(t) \/ PutRead(t) \/ Unlock(t) \/ \E op, a : Call(t, op, a)
  PROVE  StoreStep
<1>1. \A i \in Index : Bucket(i)' = Bucket(i)
  <2>1. CASE PutOpen(t)
    BY <2>1, PutOpenBuckets
  <2>2. CASE PutRead(t) \/ Unlock(t) \/ \E op, a : Call(t, op, a)
    BY <2>2 DEF PutRead, Unlock, Call, vars, Bucket
  <2> QED
    BY <2>1, <2>2
<1>2. ret' = ret \/ ret' = <<-1>>
  BY DEF PutOpen, PutRead, Unlock, Call, vars
<1> QED
  BY <1>1, <1>2, ContentsStay DEF StoreStep

\* The first state is the first state of the store.
LEMMA InitStore == LInit => Store!Init
<1> SUFFICES ASSUME LInit PROVE Store!Init
  OBVIOUS
<1>1. queues = [i \in Index |-> NoQueue] /\ ret = <<>>
  BY DEF LInit, Init
<1>2. \A k \in AllKeys : Bucket(Hashed[k]) = <<>>
  BY <1>1, KeyBucket DEF Bucket
<1>3. \A k \in AllKeys : Listed(k) = <<>>
  BY <1>2, SelectedEmpty DEF Listed
<1>4. Contents = [k \in AllKeys |-> <<>>]
  BY <1>3 DEF Contents
<1> QED
  BY <1>1, <1>4 DEF Store!Init, Contents, Listed, Under

\* Keys that collide do not see each other's entries, in whatever order threads call
\* the table: under every key it is a queue, from which lhsearch and lhremove take the
\* oldest entry, and lhapply visits every entry once.
THEOREM TableIsAStore == LSpec => ImplementsStore
<1>1. LHashInv /\ [LNext]_lvars => [Store!Next]_(Store!vars)
  <2> SUFFICES ASSUME LHashInv, [LNext]_lvars PROVE StoreStep
    BY StoreSteps
  <2>1. CASE UNCHANGED lvars \/ Closed
    <3>1. ret' = ret /\ \A i \in Index : Bucket(i)' = Bucket(i)
      BY <2>1 DEF Closed, lvars, vars, Bucket
    <3> QED
      BY <3>1, ContentsStay DEF StoreStep
  <2>2. CASE Close
    BY <2>2, CloseStore
  <2>3. ASSUME NEW t \in Threads, ThreadStep(t) PROVE StoreStep
    <3>1. CASE PutOpen(t) \/ PutRead(t) \/ Unlock(t) \/ \E op, a : Call(t, op, a)
      BY <3>1, QuietStore
    <3>2. CASE PutAppend(t)
      BY <3>2, PutStore
    <3>3. CASE SearchKey(t)
      BY <3>3, SearchStore
    <3>4. CASE RemoveKey(t)
      BY <3>4, RemoveStore
    <3>5. CASE ApplyAll(t)
      BY <3>5, ApplyStore
    <3> QED
      BY <2>3, <3>1, <3>2, <3>3, <3>4, <3>5 DEF ThreadStep
  <2> QED
    BY <2>1, <2>2, <2>3 DEF LNext
<1> QED
  BY <1>1, InitStore, LHashInvariant, PTL DEF LSpec, ImplementsStore, Store!Spec

=============================================================================
