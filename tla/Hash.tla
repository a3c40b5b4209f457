-------------------------------- MODULE Hash --------------------------------
(***************************************************************************)
(* module3/hash/hash.c: an array of queues, one for every hash value,      *)
(* opened when the first entry arrives.  The queues are the sequences that *)
(* module Queue implements.  Keys stand for the pair (key, keylen).  hput, *)
(* whose steps other threads must not come between, is in module LHash.    *)
(***************************************************************************)
EXTENDS Integers, Sequences, SequencesExt, Selection

CONSTANTS
  Keys,       \* keys of positive length
  EmptyKeys,  \* keys whose keylen is 0
  Entries,    \* what ep points to
  KeyOf,      \* the key in an entry; the callers' searchfn compares it
  Size,       \* hsize
  Hashed,     \* SuperFastHash of every key, modulo the size
  NoQueue,    \* a NULL pointer in the array
  NULL

AllKeys == Keys \cup EmptyKeys
Index == 0..(Size - 1)

ASSUME HashAssumption ==
  /\ Keys \cap EmptyKeys = {}
  /\ Size \in Nat \ {0}
  /\ KeyOf \in [Entries -> AllKeys]
  /\ Hashed \in [AllKeys -> Index]
  /\ \A k \in EmptyKeys : Hashed[k] = 0   \* hash.c:29-30
  /\ NoQueue \notin Seq(Entries)

VARIABLES queues, ret

vars == <<queues, ret>>

\* A bucket as a sequence, whether its queue is open or not.
Bucket(i) == IF queues[i] = NoQueue THEN <<>> ELSE queues[i]

\* hopen, or the state the last hclose leaves for the next one.
Init == queues = [i \in Index |-> NoQueue] /\ ret = <<>>

HApply ==
  /\ ret' = FlattenSeq([i \in 1..Size |-> Bucket(i - 1)])
  /\ UNCHANGED queues

\* The positions in its bucket at which searchfn accepts the key.
Matches(k) == {j \in DOMAIN Bucket(Hashed[k]) : KeyOf[Bucket(Hashed[k])[j]] = k}
First(k) == CHOOSE j \in Matches(k) : \A i \in Matches(k) : j <= i

\* hsearch and hremove return at once when keylen is not positive.
Found(k) == k \in Keys /\ Matches(k) # {}

HSearch(k) ==
  /\ ret' = <<IF Found(k) THEN Bucket(Hashed[k])[First(k)] ELSE NULL>>
  /\ UNCHANGED queues

\* Faulty variant: the first entry of the bucket is removed, whatever its key.
HRemoveFirst(k) ==
  \/ /\ k \in EmptyKeys \/ Bucket(Hashed[k]) = <<>>
     /\ ret' = <<NULL>>
     /\ UNCHANGED queues
  \/ /\ k \in Keys /\ Bucket(Hashed[k]) # <<>>
     /\ ret' = <<Head(Bucket(Hashed[k]))>>
     /\ queues' = [queues EXCEPT ![Hashed[k]] = Tail(@)]

HRemove(k) ==
  \/ /\ ~Found(k)
     /\ ret' = <<NULL>>
     /\ UNCHANGED queues
  \/ /\ Found(k)
     /\ ret' = <<Bucket(Hashed[k])[First(k)]>>
     /\ queues' = [queues EXCEPT ![Hashed[k]] = RemoveAt(@, First(k))]

\* hclose; the next hopen starts with an empty array.
HClose == queues' = [i \in Index |-> NoQueue] /\ ret' = <<NULL>>

-----------------------------------------------------------------------------
\* Keys that collide do not see each other's entries: on every key the table acts
\* as a queue of its own, and on an empty key as one that is never searched.
Store == INSTANCE KeyedStore WITH
  Keys <- AllKeys, HiddenKeys <- EmptyKeys,
  store <- [k \in AllKeys |-> Selected(Bucket(Hashed[k]), {e \in Entries : KeyOf[e] = k})]
ImplementsStore == Store!Spec

=============================================================================
