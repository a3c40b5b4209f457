----------------------------- MODULE KeyedStore -----------------------------
(***************************************************************************)
(* What a table of module3/hash/hash.h gives its callers: entries put      *)
(* under a key are found under that key, the oldest first, whatever other  *)
(* keys hash to the same place.  Entries under a hidden key are kept and   *)
(* visited, but neither found nor removed.                                 *)
(***************************************************************************)
EXTENDS Integers, Sequences, Selection

CONSTANTS Keys, HiddenKeys, Entries, KeyOf, NULL

VARIABLES store, ret

vars == <<store, ret>>

Init == store = [k \in Keys |-> <<>>] /\ ret = <<>>

Put(e) ==
  /\ store' = [store EXCEPT ![KeyOf[e]] = Append(@, e)]
  /\ ret' = <<0>>

PutFails == ret' = <<-1>> /\ UNCHANGED store

Found(k) == k \notin HiddenKeys /\ store[k] # <<>>

Oldest(k) == IF Found(k) THEN Head(store[k]) ELSE NULL

Search(k) == ret' = <<Oldest(k)>> /\ UNCHANGED store

Remove(k) ==
  /\ ret' = <<Oldest(k)>>
  /\ store' = [store EXCEPT ![k] = IF Found(k) THEN Tail(@) ELSE @]

Under(k) == {e \in Entries : KeyOf[e] = k}

\* Every entry has a key, so each is visited once; the entries of one key in their order.
Apply ==
  /\ ret' \in Seq(Entries)
  /\ \A k \in Keys : Selected(ret', Under(k)) = store[k]
  /\ UNCHANGED store

Close == store' = [k \in Keys |-> <<>>] /\ ret' = <<NULL>>

Next ==
  \/ \E e \in Entries : Put(e)
  \/ PutFails \/ Apply \/ Close
  \/ \E k \in Keys : Search(k) \/ Remove(k)

Spec == Init /\ [][Next]_vars

=============================================================================
