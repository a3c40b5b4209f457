-------------------------------- MODULE Fifo --------------------------------
(***************************************************************************)
(* What the interface of module3/queue/queue.h promises: queues of         *)
(* elements in the order they were put.  ret is what the last call         *)
(* returned, or the elements it handed to fn.                              *)
(***************************************************************************)
EXTENDS Sequences, Integers

CONSTANTS Queues, Elements, NULL

VARIABLES contents, ret

vars == <<contents, ret>>

\* The queues that are open, with what they hold.
Open == DOMAIN contents

With(q, s) == contents' = [contents EXCEPT ![q] = s]

First(s, Found) == CHOOSE i \in DOMAIN s : s[i] \in Found /\ \A j \in 1..(i-1) : s[j] \notin Found

Init == contents = [q \in {} |-> <<>>] /\ ret = <<>>

Opened(q) ==
  /\ q \notin Open
  /\ contents' = [p \in Open \cup {q} |-> IF p = q THEN <<>> ELSE contents[p]]
  /\ ret' = <<q>>

Closed(Q) == contents' = [p \in Open \ Q |-> contents[p]] /\ ret' = <<NULL>>

Put(q, e) == With(q, Append(contents[q], e)) /\ ret' = <<0>>

Failed == ret' \in {<<NULL>>, <<-1>>} /\ UNCHANGED contents

Get(q) ==
  IF contents[q] = <<>>
  THEN ret' = <<NULL>> /\ UNCHANGED contents
  ELSE ret' = <<Head(contents[q])>> /\ With(q, Tail(contents[q]))

Apply(q) == ret' = contents[q] /\ UNCHANGED contents

Search(q, Found) ==
  /\ UNCHANGED contents
  /\ ret' = IF \E i \in DOMAIN contents[q] : contents[q][i] \in Found
            THEN <<contents[q][First(contents[q], Found)]>> ELSE <<NULL>>

Remove(q, Found) ==
  IF \E i \in DOMAIN contents[q] : contents[q][i] \in Found
  THEN LET i == First(contents[q], Found)
       IN  /\ ret' = <<contents[q][i]>>
           /\ With(q, SubSeq(contents[q], 1, i - 1)
                      \o SubSeq(contents[q], i + 1, Len(contents[q])))
  ELSE ret' = <<NULL>> /\ UNCHANGED contents

Concat(q1, q2) ==
  /\ contents' = [p \in Open \ {q2} |->
                    IF p = q1 THEN contents[q1] \o contents[q2] ELSE contents[p]]
  /\ ret' = <<NULL>>

Next ==
  \/ Failed
  \/ \E q \in Queues : Opened(q)
  \/ \E q \in Open :
       \/ Closed({q})
       \/ Get(q) \/ Apply(q)
       \/ \E e \in Elements : Put(q, e)
       \/ \E Found \in SUBSET Elements : Search(q, Found) \/ Remove(q, Found)
       \/ \E q2 \in Open \ {q} : Concat(q, q2)

Spec == Init /\ [][Next]_vars

=============================================================================
