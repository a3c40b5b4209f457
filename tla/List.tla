-------------------------------- MODULE List --------------------------------
(***************************************************************************)
(* module3/list/list.c: one static list, linked through the cars that its  *)
(* callers hand over.  They own a car until lput and again from lget or    *)
(* lremove on, and what its next field holds meanwhile is anything.        *)
(***************************************************************************)
EXTENDS Integers, FiniteSets, SequencesExt, Selection

CONSTANTS Cars, Plates, NULL

VARIABLES
  head,
  next, plate,   \* the fields of car_t
  call           \* history: the last call, its argument, and what it returned or handed to fn

vars == <<head, next, plate, call>>

Returns(fn, arg, result) == call' = [fn |-> fn, arg |-> arg, result |-> result]

NoCall == [fn |-> "none", arg |-> NULL, result |-> <<>>]

Init ==
  /\ head = NULL
  /\ next \in [Cars -> Cars \cup {NULL}] /\ plate \in [Cars -> Plates]
  /\ call = NoCall

\* The cars that the loops over the list visit.
List ==
  LET curr[i \in Nat] ==
        IF i = 0 THEN head ELSE IF curr[i - 1] = NULL THEN NULL ELSE next[curr[i - 1]]
      length == CHOOSE n \in 0..Cardinality(Cars) :
                  curr[n] = NULL /\ \A i \in 0..(n - 1) : curr[i] # NULL
  IN  [i \in 1..length |-> curr[i - 1]]

-----------------------------------------------------------------------------
\* The caller owns cp; a car that is in the list already would make a cycle.
LPut(cp) ==
  /\ ~Contains(List, cp)
  /\ next' = [next EXCEPT ![cp] = head] /\ head' = cp
  /\ Returns("lput", cp, <<0>>)
  /\ UNCHANGED plate

LPutNull == Returns("lput", NULL, <<-1>>) /\ UNCHANGED <<head, next, plate>>

LGet ==
  \/ /\ head = NULL
     /\ Returns("lget", NULL, <<NULL>>)
     /\ UNCHANGED <<head, next, plate>>
  \/ /\ head # NULL
     /\ head' = next[head] /\ next' = [next EXCEPT ![head] = NULL]
     /\ Returns("lget", NULL, <<head>>)
     /\ UNCHANGED plate

LApply == Returns("lapply", NULL, List) /\ UNCHANGED <<head, next, plate>>

\* Faulty variant: the first car of the list is not unlinked.
LRemoveKeepsHead(p) ==
  LET i == SelectInSeq(List, LAMBDA c : plate[c] = p)
  IN  /\ Returns("lremove", p, IF i = 0 THEN <<NULL>> ELSE <<List[i]>>)
      /\ UNCHANGED <<head, plate>>
      /\ IF i > 1 THEN next' = [next EXCEPT ![List[i - 1]] = next[List[i]]]
         ELSE UNCHANGED next

\* The next field of the car that is handed out still points into the list.
LRemove(p) ==
  LET i == SelectInSeq(List, LAMBDA c : plate[c] = p)
  IN  /\ Returns("lremove", p, IF i = 0 THEN <<NULL>> ELSE <<List[i]>>)
      /\ UNCHANGED plate
      /\ CASE i = 0 -> UNCHANGED <<head, next>>
           [] i = 1 -> head' = next[head] /\ UNCHANGED next
           [] i > 1 -> next' = [next EXCEPT ![List[i - 1]] = next[List[i]]] /\ UNCHANGED head

Next ==
  \/ LPutNull \/ LGet \/ LApply
  \/ \E cp \in Cars : LPut(cp)
  \/ \E p \in Plates : LRemove(p)

Spec == Init /\ [][Next]_vars

-----------------------------------------------------------------------------
\* One call as on a stack from which the uppermost car with a plate can be taken out.
StackStep ==
  LET r == call'.result
      wanted == Selected(List, {c \in Cars : plate[c] = call'.arg})
      taken == CASE call'.fn = "lget" -> List [] call'.fn = "lremove" -> wanted [] OTHER -> <<>>
  IN  CASE call'.fn = "lput" /\ call'.arg # NULL -> r = <<0>> /\ List' = <<call'.arg>> \o List
        [] call'.fn \in {"lget", "lremove"} /\ taken # <<>> ->
             r = <<Head(taken)>> /\ List' = Selected(List, Cars \ {Head(taken)})
        [] OTHER ->
             /\ List' = List
             /\ r = CASE call'.fn = "lput" -> <<-1>> [] call'.fn = "lapply" -> List
                      [] OTHER -> <<NULL>>

\* Through its interface the list is a stack from which the uppermost car with a plate
\* can be taken out: what a car pointed to before it was put, or points to since it was
\* removed, never shows.
ActsAsStack == [][StackStep]_vars

=============================================================================
