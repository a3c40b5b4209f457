------------------------------ MODULE MCQueue -------------------------------
(***************************************************************************)
(* The linked structures of module3, each in a program of its own as its   *)
(* tests are: queues over a heap of a few nodes, or the list of cars.  The *)
(* names of nodes, queues and elements do not matter.                      *)
(***************************************************************************)
EXTENDS Queue, TLC

CONSTANTS Cars, Plates

ASSUME CarsAssumption == NULL \notin Cars /\ IsFiniteSet(Cars)

VARIABLES
  program,                     \* what runs: "queue" or "list"
  head, following, plate, call \* the variables of List

list == <<head, following, plate, call>>

CarList == INSTANCE List WITH next <- following

MCInit ==
  \/ /\ program = "queue" /\ Init
     /\ head = NULL /\ following = <<>> /\ plate = <<>> /\ call = CarList!NoCall
  \/ /\ program = "list" /\ CarList!Init
     /\ open = {} /\ allocated = {} /\ ret = <<>> /\ orphaned = {}
     /\ start = <<>> /\ end = <<>> /\ data = <<>> /\ next = <<>>

MCNext ==
  \/ program = "queue" /\ Next /\ UNCHANGED <<program, list>>
  \/ program = "list" /\ CarList!Next /\ UNCHANGED <<program, vars>>

MCSpec == MCInit /\ [][MCNext]_<<program, vars, list>>

\* Calls on the list take effect as on a stack; see ActsAsStack.
ListActsAsStack == CarList!ActsAsStack

QueueSymmetry ==
  Permutations(Queues) \cup Permutations(Nodes) \cup Permutations(Elements)
=============================================================================
