--------------------------- MODULE OrderedDelivery ---------------------------
(***************************************************************************)
(* What runOrderedSearch (src/Cli/SearchExecutor.cpp) promises its caller, *)
(* whatever the number of jobs: the results of tuples 0 .. count-1 reach   *)
(* `consume` one after the other in tuple order, each of them once; the    *)
(* call returns only when all of them have been consumed, and otherwise    *)
(* it throws.  This is the sequential loop of line 18 seen from outside.   *)
(***************************************************************************)
EXTENDS Integers, Sequences

VARIABLES count,      \* number of starting tuples
          delivered,  \* tuples whose result consume() has accepted, in order
          outcome     \* how the call ended

delivery == <<count, delivered, outcome>>

Init == /\ count \in Nat
        /\ delivered = <<>>
        /\ outcome = "running"

(* consume() accepts the result of the next tuple. *)
Deliver == /\ outcome = "running"
           /\ Len(delivered) < count
           /\ delivered' = Append(delivered, Len(delivered))
           /\ UNCHANGED <<count, outcome>>

(* The call returns: nothing is left to deliver. *)
Return == /\ outcome = "running"
          /\ Len(delivered) = count
          /\ outcome' = "returned"
          /\ UNCHANGED <<count, delivered>>

(* The call throws: bad argument, failed evaluation, output or thread. *)
Throw == /\ outcome = "running"
         /\ outcome' = "threw"
         /\ UNCHANGED <<count, delivered>>

Next == Deliver \/ Return \/ Throw

Safe == Init /\ [][Next]_delivery

(* The call ends, provided the threads run and the callbacks return. *)
Ends == <>(outcome # "running")

Spec == Safe /\ Ends
=============================================================================
