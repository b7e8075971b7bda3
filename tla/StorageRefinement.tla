-------------------------- MODULE StorageRefinement --------------------------
(***************************************************************************)
(* Storage, with its mutex and the steps it takes under it, implements     *)
(* AtomicStore with B bound to the second table and A broken.              *)
(***************************************************************************)
EXTENDS Storage

Store == INSTANCE AtomicStore WITH
    SlotOf  <- [n \in {"B"} |-> 2],
    Broken  <- {"A"},
    slots   <- Data,
    request <- call,
    reply   <- [t \in Threads |->
                 [done |-> pc[t] = "unlock",
                  ok   |-> ok[t],
                  rows |-> IF pc[t] = "unlock" THEN rows[t] ELSE {}]],
    down    <- crashed

\* Every call takes effect in one step between its invocation and its return,
\* although storage.cpp spends many steps on a set operation.
Linearizable == Store!Spec

=============================================================================
