-------------------------- MODULE MCManagedMemory --------------------------
(* Operations on the memory that is there, on one that is not and on none.    *)
EXTENDS ManagedMemory
MCDrafts == {[op |-> "add", target |-> 0], [op |-> "supersede", target |-> 1],
             [op |-> "update", target |-> 9]}
MCManual == {[op |-> "archive", target |-> 0], [op |-> "restore", target |-> 1]}
=============================================================================
