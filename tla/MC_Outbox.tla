------------------------------ MODULE MC_Outbox ------------------------------
(* TLC instance of Outbox: two Cases whose task IDs are 1 and 2.           *)
EXTENDS Outbox, TLC

CONSTANTS c1, c2

MCTaskIDOf == c1 :> 2 @@ c2 :> 1

Symmetry == Permutations(Worker) \cup Permutations(Token)

=============================================================================
