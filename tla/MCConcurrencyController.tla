---------------------- MODULE MCConcurrencyController ----------------------
(* A small instance of ConcurrencyController for TLC. *)
EXTENDS ConcurrencyController, TLC

Symmetric == Permutations(Requests)

=============================================================================
