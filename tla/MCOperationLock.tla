-------------------------- MODULE MCOperationLock ---------------------------
(* Small instances of OperationLock: the callers are interchangeable.      *)
EXTENDS OperationLock, TLC

AnyCaller == Permutations(Callers)
=============================================================================
