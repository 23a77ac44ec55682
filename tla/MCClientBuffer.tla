---------------------------- MODULE MCClientBuffer --------------------------
(* TLC instances of ClientBuffer: callers are interchangeable.             *)
EXTENDS ClientBuffer, TLC

MCSymmetry == Permutations(Caller)
=============================================================================
