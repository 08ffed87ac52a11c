------------------------------ MODULE MCBreaker ------------------------------
(* CircuitBreaker and Retry with limits of two, so that a half-open period    *)
(* has room for a probe that is late and the count for a failure that is not  *)
(* the last.                                                                  *)
EXTENDS Retry
=============================================================================
