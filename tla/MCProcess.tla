------------------------------ MODULE MCProcess ------------------------------
(* Process with channels of capacity one, which two calls fill. *)
EXTENDS Process
=============================================================================
