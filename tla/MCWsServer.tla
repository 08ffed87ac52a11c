----------------------------- MODULE MCWsServer -----------------------------
(* WsServer with two connections that may draw the same ID, one kind of      *)
(* message and of frame, and channels of capacity one.                       *)
EXTENDS WsServer
=============================================================================
