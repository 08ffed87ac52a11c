------------------------------ MODULE MCAskUser ------------------------------
(* AskUser with two calls, two request IDs they may both draw, two handlers  *)
(* and two answers.                                                          *)
EXTENDS AskUser
=============================================================================
