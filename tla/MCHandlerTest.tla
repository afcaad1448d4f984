---------------------------- MODULE MCHandlerTest ----------------------------
(* The one call that test/handlertest.cpp makes. *)
EXTENDS HandlerTest

MCCall == {[sig |-> "addUser", wellFormed |-> TRUE, client |-> "c1"]}
=============================================================================
