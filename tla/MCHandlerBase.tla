---------------------------- MODULE MCHandlerBase ----------------------------
(* Small instances of HandlerBase for TLC. *)
EXTENDS HandlerBase

MCClient == {"c1", "c2", "c3"}

MCCanAnswer == {"c1", "c2"}

MCFunctions == {"addUser"}

\* Two clients with good calls, one unknown signature, one call whose
\* arguments cannot be read, one client that cannot be answered.
MCCall == {[sig |-> "addUser", wellFormed |-> TRUE,  client |-> "c1"],
           [sig |-> "addUser", wellFormed |-> TRUE,  client |-> "c2"],
           [sig |-> "nosuch",  wellFormed |-> TRUE,  client |-> "c1"],
           [sig |-> "addUser", wellFormed |-> FALSE, client |-> "c2"],
           [sig |-> "addUser", wellFormed |-> TRUE,  client |-> "c3"]}
=============================================================================
