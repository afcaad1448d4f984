-------------------------- MODULE MCHandlerManager --------------------------
(* A small instance of HandlerManager for TLC. *)
EXTENDS HandlerManager, TLC

CONSTANTS h1, h2, h3

\* Two handlers with one name.
MCThreadName == h1 :> "A" @@ h2 :> "A" @@ h3 :> "B"

\* Packets of every kind; nobody need have the name of the last one.
MCPacket == {[name |-> "A", kind |-> "call"], [name |-> "A", kind |-> "unknown"],
             [name |-> "A", kind |-> "unreadable"], [name |-> "B", kind |-> "bad arguments"]}
=============================================================================
