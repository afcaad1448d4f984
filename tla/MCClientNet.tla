----------------------------- MODULE MCClientNet -----------------------------
(* A small instance of ClientNet for TLC. *)
EXTENDS ClientNet

\* With MaxLength = 5: an empty reply, two that fit, and one that needs two
\* reads, with bytes that look like a header.
MCPayloads == {<<>>, <<"x">>, <<"x", "N">>, <<"x", "N", "F", "x">>}
=============================================================================
