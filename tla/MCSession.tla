------------------------------ MODULE MCSession ------------------------------
(* Small instances of Session for TLC. *)
EXTENDS Session

\* With MaxLength = 5: an empty packet, one that fits, and one that needs two
\* reads, with bytes that look like a header.
MCPayloads == {<<>>, <<"x", "N">>, <<"x", "N", "F", "x">>}
=============================================================================
