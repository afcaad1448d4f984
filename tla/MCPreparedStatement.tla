------------------------ MODULE MCPreparedStatement ------------------------
(* A small instance of PreparedStatement for TLC. *)
EXTENDS PreparedStatement

\* Queries with one and with two parameters (one of them has a question mark
\* in a literal), results in two orders of columns, one with a column that
\* gets no buffer, and no result.
MCQuery ==
    {[marks |-> 1, params |-> 1,
      cols |-> <<[name |-> "id", type |-> "long"], [name |-> "name", type |-> "string"]>>],
     [marks |-> 2, params |-> 1,
      cols |-> <<[name |-> "name", type |-> "string"], [name |-> "id", type |-> "short"]>>],
     [marks |-> 2, params |-> 2, cols |-> <<>>],
     [marks |-> 0, params |-> 0,
      cols |-> <<[name |-> "id", type |-> "other"]>>]}
=============================================================================
