------------------------- MODULE PreparedStatement -------------------------
(***************************************************************************)
(* dblib/db.cpp and dblib/mysql_backend.cpp: the connection that Database  *)
(* keeps, and one PreparedStatement: prepare, bindValue, execute,          *)
(* nextResult, value and the destructor, in any order and any number of    *)
(* times.                                                                  *)
(*                                                                         *)
(* What is at stake are buffers.  The parameters of a statement and the    *)
(* columns of its result live in vectors of PSImpl, and the MySQL client   *)
(* library is given pointers to them: it reads the parameters in execute   *)
(* and writes the columns in every fetch.  An int parameter is read        *)
(* through a pointer into paramBindData, so a binding remembers in which   *)
(* allocation of the vector it points.                                     *)
(*                                                                         *)
(* The library (libmysqlclient 5.7) is modelled by prepared, attached,     *)
(* resultBound, rows and row: what the code in db.cpp can observe of it.   *)
(***************************************************************************)
EXTENDS Naturals, Sequences, SequencesExt

CONSTANTS Query,       \* [marks, params, cols], see QueryAssumption
          Cell,        \* values of parameters and of fields
          Negative,    \* those that are negative as numbers
          FullLength,  \* those that fill their column as strings
          MaxPrepares  \* bound: calls of prepare

\* marks counts the question marks in the text, params those that are not
\* part of a literal; cols are the columns of the result, with their types:
\* "long", "short", "string", or "other" for a type that gets no buffer.
ASSUME QueryAssumption ==
    /\ \A q \in Query : /\ q.params \in Nat /\ q.marks \in Nat /\ q.params <= q.marks
                        /\ q.cols \in Seq([name : STRING, type : STRING])
    /\ Negative \subseteq Cell /\ FullLength \subseteq Cell
    /\ MaxPrepares \in Nat

VARIABLES isConnected_,   \* MySQL::isConnected_
          link,           \* the connection to the server exists
          stmt_,          \* the statement handle: unmade, null, open or closed
          paramBindings,  \* the parameters, each with what it points to
          capacity,       \* of the parameter vectors
          storage,        \* how often they have been reallocated
          columnData,     \* column name to index
          types,          \* the buffer types of the columns
          bindData,       \* the contents of the column buffers
          prepared,       \* the query the library has prepared
          attached,       \* the handle has not lost its connection
          resultBound,    \* the library writes to bindData
          rows,           \* there may be rows that were not fetched yet
          row,            \* the row fetched last
          prepares,       \* how often prepare was called
          columnsFor,     \* the prepare that columnData was filled for
          bound,          \* what each parameter was bound to since prepare
          sent,           \* the parameters, if execute was called last
          got,            \* what value() returned, if it was called last
          fault           \* how the program was ended, if it was

connVars == <<isConnected_, link, attached>>
paramVars == <<paramBindings, capacity, storage, bound>>
columnVars == <<columnData, types, resultBound, columnsFor>>
vars == <<connVars, paramVars, columnVars, bindData, stmt_, prepared, rows, row,
          prepares, sent, got, fault>>

NoQuery == [marks |-> 0, params |-> 0, cols |-> <<>>]

\* A parameter that was never bound is all zeros: the library sends an empty
\* string for it.
Unbound == [type |-> "zero", val |-> "empty", storage |-> 0]

NoValue == [name |-> "", as |-> "none", val |-> ""]

Binding == [type : {"zero", "int", "string"}, val : Cell \cup {"empty"}, storage : Nat]

Content == Cell \cup {"zero", "uninitialised"}

TypeOK ==
    /\ isConnected_ \in BOOLEAN /\ link \in BOOLEAN /\ attached \in BOOLEAN
    /\ stmt_ \in {"unmade", "null", "open", "closed"}
    /\ paramBindings \in Seq(Binding)
    /\ capacity \in Nat /\ Len(paramBindings) <= capacity
    /\ storage \in Nat
    /\ Len(types) = Len(bindData) /\ bindData \in Seq(Content)
    /\ columnData \in [DOMAIN columnData -> DOMAIN bindData]
    /\ prepared \in Query \cup {NoQuery}
    /\ resultBound \in BOOLEAN
    /\ rows \in BOOLEAN
    /\ row \in Seq(Cell \cup {"null"})
    /\ prepares \in 0..MaxPrepares /\ columnsFor \in 0..prepares
    /\ bound \in Seq(Cell \cup {"none"}) /\ Len(bound) = Len(paramBindings)
    /\ sent \in Seq(Cell \cup {"empty", "dangling"})
    /\ got.as \in {"none", "int", "string"}
    /\ fault \in {"none", "out of bounds", "bad pointer"}

Init ==
    /\ isConnected_ = FALSE /\ link = FALSE /\ attached = TRUE
    /\ stmt_ = "unmade"
    /\ paramBindings = <<>> /\ capacity = 0 /\ storage = 0 /\ bound = <<>>
    /\ columnData = <<>> /\ types = <<>> /\ resultBound = FALSE /\ columnsFor = 0
    /\ bindData = <<>>
    /\ prepared = NoQuery
    /\ rows = FALSE /\ row = <<>> /\ sent = <<>> /\ got = NoValue
    /\ prepares = 0
    /\ fault = "none"

-----------------------------------------------------------------------------
(* Database                                                                *)

\* mysql_real_connect refuses a handle that is connected already, and
\* isConnected_ then says that there is no connection.
Connect ==
    /\ \E ok \in BOOLEAN :
         /\ isConnected_' = (ok /\ ~link)
         /\ link' = (ok \/ link)
    /\ UNCHANGED <<attached, paramVars, columnVars, bindData, stmt_, prepared,
                   rows, row, prepares, sent, got, fault>>

\* The server goes away.  isConnected_ is not told; a handle that was prepared
\* stays without a connection, also after the next connect.
LoseConnection ==
    /\ link
    /\ link' = FALSE
    /\ attached' = (attached /\ prepared = NoQuery)
    /\ UNCHANGED <<isConnected_, paramVars, columnVars, bindData, stmt_, prepared,
                   rows, row, prepares, sent, got, fault>>

-----------------------------------------------------------------------------
(* PreparedStatement                                                       *)

Construct ==
    /\ stmt_ = "unmade"
    /\ stmt_' = IF isConnected_ THEN "open" ELSE "null"
    /\ UNCHANGED <<connVars, paramVars, columnVars, bindData, prepared, rows, row,
                   prepares, sent, got, fault>>

\* ~PreparedStatement closes the handle.  PSImpl is never deleted, but nothing
\* leads to it any more: what it holds is left out of the state.
Destroy ==
    /\ stmt_ \in {"null", "open"}
    /\ stmt_' = "closed"
    /\ paramBindings' = <<>> /\ capacity' = 0 /\ storage' = 0 /\ bound' = <<>>
    /\ columnData' = <<>> /\ types' = <<>> /\ resultBound' = FALSE /\ columnsFor' = 0
    /\ bindData' = <<>>
    /\ prepared' = NoQuery
    /\ rows' = FALSE /\ row' = <<>> /\ sent' = <<>> /\ got' = NoValue
    /\ UNCHANGED <<connVars, prepares, fault>>

\* vector::resize: elements are kept, new ones are zero, and more than the
\* capacity means a new allocation, at least twice as large as the old size.
Resize(n) ==
    /\ paramBindings' = [i \in 1..n |-> IF i <= Len(paramBindings) THEN paramBindings[i]
                                        ELSE Unbound]
    /\ IF n <= capacity THEN UNCHANGED <<capacity, storage>>
       ELSE /\ storage' = storage + 1
            /\ capacity' = IF n >= 2 * Len(paramBindings) THEN n ELSE 2 * Len(paramBindings)

\* The vectors are resized before the library is asked, whether it succeeds
\* or not: without a connection it fails, and it may reject the text.  It
\* forgets the old query and its result buffers.
Prepare(q) ==
    /\ stmt_ = "open"
    /\ prepares < MaxPrepares
    /\ prepares' = prepares + 1
    /\ Resize(q.marks)
    /\ bound' = [i \in 1..q.marks |-> "none"]
    /\ prepared' \in {NoQuery} \cup IF link /\ attached THEN {q} ELSE {}
    /\ resultBound' = FALSE
    /\ rows' = FALSE /\ row' = <<>> /\ sent' = <<>> /\ got' = NoValue
    /\ UNCHANGED <<connVars, columnData, types, columnsFor, bindData, stmt_, fault>>

\* Mutant of BindValue: the buffer of an earlier string is kept.
BindValue_KeepsBuffer(i, v, type) ==
    /\ stmt_ = "open"
    /\ i <= Len(paramBindings)
    /\ paramBindings' = [paramBindings EXCEPT ![i] =
         IF @.type = "string" THEN @ ELSE [type |-> type, val |-> v, storage |-> storage]]
    /\ bound' = [bound EXCEPT ![i] = v]
    /\ sent' = <<>> /\ got' = NoValue
    /\ UNCHANGED <<connVars, capacity, storage, columnVars, bindData, stmt_, prepared,
                   rows, row, prepares, fault>>

\* Both overloads of bindValue.  An int is stored in paramBindData and pointed
\* to; a string is copied to memory of its own.  i is param + 1; the test lets
\* param = size() pass, which writes behind the vectors.
BindValue(i, v, type) ==
    /\ stmt_ = "open"
    /\ i <= Len(paramBindings) + 1
    /\ \/ /\ i = Len(paramBindings) + 1
          /\ fault' = "out of bounds"
          /\ UNCHANGED <<paramBindings, bound>>
       \/ /\ i <= Len(paramBindings)
          /\ paramBindings' = [paramBindings EXCEPT ![i] =
                                 [type |-> type, val |-> v, storage |-> storage]]
          /\ bound' = [bound EXCEPT ![i] = v]
          /\ UNCHANGED fault
    /\ sent' = <<>> /\ got' = NoValue
    /\ UNCHANGED <<connVars, capacity, storage, columnVars, bindData, stmt_, prepared,
                   rows, row, prepares>>

\* What the library reads for a parameter.
Pointee(b) == IF b.type = "int" /\ b.storage # storage THEN "dangling" ELSE b.val

\* Of two columns with one name the last is found.
ColumnIndex(name) == SelectLastInSeq(prepared.cols, LAMBDA c : c.name = name)

\* Mutant of NewColumns: the index is advanced before it is stored.
NewColumns_OffByOne ==
    /\ columnData' = [n \in {c.name : c \in ToSet(prepared.cols)} |->
                        1 + ColumnIndex(n)]
    /\ types' = [i \in DOMAIN prepared.cols |-> prepared.cols[i].type]
    /\ bindData' = [i \in DOMAIN prepared.cols |-> "zero"]
    /\ columnsFor' = prepares

\* A buffer for each column of the result.  A string buffer is not initialised.
NewColumns ==
    /\ columnData' = [n \in {c.name : c \in ToSet(prepared.cols)} |->
                        ColumnIndex(n)]
    /\ types' = [i \in DOMAIN prepared.cols |-> prepared.cols[i].type]
    /\ bindData' = [i \in DOMAIN prepared.cols |->
                      IF prepared.cols[i].type = "string" THEN "uninitialised" ELSE "zero"]
    /\ columnsFor' = prepares

\* Mutant of FillColumnData: the buffers are bound again, but not made again.
FillColumnData_BindsAlways ==
    IF prepared.cols = <<>> THEN UNCHANGED <<columnVars, bindData>>
    ELSE /\ resultBound' = TRUE
         /\ IF columnData = <<>> THEN NewColumns
            ELSE UNCHANGED <<columnData, types, columnsFor, bindData>>

\* Mutant of FillColumnData: the buffers are made, but not bound.
FillColumnData_NoBind ==
    IF columnData = <<>> /\ prepared.cols # <<>>
    THEN NewColumns /\ UNCHANGED resultBound
    ELSE UNCHANGED <<columnVars, bindData>>

\* The columns get their buffers once in the life of the statement: with the
\* first query that has a result.  The library refuses them all if it cannot
\* convert to the type of one, which is only logged.
FillColumnData ==
    IF columnData = <<>> /\ prepared.cols # <<>>
    THEN /\ NewColumns
         /\ resultBound' \in {TRUE} \cup {c.type # "other" : c \in ToSet(prepared.cols)}
    ELSE UNCHANGED <<columnVars, bindData>>

\* The three steps of execute, any of which may fail.  Without a prepared
\* query the first one that is taken does.  The result replaces the one before.
Execute ==
    /\ stmt_ = "open"
    /\ row' = <<>> /\ got' = NoValue
    /\ \/ \* mysql_stmt_bind_param or mysql_stmt_execute fails
          /\ rows' = FALSE /\ sent' = <<>>
          /\ UNCHANGED <<columnVars, bindData>>
       \/ /\ prepared # NoQuery /\ link /\ attached
          /\ sent' = [i \in 1..prepared.params |-> Pointee(paramBindings[i])]
          /\ \/ \* mysql_stmt_store_result fails
                /\ rows' = FALSE
                /\ UNCHANGED <<columnVars, bindData>>
             \/ /\ rows' = (prepared.cols # <<>>)
                /\ FillColumnData
    /\ UNCHANGED <<connVars, paramVars, stmt_, prepared, prepares, fault>>

\* What fetching a row leaves in the buffers: a null field changes nothing.
Fetched(r) ==
    [i \in DOMAIN bindData |-> IF r[i] = "null" \/ types[i] = "other" THEN bindData[i]
                               ELSE r[i]]

\* nextResult with a row.  Without bound buffers the library skips the row and
\* reports success.  A column without a buffer is written through a null
\* pointer, or, if its length is checked, reported as truncated.
NextResult(r) ==
    /\ stmt_ = "open"
    /\ rows
    /\ row' = r
    /\ sent' = <<>> /\ got' = NoValue
    /\ bindData' = IF resultBound THEN Fetched(r) ELSE bindData
    /\ \/ UNCHANGED fault
       \/ /\ resultBound
          /\ \E i \in DOMAIN r : types[i] = "other" /\ r[i] # "null"
          /\ fault' = "bad pointer"
    /\ UNCHANGED <<connVars, paramVars, columnVars, stmt_, prepared, prepares, rows>>

\* nextResult without a row: the buffers keep the last one.
NoMoreResults ==
    /\ stmt_ = "open"
    /\ rows' = FALSE
    /\ row' = <<>> /\ sent' = <<>> /\ got' = NoValue
    /\ UNCHANGED <<connVars, paramVars, columnVars, bindData, stmt_, prepared,
                   prepares, fault>>

\* What intno or str of a buffer is.  A short fills two of the four bytes of
\* intno, the others are zero.  A string that fills its buffer has no end.
Read(i, as) ==
    CASE as = "int" /\ types[i] = "string" -> "pointer"
      [] as = "int" /\ types[i] = "short" /\ bindData[i] \in Negative -> "unsigned"
      [] as = "string" /\ bindData[i] \in FullLength -> "not terminated"
      [] OTHER -> bindData[i]

\* Both overloads of value.  A number is no pointer to a string.
Value(name, as) ==
    /\ stmt_ = "open"
    /\ name \in DOMAIN columnData
    /\ LET i == columnData[name]
       IN  \/ /\ as = "string" /\ types[i] # "string"
              /\ fault' = "bad pointer"
              /\ UNCHANGED got
           \/ /\ as = "int" \/ types[i] = "string"
              /\ got' = [name |-> name, as |-> as, val |-> Read(i, as)]
              /\ UNCHANGED fault
    /\ sent' = <<>>
    /\ UNCHANGED <<connVars, paramVars, columnVars, bindData, stmt_, prepared, rows,
                   row, prepares>>

-----------------------------------------------------------------------------

Names == UNION {{c.name : c \in ToSet(q.cols)} : q \in Query}

Rows == [DOMAIN prepared.cols -> Cell \cup {"null"}]

Next ==
    \/ /\ fault = "none"
       /\ \/ Connect
          \/ LoseConnection
          \/ Construct
          \/ Destroy
          \/ \E q \in Query : Prepare(q)
          \/ \E i \in 1..(Len(paramBindings) + 1), v \in Cell, t \in {"int", "string"} :
               BindValue(i, v, t)
          \/ Execute
          \/ \E r \in Rows : NextResult(r)
          \/ NoMoreResults
          \/ \E n \in Names, t \in {"int", "string"} : Value(n, t)
    \/ (fault # "none" \/ stmt_ \in {"null", "closed"}) /\ UNCHANGED vars

Spec == Init /\ [][Next]_vars

-----------------------------------------------------------------------------
(* Properties.                                                             *)

\* The server is sent what the parameters were bound to last, in whichever
\* order and however often they were bound, as numbers or as strings, and
\* however the vectors were resized before: every parameter that was bound
\* since the last prepare arrives.  (One that was bound only before it may be
\* read from memory that was freed.)  db.cpp:206-212, 226-233, 253-289.
ExecutedAsBound ==
    \A i \in DOMAIN sent : bound[i] # "none" => sent[i] = bound[i]

\* The types for which value() can return the field of the row.
Readable(type, as, cell) ==
    \/ type = "long" /\ as = "int"
    \/ type = "short" /\ as = "int" /\ cell \notin Negative
    \/ type = "string" /\ as = "string" /\ cell \notin FullLength

\* value() returns the field of the row fetched last, however often the query
\* was executed and whatever was fetched or read before, provided that the
\* first result of the statement was one of this query and all its columns get
\* buffers; a null field is not reported and shows an earlier row
\* (db.cpp:84-186, 291-319).
ValueOfCurrentRow ==
    got # NoValue /\ row # <<>> /\ columnsFor = prepares
        /\ (\A j \in DOMAIN types : types[j] # "other") =>
        LET i == columnData[got.name]
        IN  row[i] # "null" /\ Readable(types[i], got.as, row[i]) => got.val = row[i]

\* The library only writes to buffers that were made for the columns of the
\* query it executes, also after another query was prepared on the statement
\* (db.cpp:87-95, 179, 213).
BuffersFitQuery ==
    resultBound =>
        /\ prepared # NoQuery
        /\ types = [i \in DOMAIN prepared.cols |-> prepared.cols[i].type]
=============================================================================
