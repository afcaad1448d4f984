----------------------- MODULE PreparedStatementProofs -----------------------
(***************************************************************************)
(* Proofs about PreparedStatement, for every set of queries and values.    *)
(***************************************************************************)
EXTENDS PreparedStatement, SequenceLemmas

-----------------------------------------------------------------------------
(* The inductive invariant.                                                *)

\* The library is never asked for a parameter that has no binding.
ParamsHaveBindings == prepared.params <= Len(paramBindings)

\* What was bound since prepare is in the binding, which points into the
\* vector that is there now.
BindingsCurrent ==
    \A i \in 1..Len(bound) :
        bound[i] # "none" => /\ paramBindings[i].val = bound[i]
                             /\ paramBindings[i].storage = storage

NoOtherTypes == \A j \in DOMAIN types : types[j] # "other"

\* There are rows only when there are columns, and columns that were made for
\* the query at hand are bound, if the library can convert to all of them.
RowsHaveColumns ==
    /\ rows \/ row # <<>> => DOMAIN columnData # {}
    /\ DOMAIN columnData # {} /\ columnsFor = prepares /\ NoOtherTypes => resultBound

\* The buffers of bound columns hold the row fetched last.
BuffersHoldRow ==
    row # <<>> /\ columnsFor = prepares /\ NoOtherTypes =>
        \A i \in DOMAIN bindData : row[i] # "null" => bindData[i] = row[i]

\* What value() returned is still in the buffer that it read.
GotFromBuffer ==
    got # NoValue => /\ got.name \in DOMAIN columnData
                     /\ got.val = Read(columnData[got.name], got.as)

IInv ==
    /\ TypeOK
    /\ ParamsHaveBindings
    /\ BindingsCurrent
    /\ RowsHaveColumns
    /\ BuffersHoldRow
    /\ GotFromBuffer
    /\ ExecutedAsBound
    /\ BuffersFitQuery

-----------------------------------------------------------------------------
(* The columns of a query.                                                 *)

\* A name of a column is found at an index of a column.
LEMMA ColumnIndexInRange ==
    ASSUME NEW C, prepared.cols \in Seq(C), NEW c \in ToSet(prepared.cols)
    PROVE  ColumnIndex(c.name) \in 1..Len(prepared.cols)
<1> DEFINE n == Len(prepared.cols)
           I == {i \in 1..n : prepared.cols[i].name = c.name}
<1>1. n \in Nat /\ DOMAIN prepared.cols = 1..n
  BY LenProperties
<1>2. I # {}
  BY <1>1 DEF ToSet
<1>3. Max(I) \in I
  BY <1>1, <1>2, MaxOfIndices
<1>4. ColumnIndex(c.name) = IF I # {} THEN Max(I) ELSE 0
  BY DEF ColumnIndex, SelectLastInSeq
<1> QED
  BY <1>2, <1>3, <1>4

-----------------------------------------------------------------------------
(* The invariant holds initially and every action preserves it.            *)

\* The columns of a query are a sequence, those of no query too.
LEMMA PreparedColumns ==
    ASSUME TypeOK
    PROVE  /\ prepared.cols \in Seq([name : STRING, type : STRING])
           /\ Len(prepared.cols) \in Nat
           /\ DOMAIN prepared.cols = 1..Len(prepared.cols)
           /\ prepared.params \in Nat /\ prepared.marks \in Nat
           /\ prepared.params <= prepared.marks
<1>1. /\ prepared.cols \in Seq([name : STRING, type : STRING])
      /\ prepared.params \in Nat /\ prepared.marks \in Nat
      /\ prepared.params <= prepared.marks
  <2>1. CASE prepared \in Query
    BY <2>1, QueryAssumption
  <2>2. CASE prepared = NoQuery
    <3>1. prepared.cols = <<>> /\ prepared.params = 0 /\ prepared.marks = 0
      BY <2>2 DEF NoQuery
    <3> QED
      BY <3>1, EmptySeq
  <2> QED
    BY <2>1, <2>2 DEF TypeOK
<1> QED
  BY <1>1, LenProperties

\* Nothing is bound, and nothing has columns.
LEMMA InitIInv == Init => IInv
<1> SUFFICES ASSUME Init PROVE IInv
  OBVIOUS
<1>1. TypeOK
  <2>1. /\ paramBindings \in Seq(Binding) /\ bindData \in Seq(Content)
        /\ row \in Seq(Cell \cup {"null"}) /\ bound \in Seq(Cell \cup {"none"})
        /\ sent \in Seq(Cell \cup {"empty", "dangling"})
    BY EmptySeq DEF Init
  <2>2. Len(paramBindings) = 0 /\ Len(types) = Len(bindData) /\ Len(bound) = 0
    BY EmptySeq DEF Init
  <2>3. columnData \in [DOMAIN columnData -> DOMAIN bindData]
    BY DEF Init
  <2>4. got.as \in {"none", "int", "string"}
    BY DEF Init, NoValue
  <2>5. prepares \in 0..MaxPrepares /\ columnsFor \in 0..prepares
    BY QueryAssumption DEF Init
  <2>6. capacity \in Nat /\ Len(paramBindings) <= capacity /\ storage \in Nat
    BY <2>2 DEF Init
  <2>7. /\ isConnected_ \in BOOLEAN /\ link \in BOOLEAN /\ attached \in BOOLEAN
        /\ resultBound \in BOOLEAN /\ rows \in BOOLEAN
        /\ stmt_ \in {"unmade", "null", "open", "closed"}
        /\ prepared \in Query \cup {NoQuery}
        /\ fault \in {"none", "out of bounds", "bad pointer"}
    BY DEF Init
  <2> QED
    BY <2>1, <2>2, <2>3, <2>4, <2>5, <2>6, <2>7 DEF TypeOK
<1>2. ParamsHaveBindings /\ BindingsCurrent
  BY EmptySeq DEF Init, ParamsHaveBindings, BindingsCurrent, NoQuery
<1>3. RowsHaveColumns /\ BuffersHoldRow /\ GotFromBuffer
  BY DEF Init, RowsHaveColumns, BuffersHoldRow, GotFromBuffer
<1>4. ExecutedAsBound /\ BuffersFitQuery
  BY DEF Init, ExecutedAsBound, BuffersFitQuery
<1> QED
  BY <1>1, <1>2, <1>3, <1>4 DEF IInv

\* The vectors are resized for the new query, whatever the library says.
LEMMA PrepareIInv ==
    ASSUME IInv, NEW q \in Query, Prepare(q), fault = "none"
    PROVE  IInv'
<1> DEFINE n == q.marks
           len == Len(paramBindings)
<1>1. n \in Nat /\ len \in Nat /\ capacity \in Nat /\ storage \in Nat /\ len <= capacity
  BY QueryAssumption, LenProperties DEF IInv, TypeOK
<1>2. /\ paramBindings' \in Seq(Binding) /\ Len(paramBindings') = n
      /\ capacity' \in Nat /\ n <= capacity' /\ storage' \in Nat
  <2>1. \A i \in 1..len : paramBindings[i] \in Binding
    BY ElementOfSeq DEF IInv, TypeOK
  <2>2. Unbound \in Binding
    BY DEF Unbound, Binding
  <2>3. paramBindings' \in [1..n -> Binding]
    BY <1>1, <2>1, <2>2 DEF Prepare, Resize
  <2>4. capacity' \in Nat /\ n <= capacity' /\ storage' \in Nat
    BY <1>1 DEF Prepare, Resize
  <2> QED
    BY <1>1, <2>3, <2>4, FunctionIsSeq
<1>3. /\ bound' \in Seq(Cell \cup {"none"}) /\ Len(bound') = n
      /\ \A i \in 1..n : bound'[i] = "none"
  <2>1. bound' \in [1..n -> Cell \cup {"none"}]
    BY DEF Prepare
  <2> QED
    BY <1>1, <2>1, FunctionIsSeq DEF Prepare
<1>4. /\ UNCHANGED <<isConnected_, link, attached, columnData, types, columnsFor, bindData,
                     stmt_, fault>>
      /\ prepared' \in {q, NoQuery}
      /\ prepares' = prepares + 1 /\ prepares < MaxPrepares
      /\ ~resultBound' /\ resultBound' \in BOOLEAN /\ rows' = FALSE
      /\ row' = <<>> /\ sent' = <<>> /\ got' = NoValue
  BY DEF Prepare, connVars
<1>5. TypeOK'
  <2>1. /\ row' \in Seq(Cell \cup {"null"})
        /\ sent' \in Seq(Cell \cup {"empty", "dangling"})
    BY <1>4, EmptySeq
  <2>2. prepares' \in 0..MaxPrepares /\ columnsFor' \in 0..prepares'
    BY <1>4, QueryAssumption DEF IInv, TypeOK
  <2>3. got'.as \in {"none", "int", "string"} /\ prepared' \in Query \cup {NoQuery}
    BY <1>4 DEF NoValue
  <2>4. /\ isConnected_' \in BOOLEAN /\ link' \in BOOLEAN /\ attached' \in BOOLEAN
        /\ stmt_' \in {"unmade", "null", "open", "closed"}
        /\ Len(types') = Len(bindData') /\ bindData' \in Seq(Content)
        /\ columnData' \in [DOMAIN columnData' -> DOMAIN bindData']
        /\ fault' \in {"none", "out of bounds", "bad pointer"}
        /\ resultBound' \in BOOLEAN /\ rows' \in BOOLEAN
    BY <1>4 DEF IInv, TypeOK
  <2> QED
    BY <1>2, <1>3, <2>1, <2>2, <2>3, <2>4 DEF TypeOK
<1>6. ParamsHaveBindings'
  BY <1>1, <1>2, <1>4, QueryAssumption DEF ParamsHaveBindings, NoQuery
<1>7. BindingsCurrent'
  BY <1>3 DEF BindingsCurrent
<1>8. RowsHaveColumns'
  <2>1. columnsFor' # prepares'
    BY <1>4 DEF IInv, TypeOK
  <2> QED
    BY <1>4, <2>1 DEF RowsHaveColumns
<1>9. BuffersHoldRow' /\ GotFromBuffer' /\ ExecutedAsBound' /\ BuffersFitQuery'
  BY <1>4 DEF BuffersHoldRow, GotFromBuffer, ExecutedAsBound, BuffersFitQuery
<1> QED
  BY <1>5, <1>6, <1>7, <1>8, <1>9 DEF IInv

\* Connections and handles come and go; the buffers stay as they are.
LEMMA ConnectionIInv ==
    ASSUME IInv,
           isConnected_' \in BOOLEAN, link' \in BOOLEAN, attached' \in BOOLEAN,
           stmt_' \in {"unmade", "null", "open", "closed"},
           UNCHANGED <<paramVars, columnVars, bindData, prepared, rows, row,
                       prepares, sent, got, fault>>
    PROVE  IInv'
<1>1. UNCHANGED <<paramBindings, capacity, storage, bound, columnData, types, resultBound,
                  columnsFor, bindData, prepared, rows, row, prepares, sent, got, fault>>
  BY DEF paramVars, columnVars
<1>2. TypeOK'
  BY <1>1 DEF IInv, TypeOK
<1>3. ParamsHaveBindings' /\ BindingsCurrent' /\ ExecutedAsBound' /\ BuffersFitQuery'
  <2>1. ParamsHaveBindings' /\ BindingsCurrent'
    BY <1>1 DEF IInv, ParamsHaveBindings, BindingsCurrent
  <2>2. ExecutedAsBound'
    BY <1>1 DEF IInv, ExecutedAsBound
  <2>3. BuffersFitQuery'
    BY <1>1 DEF IInv, BuffersFitQuery
  <2> QED
    BY <2>1, <2>2, <2>3
<1>4. RowsHaveColumns' /\ BuffersHoldRow'
  BY <1>1 DEF IInv, RowsHaveColumns, BuffersHoldRow, NoOtherTypes
<1>5. GotFromBuffer'
  BY <1>1, Zenon DEF IInv, GotFromBuffer, Read
<1> QED
  BY <1>2, <1>3, <1>4, <1>5 DEF IInv

\* A binding is replaced, with the value that is sent from now on.
LEMMA BindIInv ==
    ASSUME IInv, NEW i \in 1..(Len(paramBindings) + 1), NEW v \in Cell,
           NEW t \in {"int", "string"}, BindValue(i, v, t), fault = "none"
    PROVE  IInv'
<1> DEFINE b == [type |-> t, val |-> v, storage |-> storage]
           len == Len(paramBindings)
<1>1. /\ UNCHANGED <<isConnected_, link, attached, capacity, storage, columnData, types,
                     resultBound, columnsFor, bindData, stmt_, prepared, rows, row, prepares>>
      /\ sent' = <<>> /\ got' = NoValue
  BY DEF BindValue, connVars, columnVars
<1>2. /\ paramBindings \in Seq(Binding) /\ bound \in Seq(Cell \cup {"none"})
      /\ len \in Nat /\ Len(bound) = len /\ storage \in Nat
  BY LenProperties DEF IInv, TypeOK
<1>3. /\ paramBindings' \in Seq(Binding) /\ bound' \in Seq(Cell \cup {"none"})
      /\ Len(paramBindings') = len /\ Len(bound') = len
      /\ BindingsCurrent'
      /\ fault' \in {"none", "out of bounds"}
  <2>1. CASE UNCHANGED <<paramBindings, bound>> /\ fault' = "out of bounds"
    BY <1>1, <1>2, <2>1 DEF IInv, BindingsCurrent
  <2>2. CASE /\ i \in 1..len /\ fault' = fault
             /\ paramBindings' = [paramBindings EXCEPT ![i] = b]
             /\ bound' = [bound EXCEPT ![i] = v]
    <3>1. b \in Binding
      BY <1>2 DEF Binding
    <3>2. /\ paramBindings' \in Seq(Binding) /\ Len(paramBindings') = len
          /\ \A j \in 1..len : paramBindings'[j] = IF j = i THEN b ELSE paramBindings[j]
      BY <1>2, <2>2, <3>1, ExceptSeq
    <3>3. /\ bound' \in Seq(Cell \cup {"none"}) /\ Len(bound') = len
          /\ \A j \in 1..len : bound'[j] = IF j = i THEN v ELSE bound[j]
      BY <1>2, <2>2, ExceptSeq
    <3>4. BindingsCurrent'
      BY <1>1, <1>2, <3>2, <3>3 DEF IInv, BindingsCurrent
    <3> QED
      BY <2>2, <3>2, <3>3, <3>4
  <2>3. i <= len => i \in 1..len
    BY <1>2
  <2> QED
    BY <2>1, <2>2, <2>3 DEF BindValue
<1>4. TypeOK'
  <2>1. sent' \in Seq(Cell \cup {"empty", "dangling"})
    BY <1>1, EmptySeq
  <2>2. got'.as \in {"none", "int", "string"}
    BY <1>1 DEF NoValue
  <2>3. Len(paramBindings') <= capacity'
    BY <1>1, <1>2, <1>3 DEF IInv, TypeOK
  <2> QED
    BY <1>1, <1>3, <2>1, <2>2, <2>3 DEF IInv, TypeOK
<1>5. ParamsHaveBindings' /\ ExecutedAsBound' /\ BuffersFitQuery'
  <2>1. ParamsHaveBindings'
    BY <1>1, <1>3 DEF IInv, ParamsHaveBindings
  <2>2. ExecutedAsBound' /\ BuffersFitQuery'
    BY <1>1 DEF IInv, ExecutedAsBound, BuffersFitQuery
  <2> QED
    BY <2>1, <2>2
<1>6. RowsHaveColumns' /\ BuffersHoldRow' /\ GotFromBuffer'
  BY <1>1 DEF IInv, RowsHaveColumns, BuffersHoldRow, GotFromBuffer, NoOtherTypes
<1> QED
  BY <1>3, <1>4, <1>5, <1>6 DEF IInv

\* The buffers that are made fit the query, and every name leads to one.
LEMMA NewColumnsFit ==
    ASSUME TypeOK, NewColumns, prepared.cols # <<>>
    PROVE  /\ types' = [i \in DOMAIN prepared.cols |-> prepared.cols[i].type]
           /\ bindData' \in Seq(Content) /\ Len(types') = Len(bindData')
           /\ DOMAIN columnData' # {}
           /\ columnData' \in [DOMAIN columnData' -> DOMAIN bindData']
<1> DEFINE n == Len(prepared.cols)
<1>1. /\ prepared.cols \in Seq([name : STRING, type : STRING])
      /\ n \in Nat /\ DOMAIN prepared.cols = 1..n
  BY PreparedColumns
<1>2. bindData' \in [1..n -> Content]
  BY <1>1 DEF NewColumns, Content
<1>3. bindData' \in Seq(Content) /\ Len(bindData') = n /\ DOMAIN bindData' = 1..n
  BY <1>1, <1>2, FunctionIsSeq
<1>4. Len(types') = n
  <2>1. types' \in [1..n -> STRING]
    <3>1. \A i \in 1..n : prepared.cols[i] \in [name : STRING, type : STRING]
      BY <1>1, ElementOfSeq
    <3> QED
      BY <1>1, <3>1 DEF NewColumns
  <2> QED
    BY <1>1, <2>1, FunctionIsSeq
<1>5. DOMAIN columnData' = {c.name : c \in ToSet(prepared.cols)}
  BY DEF NewColumns
<1>6. ASSUME NEW m \in DOMAIN columnData' PROVE columnData'[m] \in 1..n
  <2>1. PICK c \in ToSet(prepared.cols) : m = c.name
    BY <1>5
  <2>2. columnData'[m] = ColumnIndex(c.name)
    BY <2>1 DEF NewColumns
  <2> QED
    BY <1>1, <2>2, ColumnIndexInRange
<1>7. DOMAIN columnData' # {}
  <2>1. n # 0
    BY <1>1, EmptySeq
  <2>2. prepared.cols[1] \in ToSet(prepared.cols)
    BY <1>1, <2>1 DEF ToSet
  <2> QED
    BY <1>5, <2>2
<1>8. columnData' \in [DOMAIN columnData' -> DOMAIN bindData']
  BY <1>3, <1>6 DEF NewColumns
<1> QED
  BY <1>3, <1>4, <1>7, <1>8 DEF NewColumns

\* What the library reads for the parameters, and that it is what was bound.
LEMMA ParametersSent ==
    ASSUME IInv, sent' = [i \in 1..prepared.params |-> Pointee(paramBindings[i])]
    PROVE  /\ sent' \in Seq(Cell \cup {"empty", "dangling"})
           /\ \A i \in DOMAIN sent' : bound[i] # "none" => sent'[i] = bound[i]
<1> DEFINE n == prepared.params
<1>1. n \in Nat /\ Len(paramBindings) \in Nat /\ n <= Len(paramBindings)
  BY PreparedColumns, LenProperties DEF IInv, ParamsHaveBindings, TypeOK
<1>2. \A i \in 1..n : paramBindings[i] \in Binding
  <2>1. \A i \in 1..Len(paramBindings) : paramBindings[i] \in Binding
    BY ElementOfSeq DEF IInv, TypeOK
  <2> QED
    BY <1>1, <2>1
<1>3. \A i \in 1..n : Pointee(paramBindings[i]) \in Cell \cup {"empty", "dangling"}
  BY <1>2 DEF Pointee, Binding
<1>4. sent' \in [1..n -> Cell \cup {"empty", "dangling"}]
  BY <1>3
<1>5. ASSUME NEW i \in 1..n, bound[i] # "none"
      PROVE  sent'[i] = bound[i]
  <2>1. i \in 1..Len(bound)
    <3>1. Len(bound) = Len(paramBindings)
      BY DEF IInv, TypeOK
    <3> QED
      BY <1>1, <3>1
  <2>2. paramBindings[i].val = bound[i] /\ paramBindings[i].storage = storage
    BY <1>5, <2>1 DEF IInv, BindingsCurrent
  <2> QED
    BY <2>2 DEF Pointee
<1> QED
  BY <1>1, <1>4, <1>5, FunctionIsSeq

\* execute fails or not at each of its steps, and may be the first with a
\* result.
LEMMA ExecuteIInv ==
    ASSUME IInv, Execute, fault = "none"
    PROVE  IInv'
<1>1. /\ UNCHANGED <<isConnected_, link, attached, paramBindings, capacity, storage, bound,
                     stmt_, prepared, prepares, fault>>
      /\ row' = <<>> /\ got' = NoValue
  BY DEF Execute, connVars, paramVars
<1>2. /\ sent' \in Seq(Cell \cup {"empty", "dangling"})
      /\ \A i \in DOMAIN sent' : bound[i] # "none" => sent'[i] = bound[i]
  <2>1. CASE sent' = <<>>
    BY <2>1, EmptySeq
  <2>2. CASE sent' = [i \in 1..prepared.params |-> Pointee(paramBindings[i])]
    BY <2>2, ParametersSent
  <2> QED
    BY <2>1, <2>2 DEF Execute
<1>3. /\ Len(types') = Len(bindData') /\ bindData' \in Seq(Content)
      /\ columnData' \in [DOMAIN columnData' -> DOMAIN bindData']
      /\ columnsFor' \in 0..prepares
      /\ resultBound' \in BOOLEAN /\ rows' \in BOOLEAN
      /\ rows' => DOMAIN columnData' # {}
      /\ DOMAIN columnData' # {} /\ columnsFor' = prepares /\ NoOtherTypes' => resultBound'
      /\ BuffersFitQuery'
  <2>1. CASE rows' = FALSE /\ UNCHANGED <<columnVars, bindData>>
    <3>1. UNCHANGED <<columnData, types, resultBound, columnsFor, bindData>>
      BY <2>1 DEF columnVars
    <3> QED
      BY <1>1, <2>1, <3>1 DEF IInv, TypeOK, RowsHaveColumns, NoOtherTypes, BuffersFitQuery
  <2>2. CASE /\ prepared # NoQuery /\ rows' = (prepared.cols # <<>>)
             /\ columnData = <<>> /\ prepared.cols # <<>>
             /\ NewColumns
             /\ resultBound' \in {TRUE} \cup {c.type # "other" : c \in ToSet(prepared.cols)}
    <3>1. /\ types' = [i \in DOMAIN prepared.cols |-> prepared.cols[i].type]
          /\ bindData' \in Seq(Content) /\ Len(types') = Len(bindData')
          /\ DOMAIN columnData' # {}
          /\ columnData' \in [DOMAIN columnData' -> DOMAIN bindData']
      BY <2>2, NewColumnsFit DEF IInv
    <3>2. columnsFor' \in 0..prepares
      BY <2>2 DEF NewColumns, IInv, TypeOK
    <3>3. ASSUME NoOtherTypes' PROVE resultBound' = TRUE
      <4>1. \A c \in ToSet(prepared.cols) : c.type # "other"
        BY <3>1, <3>3 DEF NoOtherTypes, ToSet
      <4> QED
        BY <2>2, <4>1
    <3>4. BuffersFitQuery'
      BY <1>1, <2>2, <3>1 DEF BuffersFitQuery
    <3>5. resultBound' \in BOOLEAN /\ rows' \in BOOLEAN
      BY <2>2
    <3> QED
      BY <3>1, <3>2, <3>3, <3>4, <3>5
  <2>3. CASE /\ rows' = (prepared.cols # <<>>)
             /\ ~(columnData = <<>> /\ prepared.cols # <<>>)
             /\ UNCHANGED <<columnVars, bindData>>
    <3>1. UNCHANGED <<columnData, types, resultBound, columnsFor, bindData>>
      BY <2>3 DEF columnVars
    <3>2. rows' => DOMAIN columnData' # {}
      <4>1. columnData \in [DOMAIN columnData -> DOMAIN bindData]
        BY DEF IInv, TypeOK
      <4>2. DOMAIN columnData = {} => columnData = <<>>
        BY <4>1
      <4> QED
        BY <2>3, <3>1, <4>2
    <3>3. rows' \in BOOLEAN
      BY <2>3
    <3> QED
      BY <1>1, <3>1, <3>2, <3>3 DEF IInv, TypeOK, RowsHaveColumns, NoOtherTypes, BuffersFitQuery
  <2> QED
    BY <2>1, <2>2, <2>3 DEF Execute, FillColumnData
<1>4. TypeOK'
  <2>1. row' \in Seq(Cell \cup {"null"})
    BY <1>1, EmptySeq
  <2>2. got'.as \in {"none", "int", "string"}
    BY <1>1 DEF NoValue
  <2> QED
    BY <1>1, <1>2, <1>3, <2>1, <2>2 DEF IInv, TypeOK
<1>5. ParamsHaveBindings' /\ BindingsCurrent'
  BY <1>1 DEF IInv, ParamsHaveBindings, BindingsCurrent
<1>6. ExecutedAsBound'
  BY <1>1, <1>2 DEF ExecutedAsBound
<1>7. RowsHaveColumns' /\ BuffersHoldRow' /\ GotFromBuffer'
  BY <1>1, <1>3 DEF RowsHaveColumns, BuffersHoldRow, GotFromBuffer
<1> QED
  BY <1>3, <1>4, <1>5, <1>6, <1>7 DEF IInv

\* A row goes to the buffers that were made for it.
LEMMA NextResultIInv ==
    ASSUME IInv, NEW r \in Rows, NextResult(r), fault = "none"
    PROVE  IInv'
<1> DEFINE n == Len(prepared.cols)
<1>1. /\ UNCHANGED <<isConnected_, link, attached, paramBindings, capacity, storage, bound,
                     columnData, types, resultBound, columnsFor, stmt_, prepared, prepares, rows>>
      /\ row' = r /\ rows /\ sent' = <<>> /\ got' = NoValue
      /\ bindData' = IF resultBound THEN Fetched(r) ELSE bindData
      /\ fault' \in {"none", "bad pointer"}
  BY DEF NextResult, connVars, paramVars, columnVars
<1>2. /\ n \in Nat /\ DOMAIN prepared.cols = 1..n
      /\ prepared.cols \in Seq([name : STRING, type : STRING])
  BY PreparedColumns DEF IInv
<1>3. r \in [1..n -> Cell \cup {"null"}] /\ r \in Seq(Cell \cup {"null"})
  BY <1>2, FunctionIsSeq DEF Rows
<1>4. bindData \in Seq(Content) /\ DOMAIN bindData = 1..Len(bindData) /\ Len(bindData) \in Nat
  BY LenProperties DEF IInv, TypeOK
<1>5. ASSUME resultBound PROVE DOMAIN bindData = 1..n
  <2>1. types = [i \in 1..n |-> prepared.cols[i].type]
    BY <1>2, <1>5 DEF IInv, BuffersFitQuery
  <2>2. \A i \in 1..n : prepared.cols[i] \in [name : STRING, type : STRING]
    BY <1>2, ElementOfSeq
  <2>3. types \in [1..n -> STRING]
    BY <2>1, <2>2
  <2>4. Len(types) = n
    BY <1>2, <2>3, FunctionIsSeq
  <2> QED
    BY <1>4, <2>4 DEF IInv, TypeOK
<1>6. /\ bindData' \in Seq(Content) /\ Len(bindData') = Len(bindData)
      /\ DOMAIN bindData' = DOMAIN bindData
      /\ resultBound /\ NoOtherTypes =>
           \A i \in DOMAIN bindData : r[i] # "null" => bindData'[i] = r[i]
  <2>1. CASE resultBound
    <3>1. \A i \in 1..n : r[i] \in Cell \cup {"null"} /\ bindData[i] \in Content
      BY <1>3, <1>4, <1>5, <2>1, ElementOfSeq
    <3>2. /\ bindData' = [i \in 1..n |-> IF r[i] = "null" \/ types[i] = "other"
                                         THEN bindData[i] ELSE r[i]]
      BY <1>1, <1>5, <2>1 DEF Fetched
    <3>3. bindData' \in [1..n -> Content]
      BY <3>1, <3>2 DEF Content
    <3>4. bindData' \in Seq(Content) /\ Len(bindData') = n /\ DOMAIN bindData' = 1..n
      BY <1>2, <3>3, FunctionIsSeq
    <3>5. DOMAIN types = 1..n
      BY <1>2, <2>1 DEF IInv, BuffersFitQuery
    <3>6. n = Len(bindData)
      BY <1>2, <1>4, <1>5, <2>1
    <3> QED
      BY <1>5, <2>1, <3>2, <3>4, <3>5, <3>6 DEF NoOtherTypes
  <2>2. CASE ~resultBound
    BY <1>1, <1>4, <2>2
  <2> QED
    BY <2>1, <2>2
<1>7. TypeOK'
  <2>1. sent' \in Seq(Cell \cup {"empty", "dangling"})
    BY <1>1, EmptySeq
  <2>2. got'.as \in {"none", "int", "string"}
    BY <1>1 DEF NoValue
  <2> QED
    BY <1>1, <1>3, <1>6, <2>1, <2>2 DEF IInv, TypeOK
<1>8. ParamsHaveBindings' /\ BindingsCurrent' /\ ExecutedAsBound' /\ BuffersFitQuery'
  <2>1. ParamsHaveBindings' /\ BindingsCurrent'
    BY <1>1 DEF IInv, ParamsHaveBindings, BindingsCurrent
  <2>2. ExecutedAsBound'
    <3>1. sent' = <<>>
      BY <1>1
    <3> QED
      BY <3>1 DEF ExecutedAsBound
  <2>3. BuffersFitQuery'
    BY <1>1 DEF IInv, BuffersFitQuery
  <2> QED
    BY <2>1, <2>2, <2>3
<1>9. RowsHaveColumns' /\ GotFromBuffer'
  BY <1>1 DEF IInv, RowsHaveColumns, NoOtherTypes, GotFromBuffer
<1>10. BuffersHoldRow'
  BY <1>1, <1>6 DEF IInv, RowsHaveColumns, NoOtherTypes, BuffersHoldRow
<1> QED
  BY <1>7, <1>8, <1>9, <1>10 DEF IInv

\* value() reads a buffer and changes none.
LEMMA ValueIInv ==
    ASSUME IInv, NEW m, NEW t \in {"int", "string"}, Value(m, t), fault = "none"
    PROVE  IInv'
<1>1. /\ UNCHANGED <<isConnected_, link, attached, paramBindings, capacity, storage, bound,
                     columnData, types, resultBound, columnsFor, bindData, stmt_, prepared,
                     prepares, rows, row>>
      /\ sent' = <<>> /\ fault' \in {"none", "bad pointer"}
      /\ m \in DOMAIN columnData
      /\ \/ got' = got
         \/ got' = [name |-> m, as |-> t, val |-> Read(columnData[m], t)]
  BY DEF Value, connVars, paramVars, columnVars
<1>2. TypeOK'
  <2>1. sent' \in Seq(Cell \cup {"empty", "dangling"})
    BY <1>1, EmptySeq
  <2>2. got'.as \in {"none", "int", "string"}
    <3>1. CASE got' = got
      BY <3>1 DEF IInv, TypeOK
    <3>2. CASE got' = [name |-> m, as |-> t, val |-> Read(columnData[m], t)]
      BY <3>2
    <3> QED
      BY <1>1, <3>1, <3>2
  <2> QED
    BY <1>1, <2>1, <2>2 DEF IInv, TypeOK
<1>3. ParamsHaveBindings' /\ BindingsCurrent' /\ ExecutedAsBound' /\ BuffersFitQuery'
  <2>1. ParamsHaveBindings' /\ BindingsCurrent'
    BY <1>1 DEF IInv, ParamsHaveBindings, BindingsCurrent
  <2>2. ExecutedAsBound'
    <3>1. sent' = <<>>
      BY <1>1
    <3> QED
      BY <3>1 DEF ExecutedAsBound
  <2>3. BuffersFitQuery'
    BY <1>1 DEF IInv, BuffersFitQuery
  <2> QED
    BY <2>1, <2>2, <2>3
<1>4. RowsHaveColumns' /\ BuffersHoldRow'
  BY <1>1 DEF IInv, RowsHaveColumns, BuffersHoldRow, NoOtherTypes
<1>5. GotFromBuffer'
  <2>1. \A i, as : Read(i, as)' = Read(i, as)
    BY <1>1, Zenon DEF Read
  <2>2. CASE got' = got
    BY <1>1, <2>1, <2>2 DEF IInv, GotFromBuffer
  <2>3. CASE got' = [name |-> m, as |-> t, val |-> Read(columnData[m], t)]
    BY <1>1, <2>1, <2>3 DEF GotFromBuffer
  <2> QED
    BY <1>1, <2>2, <2>3
<1> QED
  BY <1>2, <1>3, <1>4, <1>5 DEF IInv

\* Every step preserves the invariant.
LEMMA NextIInv == IInv /\ [Next]_vars => IInv'
<1> SUFFICES ASSUME IInv, [Next]_vars PROVE IInv'
  OBVIOUS
<1>1. ASSUME Connect PROVE IInv'
  <2>1. isConnected_' \in BOOLEAN /\ link' \in BOOLEAN
    BY <1>1 DEF IInv, TypeOK, Connect
  <2> QED
    BY <1>1, <2>1, ConnectionIInv DEF IInv, TypeOK, Connect
<1>2. ASSUME LoseConnection PROVE IInv'
  <2>1. link' \in BOOLEAN /\ attached' \in BOOLEAN
    BY <1>2 DEF IInv, TypeOK, LoseConnection
  <2> QED
    BY <1>2, <2>1, ConnectionIInv DEF IInv, TypeOK, LoseConnection
<1>3. ASSUME Construct PROVE IInv'
  BY <1>3, ConnectionIInv DEF IInv, TypeOK, Construct, connVars
<1>4. ASSUME Destroy PROVE IInv'
  <2>1. UNCHANGED <<isConnected_, link, attached, prepares, fault>> /\ stmt_' = "closed"
    BY <1>4 DEF Destroy, connVars
  <2>2. /\ paramBindings' = <<>> /\ capacity' = 0 /\ storage' = 0 /\ bound' = <<>>
        /\ columnData' = <<>> /\ types' = <<>> /\ resultBound' = FALSE /\ columnsFor' = 0
        /\ bindData' = <<>> /\ prepared' = NoQuery
        /\ rows' = FALSE /\ row' = <<>> /\ sent' = <<>> /\ got' = NoValue
    BY <1>4 DEF Destroy
  <2>3. TypeOK'
    <3>1. /\ paramBindings' \in Seq(Binding) /\ bindData' \in Seq(Content)
          /\ row' \in Seq(Cell \cup {"null"}) /\ bound' \in Seq(Cell \cup {"none"})
          /\ sent' \in Seq(Cell \cup {"empty", "dangling"})
      BY <2>2, EmptySeq
    <3>2. Len(paramBindings') = 0 /\ Len(types') = Len(bindData') /\ Len(bound') = 0
      BY <2>2, EmptySeq
    <3>3. columnData' \in [DOMAIN columnData' -> DOMAIN bindData']
      BY <2>2
    <3>4. got'.as \in {"none", "int", "string"}
      BY <2>2 DEF NoValue
    <3>5. prepares' \in 0..MaxPrepares /\ columnsFor' \in 0..prepares'
      <4>1. MaxPrepares \in Nat /\ prepares \in 0..MaxPrepares
        BY QueryAssumption DEF IInv, TypeOK
      <4>2. prepares' = prepares /\ columnsFor' = 0
        BY <2>1, <2>2
      <4> QED
        BY <4>1, <4>2
    <3>6. capacity' \in Nat /\ Len(paramBindings') <= capacity' /\ storage' \in Nat
      BY <2>2, <3>2
    <3>7. /\ isConnected_' \in BOOLEAN /\ link' \in BOOLEAN /\ attached' \in BOOLEAN
          /\ resultBound' \in BOOLEAN /\ rows' \in BOOLEAN
          /\ stmt_' \in {"unmade", "null", "open", "closed"}
          /\ prepared' \in Query \cup {NoQuery}
          /\ fault' \in {"none", "out of bounds", "bad pointer"}
      BY <2>1, <2>2 DEF IInv, TypeOK
    <3> QED
      BY <3>1, <3>2, <3>3, <3>4, <3>5, <3>6, <3>7 DEF TypeOK
  <2>4. ParamsHaveBindings' /\ BindingsCurrent'
    BY <2>2, EmptySeq DEF ParamsHaveBindings, BindingsCurrent, NoQuery
  <2>5. RowsHaveColumns' /\ BuffersHoldRow' /\ GotFromBuffer'
    BY <2>2 DEF RowsHaveColumns, BuffersHoldRow, GotFromBuffer
  <2>6. ExecutedAsBound' /\ BuffersFitQuery'
    BY <2>2 DEF ExecutedAsBound, BuffersFitQuery
  <2> QED
    BY <2>3, <2>4, <2>5, <2>6 DEF IInv
<1>5. ASSUME fault = "none", NEW q \in Query, Prepare(q) PROVE IInv'
  BY <1>5, PrepareIInv
<1>6. ASSUME fault = "none", NEW i \in 1..(Len(paramBindings) + 1), NEW v \in Cell,
             NEW t \in {"int", "string"}, BindValue(i, v, t)
      PROVE  IInv'
  BY <1>6, BindIInv
<1>7. ASSUME fault = "none", Execute PROVE IInv'
  BY <1>7, ExecuteIInv
<1>8. ASSUME fault = "none", NEW r \in Rows, NextResult(r) PROVE IInv'
  BY <1>8, NextResultIInv
<1>9. ASSUME NoMoreResults PROVE IInv'
  <2>1. /\ UNCHANGED <<isConnected_, link, attached, paramBindings, capacity, storage, bound,
                       columnData, types, resultBound, columnsFor, bindData, stmt_, prepared,
                       prepares, fault>>
        /\ rows' = FALSE /\ row' = <<>> /\ sent' = <<>> /\ got' = NoValue
    BY <1>9 DEF NoMoreResults, connVars, paramVars, columnVars
  <2>2. TypeOK'
    <3>1. /\ row' \in Seq(Cell \cup {"null"}) /\ rows' \in BOOLEAN
          /\ sent' \in Seq(Cell \cup {"empty", "dangling"})
      BY <2>1, EmptySeq
    <3>2. got'.as \in {"none", "int", "string"}
      BY <2>1 DEF NoValue
    <3> QED
      BY <2>1, <3>1, <3>2 DEF IInv, TypeOK
  <2>3. ParamsHaveBindings' /\ BindingsCurrent' /\ ExecutedAsBound' /\ BuffersFitQuery'
    BY <2>1 DEF IInv, ParamsHaveBindings, BindingsCurrent, ExecutedAsBound, BuffersFitQuery
  <2>4. RowsHaveColumns' /\ BuffersHoldRow' /\ GotFromBuffer'
    BY <2>1 DEF IInv, RowsHaveColumns, BuffersHoldRow, NoOtherTypes, GotFromBuffer
  <2> QED
    BY <2>2, <2>3, <2>4 DEF IInv
<1>10. ASSUME fault = "none", NEW m \in Names, NEW t \in {"int", "string"}, Value(m, t)
       PROVE  IInv'
  BY <1>10, ValueIInv
<1>11. ASSUME UNCHANGED vars PROVE IInv'
  BY <1>11, ConnectionIInv DEF IInv, TypeOK, vars, connVars
<1> QED
  BY <1>1, <1>2, <1>3, <1>4, <1>5, <1>6, <1>7, <1>8, <1>9, <1>10, <1>11 DEF Next

\* The invariant holds in every state that is reached.
LEMMA Invariance == Spec => []IInv
  BY InitIInv, NextIInv, PTL DEF Spec

-----------------------------------------------------------------------------
(* The theorems.                                                           *)

\* The vectors that the library is given pointers to keep the sizes that they
\* depend on: there are as many types as buffers, and columnData leads into
\* them (db.cpp:84-186, 206-233).
THEOREM TypeCorrect == Spec => []TypeOK
<1>1. IInv => TypeOK
  BY DEF IInv
<1> QED
  BY <1>1, Invariance, PTL

\* For any queries and values, and any sequence of calls, every parameter that
\* was bound since the last prepare is sent as it was bound last
\* (db.cpp:206-212, 226-233, 253-289).
THEOREM ParametersArrive == Spec => []ExecutedAsBound
<1>1. IInv => ExecutedAsBound
  BY DEF IInv
<1> QED
  BY <1>1, Invariance, PTL

\* The library never writes a column to a buffer that was made for another
\* query (db.cpp:87-95, 179, 213).
THEOREM BuffersSafe == Spec => []BuffersFitQuery
<1>1. IInv => BuffersFitQuery
  BY DEF IInv
<1> QED
  BY <1>1, Invariance, PTL

\* value() returns the field of the row fetched last, under the conditions
\* that ValueOfCurrentRow states, whatever was called before
\* (db.cpp:84-186, 291-319).
THEOREM ValuesAreCurrent == Spec => []ValueOfCurrentRow
<1>1. IInv => ValueOfCurrentRow
  <2> SUFFICES ASSUME IInv, got # NoValue, row # <<>>, columnsFor = prepares, NoOtherTypes,
                      row[columnData[got.name]] # "null",
                      Readable(types[columnData[got.name]], got.as, row[columnData[got.name]])
               PROVE  got.val = row[columnData[got.name]]
    BY DEF ValueOfCurrentRow, NoOtherTypes
  <2> DEFINE i == columnData[got.name]
  <2>1. got.name \in DOMAIN columnData /\ got.val = Read(i, got.as)
    BY DEF IInv, GotFromBuffer
  <2>2. i \in DOMAIN bindData
    BY <2>1 DEF IInv, TypeOK
  <2>3. bindData[i] = row[i]
    BY <2>2 DEF IInv, BuffersHoldRow
  <2>4. Read(i, got.as) = bindData[i]
    BY <2>3 DEF Readable, Read
  <2> QED
    BY <2>1, <2>3, <2>4
<1> QED
  BY <1>1, Invariance, PTL
=============================================================================
