---------------------------- MODULE Serialisation ----------------------------
(***************************************************************************)
(* lib/serialisation.{h,cpp}: how values become text and text becomes      *)
(* values, and lib/remotecall.h, lib/handlerbase.h and                     *)
(* lib/retvalserialisation.h: how the arguments of a remote call are       *)
(* written by the caller and read by the handler, and how the answer comes *)
(* back; and lib/rmipacket.h: how a call is wrapped for the network.       *)
(*                                                                         *)
(* Text is a sequence of one-character strings.  A value is an int (its    *)
(* digits), a string, a vector of values of one type, or an object with a  *)
(* sequence of fields.                                                     *)
(*                                                                         *)
(* The behaviour is one round trip: a value is chosen, written, and read   *)
(* back as its type.                                                       *)
(***************************************************************************)
EXTENDS Tokens

CONSTANTS Values,  \* objects that are written with serialize
          Calls,   \* argument lists that are written by make_call
          Answers  \* return value and arguments, as the handler leaves them

-----------------------------------------------------------------------------
(* Writing.                                                                *)

RECURSIVE Serialize(_)
Serialize(x) ==
    LET parts == [i \in DOMAIN x.v |-> Serialize(x.v[i])]
    IN  CASE x.t \in {"int", "str"} -> WriteScalar(x)
          [] x.t = "vec" -> <<OpenBracket>> \o Separated(parts) \o <<CloseBracket>>
          [] x.t = "obj" -> ClosedObject(parts)

\* make_call takes out.str() while its ObjectSer still exists: the destructor,
\* which writes the closing brace, comes too late.
MakeCallData(args) == OpenObject([i \in DOMAIN args |-> Serialize(args[i])])

\* The packet for a call: handlerName, signature, requestId and the data, a
\* string with an opening brace and no closing one.
RMIPacket(args) ==
    [t |-> "obj", v |-> <<[t |-> "str", v |-> <<"a">>], [t |-> "str", v |-> <<"b">>],
                          [t |-> "int", v |-> <<"1">>],
                          [t |-> "str", v |-> MakeCallData(args)]>>]

\* The return value and the arguments that are references to non-const
\* objects, at the places in retvals, are written to the answer.
Transferred(values, retvals) ==
    LET Chosen(i) == IF i = 1 \/ i \in retvals THEN <<values[i]>> ELSE <<>>
    IN  FlattenSeq([i \in DOMAIN values |-> Chosen(i)])

\* serialiseAnswer takes out.str() too early, too.
SerialiseAnswer(values, retvals) == MakeCallData(Transferred(values, retvals))

-----------------------------------------------------------------------------
(* Reading.                                                                *)

\* What is read from in as a value of a type: the value and the input left.
\* An element of a sequence is cut out as a token before it is read.
RECURSIVE Deserialize(_, _)
RECURSIVE Elements(_, _)
RECURSIVE Fields(_, _)

Deserialize(in, type) ==
    LET next == NextToken(in)
        val == CASE type.t \in {"int", "str"} -> ReadScalar(next.tok, type.t)
                 [] type.t = "vec" ->
                      [t |-> "vec",
                       v |-> LET body == Inside(next.tok)
                             IN  IF body = <<>> THEN <<>> ELSE Elements(body, type.of)]
                 [] type.t = "obj" ->
                      [t |-> "obj", v |-> Fields(Inside(next.tok), type.of)]
    IN  [val |-> val, rest |-> next.rest]

Elements(body, type) ==
    LET next == NextToken(body)
        elem == Deserialize(next.tok, type).val
    IN  <<elem>> \o IF next.eof THEN <<>> ELSE Elements(next.rest, type)

Fields(body, types) ==
    IF types = <<>> THEN <<>>
    ELSE LET first == Deserialize(body, Head(types))
         IN  <<first.val>> \o Fields(first.rest, Tail(types))

\* readData in the handler: ObjectDeser and one >> for each argument.
ReadData(data, types) == Fields(ObjectDeser(data), types)

\* An argument that the answer does not bring back.
Kept == [t |-> "kept", v |-> <<>>]

\* Mutant of ParseAnswer: arguments that were not sent are read as well.
ParseAnswer_ReadsAll(data, types, retvals) == ReadData(data, types)

\* The caller's arguments at the places not in retvals are left alone.
ParseAnswer(data, types, retvals) ==
    LET read == ReadData(data, Transferred(types, retvals))
        Place(i) == Cardinality({j \in retvals : j <= i}) + 1
    IN  [i \in DOMAIN types |-> IF i = 1 THEN read[1]
                                ELSE IF i \in retvals THEN read[Place(i)] ELSE Kept]

-----------------------------------------------------------------------------
(* One round trip.                                                         *)

\* The type that a value is read back as.
RECURSIVE TypeOf(_)
TypeOf(x) ==
    CASE x.t \in {"int", "str"} -> [t |-> x.t]
      [] x.t = "vec" -> [t |-> "vec", of |-> IF x.v = <<>> THEN [t |-> "int"]
                                            ELSE TypeOf(x.v[1])]
      [] x.t = "obj" -> [t |-> "obj", of |-> [i \in DOMAIN x.v |-> TypeOf(x.v[i])]]

\* The members of RMIPacket.
PacketTypes == <<[t |-> "str"], [t |-> "str"], [t |-> "int"], [t |-> "str"]>>

VARIABLES stage,    \* "chosen", "written" or "read"
          way,      \* by serialize, as a remote call, its packet or its answer
          input,    \* the values that are written
          retvals_, \* which arguments an answer brings back
          text,     \* the text
          output    \* the values that were read

vars == <<stage, way, input, retvals_, text, output>>

Init ==
    /\ stage = "chosen"
    /\ \/ way = "object" /\ input \in {x.v : x \in Values} /\ retvals_ = {}
       \/ way \in {"call", "packet"} /\ input \in Calls /\ retvals_ = {}
       \/ way = "answer" /\ input \in Answers /\ retvals_ \in SUBSET (2..Len(input))
    /\ text = <<>>
    /\ output = <<>>

Write ==
    /\ stage = "chosen"
    /\ stage' = "written"
    /\ text' = CASE way = "object" -> Serialize([t |-> "obj", v |-> input])
                 [] way = "call"   -> MakeCallData(input)
                 [] way = "packet" -> Serialize(RMIPacket(input))
                 [] way = "answer" -> SerialiseAnswer(input, retvals_)
    /\ UNCHANGED <<way, input, retvals_, output>>

Read ==
    /\ stage = "written"
    /\ stage' = "read"
    /\ LET types == [i \in DOMAIN input |-> TypeOf(input[i])]
       IN  output' = CASE way = "answer" -> ParseAnswer(text, types, retvals_)
                       [] way = "packet" -> ReadData(text, PacketTypes)
                       [] OTHER          -> ReadData(text, types)
    /\ UNCHANGED <<way, input, retvals_, text>>

Next == Write \/ Read

Spec == Init /\ [][Next]_vars

-----------------------------------------------------------------------------
(* Properties.                                                             *)

\* What a string looks like after a round trip: its quotes stay escaped, as
\* test/maintest.cpp:192-194 and 221-226 expect.
RECURSIVE Escaped(_)
Escaped(x) ==
    CASE x.t = "int" -> x
      [] x.t = "str" -> [x EXCEPT !.v = Escape(@)]
      [] OTHER       -> [x EXCEPT !.v = [i \in DOMAIN x.v |-> Escaped(x.v[i])]]

ReadBack == [i \in DOMAIN input |-> Escaped(input[i])]

\* The texts that the format can hold: no string contains a bracket of a kind
\* that it is enclosed in, ends in a backslash, or is cut at a comma because
\* it is read once as the token of an element and then again as a string.
RECURSIVE Restorable(_, _, _)
Restorable(x, brackets, inVec) ==
    CASE x.t = "int" -> TRUE
      [] x.t = "str" -> /\ \A i \in DOMAIN x.v : x.v[i] \notin brackets
                        /\ x.v # <<>> => Last(x.v) # BackSlash
                        /\ inVec => \A i \in DOMAIN x.v : x.v[i] # Comma
      [] x.t = "vec" -> \A i \in DOMAIN x.v :
                          Restorable(x.v[i], brackets \cup {OpenBracket, CloseBracket}, TRUE)
      [] x.t = "obj" -> \A i \in DOMAIN x.v : Restorable(x.v[i], brackets, FALSE)

RestorableInput ==
    \A i \in DOMAIN input : Restorable(input[i], {OpenBrace, CloseBrace}, FALSE)

\* A written object is read back: numbers and structure as they were, strings
\* with their quotes escaped, for every text the format can hold
\* (serialisation.cpp:13-97, serialisation.h:52-63, 84-101).
ObjectsReadBack ==
    stage = "read" /\ way = "object" /\ RestorableInput => output = ReadBack

\* The arguments of a remote call are read back when the last of them is a
\* string: the closing brace that is missing and the character that is cut
\* for it make up for each other.  And the packet of any call is read back,
\* although its data opens a brace that nothing closes; the quotes in the data
\* stay escaped (remotecall.h:19-53, handlerbase.h:23-45, rmipacket.h:11-21,
\* serialisation.cpp:46-53, 89-97).
CallsReadBack ==
    stage = "read" /\ RestorableInput =>
        /\ way = "call" /\ Last(input).t = "str" => output = ReadBack
        /\ way = "packet" => output = Escaped(RMIPacket(input)).v

\* An answer brings the return value and exactly the arguments that are
\* references back, each to its place, when the last of them is a string
\* (retvalserialisation.h:31-103, handlerbase.h:82-93).
AnswersReadBack ==
    /\ stage = "read" /\ way = "answer" /\ RestorableInput
    /\ Last(Transferred(input, retvals_)).t = "str"
    => output = [i \in DOMAIN input |->
                   IF i = 1 \/ i \in retvals_ THEN Escaped(input[i]) ELSE Kept]

\* serialisation.cpp:93, "objData.pop_back(); // cut '}'": what is cut off is
\* the closing brace, so that every argument list is read back.
CallsCutBrace ==
    stage = "read" /\ way = "call" /\ RestorableInput => output = ReadBack
=============================================================================
