--------------------------- MODULE MCSerialisation ---------------------------
(* Small instances of Serialisation for TLC. *)
EXTENDS Serialisation

Ints == {[t |-> "int", v |-> <<"1">>], [t |-> "int", v |-> <<"2", "0">>]}

\* Strings of up to two characters, over the characters the format uses.
Strs == {[t |-> "str", v |-> s] :
           s \in {<<>>} \cup {<<c>> : c \in {"a", ",", "[", "]", "{", "}", "\"", "\\"}}
                        \cup {<<c, d>> : c, d \in {"a", ",", "\"", "\\"}}}

Scalars == Ints \cup Strs

\* Empty sequences, sequences of numbers, strings, objects and sequences.
Vecs == {[t |-> "vec", v |-> v] :
           v \in {<<>>} \cup {<<x>> : x \in Scalars}
                 \cup {<<i, j>> : i, j \in Ints} \cup {<<r, s>> : r, s \in Strs}
                 \cup {<<[t |-> "obj", v |-> <<i, s>>], [t |-> "obj", v |-> <<j, s>>]>> :
                         i, j \in Ints, s \in Strs}
                 \cup {<<[t |-> "vec", v |-> <<i>>], [t |-> "vec", v |-> <<j, i>>]>> :
                         i, j \in Ints}}

Objects == {[t |-> "obj", v |-> <<i, s>>] : i \in Ints, s \in Strs}

One == [t |-> "int", v |-> <<"1">>]

\* An object with every kind of second field between two others.
MCValues == {[t |-> "obj", v |-> <<One, y, z>>] :
               y \in Scalars \cup Objects \cup Vecs, z \in Ints \cup
                 {[t |-> "str", v |-> s] : s \in {<<"a">>, <<",", "\"">>}}}

\* One to three arguments.
MCCalls == {<<x>> : x \in Scalars} \cup {<<x, y>> : x, y \in Scalars}
           \cup {<<One, x, y>> : x \in Scalars, y \in Strs}
           \cup {<<x, y>> : x \in Objects, y \in Strs}
           \cup {<<x, y>> : x \in Vecs, y \in {[t |-> "str", v |-> <<"a">>]}}

\* A return value and three arguments, the only number serialiseAnswer has.
Few == Ints \cup {[t |-> "str", v |-> s] : s \in {<<"a">>, <<",", "\"">>, <<"[">>}}

MCAnswers == {<<r, x, y, z>> : r, x, y, z \in Few}
=============================================================================
