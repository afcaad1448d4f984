------------------------------- MODULE Tokens -------------------------------
(***************************************************************************)
(* The text of lib/serialisation.cpp: how strings and lists are written,   *)
(* and how nextToken cuts a text into tokens.  Text is a sequence of       *)
(* one-character strings.                                                  *)
(***************************************************************************)
EXTENDS Naturals, Sequences, FiniteSets, SequencesExt

Quote == "\""
BackSlash == "\\"
Comma == ","
OpenBracket == "["
CloseBracket == "]"
OpenBrace == "{"
CloseBrace == "}"

Digits == {"0", "1", "2"}

-----------------------------------------------------------------------------
(* Writing.                                                                *)

\* replaceInString(str, "\"", "\\\"")
Escape(str) ==
    FlattenSeq([i \in DOMAIN str |->
                  IF str[i] = Quote THEN <<BackSlash, Quote>> ELSE <<str[i]>>])

\* A string is written between quotes.
Quoted(str) == <<Quote>> \o Escape(str) \o <<Quote>>

\* serialize, for an int (its digits) or a string.
WriteScalar(x) == IF x.t = "int" THEN x.v ELSE Quoted(x.v)

\* Texts separated by commas, as ObjectSer and serializeSequence write them.
Separated(texts) ==
    FlattenSeq([i \in DOMAIN texts |-> IF i = 1 THEN texts[i] ELSE <<Comma>> \o texts[i]])

\* What an ObjectSer writes as long as it exists; its destructor writes the
\* closing brace.
OpenObject(texts) == <<OpenBrace>> \o Separated(texts)
ClosedObject(texts) == OpenObject(texts) \o <<CloseBrace>>

-----------------------------------------------------------------------------
(* Reading.                                                                *)

\* The first of the indices that were found, or one past the end.
FirstIndex(in, found) == IF found = {} THEN Len(in) + 1 ELSE Min(found)

From(in, i) == SubSeq(in, i, Len(in))

\* A token, the input left behind it, and whether the stream has met its end.
\* The comma behind a bracket or a string is taken with it if there is one.
Token(tok, behind) ==
    [tok  |-> tok,
     rest |-> IF behind # <<>> /\ behind[1] = Comma THEN Tail(behind) ELSE behind,
     eof  |-> behind = <<>>]

\* A bracketed token reaches to its closing bracket, strings are not looked
\* at.  The loop has already taken the character after it.
BracketToken(in, closing) ==
    LET Count(c, i) == Cardinality({j \in 1..i : in[j] = c})
        end == FirstIndex(in, {i \in 2..Len(in) : Count(in[1], i) = Count(closing, i)})
    IN  Token(IF end > Len(in) THEN in ELSE SubSeq(in, 1, end), From(in, end + 2))

\* Mutant of StringToken: a backslash does not protect a quote.
StringToken_NoEscape(in) ==
    LET end == FirstIndex(in, {i \in 2..Len(in) : in[i] = Quote})
    IN  Token(SubSeq(in, 2, end - 1), From(in, end + 1))

\* A string reaches to the first quote that has no backslash before it.
StringToken(in) ==
    LET end == FirstIndex(in, {i \in 2..Len(in) :
                              in[i] = Quote /\ ~(i > 2 /\ in[i - 1] = BackSlash)})
    IN  Token(SubSeq(in, 2, end - 1), From(in, end + 1))

\* Anything else reaches to the next comma.
PlainToken(in) ==
    LET end == FirstIndex(in, {i \in 1..Len(in) : in[i] = Comma})
    IN  Token(SubSeq(in, 1, end - 1), From(in, end))

NextToken(in) ==
    IF in = <<>> THEN Token(<<>>, <<>>)
    ELSE CASE in[1] = OpenBracket -> BracketToken(in, CloseBracket)
           [] in[1] = OpenBrace   -> BracketToken(in, CloseBrace)
           [] in[1] = Quote       -> StringToken(in)
           [] OTHER               -> PlainToken(in)

\* Mutant of Inside: the last character is kept.
Inside_NoPop(tok) == IF Len(tok) > 2 THEN SubSeq(tok, 2, Len(tok)) ELSE <<>>

\* The token of an object or a sequence without its first and last character,
\* whatever the last one is.
Inside(tok) == IF Len(tok) > 2 THEN SubSeq(tok, 2, Len(tok) - 1) ELSE <<>>

\* The text that an ObjectDeser reads the fields from.
ObjectDeser(in) == Inside(NextToken(in).tok)

\* std::stoi: the leading digits; without any it throws, and what is read is
\* not delivered.
Stoi(tok) ==
    LET end == FirstIndex(tok, {i \in 1..Len(tok) : tok[i] \notin Digits})
    IN  IF end = 1 THEN [t |-> "throw", v |-> <<>>]
        ELSE [t |-> "int", v |-> SubSeq(tok, 1, end - 1)]

\* deserialize, for the token of an int or a string.
ReadScalar(tok, t) == IF t = "int" THEN Stoi(tok) ELSE [t |-> "str", v |-> tok]
=============================================================================
