---------------------------- MODULE SourceLexer ----------------------------
(***************************************************************************)
(* From the text of a contract to its tokens.  A text is a sequence of     *)
(* characters, in which a whole word and a whole number stand for their    *)
(* letters and digits (no two of them side by side): <<"char", c>>,        *)
(* <<"word", w>>, <<"int", n>>.  A token is a <<"mark", s>>, a word, a   *)
(* number or a <<"string", s>>.                                            *)
(*                                                                         *)
(* Two passes over the raw text come first and look for a comment or a     *)
(* string without an end; they know nothing of tokens, so that a quote in  *)
(* a comment counts.                                                       *)
(***************************************************************************)
EXTENDS Integers, SequencesExt

Char(c)   == <<"char", c>>
Word(w)   == <<"word", w>>
Digits(n) == <<"int", n>>
Mark(s)   == <<"mark", s>>

Quote     == Char("\"")
Backslash == Char("\\")
Newline   == Char("\n")
Blanks    == {Char(" "), Newline}

DoubleSymbols == {"==", "!=", ">=", "<=", "&&", "||", "->"}
SingleSymbols == {"=", "!", ">", "<", "+", "-", "*", "/", "%", "{", "}", "(", ")", "[", "]",
                  ",", ":", ";", "."}

TypeNames == {"PublicKey", "Signature", "Hash", "BlockHeight", "Amount", "Bool", "Bytes",
              "CovenantID", "ZKProof", "UTXO", "Output", "Input"}

\* Words that are no names; covenant_id, input, block and the like may be used as names.
Keywords == {"contract", "params", "spend", "require", "let", "if", "else", "return", "true", "false"}

\* The letter or mark after a backslash, and what the two stand for.
Escapes == "\"" :> "\"" @@ "\\" :> "\\" @@ "/" :> "/" @@ "n" :> "\n" @@ "r" :> "\r" @@ "t" :> "\t"

At(text, i, c) == i \in DOMAIN text /\ text[i] = Char(c)

\* Where two characters stand side by side, at i or later.
SideBySide(text, i, c, d) == {p \in i .. Len(text) : At(text, p, c) /\ At(text, p + 1, d)}

-----------------------------------------------------------------------------
(* The passes over the raw text.                                           *)

RECURSIVE CommentsEnd(_, _)
CommentsEnd(text, i) ==
    \/ SideBySide(text, i, "/", "*") = {}
    \/ LET start == Min(SideBySide(text, i, "/", "*"))
           ends  == SideBySide(text, start + 2, "*", "/")
       IN  ends # {} /\ CommentsEnd(text, Min(ends) + 2)

RECURSIVE StringsEnd(_, _, _)
StringsEnd(text, i, inside) ==
    IF i > Len(text) THEN ~inside
    ELSE IF ~inside THEN StringsEnd(text, i + 1, text[i] = Quote)
    ELSE IF text[i] = Backslash THEN StringsEnd(text, i + 2, TRUE)
    ELSE text[i] # Newline /\ StringsEnd(text, i + 1, text[i] # Quote)

-----------------------------------------------------------------------------
(* Tokens.  Each operator returns where the next token may start, 0 when   *)
(* what is expected does not come.                                         *)

LineEnd(text, i) == Min({p \in i .. Len(text) : text[p] = Newline} \cup {Len(text) + 1})

\* The pattern of a block comment takes a star and what follows it together,
\* another star too: an even number of stars before the slash does not end it.
RECURSIVE CommentEnd(_, _)
CommentEnd(text, i) ==
    IF i >= Len(text) THEN 0
    ELSE IF ~At(text, i, "*") THEN CommentEnd(text, i + 1)
    ELSE IF At(text, i + 1, "/") THEN i + 2
    ELSE CommentEnd(text, i + 2)

RECURSIVE StringEnd(_, _)
StringEnd(text, i) ==
    IF i > Len(text) THEN 0
    ELSE IF text[i] = Quote THEN i + 1
    ELSE IF text[i] # Backslash THEN StringEnd(text, i + 1)
    ELSE IF \E c \in DOMAIN Escapes : At(text, i + 1, c) THEN StringEnd(text, i + 2) ELSE 0

RECURSIVE Decode(_)
Decode(inner) ==
    IF inner = << >> THEN ""
    ELSE IF Head(inner) = Backslash THEN Escapes[inner[2][2]] \o Decode(SubSeq(inner, 3, Len(inner)))
    ELSE Head(inner)[2] \o Decode(Tail(inner))

Skip(i)     == [at |-> i, tokens |-> << >>]
Found(i, t) == [at |-> i, tokens |-> <<t>>]

\* Two characters make one symbol wherever they can.
NextSymbol(text, i) ==
    LET both == IF i < Len(text) /\ text[i + 1][1] = "char" THEN text[i][2] \o text[i + 1][2] ELSE ""
    IN  IF both \in DoubleSymbols THEN Found(i + 2, Mark(both))
        ELSE IF text[i][2] \in SingleSymbols THEN Found(i + 1, Mark(text[i][2]))
        ELSE Skip(0)

NextToken(text, i) ==
    CASE text[i][1] # "char"    -> Found(i + 1, text[i])
      [] text[i] \in Blanks     -> Skip(i + 1)
      [] text[i] = Quote        -> LET end == StringEnd(text, i + 1)
                                   IN  IF end = 0 THEN Skip(0)
                                       ELSE Found(end, <<"string", Decode(SubSeq(text, i + 1, end - 2))>>)
      [] At(text, i, "/") /\ At(text, i + 1, "/") -> Skip(LineEnd(text, i))
      [] At(text, i, "/") /\ At(text, i + 1, "*") -> Skip(CommentEnd(text, i + 2))
      [] OTHER                  -> NextSymbol(text, i)

\* The tokens that start at i or later and before end; a text is read in halves.
RECURSIVE TokensIn(_, _, _)
TokensIn(text, i, end) ==
    IF i = 0 \/ i >= end THEN Skip(i)
    ELSE IF i + 1 = end THEN NextToken(text, i)
    ELSE LET left  == TokensIn(text, i, (i + end) \div 2)
             right == TokensIn(text, left.at, end)
         IN  [at |-> right.at, tokens |-> left.tokens \o right.tokens]

\* The position is 0 after an error.
LexFile(text) ==
    IF CommentsEnd(text, 1) /\ StringsEnd(text, 1, FALSE) THEN TokensIn(text, 1, Len(text) + 1)
    ELSE Skip(0)

=============================================================================
