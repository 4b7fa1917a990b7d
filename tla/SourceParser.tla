---------------------------- MODULE SourceParser ----------------------------
(***************************************************************************)
(* From tokens to the tree of a contract, and, as the reference the parser *)
(* is held against, how a programmer writes a tree down.                   *)
(*                                                                         *)
(* A parsing operator takes the tokens and a cursor and returns            *)
(* [at, is]: the cursor behind what it read, and what that is; at is 0     *)
(* after an error.                                                         *)
(***************************************************************************)
EXTENDS SpendLanguage, SourceLexer

CONSTANT U64Max

Got(at, is) == [at |-> at, is |-> is]
Fail        == Got(0, << >>)

IsAt(ts, at, token) == at \in DOMAIN ts /\ ts[at] = token
KindAt(ts, at, kind) == at \in DOMAIN ts /\ ts[at][1] = kind

\* What comes after a part that was read, and after a token that must be there.
Then(got, Rest(_)) == IF got.at = 0 THEN Fail ELSE Rest(got)
Expect(ts, at, token, Rest(_)) == IF IsAt(ts, at, token) THEN Rest(at + 1) ELSE Fail

ParseIdentifier(ts, at) ==
    IF KindAt(ts, at, "word") /\ ts[at][2] \notin Keywords \cup TypeNames
    THEN Got(at + 1, ts[at][2]) ELSE Fail

ParseU64(ts, at) ==
    IF KindAt(ts, at, "int") /\ ts[at][2] <= U64Max THEN Got(at + 1, ts[at][2]) ELSE Fail

\* A comma may be left out before the token that closes a list, and may stand there.
AfterItem(ts, at, close) ==
    IF IsAt(ts, at, Mark(",")) THEN at + 1 ELSE IF IsAt(ts, at, close) THEN at ELSE 0

-----------------------------------------------------------------------------
(* Expressions.                                                            *)

Precedence ==
    "||" :> 1 @@ "&&" :> 2 @@ "==" :> 3 @@ "!=" :> 3 @@ ">" :> 4 @@ ">=" :> 4 @@ "<" :> 4 @@ "<=" :> 4 @@
    "+" :> 5 @@ "-" :> 5 @@ "*" :> 6 @@ "/" :> 6 @@ "%" :> 6

OperatorOf(s) == CASE s = "||" -> "or" [] s = "&&" -> "and" [] OTHER -> s

\* Mutant: the right operand takes in operators of the same precedence.
RightPrecedence_Slip(s) == Precedence[s]

RightPrecedence(s) == Precedence[s] + 1

BinaryOpAt(ts, at, least) ==
    KindAt(ts, at, "mark") /\ ts[at][2] \in DOMAIN Precedence /\ Precedence[ts[at][2]] >= least

RECURSIVE ParsePrecedence(_, _, _), ParseBinary(_, _, _, _), ParseUnary(_, _), ParsePostfix(_, _, _),
          ParsePrimary(_, _), ParseList(_, _, _, _)

ParseExpression(ts, at) == ParsePrecedence(ts, at, 0)

ParsePrecedence(ts, at, least) ==
    Then(ParseUnary(ts, at), LAMBDA left : ParseBinary(ts, left.at, least, left.is))

ParseBinary(ts, at, least, left) ==
    IF ~BinaryOpAt(ts, at, least) THEN Got(at, left)
    ELSE Then(ParsePrecedence(ts, at + 1, RightPrecedence(ts[at][2])),
              LAMBDA right : ParseBinary(ts, right.at, least,
                                         Binary(OperatorOf(ts[at][2]), left, right.is)))

ParseUnary(ts, at) ==
    IF IsAt(ts, at, Mark("!"))
    THEN Then(ParseUnary(ts, at + 1), LAMBDA e : Got(e.at, Unary("not", e.is)))
    ELSE IF IsAt(ts, at, Mark("-"))
    THEN Then(ParseUnary(ts, at + 1), LAMBDA e : Got(e.at, Unary("negate", e.is)))
    ELSE Then(ParsePrimary(ts, at), LAMBDA e : ParsePostfix(ts, e.at, e.is))

ParsePostfix(ts, at, e) ==
    IF IsAt(ts, at, Mark("("))
    THEN Then(ParseList(ts, at + 1, Mark(")"), << >>),
              LAMBDA args : ParsePostfix(ts, args.at, Node("call", "", 0, <<e>> \o args.is)))
    ELSE IF IsAt(ts, at, Mark("."))
    THEN Then(ParseIdentifier(ts, at + 1), LAMBDA field : ParsePostfix(ts, field.at, Field(e, field.is)))
    ELSE Got(at, e)

\* Arguments and elements, up to and with the token that closes them.
ParseList(ts, at, close, es) ==
    IF IsAt(ts, at, close) THEN Got(at + 1, es)
    ELSE Then(ParseExpression(ts, at),
              LAMBDA e : IF AfterItem(ts, e.at, close) = 0 THEN Fail
                         ELSE ParseList(ts, AfterItem(ts, e.at, close), close, Append(es, e.is)))

ParsePrimary(ts, at) ==
    CASE KindAt(ts, at, "int")           -> Then(ParseU64(ts, at), LAMBDA n : Got(n.at, Number(n.is)))
      [] KindAt(ts, at, "string")        -> Got(at + 1, Text(ts[at][2]))
      [] IsAt(ts, at, Word("true"))      -> Got(at + 1, Flag(TRUE))
      [] IsAt(ts, at, Word("false"))     -> Got(at + 1, Flag(FALSE))
      [] IsAt(ts, at, Mark("("))       ->
            Then(ParseExpression(ts, at + 1),
                 LAMBDA e : Expect(ts, e.at, Mark(")"), LAMBDA next : Got(next, e.is)))
      [] IsAt(ts, at, Mark("["))       ->
            Then(ParseList(ts, at + 1, Mark("]"), << >>), LAMBDA es : Got(es.at, ListOf(es.is)))
      [] OTHER -> Then(ParseIdentifier(ts, at), LAMBDA name : Got(name.at, Ident(name.is)))

-----------------------------------------------------------------------------
(* Statements, spends and contracts.                                       *)

ParseStatement(ts, at) ==
    LET closed(first, Make(_)) ==
            Then(ParseExpression(ts, first),
                 LAMBDA e : Expect(ts, e.at, Mark(";"), LAMBDA next : Got(next, Make(e.is))))
    IN  CASE IsAt(ts, at, Word("require")) -> closed(at + 1, Require)
          [] IsAt(ts, at, Word("return"))  -> closed(at + 1, Return)
          [] IsAt(ts, at, Word("let"))     ->
                Then(ParseIdentifier(ts, at + 1),
                     LAMBDA name : Expect(ts, name.at, Mark("="),
                        LAMBDA next : closed(next, LAMBDA e : Let(name.is, e))))
          [] OTHER -> Fail

RECURSIVE ParseBody(_, _, _)
ParseBody(ts, at, body) ==
    IF IsAt(ts, at, Mark("}")) THEN Got(at + 1, body)
    ELSE Then(ParseStatement(ts, at), LAMBDA s : ParseBody(ts, s.at, Append(body, s.is)))

\* Named types up to the token that closes them.  In a params block, and only
\* there, finality_depth has a number and is no parameter: the last one counts.
RECURSIVE ParseParams(_, _, _, _)
ParseParams(ts, at, inBlock, is) ==
    LET close == Mark(IF inBlock THEN "}" ELSE ")")
        more(next, now) == IF AfterItem(ts, next, close) = 0 THEN Fail
                           ELSE ParseParams(ts, AfterItem(ts, next, close), inBlock, now)
    IN  IF IsAt(ts, at, close) THEN Got(at + 1, is)
        ELSE Then(ParseIdentifier(ts, at), LAMBDA name : Expect(ts, name.at, Mark(":"), LAMBDA next :
                IF inBlock /\ name.is = "finality_depth"
                THEN Then(ParseU64(ts, next), LAMBDA n : more(n.at, [is EXCEPT !.depth = n.is]))
                ELSE IF KindAt(ts, next, "word") /\ ts[next][2] \in TypeNames
                THEN more(next + 1, [is EXCEPT !.params = Append(@, [name |-> name.is, ty |-> ts[next][2]])])
                ELSE Fail))

NoParams == [params |-> << >>, depth |-> -1]

ParseSpend(ts, at) ==
    Then(ParseIdentifier(ts, at), LAMBDA name :
    Expect(ts, name.at, Mark("("), LAMBDA first :
    Then(ParseParams(ts, first, FALSE, NoParams), LAMBDA params :
    Expect(ts, params.at, Mark("{"), LAMBDA next :
    Then(ParseBody(ts, next, << >>), LAMBDA body :
        Got(body.at, [name |-> name.is, params |-> params.is.params, body |-> body.is]))))))

RECURSIVE ParseItems(_, _, _)
ParseItems(ts, at, contract) ==
    IF IsAt(ts, at, Mark("}")) THEN Got(at + 1, contract)
    ELSE IF IsAt(ts, at, Word("params"))
    THEN Expect(ts, at + 1, Mark("{"), LAMBDA first :
            Then(ParseParams(ts, first, TRUE, NoParams), LAMBDA block :
                ParseItems(ts, block.at,
                    [contract EXCEPT !.params = @ \o block.is.params,
                                     !.finality_depth = IF block.is.depth = -1 THEN @ ELSE block.is.depth])))
    ELSE IF IsAt(ts, at, Word("spend"))
    THEN Then(ParseSpend(ts, at + 1),
              LAMBDA s : ParseItems(ts, s.at, [contract EXCEPT !.spends = Append(@, s.is)]))
    ELSE Fail

\* The name of a contract is read and left out of the tree.
ParseContract(ts, at) ==
    Expect(ts, at, Word("contract"), LAMBDA first :
    Then(ParseIdentifier(ts, first), LAMBDA name :
    Expect(ts, name.at, Mark("{"), LAMBDA next :
        ParseItems(ts, next, [params |-> << >>, finality_depth |-> -1, spends |-> << >>]))))

RECURSIVE ParseProgram(_, _, _)
ParseProgram(ts, at, contracts) ==
    IF at > Len(ts) THEN Got(at, contracts)
    ELSE Then(ParseContract(ts, at), LAMBDA c : ParseProgram(ts, c.at, Append(contracts, c.is)))

ParseFile(text) ==
    LET lexed == LexFile(text) IN IF lexed.at # 0 THEN ParseProgram(lexed.tokens, 1, << >>) ELSE Fail

-----------------------------------------------------------------------------
(* How a tree is written down: as the textbooks have it, loosest operators *)
(* first, all of them to the left.  The lean style has the parentheses     *)
(* that must be there and nothing optional; the full style has every       *)
(* parenthesis and comma there may be, and a params block per parameter.   *)

Ladder == <<{"or"}, {"and"}, {"==", "!="}, {">", ">=", "<", "<="}, {"+", "-"}, {"*", "/", "%"}>>

Unaries == {"not", "negate"}

Level(e) == IF IsBinary(e) THEN CHOOSE l \in DOMAIN Ladder : e.op \in Ladder[l]
            ELSE IF e.op \in Unaries THEN Len(Ladder) + 1 ELSE Len(Ladder) + 2

Postfix == Len(Ladder) + 2

Separated(parts, style) ==
    FlattenSeq([i \in DOMAIN parts |->
                    IF i < Len(parts) \/ style = "full" THEN Append(parts[i], Mark(",")) ELSE parts[i]])

RECURSIVE Expression(_, _, _)
Expression(e, least, style) ==
    LET in(i, l) == Expression(e.kids[i], l, style)
        all(from) == Separated([i \in 1 .. Len(e.kids) - from |-> in(i + from, 0)], style)
        bare == CASE e.op = "ident"  -> <<Word(e.name)>>
                  [] e.op = "int"    -> <<Digits(e.n)>>
                  [] e.op = "bool"   -> <<Word(IF e.n = 1 THEN "true" ELSE "false")>>
                  [] e.op = "string" -> <<<<"string", e.name>>>>
                  [] e.op = "array"  -> <<Mark("[")>> \o all(0) \o <<Mark("]")>>
                  [] e.op = "call"   -> in(1, Postfix) \o <<Mark("(")>> \o all(1) \o <<Mark(")")>>
                  [] e.op = "field"  -> in(1, Postfix) \o <<Mark("."), Word(e.name)>>
                  [] e.op \in Unaries -> <<Mark(IF e.op = "not" THEN "!" ELSE "-")>> \o in(1, Level(e))
                  [] IsBinary(e)     ->
                        in(1, Level(e))
                        \o <<Mark(CASE e.op = "or" -> "||" [] e.op = "and" -> "&&" [] OTHER -> e.op)>>
                        \o in(2, Level(e) + 1)
    IN  IF Level(e) < least \/ style = "full" THEN <<Mark("(")>> \o bare \o <<Mark(")")>> ELSE bare

Statement(s, style) ==
    (IF s.kind = "let" THEN <<Word("let"), Word(s.name), Mark("=")>> ELSE <<Word(s.kind)>>)
    \o Expression(s.expr, 0, style) \o <<Mark(";")>>

Declared(params) == [i \in DOMAIN params |-> <<Word(params[i].name), Mark(":"), Word(params[i].ty)>>]

Block(parts, style) == <<Word("params"), Mark("{")>> \o Separated(parts, style) \o <<Mark("}")>>

Tokens(contract, style) ==
    LET depth == IF contract.finality_depth = -1 THEN << >>
                 ELSE <<<<Word("finality_depth"), Mark(":"), Digits(contract.finality_depth)>>>>
        parts == depth \o Declared(contract.params)
        spend(s) == <<Word("spend"), Word(s.name), Mark("(")>> \o Separated(Declared(s.params), style)
                    \o <<Mark(")"), Mark("{")>>
                    \o FlattenSeq([i \in DOMAIN s.body |-> Statement(s.body[i], style)]) \o <<Mark("}")>>
    IN  <<Word("contract"), Word("Vault"), Mark("{")>>
        \o (IF style = "full" THEN FlattenSeq([i \in DOMAIN parts |-> Block(<<parts[i]>>, style)])
                              ELSE Block(parts, style))
        \o FlattenSeq([i \in DOMAIN contract.spends |-> spend(contract.spends[i])]) \o <<Mark("}")>>

-----------------------------------------------------------------------------
(* Comments, [form, body], at some of the gaps between tokens; elsewhere   *)
(* there is a blank where two words would run together.                    *)

CommentText(c) ==
    IF c.form = "line" THEN <<Char("/"), Char("/")>> \o c.body \o <<Newline>>
    ELSE <<Char("/"), Char("*")>> \o c.body \o <<Char("*"), Char("/")>>

Spelled(t) ==
    CASE t[1] \in {"word", "int"} -> <<t>>
      [] t[1] = "mark" -> IF t[2] \in SingleSymbols THEN <<Char(t[2])>>
                            ELSE CHOOSE s \in {<<Char(c), Char(d)>> : c \in SingleSymbols \cup {"&", "|"},
                                                                      d \in {"=", "&", "|", ">"}} :
                                        s[1][2] \o s[2][2] = t[2]
      [] t[1] = "string" -> <<Quote>> \o
                            (CASE t[2] = "" -> << >>
                               [] \E c \in DOMAIN Escapes : Escapes[c] = t[2] ->
                                     <<Backslash, Char(CHOOSE c \in DOMAIN Escapes : Escapes[c] = t[2])>>
                               [] OTHER -> <<Word(t[2])>>)
                            \o <<Quote>>

TextOf(tokens, layout) ==
    LET wordy(i) == i \in DOMAIN tokens /\ tokens[i][1] \in {"word", "int"}
        gap(i) == IF i \in DOMAIN layout THEN CommentText(layout[i])
                  ELSE IF wordy(i) /\ wordy(i + 1) THEN <<Char(" ")>> ELSE << >>
    IN  gap(0) \o FlattenSeq([i \in DOMAIN tokens |-> Spelled(tokens[i]) \o gap(i)])

\* A comment every reader ends where its writer did: nothing in it that one of the
\* passes over the raw text could take for a string or for another comment's start,
\* and one star at its end.
PlainComment(c) ==
    /\ Quote \notin ToSet(c.body)
    /\ IF c.form = "line" THEN SideBySide(<<Char("/")>> \o c.body, 1, "/", "*") = {}
       ELSE SideBySide(c.body \o <<Char("*")>>, 1, "*", "*") \cup SideBySide(c.body, 1, "*", "/") = {}

=============================================================================
