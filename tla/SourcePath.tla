----------------------------- MODULE SourcePath -----------------------------
(***************************************************************************)
(* SpendPath from the text of a contract on: what a programmer meant and   *)
(* wrote, and what the lexer and the parser read of it.                    *)
(***************************************************************************)
EXTENDS SpendPath, SourceParser

CONSTANT Sources            \* what was written down, and how: [program, style, layout]

VARIABLE source             \* the source, as it was meant and written

sourceVars == <<vars, source>>

SourceInit == Init /\ source \in Sources

ParsedSource == ParseFile(TextOf(Tokens(source.program, source.style), source.layout))

\* Nothing written here has two contracts; a contract of several would be followed alone.
ReadSource ==
    /\ stage = "source"
    /\ IF ParsedSource.at # 0 /\ Only(ParsedSource.is) THEN Read(ParsedSource.is[1]) ELSE Unreadable
    /\ UNCHANGED source

\* Once it was read, the tree is all that is known of the text.
SourceNext == ReadSource \/ (Steps /\ source' = Nothing)

SourceSpec == SourceInit /\ [][SourceNext]_sourceVars

-----------------------------------------------------------------------------
(* Properties.                                                             *)

\* Numbers that fit.
Writable(program) ==
    \A s \in ToSet(program.spends) : \A st \in ToSet(s.body) :
        \A t \in ToSet(Subterms[st.expr]) : t.op = "int" => t.n <= U64Max

\* A source with plain comments is read, and read as it was meant: operators bind
\* as they do everywhere, parentheses and optional commas change nothing, and
\* neither do comments wherever they stand between two tokens.
ReadAsWritten ==
    (/\ stage \in {"read", "unreadable"}
     /\ Writable(source.program)
     /\ \A gap \in DOMAIN source.layout : PlainComment(source.layout[gap]))
        => stage = "read" /\ contract = source.program

-----------------------------------------------------------------------------
(* What a test says and the code does not.                                 *)

\* compiler/lexer/src/lexer.rs:421 (skips_comments): comments are skipped.  Where a
\* source is read, its tree is the one that was written, whatever its comments say.
CommentsAreSkipped == stage = "read" => contract = source.program

=============================================================================
