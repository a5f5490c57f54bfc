---------------------------- MODULE MCRegularTools ----------------------------
(* The two programs that make machines of regular expressions: regex2.cpp,     *)
(* which takes one expression through every stage, and a lexer made of several *)
(* (tests/language.cpp).  A behaviour is about one of them.                    *)
EXTENDS RuleLexer, MCRegexPipeline

VARIABLE tool
--------------------------------------------------------------------------------
(* Rules.  Four symbols and an end of input that a stream adds and a vector    *)
(* does not.                                                                   *)

Keys == {"a", "b", "c", "nl"}
Symbols0 == Keys \cup {"eof"}
Word(s) == Pair(s, <<>>)
Either == Union(Word(<<"a">>), Word(<<"b">>))

Ab == Rule(Word(<<"a", "b">>), "AB")
Id == Rule(Plus(Either), "ID")
Ws == Rule(Plus(Word(<<"nl">>)), "WS")
End == Rule(Word(<<"eof">>), "EOF")
Abc == Rule(Word(<<"a", "b", "c">>), "ABC")
A == Rule(Word(<<"a">>), "A")
As == Rule(Star(Word(<<"a">>)), "AS")
Cs == Rule(Concat(Star(Either), Plus(Word(<<"c">>))), "CS")

\* A keyword before and after the identifiers, rules of one token, a gap after a
\* and after ab, the empty word as a token.
RuleSets0 == {
    <<Ab, Id, Ws, End>>, <<Id, Ab, Ws>>, <<A, Abc, Ws, End>>, <<Ab, Abc, A>>,
    <<As, Ws>>, <<Cs, Ab>>, <<Cs, Id, Ab, Ws, End>>, <<A, Rule(Word(<<"b">>), "A"), Ab>>}

WordsUpTo(n) == UNION {[1 .. k -> Keys] : k \in 0 .. n}
Texts0 == WordsUpTo(4) \cup {w \o <<"eof">> : w \in WordsUpTo(3)}
--------------------------------------------------------------------------------
(* Both tools.                                                                 *)

toolsVars == <<tool, vars, pipelineVars>>

\* Nothing is asked of the pipeline, or the lexer has read an empty text.
PipelineIdle ==
    /\ expression = CHOOSE r \in Regexes : TRUE
    /\ construction = "Thompson" /\ stage = "parsed"
    /\ machine = {} /\ built = {} /\ function = {}
    /\ ambiguous = FALSE /\ functional = FALSE
LexerIdle ==
    /\ ssft = CHOOSE t \in Tokenizers : TRUE
    /\ text = <<>> /\ pc = "done" /\ tokens = <<>>
    /\ current = 1 /\ position = 0 /\ line_number = 1
    /\ current_state = ssft.start
    /\ output_position = 0 /\ consumed = TRUE /\ buffer = <<>>

ToolsInit ==
    \/ tool = "lexer" /\ PipelineIdle /\ Init
    \/ tool = "pipeline" /\ LexerIdle /\ PipelineInit

Lexing == tool = "lexer" /\ Next /\ UNCHANGED <<tool, pipelineVars>>
Constructing == tool = "pipeline" /\ PipelineNext /\ UNCHANGED <<tool, vars>>

ToolsNext == Lexing \/ Constructing

\* The lexer's loop is one thread, and nothing but the loop stops it.
ToolsSpec == ToolsInit /\ [][ToolsNext]_toolsVars /\ WF_vars(Lexing)
================================================================================
