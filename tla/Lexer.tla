--------------------------------- MODULE Lexer ---------------------------------
(***************************************************************************)
(* The iterator of LexerRange (include/lex_traverser.hpp), driven by a     *)
(* range-for loop: test, dereference, advance.  One symbol is looked at    *)
(* and never put back.  No program attaches a skipper, so queued_token     *)
(* stays empty and is left out.                                            *)
(***************************************************************************)
EXTENDS Integers, Sequences, FiniteSets

CONSTANTS
    Symbols,
    Tokenizers,     \* deterministic transducers: start, delta, psi
    Texts,          \* what the range delivers, with or without an eof symbol
    Newline,
    ErrorToken,
    SizeModulus,    \* 2^64, the width of a position
    MaxTokens       \* bound: a lexer that does not move is followed so far

ASSUME LexerAssumption ==
    /\ Texts \subseteq Seq(Symbols)
    /\ MaxTokens \in Nat /\ SizeModulus \in Nat \ {0}
    /\ \A t \in Tokenizers : ErrorToken \notin {t.psi[q] : q \in DOMAIN t.psi}

VARIABLES
    ssft,           \* the tokenizer
    text,           \* the range
    pc,             \* where the loop is: "next", "reading", "token" or "done"
    current,        \* the symbol the inner iterator points to, from 1
    current_state,
    position, output_position, line_number, consumed, buffer,
    tokens          \* what the loop was given; "until" adds where it was given

cursor == <<current, position, line_number>>
vars == <<ssft, text, pc, cursor, current_state, output_position, consumed, buffer, tokens>>

AtEnd == current > Len(text)
IsFinal(q) == q \in DOMAIN ssft.psi
CanRead == <<current_state, text[current]>> \in DOMAIN ssft.delta

\* begin(): the constructor runs operator++ once.
Init ==
    /\ ssft \in Tokenizers /\ text \in Texts
    /\ pc = "next" /\ tokens = <<>>
    /\ current = 1 /\ position = 0 /\ line_number = 1
    /\ current_state = ssft.start
    /\ output_position = 0 /\ consumed = FALSE /\ buffer = <<>>
--------------------------------------------------------------------------------
(* operator++.                                                               *)

Advance ==
    /\ pc = "next"
    /\ pc' = "reading"
    /\ output_position' = position
    /\ current_state' = ssft.start
    /\ consumed' = AtEnd
    /\ buffer' = <<>>
    /\ UNCHANGED <<ssft, text, cursor, tokens>>

\* The symbol under the iterator is passed.
Pass ==
    /\ line_number' = line_number + (IF text[current] = Newline THEN 1 ELSE 0)
    /\ current' = current + 1
    /\ position' = position + 1

ReadSymbol ==
    /\ pc = "reading" /\ ~AtEnd /\ CanRead
    /\ current_state' = ssft.delta[<<current_state, text[current]>>]
    /\ buffer' = Append(buffer, text[current])
    /\ Pass
    /\ UNCHANGED <<ssft, text, pc, output_position, consumed, tokens>>

Recognize ==
    /\ pc = "reading" /\ ~AtEnd /\ ~CanRead /\ IsFinal(current_state)
    /\ pc' = "token"
    /\ UNCHANGED <<ssft, text, cursor, current_state, output_position, consumed, buffer, tokens>>

\* A mistake it could make: the symbol that cannot be read stays.
RejectInPlace ==
    /\ pc = "reading" /\ ~AtEnd /\ ~CanRead /\ ~IsFinal(current_state)
    /\ buffer' = <<text[current]>>
    /\ current_state' = ssft.start
    /\ pc' = "token"
    /\ UNCHANGED <<ssft, text, cursor, output_position, consumed, tokens>>

\* Another: a line that ends there is not counted.
RejectSameLine ==
    /\ pc = "reading" /\ ~AtEnd /\ ~CanRead /\ ~IsFinal(current_state)
    /\ buffer' = <<text[current]>>
    /\ current' = current + 1 /\ position' = position + 1
    /\ current_state' = ssft.start
    /\ pc' = "token"
    /\ UNCHANGED <<ssft, text, line_number, output_position, consumed, tokens>>

\* All that was read is dropped, with the symbol that could not be read.
Reject ==
    /\ pc = "reading" /\ ~AtEnd /\ ~CanRead /\ ~IsFinal(current_state)
    /\ buffer' = <<text[current]>>
    /\ Pass
    /\ current_state' = ssft.start
    /\ pc' = "token"
    /\ UNCHANGED <<ssft, text, output_position, consumed, tokens>>

RunOut ==
    /\ pc = "reading" /\ AtEnd
    /\ pc' = "token"
    /\ UNCHANGED <<ssft, text, cursor, current_state, output_position, consumed, buffer, tokens>>
--------------------------------------------------------------------------------
(* operator* and the test.                                                   *)

Longer(a, b) == IF a < b THEN b ELSE a

TokenData ==
    [token |-> IF IsFinal(current_state) THEN ssft.psi[current_state] ELSE ErrorToken,
     from |-> output_position,
     to |-> Longer(output_position, (position - 1) % SizeModulus),
     line |-> line_number,
     str |-> buffer,
     until |-> position]

AtSentinel == consumed /\ AtEnd

Dereference ==
    /\ pc = "token" /\ ~AtSentinel /\ Len(tokens) < MaxTokens
    /\ tokens' = Append(tokens, TokenData)
    /\ consumed' = TRUE
    /\ pc' = "next"
    /\ UNCHANGED <<ssft, text, cursor, current_state, output_position, buffer>>

Finish ==
    /\ pc = "token" /\ AtSentinel
    /\ pc' = "done"
    /\ UNCHANGED <<ssft, text, cursor, current_state, output_position, consumed, buffer, tokens>>

Next ==
    \/ Advance \/ ReadSymbol \/ Recognize \/ Reject \/ RunOut
    \/ Dereference \/ Finish

\* One thread, and nothing but the loop stops it.
Spec == Init /\ [][Next]_vars /\ WF_vars(Next)
--------------------------------------------------------------------------------
(* Properties.                                                               *)

States(t) == {t.start} \cup {t.delta[c] : c \in DOMAIN t.delta}

\* Positions stay in the text and states in the tokenizer; a token is handed out
\* only between two readings.
TypeOK ==
    /\ pc \in {"next", "reading", "token", "done"}
    /\ current \in 1 .. Len(text) + 1
    /\ position \in 0 .. Len(text)
    /\ output_position \in 0 .. position
    /\ current_state \in States(ssft)
    /\ consumed \in BOOLEAN
    /\ Len(buffer) <= position - output_position

Newlines(n) == {k \in 1 .. n : text[k] = Newline}

\* What is handed out for a symbol that cannot be read: the state is the initial
\* one again.
Unread == IF IsFinal(ssft.start) THEN ssft.psi[ssft.start] ELSE ErrorToken

\* Nothing is lost and nothing comes twice: each token begins where the one before
\* ended, its string is what lies between, and in the end all was read.  The
\* string of an error is the symbol that stopped it or, at the end of the text,
\* what was read.  A token knows how many lines were ended by then.
TokensTileTheText ==
    /\ \A i \in DOMAIN tokens :
           LET t == tokens[i]
               read == SubSeq(text, t.from + 1, t.until)
           IN  /\ t.from = IF i = 1 THEN 0 ELSE tokens[i - 1].until
               /\ \/ t.str = read
                  \/ t.token = Unread /\ t.str = SubSeq(read, Len(read), Len(read))
               /\ t.line = 1 + Cardinality(Newlines(t.until))
    /\ pc = "done" =>
           position = Len(text) /\ (text # <<>> => tokens[Len(tokens)].until = Len(text))

\* The loop ends, unless the empty word is a token: then a symbol that cannot be
\* read is never passed.
LexEnds == ~IsFinal(ssft.start) => <>(pc = "done")
================================================================================
