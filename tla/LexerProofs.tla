------------------------------ MODULE LexerProofs ------------------------------
(***************************************************************************)
(* For every tokenizer and every text: the tokens tile the text.           *)
(***************************************************************************)
EXTENDS Lexer, SequenceTheorems, FiniteSetTheorems, TLAPS

Answers == {ErrorToken} \cup UNION {{t.psi[q] : q \in DOMAIN t.psi} : t \in Tokenizers}
TokenType == [token : Answers, from : Nat, to : Nat, line : Nat, str : Seq(Symbols), until : Nat]

ReadSoFar == SubSeq(text, output_position + 1, position)

\* Where the token begins that comes after those that were handed out.
Begin == IF tokens = <<>> THEN 0 ELSE tokens[Len(tokens)].until

Types ==
    /\ ssft \in Tokenizers /\ text \in Texts
    /\ pc \in {"next", "reading", "token", "done"}
    /\ current_state \in States(ssft)
    /\ consumed \in BOOLEAN
    /\ tokens \in Seq(TokenType)

CursorFits ==
    /\ position \in 0 .. Len(text) /\ output_position \in 0 .. position
    /\ current = position + 1
    /\ line_number = 1 + Cardinality(Newlines(position))

TokenBegins == Begin = IF pc = "next" THEN position ELSE output_position

\* Either all that was read since the token began or, after a symbol that could not be
\* read, that symbol.
BufferHolds ==
    /\ buffer \in Seq(Symbols) /\ Len(buffer) <= position - output_position
    /\ pc = "reading" => buffer = ReadSoFar
    /\ pc = "token" =>
           \/ buffer = ReadSoFar
           \/ /\ output_position < position /\ current_state = ssft.start
              /\ buffer = SubSeq(ReadSoFar, Len(ReadSoFar), Len(ReadSoFar))

\* What is consumed before a token begins is the whole text.
EndIsEnd == (pc = "done" \/ (consumed /\ pc # "next")) => output_position = Len(text)

Tile(i) ==
    LET t == tokens[i]
        read == SubSeq(text, t.from + 1, t.until)
    IN  /\ t.from = IF i = 1 THEN 0 ELSE tokens[i - 1].until
        /\ \/ t.str = read
           \/ t.token = Unread /\ t.str = SubSeq(read, Len(read), Len(read))
        /\ t.line = 1 + Cardinality(Newlines(t.until))

LexInv ==
    /\ Types /\ CursorFits /\ TokenBegins /\ BufferHolds /\ EndIsEnd
    /\ \A i \in DOMAIN tokens : Tile(i)
--------------------------------------------------------------------------------
\* What is there after the next symbol was read is what was there, and the symbol.
LEMMA ReadOn ==
    ASSUME NEW w \in Seq(Symbols), NEW a \in Nat, NEW b \in a .. Len(w) - 1
    PROVE  /\ SubSeq(w, a + 1, b) \in Seq(Symbols)
           /\ SubSeq(w, a + 1, b + 1) = Append(SubSeq(w, a + 1, b), w[b + 1])
           /\ Len(SubSeq(w, a + 1, b)) = b - a
<1>1. SubSeq(w, a + 1, b) \in Seq(Symbols) /\ Len(SubSeq(w, a + 1, b)) = b - a
  BY SubSeqProperties
<1>2. w[b + 1] \in Symbols
  OBVIOUS
<1>3. SubSeq(w, a + 1, b + 1) = SubSeq(w, a + 1, (b + 1) - 1) \o <<w[b + 1]>>
  <2>1. a + 1 \in 1 .. Len(w) /\ b + 1 \in a + 1 .. Len(w)
    OBVIOUS
  <2>2. QED
    BY ONLY <2>1, w \in Seq(Symbols), SubSeqRecursiveSecond
<1>4. (b + 1) - 1 = b
  OBVIOUS
<1>5. SubSeq(w, a + 1, b) \o <<w[b + 1]>> = Append(SubSeq(w, a + 1, b), w[b + 1])
  BY <1>1, <1>2, AppendIsConcat
<1>6. QED
  BY <1>1, <1>3, <1>4, <1>5

\* The last symbol of a sequence, as a sequence of its own.
LEMMA LastAlone ==
    ASSUME NEW w \in Seq(Symbols), NEW a \in Symbols
    PROVE  LET v == Append(w, a) IN SubSeq(v, Len(v), Len(v)) = <<a>>
<1> DEFINE v == Append(w, a)
<1>1. v \in Seq(Symbols) /\ Len(v) = Len(w) + 1 /\ v[Len(v)] = a
  OBVIOUS
<1>2. Len(SubSeq(v, Len(v), Len(v))) = 1 /\ SubSeq(v, Len(v), Len(v))[1] = a
      /\ SubSeq(v, Len(v), Len(v)) \in Seq(Symbols)
  <2> DEFINE n == Len(v)
  <2>1. n \in Int /\ (\A i \in n .. n : v[i] \in Symbols) /\ n - n + 1 = 1 /\ n + 1 - 1 = n /\ v[n] = a
    BY <1>1
  <2> HIDE DEF v, n
  <2>2. /\ SubSeq(v, n, n) \in Seq(Symbols)
        /\ Len(SubSeq(v, n, n)) = IF n <= n THEN n - n + 1 ELSE 0
        /\ \A i \in 1 .. n - n + 1 : SubSeq(v, n, n)[i] = v[n + i - 1]
    BY ONLY <2>1, SubSeqProperties
  <2>3. n <= n /\ 1 \in 1 .. n - n + 1
    BY <2>1
  <2>4. SubSeq(v, n, n) \in Seq(Symbols) /\ Len(SubSeq(v, n, n)) = 1 /\ SubSeq(v, n, n)[1] = a
    BY ONLY <2>1, <2>2, <2>3
  <2>5. QED
    BY <2>4 DEF n
<1>3. \A u \in Seq(Symbols) : Len(u) = 1 /\ u[1] = a => u = <<a>>
  OBVIOUS
<1>4. QED
  BY ONLY <1>2, <1>3

\* A newline ends a line, and nothing else does.
LEMMA LinesEnded ==
    ASSUME NEW n \in Nat
    PROVE  /\ Cardinality(Newlines(n)) \in Nat
           /\ Cardinality(Newlines(n + 1)) = Cardinality(Newlines(n)) + (IF text[n + 1] = Newline THEN 1 ELSE 0)
           /\ Cardinality(Newlines(0)) = 0
<1>1. IsFiniteSet(Newlines(n))
  <2>1. IsFiniteSet(1 .. n)
    BY FS_Interval
  <2>2. Newlines(n) \in SUBSET (1 .. n)
    BY DEF Newlines
  <2>3. QED
    BY <2>1, <2>2, FS_Subset
<1>2. Cardinality(Newlines(n)) \in Nat
  BY <1>1, FS_CardinalityType
<1>3. Newlines(n + 1) = IF text[n + 1] = Newline THEN Newlines(n) \cup {n + 1} ELSE Newlines(n)
  BY DEF Newlines
<1>4. n + 1 \notin Newlines(n)
  BY DEF Newlines
<1>5. Cardinality(Newlines(n) \cup {n + 1}) = Cardinality(Newlines(n)) + 1
  BY <1>1, <1>4, FS_AddElement
<1>6. Newlines(0) = {}
  BY DEF Newlines
<1>7. QED
  BY <1>2, <1>3, <1>5, <1>6, FS_EmptySet
--------------------------------------------------------------------------------
LEMMA InitHolds == Init => LexInv
<1> SUFFICES ASSUME Init PROVE LexInv
  OBVIOUS
<1>1. text \in Seq(Symbols)
  BY LexerAssumption DEF Init
<1>2. Cardinality(Newlines(0)) = 0
  BY LinesEnded
<1>3. Types
  <2>1. tokens \in Seq(TokenType)
    BY DEF Init
  <2>2. current_state \in States(ssft)
    BY DEF Init, States
  <2>3. QED
    BY <2>1, <2>2 DEF Init, Types
<1>4. CursorFits
  BY <1>1, <1>2 DEF Init, CursorFits
<1>5. TokenBegins /\ BufferHolds /\ EndIsEnd
  BY DEF Init, TokenBegins, Begin, BufferHolds, EndIsEnd
<1>6. \A i \in DOMAIN tokens : Tile(i)
  BY DEF Init
<1>7. QED
  BY <1>3, <1>4, <1>5, <1>6 DEF LexInv

\* Tiles stay where they are as long as tokens and text stay.
LEMMA TilesStay ==
    ASSUME \A i \in DOMAIN tokens : Tile(i), UNCHANGED <<ssft, text, tokens>>
    PROVE  (\A i \in DOMAIN tokens : Tile(i))'
  BY DEF Tile, Unread, IsFinal, Newlines

\* The symbol under the iterator, when it is passed: the cursor moves on and a line
\* that ends there is counted.
LEMMA PassKeepsCursor ==
    ASSUME LexInv, ~AtEnd, Pass, UNCHANGED <<text, output_position>>
    PROVE  /\ CursorFits'
           /\ position' = position + 1 /\ position < Len(text)
           /\ text[current] \in Symbols
           /\ ReadSoFar \in Seq(Symbols)
           /\ ReadSoFar' = Append(ReadSoFar, text[current])
<1>1. text \in Seq(Symbols)
  BY LexerAssumption DEF LexInv, Types
<1>2. /\ position \in Nat /\ output_position \in 0 .. position /\ position < Len(text)
      /\ current = position + 1 /\ position' = position + 1 /\ current' = position' + 1
      /\ text[current] \in Symbols
  BY <1>1 DEF LexInv, CursorFits, AtEnd, Pass
<1>3. position \in output_position .. Len(text) - 1 /\ output_position \in Nat
  BY <1>1, <1>2
<1>4. ReadSoFar \in Seq(Symbols) /\ ReadSoFar' = Append(ReadSoFar, text[current])
  BY <1>1, <1>2, <1>3, ReadOn DEF ReadSoFar
<1>5. line_number' = 1 + Cardinality(Newlines(position))'
  <2>1. line_number = 1 + Cardinality(Newlines(position)) /\ Cardinality(Newlines(position)) \in Nat
    BY <1>2, LinesEnded DEF LexInv, CursorFits
  <2>2. Cardinality(Newlines(position + 1)) =
            Cardinality(Newlines(position)) + (IF text[position + 1] = Newline THEN 1 ELSE 0)
    BY <1>2, LinesEnded
  <2>3. line_number' = line_number + (IF text[position + 1] = Newline THEN 1 ELSE 0)
    BY <1>2 DEF Pass
  <2>4. Cardinality(Newlines(position))' = Cardinality(Newlines(position + 1))
    BY <1>2 DEF Newlines
  <2>5. QED
    BY <2>1, <2>2, <2>3, <2>4
<1>6. CursorFits'
  BY <1>1, <1>2, <1>5 DEF CursorFits
<1>7. QED
  BY <1>2, <1>4, <1>6
--------------------------------------------------------------------------------
(* One lemma for each action.                                                *)

\* Newlines of a text that stays.
LEMMA LinesStay ==
    ASSUME CursorFits, UNCHANGED <<text, current, position, line_number>>,
           output_position' \in 0 .. position'
    PROVE  CursorFits'
  BY DEF CursorFits, Newlines

LEMMA AdvanceKeeps == ASSUME LexInv, Advance PROVE LexInv'
<1> USE DEF Advance, cursor
<1>1. text \in Seq(Symbols) /\ position \in 0 .. Len(text) /\ current = position + 1
  BY LexerAssumption DEF LexInv, Types, CursorFits
<1>2. Types'
  BY DEF LexInv, Types, States, AtEnd
<1>3. CursorFits'
  BY <1>1, LinesStay DEF LexInv
<1>4. TokenBegins'
  BY DEF LexInv, TokenBegins, Begin
<1>5. BufferHolds'
  <2>1. SubSeq(text, position + 1, position) = <<>>
    BY <1>1, SubSeqEmpty
  <2>2. ReadSoFar' = <<>>
    BY <2>1 DEF ReadSoFar
  <2>3. position - position = 0
    BY <1>1
  <2>4. QED
    BY <2>2, <2>3 DEF BufferHolds
<1>6. EndIsEnd'
  <2>1. AtEnd => position = Len(text)
    BY <1>1, LexerAssumption DEF AtEnd
  <2>2. consumed' => AtEnd
    OBVIOUS
  <2>3. pc' = "reading" /\ output_position' = position /\ text' = text
    OBVIOUS
  <2>4. QED
    BY ONLY <2>1, <2>2, <2>3 DEF EndIsEnd
<1>7. (\A i \in DOMAIN tokens : Tile(i))'
  BY TilesStay DEF LexInv
<1>8. QED
  BY <1>2, <1>3, <1>4, <1>5, <1>6, <1>7 DEF LexInv

LEMMA ReadSymbolKeeps == ASSUME LexInv, ReadSymbol PROVE LexInv'
<1> USE DEF ReadSymbol
<1>1. /\ CursorFits' /\ position' = position + 1 /\ position < Len(text)
      /\ text[current] \in Symbols
      /\ ReadSoFar \in Seq(Symbols) /\ ReadSoFar' = Append(ReadSoFar, text[current])
  BY PassKeepsCursor
<1>2. Types'
  BY DEF LexInv, Types, States, CanRead
<1>3. TokenBegins'
  BY DEF LexInv, TokenBegins, Begin
<1>4. BufferHolds'
  <2>1. buffer' = ReadSoFar' /\ buffer' \in Seq(Symbols) /\ Len(buffer') = Len(buffer) + 1
    BY <1>1 DEF LexInv, BufferHolds
  <2>2. position \in Nat /\ output_position \in Nat
    BY LexerAssumption DEF LexInv, CursorFits, Types
  <2>3. Len(buffer') <= position' - output_position'
    BY <1>1, <2>1, <2>2 DEF LexInv, BufferHolds
  <2>4. QED
    BY <2>1, <2>3 DEF BufferHolds
<1>5. EndIsEnd'
  <2>1. position \in 0 .. Len(text) /\ output_position \in 0 .. position
    BY DEF LexInv, CursorFits
  <2>2. ~consumed
    BY <1>1, <2>1 DEF LexInv, EndIsEnd
  <2>3. QED
    BY <2>2 DEF EndIsEnd
<1>6. (\A i \in DOMAIN tokens : Tile(i))'
  BY TilesStay DEF LexInv
<1>7. QED
  BY <1>1, <1>2, <1>3, <1>4, <1>5, <1>6 DEF LexInv

LEMMA RejectKeeps == ASSUME LexInv, Reject PROVE LexInv'
<1> USE DEF Reject
<1>1. /\ CursorFits' /\ position' = position + 1 /\ position < Len(text)
      /\ text[current] \in Symbols
      /\ ReadSoFar \in Seq(Symbols) /\ ReadSoFar' = Append(ReadSoFar, text[current])
  BY PassKeepsCursor
<1>2. position \in 0 .. Len(text) /\ output_position \in 0 .. position /\ Len(text) \in Nat
  BY LexerAssumption DEF LexInv, CursorFits, Types
<1>3. Types'
  BY DEF LexInv, Types, States
<1>4. TokenBegins'
  BY DEF LexInv, TokenBegins, Begin
<1>5. BufferHolds'
  <2>1. buffer' = SubSeq(ReadSoFar', Len(ReadSoFar'), Len(ReadSoFar'))
    BY <1>1, LastAlone
  <2>2. output_position' < position' /\ current_state' = ssft'.start
    BY <1>1, <1>2
  <2>3. buffer' \in Seq(Symbols) /\ Len(buffer') = 1
    BY <1>1
  <2>4. 1 <= position' - output_position'
    BY <1>1, <1>2
  <2>5. QED
    BY <2>1, <2>2, <2>3, <2>4 DEF BufferHolds
<1>6. EndIsEnd'
  <2>1. ~consumed
    BY <1>1, <1>2 DEF LexInv, EndIsEnd
  <2>2. QED
    BY <2>1 DEF EndIsEnd
<1>7. (\A i \in DOMAIN tokens : Tile(i))'
  BY TilesStay DEF LexInv
<1>8. QED
  BY <1>1, <1>3, <1>4, <1>5, <1>6, <1>7 DEF LexInv

\* The loop of operator++ is left with what was read, because the token is complete or
\* the text is.
LEMMA StopKeeps == ASSUME LexInv, Recognize \/ RunOut PROVE LexInv'
<1> USE DEF Recognize, RunOut, cursor
<1>1. Types'
  BY DEF LexInv, Types, States
<1>2. CursorFits'
  BY DEF LexInv, CursorFits, Newlines
<1>3. TokenBegins' /\ EndIsEnd'
  BY DEF LexInv, TokenBegins, Begin, EndIsEnd
<1>4. BufferHolds'
  BY DEF LexInv, BufferHolds, ReadSoFar
<1>5. (\A i \in DOMAIN tokens : Tile(i))'
  BY TilesStay DEF LexInv
<1>6. QED
  BY <1>1, <1>2, <1>3, <1>4, <1>5 DEF LexInv

LEMMA FinishKeeps == ASSUME LexInv, Finish PROVE LexInv'
<1> USE DEF Finish, cursor
<1>1. Types'
  BY DEF LexInv, Types, States
<1>2. CursorFits'
  BY DEF LexInv, CursorFits, Newlines
<1>3. TokenBegins' /\ EndIsEnd' /\ BufferHolds'
  BY DEF LexInv, TokenBegins, Begin, EndIsEnd, BufferHolds, AtSentinel
<1>4. (\A i \in DOMAIN tokens : Tile(i))'
  BY TilesStay DEF LexInv
<1>5. QED
  BY <1>1, <1>2, <1>3, <1>4 DEF LexInv
--------------------------------------------------------------------------------
\* The token that is handed out is the next tile.
LEMMA NextTile ==
    ASSUME LexInv, pc = "token"
    PROVE  LET read == SubSeq(text, TokenData.from + 1, TokenData.until)
           IN  /\ TokenData \in TokenType
               /\ TokenData.from = Begin /\ TokenData.until = position
               /\ \/ TokenData.str = read
                  \/ TokenData.token = Unread /\ TokenData.str = SubSeq(read, Len(read), Len(read))
               /\ TokenData.line = 1 + Cardinality(Newlines(TokenData.until))
<1>1. /\ position \in Nat /\ output_position \in Nat
      /\ line_number = 1 + Cardinality(Newlines(position)) /\ line_number \in Nat
  <2>1. position \in Nat /\ output_position \in Nat /\ line_number = 1 + Cardinality(Newlines(position))
    BY LexerAssumption DEF LexInv, CursorFits, Types
  <2>2. Cardinality(Newlines(position)) \in Nat
    BY <2>1, LinesEnded
  <2>3. QED
    BY ONLY <2>1, <2>2
<1>2. TokenData.token \in Answers
  BY DEF TokenData, Answers, IsFinal, LexInv, Types
<1>3. Longer(output_position, (position - 1) % SizeModulus) \in Nat
  <2>1. (position - 1) % SizeModulus \in Nat
    BY <1>1, LexerAssumption
  <2>2. QED
    BY <1>1, <2>1 DEF Longer
<1>4. TokenData \in TokenType
  BY <1>1, <1>2, <1>3 DEF TokenData, TokenType, LexInv, BufferHolds
<1>5. TokenData.from = Begin /\ TokenData.until = position /\ TokenData.from = output_position
  BY DEF TokenData, LexInv, TokenBegins
<1>6. TokenData.str = buffer /\ (current_state = ssft.start => TokenData.token = Unread)
  BY DEF TokenData, Unread
<1>7. \/ buffer = ReadSoFar
      \/ current_state = ssft.start /\ buffer = SubSeq(ReadSoFar, Len(ReadSoFar), Len(ReadSoFar))
  BY DEF LexInv, BufferHolds
<1>8. ReadSoFar = SubSeq(text, TokenData.from + 1, TokenData.until)
  BY <1>5 DEF ReadSoFar
<1>9. TokenData.line = 1 + Cardinality(Newlines(TokenData.until))
  BY <1>1, <1>5 DEF TokenData
<1>10. QED
  BY ONLY <1>4, <1>5, <1>6, <1>7, <1>8, <1>9

LEMMA DereferenceKeeps == ASSUME LexInv, Dereference PROVE LexInv'
<1> USE DEF Dereference, cursor
<1> DEFINE t == TokenData
<1>1. /\ t \in TokenType /\ t.from = Begin /\ t.until = position
      /\ LET read == SubSeq(text, t.from + 1, t.until)
         IN  \/ t.str = read
             \/ t.token = Unread /\ t.str = SubSeq(read, Len(read), Len(read))
      /\ t.line = 1 + Cardinality(Newlines(t.until))
  BY NextTile
<1>2. tokens \in Seq(TokenType) /\ tokens' = Append(tokens, t)
  BY DEF LexInv, Types
<1> HIDE DEF t
<1>3. /\ tokens' \in Seq(TokenType) /\ Len(tokens') = Len(tokens) + 1 /\ tokens'[Len(tokens')] = t
      /\ \A i \in DOMAIN tokens : tokens'[i] = tokens[i]
      /\ DOMAIN tokens' = 1 .. Len(tokens) + 1 /\ DOMAIN tokens = 1 .. Len(tokens) /\ Len(tokens) \in Nat
  BY <1>1, <1>2, AppendProperties
<1>4. Types'
  BY <1>3 DEF LexInv, Types, States
<1>5. CursorFits'
  BY DEF LexInv, CursorFits, Newlines
<1>6. TokenBegins'
  <2>1. tokens' # <<>>
    BY <1>3
  <2>2. QED
    BY <1>1, <1>3, <2>1 DEF TokenBegins, Begin
<1>7. BufferHolds' /\ EndIsEnd'
  BY DEF LexInv, BufferHolds, EndIsEnd
<1>8. (\A i \in DOMAIN tokens : Tile(i))'
  <2> SUFFICES ASSUME NEW i \in 1 .. Len(tokens) + 1 PROVE Tile(i)'
    BY <1>3
  <2>1. CASE i \in DOMAIN tokens
    <3>1. Tile(i) /\ tokens'[i] = tokens[i] /\ (i # 1 => tokens'[i - 1] = tokens[i - 1])
      BY <1>3, <2>1 DEF LexInv
    <3>2. QED
      BY <3>1 DEF Tile, Unread, IsFinal, Newlines
  <2>2. CASE i = Len(tokens) + 1
    <3>1. tokens'[i] = t
      BY <1>3, <2>2
    <3>2. Begin = IF i = 1 THEN 0 ELSE tokens'[i - 1].until
      <4>1. tokens = <<>> <=> i = 1
        BY <1>2, <1>3, <2>2
      <4>2. i # 1 => tokens'[i - 1] = tokens[Len(tokens)]
        <5>1. i - 1 = Len(tokens) /\ (i # 1 => Len(tokens) \in DOMAIN tokens)
          BY <1>3, <2>2
        <5>2. QED
          BY <1>3, <5>1
      <4>3. QED
        BY ONLY <4>1, <4>2 DEF Begin
    <3>3. QED
      BY <1>1, <3>1, <3>2 DEF Tile, Unread, IsFinal, Newlines
  <2>3. QED
    BY <1>3, <2>1, <2>2
<1>9. QED
  BY <1>4, <1>5, <1>6, <1>7, <1>8 DEF LexInv
--------------------------------------------------------------------------------
LEMMA NextKeeps == ASSUME LexInv, [Next]_vars PROVE LexInv'
<1>1. CASE Next
  BY <1>1, AdvanceKeeps, ReadSymbolKeeps, StopKeeps, RejectKeeps, DereferenceKeeps, FinishKeeps DEF Next
<1>2. CASE UNCHANGED vars
  <2> USE <1>2 DEF vars, cursor
  <2>1. Types' /\ TokenBegins' /\ BufferHolds' /\ EndIsEnd'
    BY DEF LexInv, Types, States, TokenBegins, Begin, BufferHolds, ReadSoFar, EndIsEnd
  <2>2. CursorFits'
    BY DEF LexInv, CursorFits, Newlines
  <2>3. (\A i \in DOMAIN tokens : Tile(i))'
    BY TilesStay DEF LexInv
  <2>4. QED
    BY <2>1, <2>2, <2>3 DEF LexInv
<1>3. QED
  BY <1>1, <1>2

\* Whatever the tokenizer and the text, every reachable state satisfies the invariant.
THEOREM LexerInvariant == Spec => []LexInv
<1>1. QED
  BY InitHolds, NextKeeps, PTL DEF Spec

\* What is handed out by the iterator of LexerRange, put together, is the text: no symbol
\* is skipped or read twice, whatever the tokenizer recognizes.
THEOREM TokensTile == Spec => []TokensTileTheText
<1>1. LexInv => TokensTileTheText
  <2> SUFFICES ASSUME LexInv PROVE TokensTileTheText
    OBVIOUS
  <2>1. position \in 0 .. Len(text) /\ output_position \in 0 .. position /\ Len(text) \in Nat
    BY LexerAssumption DEF LexInv, CursorFits, Types
  <2>2. ASSUME pc = "done"
        PROVE  position = Len(text) /\ (text # <<>> => tokens[Len(tokens)].until = Len(text))
    <3>1. output_position = Len(text) /\ Begin = output_position
      BY <2>2 DEF LexInv, EndIsEnd, TokenBegins
    <3>2. text # <<>> => Len(text) > 0
      BY LexerAssumption DEF LexInv, Types
    <3>3. QED
      BY <2>1, <3>1, <3>2 DEF Begin
  <2>3. QED
    BY <2>2 DEF TokensTileTheText, LexInv, Tile
<1>2. QED
  BY <1>1, LexerInvariant, PTL

\* The cursor stays in the text, states are the tokenizer's, and the buffer holds no
\* more than was read since the token began.
THEOREM LexerTypes == Spec => []TypeOK
<1>1. LexInv => TypeOK
  <2> SUFFICES ASSUME LexInv PROVE TypeOK
    OBVIOUS
  <2>1. text \in Seq(Symbols) /\ position \in 0 .. Len(text) /\ output_position \in 0 .. position
        /\ current = position + 1 /\ Len(text) \in Nat
    BY LexerAssumption DEF LexInv, CursorFits, Types
  <2>2. QED
    BY <2>1 DEF TypeOK, LexInv, Types, BufferHolds
<1>2. QED
  BY <1>1, LexerInvariant, PTL
================================================================================
