----------------------------- MODULE CompressedSSFST -----------------------------
(***************************************************************************)
(* CompressedTotalSSFST (include/compressed_total_ssft.hpp): a total       *)
(* transducer whose output words are numbers in a pool.  An output that    *)
(* ends in the letter that is read is stored without it, under the number  *)
(* of its prefix and with a flag in the highest bit of that number.        *)
(*                                                                         *)
(* canonicalizeFST() and composeFST() (Canonical) may be asked for one; it *)
(* is then evaluated, trimmed, compacted, stored and loaded in any order.  *)
(*                                                                         *)
(* The pool is the sequence of its words, the empty one first: word number *)
(* id is pool[id + 1].  InterningMonoid models it in detail.  In which     *)
(* order several new words get their numbers makes no difference.          *)
(***************************************************************************)
EXTENDS Canonical, PoolLayout

CONSTANTS
    FlagBit,        \* CompressedFlagBit: no number of a word has it
    Asked,          \* the words that are given to the f() that returns numbers
    MaxCalls        \* how many calls a compressed transducer gets

ASSUME FlagBitAssumption == FlagBit \in Nat \ {0}
ASSUME AskedAssumption == \A t \in Firsts : Asked \subseteq Seq(Alphabet(t))

VARIABLES
    compressed,     \* the compressed transducer, once it was asked for
    stored,         \* whether it has been through a stream
    calls           \* how many calls it has got

compressedVars == <<vars, compressed, stored, calls>>

Compressed(n, delta, psi, initialOut, pool) ==
    [n |-> n, delta |-> delta, psi |-> psi, initialOut |-> initialOut, pool |-> pool]

Word(c, id) == c.pool[id + 1]

\* The pool with the words of a list in it, and the number of a word that is there.
Added(pool, word) == IF Contains(pool, word) THEN pool ELSE Append(pool, word)
Interned(pool, words) ==
    LET After[i \in 0 .. Len(words)] == IF i = 0 THEN pool ELSE Added(After[i - 1], words[i])
    IN  After[Len(words)]
Id(pool, word) == (CHOOSE i \in DOMAIN pool : pool[i] = word) - 1

IsCompressed(packed) == packed >= FlagBit
CleanValue(packed) == packed % FlagBit
PackValue(clean, flag) == IF flag THEN clean + FlagBit ELSE clean

\* What PackValue() asserts of each number.
LeavesTheFlag(c) == Len(c.pool) <= FlagBit

EndsWithSymbol(word, x) == word # <<>> /\ Last(word) = x
Stored(x, wx) == IF EndsWithSymbol(wx, x) THEN Front(wx) ELSE wx

\* The transition with letter x, output wx and target to.
AddTransition(pool, x, wx, to) ==
    [val |-> PackValue(Id(pool, Stored(x, wx)), EndsWithSymbol(wx, x)), next |-> to]

\* FullOutput(): the stored word, with the letter if it was left out.
FullOutput(c, q, x) ==
    LET val == c.delta[<<q, x>>].val
    IN  Word(c, CleanValue(val)) \o IF IsCompressed(val) THEN <<x>> ELSE <<>>

\* The transducer that its transitions are those of.
Expanded(c) ==
    Total(c.n, [k \in DOMAIN c.delta |-> [out |-> FullOutput(c, k[1], k[2]), to |-> c.delta[k].next]],
          [q \in DOMAIN c.psi |-> Word(c, c.psi[q])], Word(c, c.initialOut))

\* f(), which looks up each word and adds the letter itself.
CompressedF(c, word) == F(Expanded(c), word)

\* The outputs of a list of transitions are read through the pool: a letter that
\* was left out becomes a word, and the output another.
Materialized(c, cells) ==
    LET letters == [i \in DOMAIN cells |-> IF IsCompressed(c.delta[cells[i]].val) THEN <<cells[i][2]>> ELSE <<>>]
        outs == [i \in DOMAIN cells |-> FullOutput(c, cells[i][1], cells[i][2])]
    IN  [c EXCEPT !.pool = Interned(Interned(@, letters), outs)]

\* The other f(), which returns numbers.
Evaluated(c, word) ==
    Materialized(c, [i \in DOMAIN word |-> <<Read(Expanded(c), 0, SubSeq(word, 1, i - 1)).at, word[i]>>])
--------------------------------------------------------------------------------
(* What the builders and the trimming do.                                    *)

\* The transitions, state by state and letter by letter.
Cells(n, letters) ==
    [i \in 1 .. n * Cardinality(letters) |->
        <<(i - 1) \div Cardinality(letters), Nth(letters, (i - 1) % Cardinality(letters))>>]

\* What a construction that asks for this type makes of the transitions of t, in a
\* pool.  The outputs belong to the pool, and so do the parts that are stored.
Built(t, pool) ==
    LET cells == Cells(t.n, Alphabet(t))
        outs == [i \in DOMAIN cells |-> t.delta[cells[i]].out]
        parts == [i \in DOMAIN cells |-> Stored(cells[i][2], outs[i])]
        psis == [i \in 1 .. t.n |-> t.psi[i - 1]]
        with == Interned(Interned(Interned(Interned(pool, <<t.initialOut>>), psis), outs), parts)
    IN  Compressed(t.n, [k \in DOMAIN t.delta |-> AddTransition(with, k[2], t.delta[k].out, t.delta[k].to)],
                   [q \in DOMAIN t.psi |-> Id(with, t.psi[q])], Id(with, t.initialOut), with)

\* The numbers the machine uses.
Live(c) ==
    {0, c.initialOut} \cup {CleanValue(c.delta[k].val) : k \in DOMAIN c.delta} \cup {c.psi[q] : q \in DOMAIN c.psi}

\* A mistake it could make: the numbers are given to compact() with their flags
\* and come back without.
CompactFlags(c) ==
    LET live == Live(c)
    IN  Compressed(c.n, [k \in DOMAIN c.delta |-> [c.delta[k] EXCEPT !.val = Rank(live, CleanValue(@))]],
                   [q \in DOMAIN c.psi |-> Rank(live, c.psi[q])], Rank(live, c.initialOut), Pack(c.pool, live))

\* CompactLabels(): only what the machine uses stays, the numbers close up, and
\* each gets back the flag it had.
CompactLabels(c) ==
    LET live == Live(c)
    IN  Compressed(c.n,
                   [k \in DOMAIN c.delta |->
                       [c.delta[k] EXCEPT !.val = PackValue(Rank(live, CleanValue(@)), IsCompressed(@))]],
                   [q \in DOMAIN c.psi |-> Rank(live, c.psi[q])], Rank(live, c.initialOut), Pack(c.pool, live))

\* The transducer without the states that cannot be reached; the others close up.
Reached(t) == Range(Found([q \in States(t) |-> {t.delta[<<q, a>>].to : a \in Alphabet(t)}], 0))
Trim(t) ==
    LET kept == Reached(t)
        Old(i) == Nth(kept, i)
        news == 0 .. Cardinality(kept) - 1
    IN  Total(Cardinality(kept),
              [k \in news \X Alphabet(t) |->
                  [out |-> t.delta[<<Old(k[1]), k[2]>>].out, to |-> Rank(kept, t.delta[<<Old(k[1]), k[2]>>].to)]],
              [i \in news |-> t.psi[Old(i)]], t.initialOut)

\* trimFSA(), before it compacts: all transitions are read, and those of the
\* states that can be reached are added to a machine with the same pool.
Trimmed(c) ==
    Built(Trim(Expanded(c)), Materialized(c, Cells(c.n, Alphabet(c))).pool)

\* serialize() and the constructor from a stream: the number of states, the pool,
\* the transitions with their flags and Psi; the initial output is not written.
Reloaded(c) == [c EXCEPT !.initialOut = 0]
--------------------------------------------------------------------------------
(* The life of a compressed transducer.                                      *)

CompressedInit == Init /\ compressed = {} /\ stored = FALSE /\ calls = 0

Transform ==
    /\ Next /\ compressed = {}
    /\ UNCHANGED <<compressed, stored, calls>>

\* canonicalizeFST() or composeFST() with CompressedTotalSSFST as their result.
AskForCompressed ==
    /\ stage \in {"canonical", "composed"} /\ compressed = {}
    /\ LET c == Built(result, <<<<>>>>) IN LeavesTheFlag(c) /\ compressed' = {c}
    /\ UNCHANGED <<vars, stored, calls>>

Call(new) ==
    /\ calls < MaxCalls
    /\ compressed' = {new}
    /\ calls' = calls + 1
    /\ UNCHANGED vars

Evaluate == \E c \in compressed, w \in Asked : Call(Evaluated(c, w)) /\ UNCHANGED stored
CompactItsLabels == \E c \in compressed : Call(CompactLabels(c)) /\ UNCHANGED stored
TrimIt == \E c \in compressed :
    /\ LET trimmed == Trimmed(c) IN LeavesTheFlag(trimmed) /\ Call(CompactLabels(trimmed))
    /\ UNCHANGED stored
StoreAndLoad == \E c \in compressed : Call(Reloaded(c)) /\ stored' = TRUE

CompressedNext == Transform \/ AskForCompressed \/ Evaluate \/ CompactItsLabels \/ TrimIt \/ StoreAndLoad

CompressedSpec == CompressedInit /\ [][CompressedNext]_compressedVars

\* "This type can represent anything TotalSSFST can": the compressed transducer
\* has the function of the other one, whatever it has been through.  What is
\* written before the first letter is lost when it is stored.
CompressedKeepsTheFunction ==
    \A c \in compressed, w \in Inputs :
        CompressedF(c, w) = F(IF stored THEN [result EXCEPT !.initialOut = <<>>] ELSE result, w)
================================================================================
