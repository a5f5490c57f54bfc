------------------------------- MODULE RuleLexer -------------------------------
(***************************************************************************)
(* A lexer with a tokenizer made from rules, as tests/language.cpp puts    *)
(* the two together, and what it promises of the rules alone.              *)
(*                                                                         *)
(* A rule is an expression and a token.  The tokenizer                     *)
(* (include/output_fsa.hpp) is made of an automaton for each rule          *)
(* (OutputFSA), their union (UnionOutputFSA), and a deterministic          *)
(* transducer in which the first rule wins (determinizeToSSFT).            *)
(***************************************************************************)
EXTENDS Lexer, RealtimeFST

CONSTANT RuleSets

Rule(regex, token) == [regex |-> regex, token |-> token]

\* The constructor's stages.  A rule writes nothing, so that nothing is left that
\* reads nothing once silent transitions are gone.
OutputFSA(rule) ==
    PseudoDeterminize(TrimFSA(Expanded(WithoutSilent(TrimFSA(MakeFSA_BerriSethi(rule.regex))))))

\* The states of each automaton follow those of the one before; here they are
\* pairs of a rule's number and a state.
UnionOutputFSA(rules) ==
    LET fsa == [i \in DOMAIN rules |-> OutputFSA(rules[i])]
        All(S(_)) == UNION {{<<i, q>> : q \in S(i)} : i \in DOMAIN rules}
    IN  Machine(All(LAMBDA i : fsa[i].states), All(LAMBDA i : fsa[i].firsts), All(LAMBDA i : fsa[i].finals),
            UNION {Moved(fsa[i].trans, LAMBDA q : <<i, q>>) : i \in DOMAIN rules}, {})

\* A mistake it could make: the last rule wins.
LastWinner(u, S) == CHOOSE q \in S \cap u.finals : \A p \in S \cap u.finals : p[1] <= q[1]

\* The final member of the smallest number, which belongs to the earliest rule.
Winner(u, S) == CHOOSE q \in S \cap u.finals : \A p \in S \cap u.finals : q[1] <= p[1]

SubsetIsFinal(u, S) == S \cap u.finals # {}

\* The subsets are sorted but not made unique; as each automaton of the union is
\* deterministic none of its states comes twice.  They are numbered, the initial
\* one first.
DeterminizeToSSFT(u, rules) ==
    LET states == Subsets(u, {u.firsts}, {u.firsts})
        order == <<u.firsts>> \o Listed(states \ {u.firsts})
        ID(S) == CHOOSE n \in 0 .. Len(order) - 1 : order[n + 1] = S
        To(n, a) == After(u, order[n + 1], <<<<a>>, <<>>>>)
        ids == 0 .. Len(order) - 1
    IN  [start |-> 0,
         delta |-> [c \in {c \in ids \X {t.in[1] : t \in u.trans} : To(c[1], c[2]) # {}} |-> ID(To(c[1], c[2]))],
         psi |-> [n \in {n \in ids : SubsetIsFinal(u, order[n + 1])} |-> rules[Winner(u, order[n + 1])[1]].token],
         rules |-> rules]

TokenizerOf(rules) == DeterminizeToSSFT(UnionOutputFSA(rules), rules)

TokenizersOfRules == {TokenizerOf(rules) : rules \in RuleSets}
--------------------------------------------------------------------------------
(* What the rules mean, without any automaton.                               *)

Language(rule) == {p[1] : p \in Meaning(rule.regex)}

\* The words of each rule and their prefixes, up to MaxInput symbols.
Languages == [rules \in RuleSets |-> [i \in DOMAIN rules |-> Language(rules[i])]]
AllPrefixes == [rules \in RuleSets |-> UNION {Prefixes(w) : w \in UNION {Languages[rules][i] : i \in DOMAIN rules}}]

Matching(w) == {i \in DOMAIN ssft.rules : w \in Languages[ssft.rules][i]}
Viable(w) == w \in AllPrefixes[ssft.rules]

\* The first n symbols after a position.
Ahead(n, from) == SubSeq(text, from + 1, from + n)

\* How far one can read from a position without leaving all the rules.
Readable(from) == CHOOSE n \in 0 .. Len(text) - from :
    Viable(Ahead(n, from)) /\ (n = Len(text) - from \/ ~Viable(Ahead(n + 1, from)))
\* The rules where what extends a word of a rule is a word of a rule.
WithoutGaps == {rules \in RuleSets :
    LET words == UNION {Languages[rules][i] : i \in DOMAIN rules}
    IN  \A w \in AllPrefixes[rules] : (\E n \in 1 .. Len(w) : SubSeq(w, 1, n) \in words) => w \in words}
--------------------------------------------------------------------------------
(* Properties.                                                               *)

\* A token is as long as anything can be read, and of the first rule that has it.
\* If no rule has what could be read that far, it is an error, together with the
\* symbol that could not be read.  The lexer does not return to a shorter word
\* that it passed: only if the rules have no gaps does an error mean that nothing
\* matches there.
LongestMatchFirstRule ==
    \A i \in DOMAIN tokens :
        LET t == tokens[i]
            n == Readable(t.from)
            rules == Matching(Ahead(n, t.from))
        IN  /\ IF rules # {}
               THEN /\ t.until = t.from + n
                    /\ \E j \in rules : t.token = ssft.rules[j].token /\ \A k \in rules : j <= k
               ELSE /\ t.until = Least(t.from + n + 1, Len(text))
                    /\ Matching(<<>>) = {} => t.token = ErrorToken
            /\ t.token = ErrorToken /\ ssft.rules \in WithoutGaps =>
                  \A k \in 1 .. Len(text) - t.from : Matching(Ahead(k, t.from)) = {}
================================================================================
