------------------------------ MODULE CommandLine ------------------------------
(***************************************************************************)
(* The command line of the test executables (doctest.h): which argument    *)
(* sets an option, how a list of filters is taken apart, and how a filter  *)
(* is matched with a name.                                                 *)
(*                                                                         *)
(* A text is a sequence of ASCII codes.  An argument is [dashes, prefixed, *)
(* name, form, value]: "-tc=x" is one dash, no "dt-", the name "tc", the   *)
(* form "value" and the text x; the form of "-c" is "flag", and of "-tc="  *)
(* it is "empty".  The value of an integer option is the integer that      *)
(* atoi() makes of it.                                                     *)
(***************************************************************************)
EXTENDS Integers, Sequences, SequencesExt

Star == 42
Query == 63
Comma == 44
Backslash == 92

LowerCase(c) == IF c \in 65 .. 90 THEN c + 32 ELSE c

\* The scan goes from the last argument to the first, over empty values.
parseOptionImpl(args, prefixed, name, form) ==
    LET found == {i \in DOMAIN args : /\ args[i].dashes > 0
                                      /\ args[i].prefixed = prefixed
                                      /\ args[i].name = name
                                      /\ args[i].form = form}
    IN  IF found = {} THEN 0 ELSE Max(found)

\* The place of the argument that counts, 0 if there is none: one without the
\* prefix, wherever it is, comes before one with it.
parseOption(args, name, form) ==
    LET plain == parseOptionImpl(args, FALSE, name, form)
    IN  IF plain # 0 THEN plain ELSE parseOptionImpl(args, TRUE, name, form)

parseFlag(args, name) == parseOption(args, name, "flag") # 0

\* A comma ends a word, unless a backslash stands before it; a backslash
\* stands for itself before anything else.  Empty words are dropped.
Words(text) ==
    LET Flush(w) == IF w = <<>> THEN <<>> ELSE <<w>>
        Put(s, c) ==
            LET kept == IF s.backslash /\ c \notin {Comma, Backslash}
                        THEN Append(s.word, Backslash) ELSE s.word
            IN  IF s.backslash /\ c \in {Comma, Backslash}
                THEN [s EXCEPT !.word = Append(@, c), !.backslash = FALSE]
                ELSE IF c = Backslash THEN [s EXCEPT !.word = kept, !.backslash = TRUE]
                ELSE IF c = Comma
                THEN [words |-> s.words \o Flush(kept), word |-> <<>>, backslash |-> FALSE]
                ELSE [s EXCEPT !.word = Append(kept, c), !.backslash = FALSE]
        end == FoldLeft(Put, [words |-> <<>>, word |-> <<>>, backslash |-> FALSE], text)
    IN  end.words \o Flush(IF end.backslash THEN Append(end.word, Backslash) ELSE end.word)

parseCommaSepArgs(args, name) ==
    LET i == parseOption(args, name, "value")
    IN  IF i = 0 THEN <<>> ELSE Words(args[i].value)

\* An integer option that comes out as 0 counts as not given.
parseIntOption(args, name, short, default) ==
    LET Given(n) == LET i == parseOption(args, n, "value") IN IF i = 0 THEN 0 ELSE args[i].value
    IN  IF Given(name) # 0 THEN Given(name) ELSE IF Given(short) # 0 THEN Given(short) ELSE default

\* A bool option is a word that means yes or no, or else a flag.
parseBoolOption(args, name, short) ==
    LET Given(n) == LET i == parseOption(args, n, "value") IN IF i = 0 THEN "" ELSE args[i].value
        Positive == {"1", "true", "on", "yes"}
        Negative == {"0", "false", "off", "no"}
    IN  IF Given(name) \in Positive \cup Negative THEN Given(name) \in Positive
        ELSE IF Given(short) \in Positive \cup Negative THEN Given(short) \in Positive
        ELSE parseFlag(args, name) \/ parseFlag(args, short)

\* The option that was given last under its long name, else under its short
\* one: the value of an option that is a word.
parseWordOption(args, name, short, default) ==
    LET i == parseOption(args, name, "value")
        j == parseOption(args, short, "value")
    IN  IF i # 0 THEN args[i].value ELSE IF j # 0 THEN args[j].value ELSE default

\* The filters by their place in Context::filters.
FilterNames == <<<<"source-file", "sf">>, <<"source-file-exclude", "sfe">>,
                 <<"test-suite", "ts">>, <<"test-suite-exclude", "tse">>,
                 <<"test-case", "tc">>, <<"test-case-exclude", "tce">>,
                 <<"subcase", "sc">>, <<"subcase-exclude", "sce">>, <<"reporters", "r">>>>

\* Context::parseArgs() with defaults.  MaxUnsigned is UINT_MAX, the default
\* of last; MaxInt is INT_MAX, that of subcase_filter_levels.
parseArgs(args, MaxUnsigned, MaxInt) ==
    [filters |-> [f \in 0 .. 8 |-> parseCommaSepArgs(args, FilterNames[f + 1][1])
                                   \o parseCommaSepArgs(args, FilterNames[f + 1][2])],
     order_by |-> parseWordOption(args, "order-by", "ob", "file"),
     first |-> parseIntOption(args, "first", "f", 0),
     last |-> parseIntOption(args, "last", "l", MaxUnsigned),
     abort_after |-> parseIntOption(args, "abort-after", "aa", 0),
     subcase_filter_levels |-> parseIntOption(args, "subcase-filter-levels", "scfl", MaxInt),
     success |-> parseBoolOption(args, "success", "s"),
     case_sensitive |-> parseBoolOption(args, "case-sensitive", "cs"),
     no_exitcode |-> parseBoolOption(args, "no-exitcode", "ne"),
     no_run |-> parseBoolOption(args, "no-run", "nr"),
     no_skip |-> parseBoolOption(args, "no-skip", "ns"),
     help |-> \/ \E n \in {"help", "h", "?", "version", "v"} : parseFlag(args, n)
              \/ \E n \in {"list-reporters", "lr"} : parseFlag(args, n),
     count |-> parseFlag(args, "count") \/ parseFlag(args, "c"),
     list_test_cases |-> parseFlag(args, "list-test-cases") \/ parseFlag(args, "ltc"),
     list_test_suites |-> parseFlag(args, "list-test-suites") \/ parseFlag(args, "lts")]

\* wildcmp(): up to the first star the texts go side by side; behind it, a
\* mismatch goes back to the last star and lets it stand for one more letter.
wildcmp(str, wild, caseSensitive) ==
    LET Fold(c) == IF caseSensitive THEN c ELSE LowerCase(c)
        Same(s, w) == w <= Len(wild) /\ (Fold(wild[w]) = Fold(str[s]) \/ wild[w] = Query)
        IsStar(w) == w <= Len(wild) /\ wild[w] = Star
        strs == 1 .. Len(str) + 1
        wilds == 1 .. Len(wild) + 1
        Behind[s \in strs, w \in wilds, mp \in wilds, cp \in 1 .. Len(str) + 2] ==
            IF s > Len(str) THEN \A i \in w .. Len(wild) : wild[i] = Star
            ELSE IF IsStar(w) THEN w = Len(wild) \/ Behind[s, w + 1, w + 1, s + 1]
            ELSE IF Same(s, w) THEN Behind[s + 1, w + 1, mp, cp]
            ELSE Behind[cp, mp, mp, cp + 1]
        Before[s \in strs, w \in wilds] ==
            IF s > Len(str) \/ IsStar(w) THEN Behind[s, w, w, s]
            ELSE Same(s, w) /\ Before[s + 1, w + 1]
    IN  Before[1, 1]

matchesAny(name, filters, matchEmpty, caseSensitive) ==
    \/ filters = <<>> /\ matchEmpty
    \/ \E i \in DOMAIN filters : wildcmp(name, filters[i], caseSensitive)
================================================================================
