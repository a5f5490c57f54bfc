----------------------------- MODULE MCTestRunner ------------------------------
(***************************************************************************)
(* TestRunner on small executables: one test case with every kind of body  *)
(* and of decorators, and three test cases with the options that select    *)
(* and order them, each written on the command line in several ways.       *)
(***************************************************************************)
EXTENDS TestRunner

a == 97
b == 98
z == 122
A == 65
B == 66

Sub(name, line, body) == [kind |-> "subcase", name |-> name, line |-> line, body |-> body]
Values(count) == [kind |-> "generate", count |-> count]
Assertion(level, bad) == [kind |-> "assert", level |-> level, bad |-> bad]
Check(bad) == Assertion("CHECK", bad)
Throws(bad) == [kind |-> "throw", bad |-> bad]
Crashes == [kind |-> "crash"]

SubA == Sub(<<A>>, 2, <<Values(2), Check({1}), Sub(<<a>>, 3, <<>>)>>)
Nested == <<Sub(<<A>>, 2, <<Sub(<<a>>, 3, <<>>), Sub(<<a, b>>, 4, <<Check({0})>>)>>),
            Sub(<<B>>, 5, <<Assertion("WARN", {0}), Check({}), Sub(<<a, B>>, 6, <<>>)>>)>>
Bodies == {
    Nested,
    <<Values(2), SubA, Check({1}), Sub(<<B>>, 5, <<>>), SubA>>,
    <<Values(2), Values(2), Check({1})>>,
    <<Sub(<<A>>, 2, <<Throws({0})>>), Sub(<<B>>, 5, <<Check({0})>>)>>,
    <<Values(2), Check({0}), Sub(<<A>>, 2, <<Sub(<<a>>, 3, <<Throws({0, 1})>>)>>)>>,
    <<Sub(<<A>>, 2, <<Check({0}), Sub(<<a>>, 3, <<Crashes>>)>>)>>,
    <<Sub(<<A>>, 2, <<Check({0}), Assertion("REQUIRE", {0}), Check({0})>>), Sub(<<B>>, 5, <<>>)>>,
    <<Sub(<<A>>, 2, <<>>), Values(3), Sub(<<B>>, 5, <<Check({1})>>), Values(2)>>,
    <<Sub(<<a>>, 2, <<Check({0})>>), Sub(<<b>>, 2, <<>>), Sub(<<a>>, 3, <<>>), Sub(<<>>, 4, <<Check({0})>>)>>,
    <<Check({}), Check({0}), Check({0}), Throws({0})>>,
    <<Values(2), Sub(<<A>>, 2, <<Throws({0}), Check({})>>)>>}

Plain == [name |-> <<a>>, suite |-> <<>>, file |-> <<a>>, line |-> 1, skip |-> FALSE, may_fail |-> FALSE,
          should_fail |-> FALSE, expected_failures |-> 0, timeout |-> FALSE, no_output |-> FALSE, body |-> <<>>]

\* Three test cases whose orders by file, by suite, by name and by place differ.
Three(middle) ==
    {[Plain EXCEPT !.file = <<b>>, !.suite = <<A>>, !.line = 1, !.name = <<b>>, !.body = <<Check({0})>>],
     [Plain EXCEPT !.file = <<a>>, !.suite = <<B>>, !.line = 5, !.name = <<a, b>>, !.skip = (middle = "skip"),
                   !.may_fail = (middle = "may_fail"), !.no_output = (middle = "no_output"),
                   !.body = <<Values(2), Check({0, 1})>>],
     [Plain EXCEPT !.file = <<a>>, !.suite = <<A>>, !.line = 7, !.name = <<A, Comma, Backslash>>,
                   !.body = <<Sub(<<A>>, 8, <<Check({})>>)>>]}

-----------------------------------------------------------------------------
Nothing == [filters |-> [f \in 0 .. 7 |-> {}], order |-> "file", first |-> 0, last |-> 0, abort_after |-> 0,
            levels |-> MaxInt, case_sensitive |-> FALSE, no_skip |-> FALSE, no_exitcode |-> FALSE,
            success |-> FALSE, reporters |-> {<<Star>>}, task |-> "run"]

\* A list of filters as it is written: commas and backslashes are escaped.
Escaped(word) == FlattenSeq([i \in DOMAIN word |->
                    IF word[i] \in {Comma, Backslash} THEN <<Backslash, word[i]>> ELSE <<word[i]>>])
Listed(words) == FlattenSeq([i \in DOMAIN words |-> Escaped(words[i]) \o <<Comma>>])

Styles == {"short", "long", "prefixed", "repeated"}

\* An option with a value.  The repeated style gives it other values too: an
\* earlier one, a later empty one and a later one with the prefix.
Option(style, long, short, text, other) ==
    LET Arg(prefixed, form, v) ==
            [dashes |-> IF style = "short" THEN 1 ELSE 2, prefixed |-> prefixed,
             name |-> IF style = "short" THEN short ELSE long, form |-> form, value |-> v]
    IN  IF style = "repeated"
        THEN <<Arg(FALSE, "value", other), Arg(FALSE, "value", text), Arg(FALSE, "empty", text),
               Arg(TRUE, "value", other)>>
        ELSE <<Arg(style = "prefixed", "value", text)>>

Flag(style, long, short) ==
    <<[dashes |-> 1, prefixed |-> style = "prefixed", name |-> IF style = "short" THEN short ELSE long,
       form |-> "flag", value |-> 0]>>
Switch(style, given, long, short) ==
    IF ~given THEN <<>> ELSE IF style \in {"long", "repeated"} THEN Option(style, long, short, "yes", "off")
    ELSE Flag(style, long, short)
Number(style, given, long, short) == IF given = 0 THEN <<>> ELSE Option(style, long, short, given, 9)

\* The long style splits a list: its first filter has the long name, the
\* others the short one.
Filter(style, words, long, short) ==
    LET list == SetToSeq(words)
    IN  IF words = {} THEN <<>>
        ELSE IF style = "long" /\ Len(list) > 1
        THEN Option("short", long, short, Listed(Tail(list)), <<>>) \o Option("long", long, short, Listed(<<list[1]>>), <<>>)
        ELSE Option(style, long, short, Listed(list), <<z>>)

Arguments(asked, style) ==
    FlattenSeq([f \in 1 .. 8 |-> Filter(style, asked.filters[f - 1], FilterNames[f][1], FilterNames[f][2])])
    \o Filter(style, asked.reporters, "reporters", "r")
    \o (IF asked.order = "file" THEN <<>> ELSE Option(style, "order-by", "ob", asked.order, "file"))
    \o Number(style, asked.first, "first", "f") \o Number(style, asked.last, "last", "l")
    \o Number(style, asked.abort_after, "abort-after", "aa")
    \o Number(style, IF asked.levels = MaxInt THEN 0 ELSE asked.levels, "subcase-filter-levels", "scfl")
    \o Switch(style, asked.case_sensitive, "case-sensitive", "cs") \o Switch(style, asked.no_skip, "no-skip", "ns")
    \o Switch(style, asked.no_exitcode, "no-exitcode", "ne") \o Switch(style, asked.success, "success", "s")
    \o Switch(style, asked.task = "no_run", "no-run", "nr")
    \o CASE asked.task = "count" -> Flag(style, "count", "c")
         [] asked.task = "cases" -> Flag(style, "list-test-cases", "ltc")
         [] asked.task = "suites" -> Flag(style, "list-test-suites", "lts")
         [] asked.task = "help" -> Flag(style, "help", "h")
         [] OTHER -> <<>>

Invoke(tests, asked, style) == [tests |-> tests, asked |-> asked, args |-> Arguments(asked, style)]

-----------------------------------------------------------------------------
With(field, values) == {[Nothing EXCEPT ![field] = v] : v \in values}
Filtering(f, sets) == {[Nothing EXCEPT !.filters[f] = s] : s \in sets}

Decorated ==
    {[Plain EXCEPT !.may_fail = may, !.should_fail = should, !.expected_failures = n, !.timeout = t, !.body = body] :
        may \in BOOLEAN, should \in BOOLEAN, n \in 0 .. 2, t \in BOOLEAN, body \in Bodies}
SingleTests ==
    {Invoke({t}, asked, "short") : t \in Decorated, asked \in With("abort_after", {0, 2})}
    \cup {Invoke({[Plain EXCEPT !.body = body]}, asked, "long") : body \in Bodies,
             asked \in With("abort_after", {1, 3}) \cup With("success", {TRUE}) \cup With("reporters", {{}})}

SubcaseFilters ==
    {[asked EXCEPT !.levels = n] : n \in {1, 2, MaxInt},
        asked \in Filtering(6, {{<<a>>}, {<<A>>, <<B>>}, {<<Star, b>>}})
                  \cup Filtering(7, {{<<a>>}, {<<A, Star>>}})}
Subcases == {Invoke({[Plain EXCEPT !.body = Nested]}, asked, "long") : asked \in SubcaseFilters}

Selections ==
    {[Nothing EXCEPT !.first = f, !.last = l, !.order = o] :
        f \in 0 .. 3, l \in 0 .. 3, o \in {"file", "suite", "name", "none"}}
    \cup With("order", {"rand"}) \cup With("no_skip", {TRUE}) \cup With("no_exitcode", {TRUE})
    \cup With("abort_after", {1, 2}) \cup With("task", {"count", "cases", "suites", "no_run", "help"})
    \cup Filtering(4, {{<<a>>, <<b>>}, {<<a, Star>>}, {<<Star, Comma, Query>>}, {<<Query>>, <<z>>}, {<<Star, b, Star, b>>}})
    \cup Filtering(5, {{<<a, Star>>}, {<<Query, Query>>}, {<<A, Comma, Backslash>>}})
    \cup Filtering(0, {{<<a>>}}) \cup Filtering(1, {{<<a>>}}) \cup Filtering(2, {{<<A>>}}) \cup Filtering(3, {{<<A>>}})
    \cup {[Nothing EXCEPT !.filters[4] = {<<a, Star>>}, !.case_sensitive = TRUE],
          [Nothing EXCEPT !.filters[2] = {<<a>>}, !.task = "cases"],
          [Nothing EXCEPT !.filters[3] = {<<b>>}, !.task = "suites", !.last = 1],
          [Nothing EXCEPT !.filters[4] = {<<a, Star>>}, !.first = 2, !.task = "count"]}
SeveralTests ==
    {Invoke(Three(middle), asked, style) : middle \in {"plain", "skip"}, asked \in Selections, style \in Styles}
    \cup {Invoke(Three(middle), asked, "short") :
            middle \in {"may_fail", "no_output"}, asked \in With("order", {"name", "suite"}) \cup With("abort_after", {1, 2})}

MCInvocations == SingleTests \cup Subcases \cup SeveralTests
================================================================================
