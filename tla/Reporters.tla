------------------------------- MODULE Reporters -------------------------------
(***************************************************************************)
(* What the three reporters of doctest.h keep, and what each writes, from  *)
(* the calls the runner makes to them: a call is a record with its name in *)
(* kind.  Of what they write, the model keeps what a reader takes from it: *)
(* the entries of the JUnit report with their failures and errors, the     *)
(* elements of the XML report that are open, and on the console the        *)
(* heading that every line stands under.                                   *)
(***************************************************************************)
EXTENDS Integers, Sequences, SequencesExt

-----------------------------------------------------------------------------
(* JUnitReporter *)

NewJUnit == [testcases |-> <<>>, names |-> <<>>, totalFailures |-> 0, totalErrors |-> 0,
             written |-> [testcases |-> <<>>, errors |-> 0, failures |-> 0, tests |-> 0]]

JUnitAdd(s, test) ==
    [s EXCEPT !.testcases = Append(@, [name |-> test.name, path |-> <<>>, failures |-> 0, errors |-> <<>>])]

\* A mistake the reporter could make: the names stay for the entries that follow.
JUnitCopyNames(s) ==
    [s EXCEPT !.testcases[Len(s.testcases)].path = @ \o SelectSeq(s.names, LAMBDA n : n # <<>>)]

\* The subcases that were entered go to the last entry, those without a name
\* left out.
JUnitAppendNames(s) ==
    [s EXCEPT !.testcases[Len(s.testcases)].path = @ \o SelectSeq(s.names, LAMBDA n : n # <<>>),
              !.names = <<>>]

JUnitAddFailure(s) ==
    [s EXCEPT !.testcases[Len(s.testcases)].failures = @ + 1, !.totalFailures = @ + 1]

JUnitAddError(s, message) ==
    [s EXCEPT !.testcases[Len(s.testcases)].errors = Append(@, message), !.totalErrors = @ + 1]

\* test_case_end: the errors of the whole test case, in this order.
JUnitVerdicts(flags) ==
    (IF "Timeout" \in flags THEN <<"timeout">> ELSE <<>>)
    \o (IF flags \cap {"ShouldHaveFailedButDidnt", "DidntFailExactlyNumTimes"} # {}
        THEN <<"should_fail">> ELSE <<>>)
    \o (IF "TooManyFailedAsserts" \in flags THEN <<"abort_after">> ELSE <<>>)

JUnit(s, call) ==
    CASE call.kind = "test_case_start" -> JUnitAdd(s, call.test)
      [] call.kind = "test_case_reenter" -> JUnitAdd(JUnitAppendNames(s), call.test)
      [] call.kind = "test_case_end" ->
            FoldLeft(JUnitAddError, JUnitAppendNames(s), JUnitVerdicts(call.flags))
      [] call.kind = "test_case_exception" -> JUnitAddError(s, "exception")
      [] call.kind = "subcase_start" -> [s EXCEPT !.names = Append(@, call.name)]
      [] call.kind = "log_assert" -> IF call.failed THEN JUnitAddFailure(s) ELSE s
      [] call.kind = "test_run_end" ->
            [s EXCEPT !.written = [testcases |-> s.testcases, errors |-> s.totalErrors,
                                   failures |-> s.totalFailures, tests |-> call.stats.asserts]]
      [] OTHER -> s

-----------------------------------------------------------------------------
(* XmlReporter, and the stack of open elements of its XmlWriter *)

NoTest == [suite |-> <<>>, started |-> FALSE]
NewXml == [tags |-> <<>>, tc |-> NoTest, closed |-> 0]

Element(tag, name) == [tag |-> tag, name |-> name]
startElement(s, tag, name) == [s EXCEPT !.tags = Append(@, Element(tag, name))]
endElement(s) == [s EXCEPT !.tags = Front(@), !.closed = @ + 1]

\* The element of the suite changes with the suite of the test case.
XmlStart(s, test) ==
    LET other == s.tc.started /\ s.tc.suite # test.suite
        closed == IF other THEN endElement(s) ELSE s
        suited == IF other \/ ~s.tc.started THEN startElement(closed, "TestSuite", test.suite) ELSE closed
    IN  startElement([suited EXCEPT !.tc = [suite |-> test.suite, started |-> TRUE]], "TestCase", test.name)

Xml(s, call) ==
    CASE call.kind = "test_run_start" -> startElement(s, "doctest", <<>>)
      [] call.kind = "report_query" -> endElement(startElement(s, "doctest", <<>>))
      [] call.kind = "test_case_start" -> XmlStart(s, call.test)
      [] call.kind = "test_case_skipped" -> endElement(XmlStart(s, call.test))
      [] call.kind = "test_case_end" -> endElement(s)
      [] call.kind = "subcase_start" -> startElement(s, "SubCase", call.name)
      [] call.kind = "subcase_end" -> endElement(s)
      [] call.kind = "test_run_end" -> endElement(IF s.tc.started THEN endElement(s) ELSE s)
      [] OTHER -> s

-----------------------------------------------------------------------------
(* ConsoleReporter *)

NewConsole == [stack |-> <<>>, level |-> 0, logged |-> FALSE, test |-> <<>>, quiet |-> FALSE,
               heading |-> <<>>, lines |-> <<>>, summary |-> <<>>]

\* The heading is written once for the lines that share it: the test case and
\* the subcases that are open.
logTestStart(s) ==
    IF s.logged THEN s
    ELSE [s EXCEPT !.heading = <<s.test, SubSeq(s.stack, 1, s.level)>>, !.logged = TRUE]

Write(s, what) == [s EXCEPT !.lines = Append(@, [what |-> what, under |-> s.heading])]

\* What test_case_end says of the flags beside the assertions that failed.
ConsoleVerdict(flags) ==
    LET said == SelectSeq(<<"ShouldHaveFailedButDidnt", "ShouldHaveFailedAndDid", "CouldHaveFailedAndDid",
                            "DidntFailExactlyNumTimes", "FailedExactlyNumTimes">>, LAMBDA f : f \in flags)
    IN  (IF "Timeout" \in flags THEN {"Timeout"} ELSE {})
        \cup (IF said # <<>> THEN {Head(said)} ELSE {})
        \cup (IF "TooManyFailedAsserts" \in flags THEN {"TooManyFailedAsserts"} ELSE {})

Console(s, call) ==
    CASE call.kind = "test_case_start" ->
            [s EXCEPT !.logged = FALSE, !.test = call.test.name, !.quiet = call.test.no_output,
                      !.stack = <<>>, !.level = 0]
      [] call.kind = "test_case_reenter" -> [s EXCEPT !.stack = <<>>]
      [] call.kind = "test_case_end" ->
            IF s.quiet \/ call.flags \subseteq {"AssertFailure"} THEN s
            ELSE IF ConsoleVerdict(call.flags) = {} THEN logTestStart(s)
            ELSE Write(logTestStart(s), ConsoleVerdict(call.flags))
      [] call.kind = "test_case_exception" ->
            IF s.quiet THEN s ELSE Write(logTestStart(s), {"exception"})
      [] call.kind = "subcase_start" ->
            [s EXCEPT !.stack = Append(@, call.name), !.level = @ + 1, !.logged = FALSE]
      [] call.kind = "subcase_end" -> [s EXCEPT !.level = @ - 1, !.logged = FALSE]
      [] call.kind = "log_assert" ->
            IF s.quiet \/ ~(call.failed \/ call.success) THEN s
            ELSE Write(logTestStart(s), {IF call.failed THEN "failed" ELSE "passed"})
      [] call.kind = "test_run_end" ->
            [s EXCEPT !.summary = <<call.stats.passing, call.stats.failedCases,
                                    call.stats.cases - call.stats.passing,
                                    call.stats.asserts, call.stats.failedAsserts>>]
      [] OTHER -> s

-----------------------------------------------------------------------------
NewReporters(used) ==
    [r \in used |-> CASE r = "junit" -> NewJUnit [] r = "xml" -> NewXml [] OTHER -> NewConsole]

Told(r, s, call) == CASE r = "junit" -> JUnit(s, call) [] r = "xml" -> Xml(s, call) [] OTHER -> Console(s, call)

\* DOCTEST_ITERATE_THROUGH_REPORTERS for a sequence of calls.
Notified(reporters, calls) ==
    [r \in DOMAIN reporters |->
        LET heard[n \in 0 .. Len(calls)] == IF n = 0 THEN reporters[r] ELSE Told(r, heard[n - 1], calls[n])
        IN  heard[Len(calls)]]
================================================================================
