------------------------------ MODULE TestRunner -------------------------------
(***************************************************************************)
(* The runner of the test executables (doctest.h, Context::run()): it      *)
(* reads the command line, orders and selects the test cases, and runs     *)
(* each of them once for every path through its subcases and generated     *)
(* values, while assertions fail, exceptions are thrown and the program    *)
(* crashes.  A step is one statement of a test case or one step of run().  *)
(*                                                                         *)
(* A test case is [name, suite, file, line, skip, may_fail, should_fail,   *)
(* expected_failures, timeout, no_output, body].  A statement of a body is *)
(* a subcase with its own body, a generator with a number of values, an    *)
(* assertion or an exception with the generated values for which it fails  *)
(* or is thrown, or a signal that ends the program.                        *)
(***************************************************************************)
EXTENDS CommandLine, Reporters, Traversal, FiniteSets

CONSTANTS
    Invocations,    \* [tests, args, asked]: an executable, its command line, and what it stands for
    MaxRuns,        \* bound on the runs of a test case
    MaxUnsigned,    \* UINT_MAX
    MaxInt          \* INT_MAX

\* In asked, the task and the numbers a verdict depends on are those that the
\* command line gives; of the other options the properties tell it.
ASSUME InvocationsAssumption ==
    \A i \in Invocations :
        LET options == parseArgs(i.args, MaxUnsigned, MaxInt)
        IN  /\ options.abort_after = i.asked.abort_after
            /\ options.no_exitcode = i.asked.no_exitcode
            /\ i.asked.task = "run" =>
                  ~(options.no_run \/ options.help \/ options.count
                    \/ options.list_test_cases \/ options.list_test_suites)

VARIABLES
    invocation,
    p,              \* the options, as parsed
    phase,          \* "start", "select", "body", "report", "ended" or "killed"
    testArray,      \* the test cases in the order they are taken in
    at,             \* how many of them have been taken
    stats,          \* TestRunStats
    current,        \* of the test case that runs: its flags and its counts
    traversal,
    scopes,         \* the statements left in the body and in the open subcases
    value,          \* the value that was generated last
    thrown,         \* "nothing", "failure" (TestFailureException) or "exception"
    shouldLog,      \* shouldLogCurrentException
    queried,        \* the test cases or suites that a query lists
    reporters,
    log             \* what happened: the test cases that were started, and their runs

vars == <<invocation, p, phase, testArray, at, stats, current, traversal, scopes, value, thrown,
          shouldLog, queried, reporters, log>>
running == <<current, traversal, scopes, value, thrown, shouldLog>>

NewStats == [cases |-> 0, passing |-> 0, suites |-> 0, failedCases |-> 0, asserts |-> 0, failedAsserts |-> 0]
NewCurrent == [flags |-> {}, asserts |-> 0, failed |-> 0]

Notify(calls) == reporters' = Notified(reporters, calls)

-----------------------------------------------------------------------------
(* The order of the test cases *)

\* strcmp()
TextLess(s, t) ==
    \E n \in 0 .. Len(t) - 1 :
        /\ n <= Len(s) /\ SubSeq(s, 1, n) = SubSeq(t, 1, n)
        /\ n < Len(s) => s[n + 1] < t[n + 1]
Less(s, t, otherwise) == TextLess(s, t) \/ (s = t /\ otherwise)

fileOrderComparator(a, b) == Less(a.file, b.file, a.line < b.line)
suiteOrderComparator(a, b) == Less(a.suite, b.suite, fileOrderComparator(a, b))
nameOrderComparator(a, b) == Less(a.name, b.name, suiteOrderComparator(a, b))

\* The order of the set of registered test cases (TestCase::operator<).
Registered(a, b) == a.line < b.line \/ (a.line = b.line /\ Less(a.name, b.name, TextLess(a.file, b.file)))

\* The random order is any permutation: which one depends on rand().
Orders(tests, order_by) ==
    LET registered == SetToSortSeq(tests, Registered)
    IN  CASE order_by = "file" -> {SetToSortSeq(tests, fileOrderComparator)}
          [] order_by = "suite" -> {SetToSortSeq(tests, suiteOrderComparator)}
          [] order_by = "name" -> {SetToSortSeq(tests, nameOrderComparator)}
          [] order_by = "rand" -> SetToSeqs(tests)
          [] OTHER -> {registered}

-----------------------------------------------------------------------------
(* Context::run() up to its loop *)

Init ==
    /\ invocation \in Invocations
    /\ p = parseArgs(invocation.args, MaxUnsigned, MaxInt)
    /\ phase = "start" /\ testArray = <<>> /\ at = 0 /\ stats = NewStats /\ current = NewCurrent
    /\ traversal = NewTraversal /\ scopes = <<>> /\ value = 0 /\ thrown = "nothing" /\ shouldLog = TRUE
    /\ queried = <<>> /\ reporters = NewReporters({}) /\ log = <<>>

QueryMode == p.count \/ p.list_test_cases \/ p.list_test_suites

ReporterNames == [console |-> <<99, 111>>, junit |-> <<106, 117>>, xml |-> <<120, 109>>]
Used ==
    LET filters == IF p.filters[8] = <<>> THEN <<ReporterNames.console>> ELSE p.filters[8]
    IN  {r \in DOMAIN ReporterNames : matchesAny(ReporterNames[r], filters, FALSE, p.case_sensitive)}

Start ==
    /\ phase = "start"
    /\ LET fresh == NewReporters(Used)
       IN  IF p.no_run \/ p.help
           THEN /\ reporters' = Notified(fresh, <<[kind |-> "report_query"]>>)
                /\ phase' = "ended"
                /\ UNCHANGED <<testArray, stats>>
           ELSE /\ testArray' \in Orders(invocation.tests, p.order_by)
                /\ stats' = [NewStats EXCEPT !.cases = Cardinality(invocation.tests)]
                /\ reporters' = IF QueryMode THEN fresh ELSE Notified(fresh, <<[kind |-> "test_run_start"]>>)
                /\ phase' = "select"
    /\ UNCHANGED <<invocation, p, at, queried, running, log>>

-----------------------------------------------------------------------------
(* One test case of the loop *)

Test == testArray[at]
Upcoming == testArray[at + 1]

Filtered(test) ==
    LET Out(f, name) == ~matchesAny(name, p.filters[f], TRUE, p.case_sensitive)
        In(f, name) == matchesAny(name, p.filters[f], FALSE, p.case_sensitive)
    IN  \/ test.skip /\ ~p.no_skip
        \/ Out(0, test.file) \/ In(1, test.file)
        \/ Out(2, test.suite) \/ In(3, test.suite)
        \/ Out(4, test.name) \/ In(5, test.name)

\* The test cases that passed the filters, this one included if it does.
Passing == stats.passing + (IF Filtered(Upcoming) THEN 0 ELSE 1)
\* A mistake run() could make: a range that ends before it begins is taken as it
\* is.
OutOfPlainRange == p.last < Passing \/ p.first > Passing
OutOfRange == (p.last < Passing /\ p.first <= p.last) \/ p.first > Passing

Taken == at' = at + 1 /\ stats' = [stats EXCEPT !.passing = Passing]

Skip ==
    /\ phase = "select" /\ at < Len(testArray)
    /\ Filtered(Upcoming) \/ OutOfRange
    /\ Taken
    /\ IF QueryMode THEN UNCHANGED reporters
       ELSE Notify(<<[kind |-> "test_case_skipped", test |-> Upcoming]>>)
    /\ UNCHANGED <<invocation, p, phase, testArray, queried, running, log>>

\* A query counts the test case, or lists it, or lists its suite if it has one
\* that is not listed yet.
Count ==
    /\ phase = "select" /\ at < Len(testArray) /\ QueryMode
    /\ ~Filtered(Upcoming) /\ ~OutOfRange
    /\ LET lists == ~p.count /\ p.list_test_cases
           suite == /\ ~p.count /\ ~p.list_test_cases /\ Upcoming.suite # <<>>
                    /\ \A i \in DOMAIN queried : queried[i].suite # Upcoming.suite
       IN  /\ queried' = IF lists \/ suite THEN Append(queried, Upcoming) ELSE queried
           /\ stats' = [stats EXCEPT !.passing = Passing, !.suites = IF suite THEN @ + 1 ELSE @]
    /\ at' = at + 1
    /\ UNCHANGED <<invocation, p, phase, testArray, running, reporters, log>>

\* The body from its beginning, with nothing thrown yet.
Begin(body, t) ==
    /\ traversal' = ResetForRun(t)
    /\ scopes' = <<[rest |-> body, name |-> <<>>]>>
    /\ value' = 0 /\ thrown' = "nothing" /\ shouldLog' = TRUE

\* A run in the log: the choices it made, the assertions that failed and the
\* open subcases under each, and how it ended.
NewRun == [events |-> <<>>, asserts |-> 0, failed |-> 0, under |-> <<>>, depth |-> 0, end |-> "open"]

StartTest ==
    /\ phase = "select" /\ at < Len(testArray) /\ ~QueryMode
    /\ ~Filtered(Upcoming) /\ ~OutOfRange
    /\ Taken
    /\ phase' = "body" /\ current' = NewCurrent
    /\ Begin(Upcoming.body, NewTraversal)
    /\ Notify(<<[kind |-> "test_case_start", test |-> Upcoming]>>)
    /\ log' = Append(log, [test |-> Upcoming, runs |-> <<NewRun>>, late |-> FALSE])
    /\ UNCHANGED <<invocation, p, testArray, queried>>

-----------------------------------------------------------------------------
(* The statements of a body *)

Top == Last(scopes)
Statement == Head(Top.rest)
Executing(kind) ==
    phase = "body" /\ thrown = "nothing" /\ Top.rest # <<>> /\ Statement.kind = kind
Proceeded == [scopes EXCEPT ![Len(scopes)].rest = Tail(@)]
Active == [i \in 1 .. Len(scopes) - 1 |-> scopes[i + 1].name]

Logged(field, entry) == [log EXCEPT ![Len(log)].runs[Len(log[Len(log)].runs)][field] = Append(@, entry)]

\* Subcase::checkFilters()
SubcaseFiltered(name) ==
    /\ traversal.active < p.subcase_filter_levels
    /\ \/ ~matchesAny(name, p.filters[6], TRUE, p.case_sensitive)
       \/ matchesAny(name, p.filters[7], FALSE, p.case_sensitive)

EnterSubcase ==
    /\ Executing("subcase")
    /\ LET tried == TryEnter(traversal, [name |-> Statement.name, line |-> Statement.line])
       IN  IF SubcaseFiltered(Statement.name)
           THEN scopes' = Proceeded /\ UNCHANGED <<traversal, reporters, log>>
           ELSE /\ traversal' = tried.traversal
                /\ IF tried.enter
                   THEN /\ scopes' = Append(Proceeded, [rest |-> Statement.body, name |-> Statement.name])
                        /\ Notify(<<[kind |-> "subcase_start", name |-> Statement.name]>>)
                        /\ log' = Logged("events", <<"enter", Statement.name, Statement.line>>)
                   ELSE scopes' = Proceeded /\ UNCHANGED <<reporters, log>>
    /\ UNCHANGED <<invocation, p, phase, testArray, at, stats, current, value, thrown, shouldLog, queried>>

Generate ==
    /\ Executing("generate")
    /\ LET acquired == Acquire(traversal, Statement.count)
       IN  /\ traversal' = acquired.traversal
           /\ value' = acquired.index
           /\ log' = Logged("events", <<"value", acquired.index>>)
    /\ scopes' = Proceeded
    /\ UNCHANGED <<invocation, p, phase, testArray, at, stats, current, thrown, shouldLog, queried, reporters>>

TooMany(failed) == p.abort_after > 0 /\ stats.failedAsserts + failed >= p.abort_after

\* ResultBuilder::log() and react(): a warning is reported and not counted; a
\* REQUIRE that fails ends the run, a CHECK only once too many have failed.
LogAssert ==
    /\ Executing("assert")
    /\ LET fails == value \in Statement.bad
           warns == Statement.level = "WARN"
           failed == current.failed + (IF fails /\ ~warns THEN 1 ELSE 0)
           throws == fails /\ (Statement.level = "REQUIRE" \/ (Statement.level = "CHECK" /\ TooMany(failed)))
           run == log[Len(log)].runs[Len(log[Len(log)].runs)]
       IN  /\ current' = [current EXCEPT !.asserts = IF warns THEN @ ELSE @ + 1, !.failed = failed]
           /\ Notify(<<[kind |-> "log_assert", failed |-> fails, success |-> p.success]>>)
           /\ thrown' = IF throws THEN "failure" ELSE thrown
           /\ shouldLog' = (shouldLog /\ ~throws)
           /\ log' = [log EXCEPT ![Len(log)].runs[Len(log[Len(log)].runs)] =
                        [run EXCEPT !.asserts = IF warns THEN @ ELSE @ + 1,
                                    !.failed = IF fails /\ ~warns THEN @ + 1 ELSE @,
                                    !.under = IF fails \/ p.success
                                              THEN Append(@, [failed |-> fails, path |-> Active]) ELSE @]]
    /\ scopes' = Proceeded
    /\ UNCHANGED <<invocation, p, phase, testArray, at, stats, traversal, value, queried>>

Throw ==
    /\ Executing("throw")
    /\ IF value \in Statement.bad
       THEN /\ thrown' = "exception"
            /\ log' = [log EXCEPT ![Len(log)].runs[Len(log[Len(log)].runs)].depth = Len(scopes) - 1]
       ELSE UNCHANGED <<thrown, log>>
    /\ scopes' = Proceeded
    /\ UNCHANGED <<invocation, p, phase, testArray, at, stats, current, traversal, value, shouldLog,
                   queried, reporters>>

\* The end of a subcase, or the way of an exception out of it: one that is not
\* a failed assertion is reported by the first subcase it leaves.
LeaveSubcase ==
    /\ phase = "body" /\ Len(scopes) > 1 /\ (Top.rest = <<>> \/ thrown # "nothing")
    /\ LET logs == thrown # "nothing" /\ shouldLog
       IN  /\ Notify((IF logs THEN <<[kind |-> "test_case_exception"]>> ELSE <<>>)
                     \o <<[kind |-> "subcase_end"]>>)
           /\ shouldLog' = (shouldLog /\ ~logs)
    /\ traversal' = Leave(traversal)
    /\ scopes' = Front(scopes)
    /\ UNCHANGED <<invocation, p, phase, testArray, at, stats, current, value, thrown, queried, log>>

-----------------------------------------------------------------------------
(* The end of a run and of a test case *)

\* finalizeTestCaseData(): the flags of a test case that ends with these flags
\* and counts, and whether it counts as failed.
Finalized(test, flags, failed, late) ==
    LET found == flags \cup (IF failed > 0 THEN {"AssertFailure"} ELSE {})
                       \cup (IF test.timeout /\ late THEN {"Timeout"} ELSE {})
    IN  found \cup
        IF test.should_fail
        THEN {IF found # {} THEN "ShouldHaveFailedAndDid" ELSE "ShouldHaveFailedButDidnt"}
        ELSE IF found # {} /\ test.may_fail THEN {"CouldHaveFailedAndDid"}
        ELSE IF test.expected_failures > 0
        THEN {IF failed = test.expected_failures THEN "FailedExactlyNumTimes" ELSE "DidntFailExactlyNumTimes"}
        ELSE {}

Success(flags) ==
    \/ flags = {}
    \/ flags \cap {"ShouldHaveFailedAndDid", "CouldHaveFailedAndDid", "FailedExactlyNumTimes"} # {}

Added(flags) ==
    [stats EXCEPT !.asserts = @ + current.asserts, !.failedAsserts = @ + current.failed,
                  !.failedCases = IF Success(flags) THEN @ ELSE @ + 1]

EndCall(flags) == [kind |-> "test_case_end", flags |-> flags]

RunOver == phase = "body" /\ Len(scopes) = 1 /\ (Top.rest = <<>> \/ thrown # "nothing")

\* A mistake run() could make: the flags are set and not added to.
FlagsOfTheLastRun ==
    (CASE thrown = "failure" -> {"AssertFailure"} [] thrown = "exception" -> {"Exception"} [] OTHER -> {})
    \cup (IF TooMany(current.failed) THEN {"TooManyFailedAsserts"} ELSE {})

\* What the handlers around the test function make of the exception.
RunFlags ==
    current.flags
    \cup (CASE thrown = "failure" -> {"AssertFailure"} [] thrown = "exception" -> {"Exception"} [] OTHER -> {})
    \cup (IF TooMany(current.failed) THEN {"TooManyFailedAsserts"} ELSE {})
RunCalls == IF thrown = "exception" THEN <<[kind |-> "test_case_exception"]>> ELSE <<>>

Ended(end) == [log EXCEPT ![Len(log)].runs[Len(log[Len(log)].runs)].end = end]
HowItEnded == IF thrown = "nothing" THEN "returned" ELSE thrown

\* There is another path: the body is run again.
Reenter ==
    /\ RunOver /\ ~TooMany(current.failed) /\ CanAdvance(traversal) # {}
    /\ Len(log[Len(log)].runs) < MaxRuns
    /\ current' = [current EXCEPT !.flags = RunFlags]
    /\ Begin(Test.body, Advanced(traversal))
    /\ Notify(RunCalls \o <<[kind |-> "test_case_reenter", test |-> Test]>>)
    /\ log' = [Ended(HowItEnded) EXCEPT ![Len(log)].runs = Append(@, NewRun)]
    /\ UNCHANGED <<invocation, p, phase, testArray, at, stats, queried>>

\* The time a test case took is only known to be over its limit or not.
EndTest ==
    /\ RunOver /\ (TooMany(current.failed) \/ CanAdvance(traversal) = {})
    /\ \E late \in (IF Test.timeout THEN BOOLEAN ELSE {FALSE}) :
          LET flags == Finalized(Test, RunFlags, current.failed, late)
          IN  /\ stats' = Added(flags)
              /\ current' = [current EXCEPT !.flags = flags]
              /\ Notify(RunCalls \o <<EndCall(flags)>>)
              /\ log' = [Ended(HowItEnded) EXCEPT ![Len(log)].late = late]
    /\ scopes' = <<>>
    /\ phase' = IF TooMany(current.failed) THEN "report" ELSE "select"
    /\ UNCHANGED <<invocation, p, testArray, at, traversal, value, thrown, shouldLog, queried>>

\* handleSignal() and reportFatal(): the report is closed from within the
\* handler, and the signal then ends the process.
Crash ==
    /\ Executing("crash")
    /\ \E late \in (IF Test.timeout THEN BOOLEAN ELSE {FALSE}) :
          LET flags == Finalized(Test, current.flags \cup {"Crash"}, current.failed, late)
          IN  /\ stats' = Added(flags)
              /\ current' = [current EXCEPT !.flags = flags]
              /\ Notify(<<[kind |-> "test_case_exception"]>>
                        \o [i \in 1 .. traversal.active |-> [kind |-> "subcase_end"]]
                        \o <<EndCall(flags), [kind |-> "test_run_end", stats |-> stats']>>)
              /\ log' = [Ended("crash") EXCEPT ![Len(log)].late = late]
    /\ traversal' = [traversal EXCEPT !.active = 0, !.entered = <<>>,
                                      !.depth = IF traversal.active > 0 THEN Head(traversal.entered) ELSE @]
    /\ phase' = "killed"
    /\ UNCHANGED <<invocation, p, testArray, at, scopes, value, thrown, shouldLog, queried>>

Report ==
    /\ phase = "report" \/ (phase = "select" /\ at = Len(testArray))
    /\ Notify(<<IF QueryMode THEN [kind |-> "report_query"] ELSE [kind |-> "test_run_end", stats |-> stats]>>)
    /\ phase' = "ended"
    /\ UNCHANGED <<invocation, p, testArray, at, stats, queried, running, log>>

\* What main() returns.
ExitFailure == stats.failedCases > 0 /\ ~p.no_exitcode

Next ==
    \/ Start \/ Skip \/ Count \/ StartTest
    \/ EnterSubcase \/ Generate \/ LogAssert \/ Throw \/ LeaveSubcase
    \/ Reenter \/ EndTest \/ Crash \/ Report

Spec == Init /\ [][Next]_vars /\ WF_vars(Next)
-----------------------------------------------------------------------------
(* What the runner promises *)

\* What a filter means: a star stands for any text, a question mark for one
\* letter.
Glob(text, wild, fold) ==
    LET meets[i \in 1 .. Len(text) + 1, j \in 1 .. Len(wild) + 1] ==
            IF j > Len(wild) THEN i > Len(text)
            ELSE IF wild[j] = Star THEN \E n \in i .. Len(text) + 1 : meets[n, j + 1]
            ELSE /\ i <= Len(text)
                 /\ \/ wild[j] \in {Query, text[i]}
                    \/ fold /\ LowerCase(wild[j]) = LowerCase(text[i])
                 /\ meets[i + 1, j + 1]
    IN  meets[1, 1]

\* invocation.asked says what the command line stands for: the sets of
\* filters, the order, the range (last is 0 for no end), how many failures end
\* the run (0 for none), how many levels of subcases are filtered, and what
\* is to be done.
Asked == invocation.asked
Meets(name, include, exclude) ==
    LET Some(f) == \E w \in Asked.filters[f] : Glob(name, w, ~Asked.case_sensitive)
    IN  (Asked.filters[include] = {} \/ Some(include)) /\ ~Some(exclude)
Wanted(test) ==
    /\ ~test.skip \/ Asked.no_skip
    /\ Meets(test.file, 0, 1) /\ Meets(test.suite, 2, 3) /\ Meets(test.name, 4, 5)

Key(test) ==
    CASE Asked.order = "file" -> <<test.file, <<test.line>>>>
      [] Asked.order = "suite" -> <<test.suite, test.file, <<test.line>>>>
      [] Asked.order = "name" -> <<test.name, test.suite, test.file, <<test.line>>>>
      [] Asked.order = "rand" -> <<>>
      [] OTHER -> <<<<test.line>>, test.name, test.file>>
KeyLess(a, b) ==
    \E n \in DOMAIN a : TextLess(a[n], b[n]) /\ \A i \in 1 .. n - 1 : a[i] = b[i]

\* The test cases in the range of the ones that are wanted.
Chosen ==
    LET wanted == SelectSeq(testArray, Wanted)
        last == IF Asked.last = 0 \/ Asked.last < Asked.first THEN Len(wanted) ELSE Min({Asked.last, Len(wanted)})
    IN  SubSeq(wanted, Max({Asked.first, 1}), last)

\* The sum of a sequence of numbers.
Total(numbers) ==
    LET upTo[i \in 0 .. Len(numbers)] == IF i = 0 THEN 0 ELSE upTo[i - 1] + numbers[i]
    IN  upTo[Len(numbers)]

Failures(n) == Total([i \in DOMAIN log[n].runs |-> log[n].runs[i].failed])
Asserts(n) == Total([i \in DOMAIN log[n].runs |-> log[n].runs[i].asserts])
FailuresUpTo(n) == Total([m \in 1 .. n |-> Failures(m)])
Reached(n) == Asked.abort_after > 0 /\ FailuresUpTo(n) >= Asked.abort_after
Running == Asked.task = "run"
Over == phase \in {"ended", "killed"}

\* The command line does what it stands for: the test cases that are run are
\* the wanted ones of the range, in the order that was asked for, up to the
\* one in which too many assertions have failed, and not one assertion fails
\* after that; a query counts or lists the same test cases and runs none.
RunsWhatWasAsked ==
    LET started == [i \in DOMAIN log |-> log[i].test]
        suites == {Chosen[i].suite : i \in DOMAIN Chosen} \ {<<>>}
    IN  /\ \A i, j \in DOMAIN testArray : i < j => ~KeyLess(Key(testArray[j]), Key(testArray[i]))
        /\ IF Running THEN IsPrefix(started, Chosen) ELSE log = <<>>
        /\ \A n \in 1 .. Len(log) - 1 : ~Reached(n)
        /\ Asked.abort_after > 0 => FailuresUpTo(Len(log)) <= Asked.abort_after
        /\ phase = "ended" /\ Running => started = Chosen \/ Reached(Len(log))
        /\ phase = "ended" /\ Asked.task \in {"count", "cases", "suites"} =>
              stats.passing = Len(SelectSeq(testArray, Wanted))
        /\ phase = "ended" /\ Asked.task = "cases" => queried = Chosen
        /\ phase = "ended" /\ Asked.task = "suites" =>
              /\ {queried[i].suite : i \in DOMAIN queried} = suites
              /\ Len(queried) = Cardinality(suites) /\ stats.suites = Cardinality(suites)

\* The paths through a body in the order of the source, the generators first:
\* one sibling is chosen at each level, and entered whenever it is met.
Cat(A, B) == FlattenSeq([i \in DOMAIN A |-> [j \in DOMAIN B |-> A[i] \o B[j]]])
\* The body of the subcase at a place: the way to it through the statements.
Within(body, place) == FoldLeft(LAMBDA b, i : b[i].body, body, place)

Paths(body) ==
    LET paths[place \in Seq(Nat)] ==
            LET here == Within(body, place)
                level == Len(place)
                generators == SelectSeq(here, LAMBDA s : s.kind = "generate")
                values == FoldLeft(LAMBDA A, g : Cat(A, [v \in 1 .. g.count |-> <<<<"value", v - 1>>>>]), <<<<>>>>, generators)
                subcases == {i \in DOMAIN here : here[i].kind = "subcase" /\ (level >= Asked.levels \/ Meets(here[i].name, 6, 7))}
                Same(i) == {j \in subcases : here[j].name = here[i].name /\ here[j].line = here[i].line}
                chosen == SetToSortSeq({i \in subcases : i = Min(Same(i))}, <)
                Through(i) ==
                    LET inner == paths[Append(place, i)]
                    IN  [k \in DOMAIN inner |->
                            FlattenSeq([n \in 1 .. Cardinality(Same(i)) |->
                                            <<<<"enter", here[i].name, here[i].line>>>> \o inner[k]])]
            IN  Cat(values, IF chosen = <<>> THEN <<<<>>>>
                            ELSE FlattenSeq([n \in DOMAIN chosen |-> Through(chosen[n])]))
    IN  paths[<<>>]

\* A generator behind a subcase of its own level shares the decision point of
\* the subcase: what the runs then are is not fixed here.
Separate(body) ==
    LET separate[place \in Seq(Nat)] ==
            LET here == Within(body, place)
            IN  \A i \in DOMAIN here : here[i].kind = "subcase" =>
                    /\ \A j \in i + 1 .. Len(here) : here[j].kind # "generate"
                    /\ separate[Append(place, i)]
    IN  separate[<<>>]

\* A test case is run once for every path through its subcases and generated
\* values, in the order of the source, and for all of them unless an exception
\* ends a run or too many assertions fail; no path is ever run twice.
EveryPathOnce ==
    \A n \in DOMAIN log : Separate(log[n].test.body) =>
        LET runs == log[n].runs
            paths == Paths(log[n].test.body)
            closed == {i \in DOMAIN runs : runs[i].end # "open"}
            returned == \A i \in closed : runs[i].end = "returned"
        IN  /\ \A i, j \in closed : i # j => ~IsPrefix(runs[i].events, runs[j].events)
            /\ returned => \A i \in DOMAIN runs : i <= Len(paths) /\ IsPrefix(runs[i].events, paths[i])
            /\ returned => \A i \in closed : runs[i].events = paths[i]
            /\ returned /\ closed = DOMAIN runs /\ ~Reached(n) => Len(runs) = Len(paths)

Thrown(n, how) == \E i \in DOMAIN log[n].runs : log[n].runs[i].end = how
Troubled(n) ==
    Failures(n) > 0 \/ log[n].late \/ Reached(n) \/ \E how \in {"failure", "exception", "crash"} : Thrown(n, how)
Expects(n) == log[n].test.expected_failures > 0 /\ ~(Troubled(n) /\ log[n].test.may_fail)
Passed(n) ==
    LET test == log[n].test
    IN  IF test.should_fail THEN Troubled(n)
        ELSE IF Expects(n) THEN Failures(n) = test.expected_failures
        ELSE Troubled(n) => test.may_fail

\* The verdict of every test case is the one its decorators give to what
\* happened in all of its runs, whatever happened in other test cases; the
\* summary adds them up, also when a signal ends the program, and the exit
\* status tells whether one has failed.
VerdictsAreKept ==
    Over /\ Running =>
        LET bad == {n \in DOMAIN log : ~Passed(n)}
            asserts == Total([n \in DOMAIN log |-> Asserts(n)])
        IN  /\ stats.failedCases = Cardinality(bad)
            /\ stats.failedAsserts = FailuresUpTo(Len(log)) /\ stats.asserts = asserts
            /\ ExitFailure <=> bad # {} /\ ~Asked.no_exitcode
            /\ "console" \in DOMAIN reporters =>
                  SubSeq(reporters.console.summary, 1, 3)
                    = <<stats.passing, Cardinality(bad), Cardinality(invocation.tests) - stats.passing>>

\* The errors that belong to a run, and to the last run of a test case.
RunErrors(run) ==
    CASE run.end = "exception" -> IF run.depth > 0 THEN <<"exception", "exception">> ELSE <<"exception">>
      [] run.end = "crash" -> <<"exception">>
      [] OTHER -> <<>>
TestErrors(n) ==
    LET unmet == IF log[n].test.should_fail THEN ~Troubled(n)
                 ELSE Expects(n) /\ Failures(n) # log[n].test.expected_failures
    IN  (IF log[n].late THEN <<"timeout">> ELSE <<>>)
        \o (IF unmet THEN <<"should_fail">> ELSE <<>>)
        \o (IF Reached(n) /\ ~Thrown(n, "crash") THEN <<"abort_after">> ELSE <<>>)
Entry(n, i) ==
    LET run == log[n].runs[i]
        entered == SelectSeq(run.events, LAMBDA e : e[1] = "enter" /\ e[2] # <<>>)
    IN  [name |-> log[n].test.name,
         path |-> [k \in DOMAIN entered |-> entered[k][2]],
         failures |-> Len(SelectSeq(run.under, LAMBDA a : a.failed)),
         errors |-> RunErrors(run) \o (IF i = Len(log[n].runs) THEN TestErrors(n) ELSE <<>>)]

\* The elements that are open while a body runs, and between two test cases.
OpenTags ==
    <<Element("doctest", <<>>), Element("TestSuite", Test.suite), Element("TestCase", Test.name)>>
    \o [i \in DOMAIN Active |-> Element("SubCase", Active[i])]

\* The reporters tell what happened.  JUnit has an entry for every run, with
\* the subcases it entered, the assertions that failed in it and its errors,
\* those of the whole test case with the last; the elements of the XML report
\* are open exactly while what they stand for goes on, and all are closed at
\* the end, also when a signal ends the program; every assertion the console
\* shows stands under its test case and the subcases it was made in, unless a
\* generator shares a decision point with a subcase: then a run can enter two
\* siblings, and the heading names the first of them.
ReportsAgree ==
    /\ Over /\ Running /\ "junit" \in DOMAIN reporters =>
          LET entries == FlattenSeq([n \in DOMAIN log |-> [i \in DOMAIN log[n].runs |-> Entry(n, i)]])
          IN  reporters.junit.written =
                 [testcases |-> entries, tests |-> stats.asserts,
                  errors |-> Total([i \in DOMAIN entries |-> Len(entries[i].errors)]),
                  failures |-> Total([i \in DOMAIN entries |-> entries[i].failures])]
    /\ "xml" \in DOMAIN reporters =>
          CASE phase = "body" -> reporters.xml.tags = OpenTags
            [] phase = "select" /\ Running ->
                  reporters.xml.tags = SubSeq(<<Element("doctest", <<>>), Element("TestSuite", IF at = 0 THEN <<>> ELSE Test.suite)>>,
                                              1, IF at = 0 THEN 1 ELSE 2)
            [] Over -> reporters.xml.tags = <<>>
            [] OTHER -> TRUE
    /\ "console" \in DOMAIN reporters /\ (\A n \in DOMAIN log : Separate(log[n].test.body)) =>
          LET shown == SelectSeq(reporters.console.lines, LAMBDA l : l.what \subseteq {"failed", "passed"})
              made == FlattenSeq([n \in DOMAIN log |->
                          IF log[n].test.no_output THEN <<>>
                          ELSE FlattenSeq([i \in DOMAIN log[n].runs |->
                                  [k \in DOMAIN log[n].runs[i].under |->
                                      [what |-> {IF log[n].runs[i].under[k].failed THEN "failed" ELSE "passed"},
                                       under |-> <<log[n].test.name, log[n].runs[i].under[k].path>>]]])])
          IN  shown = made

\* However often a test case is run again, the program comes to an end.
RunEnds == <>Over
================================================================================
