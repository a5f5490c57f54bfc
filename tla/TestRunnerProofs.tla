---------------------------- MODULE TestRunnerProofs ----------------------------
(***************************************************************************)
(* The verdicts of the test runner are kept, for any executables, command  *)
(* lines and bodies.                                                       *)
(***************************************************************************)
EXTENDS TestRunner, PoolLayoutProofs

--------------------------------------------------------------------------------
(* Lists and sums.                                                           *)

\* A sequence, whatever is in it.
IsList(s) == s \in Seq({s[i] : i \in DOMAIN s})

LEMMA ListIs ==
    ASSUME NEW S, NEW s \in Seq(S)
    PROVE  IsList(s)
<1> DEFINE T == {s[i] : i \in DOMAIN s}
<1>1. Len(s) \in Nat /\ DOMAIN s = 1 .. Len(s) /\ s \in [1 .. Len(s) -> S]
  BY LenProperties
<1>2. s \in [1 .. Len(s) -> T]
  BY <1>1
<1>3. s \in Seq(T)
  BY <1>1, <1>2, SeqDef
<1> QED BY <1>3 DEF IsList

LEMMA ListProperties ==
    ASSUME NEW s, IsList(s)
    PROVE  Len(s) \in Nat /\ DOMAIN s = 1 .. Len(s) /\ s = [i \in 1 .. Len(s) |-> s[i]]
BY LenProperties DEF IsList

LEMMA FunctionIsList ==
    ASSUME NEW n \in Nat, NEW s, DOMAIN s = 1 .. n, s = [i \in 1 .. n |-> s[i]]
    PROVE  IsList(s) /\ Len(s) = n
<1> DEFINE T == {s[i] : i \in DOMAIN s}
<1>1. s \in [1 .. n -> T]
  OBVIOUS
<1>2. s \in Seq(T)
  BY <1>1, SeqDef
<1>3. Len(s) \in Nat /\ DOMAIN s = 1 .. Len(s)
  BY <1>2, LenProperties
<1> QED BY <1>2, <1>3 DEF IsList

LEMMA AppendedList ==
    ASSUME NEW s, IsList(s), NEW e
    PROVE  /\ IsList(Append(s, e)) /\ Len(Append(s, e)) = Len(s) + 1
           /\ \A i \in 1 .. Len(s) : Append(s, e)[i] = s[i]
           /\ Append(s, e)[Len(s) + 1] = e
<1> DEFINE T == {s[i] : i \in DOMAIN s} \cup {e}
<1>1. Len(s) \in Nat /\ DOMAIN s = 1 .. Len(s) /\ s = [i \in 1 .. Len(s) |-> s[i]]
  BY ListProperties
<1>2. s \in [1 .. Len(s) -> T]
  BY <1>1
<1>3. s \in Seq(T) /\ e \in T
  BY <1>1, <1>2, SeqDef
<1> HIDE DEF T
<1>4. Append(s, e) \in Seq(T) /\ Len(Append(s, e)) = Len(s) + 1
      /\ (\A i \in 1 .. Len(s) : Append(s, e)[i] = s[i]) /\ Append(s, e)[Len(s) + 1] = e
  BY <1>3, AppendProperties
<1>5. IsList(Append(s, e))
  BY <1>4, ListIs
<1> QED BY <1>4, <1>5

LEMMA ChangedList ==
    ASSUME NEW s, IsList(s), NEW k \in DOMAIN s, NEW e
    PROVE  /\ IsList([s EXCEPT ![k] = e]) /\ Len([s EXCEPT ![k] = e]) = Len(s)
           /\ DOMAIN [s EXCEPT ![k] = e] = DOMAIN s
           /\ \A i \in DOMAIN s : [s EXCEPT ![k] = e][i] = IF i = k THEN e ELSE s[i]
<1> DEFINE t == [s EXCEPT ![k] = e]
<1>1. Len(s) \in Nat /\ DOMAIN s = 1 .. Len(s) /\ s = [i \in 1 .. Len(s) |-> s[i]]
  BY ListProperties
<1>2. DOMAIN t = 1 .. Len(s) /\ t = [i \in 1 .. Len(s) |-> t[i]]
      /\ \A i \in DOMAIN s : t[i] = IF i = k THEN e ELSE s[i]
  BY <1>1
<1> HIDE DEF t
<1>3. IsList(t) /\ Len(t) = Len(s)
  BY <1>1, <1>2, FunctionIsList
<1> QED BY <1>1, <1>2, <1>3 DEF t

\* The sums of the first i numbers, for every i.
AreSums(s, n, u) ==
    /\ DOMAIN u = 0 .. n
    /\ u[0] = 0
    /\ \A i \in 1 .. n : u[i] = u[i - 1] + s[i]

LEMMA SumsExist ==
    ASSUME NEW n \in Nat, NEW s \in [1 .. n -> Nat]
    PROVE  \E u \in [0 .. n -> Nat] : AreSums(s, n, u)
<1> DEFINE Up(k) == \E u \in [0 .. k -> Nat] : AreSums(s, k, u)
           S == {k \in 0 .. n : Up(k)}
<1>1. 0 \in S
  <2> DEFINE u == [i \in 0 .. 0 |-> 0]
  <2>1. u \in [0 .. 0 -> Nat] /\ AreSums(s, 0, u)
    BY DEF AreSums
  <2>2. Up(0)
    BY <2>1
  <2> HIDE DEF Up
  <2> QED BY <2>2
<1>2. ASSUME NEW k \in 0 .. n - 1, k \in S
      PROVE  k + 1 \in S
  <2>1. PICK u \in [0 .. k -> Nat] : AreSums(s, k, u)
    BY <1>2
  <2> DEFINE longer == [i \in 0 .. k + 1 |-> IF i = k + 1 THEN u[k] + s[k + 1] ELSE u[i]]
  <2>2. u[k] \in Nat /\ s[k + 1] \in Nat /\ k + 1 \in 0 .. n
    OBVIOUS
  <2>3. longer \in [0 .. k + 1 -> Nat]
    BY <2>2
  <2>4. \A i \in 0 .. k : longer[i] = u[i]
    OBVIOUS
  <2>5. longer[k + 1] = u[k] + s[k + 1]
    OBVIOUS
  <2>6. DOMAIN longer = 0 .. k + 1
    OBVIOUS
  <2> HIDE DEF longer
  <2>7. ASSUME NEW i \in 1 .. k + 1
        PROVE  longer[i] = longer[i - 1] + s[i]
    <3>1. CASE i = k + 1
      BY <2>4, <2>5, <3>1
    <3>2. CASE i # k + 1
      <4>1. i \in 1 .. k /\ i \in 0 .. k /\ i - 1 \in 0 .. k
        BY <3>2
      <4> QED BY <2>1, <2>4, <4>1 DEF AreSums
    <3> QED BY <3>1, <3>2
  <2>8. longer[0] = 0
    BY <2>1, <2>4 DEF AreSums
  <2>9. AreSums(s, k + 1, longer)
    BY <2>6, <2>7, <2>8 DEF AreSums
  <2>10. Up(k + 1)
    BY <2>3, <2>9
  <2> HIDE DEF Up
  <2> QED BY <2>2, <2>10
<1> HIDE DEF Up
<1>3. S = 0 .. n
  BY <1>1, <1>2, Counting
<1>4. Up(n)
  BY <1>3
<1> QED BY <1>4 DEF Up

LEMMA SumsAgree ==
    ASSUME NEW n \in Nat, NEW m \in 0 .. n, NEW s, NEW t, \A i \in 1 .. m : t[i] = s[i],
           NEW u, AreSums(s, n, u), NEW v, AreSums(t, m, v)
    PROVE  v[m] = u[m]
<1> DEFINE S == {i \in 0 .. m : v[i] = u[i]}
<1>1. 0 \in S
  BY DEF AreSums
<1>2. ASSUME NEW k \in 0 .. m - 1, k \in S
      PROVE  k + 1 \in S
  <2>1. k + 1 \in 1 .. m /\ k + 1 \in 1 .. n /\ k + 1 - 1 = k
    OBVIOUS
  <2>2. v[k + 1] = v[k] + t[k + 1] /\ u[k + 1] = u[k] + s[k + 1]
    BY <2>1 DEF AreSums
  <2> QED BY <1>2, <2>1, <2>2
<1>3. m \in Nat
  OBVIOUS
<1> HIDE DEF S
<1>4. S = 0 .. m
  <2>1. S \in SUBSET (0 .. m)
    BY DEF S
  <2> QED BY <1>1, <1>2, <1>3, <2>1, Counting
<1> QED BY <1>3, <1>4 DEF S

LEMMA TotalIsSum ==
    ASSUME NEW n \in Nat, NEW s \in [1 .. n -> Nat]
    PROVE  \E u : AreSums(s, n, u) /\ Total(s) = u[n]
<1>1. DOMAIN s = 1 .. n /\ s = [i \in 1 .. n |-> s[i]]
  OBVIOUS
<1>2. Len(s) = n
  BY <1>1, FunctionIsList
<1> DEFINE Is(u) == u = [i \in 0 .. n |-> IF i = 0 THEN 0 ELSE u[i - 1] + s[i]]
           w == CHOOSE u : Is(u)
<1>3. PICK u \in [0 .. n -> Nat] : AreSums(s, n, u)
  BY SumsExist
<1>4. Is(u)
  <2>1. \A i \in 0 .. n : u[i] = IF i = 0 THEN 0 ELSE u[i - 1] + s[i]
    BY <1>3 DEF AreSums
  <2> QED BY <2>1
<1>5. Is(w)
  BY <1>4
<1>6. Total(s) = w[n]
  BY <1>2 DEF Total
<1> HIDE DEF w
<1>7. AreSums(s, n, w)
  <2>1. DOMAIN w = 0 .. n /\ \A i \in 0 .. n : w[i] = IF i = 0 THEN 0 ELSE w[i - 1] + s[i]
    BY <1>5
  <2> QED BY <2>1 DEF AreSums
<1> QED BY <1>6, <1>7

\* The total of no numbers, and of one more.
LEMMA TotalGrows ==
    ASSUME NEW n \in Nat, NEW s \in [1 .. n + 1 -> Nat]
    PROVE  Total(s) = Total([i \in 1 .. n |-> s[i]]) + s[n + 1]
<1> DEFINE t == [i \in 1 .. n |-> s[i]]
<1>1. t \in [1 .. n -> Nat] /\ \A i \in 1 .. n : t[i] = s[i]
  OBVIOUS
<1> HIDE DEF t
<1>2. PICK u : AreSums(s, n + 1, u) /\ Total(s) = u[n + 1]
  BY TotalIsSum
<1>3. PICK v : AreSums(t, n, v) /\ Total(t) = v[n]
  BY <1>1, TotalIsSum
<1> DEFINE k == n + 1
<1>4. k \in Nat /\ n \in 0 .. k /\ AreSums(s, k, u)
  BY <1>2
<1> HIDE DEF k
<1>5. v[n] = u[n]
  BY ONLY <1>1, <1>3, <1>4, SumsAgree
<1>6. n + 1 \in 1 .. n + 1 /\ n + 1 - 1 = n
  OBVIOUS
<1>7. u[n + 1] = u[n] + s[n + 1]
  BY <1>2, <1>6 DEF AreSums
<1> QED BY <1>2, <1>3, <1>5, <1>7 DEF t

LEMMA TotalOfNone ==
    ASSUME NEW s, DOMAIN s = 1 .. 0, s = [i \in 1 .. 0 |-> s[i]]
    PROVE  Total(s) = 0
<1>1. 0 \in Nat /\ s \in [1 .. 0 -> Nat]
  OBVIOUS
<1>2. PICK u : AreSums(s, 0, u) /\ Total(s) = u[0]
  BY <1>1, TotalIsSum
<1> QED BY <1>2 DEF AreSums

LEMMA TotalType ==
    ASSUME NEW n \in Nat, NEW s \in [1 .. n -> Nat]
    PROVE  Total(s) \in Nat
<1>1. PICK u \in [0 .. n -> Nat] : AreSums(s, n, u)
  BY SumsExist
<1>2. PICK v : AreSums(s, n, v) /\ Total(s) = v[n]
  BY TotalIsSum
<1>3. n \in 0 .. n
  OBVIOUS
<1>4. v[n] = u[n]
  BY <1>1, <1>2, <1>3, SumsAgree
<1> QED BY <1>1, <1>2, <1>3, <1>4
--------------------------------------------------------------------------------
(* What the log says of one test case.                                       *)

Ends == {"open", "returned", "failure", "exception", "crash"}

IsRun(r) ==
    /\ r = [events |-> r.events, asserts |-> r.asserts, failed |-> r.failed,
            under |-> r.under, depth |-> r.depth, end |-> r.end]
    /\ r.asserts \in Nat /\ r.failed \in Nat /\ r.end \in Ends

IsEntry(e) ==
    /\ e = [test |-> e.test, runs |-> e.runs, late |-> e.late]
    /\ IsList(e.runs) /\ Len(e.runs) # 0
    /\ \A i \in 1 .. Len(e.runs) : IsRun(e.runs[i])

FailedIn(e) == Total([i \in DOMAIN e.runs |-> e.runs[i].failed])
AssertsIn(e) == Total([i \in DOMAIN e.runs |-> e.runs[i].asserts])
ThrownIn(e, how) == \E i \in DOMAIN e.runs : e.runs[i].end = how

LEMMA EntryCounts ==
    ASSUME NEW e, IsEntry(e)
    PROVE  FailedIn(e) \in Nat /\ AssertsIn(e) \in Nat
<1>1. Len(e.runs) \in Nat /\ DOMAIN e.runs = 1 .. Len(e.runs)
  BY ListProperties DEF IsEntry
<1> DEFINE f == [i \in DOMAIN e.runs |-> e.runs[i].failed]
           g == [i \in DOMAIN e.runs |-> e.runs[i].asserts]
<1>2. f \in [1 .. Len(e.runs) -> Nat] /\ g \in [1 .. Len(e.runs) -> Nat]
  BY <1>1 DEF IsEntry, IsRun
<1> HIDE DEF f, g
<1>3. Total(f) \in Nat /\ Total(g) \in Nat
  BY <1>1, <1>2, TotalType
<1> QED BY <1>3 DEF FailedIn, AssertsIn, f, g

\* The first k of some numbers and their total.
LEMMA FirstOfTotal ==
    ASSUME NEW k \in Nat, NEW s, DOMAIN s = 1 .. k + 1, \A i \in 1 .. k + 1 : s[i] \in Nat, s = [i \in 1 .. k + 1 |-> s[i]],
           NEW t, t = [i \in 1 .. k |-> s[i]]
    PROVE  Total(s) = Total(t) + s[k + 1] /\ Total(t) \in Nat
<1>1. s \in [1 .. k + 1 -> Nat] /\ t \in [1 .. k -> Nat]
  OBVIOUS
<1>2. Total(s) = Total([i \in 1 .. k |-> s[i]]) + s[k + 1]
  BY <1>1, TotalGrows
<1>3. Total(t) \in Nat
  BY <1>1, TotalType
<1> QED BY <1>2, <1>3

\* A run takes the place of the last one.
LEMMA LastRunChanged ==
    ASSUME NEW e, IsEntry(e), NEW r, IsRun(r), NEW d, d = [e EXCEPT !.runs[Len(e.runs)] = r]
    PROVE  /\ IsEntry(d) /\ d.test = e.test /\ d.late = e.late /\ Len(d.runs) = Len(e.runs)
           /\ DOMAIN d.runs = DOMAIN e.runs
           /\ \A i \in DOMAIN e.runs : d.runs[i] = IF i = Len(e.runs) THEN r ELSE e.runs[i]
           /\ FailedIn(d) + e.runs[Len(e.runs)].failed = FailedIn(e) + r.failed
           /\ AssertsIn(d) + e.runs[Len(e.runs)].asserts = AssertsIn(e) + r.asserts
<1> DEFINE n == Len(e.runs)
<1>1. IsList(e.runs) /\ n \in Nat /\ n # 0 /\ DOMAIN e.runs = 1 .. n /\ n \in DOMAIN e.runs
  BY ListProperties DEF IsEntry
<1>2. d = [test |-> e.test, runs |-> [e.runs EXCEPT ![n] = r], late |-> e.late]
  BY <1>1 DEF IsEntry
<1>3. /\ IsList([e.runs EXCEPT ![n] = r]) /\ Len([e.runs EXCEPT ![n] = r]) = n
      /\ DOMAIN [e.runs EXCEPT ![n] = r] = DOMAIN e.runs
      /\ \A i \in DOMAIN e.runs : [e.runs EXCEPT ![n] = r][i] = IF i = n THEN r ELSE e.runs[i]
  BY <1>1, ChangedList
<1>4. /\ d.test = e.test /\ d.late = e.late /\ d.runs = [e.runs EXCEPT ![n] = r]
  BY <1>2
<1>5. IsList(d.runs) /\ Len(d.runs) = n /\ DOMAIN d.runs = 1 .. n
      /\ \A i \in 1 .. n : d.runs[i] = IF i = n THEN r ELSE e.runs[i]
  BY <1>1, <1>3, <1>4
<1>6. IsEntry(d)
  BY <1>1, <1>2, <1>4, <1>5 DEF IsEntry
<1> DEFINE f == [i \in DOMAIN e.runs |-> e.runs[i].failed]
           g == [i \in DOMAIN e.runs |-> e.runs[i].asserts]
           f1 == [i \in DOMAIN d.runs |-> d.runs[i].failed]
           g1 == [i \in DOMAIN d.runs |-> d.runs[i].asserts]
           k == n - 1
<1>7. k \in Nat /\ n = k + 1
  BY <1>1
<1>8. \A i \in 1 .. n : /\ e.runs[i].failed \in Nat /\ e.runs[i].asserts \in Nat
                        /\ d.runs[i].failed \in Nat /\ d.runs[i].asserts \in Nat
  BY <1>5, <1>6 DEF IsEntry, IsRun
<1>9. \A s \in {f, g, f1, g1} :
         DOMAIN s = 1 .. k + 1 /\ (\A i \in 1 .. k + 1 : s[i] \in Nat) /\ s = [i \in 1 .. k + 1 |-> s[i]]
  BY <1>1, <1>5, <1>7, <1>8
<1>10. /\ [i \in 1 .. k |-> f[i]] = [i \in 1 .. k |-> f1[i]]
       /\ [i \in 1 .. k |-> g[i]] = [i \in 1 .. k |-> g1[i]]
  <2>1. \A i \in 1 .. k : i \in 1 .. n /\ i # n
    BY <1>7
  <2>2. \A i \in 1 .. k : d.runs[i] = e.runs[i]
    BY <1>5, <2>1
  <2>3. \A i \in 1 .. k : f[i] = f1[i] /\ g[i] = g1[i]
    BY <1>1, <1>5, <2>1, <2>2
  <2> HIDE DEF f, g, f1, g1
  <2> QED BY <2>3
<1>11. /\ f[k + 1] = e.runs[n].failed /\ g[k + 1] = e.runs[n].asserts
       /\ f1[k + 1] = r.failed /\ g1[k + 1] = r.asserts
  BY <1>1, <1>5, <1>7
<1> HIDE DEF f, g, f1, g1, k
<1>12. /\ Total(f) = Total([i \in 1 .. k |-> f[i]]) + f[k + 1] /\ Total([i \in 1 .. k |-> f[i]]) \in Nat
       /\ Total(f1) = Total([i \in 1 .. k |-> f1[i]]) + f1[k + 1]
       /\ Total(g) = Total([i \in 1 .. k |-> g[i]]) + g[k + 1] /\ Total([i \in 1 .. k |-> g[i]]) \in Nat
       /\ Total(g1) = Total([i \in 1 .. k |-> g1[i]]) + g1[k + 1]
  BY <1>7, <1>9, FirstOfTotal
<1>13. FailedIn(d) = Total(f1) /\ FailedIn(e) = Total(f) /\ AssertsIn(d) = Total(g1) /\ AssertsIn(e) = Total(g)
  BY DEF FailedIn, AssertsIn, f, g, f1, g1
<1>14. e.runs[n].failed \in Nat /\ e.runs[n].asserts \in Nat /\ r.failed \in Nat /\ r.asserts \in Nat
  BY <1>1, <1>8 DEF IsRun
<1>15. /\ FailedIn(d) + e.runs[n].failed = FailedIn(e) + r.failed
       /\ AssertsIn(d) + e.runs[n].asserts = AssertsIn(e) + r.asserts
  <2>1. PICK a \in Nat, b \in Nat : a = Total([i \in 1 .. k |-> f[i]]) /\ b = Total([i \in 1 .. k |-> g[i]])
    BY <1>12
  <2>2. /\ Total(f) = a + e.runs[n].failed /\ Total(f1) = a + r.failed
        /\ Total(g) = b + e.runs[n].asserts /\ Total(g1) = b + r.asserts
    BY <1>10, <1>11, <1>12, <2>1
  <2> HIDE DEF n
  <2>3. FailedIn(d) = a + r.failed /\ FailedIn(e) = a + e.runs[n].failed
        /\ AssertsIn(d) = b + r.asserts /\ AssertsIn(e) = b + e.runs[n].asserts
    BY <1>13, <2>2
  <2> DEFINE x == e.runs[n].failed
             y == e.runs[n].asserts
  <2>4. x \in Nat /\ y \in Nat /\ r.failed \in Nat /\ r.asserts \in Nat
    BY <1>14
  <2>5. /\ FailedIn(d) = a + r.failed /\ FailedIn(e) = a + x
        /\ AssertsIn(d) = b + r.asserts /\ AssertsIn(e) = b + y
    BY <2>3
  <2> HIDE DEF x, y
  <2>6. FailedIn(d) + x = FailedIn(e) + r.failed
    BY <2>1, <2>4, <2>5
  <2>7. AssertsIn(d) + y = AssertsIn(e) + r.asserts
    BY <2>1, <2>4, <2>5
  <2> QED BY <2>6, <2>7 DEF x, y
<1> HIDE DEF n
<1>16. Len(d.runs) = n /\ DOMAIN d.runs = DOMAIN e.runs
       /\ \A i \in DOMAIN e.runs : d.runs[i] = IF i = n THEN r ELSE e.runs[i]
  BY <1>1, <1>5
<1> QED BY <1>4, <1>6, <1>15, <1>16 DEF n

\* A new run follows the others.
LEMMA RunAdded ==
    ASSUME NEW e, IsEntry(e), NEW d, d = [e EXCEPT !.runs = Append(@, NewRun)]
    PROVE  /\ IsEntry(d) /\ d.test = e.test /\ d.late = e.late /\ Len(d.runs) = Len(e.runs) + 1
           /\ \A i \in 1 .. Len(e.runs) : d.runs[i] = e.runs[i]
           /\ d.runs[Len(e.runs) + 1] = NewRun
           /\ FailedIn(d) = FailedIn(e) /\ AssertsIn(d) = AssertsIn(e)
<1> DEFINE n == Len(e.runs)
<1>1. IsList(e.runs) /\ n \in Nat /\ n # 0 /\ DOMAIN e.runs = 1 .. n
  BY ListProperties DEF IsEntry
<1>2. d = [test |-> e.test, runs |-> Append(e.runs, NewRun), late |-> e.late]
  BY <1>1 DEF IsEntry
<1>3. /\ IsList(Append(e.runs, NewRun)) /\ Len(Append(e.runs, NewRun)) = n + 1
      /\ \A i \in 1 .. n : Append(e.runs, NewRun)[i] = e.runs[i]
      /\ Append(e.runs, NewRun)[n + 1] = NewRun
  BY <1>1, AppendedList
<1>4. d.test = e.test /\ d.late = e.late /\ d.runs = Append(e.runs, NewRun)
  BY <1>2
<1>5. IsRun(NewRun) /\ NewRun.failed = 0 /\ NewRun.asserts = 0
  BY DEF IsRun, NewRun, Ends
<1>6. IsList(d.runs) /\ Len(d.runs) = n + 1 /\ d.runs[n + 1] = NewRun
      /\ \A i \in 1 .. n : d.runs[i] = e.runs[i]
  BY <1>3, <1>4
<1>7. DOMAIN d.runs = 1 .. n + 1
  BY <1>6, ListProperties
<1>8. \A i \in 1 .. n + 1 : IsRun(d.runs[i])
  <2> SUFFICES ASSUME NEW i \in 1 .. n + 1 PROVE IsRun(d.runs[i])
    OBVIOUS
  <2>1. CASE i = n + 1
    BY <1>5, <1>6, <2>1
  <2>2. CASE i # n + 1
    <3>1. i \in 1 .. n
      BY <1>1, <2>2
    <3> QED BY <1>6, <3>1 DEF IsEntry
  <2> QED BY <2>1, <2>2
<1>9. IsEntry(d)
  <2>1. d = [test |-> d.test, runs |-> d.runs, late |-> d.late]
    BY <1>2
  <2>2. Len(d.runs) # 0 /\ \A i \in 1 .. Len(d.runs) : IsRun(d.runs[i])
    BY <1>1, <1>6, <1>8
  <2> QED BY <1>6, <2>1, <2>2 DEF IsEntry
<1> DEFINE f == [i \in DOMAIN e.runs |-> e.runs[i].failed]
           g == [i \in DOMAIN e.runs |-> e.runs[i].asserts]
           f1 == [i \in DOMAIN d.runs |-> d.runs[i].failed]
           g1 == [i \in DOMAIN d.runs |-> d.runs[i].asserts]
<1>10. \A s \in {f1, g1} :
         DOMAIN s = 1 .. n + 1 /\ (\A i \in 1 .. n + 1 : s[i] \in Nat) /\ s = [i \in 1 .. n + 1 |-> s[i]]
  BY <1>7, <1>8 DEF IsRun
<1>11. f = [i \in 1 .. n |-> f1[i]] /\ g = [i \in 1 .. n |-> g1[i]]
  <2>1. \A i \in 1 .. n : i \in 1 .. n + 1
    BY <1>1
  <2>2. \A i \in 1 .. n : f[i] = f1[i] /\ g[i] = g1[i]
    BY <1>1, <1>6, <1>7, <2>1
  <2>3. f = [i \in 1 .. n |-> f[i]] /\ g = [i \in 1 .. n |-> g[i]]
    BY <1>1
  <2> HIDE DEF f, g, f1, g1
  <2> QED BY <2>2, <2>3
<1>12. f1[n + 1] = 0 /\ g1[n + 1] = 0
  <2>1. n + 1 \in 1 .. n + 1
    BY <1>1
  <2> QED BY <1>5, <1>6, <1>7, <2>1
<1> HIDE DEF f, g, f1, g1, n
<1>13. Total(f1) = Total(f) + f1[n + 1] /\ Total(f) \in Nat
  BY <1>1, <1>10, <1>11, FirstOfTotal
<1>14. Total(g1) = Total(g) + g1[n + 1] /\ Total(g) \in Nat
  BY <1>1, <1>10, <1>11, FirstOfTotal
<1>15. FailedIn(d) = Total(f1) /\ FailedIn(e) = Total(f) /\ AssertsIn(d) = Total(g1) /\ AssertsIn(e) = Total(g)
  BY DEF FailedIn, AssertsIn, f, g, f1, g1
<1>16. FailedIn(d) = FailedIn(e) /\ AssertsIn(d) = AssertsIn(e)
  BY <1>12, <1>13, <1>14, <1>15
<1> QED BY <1>4, <1>6, <1>9, <1>16 DEF n

\* What a test case is begun with.
LEMMA FirstEntry ==
    ASSUME NEW test, NEW e, e = [test |-> test, runs |-> <<NewRun>>, late |-> FALSE]
    PROVE  /\ IsEntry(e) /\ e.test = test /\ e.late = FALSE /\ Len(e.runs) = 1 /\ e.runs[1] = NewRun
           /\ FailedIn(e) = 0 /\ AssertsIn(e) = 0
<1>1. IsRun(NewRun) /\ NewRun.failed = 0 /\ NewRun.asserts = 0
  BY DEF IsRun, NewRun, Ends
<1>2. <<NewRun>> \in Seq({NewRun}) /\ Len(<<NewRun>>) = 1 /\ <<NewRun>>[1] = NewRun
  OBVIOUS
<1>3. IsList(<<NewRun>>)
  BY <1>2, ListIs
<1>4. e.test = test /\ e.late = FALSE /\ e.runs = <<NewRun>>
  OBVIOUS
<1>5. IsEntry(e)
  <2>1. \A i \in 1 .. Len(e.runs) : i = 1
    BY <1>2, <1>4
  <2> QED BY <1>1, <1>2, <1>3, <1>4, <2>1 DEF IsEntry
<1> DEFINE f == [i \in DOMAIN e.runs |-> e.runs[i].failed]
           g == [i \in DOMAIN e.runs |-> e.runs[i].asserts]
           none == [i \in 1 .. 0 |-> 0]
<1>6. DOMAIN e.runs = 1 .. 0 + 1
  BY <1>2, <1>4
<1>7. \A s \in {f, g} : /\ DOMAIN s = 1 .. 0 + 1 /\ (\A i \in 1 .. 0 + 1 : s[i] = 0) /\ s = [i \in 1 .. 0 + 1 |-> s[i]]
                        /\ none = [i \in 1 .. 0 |-> s[i]]
  <2>1. \A i \in 1 .. 0 + 1 : i = 1
    OBVIOUS
  <2> QED BY <1>1, <1>2, <1>4, <1>6, <2>1
<1>8. Total(none) = 0
  BY TotalOfNone
<1> HIDE DEF f, g, none
<1>9. \A s \in {f, g} : Total(s) = 0
  <2> SUFFICES ASSUME NEW s \in {f, g} PROVE Total(s) = 0
    OBVIOUS
  <2>1. 0 \in Nat /\ 0 + 1 \in 1 .. 0 + 1
    OBVIOUS
  <2>2. Total(s) = Total(none) + s[0 + 1]
    BY <1>7, <2>1, FirstOfTotal
  <2>3. s[0 + 1] = 0
    BY <1>7, <2>1
  <2> QED BY <1>8, <2>2, <2>3
<1>10. FailedIn(e) = 0 /\ AssertsIn(e) = 0
  BY <1>9 DEF FailedIn, AssertsIn, f, g
<1> QED BY <1>2, <1>4, <1>5, <1>10
--------------------------------------------------------------------------------
(* The verdicts on the first k test cases of a log.                          *)

IsLog(l) == IsList(l) /\ \A n \in 1 .. Len(l) : IsEntry(l[n])

FailedUpTo(l, k) == Total([m \in 1 .. k |-> FailedIn(l[m])])
AssertsUpTo(l, k) == Total([m \in 1 .. k |-> AssertsIn(l[m])])
ReachedIn(l, n, limit) == limit > 0 /\ FailedUpTo(l, n) >= limit
TroubledIn(l, n, limit) ==
    FailedIn(l[n]) > 0 \/ l[n].late \/ ReachedIn(l, n, limit)
        \/ \E how \in {"failure", "exception", "crash"} : ThrownIn(l[n], how)
PassedIn(l, n, limit) ==
    LET test == l[n].test
        troubled == TroubledIn(l, n, limit)
    IN  IF test.should_fail THEN troubled
        ELSE IF test.expected_failures > 0 /\ ~(troubled /\ test.may_fail)
             THEN FailedIn(l[n]) = test.expected_failures
        ELSE troubled => test.may_fail
BadIn(l, k, limit) == {n \in 1 .. k : ~PassedIn(l, n, limit)}

LEMMA FirstCounts ==
    ASSUME NEW l, NEW k \in Nat, k <= 0, NEW limit
    PROVE  FailedUpTo(l, k) = 0 /\ AssertsUpTo(l, k) = 0 /\ Cardinality(BadIn(l, k, limit)) = 0
<1>1. k = 0
  OBVIOUS
<1> DEFINE f == [m \in 1 .. 0 |-> FailedIn(l[m])]
           g == [m \in 1 .. 0 |-> AssertsIn(l[m])]
<1>2. DOMAIN f = 1 .. 0 /\ f = [m \in 1 .. 0 |-> f[m]] /\ DOMAIN g = 1 .. 0 /\ g = [m \in 1 .. 0 |-> g[m]]
  OBVIOUS
<1> HIDE DEF f, g
<1>3. Total(f) = 0 /\ Total(g) = 0
  BY <1>2, TotalOfNone
<1>4. FailedUpTo(l, 0) = 0 /\ AssertsUpTo(l, 0) = 0
  BY <1>3 DEF FailedUpTo, AssertsUpTo, f, g
<1>5. BadIn(l, 0, limit) = {}
  BY DEF BadIn
<1>6. Cardinality(BadIn(l, 0, limit)) = 0
  BY <1>5, FS_EmptySet
<1> QED BY <1>1, <1>4, <1>6

LEMMA CountsGrow ==
    ASSUME NEW l, IsLog(l), NEW k \in Nat, k + 1 <= Len(l), NEW limit
    PROVE  /\ FailedUpTo(l, k + 1) = FailedUpTo(l, k) + FailedIn(l[k + 1])
           /\ AssertsUpTo(l, k + 1) = AssertsUpTo(l, k) + AssertsIn(l[k + 1])
           /\ Cardinality(BadIn(l, k + 1, limit))
                 = Cardinality(BadIn(l, k, limit)) + (IF PassedIn(l, k + 1, limit) THEN 0 ELSE 1)
           /\ FailedUpTo(l, k) \in Nat /\ AssertsUpTo(l, k) \in Nat /\ Cardinality(BadIn(l, k, limit)) \in Nat
<1>1. Len(l) \in Nat /\ \A m \in 1 .. k + 1 : FailedIn(l[m]) \in Nat /\ AssertsIn(l[m]) \in Nat
  <2>1. Len(l) \in Nat
    BY ListProperties DEF IsLog
  <2>2. \A m \in 1 .. k + 1 : IsEntry(l[m])
    BY <2>1 DEF IsLog
  <2> QED BY <2>1, <2>2, EntryCounts
<1> DEFINE f == [m \in 1 .. k + 1 |-> FailedIn(l[m])]
           g == [m \in 1 .. k + 1 |-> AssertsIn(l[m])]
           f0 == [m \in 1 .. k |-> FailedIn(l[m])]
           g0 == [m \in 1 .. k |-> AssertsIn(l[m])]
<1>2. \A m \in 1 .. k : m \in 1 .. k + 1
  OBVIOUS
<1>3. f0 = [m \in 1 .. k |-> f[m]] /\ g0 = [m \in 1 .. k |-> g[m]]
  BY <1>2
<1>4. /\ DOMAIN f = 1 .. k + 1 /\ (\A m \in 1 .. k + 1 : f[m] \in Nat) /\ f = [m \in 1 .. k + 1 |-> f[m]]
      /\ DOMAIN g = 1 .. k + 1 /\ (\A m \in 1 .. k + 1 : g[m] \in Nat) /\ g = [m \in 1 .. k + 1 |-> g[m]]
  BY <1>1
<1>5. f[k + 1] = FailedIn(l[k + 1]) /\ g[k + 1] = AssertsIn(l[k + 1])
  OBVIOUS
<1> HIDE DEF f, g, f0, g0
<1>6. Total(f) = Total(f0) + f[k + 1] /\ Total(f0) \in Nat
  BY <1>3, <1>4, FirstOfTotal
<1>7. Total(g) = Total(g0) + g[k + 1] /\ Total(g0) \in Nat
  BY <1>3, <1>4, FirstOfTotal
<1>8. /\ FailedUpTo(l, k + 1) = Total(f) /\ FailedUpTo(l, k) = Total(f0)
      /\ AssertsUpTo(l, k + 1) = Total(g) /\ AssertsUpTo(l, k) = Total(g0)
  BY DEF FailedUpTo, AssertsUpTo, f, g, f0, g0
<1>9. IsFiniteSet(BadIn(l, k, limit)) /\ Cardinality(BadIn(l, k, limit)) \in Nat
  <2>1. IsFiniteSet(1 .. k)
    BY FS_Interval
  <2>2. BadIn(l, k, limit) \in SUBSET (1 .. k)
    BY DEF BadIn
  <2>3. IsFiniteSet(BadIn(l, k, limit))
    BY <2>1, <2>2, FS_Subset
  <2> QED BY <2>3, FS_CardinalityType
<1>10. Cardinality(BadIn(l, k + 1, limit))
          = Cardinality(BadIn(l, k, limit)) + (IF PassedIn(l, k + 1, limit) THEN 0 ELSE 1)
  <2>1. \A m : m \in 1 .. k + 1 <=> m \in 1 .. k \/ m = k + 1
    OBVIOUS
  <2>2. CASE PassedIn(l, k + 1, limit)
    <3>1. BadIn(l, k + 1, limit) = BadIn(l, k, limit)
      BY <2>1, <2>2 DEF BadIn
    <3> QED BY <1>9, <2>2, <3>1
  <2>3. CASE ~PassedIn(l, k + 1, limit)
    <3>1. BadIn(l, k + 1, limit) = BadIn(l, k, limit) \cup {k + 1}
      BY <2>1, <2>3 DEF BadIn
    <3>2. k + 1 \notin BadIn(l, k, limit)
      BY DEF BadIn
    <3>3. Cardinality(BadIn(l, k, limit) \cup {k + 1}) = Cardinality(BadIn(l, k, limit)) + 1
      BY <1>9, <3>2, FS_AddElement
    <3> QED BY <2>3, <3>1, <3>3
  <2> QED BY <2>2, <2>3
<1> QED BY <1>5, <1>6, <1>7, <1>8, <1>9, <1>10

\* What is behind them does not matter.
LEMMA SameCounts ==
    ASSUME NEW k \in Nat, NEW l, NEW m, \A n \in 1 .. k : m[n] = l[n], NEW limit
    PROVE  /\ FailedUpTo(m, k) = FailedUpTo(l, k) /\ AssertsUpTo(m, k) = AssertsUpTo(l, k)
           /\ BadIn(m, k, limit) = BadIn(l, k, limit)
<1>1. \A n \in 1 .. k : FailedUpTo(m, n) = FailedUpTo(l, n)
  <2> SUFFICES ASSUME NEW n \in 1 .. k PROVE FailedUpTo(m, n) = FailedUpTo(l, n)
    OBVIOUS
  <2>1. \A i \in 1 .. n : i \in 1 .. k
    OBVIOUS
  <2>2. [i \in 1 .. n |-> FailedIn(m[i])] = [i \in 1 .. n |-> FailedIn(l[i])]
    BY <2>1
  <2> QED BY <2>2 DEF FailedUpTo
<1>2. [i \in 1 .. k |-> FailedIn(m[i])] = [i \in 1 .. k |-> FailedIn(l[i])]
  OBVIOUS
<1>3. [i \in 1 .. k |-> AssertsIn(m[i])] = [i \in 1 .. k |-> AssertsIn(l[i])]
  OBVIOUS
<1>4. \A n \in 1 .. k : PassedIn(m, n, limit) <=> PassedIn(l, n, limit)
  <2> SUFFICES ASSUME NEW n \in 1 .. k PROVE PassedIn(m, n, limit) <=> PassedIn(l, n, limit)
    OBVIOUS
  <2>1. m[n] = l[n]
    OBVIOUS
  <2>2. ReachedIn(m, n, limit) <=> ReachedIn(l, n, limit)
    BY <1>1 DEF ReachedIn
  <2>3. TroubledIn(m, n, limit) <=> TroubledIn(l, n, limit)
    BY <2>1, <2>2 DEF TroubledIn
  <2> QED BY <2>1, <2>3 DEF PassedIn
<1> QED BY <1>2, <1>3, <1>4 DEF FailedUpTo, AssertsUpTo, BadIn

\* finalizeTestCaseData() passes a test case if what happened in it agrees with
\* its decorators.
LEMMA VerdictIs ==
    ASSUME NEW l, NEW n, NEW limit, NEW flags, NEW late,
           flags \subseteq {"AssertFailure", "Exception", "Crash", "TooManyFailedAsserts"},
           late <=> l[n].late, late => l[n].test.timeout,
           flags # {} \/ FailedIn(l[n]) > 0
              <=> \/ FailedIn(l[n]) > 0 \/ ReachedIn(l, n, limit)
                  \/ \E how \in {"failure", "exception", "crash"} : ThrownIn(l[n], how)
    PROVE  Success(Finalized(l[n].test, flags, FailedIn(l[n]), late)) <=> PassedIn(l, n, limit)
<1> DEFINE test == l[n].test
           failed == FailedIn(l[n])
           found == flags \cup (IF failed > 0 THEN {"AssertFailure"} ELSE {})
                          \cup (IF test.timeout /\ late THEN {"Timeout"} ELSE {})
           more == IF test.should_fail
                   THEN {IF found # {} THEN "ShouldHaveFailedAndDid" ELSE "ShouldHaveFailedButDidnt"}
                   ELSE IF found # {} /\ test.may_fail THEN {"CouldHaveFailedAndDid"}
                   ELSE IF test.expected_failures > 0
                   THEN {IF failed = test.expected_failures THEN "FailedExactlyNumTimes" ELSE "DidntFailExactlyNumTimes"}
                   ELSE {}
           troubled == TroubledIn(l, n, limit)
           fine == {"ShouldHaveFailedAndDid", "CouldHaveFailedAndDid", "FailedExactlyNumTimes"}
<1>1. found # {} <=> troubled
  <2>1. found # {} <=> flags # {} \/ failed > 0 \/ (test.timeout /\ late)
    OBVIOUS
  <2> QED BY <2>1 DEF TroubledIn
<1>2. found \cap fine = {}
  OBVIOUS
<1>3. Finalized(test, flags, failed, late) = found \cup more
  BY DEF Finalized
<1> HIDE DEF found, troubled
<1>4. Success(found \cup more) <=> found \cup more = {} \/ more \cap fine # {}
  <2>1. (found \cup more) \cap fine = more \cap fine
    BY <1>2
  <2> HIDE DEF more
  <2> QED BY <2>1 DEF Success
<1>5. PassedIn(l, n, limit)
        <=> IF test.should_fail THEN troubled
            ELSE IF test.expected_failures > 0 /\ ~(troubled /\ test.may_fail) THEN failed = test.expected_failures
            ELSE troubled => test.may_fail
  BY DEF PassedIn, troubled
<1>6. CASE test.should_fail
  <2>1. more = {IF found # {} THEN "ShouldHaveFailedAndDid" ELSE "ShouldHaveFailedButDidnt"}
    BY <1>6
  <2>2. found \cup more # {} /\ (more \cap fine # {} <=> found # {})
    BY <2>1
  <2> QED BY <1>1, <1>3, <1>4, <1>5, <1>6, <2>2
<1>7. CASE ~test.should_fail /\ found # {} /\ test.may_fail
  <2>1. more = {"CouldHaveFailedAndDid"}
    BY <1>7
  <2>2. more \cap fine # {}
    BY <2>1
  <2> QED BY <1>1, <1>3, <1>4, <1>5, <1>7, <2>2
<1>8. CASE ~test.should_fail /\ ~(found # {} /\ test.may_fail) /\ test.expected_failures > 0
  <2>1. more = {IF failed = test.expected_failures THEN "FailedExactlyNumTimes" ELSE "DidntFailExactlyNumTimes"}
    BY <1>8
  <2>2. found \cup more # {} /\ (more \cap fine # {} <=> failed = test.expected_failures)
    BY <2>1
  <2> QED BY <1>1, <1>3, <1>4, <1>5, <1>8, <2>2
<1>9. CASE ~test.should_fail /\ ~(found # {} /\ test.may_fail) /\ ~(test.expected_failures > 0)
  <2>1. more = {}
    BY <1>9
  <2>2. Success(found \cup more) <=> found = {}
    BY <1>4, <2>1
  <2> QED BY <1>1, <1>3, <1>5, <1>9, <2>2
<1> QED BY <1>6, <1>7, <1>8, <1>9
--------------------------------------------------------------------------------
(* What the console keeps.                                                   *)

LEMMA ConcatList ==
    ASSUME NEW s, IsList(s), NEW t, IsList(t)
    PROVE  /\ IsList(s \o t) /\ Len(s \o t) = Len(s) + Len(t)
           /\ \A i \in 1 .. Len(t) : (s \o t)[Len(s) + i] = t[i]
<1> DEFINE T == {s[i] : i \in DOMAIN s} \cup {t[i] : i \in DOMAIN t}
<1>1. /\ Len(s) \in Nat /\ DOMAIN s = 1 .. Len(s) /\ s = [i \in 1 .. Len(s) |-> s[i]]
      /\ Len(t) \in Nat /\ DOMAIN t = 1 .. Len(t) /\ t = [i \in 1 .. Len(t) |-> t[i]]
  BY ListProperties
<1>2. s \in [1 .. Len(s) -> T] /\ t \in [1 .. Len(t) -> T]
  BY <1>1
<1>3. s \in Seq(T) /\ t \in Seq(T)
  BY <1>1, <1>2, SeqDef
<1> HIDE DEF T
<1>4. s \o t \in Seq(T) /\ Len(s \o t) = Len(s) + Len(t)
      /\ \A i \in 1 .. Len(s) + Len(t) : (s \o t)[i] = IF i <= Len(s) THEN s[i] ELSE t[i - Len(s)]
  BY <1>3, ConcatProperties
<1>5. IsList(s \o t)
  BY <1>4, ListIs
<1>6. ASSUME NEW i \in 1 .. Len(t)
      PROVE  (s \o t)[Len(s) + i] = t[i]
  <2>1. Len(s) + i \in 1 .. Len(s) + Len(t) /\ ~(Len(s) + i <= Len(s)) /\ Len(s) + i - Len(s) = i
    BY <1>1
  <2> QED BY <1>4, <2>1
<1> QED BY <1>4, <1>5, <1>6

\* The states of a reporter, from one call to the next.
Hears(r, start, calls, n, u) ==
    u = [i \in 0 .. n |-> IF i = 0 THEN start ELSE Told(r, u[i - 1], calls[i])]

LEMMA HearsExists ==
    ASSUME NEW n \in Nat, NEW r, NEW start, NEW calls
    PROVE  \E u : Hears(r, start, calls, n, u)
<1> DEFINE Up(k) == \E u : Hears(r, start, calls, k, u)
           S == {k \in 0 .. n : Up(k)}
<1>1. 0 \in S
  <2> DEFINE u == [i \in 0 .. 0 |-> start]
  <2>1. \A i \in 0 .. 0 : u[i] = IF i = 0 THEN start ELSE Told(r, u[i - 1], calls[i])
    OBVIOUS
  <2>2. u = [i \in 0 .. 0 |-> u[i]]
    OBVIOUS
  <2> HIDE DEF u
  <2>3. Hears(r, start, calls, 0, u)
    BY <2>1, <2>2 DEF Hears
  <2>4. Up(0)
    BY <2>3
  <2> HIDE DEF Up
  <2> QED BY <2>4
<1>2. ASSUME NEW k \in 0 .. n - 1, k \in S
      PROVE  k + 1 \in S
  <2>1. PICK u : Hears(r, start, calls, k, u)
    BY <1>2
  <2> DEFINE last == Told(r, u[k], calls[k + 1])
             longer == [i \in 0 .. k + 1 |-> IF i = k + 1 THEN last ELSE u[i]]
  <2> HIDE DEF last
  <2>2. \A i \in 0 .. k : longer[i] = u[i]
    OBVIOUS
  <2>3. longer[k + 1] = last /\ longer = [i \in 0 .. k + 1 |-> longer[i]]
    OBVIOUS
  <2>4. \A i \in 0 .. k : u[i] = IF i = 0 THEN start ELSE Told(r, u[i - 1], calls[i])
    BY <2>1 DEF Hears
  <2> HIDE DEF longer
  <2>5. ASSUME NEW i \in 0 .. k + 1
        PROVE  longer[i] = IF i = 0 THEN start ELSE Told(r, longer[i - 1], calls[i])
    <3>1. CASE i = k + 1
      <4>1. i # 0 /\ i - 1 = k /\ k \in 0 .. k
        BY <3>1
      <4>2. longer[i - 1] = u[k]
        BY <2>2, <4>1
      <4> QED BY <2>3, <3>1, <4>1, <4>2 DEF last
    <3>2. CASE i = 0
      <4>1. 0 \in 0 .. k
        OBVIOUS
      <4> QED BY <2>2, <2>4, <3>2, <4>1
    <3>3. CASE i # k + 1 /\ i # 0
      <4>1. i \in 0 .. k /\ i - 1 \in 0 .. k
        BY <3>3
      <4>2. longer[i] = u[i] /\ longer[i - 1] = u[i - 1]
        BY <2>2, <4>1
      <4>3. u[i] = Told(r, u[i - 1], calls[i])
        BY <2>4, <3>3, <4>1
      <4> QED BY <3>3, <4>2, <4>3
    <3> QED BY <3>1, <3>2, <3>3
  <2>6. Hears(r, start, calls, k + 1, longer)
    BY <2>3, <2>5 DEF Hears
  <2>7. Up(k + 1)
    BY <2>6
  <2>8. k + 1 \in 0 .. n
    OBVIOUS
  <2> HIDE DEF Up
  <2> QED BY <2>7, <2>8
<1> HIDE DEF Up
<1>3. S = 0 .. n
  BY <1>1, <1>2, Counting
<1>4. Up(n)
  BY <1>3
<1> QED BY <1>4 DEF Up

\* A call changes no field's name.
LEMMA ConsoleFields ==
    ASSUME NEW s, NEW call
    PROVE  DOMAIN Console(s, call) = DOMAIN s
<1>1. \A t : DOMAIN logTestStart(t) = DOMAIN t
  BY DEF logTestStart
<1>2. \A t, what : DOMAIN Write(t, what) = DOMAIN t
  BY DEF Write
<1>3. CASE call.kind = "test_case_end"
  BY <1>1, <1>2, <1>3 DEF Console
<1>4. CASE call.kind = "test_case_exception"
  BY <1>1, <1>2, <1>4 DEF Console
<1>5. CASE call.kind = "log_assert"
  BY <1>1, <1>2, <1>5 DEF Console
<1>6. CASE call.kind \notin {"test_case_end", "test_case_exception", "log_assert"}
  BY <1>6 DEF Console
<1> QED BY <1>3, <1>4, <1>5, <1>6

\* What the runner tells the reporters leaves their fields, and the summary of
\* the console is that of the end of the run.
LEMMA ConsoleTold ==
    ASSUME NEW before, NEW calls, Len(calls) \in Nat, "console" \in DOMAIN before
    PROVE  /\ DOMAIN Notified(before, calls)["console"] = DOMAIN before["console"]
           /\ \A st : Len(calls) # 0 /\ calls[Len(calls)] = [kind |-> "test_run_end", stats |-> st]
                        /\ "summary" \in DOMAIN before["console"] =>
                 Notified(before, calls)["console"].summary
                    = <<st.passing, st.failedCases, st.cases - st.passing, st.asserts, st.failedAsserts>>
<1> DEFINE n == Len(calls)
           start == before["console"]
           Is(u) == u = [i \in 0 .. n |-> IF i = 0 THEN start ELSE Told("console", u[i - 1], calls[i])]
           w == CHOOSE u : Is(u)
<1>1. \E u : Is(u)
  <2>1. n \in Nat
    OBVIOUS
  <2> HIDE DEF n, start
  <2>2. PICK u : Hears("console", start, calls, n, u)
    BY <2>1, HearsExists
  <2>3. Is(u)
    BY <2>2 DEF Hears
  <2> HIDE DEF Is
  <2> QED BY <2>3
<1>2. Is(w)
  BY <1>1
<1>3. Notified(before, calls)["console"] = w[n]
  BY DEF Notified
<1> HIDE DEF w
<1>4. w[0] = start /\ \A i \in 1 .. n : w[i] = Console(w[i - 1], calls[i])
  <2>1. \A i \in 0 .. n : w[i] = IF i = 0 THEN start ELSE Told("console", w[i - 1], calls[i])
    BY <1>2
  <2>2. \A s, c : Told("console", s, c) = Console(s, c)
    BY DEF Told
  <2>3. \A i \in 1 .. n : i \in 0 .. n /\ i # 0
    OBVIOUS
  <2>4. 0 \in 0 .. n
    OBVIOUS
  <2> QED BY <2>1, <2>2, <2>3, <2>4
<1> DEFINE S == {i \in 0 .. n : DOMAIN w[i] = DOMAIN start}
<1>5. S = 0 .. n
  <2>1. 0 \in S
    BY <1>4
  <2>2. ASSUME NEW k \in 0 .. n - 1, k \in S
        PROVE  k + 1 \in S
    <3>1. k + 1 \in 1 .. n /\ k + 1 \in 0 .. n /\ k + 1 - 1 = k
      OBVIOUS
    <3>2. w[k + 1] = Console(w[k], calls[k + 1])
      BY <1>4, <3>1
    <3> QED BY <2>2, <3>1, <3>2, ConsoleFields
  <2>3. S \in SUBSET (0 .. n)
    OBVIOUS
  <2> HIDE DEF S, n
  <2> QED BY <2>1, <2>2, <2>3, Counting DEF n
<1>6. DOMAIN w[n] = DOMAIN start
  <2>1. n \in S
    BY <1>5
  <2> QED BY <2>1
<1>7. ASSUME NEW st, n # 0, calls[n] = [kind |-> "test_run_end", stats |-> st], "summary" \in DOMAIN start
      PROVE  w[n].summary = <<st.passing, st.failedCases, st.cases - st.passing, st.asserts, st.failedAsserts>>
  <2>1. n \in 1 .. n /\ n - 1 \in S
    BY <1>5, <1>7
  <2>2. w[n] = Console(w[n - 1], calls[n]) /\ "summary" \in DOMAIN w[n - 1]
    BY <1>4, <1>7, <2>1
  <2> DEFINE v == w[n - 1]
             told == <<st.passing, st.failedCases, st.cases - st.passing, st.asserts, st.failedAsserts>>
  <2> HIDE DEF v
  <2>3. calls[n].kind = "test_run_end" /\ calls[n].stats = st
    BY <1>7
  <2>4. Console(v, calls[n]) = [v EXCEPT !.summary = told]
    BY <2>3 DEF Console
  <2> HIDE DEF told
  <2>5. [v EXCEPT !.summary = told].summary = told
    BY <2>2 DEF v
  <2> QED BY <2>2, <2>4, <2>5 DEF v, told
<1> HIDE DEF n, start
<1> QED BY <1>3, <1>6, <1>7 DEF n, start
--------------------------------------------------------------------------------
(* The inductive invariant.                                                  *)

\* The counts are those of the first k test cases.
StatsOf(st, l, k, limit) ==
    /\ st = [cases |-> st.cases, passing |-> st.passing, suites |-> st.suites,
             failedCases |-> st.failedCases, asserts |-> st.asserts, failedAsserts |-> st.failedAsserts]
    /\ st.failedAsserts = FailedUpTo(l, k) /\ st.asserts = AssertsUpTo(l, k)
    /\ st.failedCases = Cardinality(BadIn(l, k, limit))

\* What is known of the test case that runs is what its runs have shown.
OpenEntry(e, test, c) ==
    /\ e.test = test /\ e.late = FALSE
    /\ c = [flags |-> c.flags, asserts |-> c.asserts, failed |-> c.failed]
    /\ c.failed = FailedIn(e) /\ c.asserts = AssertsIn(e)
    /\ c.flags \subseteq {"AssertFailure", "Exception"}
    /\ c.flags # {} <=> \E i \in DOMAIN e.runs : e.runs[i].end \in {"failure", "exception"}
    /\ e.runs[Len(e.runs)].end = "open"
    /\ \A i \in DOMAIN e.runs : i # Len(e.runs) => e.runs[i].end \in {"returned", "failure", "exception"}

Course(th, sc, tr) ==
    /\ th \in {"nothing", "failure", "exception"}
    /\ IsList(sc) /\ Len(sc) # 0
    /\ "active" \in DOMAIN tr /\ tr.active = Len(sc) - 1

\* The test cases that have been judged: all but the one that runs.
Judged == IF phase = "body" THEN Len(log) - 1 ELSE Len(log)

Listening(heard) == "console" \in DOMAIN heard => "summary" \in DOMAIN heard["console"]

Summed(heard, st) ==
    "console" \in DOMAIN heard =>
        heard["console"].summary = <<st.passing, st.failedCases, st.cases - st.passing, st.asserts, st.failedAsserts>>

VerdictInv ==
    /\ invocation \in Invocations /\ p = parseArgs(invocation.args, MaxUnsigned, MaxInt)
    /\ phase \in {"start", "select", "body", "report", "ended", "killed"}
    /\ IsLog(log)
    /\ phase = "start" => log = <<>>
    /\ StatsOf(stats, log, Judged, invocation.asked.abort_after)
    /\ phase = "body" => /\ Len(log) # 0
                         /\ OpenEntry(log[Len(log)], Test, current)
                         /\ Course(thrown, scopes, traversal)
    /\ Running /\ phase # "start" => stats.cases = Cardinality(invocation.tests)
    /\ Listening(reporters)
    /\ Over /\ Running => Summed(reporters, stats)
--------------------------------------------------------------------------------
(* The steps.                                                                *)

LEMMA NotifiedKeeps ==
    ASSUME NEW before, Listening(before), NEW calls, Len(calls) \in Nat
    PROVE  Listening(Notified(before, calls))
<1>1. DOMAIN Notified(before, calls) = DOMAIN before
  BY DEF Notified
<1>2. CASE "console" \in DOMAIN before
  <2>1. DOMAIN Notified(before, calls)["console"] = DOMAIN before["console"]
    BY <1>2, ConsoleTold
  <2> QED BY <1>2, <2>1 DEF Listening
<1>3. CASE "console" \notin DOMAIN before
  BY <1>1, <1>3 DEF Listening
<1> QED BY <1>2, <1>3

LEMMA NotifiedSums ==
    ASSUME NEW before, Listening(before), NEW calls, Len(calls) \in Nat, Len(calls) # 0,
           NEW st, calls[Len(calls)] = [kind |-> "test_run_end", stats |-> st]
    PROVE  Summed(Notified(before, calls), st)
<1>1. DOMAIN Notified(before, calls) = DOMAIN before
  BY DEF Notified
<1>2. CASE "console" \in DOMAIN before
  <2>1. "summary" \in DOMAIN before["console"]
    BY <1>2 DEF Listening
  <2>2. Notified(before, calls)["console"].summary
          = <<st.passing, st.failedCases, st.cases - st.passing, st.asserts, st.failedAsserts>>
    BY <1>2, <2>1, ConsoleTold
  <2> QED BY <2>2 DEF Summed
<1>3. CASE "console" \notin DOMAIN before
  BY <1>1, <1>3 DEF Summed
<1> QED BY <1>2, <1>3

LEMMA ShortCalls ==
    /\ \A c : IsList(<<c>>) /\ Len(<<c>>) = 1
    /\ \A c, d : IsList(<<c, d>>) /\ Len(<<c, d>>) = 2 /\ <<c, d>>[2] = d
    /\ IsList(<<>>) /\ Len(<<>>) = 0
<1>1. ASSUME NEW c PROVE IsList(<<c>>) /\ Len(<<c>>) = 1
  <2>1. <<c>> \in Seq({c}) /\ Len(<<c>>) = 1
    OBVIOUS
  <2> QED BY <2>1, ListIs
<1>2. ASSUME NEW c, NEW d PROVE IsList(<<c, d>>) /\ Len(<<c, d>>) = 2 /\ <<c, d>>[2] = d
  <2>1. <<c, d>> \in Seq({c, d}) /\ Len(<<c, d>>) = 2 /\ <<c, d>>[2] = d
    OBVIOUS
  <2> QED BY <2>1, ListIs
<1>3. IsList(<<>>) /\ Len(<<>>) = 0
  <2>1. <<>> \in Seq({}) /\ Len(<<>>) = 0
    OBVIOUS
  <2> QED BY <2>1, ListIs
<1> QED BY <1>1, <1>2, <1>3

\* An entry takes the place of the last one.
LEMMA LastEntryChanged ==
    ASSUME NEW l, IsLog(l), Len(l) # 0, NEW d, IsEntry(d), NEW m, m = [l EXCEPT ![Len(l)] = d]
    PROVE  /\ IsLog(m) /\ Len(m) = Len(l) /\ Len(l) \in Nat /\ m[Len(m)] = d
           /\ \A n \in 1 .. Len(l) - 1 : m[n] = l[n]
<1> DEFINE k == Len(l)
<1>1. IsList(l) /\ k \in Nat /\ k # 0 /\ DOMAIN l = 1 .. k /\ k \in DOMAIN l
  BY ListProperties DEF IsLog
<1>2. /\ IsList(m) /\ Len(m) = k /\ \A i \in 1 .. k : m[i] = IF i = k THEN d ELSE l[i]
  BY <1>1, ChangedList
<1> HIDE DEF k
<1>3. \A i \in 1 .. k : IsEntry(m[i])
  BY <1>1, <1>2 DEF IsLog, k
<1>4. IsLog(m)
  BY <1>2, <1>3 DEF IsLog
<1>5. m[k] = d /\ \A n \in 1 .. k - 1 : m[n] = l[n]
  BY <1>1, <1>2
<1> QED BY <1>1, <1>2, <1>4, <1>5 DEF k

\* The counts are not those of the test case that runs.
LEMMA EntryReplaced ==
    ASSUME NEW l, IsLog(l), Len(l) # 0, NEW st, NEW limit, StatsOf(st, l, Len(l) - 1, limit),
           NEW d, IsEntry(d)
    PROVE  LET m == [l EXCEPT ![Len(l)] = d]
           IN  IsLog(m) /\ Len(m) # 0 /\ m[Len(m)] = d /\ StatsOf(st, m, Len(m) - 1, limit)
<1> DEFINE k == Len(l) - 1
           m == [l EXCEPT ![Len(l)] = d]
<1>1. IsLog(m) /\ Len(m) = Len(l) /\ Len(l) \in Nat /\ m[Len(m)] = d /\ \A n \in 1 .. Len(l) - 1 : m[n] = l[n]
  BY LastEntryChanged
<1> HIDE DEF m
<1>2. k \in Nat
  BY <1>1
<1>3. \A n \in 1 .. k : m[n] = l[n]
  BY <1>1
<1> HIDE DEF k
<1>4. FailedUpTo(m, k) = FailedUpTo(l, k) /\ AssertsUpTo(m, k) = AssertsUpTo(l, k)
      /\ BadIn(m, k, limit) = BadIn(l, k, limit)
  BY <1>2, <1>3, SameCounts
<1>5. StatsOf(st, l, k, limit)
  BY DEF k
<1>6. StatsOf(st, m, k, limit)
  BY <1>4, <1>5 DEF StatsOf
<1>7. StatsOf(st, m, Len(m) - 1, limit)
  BY <1>1, <1>6 DEF k
<1> QED BY <1>1, <1>7 DEF m

\* A step of the test case that runs.
LEMMA BodyKeeps ==
    ASSUME VerdictInv, phase = "body", phase' = "body",
           invocation' = invocation, p' = p, testArray' = testArray, at' = at, stats' = stats,
           NEW d, IsEntry(d), log' = [log EXCEPT ![Len(log)] = d],
           OpenEntry(d, Test, current'), Course(thrown', scopes', traversal'), Listening(reporters')
    PROVE  VerdictInv'
<1> DEFINE limit == invocation.asked.abort_after
           m == [log EXCEPT ![Len(log)] = d]
<1>1. IsLog(log) /\ Len(log) # 0 /\ StatsOf(stats, log, Len(log) - 1, limit)
  BY DEF VerdictInv, Judged
<1> HIDE DEF limit
<1>2. IsLog(m) /\ Len(m) # 0 /\ m[Len(m)] = d /\ StatsOf(stats, m, Len(m) - 1, limit)
  BY <1>1, EntryReplaced
<1>3. log' = m
  OBVIOUS
<1> HIDE DEF m
<1>4. IsLog(log') /\ Len(log') # 0 /\ log'[Len(log')] = d /\ StatsOf(stats, log', Len(log') - 1, limit)
  BY <1>2, <1>3
<1>5. StatsOf(stats', log', Judged', invocation'.asked.abort_after)
  BY <1>4 DEF Judged, limit
<1>6. OpenEntry(log'[Len(log')], Test', current')
  <2>1. Test' = Test
    BY DEF Test
  <2> QED BY <1>4, <2>1
<1>7. Running' /\ phase' # "start" => stats'.cases = Cardinality(invocation'.tests)
  BY DEF VerdictInv, Running, Asked
<1>8. invocation' \in Invocations /\ p' = parseArgs(invocation'.args, MaxUnsigned, MaxInt)
  BY DEF VerdictInv
<1> QED BY <1>4, <1>5, <1>6, <1>7, <1>8 DEF VerdictInv, Over

\* The statements that are left of the innermost body.
LEMMA Proceeds ==
    ASSUME IsList(scopes), Len(scopes) # 0
    PROVE  IsList(Proceeded) /\ Len(Proceeded) = Len(scopes)
<1> DEFINE e == [scopes[Len(scopes)] EXCEPT !.rest = Tail(@)]
<1>1. Len(scopes) \in Nat /\ DOMAIN scopes = 1 .. Len(scopes) /\ Len(scopes) \in DOMAIN scopes
  BY ListProperties
<1>2. Proceeded = [scopes EXCEPT ![Len(scopes)] = e]
  BY DEF Proceeded
<1> HIDE DEF e
<1> QED BY <1>1, <1>2, ChangedList

\* The run that is open, and what the log is when it changes.
LEMMA OpenRunChanged ==
    ASSUME NEW e, IsEntry(e), NEW test, NEW c0, OpenEntry(e, test, c0),
           NEW r, IsRun(r), r.end = "open",
           NEW c, c = [flags |-> c0.flags, asserts |-> c.asserts, failed |-> c.failed],
           c.failed + e.runs[Len(e.runs)].failed = c0.failed + r.failed,
           c.asserts + e.runs[Len(e.runs)].asserts = c0.asserts + r.asserts,
           c.failed \in Nat, c.asserts \in Nat
    PROVE  LET d == [e EXCEPT !.runs[Len(e.runs)] = r] IN IsEntry(d) /\ OpenEntry(d, test, c)
<1> DEFINE d == [e EXCEPT !.runs[Len(e.runs)] = r]
           old == e.runs[Len(e.runs)]
<1> HIDE DEF d
<1>1. /\ IsEntry(d) /\ d.test = e.test /\ d.late = e.late /\ Len(d.runs) = Len(e.runs)
      /\ DOMAIN d.runs = DOMAIN e.runs
      /\ \A i \in DOMAIN e.runs : d.runs[i] = IF i = Len(e.runs) THEN r ELSE e.runs[i]
      /\ FailedIn(d) + old.failed = FailedIn(e) + r.failed
      /\ AssertsIn(d) + old.asserts = AssertsIn(e) + r.asserts
  BY LastRunChanged DEF d
<1>2. Len(e.runs) \in Nat /\ DOMAIN e.runs = 1 .. Len(e.runs) /\ Len(e.runs) \in DOMAIN e.runs
  BY ListProperties DEF IsEntry
<1>3. old.failed \in Nat /\ old.asserts \in Nat
  BY <1>2 DEF IsEntry, IsRun
<1>4. FailedIn(d) = c.failed /\ AssertsIn(d) = c.asserts
  <2>1. FailedIn(d) \in Nat /\ AssertsIn(d) \in Nat
    BY <1>1, EntryCounts
  <2>2. c0.failed = FailedIn(e) /\ c0.asserts = AssertsIn(e) /\ FailedIn(e) \in Nat /\ AssertsIn(e) \in Nat
    BY EntryCounts DEF OpenEntry
  <2>3. r.failed \in Nat /\ r.asserts \in Nat
    BY DEF IsRun
  <2>4. FailedIn(d) + old.failed = c.failed + old.failed /\ AssertsIn(d) + old.asserts = c.asserts + old.asserts
    BY <1>1, <2>2
  <2> DEFINE a1 == FailedIn(d)
             a2 == AssertsIn(d)
             b1 == old.failed
             b2 == old.asserts
             c1 == c.failed
             c2 == c.asserts
  <2>5. a1 \in Nat /\ a2 \in Nat /\ b1 \in Nat /\ b2 \in Nat /\ c1 \in Nat /\ c2 \in Nat
        /\ a1 + b1 = c1 + b1 /\ a2 + b2 = c2 + b2
    BY <1>3, <2>1, <2>4
  <2> HIDE DEF a1, a2, b1, b2, c1, c2
  <2>6. a1 = c1 /\ a2 = c2
    BY ONLY <2>5
  <2> QED BY <2>6 DEF a1, a2, c1, c2
<1>5. c.flags = c0.flags
  <2>1. [flags |-> c0.flags, asserts |-> c.asserts, failed |-> c.failed].flags = c0.flags
    OBVIOUS
  <2> QED BY <2>1
<1>6. /\ c.flags \subseteq {"AssertFailure", "Exception"}
      /\ c.flags # {} <=> \E i \in DOMAIN d.runs : d.runs[i].end \in {"failure", "exception"}
  <2>1. /\ c0.flags \subseteq {"AssertFailure", "Exception"}
        /\ c0.flags # {} <=> \E i \in DOMAIN e.runs : e.runs[i].end \in {"failure", "exception"}
        /\ e.runs[Len(e.runs)].end = "open"
    BY DEF OpenEntry
  <2>2. \A i \in DOMAIN e.runs : d.runs[i].end \in {"failure", "exception"} <=> e.runs[i].end \in {"failure", "exception"}
    BY <1>1, <2>1
  <2> QED BY <1>1, <1>5, <2>1, <2>2
<1>7. /\ d.runs[Len(d.runs)].end = "open"
       /\ \A i \in DOMAIN d.runs : i # Len(d.runs) => d.runs[i].end \in {"returned", "failure", "exception"}
  <2>1. \A i \in DOMAIN e.runs : i # Len(e.runs) => e.runs[i].end \in {"returned", "failure", "exception"}
    BY DEF OpenEntry
  <2> QED BY <1>1, <1>2, <2>1
<1>8. d.test = test /\ d.late = FALSE
  BY <1>1 DEF OpenEntry
<1>9. OpenEntry(d, test, c)
  BY <1>4, <1>5, <1>6, <1>7, <1>8 DEF OpenEntry
<1> QED BY <1>1, <1>9 DEF d

LEMMA OpenRun ==
    ASSUME VerdictInv, phase = "body", NEW e, e = log[Len(log)], NEW old, old = e.runs[Len(e.runs)]
    PROVE  /\ IsEntry(e) /\ OpenEntry(e, Test, current) /\ IsRun(old) /\ old.end = "open"
           /\ Len(log) \in Nat /\ Len(log) # 0 /\ Len(log) \in DOMAIN log
           /\ Len(e.runs) \in Nat /\ Len(e.runs) # 0 /\ Len(e.runs) \in DOMAIN e.runs /\ DOMAIN e.runs = 1 .. Len(e.runs)
           /\ log = [n \in 1 .. Len(log) |-> log[n]] /\ DOMAIN log = 1 .. Len(log)
<1>1. IsLog(log) /\ Len(log) # 0 /\ OpenEntry(e, Test, current)
  BY DEF VerdictInv
<1>2. Len(log) \in Nat /\ DOMAIN log = 1 .. Len(log) /\ log = [n \in 1 .. Len(log) |-> log[n]]
  BY <1>1, ListProperties DEF IsLog
<1>3. IsEntry(e)
  BY <1>1, <1>2 DEF IsLog
<1>4. Len(e.runs) \in Nat /\ DOMAIN e.runs = 1 .. Len(e.runs) /\ Len(e.runs) # 0
  BY <1>3, ListProperties DEF IsEntry
<1>5. IsRun(old) /\ old.end = "open"
  BY <1>1, <1>3, <1>4 DEF IsEntry, OpenEntry
<1> QED BY <1>1, <1>2, <1>3, <1>4, <1>5

\* A statement that changes the open run and what is counted of it.
LEMMA RunStep ==
    ASSUME VerdictInv, phase = "body", phase' = "body",
           invocation' = invocation, p' = p, testArray' = testArray, at' = at, stats' = stats,
           NEW e, e = log[Len(log)], NEW old, old = e.runs[Len(e.runs)],
           NEW r, IsRun(r), r.end = "open",
           log' = [log EXCEPT ![Len(log)].runs[Len(e.runs)] = r],
           current' = [flags |-> current.flags, asserts |-> current'.asserts, failed |-> current'.failed],
           current'.failed + old.failed = current.failed + r.failed,
           current'.asserts + old.asserts = current.asserts + r.asserts,
           current'.failed \in Nat, current'.asserts \in Nat,
           Course(thrown', scopes', traversal'), Listening(reporters')
    PROVE  VerdictInv'
<1> DEFINE c == current'
           d == [e EXCEPT !.runs[Len(e.runs)] = r]
<1>1. IsEntry(e) /\ OpenEntry(e, Test, current)
  BY OpenRun
<1>2. IsEntry(d) /\ OpenEntry(d, Test, c)
  <2>1. /\ c = [flags |-> current.flags, asserts |-> c.asserts, failed |-> c.failed]
        /\ c.failed + e.runs[Len(e.runs)].failed = current.failed + r.failed
        /\ c.asserts + e.runs[Len(e.runs)].asserts = current.asserts + r.asserts
        /\ c.failed \in Nat /\ c.asserts \in Nat
    OBVIOUS
  <2>2. IsRun(r) /\ r.end = "open"
    OBVIOUS
  <2> HIDE DEF c
  <2> QED BY ONLY <1>1, <2>1, <2>2, OpenRunChanged
<1>3. log' = [log EXCEPT ![Len(log)] = d]
  OBVIOUS
<1> HIDE DEF d
<1> QED BY <1>2, <1>3, BodyKeeps

\* One that leaves the log and the counts as they are.
LEMMA QuietStep ==
    ASSUME VerdictInv, phase = "body", phase' = "body",
           invocation' = invocation, p' = p, testArray' = testArray, at' = at, stats' = stats,
           log' = log, current' = current,
           Course(thrown', scopes', traversal'), Listening(reporters')
    PROVE  VerdictInv'
<1> DEFINE e == log[Len(log)]
<1>1. IsEntry(e) /\ OpenEntry(e, Test, current) /\ Len(log) \in DOMAIN log /\ log = [n \in 1 .. Len(log) |-> log[n]]
      /\ DOMAIN log = 1 .. Len(log)
  BY OpenRun
<1>2. log' = [log EXCEPT ![Len(log)] = e]
  BY <1>1
<1>3. OpenEntry(e, Test, current')
  BY <1>1
<1> HIDE DEF e
<1> QED BY <1>1, <1>2, <1>3, BodyKeeps

LEMMA CountsAreNumbers ==
    ASSUME VerdictInv, phase = "body"
    PROVE  /\ current.failed \in Nat /\ current.asserts \in Nat
           /\ current = [flags |-> current.flags, asserts |-> current.asserts, failed |-> current.failed]
<1> DEFINE e == log[Len(log)]
<1>1. IsEntry(e) /\ OpenEntry(e, Test, current)
  BY OpenRun
<1> HIDE DEF e
<1> QED BY <1>1, EntryCounts DEF OpenEntry

LEMMA RunKept ==
    ASSUME NEW old, IsRun(old), NEW x
    PROVE  /\ LET r == [old EXCEPT !.events = x]
              IN  IsRun(r) /\ r.end = old.end /\ r.failed = old.failed /\ r.asserts = old.asserts
           /\ LET r == [old EXCEPT !.depth = x]
              IN  IsRun(r) /\ r.end = old.end /\ r.failed = old.failed /\ r.asserts = old.asserts
           /\ LET r == [old EXCEPT !.end = x]
              IN  x \in Ends => IsRun(r) /\ r.end = x /\ r.failed = old.failed /\ r.asserts = old.asserts
<1>1. PICK v, a, f, u, d, z : old = [events |-> v, asserts |-> a, failed |-> f, under |-> u, depth |-> d, end |-> z]
  BY DEF IsRun
<1>2. a \in Nat /\ f \in Nat /\ z \in Ends
  BY <1>1 DEF IsRun
<1>3. /\ [old EXCEPT !.events = x] = [events |-> x, asserts |-> a, failed |-> f, under |-> u, depth |-> d, end |-> z]
      /\ [old EXCEPT !.depth = x] = [events |-> v, asserts |-> a, failed |-> f, under |-> u, depth |-> x, end |-> z]
      /\ [old EXCEPT !.end = x] = [events |-> v, asserts |-> a, failed |-> f, under |-> u, depth |-> d, end |-> x]
  BY <1>1
<1> QED BY <1>1, <1>2, <1>3 DEF IsRun

\* A choice is added to the open run.
LEMMA LoggedEvent ==
    ASSUME VerdictInv, phase = "body", phase' = "body",
           invocation' = invocation, p' = p, testArray' = testArray, at' = at, stats' = stats, current' = current,
           NEW entry, log' = Logged("events", entry),
           Course(thrown', scopes', traversal'), Listening(reporters')
    PROVE  VerdictInv'
<1> DEFINE e == log[Len(log)]
           old == e.runs[Len(e.runs)]
           r == [old EXCEPT !.events = Append(@, entry)]
<1>1. IsRun(old) /\ old.end = "open"
  BY OpenRun
<1>2. log' = [log EXCEPT ![Len(log)].runs[Len(e.runs)] = r]
  BY DEF Logged
<1>3. IsRun(r) /\ r.end = "open" /\ r.failed = old.failed /\ r.asserts = old.asserts
  <2> HIDE DEF old
  <2> QED BY <1>1, RunKept
<1>4. current.failed \in Nat /\ current.asserts \in Nat
      /\ current = [flags |-> current.flags, asserts |-> current.asserts, failed |-> current.failed]
  BY CountsAreNumbers
<1> HIDE DEF r, old, e
<1> QED BY <1>2, <1>3, <1>4, RunStep DEF e, old

\* How many subcases are open, as the traversal counts them.
LEMMA ActiveTried ==
    ASSUME NEW t, "active" \in DOMAIN t, NEW signature, NEW tried, tried = TryEnter(t, signature)
    PROVE  /\ "active" \in DOMAIN tried.traversal
           /\ tried.enter \in BOOLEAN
           /\ tried.enter => tried.traversal.active = t.active + 1
           /\ ~tried.enter => tried.traversal.active = t.active
<1> DEFINE e == Ensured(t)
           d == t.depth + 1
           siblings == e.discovered[d].subcases
           known == Contains(siblings, signature)
           all == IF known THEN siblings ELSE Append(siblings, signature)
           index == CHOOSE i \in DOMAIN all : all[i] = signature
           point == [branch_count |-> Len(all), subcases |-> all]
           met == [e EXCEPT !.discovered[d] = point]
           deeper == [met EXCEPT !.entered = Append(@, t.depth), !.active = @ + 1, !.depth = @ + 1]
<1>1. "active" \in DOMAIN e /\ e.active = t.active
  BY DEF Ensured
<1>2. tried = IF index - 1 # e.decision[d] THEN [traversal |-> met, enter |-> FALSE]
              ELSE [traversal |-> deeper, enter |-> TRUE]
  BY DEF TryEnter
<1> HIDE DEF e, index, point
<1>3. "active" \in DOMAIN met /\ met.active = t.active
  BY <1>1
<1> HIDE DEF met
<1>4. "active" \in DOMAIN deeper /\ deeper.active = t.active + 1
  BY <1>3
<1> HIDE DEF deeper
<1> QED BY <1>2, <1>3, <1>4

LEMMA ActiveAcquired ==
    ASSUME NEW t, "active" \in DOMAIN t, NEW count
    PROVE  /\ "active" \in DOMAIN Acquire(t, count).traversal
           /\ Acquire(t, count).traversal.active = t.active
<1> DEFINE e == Ensured(t)
           after == [e EXCEPT !.discovered[t.depth + 1].branch_count = count, !.depth = @ + 1]
<1>1. "active" \in DOMAIN e /\ e.active = t.active
  BY DEF Ensured
<1>2. Acquire(t, count).traversal = after
  BY DEF Acquire
<1> HIDE DEF e
<1>3. "active" \in DOMAIN after /\ after.active = t.active
  BY <1>1
<1> QED BY <1>2, <1>3

LEMMA ActiveLeft ==
    ASSUME NEW t, "active" \in DOMAIN t
    PROVE  "active" \in DOMAIN Leave(t) /\ Leave(t).active = t.active - 1
BY DEF Leave

LEMMA FrontList ==
    ASSUME NEW s, IsList(s), Len(s) > 1
    PROVE  IsList(Front(s)) /\ Len(Front(s)) = Len(s) - 1
<1>1. Len(s) \in Nat /\ DOMAIN s = 1 .. Len(s) /\ s = [i \in 1 .. Len(s) |-> s[i]]
  BY ListProperties
<1> DEFINE k == Len(s) - 1
           f == [i \in 1 .. k |-> s[i]]
<1>2. k \in Nat
  BY <1>1
<1>3. Front(s) = f
  BY <1>1 DEF Front, SubSeq
<1>4. DOMAIN f = 1 .. k /\ f = [i \in 1 .. k |-> f[i]]
  OBVIOUS
<1> HIDE DEF f, k
<1>5. IsList(f) /\ Len(f) = k
  BY <1>2, <1>4, FunctionIsList
<1> QED BY <1>3, <1>5 DEF k

\* The next statement of the same body.
LEMMA CourseProceeds ==
    ASSUME Course(thrown, scopes, traversal), NEW th \in {"nothing", "failure", "exception"},
           NEW tr, "active" \in DOMAIN tr, tr.active = traversal.active
    PROVE  Course(th, Proceeded, tr)
<1>1. IsList(scopes) /\ Len(scopes) # 0 /\ traversal.active = Len(scopes) - 1
  BY DEF Course
<1>2. IsList(Proceeded) /\ Len(Proceeded) = Len(scopes)
  BY <1>1, Proceeds
<1> QED BY <1>1, <1>2 DEF Course

LEMMA Body ==
    ASSUME VerdictInv, phase = "body"
    PROVE  Course(thrown, scopes, traversal) /\ Listening(reporters)
BY DEF VerdictInv

LEMMA EnterSubcaseKeeps ==
    ASSUME VerdictInv, EnterSubcase
    PROVE  VerdictInv'
<1> DEFINE name == Statement.name
           tried == TryEnter(traversal, [name |-> Statement.name, line |-> Statement.line])
           deeper == Append(Proceeded, [rest |-> Statement.body, name |-> Statement.name])
           calls == <<[kind |-> "subcase_start", name |-> Statement.name]>>
           entry == <<"enter", Statement.name, Statement.line>>
<1>1. /\ phase = "body" /\ phase' = "body" /\ thrown' = thrown
      /\ invocation' = invocation /\ p' = p /\ testArray' = testArray /\ at' = at /\ stats' = stats
      /\ current' = current
  BY DEF EnterSubcase, Executing
<1>2. Course(thrown, scopes, traversal) /\ Listening(reporters)
  BY <1>1, Body
<1>3. \/ scopes' = Proceeded /\ traversal' = traversal /\ reporters' = reporters /\ log' = log
      \/ ~tried.enter /\ scopes' = Proceeded /\ traversal' = tried.traversal /\ reporters' = reporters /\ log' = log
      \/ /\ tried.enter /\ scopes' = deeper /\ traversal' = tried.traversal
         /\ reporters' = Notified(reporters, calls) /\ log' = Logged("events", entry)
  BY DEF EnterSubcase, Notify
<1>4. /\ "active" \in DOMAIN tried.traversal
      /\ tried.enter => tried.traversal.active = traversal.active + 1
      /\ ~tried.enter => tried.traversal.active = traversal.active
  BY <1>2, ActiveTried DEF Course
<1>5. thrown \in {"nothing", "failure", "exception"} /\ "active" \in DOMAIN traversal
      /\ IsList(scopes) /\ Len(scopes) # 0 /\ traversal.active = Len(scopes) - 1
  BY <1>2 DEF Course
<1>6. Listening(Notified(reporters, calls))
  BY <1>2, NotifiedKeeps, ShortCalls
<1>7. Course(thrown, deeper, tried.traversal) \/ ~tried.enter
  <2>1. IsList(Proceeded) /\ Len(Proceeded) = Len(scopes) /\ Len(scopes) \in Nat
    BY <1>5, Proceeds, ListProperties
  <2>2. IsList(deeper) /\ Len(deeper) = Len(Proceeded) + 1
    BY <2>1, AppendedList
  <2> HIDE DEF tried, deeper
  <2> QED BY <1>4, <1>5, <2>1, <2>2 DEF Course
<1> HIDE DEF tried, deeper, calls, entry
<1>8. Course(thrown, Proceeded, traversal)
  BY <1>2, <1>5, CourseProceeds
<1>9. ~tried.enter => Course(thrown, Proceeded, tried.traversal)
  BY <1>2, <1>4, <1>5, CourseProceeds
<1>10. CASE scopes' = Proceeded /\ traversal' = traversal /\ reporters' = reporters /\ log' = log
  BY <1>1, <1>2, <1>8, <1>10, QuietStep
<1>11. CASE ~tried.enter /\ scopes' = Proceeded /\ traversal' = tried.traversal /\ reporters' = reporters /\ log' = log
  BY <1>1, <1>2, <1>9, <1>11, QuietStep
<1>12. CASE /\ tried.enter /\ scopes' = deeper /\ traversal' = tried.traversal
            /\ reporters' = Notified(reporters, calls) /\ log' = Logged("events", entry)
  BY <1>1, <1>6, <1>7, <1>12, LoggedEvent
<1> QED BY <1>3, <1>10, <1>11, <1>12

LEMMA GenerateKeeps ==
    ASSUME VerdictInv, Generate
    PROVE  VerdictInv'
<1> DEFINE acquired == Acquire(traversal, Statement.count)
           entry == <<"value", acquired.index>>
<1>1. /\ phase = "body" /\ phase' = "body" /\ thrown' = thrown
      /\ invocation' = invocation /\ p' = p /\ testArray' = testArray /\ at' = at /\ stats' = stats
      /\ current' = current /\ reporters' = reporters
      /\ traversal' = acquired.traversal /\ scopes' = Proceeded /\ log' = Logged("events", entry)
  BY DEF Generate, Executing
<1>2. Course(thrown, scopes, traversal) /\ Listening(reporters)
  BY <1>1, Body
<1>3. thrown \in {"nothing", "failure", "exception"} /\ "active" \in DOMAIN traversal
  BY <1>2 DEF Course
<1>4. "active" \in DOMAIN acquired.traversal /\ acquired.traversal.active = traversal.active
  BY <1>3, ActiveAcquired
<1> HIDE DEF acquired
<1>5. Course(thrown, Proceeded, acquired.traversal)
  BY <1>2, <1>3, <1>4, CourseProceeds
<1> HIDE DEF entry
<1> QED BY <1>1, <1>2, <1>5, LoggedEvent

LEMMA CountsChanged ==
    ASSUME NEW c, c = [flags |-> c.flags, asserts |-> c.asserts, failed |-> c.failed], NEW a, NEW f
    PROVE  [c EXCEPT !.asserts = a, !.failed = f] = [flags |-> c.flags, asserts |-> a, failed |-> f]
<1> DEFINE x == c.flags
           y == c.asserts
           z == c.failed
           k == [flags |-> x, asserts |-> a, failed |-> z]
<1>1. c = [flags |-> x, asserts |-> y, failed |-> z]
  OBVIOUS
<1> HIDE DEF x, y, z
<1>2. [c EXCEPT !.asserts = a] = k
  BY ONLY <1>1
<1>3. [k EXCEPT !.failed = f] = [flags |-> x, asserts |-> a, failed |-> f]
  OBVIOUS
<1> QED BY <1>2, <1>3 DEF x

\* A run with these counts.
Counted(run, a, f, u) == [run EXCEPT !.asserts = a, !.failed = f, !.under = u]

LEMMA RunCounted ==
    ASSUME NEW old, IsRun(old), NEW a \in Nat, NEW f \in Nat, NEW u
    PROVE  LET r == Counted(old, a, f, u)
           IN  IsRun(r) /\ r.end = old.end /\ r.asserts = a /\ r.failed = f
<1>1. PICK v, x, y, w, d, z : old = [events |-> v, asserts |-> x, failed |-> y, under |-> w, depth |-> d, end |-> z]
  BY DEF IsRun
<1>2. z \in Ends
  BY <1>1 DEF IsRun
<1> DEFINE r1 == [events |-> v, asserts |-> a, failed |-> y, under |-> w, depth |-> d, end |-> z]
           r2 == [events |-> v, asserts |-> a, failed |-> f, under |-> w, depth |-> d, end |-> z]
           r3 == [events |-> v, asserts |-> a, failed |-> f, under |-> u, depth |-> d, end |-> z]
<1>3. [old EXCEPT !.asserts = a] = r1
  BY ONLY <1>1
<1>4. [r1 EXCEPT !.failed = f] = r2 /\ [r2 EXCEPT !.under = u] = r3
  OBVIOUS
<1>5. [old EXCEPT !.asserts = a, !.failed = f, !.under = u] = r3
  <2> HIDE DEF r1, r2, r3
  <2> QED BY <1>3, <1>4
<1>6. IsRun(r3) /\ r3.end = z /\ r3.asserts = a /\ r3.failed = f
  BY <1>2 DEF IsRun
<1> HIDE DEF r3
<1> QED BY <1>1, <1>5, <1>6 DEF Counted

LEMMA LogAssertKeeps ==
    ASSUME VerdictInv, LogAssert
    PROVE  VerdictInv'
<1> DEFINE fails == value \in Statement.bad
           warns == Statement.level = "WARN"
           failed == current.failed + (IF fails /\ ~warns THEN 1 ELSE 0)
           throws == fails /\ (Statement.level = "REQUIRE" \/ (Statement.level = "CHECK" /\ TooMany(failed)))
           calls == <<[kind |-> "log_assert", failed |-> fails, success |-> p.success]>>
           e == log[Len(log)]
           old == e.runs[Len(e.runs)]
           more == IF fails \/ p.success THEN Append(old.under, [failed |-> fails, path |-> Active]) ELSE old.under
           a == IF warns THEN old.asserts ELSE old.asserts + 1
           f == IF fails /\ ~warns THEN old.failed + 1 ELSE old.failed
           r == [old EXCEPT !.asserts = a, !.failed = f, !.under = more]
           asserts == IF warns THEN current.asserts ELSE current.asserts + 1
           c == [current EXCEPT !.asserts = asserts, !.failed = failed]
           th == IF throws THEN "failure" ELSE thrown
<1>1. /\ phase = "body" /\ phase' = "body" /\ thrown = "nothing"
      /\ invocation' = invocation /\ p' = p /\ testArray' = testArray /\ at' = at /\ stats' = stats
      /\ traversal' = traversal /\ scopes' = Proceeded
  BY DEF LogAssert, Executing
<1>2. thrown' = th /\ reporters' = Notified(reporters, calls) /\ current' = c
  BY DEF LogAssert, Notify
<1>3. log' = [log EXCEPT ![Len(log)].runs[Len(e.runs)] = r]
  <2>1. log' = [log EXCEPT ![Len(log)].runs[Len(e.runs)] =
                   [old EXCEPT !.asserts = IF warns THEN @ ELSE @ + 1,
                               !.failed = IF fails /\ ~warns THEN @ + 1 ELSE @,
                               !.under = IF fails \/ p.success
                                         THEN Append(@, [failed |-> fails, path |-> Active]) ELSE @]]
    BY DEF LogAssert
  <2> QED BY <2>1
<1>4. Course(thrown, scopes, traversal) /\ Listening(reporters) /\ IsRun(old) /\ old.end = "open"
  BY <1>1, Body, OpenRun
<1>5. /\ current.failed \in Nat /\ current.asserts \in Nat
      /\ current = [flags |-> current.flags, asserts |-> current.asserts, failed |-> current.failed]
  BY <1>1, CountsAreNumbers
<1>6. Listening(Notified(reporters, calls))
  BY <1>4, NotifiedKeeps, ShortCalls
<1>7. th \in {"nothing", "failure", "exception"}
  BY <1>1
<1> DEFINE one == IF fails /\ ~warns THEN 1 ELSE 0
           made == IF warns THEN 0 ELSE 1
<1>8. c = [flags |-> current.flags, asserts |-> current.asserts + made, failed |-> current.failed + one]
  <2>1. asserts = current.asserts + made
    BY <1>5
  <2> HIDE DEF asserts, failed
  <2>2. c = [flags |-> current.flags, asserts |-> asserts, failed |-> failed]
    BY <1>5, CountsChanged
  <2> QED BY <2>1, <2>2 DEF failed
<1> HIDE DEF th, more, calls
<1>9. IsRun(r) /\ r.end = "open" /\ r.asserts = old.asserts + made /\ r.failed = old.failed + one
  <2> HIDE DEF old, fails, warns
  <2>1. old.asserts \in Nat /\ old.failed \in Nat
    BY <1>4 DEF IsRun
  <2>2. a = old.asserts + made /\ f = old.failed + one /\ a \in Nat /\ f \in Nat
    BY <2>1
  <2> HIDE DEF a, f, made, one
  <2>3. r = Counted(old, a, f, more)
    BY DEF Counted
  <2> HIDE DEF r
  <2>4. IsRun(r) /\ r.end = old.end /\ r.asserts = a /\ r.failed = f
    BY ONLY <1>4, <2>2, <2>3, RunCounted
  <2> QED BY <1>4, <2>2, <2>4
<1>10. Course(thrown', scopes', traversal') /\ Listening(reporters')
  <2>1. "active" \in DOMAIN traversal
    BY <1>4 DEF Course
  <2> QED BY <1>1, <1>2, <1>4, <1>6, <1>7, <2>1, CourseProceeds
<1>11. made \in Nat /\ one \in Nat
  OBVIOUS
<1>12. old.asserts \in Nat /\ old.failed \in Nat
  BY <1>4 DEF IsRun
<1> HIDE DEF c, r, old, made, one, failed
<1>13. /\ c.flags = current.flags /\ c.asserts = current.asserts + made /\ c.failed = current.failed + one
       /\ c = [flags |-> current.flags, asserts |-> c.asserts, failed |-> c.failed]
  BY <1>8
<1>14. /\ c.failed + old.failed = current.failed + r.failed
       /\ c.asserts + old.asserts = current.asserts + r.asserts
       /\ c.failed \in Nat /\ c.asserts \in Nat
  <2> DEFINE a1 == current.failed
             a2 == current.asserts
             b1 == old.failed
             b2 == old.asserts
  <2>1. a1 \in Nat /\ a2 \in Nat /\ b1 \in Nat /\ b2 \in Nat
    BY <1>5, <1>12
  <2>2. c.failed = a1 + one /\ c.asserts = a2 + made /\ r.failed = b1 + one /\ r.asserts = b2 + made
    BY <1>9, <1>13
  <2> HIDE DEF a1, a2, b1, b2
  <2>3. /\ a1 + one + b1 = a1 + (b1 + one) /\ a2 + made + b2 = a2 + (b2 + made)
        /\ a1 + one \in Nat /\ a2 + made \in Nat
    BY ONLY <2>1, <1>11
  <2>4. /\ c.failed + b1 = a1 + r.failed /\ c.asserts + b2 = a2 + r.asserts
        /\ c.failed \in Nat /\ c.asserts \in Nat
    BY <2>2, <2>3
  <2> QED BY <2>4 DEF a1, a2, b1, b2
<1> QED BY <1>1, <1>2, <1>3, <1>9, <1>10, <1>13, <1>14, RunStep DEF old

LEMMA ThrowKeeps ==
    ASSUME VerdictInv, Throw
    PROVE  VerdictInv'
<1> DEFINE e == log[Len(log)]
           old == e.runs[Len(e.runs)]
           depth == Len(scopes) - 1
           r == [old EXCEPT !.depth = depth]
<1>1. /\ phase = "body" /\ phase' = "body" /\ thrown = "nothing"
      /\ invocation' = invocation /\ p' = p /\ testArray' = testArray /\ at' = at /\ stats' = stats
      /\ current' = current /\ reporters' = reporters /\ traversal' = traversal /\ scopes' = Proceeded
  BY DEF Throw, Executing
<1>2. \/ thrown' = "exception" /\ log' = [log EXCEPT ![Len(log)].runs[Len(e.runs)] = r]
      \/ thrown' = thrown /\ log' = log
  BY DEF Throw
<1>3. Course(thrown, scopes, traversal) /\ Listening(reporters) /\ IsRun(old) /\ old.end = "open"
  BY <1>1, Body, OpenRun
<1>4. /\ current.failed \in Nat /\ current.asserts \in Nat
      /\ current = [flags |-> current.flags, asserts |-> current.asserts, failed |-> current.failed]
  BY <1>1, CountsAreNumbers
<1>5. Course(thrown', scopes', traversal')
  <2>1. "active" \in DOMAIN traversal /\ thrown' \in {"nothing", "failure", "exception"}
    BY <1>1, <1>2, <1>3 DEF Course
  <2> QED BY <1>1, <1>3, <2>1, CourseProceeds
<1>6. IsRun(r) /\ r.end = "open" /\ r.failed = old.failed /\ r.asserts = old.asserts
  <2> HIDE DEF old, depth
  <2> QED BY <1>3, RunKept
<1>7. CASE thrown' = thrown /\ log' = log
  BY <1>1, <1>3, <1>5, <1>7, QuietStep
<1>8. CASE log' = [log EXCEPT ![Len(log)].runs[Len(e.runs)] = r]
  <2> HIDE DEF r, old
  <2> QED BY <1>1, <1>3, <1>4, <1>5, <1>6, <1>8, RunStep DEF old
<1> QED BY <1>2, <1>7, <1>8

LEMMA LeaveSubcaseKeeps ==
    ASSUME VerdictInv, LeaveSubcase
    PROVE  VerdictInv'
<1> DEFINE first == IF thrown # "nothing" /\ shouldLog THEN <<[kind |-> "test_case_exception"]>> ELSE <<>>
           last == <<[kind |-> "subcase_end"]>>
<1>1. /\ phase = "body" /\ phase' = "body" /\ Len(scopes) > 1
      /\ invocation' = invocation /\ p' = p /\ testArray' = testArray /\ at' = at /\ stats' = stats
      /\ current' = current /\ log' = log /\ thrown' = thrown
      /\ traversal' = Leave(traversal) /\ scopes' = Front(scopes) /\ reporters' = Notified(reporters, first \o last)
  BY DEF LeaveSubcase, Notify
<1>2. Course(thrown, scopes, traversal) /\ Listening(reporters)
  BY <1>1, Body
<1>3. Len(first \o last) \in Nat
  <2>1. IsList(first) /\ IsList(last)
    BY ShortCalls
  <2> HIDE DEF first, last
  <2>2. IsList(first \o last)
    BY <2>1, ConcatList
  <2> QED BY <2>2, ListProperties
<1> HIDE DEF first, last
<1>4. Listening(reporters')
  BY <1>1, <1>2, <1>3, NotifiedKeeps
<1>5. Course(thrown', scopes', traversal')
  <2>1. /\ thrown \in {"nothing", "failure", "exception"} /\ "active" \in DOMAIN traversal
        /\ IsList(scopes) /\ traversal.active = Len(scopes) - 1
    BY <1>2 DEF Course
  <2>2. IsList(Front(scopes)) /\ Len(Front(scopes)) = Len(scopes) - 1 /\ Len(scopes) \in Nat
    BY <1>1, <2>1, FrontList, ListProperties
  <2>3. "active" \in DOMAIN Leave(traversal) /\ Leave(traversal).active = traversal.active - 1
    BY <2>1, ActiveLeft
  <2>4. Len(Front(scopes)) # 0
    BY <1>1, <2>2
  <2>5. Leave(traversal).active = Len(Front(scopes)) - 1
    BY <2>1, <2>2, <2>3
  <2> QED BY <1>1, <2>1, <2>2, <2>3, <2>4, <2>5 DEF Course
<1> QED BY <1>1, <1>4, <1>5, QuietStep

--------------------------------------------------------------------------------
(* The end of a test case.                                                   *)

\* The entry of a test case whose last run has ended, and what it adds up to.
ClosedEntry(e, how, late) == [e EXCEPT !.runs[Len(e.runs)] = [e.runs[Len(e.runs)] EXCEPT !.end = how], !.late = late]
Plus(st, asserts, failed, bad) ==
    [cases |-> st.cases, passing |-> st.passing, suites |-> st.suites, failedCases |-> st.failedCases + bad,
     asserts |-> st.asserts + asserts, failedAsserts |-> st.failedAsserts + failed]

LEMMA EntryClosed ==
    ASSUME NEW e, IsEntry(e), NEW test, NEW c, OpenEntry(e, test, c),
           NEW how \in Ends, how # "open", NEW late \in BOOLEAN
    PROVE  LET d == ClosedEntry(e, how, late)
           IN  /\ IsEntry(d) /\ d.test = test /\ (d.late <=> late)
               /\ FailedIn(d) = c.failed /\ AssertsIn(d) = c.asserts
               /\ \A h \in {"failure", "exception", "crash"} :
                     ThrownIn(d, h) <=> h = how \/ \E i \in DOMAIN e.runs : i # Len(e.runs) /\ e.runs[i].end = h
<1> DEFINE old == e.runs[Len(e.runs)]
           r == [old EXCEPT !.end = how]
           d1 == [e EXCEPT !.runs[Len(e.runs)] = r]
           d == [d1 EXCEPT !.late = late]
<1>1. Len(e.runs) \in Nat /\ DOMAIN e.runs = 1 .. Len(e.runs) /\ Len(e.runs) \in DOMAIN e.runs /\ IsRun(old)
  BY ListProperties DEF IsEntry
<1>2. IsRun(r) /\ r.end = how /\ r.failed = old.failed /\ r.asserts = old.asserts
  <2> HIDE DEF old
  <2> QED BY <1>1, RunKept
<1>3. ClosedEntry(e, how, late) = d
  BY DEF ClosedEntry
<1> HIDE DEF r
<1>4. /\ IsEntry(d1) /\ d1.test = e.test /\ Len(d1.runs) = Len(e.runs)
      /\ DOMAIN d1.runs = DOMAIN e.runs
      /\ \A i \in DOMAIN e.runs : d1.runs[i] = IF i = Len(e.runs) THEN r ELSE e.runs[i]
      /\ FailedIn(d1) + old.failed = FailedIn(e) + r.failed
      /\ AssertsIn(d1) + old.asserts = AssertsIn(e) + r.asserts
  BY <1>2, LastRunChanged
<1> HIDE DEF d1
<1>5. d = [test |-> d1.test, runs |-> d1.runs, late |-> late]
  <2>1. PICK x, y, z : d1 = [test |-> x, runs |-> y, late |-> z]
    BY <1>4 DEF IsEntry
  <2> QED BY <2>1
<1> HIDE DEF d
<1>6. d.test = d1.test /\ d.runs = d1.runs /\ d.late = late
  BY <1>5
<1>7. IsEntry(d)
  BY <1>4, <1>5, <1>6 DEF IsEntry
<1>8. FailedIn(d) = FailedIn(d1) /\ AssertsIn(d) = AssertsIn(d1)
  BY <1>6 DEF FailedIn, AssertsIn
<1>9. FailedIn(d1) = FailedIn(e) /\ AssertsIn(d1) = AssertsIn(e)
  <2> DEFINE a1 == FailedIn(d1)
             a2 == AssertsIn(d1)
             b1 == FailedIn(e)
             b2 == AssertsIn(e)
             o1 == old.failed
             o2 == old.asserts
  <2>1. a1 \in Nat /\ a2 \in Nat /\ b1 \in Nat /\ b2 \in Nat
    BY <1>4, EntryCounts
  <2>2. o1 \in Nat /\ o2 \in Nat
    BY <1>1 DEF IsRun
  <2>3. a1 + o1 = b1 + o1 /\ a2 + o2 = b2 + o2
    BY <1>2, <1>4
  <2> HIDE DEF a1, a2, b1, b2, o1, o2
  <2>4. a1 = b1 /\ a2 = b2
    BY ONLY <2>1, <2>2, <2>3
  <2> QED BY <2>4 DEF a1, a2, b1, b2
<1>10. e.test = test /\ FailedIn(e) = c.failed /\ AssertsIn(e) = c.asserts
  BY DEF OpenEntry
<1>11. ASSUME NEW h \in {"failure", "exception", "crash"}
       PROVE  ThrownIn(d, h) <=> h = how \/ \E i \in DOMAIN e.runs : i # Len(e.runs) /\ e.runs[i].end = h
  <2>1. ThrownIn(d, h) <=> \E i \in DOMAIN e.runs : d1.runs[i].end = h
    BY <1>4, <1>6 DEF ThrownIn
  <2>2. \A i \in DOMAIN e.runs : d1.runs[i].end = IF i = Len(e.runs) THEN how ELSE e.runs[i].end
    BY <1>2, <1>4
  <2> QED BY <1>1, <2>1, <2>2
<1> QED BY <1>3, <1>4, <1>6, <1>7, <1>8, <1>9, <1>10, <1>11

LEMMA TestJudged ==
    ASSUME NEW l, IsLog(l), Len(l) # 0, NEW st, NEW limit, StatsOf(st, l, Len(l) - 1, limit),
           NEW test, NEW c, OpenEntry(l[Len(l)], test, c),
           NEW how \in Ends, how # "open", NEW late \in BOOLEAN, late => test.timeout,
           NEW flags, flags \subseteq {"AssertFailure", "Exception", "Crash", "TooManyFailedAsserts"},
           flags # {} <=> c.flags # {} \/ how # "returned" \/ (limit > 0 /\ st.failedAsserts + c.failed >= limit)
    PROVE  LET m == [l EXCEPT ![Len(l)] = ClosedEntry(l[Len(l)], how, late)]
               bad == IF Success(Finalized(test, flags, c.failed, late)) THEN 0 ELSE 1
           IN  IsLog(m) /\ Len(m) = Len(l) /\ StatsOf(Plus(st, c.asserts, c.failed, bad), m, Len(m), limit)
<1> DEFINE k == Len(l) - 1
           e == l[Len(l)]
           d == ClosedEntry(e, how, late)
           m == [l EXCEPT ![Len(l)] = d]
           bad == IF Success(Finalized(test, flags, c.failed, late)) THEN 0 ELSE 1
           st2 == Plus(st, c.asserts, c.failed, bad)
<1>1. Len(l) \in Nat
  BY ListProperties DEF IsLog
<1>2. k \in Nat /\ k + 1 = Len(l) /\ k + 1 \in 1 .. Len(l)
  BY <1>1
<1>3. IsEntry(e)
  BY <1>2 DEF IsLog
<1>4. /\ IsEntry(d) /\ d.test = test /\ (d.late <=> late) /\ FailedIn(d) = c.failed /\ AssertsIn(d) = c.asserts
      /\ \A h \in {"failure", "exception", "crash"} :
            ThrownIn(d, h) <=> h = how \/ \E i \in DOMAIN e.runs : i # Len(e.runs) /\ e.runs[i].end = h
  <2> HIDE DEF e
  <2>1. OpenEntry(e, test, c)
    BY DEF e
  <2> QED BY <1>3, <2>1, EntryClosed
<1> HIDE DEF d
<1>5. IsLog(m) /\ Len(m) = Len(l) /\ m[Len(m)] = d /\ \A n \in 1 .. k : m[n] = l[n]
  BY <1>4, LastEntryChanged
<1> HIDE DEF m
<1>6. FailedUpTo(m, k) = FailedUpTo(l, k) /\ AssertsUpTo(m, k) = AssertsUpTo(l, k) /\ BadIn(m, k, limit) = BadIn(l, k, limit)
  <2> HIDE DEF k
  <2>1. \A n \in 1 .. k : m[n] = l[n]
    BY <1>5
  <2>2. k \in Nat
    BY <1>2
  <2> QED BY ONLY <2>1, <2>2, SameCounts
<1>7. /\ FailedUpTo(m, k + 1) = FailedUpTo(m, k) + FailedIn(m[k + 1])
      /\ AssertsUpTo(m, k + 1) = AssertsUpTo(m, k) + AssertsIn(m[k + 1])
      /\ Cardinality(BadIn(m, k + 1, limit)) = Cardinality(BadIn(m, k, limit)) + (IF PassedIn(m, k + 1, limit) THEN 0 ELSE 1)
  <2>1. k + 1 <= Len(m)
    BY <1>2, <1>5
  <2> HIDE DEF k
  <2> QED BY <1>2, <1>5, <2>1, CountsGrow
<1>8. m[k + 1] = d
  BY <1>2, <1>5
<1>9. /\ st.failedAsserts = FailedUpTo(l, k) /\ st.asserts = AssertsUpTo(l, k)
      /\ st.failedCases = Cardinality(BadIn(l, k, limit))
  BY DEF StatsOf
<1>10. ReachedIn(m, k + 1, limit) <=> limit > 0 /\ st.failedAsserts + c.failed >= limit
  BY <1>4, <1>6, <1>7, <1>8, <1>9 DEF ReachedIn
<1>11. (\E h \in {"failure", "exception", "crash"} : ThrownIn(d, h)) <=> how # "returned" \/ c.flags # {}
  <2>1. /\ c.flags # {} <=> \E i \in DOMAIN e.runs : e.runs[i].end \in {"failure", "exception"}
        /\ e.runs[Len(e.runs)].end = "open"
        /\ \A i \in DOMAIN e.runs : i # Len(e.runs) => e.runs[i].end \in {"returned", "failure", "exception"}
    BY DEF OpenEntry
  <2>2. how \in {"returned", "failure", "exception", "crash"}
    BY DEF Ends
  <2> HIDE DEF e
  <2>3. ASSUME NEW h \in {"failure", "exception", "crash"}, ThrownIn(d, h), h # how
        PROVE  c.flags # {}
    <3>1. PICK i \in DOMAIN e.runs : i # Len(e.runs) /\ e.runs[i].end = h
      BY <1>4, <2>3
    <3>2. e.runs[i].end \in {"failure", "exception"}
      BY <2>1, <2>3, <3>1
    <3> QED BY <2>1, <3>2
  <2>4. ASSUME how # "returned"
        PROVE  how \in {"failure", "exception", "crash"} /\ ThrownIn(d, how)
    BY <1>4, <2>2, <2>4
  <2>5. ASSUME c.flags # {}
        PROVE  \E h \in {"failure", "exception", "crash"} : ThrownIn(d, h)
    <3>1. PICK i \in DOMAIN e.runs : e.runs[i].end \in {"failure", "exception"}
      BY <2>1, <2>5
    <3>2. i # Len(e.runs)
      BY <2>1, <3>1
    <3>3. ThrownIn(d, e.runs[i].end)
      BY <1>4, <3>1, <3>2
    <3> QED BY <3>1, <3>3
  <2>6. "returned" \notin {"failure", "exception", "crash"}
    OBVIOUS
  <2> QED BY <2>3, <2>4, <2>5, <2>6
<1>12. Success(Finalized(test, flags, c.failed, late)) <=> PassedIn(m, k + 1, limit)
  <2> DEFINE n == k + 1
  <2>1. m[n] = d
    BY <1>8
  <2>2. ReachedIn(m, n, limit) <=> limit > 0 /\ st.failedAsserts + c.failed >= limit
    BY <1>10
  <2> HIDE DEF n, k
  <2>3. /\ late <=> m[n].late
        /\ late => m[n].test.timeout
        /\ FailedIn(m[n]) = c.failed /\ m[n].test = test
    BY <1>4, <2>1
  <2>4. flags # {} \/ FailedIn(m[n]) > 0
          <=> \/ FailedIn(m[n]) > 0 \/ ReachedIn(m, n, limit)
              \/ \E h \in {"failure", "exception", "crash"} : ThrownIn(m[n], h)
    BY <1>11, <2>1, <2>2
  <2>5. Success(Finalized(m[n].test, flags, FailedIn(m[n]), late)) <=> PassedIn(m, n, limit)
    BY <2>3, <2>4, VerdictIs
  <2> QED BY <2>3, <2>5 DEF n
<1>13. StatsOf(st2, m, k + 1, limit)
  <2>1. /\ st2.failedAsserts = FailedUpTo(m, k + 1) /\ st2.asserts = AssertsUpTo(m, k + 1)
        /\ st2.failedCases = Cardinality(BadIn(m, k + 1, limit))
    BY <1>4, <1>6, <1>7, <1>8, <1>9, <1>12 DEF Plus
  <2>2. st2 = [cases |-> st2.cases, passing |-> st2.passing, suites |-> st2.suites,
               failedCases |-> st2.failedCases, asserts |-> st2.asserts, failedAsserts |-> st2.failedAsserts]
    BY DEF Plus
  <2> HIDE DEF st2, k
  <2> QED BY <2>1, <2>2 DEF StatsOf
<1> QED BY <1>2, <1>5, <1>13 DEF m, d

--------------------------------------------------------------------------------
(* The steps between the test cases.                                         *)

\* The options that tell are those that were asked for.
LEMMA OptionsAreAsked ==
    ASSUME VerdictInv
    PROVE  /\ p.abort_after = invocation.asked.abort_after
           /\ p.no_exitcode = invocation.asked.no_exitcode
           /\ Running => ~QueryMode /\ ~p.no_run /\ ~p.help
BY InvocationsAssumption DEF VerdictInv, Running, Asked, QueryMode

LEMMA OutsideKeeps ==
    ASSUME VerdictInv, phase' \in {"select", "report", "ended", "killed"},
           invocation' = invocation, p' = p, IsLog(log'),
           StatsOf(stats', log', Len(log'), invocation.asked.abort_after),
           Running => stats'.cases = Cardinality(invocation.tests),
           Listening(reporters'),
           phase' \in {"ended", "killed"} /\ Running => Summed(reporters', stats')
    PROVE  VerdictInv'
<1>1. phase' # "body" /\ phase' # "start"
  OBVIOUS
<1>2. StatsOf(stats', log', Judged', invocation'.asked.abort_after)
  BY <1>1 DEF Judged
<1>3. invocation' \in Invocations /\ p' = parseArgs(invocation'.args, MaxUnsigned, MaxInt)
  BY DEF VerdictInv
<1>4. Running' <=> Running
  BY DEF Running, Asked
<1>5. Running' /\ phase' # "start" => stats'.cases = Cardinality(invocation'.tests)
  BY <1>4
<1>6. Over' /\ Running' => Summed(reporters', stats')
  BY <1>4 DEF Over
<1>7. phase' \in {"start", "select", "body", "report", "ended", "killed"}
  OBVIOUS
<1> QED BY <1>1, <1>2, <1>3, <1>5, <1>6, <1>7 DEF VerdictInv

\* Between the test cases, all of them have been judged.
LEMMA Outside ==
    ASSUME VerdictInv, phase # "body"
    PROVE  /\ IsLog(log) /\ Len(log) \in Nat /\ StatsOf(stats, log, Len(log), invocation.asked.abort_after)
           /\ Running /\ phase # "start" => stats.cases = Cardinality(invocation.tests)
           /\ Listening(reporters)
BY ListProperties DEF VerdictInv, Judged, IsLog

Selected(st, x, y) == [st EXCEPT !.passing = x, !.suites = y]

\* The number of the test cases that pass the filters is no verdict.
LEMMA PassingChanged ==
    ASSUME NEW st, NEW l, NEW k, NEW limit, StatsOf(st, l, k, limit), NEW x, NEW y
    PROVE  /\ StatsOf([st EXCEPT !.passing = x], l, k, limit) /\ [st EXCEPT !.passing = x].cases = st.cases
           /\ StatsOf(Selected(st, x, y), l, k, limit) /\ Selected(st, x, y).cases = st.cases
<1> DEFINE s1 == [cases |-> st.cases, passing |-> x, suites |-> st.suites, failedCases |-> st.failedCases,
                  asserts |-> st.asserts, failedAsserts |-> st.failedAsserts]
           s2 == [cases |-> st.cases, passing |-> x, suites |-> y, failedCases |-> st.failedCases,
                  asserts |-> st.asserts, failedAsserts |-> st.failedAsserts]
<1>1. [st EXCEPT !.passing = x] = s1
  <2>1. PICK a, b, c, d, e, f : st = [cases |-> a, passing |-> b, suites |-> c, failedCases |-> d,
                                      asserts |-> e, failedAsserts |-> f]
    BY DEF StatsOf
  <2> QED BY <2>1
<1>2. [s1 EXCEPT !.suites = y] = s2
  OBVIOUS
<1>3. Selected(st, x, y) = s2
  <2> HIDE DEF s1, s2
  <2> QED BY <1>1, <1>2 DEF Selected
<1>4. /\ st.failedAsserts = FailedUpTo(l, k) /\ st.asserts = AssertsUpTo(l, k)
      /\ st.failedCases = Cardinality(BadIn(l, k, limit))
  BY DEF StatsOf
<1>5. StatsOf(s1, l, k, limit) /\ s1.cases = st.cases
  BY <1>4 DEF StatsOf
<1>6. StatsOf(s2, l, k, limit) /\ s2.cases = st.cases
  BY <1>4 DEF StatsOf
<1> HIDE DEF s1, s2
<1> QED BY <1>1, <1>3, <1>5, <1>6

LEMMA SkipKeeps ==
    ASSUME VerdictInv, Skip
    PROVE  VerdictInv'
<1> DEFINE calls == <<[kind |-> "test_case_skipped", test |-> Upcoming]>>
           x == Passing
<1>1. /\ phase = "select" /\ phase' = "select" /\ invocation' = invocation /\ p' = p /\ log' = log
      /\ stats' = [stats EXCEPT !.passing = x]
      /\ reporters' = reporters \/ reporters' = Notified(reporters, calls)
  BY DEF Skip, Taken, Notify
<1> HIDE DEF calls, x
<1>2. /\ IsLog(log) /\ StatsOf(stats, log, Len(log), invocation.asked.abort_after) /\ Listening(reporters)
      /\ Running => stats.cases = Cardinality(invocation.tests)
  BY <1>1, Outside
<1>3. StatsOf(stats', log, Len(log), invocation.asked.abort_after) /\ stats'.cases = stats.cases
  BY <1>1, <1>2, PassingChanged
<1>4. Listening(reporters')
  BY <1>1, <1>2, NotifiedKeeps, ShortCalls DEF calls
<1> QED BY <1>1, <1>2, <1>3, <1>4, OutsideKeeps

LEMMA CountKeeps ==
    ASSUME VerdictInv, Count
    PROVE  VerdictInv'
<1>1. PICK y : /\ phase = "select" /\ phase' = "select" /\ invocation' = invocation /\ p' = p /\ log' = log
               /\ stats' = [stats EXCEPT !.passing = Passing, !.suites = y] /\ reporters' = reporters
  BY DEF Count
<1> DEFINE x == Passing
<1>2. /\ IsLog(log) /\ StatsOf(stats, log, Len(log), invocation.asked.abort_after) /\ Listening(reporters)
      /\ Running => stats.cases = Cardinality(invocation.tests)
  BY <1>1, Outside
<1>3. stats' = Selected(stats, x, y)
  BY <1>1 DEF Selected
<1> HIDE DEF x
<1> DEFINE new == Selected(stats, x, y)
           k == Len(log)
           limit == invocation.asked.abort_after
<1>4. StatsOf(new, log, k, limit) /\ new.cases = stats.cases
  <2>1. StatsOf(stats, log, k, limit)
    BY <1>2
  <2> HIDE DEF k, limit
  <2> QED BY ONLY <2>1, PassingChanged
<1> HIDE DEF new
<1>5. StatsOf(stats', log, Len(log), invocation.asked.abort_after) /\ stats'.cases = stats.cases
  BY <1>3, <1>4 DEF new
<1> QED BY <1>1, <1>2, <1>5, OutsideKeeps

LEMMA FreshListens == Listening(NewReporters(Used))
<1> DEFINE fresh == NewReporters(Used)
<1>1. "console" \in DOMAIN fresh => fresh["console"] = NewConsole
  BY DEF NewReporters
<1>2. "summary" \in DOMAIN NewConsole
  BY DEF NewConsole
<1> QED BY <1>1, <1>2 DEF Listening

LEMMA NothingJudged ==
    ASSUME NEW limit, NEW n
    PROVE  /\ IsLog(<<>>) /\ Len(<<>>) = 0
           /\ StatsOf([NewStats EXCEPT !.cases = n], <<>>, 0, limit) /\ [NewStats EXCEPT !.cases = n].cases = n
           /\ StatsOf(NewStats, <<>>, 0, limit)
<1>1. IsLog(<<>>) /\ Len(<<>>) = 0
  BY ShortCalls DEF IsLog
<1>2. /\ FailedUpTo(<<>>, 0) = 0 /\ AssertsUpTo(<<>>, 0) = 0 /\ Cardinality(BadIn(<<>>, 0, limit)) = 0
  BY FirstCounts
<1>3. [NewStats EXCEPT !.cases = n] = [cases |-> n, passing |-> 0, suites |-> 0, failedCases |-> 0, asserts |-> 0, failedAsserts |-> 0]
  BY DEF NewStats
<1> QED BY <1>1, <1>2, <1>3 DEF StatsOf, NewStats

LEMMA StartKeeps ==
    ASSUME VerdictInv, Start
    PROVE  VerdictInv'
<1> DEFINE fresh == NewReporters(Used)
           query == <<[kind |-> "report_query"]>>
           begun == <<[kind |-> "test_run_start"]>>
           n == Cardinality(invocation.tests)
           limit == invocation.asked.abort_after
<1>1. phase = "start" /\ invocation' = invocation /\ p' = p /\ log' = log
  BY DEF Start
<1>2. \/ /\ p.no_run \/ p.help
         /\ reporters' = Notified(fresh, query) /\ phase' = "ended" /\ stats' = stats
      \/ /\ stats' = [NewStats EXCEPT !.cases = n] /\ phase' = "select"
         /\ reporters' = fresh \/ reporters' = Notified(fresh, begun)
  BY DEF Start
<1>3. log = <<>> /\ IsLog(log) /\ StatsOf(stats, log, Len(log), limit)
  BY <1>1, Outside DEF VerdictInv
<1>4. Listening(fresh)
  BY FreshListens
<1> HIDE DEF fresh
<1>5. Listening(Notified(fresh, query)) /\ Listening(Notified(fresh, begun))
  BY <1>4, NotifiedKeeps, ShortCalls
<1> HIDE DEF query, begun
<1>6. CASE /\ p.no_run \/ p.help
           /\ reporters' = Notified(fresh, query) /\ phase' = "ended" /\ stats' = stats
  <2>1. ~Running
    BY <1>6, OptionsAreAsked
  <2> QED BY <1>1, <1>3, <1>5, <1>6, <2>1, OutsideKeeps
<1>7. CASE /\ stats' = [NewStats EXCEPT !.cases = n] /\ phase' = "select"
           /\ reporters' = fresh \/ reporters' = Notified(fresh, begun)
  <2>1. /\ IsLog(<<>>) /\ Len(<<>>) = 0
        /\ StatsOf([NewStats EXCEPT !.cases = n], <<>>, 0, limit) /\ [NewStats EXCEPT !.cases = n].cases = n
    BY NothingJudged
  <2>2. IsLog(log') /\ StatsOf(stats', log', Len(log'), limit) /\ stats'.cases = n
    BY <1>1, <1>3, <1>7, <2>1
  <2>3. Listening(reporters')
    BY <1>4, <1>5, <1>7
  <2> QED BY <1>1, <1>7, <2>2, <2>3, OutsideKeeps
<1> QED BY <1>2, <1>6, <1>7

LEMMA ReportKeeps ==
    ASSUME VerdictInv, Report
    PROVE  VerdictInv'
<1> DEFINE query == <<[kind |-> "report_query"]>>
           sums == <<[kind |-> "test_run_end", stats |-> stats]>>
<1>1. phase # "start" /\ phase # "body" /\ phase' = "ended" /\ invocation' = invocation /\ p' = p /\ log' = log /\ stats' = stats
  BY DEF Report
<1>2. \/ QueryMode /\ reporters' = Notified(reporters, query)
      \/ ~QueryMode /\ reporters' = Notified(reporters, sums)
  <2>1. reporters' = Notified(reporters, <<IF QueryMode THEN [kind |-> "report_query"]
                                           ELSE [kind |-> "test_run_end", stats |-> stats]>>)
    BY DEF Report, Notify
  <2>2. CASE QueryMode
    BY <2>1, <2>2
  <2>3. CASE ~QueryMode
    BY <2>1, <2>3
  <2> QED BY <2>2, <2>3
<1>3. /\ IsLog(log) /\ StatsOf(stats, log, Len(log), invocation.asked.abort_after) /\ Listening(reporters)
      /\ Running => stats.cases = Cardinality(invocation.tests)
  BY <1>1, Outside
<1>4. Len(query) \in Nat /\ Len(sums) \in Nat /\ Len(sums) # 0
      /\ sums[Len(sums)] = [kind |-> "test_run_end", stats |-> stats]
  OBVIOUS
<1> HIDE DEF query, sums
<1>5. Listening(Notified(reporters, query)) /\ Listening(Notified(reporters, sums))
  BY <1>3, <1>4, NotifiedKeeps
<1>6. Summed(Notified(reporters, sums), stats)
  BY <1>3, <1>4, NotifiedSums
<1>7. Running => ~QueryMode
  BY OptionsAreAsked
<1>8. Listening(reporters') /\ (Running => Summed(reporters', stats'))
  BY <1>1, <1>2, <1>5, <1>6, <1>7
<1> QED BY <1>1, <1>3, <1>8, OutsideKeeps

--------------------------------------------------------------------------------
(* The runs of a test case.                                                  *)

\* A body is begun with no subcase open.
LEMMA CourseBegins ==
    ASSUME NEW t, "active" \in DOMAIN t, NEW body, Begin(body, t)
    PROVE  Course(thrown', scopes', traversal')
<1> DEFINE scope == [rest |-> body, name |-> <<>>]
<1>1. traversal' = ResetForRun(t) /\ scopes' = <<scope>> /\ thrown' = "nothing"
  BY DEF Begin
<1>2. "active" \in DOMAIN ResetForRun(t) /\ ResetForRun(t).active = 0
  BY DEF ResetForRun
<1> HIDE DEF scope
<1>3. IsList(<<scope>>) /\ Len(<<scope>>) = 1
  BY ShortCalls
<1> QED BY <1>1, <1>2, <1>3 DEF Course

LEMMA NewEntryOpen ==
    ASSUME NEW test
    PROVE  LET e == [test |-> test, runs |-> <<NewRun>>, late |-> FALSE]
           IN  IsEntry(e) /\ OpenEntry(e, test, NewCurrent)
<1> DEFINE e == [test |-> test, runs |-> <<NewRun>>, late |-> FALSE]
<1>1. /\ IsEntry(e) /\ e.test = test /\ e.late = FALSE /\ Len(e.runs) = 1 /\ e.runs[1] = NewRun
      /\ FailedIn(e) = 0 /\ AssertsIn(e) = 0
  BY FirstEntry
<1> HIDE DEF e
<1>2. DOMAIN e.runs = 1 .. 1
  BY <1>1, ListProperties DEF IsEntry
<1>3. NewRun.end = "open"
  BY DEF NewRun
<1>4. \A i \in DOMAIN e.runs : i = 1
  BY <1>2
<1>5. NewCurrent = [flags |-> {}, asserts |-> 0, failed |-> 0]
  BY DEF NewCurrent
<1> QED BY <1>1, <1>3, <1>4, <1>5 DEF OpenEntry, e

LEMMA StartTestKeeps ==
    ASSUME VerdictInv, StartTest
    PROVE  VerdictInv'
<1> DEFINE calls == <<[kind |-> "test_case_start", test |-> Upcoming]>>
           e == [test |-> Upcoming, runs |-> <<NewRun>>, late |-> FALSE]
           x == Passing
           limit == invocation.asked.abort_after
           m == Append(log, e)
           k == Len(log)
<1>1. /\ phase = "select" /\ phase' = "body" /\ invocation' = invocation /\ p' = p
      /\ testArray' = testArray /\ at' = at + 1
      /\ stats' = [stats EXCEPT !.passing = x] /\ current' = NewCurrent
      /\ Begin(Upcoming.body, NewTraversal) /\ reporters' = Notified(reporters, calls) /\ log' = m
  BY DEF StartTest, Taken, Notify
<1>2. /\ IsLog(log) /\ k \in Nat /\ StatsOf(stats, log, k, limit) /\ Listening(reporters)
      /\ Running => stats.cases = Cardinality(invocation.tests)
  BY <1>1, Outside
<1>3. IsEntry(e) /\ OpenEntry(e, Upcoming, NewCurrent)
  BY NewEntryOpen
<1>4. Listening(reporters')
  BY <1>1, <1>2, NotifiedKeeps, ShortCalls
<1>5. Course(thrown', scopes', traversal')
  <2>1. "active" \in DOMAIN NewTraversal
    BY DEF NewTraversal
  <2> QED BY <1>1, <2>1, CourseBegins
<1>6. Test' = Upcoming
  BY <1>1 DEF Test, Upcoming
<1> HIDE DEF calls, e, x, limit
<1>7. IsList(m) /\ Len(m) = k + 1 /\ (\A i \in 1 .. k : m[i] = log[i]) /\ m[k + 1] = e
  BY <1>2, AppendedList DEF IsLog
<1> HIDE DEF m
<1>8. IsLog(m)
  <2>1. \A n \in 1 .. k + 1 : n \in 1 .. k \/ n = k + 1
    BY <1>2
  <2> QED BY <1>2, <1>3, <1>7, <2>1 DEF IsLog
<1>9. StatsOf(stats', m, k, limit) /\ stats'.cases = stats.cases
  <2>1. StatsOf(stats', log, k, limit) /\ stats'.cases = stats.cases
    <3> HIDE DEF k
    <3> QED BY <1>1, <1>2, PassingChanged
  <2>2. /\ FailedUpTo(m, k) = FailedUpTo(log, k) /\ AssertsUpTo(m, k) = AssertsUpTo(log, k)
        /\ BadIn(m, k, limit) = BadIn(log, k, limit)
    <3>1. \A i \in 1 .. k : m[i] = log[i]
      BY <1>7
    <3>2. k \in Nat
      BY <1>2
    <3> HIDE DEF k
    <3> QED BY ONLY <3>1, <3>2, SameCounts
  <2> QED BY <2>1, <2>2 DEF StatsOf
<1>10. Len(m) # 0 /\ Len(m) - 1 = k /\ m[Len(m)] = e
  BY <1>2, <1>7
<1>11. StatsOf(stats', log', Judged', invocation'.asked.abort_after)
  BY <1>1, <1>9, <1>10 DEF Judged, limit
<1>12. invocation' \in Invocations /\ p' = parseArgs(invocation'.args, MaxUnsigned, MaxInt)
  BY <1>1 DEF VerdictInv
<1>13. Running' => stats'.cases = Cardinality(invocation'.tests)
  BY <1>1, <1>2, <1>9 DEF Running, Asked
<1>14. IsLog(log') /\ Len(log') # 0 /\ OpenEntry(log'[Len(log')], Test', current')
  BY <1>1, <1>3, <1>6, <1>8, <1>10
<1>15. phase' = "body"
  BY <1>1
<1> QED BY <1>4, <1>5, <1>11, <1>12, <1>13, <1>14, <1>15 DEF VerdictInv, Over

\* The runs that are over, and the one that follows.
LEMMA RunFollows ==
    ASSUME NEW e, IsEntry(e), NEW test, NEW c, OpenEntry(e, test, c),
           NEW how \in {"returned", "failure", "exception"}
    PROVE  LET d1 == [e EXCEPT !.runs[Len(e.runs)] = [e.runs[Len(e.runs)] EXCEPT !.end = how]]
               d == [d1 EXCEPT !.runs = Append(@, NewRun)]
               new == [flags |-> c.flags \cup (CASE how = "failure" -> {"AssertFailure"}
                                                 [] how = "exception" -> {"Exception"} [] OTHER -> {}),
                       asserts |-> c.asserts, failed |-> c.failed]
           IN  IsEntry(d1) /\ IsEntry(d) /\ OpenEntry(d, test, new)
<1> DEFINE old == e.runs[Len(e.runs)]
           r == [old EXCEPT !.end = how]
           d1 == [e EXCEPT !.runs[Len(e.runs)] = r]
           d == [d1 EXCEPT !.runs = Append(@, NewRun)]
           more == CASE how = "failure" -> {"AssertFailure"} [] how = "exception" -> {"Exception"} [] OTHER -> {}
           new == [flags |-> c.flags \cup more, asserts |-> c.asserts, failed |-> c.failed]
           n == Len(e.runs)
<1>1. n \in Nat /\ n # 0 /\ DOMAIN e.runs = 1 .. n /\ n \in DOMAIN e.runs /\ IsRun(old)
  BY ListProperties DEF IsEntry
<1>2. IsRun(r) /\ r.end = how /\ r.failed = old.failed /\ r.asserts = old.asserts
  <2>1. how \in Ends
    BY DEF Ends
  <2> HIDE DEF old
  <2> QED BY <1>1, <2>1, RunKept
<1> HIDE DEF r
<1>3. /\ IsEntry(d1) /\ d1.test = e.test /\ d1.late = e.late /\ Len(d1.runs) = n
      /\ DOMAIN d1.runs = DOMAIN e.runs
      /\ \A i \in DOMAIN e.runs : d1.runs[i] = IF i = n THEN r ELSE e.runs[i]
      /\ FailedIn(d1) + old.failed = FailedIn(e) + r.failed
      /\ AssertsIn(d1) + old.asserts = AssertsIn(e) + r.asserts
  BY <1>2, LastRunChanged
<1> HIDE DEF d1
<1>4. /\ IsEntry(d) /\ d.test = d1.test /\ d.late = d1.late /\ Len(d.runs) = n + 1
      /\ \A i \in 1 .. n : d.runs[i] = d1.runs[i]
      /\ d.runs[n + 1] = NewRun
      /\ FailedIn(d) = FailedIn(d1) /\ AssertsIn(d) = AssertsIn(d1)
  <2>1. Len(d1.runs) = n
    BY <1>3
  <2> HIDE DEF n
  <2> QED BY <1>3, <2>1, RunAdded
<1> HIDE DEF d
<1>5. DOMAIN d.runs = 1 .. n + 1
  BY <1>4, ListProperties DEF IsEntry
<1>6. FailedIn(d1) = FailedIn(e) /\ AssertsIn(d1) = AssertsIn(e)
  <2> DEFINE a1 == FailedIn(d1)
             a2 == AssertsIn(d1)
             b1 == FailedIn(e)
             b2 == AssertsIn(e)
             o1 == old.failed
             o2 == old.asserts
  <2>1. a1 \in Nat /\ a2 \in Nat /\ b1 \in Nat /\ b2 \in Nat
    BY <1>3, EntryCounts
  <2>2. o1 \in Nat /\ o2 \in Nat
    BY <1>1 DEF IsRun
  <2>3. a1 + o1 = b1 + o1 /\ a2 + o2 = b2 + o2
    BY <1>2, <1>3
  <2> HIDE DEF a1, a2, b1, b2, o1, o2
  <2>4. a1 = b1 /\ a2 = b2
    BY ONLY <2>1, <2>2, <2>3
  <2> QED BY <2>4 DEF a1, a2, b1, b2
<1>7. /\ e.test = test /\ e.late = FALSE /\ c.failed = FailedIn(e) /\ c.asserts = AssertsIn(e)
      /\ c.flags \subseteq {"AssertFailure", "Exception"}
      /\ c.flags # {} <=> \E i \in DOMAIN e.runs : e.runs[i].end \in {"failure", "exception"}
      /\ e.runs[n].end = "open"
      /\ \A i \in DOMAIN e.runs : i # n => e.runs[i].end \in {"returned", "failure", "exception"}
  BY DEF OpenEntry
<1>8. \A i \in 1 .. n : d.runs[i].end = IF i = n THEN how ELSE e.runs[i].end
  <2> HIDE DEF n
  <2> QED BY <1>1, <1>2, <1>3, <1>4
<1>9. d.runs[n + 1].end = "open"
  BY <1>4 DEF NewRun
<1>10. \A i \in 1 .. n + 1 : i \in 1 .. n \/ i = n + 1
  BY <1>1
<1>11. more # {} <=> how # "returned"
  BY DEF more
<1>12. more \subseteq {"AssertFailure", "Exception"}
  BY DEF more
<1> HIDE DEF n, old, more
<1>13. new.flags # {} <=> \E i \in DOMAIN d.runs : d.runs[i].end \in {"failure", "exception"}
  <2>1. new.flags # {} <=> c.flags # {} \/ how # "returned"
    BY <1>11
  <2>2. ASSUME c.flags # {}
        PROVE  \E i \in DOMAIN d.runs : d.runs[i].end \in {"failure", "exception"}
    <3>1. PICK i \in DOMAIN e.runs : e.runs[i].end \in {"failure", "exception"}
      BY <1>7, <2>2
    <3>2. i # n /\ i \in 1 .. n /\ i \in 1 .. n + 1
      BY <1>1, <1>7, <3>1
    <3> QED BY <1>5, <1>8, <3>1, <3>2
  <2>3. ASSUME how # "returned"
        PROVE  \E i \in DOMAIN d.runs : d.runs[i].end \in {"failure", "exception"}
    <3>1. n \in 1 .. n /\ n \in 1 .. n + 1
      BY <1>1
    <3>2. how \in {"failure", "exception"}
      BY <2>3
    <3> QED BY <1>5, <1>8, <3>1, <3>2
  <2>4. ASSUME NEW i \in DOMAIN d.runs, d.runs[i].end \in {"failure", "exception"}
        PROVE  c.flags # {} \/ how # "returned"
    <3>1. i # n + 1
      BY <1>9, <2>4
    <3>2. i \in 1 .. n
      BY <1>5, <1>10, <3>1
    <3>3. CASE i = n
      BY <1>8, <2>4, <3>2, <3>3
    <3>4. CASE i # n
      BY <1>1, <1>7, <1>8, <2>4, <3>2, <3>4
    <3> QED BY <3>3, <3>4
  <2> QED BY <2>1, <2>2, <2>3, <2>4
<1>14. \A i \in DOMAIN d.runs : i # Len(d.runs) => d.runs[i].end \in {"returned", "failure", "exception"}
  <2> SUFFICES ASSUME NEW i \in 1 .. n
               PROVE  d.runs[i].end \in {"returned", "failure", "exception"}
    BY <1>4, <1>5, <1>10
  <2>1. CASE i = n
    BY <1>8, <2>1
  <2>2. CASE i # n
    BY <1>1, <1>7, <1>8, <2>2
  <2> QED BY <2>1, <2>2
<1>15. /\ new = [flags |-> new.flags, asserts |-> new.asserts, failed |-> new.failed]
       /\ new.failed = FailedIn(d) /\ new.asserts = AssertsIn(d)
       /\ new.flags \subseteq {"AssertFailure", "Exception"}
       /\ d.test = test /\ d.late = FALSE
  BY <1>3, <1>4, <1>6, <1>7, <1>12
<1>16. d.runs[Len(d.runs)].end = "open"
  BY <1>4, <1>9
<1> HIDE DEF new
<1>17. OpenEntry(d, test, new)
  BY <1>13, <1>14, <1>15, <1>16 DEF OpenEntry
<1> QED BY <1>3, <1>4, <1>17 DEF d, d1, r, new, more, old, n

\* What the handlers make of an exception, when too many have failed or not.
LEMMA RunFlagsAre ==
    ASSUME thrown \in {"nothing", "failure", "exception"}, current.flags \subseteq {"AssertFailure", "Exception"}
    PROVE  /\ HowItEnded \in {"returned", "failure", "exception"}
           /\ ~TooMany(current.failed) =>
                 RunFlags = current.flags \cup (CASE HowItEnded = "failure" -> {"AssertFailure"}
                                                  [] HowItEnded = "exception" -> {"Exception"} [] OTHER -> {})
           /\ RunFlags \subseteq {"AssertFailure", "Exception", "Crash", "TooManyFailedAsserts"}
           /\ RunFlags # {} <=> current.flags # {} \/ HowItEnded # "returned" \/ TooMany(current.failed)
<1>1. CASE thrown = "nothing"
  BY <1>1 DEF HowItEnded, RunFlags
<1>2. CASE thrown = "failure"
  BY <1>2 DEF HowItEnded, RunFlags
<1>3. CASE thrown = "exception"
  BY <1>3 DEF HowItEnded, RunFlags
<1> QED BY <1>1, <1>2, <1>3

\* The last entry takes two changes, one after the other.
LEMMA ChangedTwice ==
    ASSUME NEW l, NEW k \in DOMAIN l, NEW x, NEW y
    PROVE  [[l EXCEPT ![k] = x] EXCEPT ![k] = y] = [l EXCEPT ![k] = y] /\ [l EXCEPT ![k] = x][k] = x
OBVIOUS

LEMMA ReenterKeeps ==
    ASSUME VerdictInv, Reenter
    PROVE  VerdictInv'
<1> DEFINE k == Len(log)
           e == log[k]
           how == HowItEnded
           r == [e.runs[Len(e.runs)] EXCEPT !.end = how]
           d1 == [e EXCEPT !.runs[Len(e.runs)] = r]
           d == [d1 EXCEPT !.runs = Append(@, NewRun)]
           more == CASE how = "failure" -> {"AssertFailure"} [] how = "exception" -> {"Exception"} [] OTHER -> {}
           new == [flags |-> current.flags \cup more, asserts |-> current.asserts, failed |-> current.failed]
           again == <<[kind |-> "test_case_reenter", test |-> Test]>>
           t == Advanced(traversal)
           m1 == [log EXCEPT ![k] = d1]
<1>1. /\ phase = "body" /\ phase' = "body" /\ ~TooMany(current.failed)
      /\ invocation' = invocation /\ p' = p /\ testArray' = testArray /\ at' = at /\ stats' = stats
      /\ current' = [current EXCEPT !.flags = RunFlags] /\ Begin(Test.body, t)
      /\ reporters' = Notified(reporters, RunCalls \o again)
      /\ log' = [m1 EXCEPT ![k] = [m1[k] EXCEPT !.runs = Append(@, NewRun)]]
  BY DEF Reenter, RunOver, Ended, Notify
<1>2. Course(thrown, scopes, traversal) /\ Listening(reporters)
  BY <1>1, Body
<1>3. IsEntry(e) /\ OpenEntry(e, Test, current) /\ k \in DOMAIN log
  BY <1>1, OpenRun
<1>4. /\ how \in {"returned", "failure", "exception"} /\ RunFlags = current.flags \cup more
  <2>1. thrown \in {"nothing", "failure", "exception"} /\ current.flags \subseteq {"AssertFailure", "Exception"}
    BY <1>2, <1>3 DEF Course, OpenEntry
  <2> QED BY <1>1, <2>1, RunFlagsAre
<1>5. IsEntry(d) /\ OpenEntry(d, Test, new)
  <2> DEFINE test == Test
  <2>1. OpenEntry(e, test, current)
    BY <1>3
  <2> HIDE DEF e, how, test
  <2> QED BY <1>3, <1>4, <2>1, RunFollows DEF test
<1>6. log' = [log EXCEPT ![k] = d]
  <2> DEFINE l == log
  <2>1. l = log
    OBVIOUS
  <2> HIDE DEF d1, k, l
  <2>2. m1[k] = d1
    BY <1>3
  <2>3. log' = [m1 EXCEPT ![k] = d]
    BY <1>1, <2>2
  <2> HIDE DEF d
  <2>4. [[log EXCEPT ![k] = d1] EXCEPT ![k] = d] = [log EXCEPT ![k] = d]
    BY <1>3, ChangedTwice
  <2> QED BY <2>3, <2>4
<1>7. current' = new
  <2>1. current = [flags |-> current.flags, asserts |-> current.asserts, failed |-> current.failed]
    BY <1>1, CountsAreNumbers
  <2> DEFINE a == current.asserts
             f == current.failed
             g == current.flags
  <2>2. current = [flags |-> g, asserts |-> a, failed |-> f] /\ new = [flags |-> RunFlags, asserts |-> a, failed |-> f]
    BY <1>4, <2>1
  <2> HIDE DEF a, f, g, new
  <2>3. [current EXCEPT !.flags = RunFlags] = [flags |-> RunFlags, asserts |-> a, failed |-> f]
    BY ONLY <2>2
  <2> QED BY <1>1, <2>2, <2>3
<1>8. Course(thrown', scopes', traversal')
  <2>1. "active" \in DOMAIN t
    BY <1>2 DEF Advanced, Course
  <2> HIDE DEF t
  <2> QED BY <1>1, <2>1, CourseBegins
<1>9. Listening(reporters')
  <2>1. IsList(RunCalls) /\ IsList(again)
    BY ShortCalls DEF RunCalls
  <2> HIDE DEF again
  <2>2. IsList(RunCalls \o again)
    BY <2>1, ConcatList
  <2>3. Len(RunCalls \o again) \in Nat
    BY <2>2, ListProperties
  <2> QED BY <1>1, <1>2, <2>3, NotifiedKeeps
<1> HIDE DEF d, new
<1> QED BY <1>1, <1>5, <1>6, <1>7, <1>8, <1>9, BodyKeeps

\* How the last run of a test case ended, and whether it took too long.
LEMMA EntryEnds ==
    ASSUME VerdictInv, phase = "body", NEW how, NEW late
    PROVE  [Ended(how) EXCEPT ![Len(log)].late = late]
              = [log EXCEPT ![Len(log)] = ClosedEntry(log[Len(log)], how, late)]
<1> DEFINE k == Len(log)
           e == log[k]
           r == [e.runs[Len(e.runs)] EXCEPT !.end = how]
           d1 == [e EXCEPT !.runs[Len(e.runs)] = r]
           d == [d1 EXCEPT !.late = late]
           m1 == [log EXCEPT ![k] = d1]
<1>1. k \in DOMAIN log
  BY OpenRun
<1>2. Ended(how) = m1
  BY DEF Ended
<1>3. ClosedEntry(e, how, late) = d
  BY DEF ClosedEntry
<1> HIDE DEF d1, k
<1>4. m1[k] = d1
  BY <1>1
<1>5. [m1 EXCEPT ![k].late = late] = [m1 EXCEPT ![k] = d]
  BY <1>4
<1> HIDE DEF d
<1>6. [[log EXCEPT ![k] = d1] EXCEPT ![k] = d] = [log EXCEPT ![k] = d]
  BY <1>1, ChangedTwice
<1> QED BY <1>2, <1>3, <1>5, <1>6 DEF k

LEMMA AddedIsPlus ==
    ASSUME NEW l, NEW k, NEW limit, StatsOf(stats, l, k, limit), NEW flags
    PROVE  /\ Added(flags) = Plus(stats, current.asserts, current.failed, IF Success(flags) THEN 0 ELSE 1)
              \/ stats.failedCases \notin Nat
           /\ Plus(stats, current.asserts, current.failed, IF Success(flags) THEN 0 ELSE 1).cases = stats.cases
<1> DEFINE a == stats.asserts + current.asserts
           f == stats.failedAsserts + current.failed
           b == IF Success(flags) THEN stats.failedCases ELSE stats.failedCases + 1
           more == IF Success(flags) THEN 0 ELSE 1
<1>1. Added(flags) = [[[stats EXCEPT !.asserts = a] EXCEPT !.failedAsserts = f] EXCEPT !.failedCases = b]
  BY DEF Added
<1>2. stats.failedCases \in Nat => b = stats.failedCases + more
  OBVIOUS
<1> HIDE DEF a, f, b, more
<1>3. PICK x, y, z, u, v, w : stats = [cases |-> x, passing |-> y, suites |-> z, failedCases |-> u,
                                       asserts |-> v, failedAsserts |-> w]
  BY DEF StatsOf
<1> DEFINE s1 == [cases |-> x, passing |-> y, suites |-> z, failedCases |-> u, asserts |-> a, failedAsserts |-> w]
           s2 == [cases |-> x, passing |-> y, suites |-> z, failedCases |-> u, asserts |-> a, failedAsserts |-> f]
           s3 == [cases |-> x, passing |-> y, suites |-> z, failedCases |-> b, asserts |-> a, failedAsserts |-> f]
<1>4. [stats EXCEPT !.asserts = a] = s1
  BY ONLY <1>3
<1>5. [s1 EXCEPT !.failedAsserts = f] = s2 /\ [s2 EXCEPT !.failedCases = b] = s3
  OBVIOUS
<1>6. Added(flags) = s3
  <2> HIDE DEF s1, s2, s3
  <2> QED BY <1>1, <1>4, <1>5
<1>7. Plus(stats, current.asserts, current.failed, more)
        = [cases |-> x, passing |-> y, suites |-> z, failedCases |-> stats.failedCases + more,
           asserts |-> a, failedAsserts |-> f]
  BY <1>3 DEF Plus, a, f
<1>8. Plus(stats, current.asserts, current.failed, more).cases = stats.cases
  BY <1>3, <1>7
<1> QED BY <1>2, <1>6, <1>7, <1>8 DEF more

LEMMA EndStep ==
    ASSUME VerdictInv, phase = "body", phase' \in {"select", "report", "killed"},
           invocation' = invocation, p' = p,
           NEW how \in Ends, how # "open", NEW late \in BOOLEAN, late => Test.timeout,
           NEW flags, flags \subseteq {"AssertFailure", "Exception", "Crash", "TooManyFailedAsserts"},
           flags # {} <=> current.flags # {} \/ how # "returned" \/ TooMany(current.failed),
           log' = [log EXCEPT ![Len(log)] = ClosedEntry(log[Len(log)], how, late)],
           stats' = Added(Finalized(Test, flags, current.failed, late)),
           Listening(reporters'), phase' = "killed" => Summed(reporters', stats')
    PROVE  VerdictInv'
<1> DEFINE k == Len(log) - 1
           limit == invocation.asked.abort_after
           test == Test
           c == current
           st == stats
           l == log
           ok == Success(Finalized(test, flags, c.failed, late))
           bad == IF ok THEN 0 ELSE 1
           m == [l EXCEPT ![Len(l)] = ClosedEntry(l[Len(l)], how, late)]
           st2 == Plus(st, c.asserts, c.failed, bad)
<1>1. /\ IsLog(l) /\ Len(l) # 0 /\ StatsOf(st, l, k, limit) /\ OpenEntry(l[Len(l)], test, c)
      /\ Running => st.cases = Cardinality(invocation.tests)
  BY DEF VerdictInv, Judged
<1>2. Len(l) \in Nat /\ k \in Nat /\ k + 1 <= Len(l)
  <2>1. Len(l) \in Nat
    BY <1>1, ListProperties DEF IsLog
  <2> QED BY <1>1, <2>1
<1>3. flags # {} <=> c.flags # {} \/ how # "returned" \/ (limit > 0 /\ st.failedAsserts + c.failed >= limit)
  BY OptionsAreAsked DEF TooMany
<1>4. IsLog(m) /\ Len(m) = Len(l) /\ StatsOf(st2, m, Len(m), limit)
  <2>1. late => test.timeout
    OBVIOUS
  <2>2. IsLog(l)
    BY <1>1
  <2>3. Len(l) # 0
    BY <1>1
  <2>4. StatsOf(st, l, Len(l) - 1, limit)
    BY <1>1
  <2>5. OpenEntry(l[Len(l)], test, c)
    BY <1>1
  <2>6. /\ how \in Ends /\ how # "open" /\ late \in BOOLEAN
        /\ flags \subseteq {"AssertFailure", "Exception", "Crash", "TooManyFailedAsserts"}
    OBVIOUS
  <2> HIDE DEF k, limit, test, c, st, l
  <2> QED BY ONLY <1>3, <2>1, <2>2, <2>3, <2>4, <2>5, <2>6, TestJudged
<1>5. st.failedCases \in Nat
  <2>1. Cardinality(BadIn(l, k, limit)) \in Nat
    <3>1. IsLog(l)
      BY <1>1
    <3> HIDE DEF k, limit, l
    <3> QED BY ONLY <1>2, <3>1, CountsGrow
  <2> QED BY <1>1, <2>1 DEF StatsOf
<1>6. stats' = st2 /\ st2.cases = st.cases
  <2>1. StatsOf(stats, log, k, limit)
    BY <1>1
  <2> DEFINE f == Finalized(test, flags, c.failed, late)
  <2>2. stats' = Added(f) /\ bad = IF Success(f) THEN 0 ELSE 1
    OBVIOUS
  <2> HIDE DEF k, limit, f
  <2>3. /\ Added(f) = Plus(stats, current.asserts, current.failed, IF Success(f) THEN 0 ELSE 1)
           \/ stats.failedCases \notin Nat
        /\ Plus(stats, current.asserts, current.failed, IF Success(f) THEN 0 ELSE 1).cases = stats.cases
    BY <2>1, AddedIsPlus
  <2> HIDE DEF bad
  <2> QED BY <1>5, <2>2, <2>3
<1>7. log' = m
  OBVIOUS
<1> HIDE DEF m, st2
<1>8. IsLog(log') /\ StatsOf(stats', log', Len(log'), limit) /\ (Running => stats'.cases = Cardinality(invocation.tests))
  BY <1>1, <1>4, <1>6, <1>7
<1> QED BY <1>8, OutsideKeeps

LEMMA EndTestKeeps ==
    ASSUME VerdictInv, EndTest
    PROVE  VerdictInv'
<1>1. PICK late \in (IF Test.timeout THEN BOOLEAN ELSE {FALSE}) :
          LET flags == Finalized(Test, RunFlags, current.failed, late)
          IN  /\ stats' = Added(flags)
              /\ current' = [current EXCEPT !.flags = flags]
              /\ reporters' = Notified(reporters, RunCalls \o <<EndCall(flags)>>)
              /\ log' = [Ended(HowItEnded) EXCEPT ![Len(log)].late = late]
  BY DEF EndTest, Notify
<1> DEFINE calls == <<EndCall(Finalized(Test, RunFlags, current.failed, late))>>
<1>2. late \in BOOLEAN /\ (late => Test.timeout)
  OBVIOUS
<1>3. phase = "body" /\ phase' \in {"select", "report"} /\ invocation' = invocation /\ p' = p
  BY DEF EndTest, RunOver
<1>4. thrown \in {"nothing", "failure", "exception"} /\ current.flags \subseteq {"AssertFailure", "Exception"}
      /\ Listening(reporters)
  BY <1>3, Body, OpenRun DEF Course, OpenEntry
<1>5. /\ HowItEnded \in Ends /\ HowItEnded # "open"
      /\ RunFlags \subseteq {"AssertFailure", "Exception", "Crash", "TooManyFailedAsserts"}
      /\ RunFlags # {} <=> current.flags # {} \/ HowItEnded # "returned" \/ TooMany(current.failed)
  BY <1>4, RunFlagsAre DEF Ends
<1>6. log' = [log EXCEPT ![Len(log)] = ClosedEntry(log[Len(log)], HowItEnded, late)]
  BY <1>1, <1>3, EntryEnds
<1>7. stats' = Added(Finalized(Test, RunFlags, current.failed, late))
  BY <1>1
<1>8. Listening(reporters')
  <2>1. IsList(RunCalls) /\ IsList(calls)
    BY ShortCalls DEF RunCalls
  <2>2. reporters' = Notified(reporters, RunCalls \o calls)
    BY <1>1
  <2> HIDE DEF calls
  <2>3. IsList(RunCalls \o calls)
    BY <2>1, ConcatList
  <2>4. Len(RunCalls \o calls) \in Nat
    BY <2>3, ListProperties
  <2> QED BY <1>4, <2>2, <2>4, NotifiedKeeps
<1> QED BY <1>2, <1>3, <1>5, <1>6, <1>7, <1>8, EndStep

LEMMA CrashKeeps ==
    ASSUME VerdictInv, Crash
    PROVE  VerdictInv'
<1> DEFINE found == current.flags \cup {"Crash"}
           left == [i \in 1 .. traversal.active |-> [kind |-> "subcase_end"]]
           first == <<[kind |-> "test_case_exception"]>>
<1>1. PICK late \in (IF Test.timeout THEN BOOLEAN ELSE {FALSE}) :
          LET flags == Finalized(Test, found, current.failed, late)
          IN  /\ stats' = Added(flags)
              /\ reporters' = Notified(reporters, first \o left \o <<EndCall(flags), [kind |-> "test_run_end", stats |-> stats']>>)
              /\ log' = [Ended("crash") EXCEPT ![Len(log)].late = late]
  BY DEF Crash, Notify
<1> DEFINE final == [kind |-> "test_run_end", stats |-> stats']
           flags == Finalized(Test, found, current.failed, late)
           end == EndCall(flags)
           last == <<end, final>>
           calls == first \o left \o last
<1>2. late \in BOOLEAN /\ (late => Test.timeout)
  OBVIOUS
<1>3. phase = "body" /\ phase' = "killed" /\ invocation' = invocation /\ p' = p
  BY DEF Crash, Executing
<1>4. /\ current.flags \subseteq {"AssertFailure", "Exception"} /\ Listening(reporters)
      /\ IsList(scopes) /\ Len(scopes) # 0 /\ traversal.active = Len(scopes) - 1
  BY <1>3, Body, OpenRun DEF Course, OpenEntry
<1>5. /\ found \subseteq {"AssertFailure", "Exception", "Crash", "TooManyFailedAsserts"} /\ found # {}
      /\ "crash" \in Ends /\ "crash" # "open" /\ "crash" # "returned"
  BY <1>4 DEF Ends
<1>6. log' = [log EXCEPT ![Len(log)] = ClosedEntry(log[Len(log)], "crash", late)]
  BY <1>1, <1>3, EntryEnds
<1>7. stats' = Added(Finalized(Test, found, current.failed, late))
  BY <1>1
<1>8. reporters' = Notified(reporters, calls)
  BY <1>1
<1>9. IsList(calls) /\ Len(calls) \in Nat /\ Len(calls) # 0 /\ calls[Len(calls)] = final
  <2>1. IsList(left)
    <3> DEFINE n == traversal.active
    <3>1. n \in Nat
      BY <1>4, ListProperties
    <3>2. DOMAIN left = 1 .. n /\ left = [i \in 1 .. n |-> left[i]]
      OBVIOUS
    <3> HIDE DEF left, n
    <3> QED BY <3>1, <3>2, FunctionIsList
  <2>2. IsList(first) /\ IsList(last) /\ Len(last) = 2 /\ last[2] = final
    <3> HIDE DEF end, final
    <3> QED BY ShortCalls
  <2> HIDE DEF left, first, last, final
  <2>3. IsList(first \o left)
    BY <2>1, <2>2, ConcatList
  <2> DEFINE s == first \o left
  <2>4. /\ IsList(s \o last) /\ Len(s \o last) = Len(s) + Len(last)
        /\ \A i \in 1 .. Len(last) : (s \o last)[Len(s) + i] = last[i]
    <3>1. IsList(s)
      BY <2>3
    <3>2. IsList(last)
      BY <2>2
    <3> HIDE DEF s
    <3> QED BY ONLY <3>1, <3>2, ConcatList
  <2>5. Len(s) \in Nat
    BY <2>3, ListProperties
  <2> HIDE DEF s
  <2>6. Len(s \o last) = Len(s) + 2 /\ (s \o last)[Len(s) + 2] = final
    BY <2>2, <2>4
  <2> QED BY <2>4, <2>5, <2>6 DEF s
<1> HIDE DEF calls
<1>10. Listening(reporters') /\ Summed(reporters', stats')
  BY <1>4, <1>8, <1>9, NotifiedKeeps, NotifiedSums
<1> HIDE DEF found
<1> QED BY <1>2, <1>3, <1>5, <1>6, <1>7, <1>10, EndStep
--------------------------------------------------------------------------------
(* The verdicts are kept.                                                    *)

\* What is seen of the log at the end.
LEMMA VerdictsFollow ==
    ASSUME VerdictInv
    PROVE  VerdictsAreKept
<1> SUFFICES ASSUME Over, Running
             PROVE  LET bad == {n \in DOMAIN log : ~Passed(n)}
                        asserts == Total([n \in DOMAIN log |-> Asserts(n)])
                    IN  /\ stats.failedCases = Cardinality(bad)
                        /\ stats.failedAsserts = FailuresUpTo(Len(log)) /\ stats.asserts = asserts
                        /\ ExitFailure <=> bad # {} /\ ~Asked.no_exitcode
                        /\ "console" \in DOMAIN reporters =>
                              SubSeq(reporters.console.summary, 1, 3)
                                = <<stats.passing, Cardinality(bad), Cardinality(invocation.tests) - stats.passing>>
  BY DEF VerdictsAreKept
<1> DEFINE k == Len(log)
           limit == invocation.asked.abort_after
           bad == {n \in DOMAIN log : ~Passed(n)}
<1>1. phase # "body" /\ phase # "start"
  BY DEF Over
<1>2. /\ IsLog(log) /\ k \in Nat /\ StatsOf(stats, log, k, limit)
      /\ stats.cases = Cardinality(invocation.tests)
  BY <1>1, Outside
<1>3. DOMAIN log = 1 .. k
  BY <1>2, ListProperties DEF IsLog
<1>4. /\ stats.failedAsserts = FailedUpTo(log, k) /\ stats.asserts = AssertsUpTo(log, k)
      /\ stats.failedCases = Cardinality(BadIn(log, k, limit))
  BY <1>2 DEF StatsOf
<1>5. \A n : Failures(n) = FailedIn(log[n]) /\ Asserts(n) = AssertsIn(log[n])
  BY DEF Failures, Asserts, FailedIn, AssertsIn
<1>6. \A n : FailuresUpTo(n) = FailedUpTo(log, n)
  BY <1>5 DEF FailuresUpTo, FailedUpTo
<1>7. Total([n \in DOMAIN log |-> Asserts(n)]) = AssertsUpTo(log, k)
  BY <1>3, <1>5 DEF AssertsUpTo
<1>8. ASSUME NEW n
      PROVE  Passed(n) <=> PassedIn(log, n, limit)
  <2>1. Reached(n) <=> ReachedIn(log, n, limit)
    BY <1>6 DEF Reached, ReachedIn, Asked
  <2>2. \A how : Thrown(n, how) <=> ThrownIn(log[n], how)
    BY DEF Thrown, ThrownIn
  <2>3. Troubled(n) <=> TroubledIn(log, n, limit)
    BY <1>5, <2>1, <2>2 DEF Troubled, TroubledIn
  <2> QED BY <1>5, <2>3 DEF Passed, Expects, PassedIn
<1>9. bad = BadIn(log, k, limit)
  BY <1>3, <1>8 DEF BadIn
<1>10. ExitFailure <=> bad # {} /\ ~Asked.no_exitcode
  <2>1. p.no_exitcode = Asked.no_exitcode
    BY OptionsAreAsked DEF Asked
  <2>2. IsFiniteSet(bad)
    <3>1. IsFiniteSet(1 .. k)
      BY <1>2, FS_Interval
    <3> QED BY <1>3, <3>1, FS_Subset
  <2>3. Cardinality(bad) \in Nat /\ (Cardinality(bad) = 0 <=> bad = {})
    BY <2>2, FS_CardinalityType, FS_EmptySet
  <2> HIDE DEF bad
  <2>4. stats.failedCases > 0 <=> bad # {}
    BY <1>4, <1>9, <2>3
  <2> QED BY <2>1, <2>4 DEF ExitFailure
<1>11. ASSUME "console" \in DOMAIN reporters
       PROVE  SubSeq(reporters.console.summary, 1, 3)
                 = <<stats.passing, Cardinality(bad), Cardinality(invocation.tests) - stats.passing>>
  <2> DEFINE a == stats.passing
             b == stats.failedCases
             c == stats.cases - stats.passing
             d == stats.asserts
             e == stats.failedAsserts
  <2>1. reporters["console"].summary = <<a, b, c, d, e>>
    BY <1>11 DEF VerdictInv, Summed
  <2>2. b = Cardinality(bad) /\ c = Cardinality(invocation.tests) - stats.passing
    BY <1>2, <1>4, <1>9
  <2> HIDE DEF a, b, c, d, e
  <2>3. SubSeq(<<a, b, c, d, e>>, 1, 3) = <<a, b, c>>
    <3> DEFINE s == <<a, b, c, d, e>>
               t == <<a, b, c>>
    <3>1. s[1] = a /\ s[2] = b /\ s[3] = c /\ t[1] = a /\ t[2] = b /\ t[3] = c
      OBVIOUS
    <3>2. t = [i \in 1 .. 3 |-> t[i]]
      OBVIOUS
    <3> HIDE DEF s, t
    <3>3. \A i \in 1 .. 3 : i = 1 \/ i = 2 \/ i = 3
      OBVIOUS
    <3>4. \A i \in 1 .. 3 : s[i] = t[i]
      BY <3>1, <3>3
    <3>5. [i \in 1 .. 3 |-> s[i]] = [i \in 1 .. 3 |-> t[i]]
      BY <3>4
    <3>6. SubSeq(s, 1, 3) = [i \in 1 .. 3 |-> s[i]]
      BY DEF SubSeq
    <3> QED BY <3>2, <3>5, <3>6 DEF s, t
  <2> QED BY <2>1, <2>2, <2>3 DEF a
<1> HIDE DEF bad
<1> QED BY <1>4, <1>6, <1>7, <1>9, <1>10, <1>11 DEF bad

LEMMA InitKeeps ==
    ASSUME Init
    PROVE  VerdictInv
<1> DEFINE limit == invocation.asked.abort_after
<1>1. /\ invocation \in Invocations /\ p = parseArgs(invocation.args, MaxUnsigned, MaxInt)
      /\ phase = "start" /\ stats = NewStats /\ reporters = NewReporters({}) /\ log = <<>>
  BY DEF Init
<1>2. IsLog(<<>>) /\ Len(<<>>) = 0 /\ StatsOf(NewStats, <<>>, 0, limit)
  BY NothingJudged
<1>3. StatsOf(stats, log, Judged, limit)
  BY <1>1, <1>2 DEF Judged
<1>4. Listening(reporters)
  BY <1>1 DEF Listening, NewReporters
<1>5. IsLog(log)
  BY <1>1, <1>2
<1> QED BY <1>1, <1>3, <1>4, <1>5 DEF VerdictInv, Over

LEMMA NextKeeps ==
    ASSUME VerdictInv, [Next]_vars
    PROVE  VerdictInv'
<1>1. CASE Start
  BY <1>1, StartKeeps
<1>2. CASE Skip
  BY <1>2, SkipKeeps
<1>3. CASE Count
  BY <1>3, CountKeeps
<1>4. CASE StartTest
  BY <1>4, StartTestKeeps
<1>5. CASE EnterSubcase
  BY <1>5, EnterSubcaseKeeps
<1>6. CASE Generate
  BY <1>6, GenerateKeeps
<1>7. CASE LogAssert
  BY <1>7, LogAssertKeeps
<1>8. CASE Throw
  BY <1>8, ThrowKeeps
<1>9. CASE LeaveSubcase
  BY <1>9, LeaveSubcaseKeeps
<1>10. CASE Reenter
  BY <1>10, ReenterKeeps
<1>11. CASE EndTest
  BY <1>11, EndTestKeeps
<1>12. CASE Crash
  BY <1>12, CrashKeeps
<1>13. CASE Report
  BY <1>13, ReportKeeps
<1>14. CASE UNCHANGED vars
  <2>1. /\ invocation' = invocation /\ p' = p /\ phase' = phase /\ testArray' = testArray /\ at' = at
        /\ stats' = stats /\ current' = current /\ traversal' = traversal /\ scopes' = scopes
        /\ thrown' = thrown /\ reporters' = reporters /\ log' = log
    BY <1>14 DEF vars
  <2> QED BY <2>1 DEF VerdictInv, Judged, Running, Asked, Over, Test
<1> QED BY <1>1, <1>2, <1>3, <1>4, <1>5, <1>6, <1>7, <1>8, <1>9, <1>10, <1>11, <1>12, <1>13, <1>14 DEF Next

\* At every step of the runner the statistics are those of the test cases that
\* are over, judged by their runs, and what is known of the one that runs is
\* what its runs have shown (Context::run(), finalizeTestCaseData()).
THEOREM VerdictInvariant == Spec => []VerdictInv
<1>1. Init => VerdictInv
  BY InitKeeps
<1>2. VerdictInv /\ [Next]_vars => VerdictInv'
  BY NextKeeps
<1> QED BY <1>1, <1>2, PTL DEF Spec

\* The verdict of every test case is the one its decorators give to what
\* happened in all of its runs; the summary and the exit status add the
\* verdicts up, also when a signal ends the program: for any executables,
\* command lines and bodies, and however the runs end.
THEOREM VerdictsKept == Spec => []VerdictsAreKept
<1>1. VerdictInv => VerdictsAreKept
  BY VerdictsFollow
<1> QED BY <1>1, VerdictInvariant, PTL
================================================================================
