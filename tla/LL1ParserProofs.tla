---------------------------- MODULE LL1ParserProofs ----------------------------
(***************************************************************************)
(* The productions a Parser uses for a word it accepts are a leftmost      *)
(* derivation of the word, for every grammar, LL(1) or not, and the loop   *)
(* that grows the tree goes through that derivation in step.               *)
(***************************************************************************)
EXTENDS LL1Parser, PoolLayoutProofs

(* Sequences.                                                                *)

LEMMA OneInSeq ==
    ASSUME NEW S, NEW x \in S
    PROVE  <<x>> \in Seq(S)
OBVIOUS

\* The tail of a sequence, as After() cuts it.
LEMMA AfterProperties ==
    ASSUME NEW S, NEW u \in Seq(S), NEW i \in 0 .. Len(u)
    PROVE  /\ After(u, i) \in Seq(S) /\ Len(After(u, i)) = Len(u) - i
           /\ \A j \in 1 .. Len(u) - i : After(u, i)[j] = u[i + j]
<1>1. Len(u) \in Nat /\ \A j \in i + 1 .. Len(u) : u[j] \in S
  BY LenProperties, ElementOfSeq
<1>2. /\ SubSeq(u, i + 1, Len(u)) \in Seq(S)
      /\ Len(SubSeq(u, i + 1, Len(u))) = IF i + 1 <= Len(u) THEN Len(u) - (i + 1) + 1 ELSE 0
      /\ \A j \in 1 .. Len(u) - (i + 1) + 1 : SubSeq(u, i + 1, Len(u))[j] = u[i + 1 + j - 1]
  <2>1. i + 1 \in Int /\ Len(u) \in Int
    BY <1>1
  <2> QED BY ONLY <1>1, <2>1, SubSeqProperties
<1> QED BY <1>1, <1>2 DEF After

LEMMA UptoProperties ==
    ASSUME NEW S, NEW u \in Seq(S), NEW i \in 0 .. Len(u)
    PROVE  /\ SubSeq(u, 1, i) \in Seq(S) /\ Len(SubSeq(u, 1, i)) = i
           /\ \A j \in 1 .. i : SubSeq(u, 1, i)[j] = u[j]
<1>1. Len(u) \in Nat /\ \A j \in 1 .. i : u[j] \in S
  BY LenProperties, ElementOfSeq
<1>2. /\ SubSeq(u, 1, i) \in Seq(S)
      /\ Len(SubSeq(u, 1, i)) = IF 1 <= i THEN i - 1 + 1 ELSE 0
      /\ \A j \in 1 .. i - 1 + 1 : SubSeq(u, 1, i)[j] = u[1 + j - 1]
  <2>1. 1 \in Int /\ i \in Int
    OBVIOUS
  <2> QED BY ONLY <1>1, <2>1, SubSeqProperties
<1> QED BY <1>1, <1>2

\* A sequence that is put together of two is cut where they meet.
LEMMA CutWhereJoined ==
    ASSUME NEW S, NEW x \in Seq(S), NEW y \in Seq(S)
    PROVE  /\ x \o y \in Seq(S) /\ Len(x \o y) = Len(x) + Len(y)
           /\ Len(x) \in Nat /\ Len(y) \in Nat
           /\ \A i \in 1 .. Len(x) : (x \o y)[i] = x[i]
           /\ \A i \in 1 .. Len(y) : (x \o y)[Len(x) + i] = y[i]
           /\ SubSeq(x \o y, 1, Len(x)) = x
           /\ After(x \o y, Len(x)) = y
<1>1. /\ x \o y \in Seq(S) /\ Len(x \o y) = Len(x) + Len(y)
      /\ Len(x) \in Nat /\ Len(y) \in Nat
      /\ \A i \in 1 .. Len(x) : (x \o y)[i] = x[i]
      /\ \A i \in 1 .. Len(y) : (x \o y)[Len(x) + i] = y[i]
  <2>1. /\ x \o y \in Seq(S) /\ Len(x \o y) = Len(x) + Len(y) /\ Len(x) \in Nat /\ Len(y) \in Nat
        /\ \A i \in 1 .. Len(x) + Len(y) : (x \o y)[i] = IF i <= Len(x) THEN x[i] ELSE y[i - Len(x)]
    BY ConcatProperties, LenProperties
  <2>2. \A i \in 1 .. Len(x) : i \in 1 .. Len(x) + Len(y) /\ i <= Len(x)
    BY <2>1
  <2>3. \A i \in 1 .. Len(y) : Len(x) + i \in 1 .. Len(x) + Len(y) /\ ~(Len(x) + i <= Len(x)) /\ (Len(x) + i) - Len(x) = i
    BY <2>1
  <2>4. \A i \in 1 .. Len(y) : (x \o y)[Len(x) + i] = y[(Len(x) + i) - Len(x)]
    BY <2>1, <2>3
  <2> QED BY <2>1, <2>2, <2>3, <2>4
<1>2. Len(x) \in 0 .. Len(x \o y)
  BY <1>1
<1>3. SubSeq(x \o y, 1, Len(x)) = x
  <2> DEFINE s == SubSeq(x \o y, 1, Len(x))
  <2>1. s \in Seq(S) /\ Len(s) = Len(x) /\ \A j \in 1 .. Len(x) : s[j] = x[j]
    BY <1>1, <1>2, UptoProperties
  <2> HIDE DEF s
  <2>2. s = x
    BY <2>1, SeqEqual
  <2> QED BY <2>2 DEF s
<1>4. After(x \o y, Len(x)) = y
  <2> DEFINE s == After(x \o y, Len(x))
  <2>1. Len(x \o y) - Len(x) = Len(y)
    BY <1>1
  <2>2. /\ s \in Seq(S) /\ Len(s) = Len(x \o y) - Len(x)
        /\ \A j \in 1 .. Len(x \o y) - Len(x) : s[j] = (x \o y)[Len(x) + j]
    BY <1>1, <1>2, AfterProperties
  <2> HIDE DEF s
  <2>3. s \in Seq(S) /\ Len(s) = Len(y) /\ \A j \in 1 .. Len(y) : s[j] = y[j]
    BY <1>1, <2>1, <2>2
  <2>4. s = y
    BY <2>3, SeqEqual
  <2> QED BY <2>4 DEF s
<1> QED BY <1>1, <1>3, <1>4
--------------------------------------------------------------------------------
(* Derivations.                                                              *)

IsForms(g, used, form) ==
    form = [n \in 0 .. Len(used) |->
                IF n = 0 THEN <<g.start>> ELSE Expanded(g, form[n - 1], used[n][2].rhs)]

\* The recursive definition of Sentential() has a solution.
LEMMA SententialExists ==
    ASSUME NEW g, NEW used, Len(used) \in Nat
    PROVE  \E form : IsForms(g, used, form)
<1> DEFINE Start == <<g.start>>
           Step(u, n) == Expanded(g, u, used[n][2].rhs)
           Upto(k) == \E form : form = [n \in 0 .. k |-> IF n = 0 THEN Start ELSE Step(form[n - 1], n)]
           S == {k \in 0 .. Len(used) : Upto(k)}
<1> HIDE DEF Start, Step
<1>1. 0 \in S
  <2> DEFINE form == [n \in 0 .. 0 |-> Start]
  <2>1. \A n \in 0 .. 0 : n = 0
    OBVIOUS
  <2>2. form = [n \in 0 .. 0 |-> IF n = 0 THEN Start ELSE Step(form[n - 1], n)]
    BY <2>1
  <2> HIDE DEF form
  <2>3. Upto(0)
    BY <2>2
  <2> HIDE DEF Upto
  <2> QED BY <2>3
<1>2. ASSUME NEW k \in 0 .. Len(used) - 1, k \in S
      PROVE  k + 1 \in S
  <2>1. PICK form : form = [n \in 0 .. k |-> IF n = 0 THEN Start ELSE Step(form[n - 1], n)]
    BY <1>2
  <2> DEFINE longer == [n \in 0 .. k + 1 |-> IF n = k + 1 THEN Step(form[k], k + 1) ELSE form[n]]
  <2>2. \A n \in 0 .. k : longer[n] = form[n]
    OBVIOUS
  <2>3. ASSUME NEW n \in 0 .. k + 1
        PROVE  longer[n] = IF n = 0 THEN Start ELSE Step(longer[n - 1], n)
    <3>1. CASE n = k + 1
      <4>1. n # 0 /\ n - 1 = k /\ k \in 0 .. k
        BY <3>1
      <4> QED BY <2>2, <3>1, <4>1
    <3>2. CASE n # k + 1
      <4>1. n \in 0 .. k /\ (n # 0 => n - 1 \in 0 .. k)
        BY <3>2
      <4>2. form[n] = IF n = 0 THEN Start ELSE Step(form[n - 1], n)
        BY <2>1, <4>1
      <4> QED BY <2>2, <4>1, <4>2
    <3> QED BY <3>1, <3>2
  <2>4. longer = [n \in 0 .. k + 1 |-> IF n = 0 THEN Start ELSE Step(longer[n - 1], n)]
    BY <2>3
  <2> HIDE DEF longer
  <2>5. Upto(k + 1)
    BY <2>4
  <2> HIDE DEF Upto
  <2> QED BY <2>5
<1> HIDE DEF Upto
<1>3. S = 0 .. Len(used)
  BY <1>1, <1>2, Counting
<1>4. Upto(Len(used))
  BY <1>3
<1> QED BY <1>4 DEF Upto, Start, Step, IsForms

LEMMA SententialIs ==
    ASSUME NEW g, NEW used, Len(used) \in Nat
    PROVE  /\ Sentential(g, used)[0] = <<g.start>>
           /\ \A n \in 1 .. Len(used) :
                 Sentential(g, used)[n] = Expanded(g, Sentential(g, used)[n - 1], used[n][2].rhs)
<1> DEFINE chosen == CHOOSE form : IsForms(g, used, form)
<1>1. IsForms(g, used, chosen)
  BY SententialExists
<1>2. Sentential(g, used) = chosen
  BY DEF Sentential, IsForms
<1> HIDE DEF chosen
<1>3. 0 \in 0 .. Len(used) /\ \A n \in 1 .. Len(used) : n \in 0 .. Len(used) /\ n # 0
  OBVIOUS
<1> QED BY <1>1, <1>2, <1>3 DEF IsForms

\* What is used later does not change what was derived.
LEMMA SententialGrows ==
    ASSUME NEW g, NEW U, NEW used \in Seq(U), NEW x \in U
    PROVE  \A n \in 0 .. Len(used) : Sentential(g, Append(used, x))[n] = Sentential(g, used)[n]
<1> DEFINE more == Append(used, x)
           S == {n \in 0 .. Len(used) : Sentential(g, more)[n] = Sentential(g, used)[n]}
<1>1. /\ Len(used) \in Nat /\ Len(more) = Len(used) + 1
      /\ \A n \in 1 .. Len(used) : more[n] = used[n]
  OBVIOUS
<1> HIDE DEF more
<1>2. /\ Len(more) \in Nat
      /\ \A n \in 1 .. Len(used) : n \in 1 .. Len(more)
  BY <1>1
<1>3. 0 \in S
  BY <1>1, <1>2, SententialIs
<1>4. ASSUME NEW n \in 0 .. Len(used) - 1, n \in S
      PROVE  n + 1 \in S
  <2>1. n + 1 \in 1 .. Len(used) /\ n + 1 \in 0 .. Len(used) /\ (n + 1) - 1 = n
    BY <1>1
  <2>2. Sentential(g, more)[n + 1] = Expanded(g, Sentential(g, more)[(n + 1) - 1], more[n + 1][2].rhs)
    BY <1>2, <2>1, SententialIs
  <2>3. Sentential(g, used)[n + 1] = Expanded(g, Sentential(g, used)[(n + 1) - 1], used[n + 1][2].rhs)
    BY <1>1, <2>1, SententialIs
  <2>4. Sentential(g, more)[n] = Sentential(g, used)[n]
    BY <1>4
  <2>5. Sentential(g, more)[n + 1] = Sentential(g, used)[n + 1]
    BY <1>1, <2>1, <2>2, <2>3, <2>4
  <2> QED BY <2>1, <2>5
<1>5. S = 0 .. Len(used)
  BY <1>1, <1>3, <1>4, Counting
<1> QED BY <1>5 DEF more

\* u is a nonterminal behind terminals, and more behind it.
IsForm(g, x, A, y, u) ==
    /\ g.terminals \cap g.nonTerminals = {}
    /\ x \in Seq(g.terminals) /\ A \in g.nonTerminals /\ y \in Seq(Symbols(g))
    /\ u = x \o (<<A>> \o y)

\* The leftmost nonterminal of a form is the one behind what is read.
LEMMA LeftmostIs ==
    ASSUME NEW g, NEW x, NEW A, NEW y, NEW u, IsForm(g, x, A, y, u)
    PROVE  /\ u \in Seq(Symbols(g)) /\ Len(u) = Len(x) + 1 + Len(y) /\ Len(x) \in Nat /\ Len(y) \in Nat
           /\ u[Len(x) + 1] = A
           /\ \A i \in 1 .. Len(u) : IsLeftmost(g, u, i) <=> i = Len(x) + 1
           /\ SubSeq(u, 1, Len(x)) = x /\ After(u, Len(x) + 1) = y
<1> USE DEF IsForm
<1>1. x \in Seq(Symbols(g)) /\ <<A>> \in Seq(Symbols(g)) /\ Len(<<A>>) = 1 /\ <<A>>[1] = A
  <2>1. g.terminals \subseteq Symbols(g) /\ A \in Symbols(g)
    BY DEF Symbols
  <2>2. x \in Seq(Symbols(g))
    BY <2>1, SeqMonotonic
  <2> QED BY <2>1, <2>2
<1> DEFINE z == <<A>> \o y
<1>2. /\ z \in Seq(Symbols(g)) /\ Len(z) = 1 + Len(y) /\ Len(y) \in Nat /\ z[1] = A
  <2>1. 1 \in 1 .. Len(<<A>>)
    BY <1>1
  <2> QED BY <1>1, <2>1, CutWhereJoined
<1> HIDE DEF z
<1>3. /\ u \in Seq(Symbols(g)) /\ Len(u) = Len(x) + Len(z) /\ Len(x) \in Nat
      /\ \A i \in 1 .. Len(x) : u[i] = x[i]
      /\ \A i \in 1 .. Len(z) : u[Len(x) + i] = z[i]
      /\ SubSeq(u, 1, Len(x)) = x
  BY <1>1, <1>2, CutWhereJoined DEF z
<1>4. u[Len(x) + 1] = A
  <2>1. 1 \in 1 .. Len(z)
    BY <1>2
  <2> QED BY <1>2, <1>3, <2>1
<1>5. \A i \in 1 .. Len(x) : u[i] \notin g.nonTerminals
  <2>1. \A i \in 1 .. Len(x) : x[i] \in g.terminals
    BY ElementOfSeq
  <2> QED BY <1>3, <2>1
<1>6. ASSUME NEW i \in 1 .. Len(u)
      PROVE  IsLeftmost(g, u, i) <=> i = Len(x) + 1
  <2>1. ASSUME i < Len(x) + 1
        PROVE  ~IsLeftmost(g, u, i)
    <3>1. i \in 1 .. Len(x)
      BY <1>3, <2>1
    <3> QED BY <1>5, <3>1 DEF IsLeftmost
  <2>2. ASSUME i > Len(x) + 1
        PROVE  ~IsLeftmost(g, u, i)
    <3>1. Len(x) + 1 \in 1 .. i - 1
      BY <1>3, <2>2
    <3> QED BY <1>4, <3>1 DEF IsLeftmost
  <2>3. ASSUME i = Len(x) + 1
        PROVE  IsLeftmost(g, u, i)
    <3>1. i - 1 = Len(x)
      BY <1>3, <2>3
    <3> QED BY <1>4, <1>5, <2>3, <3>1 DEF IsLeftmost
  <2>4. i < Len(x) + 1 \/ i > Len(x) + 1 \/ i = Len(x) + 1
    BY <1>3
  <2> QED BY <2>1, <2>2, <2>3, <2>4
<1>7. After(u, Len(x) + 1) = y
  <2> DEFINE v == x \o <<A>>
  <2>1. v \in Seq(Symbols(g)) /\ Len(v) = Len(x) + 1
    BY <1>1, CutWhereJoined
  <2>2. u = v \o y
    BY <1>1, ConcatAssociative DEF z
  <2> HIDE DEF v
  <2>3. After(v \o y, Len(v)) = y
    BY <2>1, CutWhereJoined
  <2> QED BY <2>1, <2>2, <2>3
<1>8. Len(u) = Len(x) + 1 + Len(y)
  BY <1>2, <1>3
<1> QED BY <1>2, <1>3, <1>4, <1>6, <1>7, <1>8

LEMMA ExpandedIs ==
    ASSUME NEW g, NEW x, NEW A, NEW y, NEW u, IsForm(g, x, A, y, u), NEW rhs, rhs \in Seq(Symbols(g))
    PROVE  Expanded(g, u, rhs) = x \o (rhs \o y)
<1> DEFINE i == CHOOSE i \in 1 .. Len(u) : IsLeftmost(g, u, i)
<1>1. /\ Len(u) = Len(x) + 1 + Len(y) /\ Len(x) \in Nat /\ Len(y) \in Nat
      /\ \A j \in 1 .. Len(u) : IsLeftmost(g, u, j) <=> j = Len(x) + 1
      /\ SubSeq(u, 1, Len(x)) = x /\ After(u, Len(x) + 1) = y
  BY LeftmostIs
<1>2. Expanded(g, u, rhs) = SubSeq(u, 1, i - 1) \o rhs \o After(u, i)
  BY DEF Expanded
<1>3. i = Len(x) + 1
  <2>1. Len(x) + 1 \in 1 .. Len(u)
    BY <1>1
  <2> QED BY <1>1, <2>1
<1> HIDE DEF i
<1>4. i - 1 = Len(x)
  BY <1>1, <1>3
<1>5. Expanded(g, u, rhs) = (x \o rhs) \o y
  BY <1>1, <1>2, <1>3, <1>4
<1>6. x \in Seq(Symbols(g)) /\ y \in Seq(Symbols(g))
  <2>1. g.terminals \subseteq Symbols(g)
    BY DEF Symbols
  <2> QED BY <2>1, SeqMonotonic DEF IsForm
<1>7. (x \o rhs) \o y = x \o (rhs \o y)
  BY <1>6, ConcatAssociative
<1> QED BY <1>5, <1>7

\* What is in front of the leftmost nonterminal stays when it is expanded.
LEMMA ExpandedKeeps ==
    ASSUME NEW g, NEW u, u \in Seq(Symbols(g)), NEW i, i \in 1 .. Len(u), IsLeftmost(g, u, i),
           NEW rhs, rhs \in Seq(Symbols(g))
    PROVE  /\ Expanded(g, u, rhs) \in Seq(Symbols(g))
           /\ i - 1 <= Len(Expanded(g, u, rhs))
           /\ \A j \in 1 .. i - 1 : Expanded(g, u, rhs)[j] = u[j]
<1> DEFINE k == CHOOSE k \in 1 .. Len(u) : IsLeftmost(g, u, k)
<1>1. k \in 1 .. Len(u) /\ IsLeftmost(g, u, k)
  OBVIOUS
<1>2. Expanded(g, u, rhs) = SubSeq(u, 1, k - 1) \o rhs \o After(u, k)
  BY DEF Expanded
<1> HIDE DEF k
<1>3. Len(u) \in Nat
  BY LenProperties
<1>4. k = i
  <2>1. ~(k < i)
    <3>1. k < i => k \in 1 .. i - 1
      BY <1>1, <1>3
    <3> QED BY <1>1, <3>1 DEF IsLeftmost
  <2>2. ~(i < k)
    <3>1. i < k => i \in 1 .. k - 1
      BY <1>1, <1>3
    <3> QED BY <1>1, <3>1 DEF IsLeftmost
  <2> QED BY <1>1, <1>3, <2>1, <2>2
<1> DEFINE x == SubSeq(u, 1, i - 1)
           y == After(u, i)
<1>5. i - 1 \in 0 .. Len(u) /\ i \in 0 .. Len(u)
  BY <1>3
<1>6. x \in Seq(Symbols(g)) /\ Len(x) = i - 1 /\ \A j \in 1 .. i - 1 : x[j] = u[j]
  BY <1>5, UptoProperties
<1>7. y \in Seq(Symbols(g))
  BY <1>5, AfterProperties
<1>8. Expanded(g, u, rhs) = (x \o rhs) \o y
  BY <1>2, <1>4
<1> HIDE DEF x, y
<1> DEFINE z == x \o rhs
<1>9. z \in Seq(Symbols(g)) /\ Len(z) = Len(x) + Len(rhs) /\ Len(rhs) \in Nat /\ \A j \in 1 .. Len(x) : z[j] = x[j]
  BY <1>6, CutWhereJoined
<1> HIDE DEF z
<1>10. /\ z \o y \in Seq(Symbols(g)) /\ Len(z \o y) = Len(z) + Len(y) /\ Len(y) \in Nat
       /\ \A j \in 1 .. Len(z) : (z \o y)[j] = z[j]
  BY <1>7, <1>9, CutWhereJoined
<1>11. Expanded(g, u, rhs) = z \o y
  BY <1>8 DEF z
<1>12. ASSUME NEW j \in 1 .. i - 1
       PROVE  (z \o y)[j] = u[j]
  <2>1. j \in 1 .. Len(x) /\ j \in 1 .. Len(z)
    BY <1>3, <1>6, <1>9
  <2>2. (z \o y)[j] = z[j]
    BY <1>10, <2>1
  <2>3. z[j] = x[j]
    BY <1>9, <2>1
  <2>4. x[j] = u[j]
    BY <1>6
  <2> QED BY <2>2, <2>3, <2>4
<1>13. i - 1 <= Len(z \o y)
  BY <1>3, <1>6, <1>9, <1>10
<1> QED BY <1>10, <1>11, <1>12, <1>13

\* The first c symbols of u are no nonterminals, and v begins with them.
Read(g, u, c) == c \in 0 .. Len(u) /\ \A j \in 1 .. c : u[j] \notin g.nonTerminals
Begins(g, u, c, v) == v \in Seq(Symbols(g)) /\ c <= Len(v) /\ \A j \in 1 .. c : v[j] = u[j]

LEMMA FormStep ==
    ASSUME NEW g, IsGrammar(g), NEW used, Len(used) \in Nat, IsLeftmostDerivation(g, used),
           NEW n \in 1 .. Len(used), Sentential(g, used)[n - 1] \in Seq(Symbols(g))
    PROVE  /\ Sentential(g, used)[n] \in Seq(Symbols(g))
           /\ \A c : Read(g, Sentential(g, used)[n - 1], c)
                       => Begins(g, Sentential(g, used)[n - 1], c, Sentential(g, used)[n])
<1> DEFINE u == Sentential(g, used)[n - 1]
           v == Sentential(g, used)[n]
           rhs == used[n][2].rhs
<1>1. PICK r \in g.rules : r.lhs = used[n][1] /\ r.prod = used[n][2]
  BY DEF IsLeftmostDerivation
<1>2. rhs \in Seq(Symbols(g))
  BY <1>1 DEF IsGrammar
<1>3. PICK i \in 1 .. Len(u) : IsLeftmost(g, u, i)
  BY DEF IsLeftmostDerivation
<1>4. v = Expanded(g, u, rhs)
  BY SententialIs
<1>5. u \in Seq(Symbols(g))
  OBVIOUS
<1> HIDE DEF u, v, rhs
<1>6. v \in Seq(Symbols(g)) /\ i - 1 <= Len(v) /\ \A j \in 1 .. i - 1 : v[j] = u[j]
  BY <1>2, <1>3, <1>4, <1>5, ExpandedKeeps
<1>7. Len(u) \in Nat /\ Len(v) \in Nat
  BY <1>5, <1>6, LenProperties
<1>8. ASSUME NEW c, Read(g, u, c)
      PROVE  Begins(g, u, c, v)
  <2>1. c <= i - 1
    <3>1. c \in 0 .. Len(u) /\ (i <= c => i \in 1 .. c)
      BY <1>7, <1>8 DEF Read
    <3>2. ~(i <= c)
      BY <1>3, <1>8, <3>1 DEF Read, IsLeftmost
    <3> QED BY <1>7, <3>1, <3>2
  <2>2. c \in Nat
    BY <1>7, <1>8 DEF Read
  <2>3. c <= Len(v) /\ \A j \in 1 .. c : j \in 1 .. i - 1
    BY <1>6, <1>7, <2>1, <2>2
  <2> QED BY <1>6, <2>3 DEF Begins
<1> QED BY <1>6, <1>8 DEF u, v

\* Every form is made of symbols of the grammar.
LEMMA FormsAreWords ==
    ASSUME NEW g, IsGrammar(g), NEW used, Len(used) \in Nat, IsLeftmostDerivation(g, used)
    PROVE  \A n \in 0 .. Len(used) : Sentential(g, used)[n] \in Seq(Symbols(g))
<1> DEFINE S == {n \in 0 .. Len(used) : Sentential(g, used)[n] \in Seq(Symbols(g))}
<1>1. 0 \in S
  <2>1. g.start \in Symbols(g)
    BY DEF IsGrammar, Symbols
  <2>2. <<g.start>> \in Seq(Symbols(g))
    BY <2>1
  <2>3. Sentential(g, used)[0] = <<g.start>>
    BY SententialIs
  <2>4. 0 \in 0 .. Len(used) /\ Sentential(g, used)[0] \in Seq(Symbols(g))
    BY <2>2, <2>3
  <2> QED BY <2>4
<1>2. ASSUME NEW n \in 0 .. Len(used) - 1, n \in S
      PROVE  n + 1 \in S
  <2>1. n + 1 \in 1 .. Len(used) /\ n + 1 \in 0 .. Len(used) /\ (n + 1) - 1 = n
    OBVIOUS
  <2>2. Sentential(g, used)[(n + 1) - 1] \in Seq(Symbols(g))
    BY <1>2, <2>1
  <2>3. Sentential(g, used)[n + 1] \in Seq(Symbols(g))
    BY <2>1, <2>2, FormStep
  <2> QED BY <2>1, <2>3
<1>3. S = 0 .. Len(used)
  BY <1>1, <1>2, Counting
<1> QED BY <1>3

\* What a form has read, every later one has read.
LEMMA ReadStays ==
    ASSUME NEW g, IsGrammar(g), NEW used, Len(used) \in Nat, IsLeftmostDerivation(g, used),
           NEW k \in 0 .. Len(used), NEW c, Read(g, Sentential(g, used)[k], c)
    PROVE  Begins(g, Sentential(g, used)[k], c, Sentential(g, used)[Len(used)])
<1> DEFINE form == Sentential(g, used)
           rest == Len(used) - k
           S == {n \in 0 .. rest : Begins(g, form[k], c, form[k + n])}
<1>1. \A n \in 0 .. Len(used) : form[n] \in Seq(Symbols(g))
  BY FormsAreWords
<1>2. ASSUME NEW n \in 1 .. Len(used), NEW d, Read(g, form[n - 1], d)
      PROVE  Begins(g, form[n - 1], d, form[n])
  <2>1. n - 1 \in 0 .. Len(used)
    OBVIOUS
  <2>2. form[n - 1] \in Seq(Symbols(g))
    BY <1>1, <2>1
  <2> QED BY <1>2, <2>2, FormStep
<1>3. Read(g, form[k], c)
  OBVIOUS
<1> HIDE DEF form
<1>4. rest \in Nat /\ k \in Nat /\ Len(form[k]) \in Nat
  BY <1>1, LenProperties
<1>5. c \in Nat /\ c <= Len(form[k])
  BY <1>3, <1>4 DEF Read
<1>6. 0 \in S
  <2>1. k + 0 = k /\ 0 \in 0 .. rest
    BY <1>4
  <2> QED BY <1>1, <1>5, <2>1 DEF Begins
<1>7. ASSUME NEW n \in 0 .. rest - 1, n \in S
      PROVE  n + 1 \in S
  <2>1. /\ k + (n + 1) \in 1 .. Len(used) /\ (k + (n + 1)) - 1 = k + n /\ n + 1 \in 0 .. rest
        /\ k + n \in 0 .. Len(used) /\ k + (n + 1) \in 0 .. Len(used)
    BY <1>4
  <2>2. Begins(g, form[k], c, form[k + n])
    BY <1>7
  <2>3. Read(g, form[k + n], c)
    <3>1. Len(form[k + n]) \in Nat
      BY <1>1, <2>1, LenProperties
    <3> QED BY <1>3, <1>5, <2>2, <3>1 DEF Read, Begins
  <2>4. Begins(g, form[k + n], c, form[k + (n + 1)])
    BY <1>2, <2>1, <2>3
  <2>5. Begins(g, form[k], c, form[k + (n + 1)])
    BY <2>2, <2>4 DEF Begins
  <2> QED BY <2>1, <2>5
<1>8. S = 0 .. rest
  <2> HIDE DEF rest, S
  <2>1. S \in SUBSET (0 .. rest)
    BY DEF S
  <2> QED BY <1>4, <1>6, <1>7, <2>1, Counting
<1>9. rest \in 0 .. rest /\ k + rest = Len(used)
  BY <1>4
<1>10. Begins(g, form[k], c, form[k + rest])
  <2> HIDE DEF rest
  <2> QED BY <1>8, <1>9
<1> QED BY <1>9, <1>10 DEF form
--------------------------------------------------------------------------------
(* The table.                                                                *)

\* A transition of the automaton: to the start symbol, over a terminal, of a
\* terminal that is on the stack, or of a rule.
IsTransition(k, t) ==
    \/ k = <<q0, Eps, Eps>> /\ t.to = q1 /\ t.prod.rhs = <<grammar.start>>
    \/ \E l \in grammar.terminals : k = <<q1, l, Eps>> /\ t.to = f(l) /\ t.prod.rhs = <<>>
    \/ \E l \in grammar.terminals : k = <<f(l), Eps, l>> /\ t.to = q1 /\ t.prod.rhs = <<>>
    \/ \E r \in grammar.rules : k = <<f(k[1][2]), Eps, r.lhs>> /\ t.to = k[1] /\ t.prod = r.prod

BuildInv ==
    /\ grammar \in Grammars
    /\ phase \in {"table", "ready"} => grammar.terminals \cap grammar.nonTerminals = {}
    /\ \A k \in DOMAIN delta : IsTransition(k, delta[k])

LEMMA BuildInitEstablishes == BuildInit(Grammars) => BuildInv
<1> SUFFICES ASSUME BuildInit(Grammars) PROVE BuildInv
  OBVIOUS
<1>1. grammar \in Grammars /\ phase = "nullables"
  BY DEF BuildInit
<1>2. DOMAIN delta = {<<q0, Eps, Eps>>} /\ delta[<<q0, Eps, Eps>>] = [to |-> q1, prod |-> Production(<<grammar.start>>)]
  BY DEF BuildInit
<1>3. Production(<<grammar.start>>).rhs = <<grammar.start>>
  BY DEF Production
<1>4. \A k \in DOMAIN delta : IsTransition(k, delta[k])
  BY <1>2, <1>3 DEF IsTransition
<1> QED BY <1>1, <1>4 DEF BuildInv

LEMMA AddRulePreserves ==
    ASSUME BuildInv, NEW r, r \in grammar.rules, AddRule(r)
    PROVE  BuildInv'
<1> DEFINE keys == {<<f(l), Eps, r.lhs>> : l \in Lookaheads(r)}
<1>1. /\ UNCHANGED <<grammar, phase>>
      /\ delta' = [k \in DOMAIN delta \cup keys |->
                      IF k \in DOMAIN delta THEN delta[k] ELSE [to |-> k[1], prod |-> r.prod]]
  BY DEF AddRule
<1>2. ASSUME NEW k \in DOMAIN delta'
      PROVE  IsTransition(k, delta'[k])
  <2>1. CASE k \in DOMAIN delta
    <3>1. delta'[k] = delta[k]
      BY <1>1, <2>1
    <3> QED BY <2>1, <3>1 DEF BuildInv
  <2>2. CASE k \notin DOMAIN delta
    <3>1. delta'[k] = [to |-> k[1], prod |-> r.prod] /\ k \in keys
      BY <1>1, <2>2
    <3>2. PICK l : k = <<f(l), Eps, r.lhs>>
      BY <3>1
    <3>3. k[1] = f(l) /\ f(l)[2] = l
      BY <3>2 DEF f
    <3>4. k = <<f(k[1][2]), Eps, r.lhs>>
      BY <3>2, <3>3
    <3>5. delta'[k].to = k[1] /\ delta'[k].prod = r.prod
      BY <3>1
    <3> QED BY <3>4, <3>5 DEF IsTransition
  <2> QED BY <2>1, <2>2
<1>3. \A k, t : IsTransition(k, t)' <=> IsTransition(k, t)
  BY <1>1 DEF IsTransition
<1> QED BY <1>1, <1>2, <1>3 DEF BuildInv

LEMMA AddTerminalsPreserves ==
    ASSUME BuildInv, AddTerminals
    PROVE  BuildInv'
<1> DEFINE reads == {<<q1, l, Eps>> : l \in grammar.terminals}
           matches == {<<f(l), Eps, l>> : l \in grammar.terminals \ {grammar.eof}}
<1>1. /\ grammar' = grammar /\ phase = "table"
      /\ delta' = [k \in DOMAIN delta \cup reads \cup matches |->
                        IF k \in reads THEN [to |-> f(k[2]), prod |-> Production(<<>>)]
                        ELSE IF k \in matches THEN [to |-> q1, prod |-> Production(<<>>)]
                        ELSE delta[k]]
  BY DEF AddTerminals
<1>2. Production(<<>>).rhs = <<>>
  BY DEF Production
<1>3. ASSUME NEW k \in DOMAIN delta'
      PROVE  IsTransition(k, delta'[k])
  <2>1. CASE k \in reads
    <3>1. delta'[k] = [to |-> f(k[2]), prod |-> Production(<<>>)]
      BY <1>1, <2>1
    <3>2. PICK l \in grammar.terminals : k = <<q1, l, Eps>>
      BY <2>1
    <3>3. k[2] = l
      BY <3>2
    <3>4. delta'[k].to = f(l) /\ delta'[k].prod.rhs = <<>>
      BY <1>2, <3>1, <3>3
    <3> QED BY <3>2, <3>4 DEF IsTransition
  <2>2. CASE k \notin reads /\ k \in matches
    <3>1. delta'[k] = [to |-> q1, prod |-> Production(<<>>)]
      BY <1>1, <2>2
    <3>2. PICK l \in grammar.terminals : k = <<f(l), Eps, l>>
      BY <2>2
    <3>3. delta'[k].to = q1 /\ delta'[k].prod.rhs = <<>>
      BY <1>2, <3>1
    <3> QED BY <3>2, <3>3 DEF IsTransition
  <2>3. CASE k \notin reads /\ k \notin matches
    <3>1. delta'[k] = delta[k] /\ k \in DOMAIN delta
      BY <1>1, <2>3
    <3> QED BY <3>1 DEF BuildInv
  <2> QED BY <2>1, <2>2, <2>3
<1>4. \A k, t : IsTransition(k, t)' <=> IsTransition(k, t)
  BY <1>1 DEF IsTransition, qFinal
<1> QED BY <1>1, <1>3, <1>4 DEF BuildInv

LEMMA TableUnchanged ==
    ASSUME BuildInv, UNCHANGED <<grammar, delta>>,
           phase' \in {"table", "ready"} => phase \in {"table", "ready"} \/ grammar.terminals \cap grammar.nonTerminals = {}
    PROVE  BuildInv'
BY DEF BuildInv, IsTransition

LEMMA BuildPreserves ==
    ASSUME BuildInv, todo \subseteq grammar.rules, BuildNext
    PROVE  BuildInv' /\ todo' \subseteq grammar'.rules /\ phase # "ready" /\ grammar' = grammar
<1>1. ASSUME NEW r \in todo, Visit(r)
      PROVE  BuildInv' /\ todo' \subseteq grammar'.rules /\ phase # "ready" /\ grammar' = grammar
  <2>1. CASE AddRule(r)
    BY <1>1, <2>1, AddRulePreserves DEF AddRule
  <2>2. CASE VisitNullable(r) \/ VisitFirst(r) \/ VisitFollow(r)
    <3>1. UNCHANGED <<grammar, delta, phase>> /\ phase # "ready" /\ todo' = todo \ {r}
      BY <2>2 DEF VisitNullable, VisitFirst, VisitFollow, Visited
    <3> QED BY <3>1, TableUnchanged
  <2> QED BY <1>1, <2>1, <2>2 DEF Visit
<1>2. CASE NextPass
  BY <1>2, TableUnchanged DEF NextPass, tables
<1>3. CASE NextFixpoint
  <2>1. UNCHANGED <<grammar, delta>> /\ todo' = grammar.rules /\ phase # "ready"
    BY <1>3 DEF NextFixpoint, tables
  <2>2. phase' \in {"table", "ready"} => grammar.terminals \cap grammar.nonTerminals = {}
    BY <1>3 DEF NextFixpoint
  <2> QED BY <2>1, <2>2, TableUnchanged
<1>4. CASE AddTerminals
  BY <1>4, AddTerminalsPreserves DEF AddTerminals
<1> QED BY <1>1, <1>2, <1>3, <1>4 DEF BuildNext
--------------------------------------------------------------------------------
(* The run of the automaton.                                                 *)

\* The rule r for the nonterminal that what was used leaves between x and y.
IsOneMore(g, U, used, r, x, y, more) ==
    /\ IsGrammar(g) /\ used \in Seq(U) /\ IsLeftmostDerivation(g, used)
    /\ r \in g.rules /\ <<r.lhs, r.prod>> \in U
    /\ IsForm(g, x, r.lhs, y, Sentential(g, used)[Len(used)])
    /\ more = Append(used, <<r.lhs, r.prod>>)

HasDerived(g, used, x, y) == Sentential(g, used)[Len(used)] = x \o y

LEMMA DerivesOneMore ==
    ASSUME NEW g, NEW U, NEW used, NEW r, NEW x, NEW y, NEW more,
           IsOneMore(g, U, used, r, x, y, more)
    PROVE  /\ IsLeftmostDerivation(g, more) /\ more \in Seq(U)
           /\ HasDerived(g, more, x, r.prod.rhs \o y)
<1> DEFINE new == <<r.lhs, r.prod>>
<1>1. new[1] = r.lhs /\ new[2] = r.prod /\ new \in U /\ more = Append(used, new)
  BY DEF IsOneMore
<1>11. /\ IsGrammar(g) /\ used \in Seq(U) /\ IsLeftmostDerivation(g, used)
       /\ r \in g.rules /\ r.prod.rhs \in Seq(Symbols(g))
  BY DEF IsOneMore, IsGrammar
<1> HIDE DEF new
<1>2. /\ Len(used) \in Nat /\ Len(more) = Len(used) + 1 /\ more \in Seq(U)
      /\ more[Len(used) + 1] = new /\ \A n \in 1 .. Len(used) : more[n] = used[n]
  BY <1>1, <1>11
<1>3. \A n \in 0 .. Len(used) : Sentential(g, more)[n] = Sentential(g, used)[n]
  BY <1>1, <1>11, SententialGrows
<1> DEFINE u == Sentential(g, used)[Len(used)]
<1>4. Sentential(g, more)[Len(used)] = u
  <2>1. Len(used) \in 0 .. Len(used)
    BY <1>2
  <2> QED BY <1>3, <2>1
<1>0. IsForm(g, x, r.lhs, y, u)
  BY DEF IsOneMore
<1> HIDE DEF u
<1>5. /\ IsForm(g, x, r.lhs, y, u) /\ Len(x) \in Nat /\ Len(y) \in Nat
      /\ Len(u) = Len(x) + 1 + Len(y) /\ u[Len(x) + 1] = r.lhs
      /\ \A i \in 1 .. Len(u) : IsLeftmost(g, u, i) <=> i = Len(x) + 1
  BY <1>0, LeftmostIs
<1>6. Len(x) + 1 \in 1 .. Len(u)
  BY <1>5
<1>7. ASSUME NEW n \in 1 .. Len(more)
      PROVE  /\ \E s \in g.rules : s.lhs = more[n][1] /\ s.prod = more[n][2]
             /\ LET before == Sentential(g, more)[n - 1]
                IN  \E i \in 1 .. Len(before) : IsLeftmost(g, before, i) /\ before[i] = more[n][1]
  <2>1. CASE n = Len(used) + 1
    <3>1. n - 1 = Len(used)
      BY <1>2, <2>1
    <3> QED BY <1>1, <1>2, <1>4, <1>5, <1>6, <1>11, <2>1, <3>1
  <2>2. CASE n # Len(used) + 1
    <3>1. n \in 1 .. Len(used) /\ n - 1 \in 0 .. Len(used)
      BY <1>2, <2>2
    <3>2. more[n] = used[n] /\ Sentential(g, more)[n - 1] = Sentential(g, used)[n - 1]
      BY <1>2, <1>3, <3>1
    <3> QED BY <1>11, <3>1, <3>2 DEF IsLeftmostDerivation
  <2> QED BY <2>1, <2>2
<1>8. IsLeftmostDerivation(g, more)
  BY <1>7 DEF IsLeftmostDerivation
<1>9. Sentential(g, more)[Len(more)] = x \o (r.prod.rhs \o y)
  <2>1. Len(more) \in 1 .. Len(more) /\ Len(more) - 1 = Len(used) /\ Len(more) \in Nat
    BY <1>2
  <2>6. \A n \in 1 .. Len(more) : Sentential(g, more)[n] = Expanded(g, Sentential(g, more)[n - 1], more[n][2].rhs)
    BY <2>1, SententialIs
  <2>2. Sentential(g, more)[Len(more)] = Expanded(g, Sentential(g, more)[Len(more) - 1], more[Len(more)][2].rhs)
    BY <2>1, <2>6
  <2>3. Sentential(g, more)[Len(more)] = Expanded(g, u, r.prod.rhs)
    BY <1>1, <1>2, <1>4, <2>1, <2>2
  <2> DEFINE rhs == r.prod.rhs
  <2>4. rhs \in Seq(Symbols(g))
    BY <1>11
  <2> HIDE DEF rhs
  <2>5. Expanded(g, u, rhs) = x \o (rhs \o y)
    BY <1>0, <2>4, ExpandedIs
  <2> QED BY <2>3, <2>5 DEF rhs
<1> QED BY <1>2, <1>8, <1>9 DEF HasDerived

Used == {<<r.lhs, r.prod>> : r \in grammar.rules}

\* n tokens are matched: what the productions derive is these and the stack.
Matched(n) ==
    /\ n \in 0 .. Len(word)
    /\ SubSeq(word, 1, n) \in Seq(grammar.terminals)
    /\ Sentential(grammar, productions)[Len(productions)] = SubSeq(word, 1, n) \o stack

RunTypes ==
    /\ word \in Seq(grammar.terminals \cup Foreign)
    /\ offset \in 0 .. Len(word)
    /\ stack \in Seq(Symbols(grammar))
    /\ productions \in Seq(Used)

\* In state f(l) the last token read is l, and is not matched yet.
RunInv ==
    /\ RunTypes
    /\ IsLeftmostDerivation(grammar, productions)
    /\ \/ q = q0 /\ offset = 0 /\ stack = <<>> /\ productions = <<>>
       \/ q = q1 /\ Matched(offset)
       \/ \E l \in grammar.terminals : q = f(l) /\ offset > 0 /\ word[offset] = l /\ Matched(offset - 1)
    /\ verdict \in {"accepted", "built"} => q = qFinal /\ stack = <<>> /\ offset = Len(word)

GrammarInv ==
    /\ IsGrammar(grammar)
    /\ grammar.terminals \cap grammar.nonTerminals = {}

LEMMA StatesDiffer == q0 # q1 /\ \A l : f(l) # q0 /\ f(l) # q1 /\ \A m : f(l) = f(m) => l = m
BY DEF q0, q1, f

\* The four keys a step looks up.
LEMMA KeyIs ==
    ASSUME NEW i \in 1 .. 4, NEW l, NEW s
    PROVE  \E a \in {l, Eps}, top \in {s, Eps} : Tries(l, s)[i] = <<q, a, top>>
<1>1. i = 1 \/ i = 2 \/ i = 3 \/ i = 4
  OBVIOUS
<1> QED BY <1>1 DEF Tries

\* To the start symbol.
LEMMA StartPreserves ==
    ASSUME GrammarInv, RunInv, q = q0, verdict = "none", NEW k, k = <<q0, Eps, Eps>>, Transition(k),
           delta[k].to = q1, delta[k].prod.rhs = <<grammar.start>>, UNCHANGED <<grammar, word, verdict>>
    PROVE  RunInv'
<1>1. offset = 0 /\ stack = <<>> /\ productions = <<>>
  BY StatesDiffer DEF RunInv
<1>2. k[1] = q0 /\ k[2] = Eps /\ k[3] = Eps
  OBVIOUS
<1>3. /\ stack' = <<grammar.start>> \o stack /\ q' = q1 /\ offset' = offset
      /\ productions' = productions
  BY <1>2, StatesDiffer DEF Transition, Popped
<1>4. grammar.start \in Symbols(grammar)
  BY DEF GrammarInv, IsGrammar, Symbols
<1>5. stack' = <<grammar.start>> /\ stack' \in Seq(Symbols(grammar))
  BY <1>1, <1>3, <1>4
<1>6. SubSeq(word, 1, 0) = <<>> /\ <<>> \in Seq(grammar.terminals) /\ Len(word) \in Nat
  BY SubSeqEmpty, LenProperties DEF RunInv, RunTypes
<1>7. Sentential(grammar, productions)[Len(productions)] = <<grammar.start>>
  <2>1. Len(productions) = 0
    BY <1>1
  <2> QED BY <2>1, SententialIs
<1>8. <<>> \o <<grammar.start>> = <<grammar.start>>
  BY <1>5
<1>9. Matched(offset)'
  <2>1. 0 \in 0 .. Len(word)
    BY <1>6
  <2> QED BY <1>1, <1>3, <1>5, <1>6, <1>7, <1>8, <2>1 DEF Matched
<1>10. RunTypes'
  BY <1>3, <1>5 DEF RunInv, RunTypes, Used
<1> QED BY <1>3, <1>9, <1>10 DEF RunInv

\* Over a terminal.
LEMMA ReadPreserves ==
    ASSUME GrammarInv, RunInv, q = q1, verdict = "none", NEW l \in grammar.terminals,
           NEW k, k = <<q1, l, Eps>>, l \in {Letter, Eps}, Transition(k),
           delta[k].to = f(l), delta[k].prod.rhs = <<>>, UNCHANGED <<grammar, word, verdict>>
    PROVE  RunInv'
<1>1. l # Eps
  BY DEF GrammarInv, IsGrammar, Symbols
<1>2. k[1] = q1 /\ k[2] = l /\ k[3] = Eps
  OBVIOUS
<1>3. offset < Len(word) /\ word[offset + 1] = l
  BY <1>1 DEF Letter
<1>4. /\ stack' = <<>> \o stack /\ q' = f(l) /\ offset' = offset + 1
      /\ productions' = productions
  BY <1>1, <1>2, StatesDiffer DEF Transition, Popped
<1>5. stack' = stack
  BY <1>4 DEF RunInv, RunTypes
<1>6. Matched(offset)
  BY StatesDiffer DEF RunInv
<1>7. offset' - 1 = offset /\ offset' > 0 /\ offset' \in 0 .. Len(word)
  BY <1>3, <1>4, LenProperties DEF RunInv, RunTypes
<1>8. Matched(offset - 1)'
  BY <1>4, <1>5, <1>6, <1>7 DEF Matched
<1>9. RunTypes'
  BY <1>4, <1>5, <1>7 DEF RunInv, RunTypes, Used
<1> QED BY <1>3, <1>4, <1>7, <1>8, <1>9 DEF RunInv

\* What is on top of the stack, and what is below it.
LEMMA TopOfStack ==
    ASSUME NEW S, NEW s \in Seq(S), s # <<>>
    PROVE  /\ s = <<s[1]>> \o Tail(s) /\ Tail(s) \in Seq(S) /\ s[1] \in S
<1>1. Len(s) \in Nat /\ Len(s) # 0
  BY EmptySeq, LenProperties
<1>2. s[1] \in S /\ Tail(s) \in Seq(S)
  BY <1>1, HeadTailProperties, ElementOfSeq
<1>3. SubSeq(s, 1, Len(s)) = <<s[1]>> \o SubSeq(s, 2, Len(s))
  <2>1. 1 \in 1 .. Len(s) /\ Len(s) \in 1 .. Len(s) /\ 1 + 1 = 2
    BY <1>1
  <2> QED BY <2>1, SubSeqRecursiveFirst
<1> QED BY <1>2, <1>3, SubSeqFull, TailIsSubSeq

\* Of a terminal on the stack.
LEMMA MatchPreserves ==
    ASSUME GrammarInv, RunInv, verdict = "none", NEW l \in grammar.terminals, q = f(l),
           NEW k, k = <<f(l), Eps, l>>, l \in {Top, Eps}, Transition(k),
           delta[k].to = q1, delta[k].prod.rhs = <<>>, UNCHANGED <<grammar, word, verdict>>
    PROVE  RunInv'
<1>1. l # Eps
  BY DEF GrammarInv, IsGrammar, Symbols
<1>2. k[1] = f(l) /\ k[2] = Eps /\ k[3] = l
  OBVIOUS
<1>3. stack # <<>> /\ stack[1] = l
  BY <1>1 DEF Top
<1>4. /\ stack = <<l>> \o Tail(stack) /\ Tail(stack) \in Seq(Symbols(grammar))
  BY <1>3, TopOfStack DEF RunInv, RunTypes
<1>5. /\ stack' = <<>> \o Tail(stack) /\ q' = q1 /\ offset' = offset
      /\ productions' = productions
  BY <1>1, <1>2, StatesDiffer DEF Transition, Popped
<1>6. stack' = Tail(stack)
  BY <1>4, <1>5
<1>7. offset > 0 /\ word[offset] = l /\ Matched(offset - 1)
  BY StatesDiffer DEF RunInv
<1>8. Matched(offset)'
  <2> DEFINE before == SubSeq(word, 1, offset - 1)
             rest == Tail(stack)
  <2>1. offset \in 1 .. Len(word) /\ word \in Seq(grammar.terminals \cup Foreign)
    BY <1>7, LenProperties DEF RunInv, RunTypes
  <2>2. 1 \in 1 .. Len(word)
    BY <2>1, LenProperties
  <2>3. SubSeq(word, 1, offset) = before \o <<l>>
    BY <1>7, <2>1, <2>2, SubSeqRecursiveSecond
  <2>4. before \in Seq(grammar.terminals) /\ <<l>> \in Seq(grammar.terminals)
    <3>1. before \in Seq(grammar.terminals)
      BY <1>7 DEF Matched
    <3>2. l \in grammar.terminals
      OBVIOUS
    <3>3. <<l>> \in Seq(grammar.terminals)
      BY <3>2, OneInSeq
    <3> QED BY <3>1, <3>3
  <2>5. SubSeq(word, 1, offset) \in Seq(grammar.terminals)
    BY <2>3, <2>4, ConcatProperties
  <2>6. Sentential(grammar, productions)[Len(productions)] = before \o (<<l>> \o rest)
    BY <1>4, <1>7 DEF Matched
  <2>7. before \in Seq(Symbols(grammar)) /\ <<l>> \in Seq(Symbols(grammar)) /\ rest \in Seq(Symbols(grammar))
    <3>1. grammar.terminals \subseteq Symbols(grammar)
      BY DEF Symbols
    <3> QED BY <1>4, <2>4, <3>1, SeqMonotonic
  <2> HIDE DEF before, rest
  <2>8. before \o (<<l>> \o rest) = (before \o <<l>>) \o rest
    BY ONLY <2>7, ConcatAssociative
  <2>9. Sentential(grammar, productions)[Len(productions)] = SubSeq(word, 1, offset) \o rest
    BY <2>3, <2>6, <2>8
  <2>10. offset \in 0 .. Len(word)
    BY <2>1
  <2> QED BY <1>5, <1>6, <2>5, <2>9, <2>10 DEF Matched, rest
<1>9. RunTypes'
  BY <1>4, <1>5, <1>6 DEF RunInv, RunTypes, Used
<1> QED BY <1>5, <1>8, <1>9 DEF RunInv

\* Of a rule.
LEMMA ExpandPreserves ==
    ASSUME GrammarInv, RunInv, verdict = "none", NEW r \in grammar.rules, NEW l, q = f(l),
           NEW k, k = <<f(l), Eps, r.lhs>>, r.lhs \in {Top, Eps}, Transition(k),
           delta[k].to = f(l), delta[k].prod = r.prod, UNCHANGED <<grammar, word, verdict>>
    PROVE  RunInv'
<1>1. /\ r.lhs # Eps /\ r.lhs \in grammar.nonTerminals /\ r.prod.rhs \in Seq(Symbols(grammar))
  BY DEF GrammarInv, IsGrammar, Symbols
<1>2. k[1] = f(l) /\ k[2] = Eps /\ k[3] = r.lhs
  OBVIOUS
<1>3. stack # <<>> /\ stack[1] = r.lhs
  BY <1>1 DEF Top
<1> DEFINE rest == Tail(stack)
           new == <<r.lhs, r.prod>>
<1>4. /\ stack = <<r.lhs>> \o rest /\ rest \in Seq(Symbols(grammar))
  BY <1>3, TopOfStack DEF RunInv, RunTypes
<1>5. /\ stack' = r.prod.rhs \o rest /\ q' = f(l) /\ offset' = offset
      /\ productions' = Append(productions, new)
  BY <1>1, <1>2 DEF Transition, Popped
<1>6. l \in grammar.terminals /\ offset > 0 /\ word[offset] = l /\ Matched(offset - 1)
  BY StatesDiffer DEF RunInv
<1> DEFINE before == SubSeq(word, 1, offset - 1)
<1>7. IsForm(grammar, before, r.lhs, rest, Sentential(grammar, productions)[Len(productions)])
  BY <1>1, <1>4, <1>6 DEF IsForm, Matched, GrammarInv
<1>8. productions \in Seq(Used) /\ new \in Used /\ IsGrammar(grammar) /\ IsLeftmostDerivation(grammar, productions)
  BY DEF RunInv, RunTypes, Used, GrammarInv
<1>0. PICK more : more = productions'
  OBVIOUS
<1>13. IsOneMore(grammar, Used, productions, r, before, rest, more)
  BY <1>0, <1>5, <1>7, <1>8 DEF IsOneMore
<1>14. /\ IsLeftmostDerivation(grammar, more) /\ more \in Seq(Used)
       /\ HasDerived(grammar, more, before, r.prod.rhs \o rest)
  BY <1>13, DerivesOneMore
<1> HIDE DEF rest, before, new
<1>9. /\ IsLeftmostDerivation(grammar, productions')
      /\ productions' \in Seq(Used)
      /\ Sentential(grammar, productions')[Len(productions')] = before \o (r.prod.rhs \o rest)
  BY <1>0, <1>14 DEF HasDerived
<1>10. stack' \in Seq(Symbols(grammar))
  BY <1>1, <1>4, <1>5, ConcatProperties
<1>11. Matched(offset - 1)'
  BY <1>5, <1>6, <1>9 DEF Matched, before
<1>12. RunTypes'
  BY <1>5, <1>9, <1>10 DEF RunInv, RunTypes, Used
<1> QED BY <1>5, <1>6, <1>9, <1>11, <1>12 DEF RunInv

LEMMA DrivePreserves ==
    ASSUME BuildInv, GrammarInv, RunInv, Drive
    PROVE  RunInv'
<1>1. verdict = "none" /\ UNCHANGED <<grammar, word, verdict>>
  BY DEF Drive, Running, buildVars, tables
<1>2. PICK i \in 1 .. 4 : Found(i) /\ Transition(Tries(Letter, Top)[i])
  BY DEF Drive
<1> DEFINE k == Tries(Letter, Top)[i]
<1>3. PICK a \in {Letter, Eps}, top \in {Top, Eps} : k = <<q, a, top>>
  BY KeyIs
<1>4. k \in DOMAIN delta /\ Transition(k)
  BY <1>2 DEF Found
<1>5. IsTransition(k, delta[k])
  BY <1>4 DEF BuildInv
<1> HIDE DEF k
<1>6. CASE k = <<q0, Eps, Eps>> /\ delta[k].to = q1 /\ delta[k].prod.rhs = <<grammar.start>>
  BY <1>1, <1>3, <1>4, <1>6, StartPreserves
<1>7. ASSUME NEW l \in grammar.terminals, k = <<q1, l, Eps>>, delta[k].to = f(l), delta[k].prod.rhs = <<>>
      PROVE  RunInv'
  <2>1. q = q1 /\ l \in {Letter, Eps}
    BY <1>3, <1>7
  <2> QED BY <1>1, <1>4, <1>7, <2>1, ReadPreserves
<1>8. ASSUME NEW l \in grammar.terminals, k = <<f(l), Eps, l>>, delta[k].to = q1, delta[k].prod.rhs = <<>>
      PROVE  RunInv'
  <2>1. q = f(l) /\ l \in {Top, Eps}
    BY <1>3, <1>8
  <2> QED BY <1>1, <1>4, <1>8, <2>1, MatchPreserves
<1>9. ASSUME NEW r \in grammar.rules, k = <<f(k[1][2]), Eps, r.lhs>>, delta[k].to = k[1], delta[k].prod = r.prod
      PROVE  RunInv'
  <2> DEFINE l == k[1][2]
  <2>1. q = f(l) /\ r.lhs \in {Top, Eps} /\ k[1] = f(l)
    BY <1>3, <1>9
  <2>2. k = <<f(l), Eps, r.lhs>> /\ delta[k].to = f(l)
    BY <1>9, <2>1
  <2> HIDE DEF l
  <2> QED BY <1>1, <1>4, <1>9, <2>1, <2>2, ExpandPreserves
<1> QED BY <1>5, <1>6, <1>7, <1>8, <1>9 DEF IsTransition

LEMMA StopPreserves ==
    ASSUME GrammarInv, RunInv, Stop
    PROVE  RunInv'
<1>1. UNCHANGED <<grammar, word, q, offset, stack, productions>>
  BY DEF Stop, buildVars, tables
<1>2. verdict' \in {"accepted", "built"} => Accepted
  BY DEF Stop, Mistake
<1> QED BY <1>1, <1>2 DEF RunInv, RunTypes, Matched, Accepted, Used, qFinal

\* For a word that is accepted they are a leftmost derivation of it.
LEMMA AcceptedDerives ==
    ASSUME GrammarInv, RunInv, verdict \in {"accepted", "built"}
    PROVE  /\ ProductionsDerive
           /\ Len(word) \in Nat /\ Len(word) > 0 /\ word[Len(word)] = grammar.eof
           /\ Front(word) \in Seq(grammar.terminals) /\ Front(word) = SubSeq(word, 1, Len(word) - 1)
<1>1. q = f(grammar.eof) /\ stack = <<>> /\ offset = Len(word)
  BY DEF RunInv, qFinal
<1>2. offset > 0 /\ word[offset] = grammar.eof /\ Matched(offset - 1)
  BY <1>1, StatesDiffer DEF RunInv
<1>3. Front(word) = SubSeq(word, 1, Len(word) - 1)
  BY DEF Front
<1> DEFINE w == SubSeq(word, 1, Len(word) - 1)
<1>4. w \in Seq(grammar.terminals) /\ Sentential(grammar, productions)[Len(productions)] = w \o <<>>
  BY <1>1, <1>2 DEF Matched
<1> HIDE DEF w
<1>5. w \o <<>> = w
  BY <1>4
<1>6. Len(word) \in Nat
  BY LenProperties DEF RunInv, RunTypes
<1>7. IsLeftmostDerivation(grammar, productions)
  BY DEF RunInv
<1> QED BY <1>1, <1>2, <1>3, <1>4, <1>5, <1>6, <1>7 DEF ProductionsDerive, w
--------------------------------------------------------------------------------
(* The frames.                                                               *)

BehindIs(stacked, behind) ==
    behind = [n \in 0 .. Len(stacked) |->
                IF n = 0 THEN <<>> ELSE After(stacked[n].prod.rhs, stacked[n].idx + 1) \o behind[n - 1]]

\* The recursive definition of Waiting() has a solution.
LEMMA BehindExists ==
    ASSUME NEW stacked, Len(stacked) \in Nat
    PROVE  \E behind : BehindIs(stacked, behind)
<1> DEFINE Step(u, n) == After(stacked[n].prod.rhs, stacked[n].idx + 1) \o u
           Upto(k) == \E b : b = [n \in 0 .. k |-> IF n = 0 THEN <<>> ELSE Step(b[n - 1], n)]
           S == {k \in 0 .. Len(stacked) : Upto(k)}
<1> HIDE DEF Step
<1>1. 0 \in S
  <2> DEFINE b == [n \in 0 .. 0 |-> <<>>]
  <2>1. \A n \in 0 .. 0 : n = 0
    OBVIOUS
  <2>2. b = [n \in 0 .. 0 |-> IF n = 0 THEN <<>> ELSE Step(b[n - 1], n)]
    BY <2>1
  <2> HIDE DEF b
  <2>3. Upto(0)
    BY <2>2
  <2> HIDE DEF Upto
  <2> QED BY <2>3
<1>2. ASSUME NEW k \in 0 .. Len(stacked) - 1, k \in S
      PROVE  k + 1 \in S
  <2>1. PICK b : b = [n \in 0 .. k |-> IF n = 0 THEN <<>> ELSE Step(b[n - 1], n)]
    BY <1>2
  <2> DEFINE longer == [n \in 0 .. k + 1 |-> IF n = k + 1 THEN Step(b[k], k + 1) ELSE b[n]]
  <2>2. \A n \in 0 .. k : longer[n] = b[n]
    OBVIOUS
  <2>3. ASSUME NEW n \in 0 .. k + 1
        PROVE  longer[n] = IF n = 0 THEN <<>> ELSE Step(longer[n - 1], n)
    <3>1. CASE n = k + 1
      <4>1. n # 0 /\ n - 1 = k /\ k \in 0 .. k
        BY <3>1
      <4> QED BY <2>2, <3>1, <4>1
    <3>2. CASE n # k + 1
      <4>1. n \in 0 .. k /\ (n # 0 => n - 1 \in 0 .. k)
        BY <3>2
      <4>2. b[n] = IF n = 0 THEN <<>> ELSE Step(b[n - 1], n)
        BY <2>1, <4>1
      <4> QED BY <2>2, <4>1, <4>2
    <3> QED BY <3>1, <3>2
  <2>4. longer = [n \in 0 .. k + 1 |-> IF n = 0 THEN <<>> ELSE Step(longer[n - 1], n)]
    BY <2>3
  <2> HIDE DEF longer
  <2>5. Upto(k + 1)
    BY <2>4
  <2> HIDE DEF Upto
  <2> QED BY <2>5
<1> HIDE DEF Upto
<1>3. S = 0 .. Len(stacked)
  BY <1>1, <1>2, Counting
<1>4. Upto(Len(stacked))
  BY <1>3
<1> QED BY <1>4 DEF Upto, Step, BehindIs

LEMMA WaitingIs ==
    ASSUME NEW stacked, Len(stacked) \in Nat
    PROVE  /\ Waiting(stacked)[0] = <<>>
           /\ \A n \in 1 .. Len(stacked) :
                 Waiting(stacked)[n]
                    = After(stacked[n].prod.rhs, stacked[n].idx + 1) \o Waiting(stacked)[n - 1]
<1> DEFINE chosen == CHOOSE behind : BehindIs(stacked, behind)
<1>1. BehindIs(stacked, chosen)
  BY BehindExists
<1>2. Waiting(stacked) = chosen
  BY DEF Waiting, BehindIs
<1> HIDE DEF chosen
<1>3. 0 \in 0 .. Len(stacked) /\ \A n \in 1 .. Len(stacked) : n \in 0 .. Len(stacked) /\ n # 0
  OBVIOUS
<1> QED BY <1>1, <1>2, <1>3 DEF BehindIs

\* Two stacks of frames that go on alike, up to the m-th.
Alike(s, t, m) ==
    /\ Len(s) \in Nat /\ Len(t) \in Nat /\ m \in Nat /\ m <= Len(s) /\ m <= Len(t)
    /\ \A n \in 1 .. m : t[n].prod = s[n].prod /\ t[n].idx = s[n].idx

LEMMA AlikeWait ==
    ASSUME NEW s, NEW t, NEW m, Alike(s, t, m)
    PROVE  Waiting(t)[m] = Waiting(s)[m]
<1> DEFINE S == {n \in 0 .. m : Waiting(t)[n] = Waiting(s)[n]}
<1>1. Len(s) \in Nat /\ Len(t) \in Nat /\ m \in Nat /\ m <= Len(s) /\ m <= Len(t)
  BY DEF Alike
<1>2. /\ Waiting(s)[0] = <<>>
      /\ \A n \in 1 .. Len(s) :
            Waiting(s)[n] = After(s[n].prod.rhs, s[n].idx + 1) \o Waiting(s)[n - 1]
  BY <1>1, WaitingIs
<1>3. /\ Waiting(t)[0] = <<>>
      /\ \A n \in 1 .. Len(t) :
            Waiting(t)[n] = After(t[n].prod.rhs, t[n].idx + 1) \o Waiting(t)[n - 1]
  BY <1>1, WaitingIs
<1>4. 0 \in S
  BY <1>1, <1>2, <1>3
<1>5. ASSUME NEW n \in 0 .. m - 1, n \in S
      PROVE  n + 1 \in S
  <2>1. /\ n + 1 \in 1 .. m /\ n + 1 \in 1 .. Len(s) /\ n + 1 \in 1 .. Len(t) /\ (n + 1) - 1 = n
        /\ n + 1 \in 0 .. m
    BY <1>1
  <2>2. t[n + 1].prod = s[n + 1].prod /\ t[n + 1].idx = s[n + 1].idx
    BY <2>1 DEF Alike
  <2>3. Waiting(t)[n] = Waiting(s)[n]
    BY <1>5
  <2>4. Waiting(t)[n + 1] = After(t[n + 1].prod.rhs, t[n + 1].idx + 1) \o Waiting(t)[n]
    BY <1>3, <2>1
  <2>5. Waiting(s)[n + 1] = After(s[n + 1].prod.rhs, s[n + 1].idx + 1) \o Waiting(s)[n]
    BY <1>2, <2>1
  <2>6. Waiting(t)[n + 1] = Waiting(s)[n + 1]
    BY <2>2, <2>3, <2>4, <2>5
  <2> QED BY <2>1, <2>6
<1>6. S = 0 .. m
  BY <1>1, <1>4, <1>5, Counting
<1>7. m \in 0 .. m
  BY <1>1
<1> QED BY <1>6, <1>7

\* What comes next, and the ends.
LEMMA AfterNext ==
    ASSUME NEW S, NEW u \in Seq(S), NEW i \in 0 .. Len(u), i # Len(u)
    PROVE  /\ u[i + 1] \in S /\ After(u, i + 1) \in Seq(S)
           /\ After(u, i) = <<u[i + 1]>> \o After(u, i + 1)
<1>1. Len(u) \in Nat /\ i + 1 \in 1 .. Len(u) /\ i + 1 \in 0 .. Len(u) /\ Len(u) \in 1 .. Len(u)
  BY LenProperties
<1>2. u[i + 1] \in S /\ After(u, i + 1) \in Seq(S)
  BY <1>1, AfterProperties, ElementOfSeq
<1>3. SubSeq(u, i + 1, Len(u)) = <<u[i + 1]>> \o SubSeq(u, (i + 1) + 1, Len(u))
  BY <1>1, SubSeqRecursiveFirst
<1> QED BY <1>2, <1>3 DEF After

LEMMA AfterEnds ==
    ASSUME NEW S, NEW u \in Seq(S)
    PROVE  After(u, 0) = u /\ After(u, Len(u)) = <<>>
<1>1. After(u, 0) = u
  <2>1. 0 + 1 = 1
    OBVIOUS
  <2> QED BY <2>1, SubSeqFull DEF After
<1> DEFINE s == After(u, Len(u))
<1>2. Len(u) \in Nat /\ Len(u) \in 0 .. Len(u) /\ Len(u) - Len(u) = 0
  BY LenProperties
<1>3. s \in Seq(S) /\ Len(s) = Len(u) - Len(u)
  BY <1>2, AfterProperties
<1> HIDE DEF s
<1>4. s = <<>>
  BY <1>2, <1>3, EmptySeq
<1> QED BY <1>1, <1>4 DEF s

\* A frame stands somewhere in its production.
IsFrame(g, x) ==
    /\ x = [node |-> x.node, idx |-> x.idx, lhs |-> x.lhs, prod |-> x.prod]
    /\ x.prod.rhs \in Seq(Symbols(g))
    /\ x.idx \in 0 .. Len(x.prod.rhs)

Unfinished(x) == x.idx # Len(x.prod.rhs)

\* Those below the top one wait for the nonterminal they stand at.
IsStack(g, s) ==
    /\ \E F : s \in Seq(F)
    /\ s # <<>>
    /\ \A n \in 1 .. Len(s) : IsFrame(g, s[n]) /\ (n # Len(s) => Unfinished(s[n]))

AheadOf(s) == After(s[Len(s)].prod.rhs, s[Len(s)].idx) \o Waiting(s)[Len(s) - 1]

LEMMA StackLength ==
    ASSUME NEW g, NEW s, IsStack(g, s)
    PROVE  Len(s) \in Nat /\ Len(s) > 0 /\ Len(s) \in 1 .. Len(s)
<1>1. PICK F : s \in Seq(F)
  BY DEF IsStack
<1>2. Len(s) \in Nat /\ s # <<>>
  BY <1>1, LenProperties DEF IsStack
<1>3. Len(s) # 0
  BY <1>1, <1>2, EmptySeq
<1> QED BY <1>2, <1>3

\* Frames that can wait: up to the m-th none is finished.
CanWait(g, s, m) ==
    /\ Len(s) \in Nat /\ m \in 0 .. Len(s)
    /\ \A n \in 1 .. m : IsFrame(g, s[n]) /\ Unfinished(s[n])

LEMMA WaitingTypes ==
    ASSUME NEW g, NEW s, NEW m, CanWait(g, s, m)
    PROVE  Waiting(s)[m] \in Seq(Symbols(g))
<1> DEFINE S == {n \in 0 .. m : Waiting(s)[n] \in Seq(Symbols(g))}
<1>1. Len(s) \in Nat /\ m \in 0 .. Len(s) /\ m \in Nat
  BY DEF CanWait
<1>2. /\ Waiting(s)[0] = <<>>
      /\ \A n \in 1 .. Len(s) :
            Waiting(s)[n] = After(s[n].prod.rhs, s[n].idx + 1) \o Waiting(s)[n - 1]
  BY <1>1, WaitingIs
<1>3. 0 \in S
  <2>1. 0 \in 0 .. m
    BY <1>1
  <2>2. <<>> \in Seq(Symbols(g))
    BY EmptySeq
  <2>3. Waiting(s)[0] \in Seq(Symbols(g))
    BY <1>2, <2>2
  <2> QED BY <2>1, <2>3
<1>4. ASSUME NEW n \in 0 .. m - 1, n \in S
      PROVE  n + 1 \in S
  <2>1. n + 1 \in 1 .. m /\ n + 1 \in 1 .. Len(s) /\ (n + 1) - 1 = n /\ n + 1 \in 0 .. m
    BY <1>1
  <2> DEFINE rhs == s[n + 1].prod.rhs
             i == s[n + 1].idx
  <2>2. rhs \in Seq(Symbols(g)) /\ i \in 0 .. Len(rhs) /\ i # Len(rhs)
    BY <2>1 DEF CanWait, IsFrame, Unfinished
  <2>3. Waiting(s)[n + 1] = After(rhs, i + 1) \o Waiting(s)[n]
    BY <1>2, <2>1
  <2> HIDE DEF rhs, i
  <2>4. After(rhs, i + 1) \in Seq(Symbols(g))
    BY <2>2, AfterNext
  <2>5. Waiting(s)[n] \in Seq(Symbols(g))
    BY <1>4
  <2>6. Waiting(s)[n + 1] \in Seq(Symbols(g))
    BY <2>3, <2>4, <2>5, ConcatProperties
  <2> QED BY <2>1, <2>6
<1>5. S = 0 .. m
  BY <1>1, <1>3, <1>4, Counting
<1>6. m \in 0 .. m
  BY <1>1
<1> QED BY <1>5, <1>6

\* What is ahead when the top frame has a symbol to go through, and when not.
LEMMA AheadUnfinished ==
    ASSUME NEW g, NEW s, IsStack(g, s), Unfinished(s[Len(s)])
    PROVE  /\ s[Len(s)].prod.rhs[s[Len(s)].idx + 1] \in Symbols(g)
           /\ Waiting(s)[Len(s)] \in Seq(Symbols(g))
           /\ AheadOf(s) = <<s[Len(s)].prod.rhs[s[Len(s)].idx + 1]>> \o Waiting(s)[Len(s)]
<1>1. Len(s) \in Nat /\ Len(s) \in 1 .. Len(s) /\ Len(s) - 1 \in 0 .. Len(s)
  BY StackLength
<1> DEFINE n == Len(s)
           rhs == s[n].prod.rhs
           i == s[n].idx
<1>2. CanWait(g, s, n) /\ CanWait(g, s, n - 1)
  BY <1>1 DEF IsStack, CanWait
<1>3. rhs \in Seq(Symbols(g)) /\ i \in 0 .. Len(rhs) /\ i # Len(rhs)
  BY <1>1 DEF IsStack, IsFrame, Unfinished
<1>4. AheadOf(s) = After(rhs, i) \o Waiting(s)[n - 1]
  BY DEF AheadOf
<1>5. Waiting(s)[n] = After(rhs, i + 1) \o Waiting(s)[n - 1]
  BY <1>1, WaitingIs
<1> DEFINE a == After(rhs, i + 1)
           b == Waiting(s)[n - 1]
           x == rhs[i + 1]
<1>6. Waiting(s)[n] \in Seq(Symbols(g)) /\ b \in Seq(Symbols(g))
  BY <1>2, WaitingTypes
<1> HIDE DEF rhs, i, n
<1>7. x \in Symbols(g) /\ a \in Seq(Symbols(g)) /\ After(rhs, i) = <<x>> \o a
  BY <1>3, AfterNext
<1> HIDE DEF a, b, x
<1>8. <<x>> \in Seq(Symbols(g))
  BY <1>7, OneInSeq
<1>9. (<<x>> \o a) \o b = <<x>> \o (a \o b)
  BY ONLY <1>6, <1>7, <1>8, ConcatAssociative
<1>10. AheadOf(s) = <<x>> \o (a \o b) /\ Waiting(s)[n] = a \o b
  BY <1>4, <1>5, <1>7, <1>9 DEF a, b
<1>11. AheadOf(s) = <<x>> \o Waiting(s)[n]
  BY <1>10
<1> QED BY <1>6, <1>7, <1>11 DEF x, n, rhs, i

LEMMA AheadFinished ==
    ASSUME NEW g, NEW s, IsStack(g, s), ~Unfinished(s[Len(s)])
    PROVE  AheadOf(s) = Waiting(s)[Len(s) - 1] /\ AheadOf(s) \in Seq(Symbols(g))
<1>1. Len(s) \in Nat /\ Len(s) \in 1 .. Len(s) /\ Len(s) - 1 \in 0 .. Len(s)
  BY StackLength
<1> DEFINE rhs == s[Len(s)].prod.rhs
           b == Waiting(s)[Len(s) - 1]
<1>2. CanWait(g, s, Len(s) - 1)
  BY <1>1 DEF IsStack, CanWait
<1>3. rhs \in Seq(Symbols(g)) /\ s[Len(s)].idx = Len(rhs)
  BY <1>1 DEF IsStack, IsFrame, Unfinished
<1>4. b \in Seq(Symbols(g))
  BY <1>2, WaitingTypes
<1>5. AheadOf(s) = After(rhs, Len(rhs)) \o b
  BY <1>3 DEF AheadOf
<1> HIDE DEF rhs
<1>6. After(rhs, Len(rhs)) = <<>>
  BY <1>3, AfterEnds
<1> HIDE DEF b
<1>7. <<>> \o b = b
  BY <1>4
<1>8. AheadOf(s) = b
  BY <1>5, <1>6, <1>7
<1> QED BY <1>4, <1>8 DEF b

\* t is what is left of s up to its m-th frame, which has gone on by one symbol.
IsAdvanced(s, m, t) ==
    /\ Len(s) \in Nat /\ m \in 1 .. Len(s) /\ Len(t) = m /\ \E F : t \in Seq(F)
    /\ \A n \in 1 .. m - 1 : t[n] = s[n]
    /\ t[m] = [node |-> t[m].node, idx |-> s[m].idx + 1, lhs |-> t[m].lhs, prod |-> s[m].prod]

LEMMA AdvancedProperties ==
    ASSUME NEW g, NEW s, IsStack(g, s), NEW m, NEW t, IsAdvanced(s, m, t), Unfinished(s[m])
    PROVE  IsStack(g, t) /\ AheadOf(t) = Waiting(s)[m]
<1>1. Len(s) \in Nat /\ m \in 1 .. Len(s) /\ Len(t) = m /\ m - 1 \in Nat /\ m \in Nat /\ m \in 1 .. m
  BY DEF IsAdvanced
<1>2. Alike(s, t, m - 1)
  BY <1>1 DEF Alike, IsAdvanced
<1>3. t[m].prod = s[m].prod /\ t[m].idx = s[m].idx + 1
  BY DEF IsAdvanced
<1>4. Waiting(t)[m - 1] = Waiting(s)[m - 1]
  BY <1>2, AlikeWait
<1>5. Waiting(s)[m] = After(s[m].prod.rhs, s[m].idx + 1) \o Waiting(s)[m - 1]
  BY <1>1, WaitingIs
<1>6. AheadOf(t) = Waiting(s)[m]
  BY <1>1, <1>3, <1>4, <1>5 DEF AheadOf
<1>7. IsFrame(g, s[m])
  BY <1>1 DEF IsStack
<1>8. IsFrame(g, t[m])
  <2>1. s[m].idx + 1 \in 0 .. Len(s[m].prod.rhs)
    <3>1. Len(s[m].prod.rhs) \in Nat
      BY <1>7, LenProperties DEF IsFrame
    <3> QED BY <1>7, <3>1 DEF IsFrame, Unfinished
  <2>2. t[m] = [node |-> t[m].node, idx |-> t[m].idx, lhs |-> t[m].lhs, prod |-> t[m].prod]
    BY <1>3 DEF IsAdvanced
  <2> QED BY <1>3, <1>7, <2>1, <2>2 DEF IsFrame
<1>9. ASSUME NEW n \in 1 .. Len(t)
      PROVE  IsFrame(g, t[n]) /\ (n # Len(t) => Unfinished(t[n]))
  <2>1. CASE n = m
    BY <1>1, <1>8, <2>1
  <2>2. CASE n # m
    <3>1. n \in 1 .. m - 1 /\ n \in 1 .. Len(s) /\ n # Len(s)
      BY <1>1, <2>2
    <3>2. t[n] = s[n]
      BY <3>1 DEF IsAdvanced
    <3> QED BY <3>1, <3>2 DEF IsStack
  <2> QED BY <2>1, <2>2
<1>10. \E F : t \in Seq(F)
  BY DEF IsAdvanced
<1>11. t # <<>>
  <2>1. Len(t) # 0
    BY <1>1
  <2> QED BY <2>1, EmptySeq
<1>12. IsStack(g, t)
  BY <1>9, <1>10, <1>11 DEF IsStack
<1> QED BY <1>6, <1>12

\* The top frame goes on, or the one below it when the top one is taken off.
LEMMA TopAdvances ==
    ASSUME NEW g, NEW s, IsStack(g, s), NEW y, NEW t, t = [s EXCEPT ![Len(s)] = y],
           y = [node |-> y.node, idx |-> s[Len(s)].idx + 1, lhs |-> y.lhs, prod |-> s[Len(s)].prod]
    PROVE  IsAdvanced(s, Len(s), t)
<1>1. Len(s) \in Nat /\ Len(s) \in 1 .. Len(s)
  BY StackLength
<1>2. PICK F : s \in Seq(F)
  BY DEF IsStack
<1> DEFINE G == F \cup {y}
<1>3. s \in Seq(G) /\ y \in G
  BY <1>2, SeqMonotonic
<1> HIDE DEF G
<1>4. /\ t \in Seq(G) /\ Len(t) = Len(s)
      /\ \A n \in 1 .. Len(s) : t[n] = IF n = Len(s) THEN y ELSE s[n]
  BY <1>1, <1>3, ExceptSeq
<1>5. \A n \in 1 .. Len(s) - 1 : n \in 1 .. Len(s) /\ n # Len(s)
  BY <1>1
<1> QED BY <1>1, <1>4, <1>5 DEF IsAdvanced

LEMMA ParentAdvances ==
    ASSUME NEW g, NEW s, IsStack(g, s), Len(s) > 1, NEW y, NEW t,
           t = Append(SubSeq(s, 1, Len(s) - 2), y),
           y = [node |-> y.node, idx |-> s[Len(s) - 1].idx + 1, lhs |-> y.lhs, prod |-> s[Len(s) - 1].prod]
    PROVE  IsAdvanced(s, Len(s) - 1, t)
<1>1. Len(s) \in Nat /\ Len(s) - 2 \in 0 .. Len(s) /\ (Len(s) - 2) + 1 = Len(s) - 1
  BY StackLength
<1>2. PICK F : s \in Seq(F)
  BY DEF IsStack
<1> DEFINE G == F \cup {y}
           x == SubSeq(s, 1, Len(s) - 2)
<1>3. s \in Seq(G) /\ y \in G
  BY <1>2, SeqMonotonic
<1> HIDE DEF G
<1>4. x \in Seq(G) /\ Len(x) = Len(s) - 2 /\ \A n \in 1 .. Len(s) - 2 : x[n] = s[n]
  BY <1>1, <1>3, UptoProperties
<1>5. t = Append(x, y)
  OBVIOUS
<1> HIDE DEF x
<1>6. /\ t \in Seq(G) /\ Len(t) = Len(x) + 1
      /\ \A n \in 1 .. Len(x) : t[n] = x[n]
      /\ t[Len(x) + 1] = y
  BY <1>3, <1>4, <1>5, AppendProperties
<1>7. Len(t) = Len(s) - 1 /\ t[Len(s) - 1] = y /\ Len(s) - 1 \in 1 .. Len(s)
  BY <1>1, <1>4, <1>6
<1>8. ASSUME NEW n \in 1 .. (Len(s) - 1) - 1
      PROVE  t[n] = s[n]
  <2>1. n \in 1 .. Len(s) - 2 /\ n \in 1 .. Len(x)
    BY <1>1, <1>4
  <2> QED BY <1>4, <1>6, <2>1
<1> QED BY <1>1, <1>6, <1>7, <1>8 DEF IsAdvanced

\* A frame is put on top, at the beginning of its production.
LEMMA PushProperties ==
    ASSUME NEW g, NEW s, IsStack(g, s), Unfinished(s[Len(s)]),
           NEW x, IsFrame(g, x), x.idx = 0, NEW t, t = Append(s, x)
    PROVE  IsStack(g, t) /\ AheadOf(t) = x.prod.rhs \o Waiting(s)[Len(s)]
<1>1. Len(s) \in Nat /\ Len(s) \in 1 .. Len(s)
  BY StackLength
<1>2. PICK F : s \in Seq(F)
  BY DEF IsStack
<1> DEFINE G == F \cup {x}
<1>3. s \in Seq(G) /\ x \in G
  BY <1>2, SeqMonotonic
<1> HIDE DEF G
<1>4. /\ t \in Seq(G) /\ t # <<>> /\ Len(t) = Len(s) + 1
      /\ \A n \in 1 .. Len(s) : t[n] = s[n]
      /\ t[Len(s) + 1] = x
  BY <1>3, AppendProperties
<1>5. Alike(s, t, Len(s))
  BY <1>1, <1>4 DEF Alike
<1>6. Waiting(t)[Len(s)] = Waiting(s)[Len(s)]
  BY <1>5, AlikeWait
<1>7. Len(t) - 1 = Len(s) /\ t[Len(t)] = x
  BY <1>1, <1>4
<1>8. AheadOf(t) = After(x.prod.rhs, 0) \o Waiting(s)[Len(s)]
  BY <1>6, <1>7 DEF AheadOf
<1>9. After(x.prod.rhs, 0) = x.prod.rhs
  BY AfterEnds DEF IsFrame
<1>10. ASSUME NEW n \in 1 .. Len(t)
       PROVE  IsFrame(g, t[n]) /\ (n # Len(t) => Unfinished(t[n]))
  <2>1. CASE n = Len(t)
    BY <1>7, <2>1
  <2>2. CASE n # Len(t)
    <3>1. n \in 1 .. Len(s)
      BY <1>1, <1>4, <2>2
    <3>2. t[n] = s[n]
      BY <1>4, <3>1
    <3> QED BY <3>1, <3>2 DEF IsStack
  <2> QED BY <2>1, <2>2
<1>11. IsStack(g, t)
  BY <1>4, <1>10 DEF IsStack
<1>12. AheadOf(t) = x.prod.rhs \o Waiting(s)[Len(s)]
  BY <1>8, <1>9
<1> QED BY <1>11, <1>12

\* One frame by itself.
LEMMA OneFrame ==
    ASSUME NEW g, NEW x, IsFrame(g, x), NEW t, t = <<x>>
    PROVE  IsStack(g, t) /\ Len(t) = 1 /\ t[1] = x /\ AheadOf(t) = After(x.prod.rhs, x.idx)
<1>1. t \in Seq({x}) /\ t # <<>> /\ Len(t) = 1 /\ t[1] = x /\ Len(t) - 1 = 0 /\ Len(t) \in Nat
  OBVIOUS
<1>2. \A n \in 1 .. Len(t) : n = 1
  BY <1>1
<1>3. IsStack(g, t)
  BY <1>1, <1>2 DEF IsStack
<1>4. Waiting(t)[0] = <<>>
  BY <1>1, WaitingIs
<1>5. AheadOf(t) = After(x.prod.rhs, x.idx) \o <<>>
  BY <1>1, <1>4 DEF AheadOf
<1> DEFINE a == After(x.prod.rhs, x.idx)
<1>6. a \in Seq(Symbols(g))
  BY AfterProperties DEF IsFrame
<1> HIDE DEF a
<1>7. a \o <<>> = a
  BY <1>6
<1>8. AheadOf(t) = a
  BY <1>5, <1>7 DEF a
<1> QED BY <1>1, <1>3, <1>8 DEF a
--------------------------------------------------------------------------------
(* The loop that grows the tree.                                             *)

\* The productions used derive w.
IsDerivationOf(g, used, w) ==
    /\ IsGrammar(g) /\ g.terminals \cap g.nonTerminals = {}
    /\ Len(used) \in Nat /\ IsLeftmostDerivation(g, used)
    /\ w \in Seq(g.terminals)
    /\ Sentential(g, used)[Len(used)] = w

\* After k of them there is the symbol a between x and y.
StandsAt(g, used, k, x, a, y) ==
    /\ k \in 0 .. Len(used)
    /\ x \in Seq(g.terminals) /\ a \in Symbols(g) /\ y \in Seq(Symbols(g))
    /\ Sentential(g, used)[k] = x \o (<<a>> \o y)

HasBecome(g, used, k, x, y) == Sentential(g, used)[k] = x \o y

\* A nonterminal is expanded by the next production.
LEMMA NonterminalIsExpanded ==
    ASSUME NEW g, NEW used, NEW w, IsDerivationOf(g, used, w),
           NEW k, NEW x, NEW a, NEW y, StandsAt(g, used, k, x, a, y), a \in g.nonTerminals
    PROVE  /\ k + 1 \in 1 .. Len(used) /\ used[k + 1][1] = a
           /\ used[k + 1][2].rhs \in Seq(Symbols(g))
           /\ HasBecome(g, used, k + 1, x, used[k + 1][2].rhs \o y)
<1> DEFINE u == Sentential(g, used)[k]
<1>1. IsForm(g, x, a, y, u)
  BY DEF IsForm, StandsAt, IsDerivationOf
<1>2. Len(used) \in Nat /\ k \in 0 .. Len(used) /\ IsGrammar(g)
  BY DEF StandsAt, IsDerivationOf
<1> HIDE DEF u
<1>3. /\ Len(u) = Len(x) + 1 + Len(y) /\ Len(x) \in Nat /\ Len(y) \in Nat /\ u[Len(x) + 1] = a
      /\ \A i \in 1 .. Len(u) : IsLeftmost(g, u, i) <=> i = Len(x) + 1
  BY <1>1, LeftmostIs
<1>4. k # Len(used)
  <2>1. SUFFICES ASSUME k = Len(used) PROVE FALSE
    OBVIOUS
  <2>2. u = w /\ w \in Seq(g.terminals) /\ g.terminals \cap g.nonTerminals = {}
    BY <2>1 DEF u, IsDerivationOf
  <2>3. Len(x) + 1 \in 1 .. Len(w)
    BY <1>3, <2>2
  <2>4. w[Len(x) + 1] \in g.terminals
    BY <2>2, <2>3, ElementOfSeq
  <2> QED BY <1>3, <2>2, <2>4
<1>5. k + 1 \in 1 .. Len(used) /\ (k + 1) - 1 = k
  BY <1>2, <1>4
<1> DEFINE n == k + 1
<1>6. /\ \E r \in g.rules : r.lhs = used[n][1] /\ r.prod = used[n][2]
      /\ \E i \in 1 .. Len(u) : IsLeftmost(g, u, i) /\ u[i] = used[n][1]
  <2>1. n \in 1 .. Len(used) /\ n - 1 = k /\ IsLeftmostDerivation(g, used)
    BY <1>5 DEF IsDerivationOf
  <2> HIDE DEF n
  <2>2. /\ \E r \in g.rules : r.lhs = used[n][1] /\ r.prod = used[n][2]
        /\ LET before == Sentential(g, used)[n - 1]
           IN  \E i \in 1 .. Len(before) : IsLeftmost(g, before, i) /\ before[i] = used[n][1]
    BY <2>1 DEF IsLeftmostDerivation
  <2>3. u = Sentential(g, used)[n - 1]
    BY <2>1 DEF u
  <2> QED BY <2>2, <2>3
<1>7. used[n][1] = a
  BY <1>3, <1>6
<1> DEFINE rhs == used[n][2].rhs
<1>8. rhs \in Seq(Symbols(g))
  BY <1>2, <1>6 DEF IsGrammar
<1>9. Sentential(g, used)[n] = Expanded(g, u, rhs)
  BY <1>2, <1>5, SententialIs DEF u
<1> HIDE DEF rhs
<1>10. Expanded(g, u, rhs) = x \o (rhs \o y)
  BY <1>1, <1>8, ExpandedIs
<1>11. Sentential(g, used)[n] = x \o (rhs \o y)
  BY <1>9, <1>10
<1> QED BY <1>5, <1>7, <1>8, <1>11 DEF rhs, HasBecome

\* A terminal is the next letter of w.
LEMMA TerminalIsNext ==
    ASSUME NEW g, NEW used, NEW w, IsDerivationOf(g, used, w),
           NEW k, NEW x, NEW a, NEW y, StandsAt(g, used, k, x, a, y), a \notin g.nonTerminals
    PROVE  Len(x) + 1 \in 1 .. Len(w) /\ w[Len(x) + 1] = a
<1> DEFINE u == Sentential(g, used)[k]
           z == <<a>> \o y
           c == Len(x) + 1
<1>1. /\ x \in Seq(g.terminals) /\ x \in Seq(Symbols(g)) /\ a \in Symbols(g) /\ y \in Seq(Symbols(g))
      /\ u = x \o z /\ k \in 0 .. Len(used)
      /\ IsGrammar(g) /\ Len(used) \in Nat /\ IsLeftmostDerivation(g, used)
      /\ w \in Seq(g.terminals) /\ Sentential(g, used)[Len(used)] = w
      /\ g.terminals \cap g.nonTerminals = {}
  <2>1. g.terminals \subseteq Symbols(g)
    BY DEF Symbols
  <2> QED BY <2>1, SeqMonotonic DEF StandsAt, IsDerivationOf
<1> HIDE DEF u
<1>2. z \in Seq(Symbols(g)) /\ Len(z) = 1 + Len(y) /\ Len(y) \in Nat /\ z[1] = a
  <2>1. <<a>> \in Seq(Symbols(g)) /\ Len(<<a>>) = 1 /\ <<a>>[1] = a /\ 1 \in 1 .. Len(<<a>>)
    BY <1>1, OneInSeq
  <2> QED BY <1>1, <2>1, CutWhereJoined
<1> HIDE DEF z
<1>3. /\ Len(u) = Len(x) + Len(z) /\ Len(x) \in Nat
      /\ \A i \in 1 .. Len(x) : u[i] = x[i]
      /\ \A i \in 1 .. Len(z) : u[Len(x) + i] = z[i]
  <2>1. /\ Len(x \o z) = Len(x) + Len(z) /\ Len(x) \in Nat
        /\ \A i \in 1 .. Len(x) : (x \o z)[i] = x[i]
        /\ \A i \in 1 .. Len(z) : (x \o z)[Len(x) + i] = z[i]
    <3>1. x \in Seq(Symbols(g)) /\ z \in Seq(Symbols(g))
      BY <1>1, <1>2
    <3> QED BY ONLY <3>1, CutWhereJoined
  <2>2. u = x \o z
    BY <1>1
  <2> QED BY ONLY <2>1, <2>2
<1>4. u[c] = a
  <2>1. 1 \in 1 .. Len(z)
    BY <1>2
  <2> QED BY <1>2, <1>3, <2>1
<1>5. Read(g, u, c)
  <2>1. c \in 0 .. Len(u)
    BY <1>2, <1>3
  <2>2. ASSUME NEW j \in 1 .. c
        PROVE  u[j] \notin g.nonTerminals
    <3>1. CASE j = c
      BY <1>4, <3>1
    <3>2. CASE j # c
      <4>1. j \in 1 .. Len(x)
        BY <1>3, <3>2
      <4>2. x[j] \in g.terminals
        BY <1>1, <4>1, ElementOfSeq
      <4> QED BY <1>1, <1>3, <4>1, <4>2
    <3> QED BY <3>1, <3>2
  <2> QED BY <2>1, <2>2 DEF Read
<1>6. Begins(g, u, c, Sentential(g, used)[Len(used)])
  BY <1>1, <1>5, ReadStays DEF u
<1>7. c <= Len(w) /\ w[c] = u[c]
  <2>1. c \in 1 .. c
    BY <1>3
  <2> QED BY <1>1, <1>6, <2>1 DEF Begins
<1>8. Len(w) \in Nat
  BY <1>1, LenProperties
<1> QED BY <1>3, <1>4, <1>7, <1>8

\* A form that is a word is the last one.
LEMMA WordIsLast ==
    ASSUME NEW g, NEW used, NEW w, IsDerivationOf(g, used, w),
           NEW k, k \in 0 .. Len(used), NEW u, u = Sentential(g, used)[k], u \in Seq(g.terminals)
    PROVE  k = Len(used) /\ u = w
<1>1. Len(used) \in Nat
  BY DEF IsDerivationOf
<1>2. k = Len(used)
  <2>1. SUFFICES ASSUME k # Len(used) PROVE FALSE
    OBVIOUS
  <2>2. k + 1 \in 1 .. Len(used) /\ (k + 1) - 1 = k
    BY <1>1, <2>1
  <2>3. PICK i \in 1 .. Len(u) : IsLeftmost(g, u, i)
    BY <2>2 DEF IsDerivationOf, IsLeftmostDerivation
  <2>4. u[i] \in g.terminals
    BY ElementOfSeq
  <2> QED BY <2>3, <2>4 DEF IsLeftmost, IsDerivationOf
<1> QED BY <1>2 DEF IsDerivationOf

Done == verdict \in {"accepted", "built"}

\* The tokens placed, and what the frames have yet to go through, are the form
\* that the productions taken so far have derived.
Grown ==
    /\ IsStack(grammar, frames)
    /\ wordPosition \in 0 .. Len(word) - 1
    /\ nextProduction \in 0 .. Len(productions) - 1
    /\ HasBecome(grammar, productions, nextProduction + 1, SubSeq(word, 1, wordPosition), AheadOf(frames))

TreeInv ==
    /\ frames # <<>> => Done /\ Grown
    /\ frames = <<>> => wordPosition = 0 /\ nextProduction = 0
    /\ verdict = "built" => nextProduction = Len(productions) - 1 /\ wordPosition = Len(word) - 1

LEMMA TreeFollows ==
    ASSUME TreeInv
    PROVE  TreeRetraces
<1>1. SUFFICES ASSUME frames # <<>> PROVE Grown => TreeRetraces
  BY DEF TreeInv, TreeRetraces
<1>2. SUFFICES ASSUME Grown PROVE TreeRetraces
  OBVIOUS
<1>3. Ahead = AheadOf(frames)
  BY DEF Ahead, AheadOf, TopFrame
<1>4. nextProduction < Len(productions)
  <2>1. nextProduction \in 0 .. Len(productions) - 1
    BY <1>2 DEF Grown
  <2>2. PICK n : n = Len(productions)
    OBVIOUS
  <2> QED BY <2>1, <2>2
<1> QED BY <1>2, <1>3, <1>4 DEF TreeRetraces, TreeInv, Grown, HasBecome

LEMMA AcceptedRun ==
    ASSUME GrammarInv, RunInv, Done
    PROVE  /\ IsDerivationOf(grammar, productions, Front(word))
           /\ Len(word) \in Nat /\ Len(word) > 0 /\ word \in Seq(grammar.terminals \cup Foreign)
           /\ word[Len(word)] = grammar.eof /\ Front(word) = SubSeq(word, 1, Len(word) - 1)
           /\ Len(Front(word)) = Len(word) - 1
           /\ \A j \in 1 .. Len(word) - 1 : Front(word)[j] = word[j]
<1>1. /\ ProductionsDerive
      /\ Len(word) \in Nat /\ Len(word) > 0 /\ word[Len(word)] = grammar.eof
      /\ Front(word) \in Seq(grammar.terminals) /\ Front(word) = SubSeq(word, 1, Len(word) - 1)
  BY AcceptedDerives DEF Done
<1>2. word \in Seq(grammar.terminals \cup Foreign) /\ productions \in Seq(Used)
  BY DEF RunInv, RunTypes
<1>3. Len(productions) \in Nat
  BY <1>2, LenProperties
<1>4. /\ IsLeftmostDerivation(grammar, productions)
      /\ Sentential(grammar, productions)[Len(productions)] = Front(word)
  BY <1>1 DEF ProductionsDerive, Done
<1>5. IsDerivationOf(grammar, productions, Front(word))
  BY <1>1, <1>3, <1>4 DEF IsDerivationOf, GrammarInv
<1>6. Len(word) - 1 \in 0 .. Len(word)
  BY <1>1
<1> DEFINE w == SubSeq(word, 1, Len(word) - 1)
<1>7. Len(w) = Len(word) - 1 /\ \A j \in 1 .. Len(word) - 1 : w[j] = word[j]
  BY <1>2, <1>6, UptoProperties
<1> QED BY <1>1, <1>2, <1>5, <1>7

\* The tokens are terminals, and so are those that are placed.
LEMMA TokensAreTerminals ==
    ASSUME GrammarInv, RunInv, Done
    PROVE  /\ \A j \in 1 .. Len(word) : word[j] \in grammar.terminals
           /\ \A n \in 0 .. Len(word) - 1 :
                 SubSeq(word, 1, n) \in Seq(grammar.terminals) /\ Len(SubSeq(word, 1, n)) = n
<1> DEFINE w == Front(word)
<1>1. /\ w \in Seq(grammar.terminals) /\ Len(word) \in Nat /\ Len(word) > 0
      /\ word \in Seq(grammar.terminals \cup Foreign)
      /\ word[Len(word)] = grammar.eof /\ Len(w) = Len(word) - 1
      /\ \A j \in 1 .. Len(word) - 1 : w[j] = word[j]
  BY AcceptedRun DEF IsDerivationOf
<1>2. grammar.eof \in grammar.terminals
  BY DEF GrammarInv, IsGrammar
<1> HIDE DEF w
<1>3. ASSUME NEW j \in 1 .. Len(word)
      PROVE  word[j] \in grammar.terminals
  <2>1. CASE j = Len(word)
    BY <1>1, <1>2, <2>1
  <2>2. CASE j # Len(word)
    <3>1. j \in 1 .. Len(w) /\ j \in 1 .. Len(word) - 1
      BY <1>1, <2>2
    <3>2. w[j] \in grammar.terminals
      BY <1>1, <3>1, ElementOfSeq
    <3> QED BY <1>1, <3>1, <3>2
  <2> QED BY <2>1, <2>2
<1>4. ASSUME NEW n \in 0 .. Len(word) - 1
      PROVE  SubSeq(word, 1, n) \in Seq(grammar.terminals) /\ Len(SubSeq(word, 1, n)) = n
  <2>1. n \in 0 .. Len(word) /\ \A j \in 1 .. n : j \in 1 .. Len(word)
    BY <1>1
  <2>2. Len(SubSeq(word, 1, n)) = n
    BY <1>1, <2>1, UptoProperties
  <2>3. \A j \in 1 .. n : word[j] \in grammar.terminals
    BY <1>3, <2>1
  <2>4. 1 \in Int /\ n \in Int
    OBVIOUS
  <2>5. SubSeq(word, 1, n) \in Seq(grammar.terminals)
    BY ONLY <2>3, <2>4, SubSeqProperties
  <2> QED BY <2>2, <2>5
<1> QED BY <1>3, <1>4

\* What the loop has in front of it.
LEMMA StandsBeforeNext ==
    ASSUME GrammarInv, RunInv, Done, Grown, Unfinished(TopFrame)
    PROVE  StandsAt(grammar, productions, nextProduction + 1, SubSeq(word, 1, wordPosition),
                    NextSymbol, Waiting(frames)[Len(frames)])
<1>1. /\ IsStack(grammar, frames) /\ Unfinished(frames[Len(frames)])
      /\ NextSymbol = frames[Len(frames)].prod.rhs[frames[Len(frames)].idx + 1]
  BY DEF Grown, TopFrame, NextSymbol
<1> DEFINE y == Waiting(frames)[Len(frames)]
<1>2. NextSymbol \in Symbols(grammar) /\ y \in Seq(Symbols(grammar)) /\ AheadOf(frames) = <<NextSymbol>> \o y
  BY <1>1, AheadUnfinished
<1>3. wordPosition \in 0 .. Len(word) - 1 /\ nextProduction \in 0 .. Len(productions) - 1
  BY DEF Grown
<1>4. SubSeq(word, 1, wordPosition) \in Seq(grammar.terminals)
  BY <1>3, TokensAreTerminals
<1>5. nextProduction + 1 \in 0 .. Len(productions)
  <2>1. Len(productions) \in Nat
    BY AcceptedRun DEF IsDerivationOf
  <2> QED BY <1>3, <2>1
<1>6. Sentential(grammar, productions)[nextProduction + 1] = SubSeq(word, 1, wordPosition) \o AheadOf(frames)
  BY DEF Grown, HasBecome
<1> QED BY <1>2, <1>4, <1>5, <1>6 DEF StandsAt

\* A frame that goes on.
LEMMA FrameAdvances ==
    ASSUME NEW x, x = [node |-> x.node, idx |-> x.idx, lhs |-> x.lhs, prod |-> x.prod], NEW a
    PROVE  [x EXCEPT !.node = a, !.idx = @ + 1]
              = [node |-> a, idx |-> x.idx + 1, lhs |-> x.lhs, prod |-> x.prod]
<1> DEFINE n == x.node
           i == x.idx
           l == x.lhs
           p == x.prod
<1>1. x = [node |-> n, idx |-> i, lhs |-> l, prod |-> p]
  OBVIOUS
<1> HIDE DEF n, i, l, p
<1> DEFINE j == i + 1
<1> HIDE DEF j
<1>2. x \in [node : {n}, idx : {i}, lhs : {l}, prod : {p}]
  BY ONLY <1>1
<1> DEFINE y == [x EXCEPT !.node = a, !.idx = j]
<1>3. y \in [node : {a}, idx : {j}, lhs : {l}, prod : {p}]
  BY ONLY <1>2
<1> HIDE DEF y
<1>4. y = [node |-> a, idx |-> j, lhs |-> l, prod |-> p]
  BY ONLY <1>3
<1> QED BY <1>4 DEF n, i, l, p, j, y

\* The root.
LEMMA PlantGrows ==
    ASSUME GrammarInv, RunInv, TreeInv, Plant
    PROVE  TreeInv'
<1>1. /\ verdict = "accepted" /\ frames = <<>> /\ wordPosition = 0 /\ nextProduction = 0
      /\ UNCHANGED <<grammar, word, productions, verdict, wordPosition, nextProduction>>
      /\ frames' = <<Frame(grammar.start, productions[1][1], productions[1][2])>>
  BY DEF Plant, TreeInv, buildVars, tables, runVars
<1> DEFINE w == Front(word)
           a == grammar.start
<1>2. IsDerivationOf(grammar, productions, w) /\ Len(word) > 0 /\ Len(word) \in Nat
  BY <1>1, AcceptedRun DEF Done
<1>3. a \in grammar.nonTerminals /\ a \in Symbols(grammar)
  BY DEF GrammarInv, IsGrammar, Symbols
<1>4. Len(productions) \in Nat /\ Sentential(grammar, productions)[0] = <<a>>
  BY <1>2, SententialIs DEF IsDerivationOf
<1> HIDE DEF w, a
<1>5. <<a>> = <<>> \o (<<a>> \o <<>>) /\ <<>> \in Seq(grammar.terminals) /\ <<>> \in Seq(Symbols(grammar))
  BY <1>3, OneInSeq
<1>6. StandsAt(grammar, productions, 0, <<>>, a, <<>>)
  BY <1>3, <1>4, <1>5 DEF StandsAt
<1> DEFINE rhs == productions[1][2].rhs
<1>7. /\ 1 \in 1 .. Len(productions) /\ rhs \in Seq(Symbols(grammar))
      /\ HasBecome(grammar, productions, 1, <<>>, rhs \o <<>>)
  <2>1. PICK k : k = 0
    OBVIOUS
  <2>2. StandsAt(grammar, productions, k, <<>>, a, <<>>)
    BY <1>6, <2>1
  <2>3. /\ k + 1 \in 1 .. Len(productions) /\ productions[k + 1][2].rhs \in Seq(Symbols(grammar))
        /\ HasBecome(grammar, productions, k + 1, <<>>, productions[k + 1][2].rhs \o <<>>)
    BY <1>2, <1>3, <2>2, NonterminalIsExpanded
  <2>4. k + 1 = 1
    BY <2>1
  <2> QED BY <2>3, <2>4
<1> DEFINE x == Frame(grammar.start, productions[1][1], productions[1][2])
<1>8. x.prod.rhs = rhs /\ x.idx = 0 /\ x = [node |-> x.node, idx |-> x.idx, lhs |-> x.lhs, prod |-> x.prod]
  BY DEF Frame
<1> HIDE DEF rhs, x
<1>9. IsFrame(grammar, x)
  <2>1. 0 \in 0 .. Len(rhs)
    BY <1>7, LenProperties
  <2> QED BY <1>7, <1>8, <2>1 DEF IsFrame
<1>10. frames' = <<x>>
  BY <1>1 DEF x
<1>11. IsStack(grammar, frames') /\ AheadOf(frames') = After(rhs, 0)
  BY <1>8, <1>9, <1>10, OneFrame
<1>12. After(rhs, 0) = rhs /\ rhs \o <<>> = rhs
  BY <1>7, AfterEnds
<1>13. SubSeq(word, 1, 0) = <<>>
  BY SubSeqEmpty
<1>14. HasBecome(grammar, productions, nextProduction + 1, SubSeq(word, 1, wordPosition), AheadOf(frames'))
  <2>1. nextProduction + 1 = 1 /\ SubSeq(word, 1, wordPosition) = <<>> /\ AheadOf(frames') = rhs
    BY <1>1, <1>11, <1>12, <1>13
  <2>2. HasBecome(grammar, productions, 1, <<>>, rhs)
    BY <1>7, <1>12
  <2> QED BY <2>1, <2>2
<1>15. 0 \in 0 .. Len(word) - 1 /\ 0 \in 0 .. Len(productions) - 1
  BY <1>2, <1>4, <1>7
<1>16. Grown'
  BY <1>1, <1>11, <1>14, <1>15 DEF Grown
<1>17. frames' # <<>>
  BY <1>10
<1> QED BY <1>1, <1>16, <1>17 DEF TreeInv, Done

\* A token.
LEMMA ShiftGrows ==
    ASSUME GrammarInv, RunInv, TreeInv, Shift
    PROVE  TreeInv'
<1>1. /\ verdict = "accepted" /\ frames # <<>> /\ wordPosition < Len(word) /\ Unfinished(TopFrame)
      /\ NextSymbol = word[wordPosition + 1] /\ wordPosition' = wordPosition + 1
      /\ UNCHANGED <<grammar, word, productions, verdict, nextProduction>>
  BY DEF Shift, Growing, Finished, Unfinished, buildVars, tables, runVars
<1>2. Done /\ Grown
  BY <1>1 DEF TreeInv
<1> DEFINE leaf == IF mode = "parse" \/ ~TopFrame.prod.ignore[TopFrame.idx + 1] THEN <<Node(NextSymbol, <<>>)>> ELSE <<>>
           top == frames[Len(frames)]
           new == [top EXCEPT !.node = Node(@.value, @.children \o leaf), !.idx = @ + 1]
           y == Waiting(frames)[Len(frames)]
           x == SubSeq(word, 1, wordPosition)
           a == NextSymbol
<1>3. frames' = [frames EXCEPT ![Len(frames)] = new]
  BY DEF Shift, TopFrame
<1>4. /\ IsStack(grammar, frames) /\ Len(frames) \in 1 .. Len(frames) /\ IsFrame(grammar, top)
      /\ Unfinished(top)
  BY <1>1, <1>2, StackLength DEF Grown, IsStack, TopFrame
<1>5. new = [node |-> new.node, idx |-> top.idx + 1, lhs |-> new.lhs, prod |-> top.prod]
  <2>1. top = [node |-> top.node, idx |-> top.idx, lhs |-> top.lhs, prod |-> top.prod]
    BY <1>4 DEF IsFrame
  <2> DEFINE grown == Node(top.node.value, top.node.children \o leaf)
  <2>2. new = [top EXCEPT !.node = grown, !.idx = @ + 1]
    OBVIOUS
  <2> HIDE DEF top, leaf, grown, new
  <2>3. new = [node |-> grown, idx |-> top.idx + 1, lhs |-> top.lhs, prod |-> top.prod]
    BY <2>1, <2>2, FrameAdvances
  <2> QED BY ONLY <2>3
<1> HIDE DEF new
<1>6. IsAdvanced(frames, Len(frames), frames')
  BY <1>3, <1>4, <1>5, TopAdvances
<1>7. IsStack(grammar, frames') /\ AheadOf(frames') = y
  BY <1>4, <1>6, AdvancedProperties
<1>8. StandsAt(grammar, productions, nextProduction + 1, x, a, y)
  BY <1>1, <1>2, StandsBeforeNext
<1>9. wordPosition \in 0 .. Len(word) - 1 /\ nextProduction \in 0 .. Len(productions) - 1 /\ Len(word) \in Nat
  BY <1>2, AcceptedRun DEF Grown
<1>10. wordPosition + 1 \in 1 .. Len(word) /\ 1 \in 1 .. Len(word)
  BY <1>1, <1>9
<1>11. a \in grammar.terminals
  BY <1>1, <1>2, <1>10, TokensAreTerminals
<1>12. a \notin grammar.nonTerminals
  BY <1>11 DEF GrammarInv
<1>13. IsDerivationOf(grammar, productions, Front(word)) /\ Len(Front(word)) = Len(word) - 1
  BY <1>2, AcceptedRun
<1>14. Len(x) = wordPosition
  BY <1>2, <1>9, TokensAreTerminals
<1>15. wordPosition + 1 \in 0 .. Len(word) - 1
  <2>1. Len(x) + 1 \in 1 .. Len(Front(word))
    BY <1>8, <1>12, <1>13, TerminalIsNext
  <2> QED BY <1>9, <1>13, <1>14, <2>1
<1>16. SubSeq(word, 1, wordPosition + 1) = x \o <<a>>
  <2>1. word \in Seq(grammar.terminals \cup Foreign) /\ (wordPosition + 1) - 1 = wordPosition
    BY <1>2, <1>9, AcceptedRun
  <2>2. SubSeq(word, 1, wordPosition + 1) = SubSeq(word, 1, (wordPosition + 1) - 1) \o <<word[wordPosition + 1]>>
    BY <1>10, <2>1, SubSeqRecursiveSecond
  <2> QED BY <1>1, <2>1, <2>2
<1>17. HasBecome(grammar, productions, nextProduction + 1, SubSeq(word, 1, wordPosition + 1), AheadOf(frames'))
  <2>1. x \in Seq(Symbols(grammar)) /\ <<a>> \in Seq(Symbols(grammar)) /\ y \in Seq(Symbols(grammar))
    <3>1. grammar.terminals \subseteq Symbols(grammar)
      BY DEF Symbols
    <3> QED BY <1>8, <3>1, OneInSeq, SeqMonotonic DEF StandsAt
  <2>2. Sentential(grammar, productions)[nextProduction + 1] = x \o (<<a>> \o y)
    BY <1>8 DEF StandsAt
  <2> HIDE DEF x, a, y
  <2>3. (x \o <<a>>) \o y = x \o (<<a>> \o y)
    BY ONLY <2>1, ConcatAssociative
  <2> QED BY <1>7, <1>16, <2>2, <2>3 DEF HasBecome
<1>18. Grown'
  BY <1>1, <1>7, <1>9, <1>15, <1>17 DEF Grown
<1>19. frames' # <<>>
  BY <1>7 DEF IsStack
<1> QED BY <1>1, <1>18, <1>19 DEF TreeInv, Done

\* A nonterminal.
LEMMA DescendGrows ==
    ASSUME GrammarInv, RunInv, TreeInv, Descend
    PROVE  TreeInv'
<1>1. /\ verdict = "accepted" /\ frames # <<>> /\ wordPosition < Len(word) /\ Unfinished(TopFrame)
      /\ NextSymbol # word[wordPosition + 1] /\ nextProduction' = nextProduction + 1
      /\ UNCHANGED <<grammar, word, productions, verdict, wordPosition>>
  BY DEF Descend, Growing, Finished, Unfinished, buildVars, tables, runVars
<1>2. Done /\ Grown
  BY <1>1 DEF TreeInv
<1> DEFINE k == nextProduction + 1
           x == SubSeq(word, 1, wordPosition)
           a == NextSymbol
           y == Waiting(frames)[Len(frames)]
           used == productions[k + 1]
           rhs == used[2].rhs
           new == Frame(NextSymbol, used[1], used[2])
<1>3. frames' = Append(frames, new)
  BY DEF Descend
<1>4. /\ IsStack(grammar, frames) /\ Unfinished(frames[Len(frames)])
  BY <1>1, <1>2 DEF Grown, TopFrame
<1>5. StandsAt(grammar, productions, k, x, a, y)
  BY <1>1, <1>2, StandsBeforeNext
<1>6. wordPosition \in 0 .. Len(word) - 1 /\ nextProduction \in 0 .. Len(productions) - 1 /\ Len(word) \in Nat
  BY <1>2, AcceptedRun DEF Grown
<1>7. /\ IsDerivationOf(grammar, productions, Front(word)) /\ Len(Front(word)) = Len(word) - 1
      /\ \A j \in 1 .. Len(word) - 1 : Front(word)[j] = word[j]
  BY <1>2, AcceptedRun
<1>8. Len(x) = wordPosition
  BY <1>2, <1>6, TokensAreTerminals
<1>9. a \in grammar.nonTerminals
  <2>1. SUFFICES ASSUME a \notin grammar.nonTerminals PROVE FALSE
    OBVIOUS
  <2> HIDE DEF a, x, y, k
  <2>2. Len(x) + 1 \in 1 .. Len(Front(word)) /\ Front(word)[Len(x) + 1] = a
    BY <1>5, <1>7, <2>1, TerminalIsNext
  <2>3. word[wordPosition + 1] = a
    BY <1>7, <1>8, <2>2
  <2> QED BY <1>1, <2>3 DEF a
<1>10. /\ k + 1 \in 1 .. Len(productions) /\ rhs \in Seq(Symbols(grammar))
       /\ HasBecome(grammar, productions, k + 1, x, rhs \o y)
  <2> HIDE DEF a, x, y, k
  <2> QED BY <1>5, <1>7, <1>9, NonterminalIsExpanded
<1>11. new.prod.rhs = rhs /\ new.idx = 0 /\ new = [node |-> new.node, idx |-> new.idx, lhs |-> new.lhs, prod |-> new.prod]
  BY DEF Frame
<1> HIDE DEF new, rhs, used
<1>12. IsFrame(grammar, new)
  <2>1. 0 \in 0 .. Len(rhs)
    BY <1>10, LenProperties
  <2> QED BY <1>10, <1>11, <2>1 DEF IsFrame
<1>13. IsStack(grammar, frames') /\ AheadOf(frames') = rhs \o y
  BY <1>3, <1>4, <1>11, <1>12, PushProperties
<1>14. Len(productions) \in Nat
  BY <1>7 DEF IsDerivationOf
<1>15. nextProduction + 1 \in 0 .. Len(productions) - 1
  BY <1>6, <1>10, <1>14
<1>16. HasBecome(grammar, productions, (nextProduction + 1) + 1, x, AheadOf(frames'))
  BY <1>10, <1>13
<1>17. Grown'
  BY <1>1, <1>6, <1>13, <1>15, <1>16 DEF Grown
<1>18. frames' # <<>>
  BY <1>13 DEF IsStack
<1> QED BY <1>1, <1>17, <1>18 DEF TreeInv, Done

\* A finished frame is taken off, and the one below it goes on.
LEMMA AscendGrows ==
    ASSUME GrammarInv, RunInv, TreeInv, Ascend
    PROVE  TreeInv'
<1>1. /\ verdict = "accepted" /\ frames # <<>> /\ Len(frames) > 1 /\ ~Unfinished(TopFrame)
      /\ UNCHANGED <<grammar, word, productions, verdict, wordPosition, nextProduction>>
  BY DEF Ascend, Growing, Finished, Unfinished, buildVars, tables, runVars
<1>2. Done /\ Grown
  BY <1>1 DEF TreeInv
<1>3. PICK v, more : frames' = Resume(v, more)
  BY DEF Ascend, AstFrames
<1> DEFINE m == Len(frames) - 1
           parent == frames[m]
           grown == Node(v, parent.node.children \o more)
           new == [parent EXCEPT !.node = grown, !.idx = @ + 1]
<1>4. frames' = Append(SubSeq(frames, 1, Len(frames) - 2), new)
  BY <1>3 DEF Resume, Parent
<1>5. IsStack(grammar, frames) /\ ~Unfinished(frames[Len(frames)])
  BY <1>1, <1>2 DEF Grown, TopFrame
<1>6. m \in 1 .. Len(frames) /\ m # Len(frames)
  BY <1>1, <1>5, StackLength
<1>7. IsFrame(grammar, parent) /\ Unfinished(parent)
  BY <1>5, <1>6 DEF IsStack
<1>8. new = [node |-> new.node, idx |-> parent.idx + 1, lhs |-> new.lhs, prod |-> parent.prod]
  <2>1. parent = [node |-> parent.node, idx |-> parent.idx, lhs |-> parent.lhs, prod |-> parent.prod]
    BY <1>7 DEF IsFrame
  <2>2. new = [parent EXCEPT !.node = grown, !.idx = @ + 1]
    OBVIOUS
  <2> HIDE DEF parent, grown, new
  <2>3. new = [node |-> grown, idx |-> parent.idx + 1, lhs |-> parent.lhs, prod |-> parent.prod]
    BY <2>1, <2>2, FrameAdvances
  <2> QED BY ONLY <2>3
<1> HIDE DEF new
<1>9. IsAdvanced(frames, m, frames')
  BY <1>1, <1>4, <1>5, <1>8, ParentAdvances
<1> HIDE DEF m
<1>10. IsStack(grammar, frames') /\ AheadOf(frames') = Waiting(frames)[m]
  BY <1>5, <1>7, <1>9, AdvancedProperties
<1>11. AheadOf(frames) = Waiting(frames)[m]
  BY <1>5, AheadFinished DEF m
<1>12. AheadOf(frames') = AheadOf(frames)
  BY <1>10, <1>11
<1>13. Grown'
  BY <1>1, <1>2, <1>10, <1>12 DEF Grown
<1>14. frames' # <<>>
  BY <1>10 DEF IsStack
<1> QED BY <1>1, <1>13, <1>14 DEF TreeInv, Done

\* The root is finished.
LEMMA FinishGrows ==
    ASSUME GrammarInv, RunInv, TreeInv, Finish
    PROVE  TreeInv'
<1>1. /\ verdict = "accepted" /\ frames # <<>> /\ Len(frames) = 1 /\ ~Unfinished(TopFrame) /\ verdict' = "built"
      /\ UNCHANGED <<grammar, word, productions, wordPosition, nextProduction>>
  BY DEF Finish, Growing, Finished, Unfinished, buildVars, tables
<1>2. Done /\ Grown
  BY <1>1 DEF TreeInv
<1> DEFINE top == frames[1]
           kept == IF mode = "parse" THEN ParseChild ELSE TopFrame.node
           new == [top EXCEPT !.node = kept]
           x == SubSeq(word, 1, wordPosition)
           k == nextProduction + 1
<1>3. frames' = <<new>> /\ TopFrame = top
  BY <1>1 DEF Finish, TopFrame
<1>4. IsStack(grammar, frames) /\ IsFrame(grammar, top) /\ ~Unfinished(frames[Len(frames)])
  <2>1. 1 \in 1 .. Len(frames)
    BY <1>1
  <2> QED BY <1>1, <1>2, <1>3, <2>1 DEF Grown, IsStack
<1>5. new = [node |-> kept, idx |-> top.idx, lhs |-> top.lhs, prod |-> top.prod]
  <2>1. top = [node |-> top.node, idx |-> top.idx, lhs |-> top.lhs, prod |-> top.prod]
    BY <1>4 DEF IsFrame
  <2> HIDE DEF top, kept
  <2> QED BY <2>1
<1> HIDE DEF kept, new
<1>6. new.idx = top.idx /\ new.prod = top.prod /\ IsFrame(grammar, new)
  <2>1. new.idx = top.idx /\ new.prod = top.prod /\ new.lhs = top.lhs /\ new.node = kept
    BY <1>5
  <2>2. new = [node |-> new.node, idx |-> new.idx, lhs |-> new.lhs, prod |-> new.prod]
    BY <1>5, <2>1
  <2> QED BY <1>4, <2>1, <2>2 DEF IsFrame
<1>7. IsStack(grammar, frames') /\ AheadOf(frames') = After(top.prod.rhs, top.idx)
  BY <1>3, <1>6, OneFrame
<1>8. After(top.prod.rhs, top.idx) = <<>>
  <2>1. top.idx = Len(top.prod.rhs) /\ top.prod.rhs \in Seq(Symbols(grammar))
    BY <1>1, <1>3, <1>4 DEF Unfinished, IsFrame
  <2> QED BY <2>1, AfterEnds
<1>9. AheadOf(frames) = <<>>
  <2>1. Len(frames) - 1 = 0 /\ Len(frames) \in Nat
    BY <1>1
  <2>2. Waiting(frames)[0] = <<>>
    BY <2>1, WaitingIs
  <2> QED BY <1>4, <2>1, <2>2, AheadFinished
<1>10. x \in Seq(grammar.terminals) /\ Len(x) = wordPosition
  BY <1>2, TokensAreTerminals DEF Grown
<1>11. IsDerivationOf(grammar, productions, Front(word)) /\ Len(Front(word)) = Len(word) - 1
  BY <1>2, AcceptedRun
<1>12. k \in 0 .. Len(productions) /\ Len(productions) \in Nat
  BY <1>2, <1>11 DEF Grown, IsDerivationOf
<1>13. x = Sentential(grammar, productions)[k]
  <2>1. Sentential(grammar, productions)[k] = x \o <<>>
    BY <1>2, <1>9 DEF Grown, HasBecome
  <2> HIDE DEF x
  <2> QED BY <1>10, <2>1
<1>14. k = Len(productions) /\ x = Front(word)
  <2> HIDE DEF x, k
  <2> QED BY <1>10, <1>11, <1>12, <1>13, WordIsLast
<1>15. nextProduction = Len(productions) - 1 /\ wordPosition = Len(word) - 1
  <2>1. nextProduction \in 0 .. Len(productions) - 1
    BY <1>2 DEF Grown
  <2>2. nextProduction + 1 = Len(productions) /\ Len(productions) \in Nat
    BY <1>12, <1>14
  <2>3. nextProduction = Len(productions) - 1
    BY ONLY <2>1, <2>2
  <2>4. Len(x) = wordPosition /\ Len(x) = Len(Front(word))
    BY <1>10, <1>14
  <2>5. wordPosition = Len(word) - 1
    BY ONLY <1>11, <2>4
  <2> QED BY ONLY <2>3, <2>5
<1>16. AheadOf(frames') = AheadOf(frames)
  BY <1>7, <1>8, <1>9
<1>17. Grown'
  BY <1>1, <1>2, <1>7, <1>16 DEF Grown
<1>18. frames' # <<>>
  BY <1>3
<1> QED BY <1>1, <1>15, <1>17, <1>18 DEF TreeInv, Done
--------------------------------------------------------------------------------
(* The invariant.                                                            *)

\* The table is of the grammar; while there is no word nothing has begun, and
\* there is one only when the table is complete; the run and the tree are as above.
IInv ==
    /\ BuildInv /\ todo \subseteq grammar.rules
    /\ mode = "none" => NotParsing
    /\ mode # "none" => phase = "ready"
    /\ RunInv
    /\ TreeInv

LEMMA ReadyGrammar ==
    ASSUME BuildInv, phase = "ready"
    PROVE  GrammarInv
BY GrammarsAssumption DEF BuildInv, GrammarInv

LEMMA InitEstablishes == ParserInit => IInv
<1> SUFFICES ASSUME ParserInit PROVE IInv
  OBVIOUS
<1>1. BuildInit(Grammars) /\ NotParsing
  BY DEF ParserInit
<1>2. BuildInv /\ todo \subseteq grammar.rules
  BY <1>1, BuildInitEstablishes DEF BuildInit
<1>3. /\ mode = "none" /\ word = <<>> /\ q = q0 /\ offset = 0 /\ stack = <<>> /\ productions = <<>>
      /\ verdict = "none" /\ frames = <<>> /\ wordPosition = 0 /\ nextProduction = 0
  BY <1>1 DEF NotParsing
<1>4. RunTypes
  <2>1. \A S : <<>> \in Seq(S) /\ Len(<<>>) = 0
    BY EmptySeq
  <2>2. 0 \in 0 .. 0
    OBVIOUS
  <2> QED BY <1>3, <2>1, <2>2 DEF RunTypes
<1>5. IsLeftmostDerivation(grammar, productions)
  <2>1. Len(productions) = 0
    BY <1>3
  <2>2. \A n \in 1 .. Len(productions) : FALSE
    BY <2>1
  <2> QED BY <2>2 DEF IsLeftmostDerivation
<1>6. RunInv
  BY <1>3, <1>4, <1>5 DEF RunInv
<1>7. TreeInv
  BY <1>3 DEF TreeInv
<1> QED BY <1>1, <1>2, <1>3, <1>6, <1>7 DEF IInv

LEMMA ParsePreserves ==
    ASSUME IInv, NEW w \in Words, Parse(w)
    PROVE  IInv'
<1>1. /\ phase = "ready" /\ mode = "none" /\ mode' \in {"parse", "ASTparse"} /\ word' = Append(w, grammar.eof)
      /\ UNCHANGED <<buildVars, runVars, treeVars>>
  BY DEF Parse, Free
<1>2. /\ q = q0 /\ offset = 0 /\ stack = <<>> /\ productions = <<>> /\ verdict = "none" /\ frames = <<>>
      /\ wordPosition = 0 /\ nextProduction = 0
  BY <1>1 DEF IInv, NotParsing
<1>3. BuildInv' /\ todo' \subseteq grammar'.rules
  BY <1>1 DEF IInv, BuildInv, IsTransition, buildVars, tables
<1> DEFINE S == grammar.terminals \cup Foreign
<1>4. word' \in Seq(S)
  <2>1. w \in Seq(S)
    <3>1. PICK k \in 0 .. MaxWord : w \in [1 .. k -> S]
      BY DEF Words, WordsUpTo
    <3>2. k \in Nat
      BY <3>1, MaxWordAssumption
    <3> HIDE DEF S
    <3> QED BY <3>1, <3>2
  <2>2. grammar.eof \in S
    BY <1>1, ReadyGrammar DEF IInv, GrammarInv, IsGrammar
  <2> HIDE DEF S
  <2> QED BY <1>1, <2>1, <2>2, AppendProperties
<1>5. Len(word') \in Nat
  BY <1>4, LenProperties
<1>6. UNCHANGED <<grammar, q, offset, stack, productions, verdict, frames, wordPosition, nextProduction>>
  BY <1>1 DEF buildVars, tables, runVars, treeVars
<1>7. RunTypes'
  <2>1. 0 \in 0 .. Len(word')
    BY <1>5
  <2>2. stack \in Seq(Symbols(grammar)) /\ productions \in Seq(Used)
    BY DEF IInv, RunInv, RunTypes
  <2> QED BY <1>2, <1>4, <1>6, <2>1, <2>2 DEF RunTypes, Used
<1>8. RunInv'
  <2>1. IsLeftmostDerivation(grammar, productions)
    BY DEF IInv, RunInv
  <2> QED BY <1>2, <1>6, <1>7, <2>1 DEF RunInv
<1>9. TreeInv'
  BY <1>2, <1>6 DEF TreeInv
<1>10. mode' # "none" /\ phase' = "ready"
  BY <1>1 DEF buildVars
<1> QED BY <1>3, <1>8, <1>9, <1>10 DEF IInv

\* While the table is built.
LEMMA BuildingPreserves ==
    ASSUME IInv, BuildNext, UNCHANGED <<mode, word, runVars, treeVars>>
    PROVE  IInv'
<1>1. BuildInv' /\ todo' \subseteq grammar'.rules /\ phase # "ready" /\ grammar' = grammar
  BY BuildPreserves DEF IInv
<1>2. UNCHANGED <<mode, word, q, offset, stack, productions, verdict, errorAt, wordPosition, nextProduction, frames>>
  BY DEF runVars, treeVars
<1>3. mode = "none" /\ NotParsing /\ frames = <<>> /\ verdict = "none"
  BY <1>1 DEF IInv, NotParsing
<1>4. NotParsing' /\ mode' = "none"
  BY <1>2, <1>3 DEF NotParsing, q0
<1>5. RunInv'
  BY <1>1, <1>2 DEF IInv, RunInv, RunTypes, Matched, Used, qFinal
<1>6. TreeInv'
  BY <1>2, <1>3 DEF IInv, TreeInv
<1> QED BY <1>1, <1>4, <1>5, <1>6 DEF IInv

\* Steps of a parse leave the table alone.
LEMMA TableStays ==
    ASSUME IInv, mode # "none", UNCHANGED <<buildVars, mode>>, RunInv', TreeInv'
    PROVE  IInv'
<1>1. UNCHANGED <<grammar, delta, phase, todo, mode>>
  BY DEF buildVars, tables
<1>2. BuildInv'
  BY <1>1 DEF IInv, BuildInv, IsTransition
<1> QED BY <1>1, <1>2 DEF IInv

LEMMA RunUnchanged ==
    ASSUME RunInv, UNCHANGED <<grammar, word, q, offset, stack, productions>>, Done' => Done
    PROVE  RunInv'
BY DEF RunInv, RunTypes, Matched, Used, qFinal, Done

LEMMA NextPreserves == IInv /\ [ParserNext]_vars => IInv'
<1> SUFFICES ASSUME IInv, [ParserNext]_vars PROVE IInv'
  OBVIOUS
<1>1. ASSUME NEW w \in Words, Parse(w) PROVE IInv'
  BY <1>1, ParsePreserves
<1>2. CASE BuildNext /\ UNCHANGED <<mode, word, runVars, treeVars>>
  BY <1>2, BuildingPreserves
<1>3. ASSUME mode # "none" PROVE GrammarInv
  BY <1>3, ReadyGrammar DEF IInv
<1>4. CASE Drive
  <2>1. mode # "none" /\ verdict = "none" /\ UNCHANGED <<buildVars, mode, verdict, treeVars>>
    BY <1>4 DEF Drive, Running
  <2>2. RunInv'
    BY <1>3, <1>4, <2>1, DrivePreserves DEF IInv
  <2>3. frames = <<>> /\ wordPosition = 0 /\ nextProduction = 0
    BY <2>1 DEF IInv, TreeInv, Done
  <2>4. TreeInv'
    BY <2>1, <2>3 DEF TreeInv, treeVars
  <2> QED BY <2>1, <2>2, <2>4, TableStays
<1>5. CASE Stop
  <2>1. mode # "none" /\ verdict = "none" /\ UNCHANGED <<buildVars, mode, treeVars>> /\ verdict' # "built"
    BY <1>5 DEF Stop, Mistake
  <2>2. RunInv'
    BY <1>3, <1>5, <2>1, StopPreserves DEF IInv
  <2>3. frames = <<>> /\ wordPosition = 0 /\ nextProduction = 0
    BY <2>1 DEF IInv, TreeInv, Done
  <2>4. TreeInv'
    BY <2>1, <2>3 DEF TreeInv, treeVars
  <2> QED BY <2>1, <2>2, <2>4, TableStays
<1>6. CASE Plant \/ Shift \/ Descend \/ Ascend \/ Finish
  <2>1. /\ verdict = "accepted"
        /\ UNCHANGED <<buildVars, mode, word, q, offset, stack, productions>>
    BY <1>6 DEF Plant, Shift, Descend, Ascend, Finish, Growing, runVars
  <2>2. mode # "none"
    BY <2>1 DEF IInv, NotParsing
  <2>3. RunInv'
    BY <2>1, RunUnchanged DEF IInv, Done, buildVars, tables
  <2>4. GrammarInv /\ RunInv /\ TreeInv
    BY <1>3, <2>2 DEF IInv
  <2>5. TreeInv'
    BY <1>6, <2>4, PlantGrows, ShiftGrows, DescendGrows, AscendGrows, FinishGrows
  <2> QED BY <2>1, <2>2, <2>3, <2>5, TableStays
<1>7. CASE UNCHANGED vars
  <2>1. /\ UNCHANGED <<grammar, delta, phase, todo, mode, word, q, offset, stack, productions, verdict, errorAt>>
        /\ UNCHANGED <<wordPosition, nextProduction, frames>>
    BY <1>7 DEF vars, buildVars, tables, runVars, treeVars
  <2>2. BuildInv'
    BY <2>1 DEF IInv, BuildInv, IsTransition
  <2>3. RunInv'
    BY <2>1, RunUnchanged DEF IInv, Done
  <2>4. TreeInv'
    BY <2>1 DEF IInv, TreeInv, Done, Grown
  <2>5. (mode = "none" => NotParsing)'
    BY <2>1 DEF IInv, NotParsing, q0
  <2> QED BY <2>1, <2>2, <2>3, <2>4, <2>5 DEF IInv
<1> QED BY <1>1, <1>2, <1>4, <1>5, <1>6, <1>7 DEF ParserNext, Work

\* The invariant of a Parser, whatever its grammar and the order of the passes
\* that built its table.
THEOREM Invariant == ParserSpec => []IInv
<1>1. ParserInit => IInv
  BY InitEstablishes
<1>2. IInv /\ [ParserNext]_vars => IInv'
  BY NextPreserves
<1> QED BY <1>1, <1>2, PTL DEF ParserSpec

\* The productions listed for a word that is accepted are a leftmost derivation of
\* it, conflicts in the table or not, and makeParseTree() and makeAST() go through
\* that derivation in step, whatever nodes the syntax tree drops.
THEOREM KeepsTheDerivation == ParserSpec => []DerivationIsKept
<1>1. IInv => DerivationIsKept
  <2> SUFFICES ASSUME IInv PROVE DerivationIsKept
    OBVIOUS
  <2>1. Done => mode # "none"
    BY DEF IInv, NotParsing, Done
  <2>2. Done => GrammarInv
    BY <2>1, ReadyGrammar DEF IInv
  <2>3. ProductionsDerive
    BY <2>2, AcceptedDerives DEF IInv, Done, ProductionsDerive
  <2>4. TreeRetraces
    BY TreeFollows DEF IInv
  <2> QED BY <2>3, <2>4 DEF DerivationIsKept
<1> QED BY <1>1, Invariant, PTL
================================================================================
