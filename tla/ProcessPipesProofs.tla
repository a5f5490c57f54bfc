--------------------------- MODULE ProcessPipesProofs ---------------------------
(***************************************************************************)
(* Nothing is lost, doubled or reordered between the program and its       *)
(* children, for any number of Process objects, any programs the children  *)
(* run, any text and any size of the buffer and of the pipes.              *)
(***************************************************************************)
EXTENDS ProcessPipes, SequenceTheorems, FiniteSetTheorems, TLAPS

Stages == {"none", "print", "wait", "out", "err", "gone"}
States == {"none", "running", "exited", "reaped"}

\* The first n characters of the text.
Printed(n) == [k \in 1 .. n |-> k]

\* A blocking call is made at the statement that makes it; the character that
\* overflow() was called with is the next one.
CallFits ==
    \/ call = NoCall
    \/ \E p \in Procs : call = Wait(p) /\ stage[p] = "wait"
    \/ \E p \in Procs, more \in Seq(Nat) :
          /\ call = Write(p, more) /\ stage[p] = "print"
          /\ more = <<>> \/ (put[p] < TextLength /\ more = <<put[p] + 1>>)

Typing ==
    /\ stage \in [Procs -> Stages]
    /\ put \in [Procs -> 0 .. TextLength]
    /\ obuf \in [Procs -> Seq(Nat)]
    /\ text \in [Procs -> [Outputs -> Seq(Nat)]]
    /\ killed \in BOOLEAN
    /\ pipe \in [Procs -> [Streams -> Seq(Nat)]]
    /\ writers \in [Procs -> SUBSET (Procs \cup {Parent})]
    /\ child \in [Procs -> States]
    /\ plan \in [Procs -> Programs]
    /\ pc \in [Procs -> Nat \ {0}]
    /\ got \in [Procs -> Seq(Nat)]

\* What the stage of a Process tells of its child and of the streams.
StageTells(p) ==
    /\ stage[p] = "none" <=> child[p] = "none"
    /\ stage[p] = "print" /\ ~killed => Parent \in writers[p]
    /\ stage[p] \in {"wait", "out", "err", "gone"} => put[p] = TextLength /\ obuf[p] = <<>>
    /\ child[p] \in {"exited", "reaped"} /\ ~killed => pc[p] > Len(plan[p])
    /\ stage[p] \in {"out", "err", "gone"} => child[p] = "reaped" /\ pc[p] > Len(plan[p])
    /\ stage[p] \in {"err", "gone"} => pipe[p]["out"] = <<>>
    /\ stage[p] = "gone" => pipe[p]["err"] = <<>>

\* What was printed is, in order, with the child, in the pipe or in the buffer.
InputCarried(p) == (got[p] \o pipe[p]["in"]) \o obuf[p] = Printed(put[p])

\* A child that saw the end of its input has all of it.
EndIsEnd(p) == AtEnd(p) /\ ~killed => got[p] = Printed(TextLength)

\* w names the calls of a program, before the one at n, that write to s.
WritesOf(program, s, n) == {k \in 1 .. n - 1 : k <= Len(program) /\ program[k] = s}

IsTrace(w, program, s, n) ==
    /\ w \in Seq(Nat)
    /\ Len(w) = Cardinality(WritesOf(program, s, n))
    /\ \A i \in 1 .. Len(w) : w[i] \in WritesOf(program, s, n)
    /\ \A i, j \in 1 .. Len(w) : i < j => w[i] < w[j]

\* What a child wrote is, in order, with the program or in the pipe.
OutputCarried(p, s) == IsTrace(text[p][s] \o pipe[p][s], plan[p], s, pc[p])

ProcessInv(p) ==
    /\ StageTells(p) /\ InputCarried(p) /\ EndIsEnd(p)
    /\ \A s \in Outputs : OutputCarried(p, s)

IInv ==
    /\ Typing
    /\ CallFits
    /\ killed => call = NoCall
    /\ \A p \in Procs : ProcessInv(p)

\* write() is never called with more than it writes at once.
WritesAreAtomic == \A p \in Procs : Len(obuf[p]) <= BufferSize
--------------------------------------------------------------------------------
(* Sequences that are moved from one end of a pipe to the other.             *)

LEMMA PrintedProperties ==
    ASSUME NEW n \in Nat
    PROVE  /\ Printed(n) \in Seq(Nat) /\ Len(Printed(n)) = n
           /\ Append(Printed(n), n + 1) = Printed(n + 1)
           /\ Printed(0) = <<>>
<1>1. \A m \in Nat : Printed(m) \in Seq(Nat) /\ Len(Printed(m)) = m
  BY DEF Printed
<1>2. Append(Printed(n), n + 1) = Printed(n + 1)
  <2> DEFINE s == Append(Printed(n), n + 1)
             t == Printed(n + 1)
  <2>1. /\ s \in Seq(Nat) /\ t \in Seq(Nat) /\ Len(s) = n + 1 /\ Len(t) = n + 1
        /\ \A i \in 1 .. n : s[i] = Printed(n)[i]
        /\ s[n + 1] = n + 1
    <3>1. /\ Printed(n) \in Seq(Nat) /\ Len(Printed(n)) = n /\ n + 1 \in Nat
          /\ t \in Seq(Nat) /\ Len(t) = n + 1
      BY <1>1
    <3> HIDE DEF t
    <3> QED BY <3>1, AppendProperties
  <2>2. \A i \in 1 .. n + 1 : s[i] = t[i]
    <3>1. \A i \in 1 .. n : s[i] = i /\ t[i] = i
      BY <2>1 DEF Printed
    <3>2. t[n + 1] = n + 1
      BY DEF Printed
    <3> QED BY <2>1, <3>1, <3>2
  <2> HIDE DEF s, t
  <2>3. s = t
    BY <2>1, <2>2, SeqEqual
  <2> QED BY <2>3 DEF s, t
<1>3. Printed(0) = <<>>
  BY <1>1, EmptySeq
<1> QED BY <1>1, <1>2, <1>3

LEMMA AppendInConcat ==
    ASSUME NEW S, NEW s \in Seq(S), NEW t \in Seq(S), NEW e \in S
    PROVE  s \o Append(t, e) = Append(s \o t, e)
<1>1. <<e>> \in Seq(S) /\ s \o t \in Seq(S)
  BY ConcatProperties
<1>2. s \o Append(t, e) = s \o (t \o <<e>>) /\ Append(s \o t, e) = (s \o t) \o <<e>>
  BY <1>1, AppendIsConcat
<1> QED BY <1>1, <1>2, ConcatAssociative

LEMMA Regrouped ==
    ASSUME NEW S, NEW s \in Seq(S), NEW t \in Seq(S), NEW a \in Seq(S), NEW b \in Seq(S), a \o b = t
    PROVE  (s \o a) \o b = s \o t
<1>1. (s \o a) \o b = s \o (a \o b)
  BY ONLY s \in Seq(S), a \in Seq(S), b \in Seq(S), ConcatAssociative
<1> QED BY <1>1

\* Reading one element moves it from the front of t to the end of s.
LEMMA MoveHead ==
    ASSUME NEW S, NEW s \in Seq(S), NEW t \in Seq(S), t # <<>>
    PROVE  /\ Append(s, Head(t)) \o Tail(t) = s \o t
           /\ Append(s, Head(t)) \in Seq(S) /\ Tail(t) \in Seq(S)
<1>1. /\ Len(t) \in Nat \ {0} /\ Head(t) \in S /\ Tail(t) \in Seq(S) /\ Head(t) = t[1]
  BY EmptySeq, HeadTailProperties
<1>2. t = <<Head(t)>> \o Tail(t)
  <2>1. 1 \in 1 .. Len(t) /\ Len(t) \in 1 .. Len(t)
    BY <1>1
  <2>2. SubSeq(t, 1, Len(t)) = <<t[1]>> \o SubSeq(t, 1 + 1, Len(t))
    BY <2>1, SubSeqRecursiveFirst
  <2> QED BY <1>1, <2>2, SubSeqFull, TailIsSubSeq
<1>3. <<Head(t)>> \in Seq(S) /\ Append(s, Head(t)) = s \o <<Head(t)>>
  BY <1>1, AppendIsConcat
<1>4. Append(s, Head(t)) \in Seq(S)
  BY <1>1, AppendProperties
<1>5. (s \o <<Head(t)>>) \o Tail(t) = s \o (<<Head(t)>> \o Tail(t))
  BY <1>1, <1>3, ConcatAssociative
<1> QED BY <1>1, <1>2, <1>3, <1>4, <1>5

\* Reading n elements moves them from the front of t to the end of s.
LEMMA MoveBlock ==
    ASSUME NEW S, NEW s \in Seq(S), NEW t \in Seq(S), NEW n \in 0 .. Len(t)
    PROVE  /\ (s \o SubSeq(t, 1, n)) \o SubSeq(t, n + 1, Len(t)) = s \o t
           /\ s \o SubSeq(t, 1, n) \in Seq(S) /\ SubSeq(t, n + 1, Len(t)) \in Seq(S)
<1>0. Len(t) \in Nat /\ n \in Nat /\ n + 1 \in Nat /\ \A i \in 1 .. Len(t) : t[i] \in S
  BY LenProperties, ElementOfSeq
<1>1. SubSeq(t, 1, n) \in Seq(S)
  <2>1. \A i \in 1 .. n : t[i] \in S
    BY <1>0
  <2> QED BY <1>0, <2>1, SubSeqProperties
<1>2. SubSeq(t, n + 1, Len(t)) \in Seq(S)
  <2>1. \A i \in n + 1 .. Len(t) : t[i] \in S
    BY <1>0
  <2> QED BY <1>0, <2>1, SubSeqProperties
<1>3. SubSeq(t, 1, n) \o SubSeq(t, n + 1, Len(t)) = t
  <2>1. 1 \in 1 .. Len(t) + 1 /\ n \in 1 - 1 .. Len(t) /\ Len(t) \in n .. Len(t)
    BY <1>0
  <2>2. SubSeq(t, 1, n) \o SubSeq(t, n + 1, Len(t)) = SubSeq(t, 1, Len(t))
    BY <2>1, ConcatAdjacentSubSeq
  <2> QED BY <2>2, SubSeqFull
<1>4. (s \o SubSeq(t, 1, n)) \o SubSeq(t, n + 1, Len(t)) = s \o t
  BY <1>1, <1>2, <1>3, Regrouped
<1>5. s \o SubSeq(t, 1, n) \in Seq(S)
  BY <1>1, ConcatProperties
<1> QED BY <1>2, <1>4, <1>5

\* A call that writes is recorded, one that does not leaves the record alone.
LEMMA TraceGrows ==
    ASSUME NEW program, Len(program) \in Nat, NEW n \in Nat \ {0}, n <= Len(program),
           NEW s, NEW w, IsTrace(w, program, s, n)
    PROVE  /\ program[n] = s => IsTrace(Append(w, n), program, s, n + 1)
           /\ program[n] # s => IsTrace(w, program, s, n + 1)
<1>1. /\ w \in Seq(Nat) /\ Len(w) \in Nat /\ Len(w) = Cardinality(WritesOf(program, s, n))
      /\ \A i \in 1 .. Len(w) : w[i] \in WritesOf(program, s, n)
      /\ \A i, j \in 1 .. Len(w) : i < j => w[i] < w[j]
  BY LenProperties DEF IsTrace
<1>2. ASSUME program[n] = s
      PROVE  IsTrace(Append(w, n), program, s, n + 1)
  <2> DEFINE more == Append(w, n)
  <2>1. WritesOf(program, s, n + 1) = WritesOf(program, s, n) \cup {n}
    BY <1>2 DEF WritesOf
  <2>2. n \notin WritesOf(program, s, n) /\ IsFiniteSet(WritesOf(program, s, n))
    <3>1. IsFiniteSet(1 .. n - 1)
      BY FS_Interval
    <3>2. WritesOf(program, s, n) \in SUBSET (1 .. n - 1) /\ n \notin 1 .. n - 1
      BY DEF WritesOf
    <3> QED BY <3>1, <3>2, FS_Subset
  <2>3. Cardinality(WritesOf(program, s, n + 1)) = Len(w) + 1
    BY <1>1, <2>1, <2>2, FS_AddElement
  <2>4. /\ more \in Seq(Nat) /\ Len(more) = Len(w) + 1 /\ more[Len(w) + 1] = n
        /\ \A i \in 1 .. Len(w) : more[i] = w[i]
    BY <1>1, AppendProperties
  <2> HIDE DEF more
  <2>5. \A i \in 1 .. Len(w) : more[i] \in WritesOf(program, s, n) /\ more[i] < n
    <3>1. \A k \in WritesOf(program, s, n) : k < n
      BY DEF WritesOf
    <3> QED BY <1>1, <2>4, <3>1
  <2>6. \A i \in 1 .. Len(more) : more[i] \in WritesOf(program, s, n + 1)
    BY <1>1, <2>1, <2>4, <2>5
  <2>7. ASSUME NEW i \in 1 .. Len(more), NEW j \in 1 .. Len(more), i < j
        PROVE  more[i] < more[j]
    <3>1. i \in 1 .. Len(w) /\ (j \in 1 .. Len(w) \/ j = Len(w) + 1)
      BY <1>1, <2>4, <2>7
    <3> QED BY <1>1, <2>4, <2>5, <2>7, <3>1
  <2> QED BY <2>3, <2>4, <2>6, <2>7 DEF IsTrace, more
<1>3. ASSUME program[n] # s
      PROVE  IsTrace(w, program, s, n + 1)
  <2>1. WritesOf(program, s, n + 1) = WritesOf(program, s, n)
    BY <1>3 DEF WritesOf
  <2> QED BY <2>1 DEF IsTrace
<1> QED BY <1>2, <1>3
--------------------------------------------------------------------------------
(* One Process at a time.                                                    *)

\* The types of one Process.
LEMMA Types ==
    ASSUME Typing, NEW p \in Procs
    PROVE  /\ put[p] \in Nat /\ put[p] <= TextLength /\ TextLength \in Nat
           /\ obuf[p] \in Seq(Nat) /\ got[p] \in Seq(Nat)
           /\ \A s \in Streams : pipe[p][s] \in Seq(Nat)
           /\ \A s \in Outputs : text[p][s] \in Seq(Nat)
           /\ pc[p] \in Nat /\ pc[p] # 0 /\ plan[p] \in Programs /\ Len(plan[p]) \in Nat
           /\ stage[p] \in Stages /\ child[p] \in States
<1>1. plan[p] \in Seq({"rest", "out", "err"})
  BY PipesAssumption DEF Typing
<1> QED BY <1>1, PipesAssumption, LenProperties DEF Typing

\* What a step on another Process leaves of this one.
Kept(q) ==
    /\ UNCHANGED <<stage[q], put[q], obuf[q], text[q], pipe[q], child[q], plan[q], pc[q], got[q]>>
    /\ killed => killed'
    /\ Parent \in writers[q] /\ ~killed' => Parent \in writers'[q]

LEMMA KeptPreserves ==
    ASSUME NEW q \in Procs, Typing, ProcessInv(q), Kept(q)
    PROVE  ProcessInv(q)'
<1>1. StageTells(q)'
  BY DEF ProcessInv, StageTells, Kept
<1>2. InputCarried(q)' /\ EndIsEnd(q)'
  BY DEF ProcessInv, InputCarried, EndIsEnd, AtEnd, Kept
<1>3. \A s \in Outputs : OutputCarried(q, s)'
  BY DEF ProcessInv, OutputCarried, Kept
<1> QED BY <1>1, <1>2, <1>3 DEF ProcessInv

\* A step of Process p that leaves the others alone.
LEMMA StepPreserves ==
    ASSUME IInv, NEW p \in Procs, Typing', CallFits', (killed => call = NoCall)',
           ProcessInv(p)', \A q \in Procs \ {p} : Kept(q)
    PROVE  IInv'
<1>1. ASSUME NEW q \in Procs
      PROVE  ProcessInv(q)'
  BY KeptPreserves DEF IInv
<1> QED BY <1>1 DEF IInv

\* The call the parent is inside while a child moves.
LEMMA CallKept ==
    ASSUME CallFits, UNCHANGED <<call, stage, put>>
    PROVE  CallFits'
BY DEF CallFits, Wait, Write, NoCall
--------------------------------------------------------------------------------
(* The parent.                                                               *)

LEMMA InitEstablishes == Init => IInv
<1> SUFFICES ASSUME Init
             PROVE  IInv
  OBVIOUS
<1>1. /\ <<>> \in Seq(Nat) /\ <<>> \o <<>> = <<>> /\ Len(<<>>) = 0
  BY EmptySeq, ConcatEmptySeq
<1>2. Typing
  <2>1. /\ text \in [Procs -> [Outputs -> Seq(Nat)]] /\ pipe \in [Procs -> [Streams -> Seq(Nat)]]
        /\ obuf \in [Procs -> Seq(Nat)] /\ got \in [Procs -> Seq(Nat)]
    BY <1>1 DEF Init
  <2>2. /\ stage \in [Procs -> Stages] /\ child \in [Procs -> States]
        /\ put \in [Procs -> 0 .. TextLength] /\ pc \in [Procs -> Nat \ {0}]
        /\ writers \in [Procs -> SUBSET (Procs \cup {Parent})]
    BY PipesAssumption DEF Init, Stages, States
  <2>3. killed \in BOOLEAN
    BY DEF Init
  <2> QED BY <2>1, <2>2, <2>3 DEF Init, Typing
<1>3. ASSUME NEW p \in Procs
      PROVE  ProcessInv(p)
  <2>1. /\ stage[p] = "none" /\ child[p] = "none" /\ put[p] = 0 /\ obuf[p] = <<>>
        /\ pc[p] = 1 /\ got[p] = <<>>
        /\ \A s \in Streams : pipe[p][s] = <<>>
        /\ \A s \in Outputs : text[p][s] = <<>>
    BY DEF Init
  <2>2. StageTells(p)
    BY <2>1 DEF StageTells
  <2>3. InputCarried(p) /\ EndIsEnd(p)
    <3>1. (got[p] \o pipe[p]["in"]) \o obuf[p] = <<>>
      BY <1>1, <2>1 DEF Streams
    <3>2. 0 \in Nat /\ ~AtEnd(p)
      BY <2>1 DEF AtEnd
    <3> QED BY <2>1, <3>1, <3>2, PrintedProperties DEF InputCarried, EndIsEnd
  <2>4. ASSUME NEW s \in Outputs
        PROVE  OutputCarried(p, s)
    <3>1. WritesOf(plan[p], s, 1) = {}
      BY DEF WritesOf
    <3>2. text[p][s] \o pipe[p][s] = <<>>
      BY <1>1, <2>1 DEF Outputs, Streams
    <3>3. IsTrace(<<>>, plan[p], s, 1)
      BY <1>1, <3>1, FS_EmptySet DEF IsTrace
    <3> QED BY <2>1, <3>2, <3>3 DEF OutputCarried
  <2> QED BY <2>2, <2>3, <2>4 DEF ProcessInv
<1> QED BY <1>2, <1>3 DEF IInv, Init, CallFits

LEMMA StartPreserves ==
    ASSUME IInv, NEW p \in Procs, Start(p)
    PROVE  IInv'
<1>1. /\ stage[p] = "none" /\ call = NoCall /\ ~killed
      /\ stage' = [stage EXCEPT ![p] = "print"] /\ child' = [child EXCEPT ![p] = "running"]
      /\ writers' = Inherited(p)
      /\ UNCHANGED <<put, obuf, text, call, killed, pipe, plan, pc, got>>
  BY DEF Start, At
<1>2. Typing /\ ProcessInv(p)
  BY DEF IInv
<1>3. /\ writers' \in [Procs -> SUBSET (Procs \cup {Parent})] /\ Parent \in writers'[p]
      /\ \A q \in Procs \ {p} : Parent \in writers[q] => Parent \in writers'[q]
  BY <1>1, <1>2 DEF Inherited, Typing
<1>4. Typing'
  BY <1>1, <1>2, <1>3 DEF Typing, Stages, States
<1>5. \A q \in Procs \ {p} : Kept(q)
  BY <1>1, <1>2, <1>3 DEF Kept, Typing
<1>6. stage'[p] = "print" /\ child'[p] = "running"
  BY <1>1, <1>2 DEF Typing
<1>7. StageTells(p)'
  BY <1>1, <1>3, <1>6 DEF StageTells
<1>8. InputCarried(p)' /\ EndIsEnd(p)' /\ \A s \in Outputs : OutputCarried(p, s)'
  BY <1>1, <1>2 DEF ProcessInv, InputCarried, EndIsEnd, AtEnd, OutputCarried
<1>9. CallFits' /\ (killed => call = NoCall)'
  BY <1>1 DEF CallFits, NoCall
<1> QED BY <1>4, <1>5, <1>7, <1>8, <1>9, StepPreserves DEF ProcessInv

\* A character is stored, or the full buffer has to be written first.
LEMMA PutPreserves ==
    ASSUME IInv, NEW p \in Procs, Put(p)
    PROVE  IInv'
<1>1. /\ stage[p] = "print" /\ call = NoCall /\ ~killed /\ put[p] < TextLength
      /\ UNCHANGED <<stage, text, killed, pipe, writers, child, plan, pc, got>>
  BY DEF Put, At, childVars
<1>2. Typing /\ ProcessInv(p) /\ put[p] \in Nat /\ obuf[p] \in Seq(Nat)
  BY Types DEF IInv
<1>3. CASE Len(obuf[p]) < BufferSize
  <2>1. /\ obuf' = [obuf EXCEPT ![p] = Append(obuf[p], put[p] + 1)]
        /\ put' = [put EXCEPT ![p] = put[p] + 1] /\ call' = call
    BY <1>3 DEF Put
  <2>2. /\ obuf'[p] = Append(obuf[p], put[p] + 1) /\ put'[p] = put[p] + 1
        /\ \A q \in Procs \ {p} : Kept(q)
    BY <1>1, <1>2, <2>1 DEF Kept, Typing
  <2>3. Append(obuf[p], put[p] + 1) \in Seq(Nat) /\ put[p] + 1 \in 0 .. TextLength
    BY <1>1, <1>2, AppendProperties, PipesAssumption
  <2>4. Typing'
    BY <1>1, <1>2, <2>1, <2>3 DEF Typing
  <2>5. StageTells(p)'
    BY <1>1, <1>2, <2>2 DEF ProcessInv, StageTells
  <2>6. InputCarried(p)'
    <3> DEFINE read == got[p] \o pipe[p]["in"]
    <3>1. got[p] \in Seq(Nat) /\ pipe[p]["in"] \in Seq(Nat) /\ put[p] + 1 \in Nat
      BY <1>2, Types DEF Streams
    <3>2. read \in Seq(Nat)
      BY <3>1, ConcatProperties
    <3> HIDE DEF read
    <3>3. read \o Append(obuf[p], put[p] + 1) = Append(Printed(put[p]), put[p] + 1)
      <4>1. read \o Append(obuf[p], put[p] + 1) = Append(read \o obuf[p], put[p] + 1)
        <5>1. obuf[p] \in Seq(Nat)
          BY <1>2
        <5>2. put[p] + 1 \in Nat
          BY <3>1
        <5> QED BY ONLY <3>2, <5>1, <5>2, AppendInConcat
      <4>2. read \o obuf[p] = Printed(put[p])
        BY <1>2 DEF ProcessInv, InputCarried, read
      <4> QED BY <4>1, <4>2
    <3>4. read' = read
      BY <1>1 DEF read
    <3>5. read' \o obuf'[p] = Printed(put'[p])
      BY <1>2, <2>2, <3>3, <3>4, PrintedProperties
    <3> QED BY <3>5 DEF InputCarried, read
  <2>7. EndIsEnd(p)' /\ \A s \in Outputs : OutputCarried(p, s)'
    BY <1>1, <1>2 DEF ProcessInv, EndIsEnd, AtEnd, OutputCarried
  <2>8. CallFits' /\ (killed => call = NoCall)'
    BY <1>1, <2>1 DEF CallFits, NoCall
  <2> QED BY <2>2, <2>4, <2>5, <2>6, <2>7, <2>8, StepPreserves DEF ProcessInv
<1>4. CASE ~(Len(obuf[p]) < BufferSize)
  <2>1. call' = Write(p, <<put[p] + 1>>) /\ obuf' = obuf /\ put' = put
    BY <1>4 DEF Put
  <2>2. Typing' /\ ProcessInv(p)' /\ \A q \in Procs \ {p} : Kept(q)
    <3>1. Kept(p) /\ \A q \in Procs \ {p} : Kept(q)
      BY <1>1, <2>1 DEF Kept
    <3> QED BY <1>1, <1>2, <2>1, <3>1, KeptPreserves DEF Typing
  <2>3. CallFits'
    <3>1. <<put[p] + 1>> \in Seq(Nat)
      BY <1>2
    <3> QED BY <1>1, <2>1, <3>1 DEF CallFits, Write
  <2> QED BY <1>1, <2>2, <2>3, StepPreserves
<1> QED BY <1>3, <1>4

LEMMA FlushPreserves ==
    ASSUME IInv, NEW p \in Procs, Flush(p)
    PROVE  IInv'
<1>1. /\ stage[p] = "print" /\ ~killed /\ call' = Write(p, <<>>)
      /\ UNCHANGED <<stage, put, obuf, text, killed, pipe, writers, child, plan, pc, got>>
  BY DEF Flush, At, childVars
<1>2. \A q \in Procs : Kept(q)
  BY <1>1 DEF Kept
<1>3. Typing' /\ ProcessInv(p)'
  BY <1>1, <1>2, KeptPreserves DEF IInv, Typing
<1>4. CallFits'
  <2>1. <<>> \in Seq(Nat)
    BY EmptySeq
  <2> QED BY <1>1, <2>1 DEF CallFits, Write
<1> QED BY <1>1, <1>2, <1>3, <1>4, StepPreserves

\* What a call of write() says of the Process it is made for.
LEMMA WriteCall ==
    ASSUME IInv, call.op = "write"
    PROVE  /\ call.p \in Procs /\ stage[call.p] = "print" /\ call.more \in Seq(Nat) /\ ~killed
           /\ call.more = <<>> \/ (put[call.p] < TextLength /\ call.more = <<put[call.p] + 1>>)
<1>1. call # NoCall
  BY DEF NoCall
<1>2. PICK p \in Procs, more \in Seq(Nat) :
          /\ call = Write(p, more) /\ stage[p] = "print"
          /\ more = <<>> \/ (put[p] < TextLength /\ more = <<put[p] + 1>>)
  BY <1>1 DEF IInv, CallFits, Wait
<1> QED BY <1>1, <1>2 DEF Write, IInv

\* The whole buffer goes into the pipe, and the character after it into the
\* buffer.
LEMMA WrittenPreserves ==
    ASSUME IInv, Written, NEW p, NEW more, p = call.p, more = call.more
    PROVE  IInv'
<1>1. /\ p \in Procs /\ stage[p] = "print" /\ more \in Seq(Nat) /\ ~killed
      /\ more = <<>> \/ (put[p] < TextLength /\ more = <<put[p] + 1>>)
      /\ child[p] = "running"
  BY WriteCall DEF Written
<1>2. /\ pipe' = [pipe EXCEPT ![p]["in"] = pipe[p]["in"] \o obuf[p]]
      /\ obuf' = [obuf EXCEPT ![p] = more] /\ put' = [put EXCEPT ![p] = put[p] + Len(more)]
      /\ call' = NoCall /\ UNCHANGED <<stage, text, killed, writers, child, plan, pc, got>>
  BY DEF Written, childVars
<1>3. /\ Typing /\ ProcessInv(p) /\ put[p] \in Nat /\ put[p] <= TextLength /\ TextLength \in Nat
      /\ obuf[p] \in Seq(Nat) /\ got[p] \in Seq(Nat) /\ pipe[p]["in"] \in Seq(Nat)
  BY <1>1, Types DEF IInv, Streams
<1>4. pipe[p]["in"] \o obuf[p] \in Seq(Nat)
  BY <1>3, ConcatProperties
<1>5. /\ pipe'[p]["in"] = pipe[p]["in"] \o obuf[p] /\ obuf'[p] = more
      /\ put'[p] = put[p] + Len(more)
      /\ \A s \in Outputs : pipe'[p][s] = pipe[p][s]
      /\ \A q \in Procs \ {p} : Kept(q)
  BY <1>1, <1>2, <1>3 DEF Kept, Typing, Streams, Outputs
<1>6. Printed(put[p]) \o more = Printed(put[p] + Len(more)) /\ put[p] + Len(more) \in 0 .. TextLength
  <2>1. CASE more = <<>>
    <3>1. Printed(put[p]) \in Seq(Nat)
      BY <1>3, PrintedProperties
    <3>2. Printed(put[p]) \o <<>> = Printed(put[p])
      BY <3>1, ConcatEmptySeq
    <3>3. Len(more) = 0
      BY <2>1, EmptySeq
    <3>4. put[p] + Len(more) = put[p]
      BY <1>3, <3>3
    <3> QED BY <1>3, <2>1, <3>2, <3>4
  <2>2. CASE put[p] < TextLength /\ more = <<put[p] + 1>>
    <3>1. Len(more) = 1 /\ put[p] + 1 \in Nat /\ put[p] + 1 \in 0 .. TextLength
      BY <1>3, <2>2
    <3>2. /\ Printed(put[p]) \in Seq(Nat)
          /\ Append(Printed(put[p]), put[p] + 1) = Printed(put[p] + 1)
      BY <1>3, PrintedProperties
    <3>3. Append(Printed(put[p]), put[p] + 1) = Printed(put[p]) \o <<put[p] + 1>>
      BY ONLY <3>1, <3>2, AppendIsConcat
    <3> QED BY <1>3, <2>2, <3>1, <3>2, <3>3
  <2> QED BY <1>1, <2>1, <2>2
<1>7. Typing'
  <2>1. /\ pipe' \in [Procs -> [Streams -> Seq(Nat)]] /\ obuf' \in [Procs -> Seq(Nat)]
        /\ put' \in [Procs -> 0 .. TextLength]
    BY <1>1, <1>2, <1>3, <1>4, <1>6 DEF Typing
  <2> QED BY <1>2, <1>3, <2>1 DEF Typing
<1>8. StageTells(p)'
  BY <1>1, <1>2, <1>3, <1>5 DEF ProcessInv, StageTells, Outputs
<1>9. InputCarried(p)'
  <2>1. (got[p] \o pipe[p]["in"]) \o obuf[p] = got[p] \o (pipe[p]["in"] \o obuf[p])
    <3> DEFINE a == got[p]
               b == pipe[p]["in"]
               c == obuf[p]
    <3>1. a \in Seq(Nat) /\ b \in Seq(Nat) /\ c \in Seq(Nat)
      BY <1>3
    <3> HIDE DEF a, b, c
    <3>2. (a \o b) \o c = a \o (b \o c)
      BY ONLY <3>1
    <3> QED BY <3>2 DEF a, b, c
  <2>2. (got[p] \o (pipe[p]["in"] \o obuf[p])) \o more = Printed(put[p]) \o more
    BY <1>3, <2>1 DEF ProcessInv, InputCarried
  <2>3. got'[p] = got[p]
    BY <1>2
  <2> QED BY <1>5, <1>6, <2>2, <2>3 DEF InputCarried
<1>10. EndIsEnd(p)' /\ \A s \in Outputs : OutputCarried(p, s)'
  BY <1>2, <1>3, <1>5 DEF ProcessInv, EndIsEnd, AtEnd, OutputCarried
<1>11. CallFits' /\ (killed => call = NoCall)'
  BY <1>2 DEF CallFits, NoCall
<1> QED BY <1>1, <1>5, <1>7, <1>8, <1>9, <1>10, <1>11, StepPreserves DEF ProcessInv

\* The parent is gone: what was printed stays where it is.
LEMMA BrokenPipePreserves ==
    ASSUME IInv, BrokenPipe
    PROVE  IInv'
<1>1. /\ killed' = TRUE /\ call' = NoCall
      /\ writers' = [q \in Procs |-> writers[q] \ {Parent}]
      /\ UNCHANGED <<stage, put, obuf, text, pipe, child, plan, pc, got>>
  BY DEF BrokenPipe, childVars
<1>2. \A q \in Procs : Kept(q)
  BY <1>1 DEF Kept
<1>3. Typing'
  <2>1. Typing
    BY DEF IInv
  <2>2. writers' \in [Procs -> SUBSET (Procs \cup {Parent})] /\ killed' \in BOOLEAN
    BY <1>1, <2>1 DEF Typing
  <2> QED BY <1>1, <2>1, <2>2 DEF Typing
<1>4. CallFits' /\ (killed => call = NoCall)'
  BY <1>1 DEF CallFits, NoCall
<1>5. call.p \in Procs
  BY WriteCall DEF BrokenPipe
<1> QED BY <1>2, <1>3, <1>4, <1>5, KeptPreserves, StepPreserves DEF IInv

LEMMA ClosePreserves ==
    ASSUME IInv, NEW p \in Procs, Close(p)
    PROVE  IInv'
<1>1. /\ stage[p] = "print" /\ call = NoCall /\ ~killed /\ put[p] = TextLength /\ obuf[p] = <<>>
      /\ writers' = [writers EXCEPT ![p] = writers[p] \ {Parent}]
      /\ stage' = [stage EXCEPT ![p] = "wait"]
      /\ UNCHANGED <<put, obuf, text, call, killed, pipe, child, plan, pc, got>>
  BY DEF Close, At, childVars
<1>2. Typing /\ ProcessInv(p)
  BY DEF IInv
<1>3. stage'[p] = "wait" /\ \A q \in Procs \ {p} : Kept(q)
  BY <1>1, <1>2 DEF Typing, Kept
<1>4. Typing'
  <2>1. writers' \in [Procs -> SUBSET (Procs \cup {Parent})] /\ stage' \in [Procs -> Stages]
    BY <1>1, <1>2 DEF Typing, Stages
  <2> QED BY <1>1, <1>2, <2>1 DEF Typing
<1>5. StageTells(p)'
  BY <1>1, <1>2, <1>3 DEF ProcessInv, StageTells
<1>6. InputCarried(p)' /\ EndIsEnd(p)' /\ \A s \in Outputs : OutputCarried(p, s)'
  BY <1>1, <1>2 DEF ProcessInv, InputCarried, EndIsEnd, AtEnd, OutputCarried
<1>7. CallFits' /\ (killed => call = NoCall)'
  BY <1>1 DEF CallFits, NoCall
<1> QED BY <1>3, <1>4, <1>5, <1>6, <1>7, StepPreserves DEF ProcessInv

LEMMA CallWaitPreserves ==
    ASSUME IInv, NEW p \in Procs, CallWait(p)
    PROVE  IInv'
<1>1. /\ stage[p] = "wait" /\ ~killed /\ call' = Wait(p)
      /\ UNCHANGED <<stage, put, obuf, text, killed, pipe, writers, child, plan, pc, got>>
  BY DEF CallWait, At, childVars
<1>2. \A q \in Procs : Kept(q)
  BY <1>1 DEF Kept
<1>3. Typing' /\ ProcessInv(p)'
  BY <1>1, <1>2, KeptPreserves DEF IInv, Typing
<1>4. CallFits' /\ ~killed'
  BY <1>1 DEF CallFits, Wait
<1> QED BY <1>2, <1>3, <1>4, StepPreserves

\* The child is done, so its output is complete when the parent starts to read.
LEMMA WaitedPreserves ==
    ASSUME IInv, Waited, NEW p, p = call.p
    PROVE  IInv'
<1>1. p \in Procs /\ stage[p] = "wait" /\ ~killed /\ child[p] = "exited"
  <2>1. call # NoCall /\ \A q, more : call # Write(q, more)
    BY DEF Waited, NoCall, Write
  <2>2. PICK q \in Procs : call = Wait(q) /\ stage[q] = "wait"
    BY <2>1 DEF IInv, CallFits
  <2> QED BY <2>1, <2>2 DEF Wait, Waited, IInv
<1>2. /\ child' = [child EXCEPT ![p] = "reaped"] /\ stage' = [stage EXCEPT ![p] = "out"]
      /\ call' = NoCall /\ UNCHANGED <<put, obuf, text, killed, pipe, writers, plan, pc, got>>
  BY DEF Waited
<1>3. Typing /\ ProcessInv(p)
  BY <1>1 DEF IInv
<1>4. stage'[p] = "out" /\ child'[p] = "reaped" /\ \A q \in Procs \ {p} : Kept(q)
  BY <1>1, <1>2, <1>3 DEF Typing, Kept
<1>5. Typing'
  BY <1>2, <1>3 DEF Typing, Stages, States
<1>6. StageTells(p)'
  BY <1>1, <1>2, <1>3, <1>4 DEF ProcessInv, StageTells
<1>7. InputCarried(p)' /\ EndIsEnd(p)' /\ \A s \in Outputs : OutputCarried(p, s)'
  BY <1>2, <1>3 DEF ProcessInv, InputCarried, EndIsEnd, AtEnd, OutputCarried
<1>8. CallFits' /\ (killed => call = NoCall)'
  BY <1>2 DEF CallFits, NoCall
<1> QED BY <1>1, <1>4, <1>5, <1>6, <1>7, <1>8, StepPreserves DEF ProcessInv

\* getString() moves what is in the pipe behind what it has, and goes on when
\* the child is gone and the pipe is empty.
LEMMA ReadPreserves ==
    ASSUME IInv, NEW p \in Procs, NEW s \in Outputs, Read(p, s)
    PROVE  IInv'
<1>1. /\ stage[p] = s /\ call = NoCall /\ ~killed
      /\ UNCHANGED <<put, obuf, call, killed, writers, child, plan, pc, got>>
  BY DEF Read, At, childVars
<1>2. /\ Typing /\ ProcessInv(p) /\ text[p][s] \in Seq(Nat) /\ pipe[p][s] \in Seq(Nat)
      /\ s \in Streams /\ s # "in"
  BY Types DEF IInv, Outputs, Streams
<1>3. CallFits' /\ (killed => call = NoCall)'
  BY <1>1 DEF CallFits, NoCall
<1>4. CASE pipe[p][s] # <<>>
  <2> DEFINE n == IF Len(pipe[p][s]) < BufferSize THEN Len(pipe[p][s]) ELSE BufferSize
             block == SubSeq(pipe[p][s], 1, n)
             rest == SubSeq(pipe[p][s], n + 1, Len(pipe[p][s]))
  <2>1. /\ text' = [text EXCEPT ![p][s] = text[p][s] \o block]
        /\ pipe' = [pipe EXCEPT ![p][s] = rest] /\ stage' = stage
    BY <1>4 DEF Read
  <2>2. n \in 0 .. Len(pipe[p][s])
    <3>1. Len(pipe[p][s]) \in Nat /\ BufferSize \in Nat
      BY <1>2, LenProperties, PipesAssumption
    <3> QED BY <3>1
  <2> HIDE DEF n
  <2>3. /\ (text[p][s] \o block) \o rest = text[p][s] \o pipe[p][s]
        /\ text[p][s] \o block \in Seq(Nat) /\ rest \in Seq(Nat)
    BY <1>2, <2>2, MoveBlock
  <2> HIDE DEF block, rest
  <2>4. Typing'
    <3>1. /\ text' \in [Procs -> [Outputs -> Seq(Nat)]] /\ pipe' \in [Procs -> [Streams -> Seq(Nat)]]
      BY <1>2, <2>1, <2>3 DEF Typing
    <3> QED BY <1>1, <1>2, <2>1, <3>1 DEF Typing
  <2>5. /\ text'[p][s] = text[p][s] \o block /\ pipe'[p][s] = rest
        /\ \A r \in Streams \ {s} : pipe'[p][r] = pipe[p][r]
        /\ \A r \in Outputs \ {s} : text'[p][r] = text[p][r]
        /\ \A q \in Procs \ {p} : Kept(q)
    BY <1>1, <1>2, <2>1 DEF Typing, Kept
  <2>6. StageTells(p)'
    BY <1>1, <1>2, <2>1, <2>5 DEF ProcessInv, StageTells, Streams, Outputs
  <2>7. InputCarried(p)' /\ EndIsEnd(p)'
    BY <1>1, <1>2, <2>5 DEF ProcessInv, InputCarried, EndIsEnd, AtEnd, Streams
  <2>8. ASSUME NEW r \in Outputs
        PROVE  OutputCarried(p, r)'
    <3>1. text'[p][r] \o pipe'[p][r] = text[p][r] \o pipe[p][r]
      <4>1. CASE r = s
        BY <2>3, <2>5, <4>1
      <4>2. CASE r # s
        BY <2>5, <4>2 DEF Outputs, Streams
      <4> QED BY <4>1, <4>2
    <3> QED BY <1>1, <1>2, <3>1 DEF ProcessInv, OutputCarried
  <2> QED BY <1>3, <2>4, <2>5, <2>6, <2>7, <2>8, StepPreserves DEF ProcessInv
<1>5. CASE pipe[p][s] = <<>>
  <2>1. stage' = [stage EXCEPT ![p] = Following(s)] /\ text' = text /\ pipe' = pipe
    BY <1>5 DEF Read
  <2>2. stage'[p] = Following(s) /\ \A q \in Procs \ {p} : Kept(q)
    BY <1>1, <1>2, <2>1 DEF Typing, Kept
  <2>3. Typing'
    BY <1>1, <1>2, <2>1 DEF Typing, Following, Stages
  <2>4. StageTells(p)'
    BY <1>1, <1>2, <1>5, <2>1, <2>2 DEF ProcessInv, StageTells, Following, Outputs
  <2>5. InputCarried(p)' /\ EndIsEnd(p)' /\ \A r \in Outputs : OutputCarried(p, r)'
    BY <1>1, <1>2, <2>1 DEF ProcessInv, InputCarried, EndIsEnd, AtEnd, OutputCarried
  <2> QED BY <1>3, <2>2, <2>3, <2>4, <2>5, StepPreserves DEF ProcessInv
<1> QED BY <1>4, <1>5
--------------------------------------------------------------------------------
(* A child.                                                                  *)

\* What is printed is never more than the text, so nothing is left in the pipe
\* of a child that has all of it.
LEMMA NothingAfterAll ==
    ASSUME NEW p \in Procs, Typing, ProcessInv(p), got[p] = Printed(TextLength)
    PROVE  pipe[p]["in"] = <<>>
<1> DEFINE a == got[p]
           b == pipe[p]["in"]
           c == obuf[p]
<1>1. /\ a \in Seq(Nat) /\ b \in Seq(Nat) /\ c \in Seq(Nat) /\ (a \o b) \o c = Printed(put[p])
      /\ put[p] \in Nat /\ TextLength \in Nat /\ put[p] <= TextLength
  BY Types DEF Streams, ProcessInv, InputCarried
<1>2. Len(a) = TextLength /\ Len(Printed(put[p])) = put[p]
  BY <1>1, PrintedProperties
<1> HIDE DEF a, b, c
<1>3. Len((a \o b) \o c) = Len(a) + Len(b) + Len(c) /\ Len(b) \in Nat /\ Len(c) \in Nat
  BY ONLY <1>1, ConcatProperties, LenProperties
<1>4. Len(b) = 0
  BY <1>1, <1>2, <1>3
<1> QED BY <1>1, <1>4, EmptySeq DEF b

LEMMA ChildReadsPreserves ==
    ASSUME IInv, NEW p \in Procs, ChildReads(p)
    PROVE  IInv'
<1>1. /\ pipe[p]["in"] # <<>>
      /\ got' = [got EXCEPT ![p] = Append(got[p], Head(pipe[p]["in"]))]
      /\ pipe' = [pipe EXCEPT ![p]["in"] = Tail(pipe[p]["in"])]
      /\ UNCHANGED <<stage, put, obuf, text, call, killed, writers, child, plan, pc>>
  BY DEF ChildReads, parentVars
<1>2. /\ Typing /\ ProcessInv(p) /\ got[p] \in Seq(Nat) /\ pipe[p]["in"] \in Seq(Nat)
      /\ CallFits /\ (killed => call = NoCall)
  BY Types DEF IInv, Streams
<1>3. /\ Append(got[p], Head(pipe[p]["in"])) \o Tail(pipe[p]["in"]) = got[p] \o pipe[p]["in"]
      /\ Append(got[p], Head(pipe[p]["in"])) \in Seq(Nat) /\ Tail(pipe[p]["in"]) \in Seq(Nat)
  BY <1>1, <1>2, MoveHead
<1>4. Typing'
  <2>1. got' \in [Procs -> Seq(Nat)] /\ pipe' \in [Procs -> [Streams -> Seq(Nat)]]
    BY <1>1, <1>2, <1>3 DEF Typing
  <2> QED BY <1>1, <1>2, <2>1 DEF Typing
<1>5. /\ got'[p] = Append(got[p], Head(pipe[p]["in"])) /\ pipe'[p]["in"] = Tail(pipe[p]["in"])
      /\ \A s \in Outputs : pipe'[p][s] = pipe[p][s]
      /\ \A q \in Procs \ {p} : Kept(q)
  BY <1>1, <1>2 DEF Typing, Kept, Streams, Outputs
<1>6. StageTells(p)'
  BY <1>1, <1>2, <1>5 DEF ProcessInv, StageTells, Outputs
<1>7. InputCarried(p)'
  BY <1>1, <1>2, <1>3, <1>5 DEF ProcessInv, InputCarried
<1>8. EndIsEnd(p)'
  BY <1>1, <1>2, NothingAfterAll DEF ProcessInv, EndIsEnd, AtEnd
<1>9. \A s \in Outputs : OutputCarried(p, s)'
  BY <1>1, <1>2, <1>5 DEF ProcessInv, OutputCarried
<1>10. CallFits' /\ (killed => call = NoCall)'
  BY <1>1, <1>2, CallKept
<1> QED BY <1>4, <1>5, <1>6, <1>7, <1>8, <1>9, <1>10, StepPreserves DEF ProcessInv

\* A child that runs is not read from yet.
LEMMA RunningTells ==
    ASSUME IInv, NEW p \in Procs, child[p] = "running"
    PROVE  stage[p] \in {"print", "wait"}
BY Types DEF IInv, ProcessInv, StageTells, Stages

\* The child's next call, when it wrote nothing to s.
LEMMA SilentCall ==
    ASSUME IInv, NEW p \in Procs, NEW s \in Outputs, pc[p] <= Len(plan[p]), plan[p][pc[p]] # s
    PROVE  IsTrace(text[p][s] \o pipe[p][s], plan[p], s, pc[p] + 1)
<1>1. pc[p] \in Nat \ {0} /\ Len(plan[p]) \in Nat
  BY Types DEF IInv
<1>2. IsTrace(text[p][s] \o pipe[p][s], plan[p], s, pc[p])
  BY DEF IInv, ProcessInv, OutputCarried
<1> QED BY <1>1, <1>2, TraceGrows

\* The write end is closed by the parent, after all was printed, and by every
\* other child that had it: the end of the input is where the text ends.
LEMMA ChildAtEndPreserves ==
    ASSUME IInv, NEW p \in Procs, ChildAtEnd(p)
    PROVE  IInv'
<1>1. /\ child[p] = "running" /\ pc[p] <= Len(plan[p]) /\ plan[p][pc[p]] = "rest"
      /\ pipe[p]["in"] = <<>> /\ writers[p] = {} /\ pc' = [pc EXCEPT ![p] = pc[p] + 1]
      /\ UNCHANGED <<stage, put, obuf, text, call, killed, pipe, writers, child, plan, got>>
  BY DEF ChildAtEnd, Doing, parentVars
<1>2. /\ Typing /\ ProcessInv(p) /\ got[p] \in Seq(Nat) /\ pc[p] \in Nat /\ pc[p] # 0
      /\ CallFits /\ (killed => call = NoCall) /\ stage[p] \in {"print", "wait"}
  BY <1>1, Types, RunningTells DEF IInv
<1>3. Typing'
  BY <1>1, <1>2 DEF Typing
<1>4. pc'[p] = pc[p] + 1 /\ \A q \in Procs \ {p} : Kept(q)
  BY <1>1, <1>2 DEF Typing, Kept
<1>5. StageTells(p)'
  BY <1>1, <1>2, <1>4 DEF ProcessInv, StageTells
<1>6. EndIsEnd(p)'
  <2>1. ASSUME ~killed
        PROVE  got[p] = Printed(TextLength)
    <3>1. put[p] = TextLength /\ obuf[p] = <<>>
      BY <1>1, <1>2, <2>1 DEF ProcessInv, StageTells
    <3>2. (got[p] \o <<>>) \o <<>> = got[p]
      BY <1>2, ConcatEmptySeq
    <3> QED BY <1>1, <1>2, <3>1, <3>2 DEF ProcessInv, InputCarried
  <2> QED BY <1>1, <2>1 DEF EndIsEnd
<1>7. InputCarried(p)'
  BY <1>1, <1>2 DEF ProcessInv, InputCarried
<1>8. ASSUME NEW s \in Outputs
      PROVE  OutputCarried(p, s)'
  <2>1. s # "rest"
    BY DEF Outputs
  <2> QED BY <1>1, <1>4, <2>1, SilentCall DEF OutputCarried
<1>9. CallFits' /\ (killed => call = NoCall)'
  BY <1>1, <1>2, CallKept
<1> QED BY <1>3, <1>4, <1>5, <1>6, <1>7, <1>8, <1>9, StepPreserves DEF ProcessInv

LEMMA ChildWritesPreserves ==
    ASSUME IInv, NEW p \in Procs, NEW s \in Outputs, ChildWrites(p, s)
    PROVE  IInv'
<1>1. /\ child[p] = "running" /\ pc[p] <= Len(plan[p]) /\ plan[p][pc[p]] = s
      /\ pipe' = [pipe EXCEPT ![p][s] = Append(pipe[p][s], pc[p])]
      /\ pc' = [pc EXCEPT ![p] = pc[p] + 1]
      /\ UNCHANGED <<stage, put, obuf, text, call, killed, writers, child, plan, got>>
  BY DEF ChildWrites, Doing, parentVars
<1>2. /\ Typing /\ ProcessInv(p) /\ pc[p] \in Nat /\ pc[p] # 0 /\ Len(plan[p]) \in Nat
      /\ CallFits /\ (killed => call = NoCall) /\ stage[p] \in {"print", "wait"}
      /\ text[p][s] \in Seq(Nat) /\ pipe[p][s] \in Seq(Nat)
      /\ s \in Streams /\ s # "in" /\ s # "rest"
  BY <1>1, Types, RunningTells DEF IInv, Outputs, Streams
<1>3. Append(pipe[p][s], pc[p]) \in Seq(Nat)
  BY <1>2, AppendProperties
<1>4. Typing'
  <2>1. pipe' \in [Procs -> [Streams -> Seq(Nat)]] /\ pc' \in [Procs -> Nat \ {0}]
    BY <1>1, <1>2, <1>3 DEF Typing
  <2> QED BY <1>1, <1>2, <2>1 DEF Typing
<1>5. /\ pipe'[p][s] = Append(pipe[p][s], pc[p]) /\ pc'[p] = pc[p] + 1
      /\ \A r \in Streams \ {s} : pipe'[p][r] = pipe[p][r]
      /\ \A q \in Procs \ {p} : Kept(q)
  BY <1>1, <1>2 DEF Typing, Kept
<1>6. StageTells(p)'
  BY <1>1, <1>2, <1>5 DEF ProcessInv, StageTells
<1>7. InputCarried(p)'
  BY <1>1, <1>2, <1>5 DEF ProcessInv, InputCarried, Streams
<1>8. EndIsEnd(p)'
  <2>1. AtEnd(p)' => AtEnd(p)
    BY <1>1, <1>2, <1>5 DEF AtEnd
  <2> QED BY <1>1, <1>2, <2>1 DEF ProcessInv, EndIsEnd
<1>9. ASSUME NEW r \in Outputs
      PROVE  OutputCarried(p, r)'
  <2>1. CASE r = s
    <3>1. text[p][s] \o Append(pipe[p][s], pc[p]) = Append(text[p][s] \o pipe[p][s], pc[p])
      <4> DEFINE a == text[p][s]
                 b == pipe[p][s]
                 c == pc[p]
      <4>1. a \in Seq(Nat) /\ b \in Seq(Nat) /\ c \in Nat
        BY <1>2
      <4> HIDE DEF a, b, c
      <4>2. a \o Append(b, c) = Append(a \o b, c)
        BY ONLY <4>1, AppendInConcat
      <4> QED BY <4>2 DEF a, b, c
    <3>2. IsTrace(text[p][s] \o pipe[p][s], plan[p], s, pc[p])
      BY <1>2 DEF ProcessInv, OutputCarried
    <3>3. IsTrace(Append(text[p][s] \o pipe[p][s], pc[p]), plan[p], s, pc[p] + 1)
      BY <1>1, <1>2, <3>2, TraceGrows
    <3> QED BY <1>1, <1>5, <2>1, <3>1, <3>3 DEF OutputCarried
  <2>2. CASE r # s
    <3>1. IsTrace(text[p][r] \o pipe[p][r], plan[p], r, pc[p] + 1)
      BY <1>1, <2>2, SilentCall
    <3> QED BY <1>1, <1>5, <2>2, <3>1 DEF OutputCarried, Outputs, Streams
  <2> QED BY <2>1, <2>2
<1>10. CallFits' /\ (killed => call = NoCall)'
  BY <1>1, <1>2, CallKept
<1> QED BY <1>4, <1>5, <1>6, <1>7, <1>8, <1>9, <1>10, StepPreserves DEF ProcessInv

LEMMA ChildExitsPreserves ==
    ASSUME IInv, NEW p \in Procs, ChildExits(p)
    PROVE  IInv'
<1>1. /\ child[p] = "running" /\ (pc[p] > Len(plan[p]) \/ killed)
      /\ child' = [child EXCEPT ![p] = "exited"]
      /\ writers' = [q \in Procs |-> writers[q] \ {p}]
      /\ UNCHANGED <<stage, put, obuf, text, call, killed, pipe, plan, pc, got>>
  BY DEF ChildExits, Ends, parentVars
<1>2. /\ Typing /\ ProcessInv(p) /\ child[p] = "running" /\ (pc[p] > Len(plan[p]) \/ killed)
      /\ CallFits /\ (killed => call = NoCall) /\ stage[p] \in {"print", "wait"}
  BY RunningTells DEF ChildExits, IInv
<1>3. Parent # p /\ \A q \in Procs : Parent \in writers[q] => Parent \in writers'[q]
  BY <1>1, PipesAssumption
<1>4. Typing'
  <2>1. writers' \in [Procs -> SUBSET (Procs \cup {Parent})] /\ child' \in [Procs -> States]
    BY <1>1, <1>2 DEF Typing, States
  <2> QED BY <1>1, <1>2, <2>1 DEF Typing
<1>5. child'[p] = "exited" /\ \A q \in Procs \ {p} : Kept(q)
  BY <1>1, <1>2, <1>3 DEF Typing, Kept
<1>6. StageTells(p)'
  BY <1>1, <1>2, <1>3, <1>5 DEF ProcessInv, StageTells
<1>7. InputCarried(p)' /\ EndIsEnd(p)' /\ \A s \in Outputs : OutputCarried(p, s)'
  BY <1>1, <1>2 DEF ProcessInv, InputCarried, EndIsEnd, AtEnd, OutputCarried
<1>8. CallFits' /\ (killed => call = NoCall)'
  BY <1>1, <1>2, CallKept
<1> QED BY <1>4, <1>5, <1>6, <1>7, <1>8, StepPreserves DEF ProcessInv

LEMMA StutterPreserves ==
    ASSUME IInv, UNCHANGED vars
    PROVE  IInv'
<1>1. UNCHANGED <<stage, put, obuf, text, call, killed, pipe, writers, child, plan, pc, got>>
  BY DEF vars, parentVars, childVars
<1>2. Typing' /\ CallFits' /\ (killed => call = NoCall)'
  BY <1>1, CallKept DEF IInv, Typing
<1>3. \A p \in Procs : ProcessInv(p)'
  BY <1>1 DEF IInv, ProcessInv, StageTells, InputCarried, EndIsEnd, AtEnd, OutputCarried
<1> QED BY <1>2, <1>3 DEF IInv

LEMMA NextPreserves == IInv /\ [Next]_vars => IInv'
<1> SUFFICES ASSUME IInv, [Next]_vars PROVE IInv'
  OBVIOUS
<1>1. ASSUME NEW p \in Procs, Start(p) PROVE IInv'
  BY <1>1, StartPreserves
<1>2. ASSUME NEW p \in Procs, Put(p) PROVE IInv'
  BY <1>2, PutPreserves
<1>3. ASSUME NEW p \in Procs, Flush(p) PROVE IInv'
  BY <1>3, FlushPreserves
<1>4. ASSUME NEW p \in Procs, Close(p) PROVE IInv'
  BY <1>4, ClosePreserves
<1>5. ASSUME NEW p \in Procs, CallWait(p) PROVE IInv'
  BY <1>5, CallWaitPreserves
<1>6. ASSUME NEW p \in Procs, NEW s \in Outputs, Read(p, s) PROVE IInv'
  BY <1>6, ReadPreserves
<1>7. CASE Written
  <2>1. PICK p, more : p = call.p /\ more = call.more
    OBVIOUS
  <2> QED BY <1>7, <2>1, WrittenPreserves
<1>8. CASE BrokenPipe
  BY <1>8, BrokenPipePreserves
<1>9. CASE Waited
  <2>1. PICK p : p = call.p
    OBVIOUS
  <2> QED BY <1>9, <2>1, WaitedPreserves
<1>10. ASSUME NEW p \in Procs, ChildReads(p) PROVE IInv'
  BY <1>10, ChildReadsPreserves
<1>11. ASSUME NEW p \in Procs, ChildAtEnd(p) PROVE IInv'
  BY <1>11, ChildAtEndPreserves
<1>12. ASSUME NEW p \in Procs, NEW s \in Outputs, ChildWrites(p, s) PROVE IInv'
  BY <1>12, ChildWritesPreserves
<1>13. ASSUME NEW p \in Procs, ChildExits(p) PROVE IInv'
  BY <1>13, ChildExitsPreserves
<1>14. CASE UNCHANGED vars
  BY <1>14, StutterPreserves
<1> QED BY <1>1, <1>2, <1>3, <1>4, <1>5, <1>6, <1>7, <1>8, <1>9, <1>10, <1>11, <1>12, <1>13, <1>14
        DEF Next, ParentNext, ChildNext

\* At every moment what was printed to a child is, in order, with the child, in
\* the pipe or in the buffer, and what a child wrote is with the program or in
\* the pipe, whichever of sync(), underflow(), read() and write() come first.
THEOREM Invariant == Spec => []IInv
<1>1. Init => IInv
  BY InitEstablishes
<1> QED BY <1>1, NextPreserves, PTL DEF Spec
--------------------------------------------------------------------------------
(* What is carried is whole.                                                 *)

LEMMA FrontOfText ==
    ASSUME NEW a \in Seq(Nat), NEW b \in Seq(Nat), NEW c \in Seq(Nat), NEW n \in 0 .. TextLength,
           (a \o b) \o c = Printed(n)
    PROVE  PrefixOf(a, Text)
<1>1. TextLength \in Nat /\ n \in Nat /\ n <= TextLength
  BY PipesAssumption
<1>2. Len(Printed(n)) = n /\ \A i \in 1 .. n : Printed(n)[i] = i
  BY <1>1, PrintedProperties DEF Printed
<1>3. a \o b \in Seq(Nat) /\ Len(a \o b) = Len(a) + Len(b) /\ Len((a \o b) \o c) = Len(a \o b) + Len(c)
  BY ConcatProperties
<1>4. Len(a) \in Nat /\ Len(b) \in Nat /\ Len(c) \in Nat /\ Len(a) <= n
  BY <1>2, <1>3, LenProperties
<1>5. \A i \in 1 .. Len(a) : a[i] = i
  <2> SUFFICES ASSUME NEW i \in 1 .. Len(a)
               PROVE  a[i] = i
    OBVIOUS
  <2>1. i \in 1 .. Len(a) + Len(b) /\ i \in 1 .. Len(a \o b) + Len(c) /\ i \in 1 .. n
    BY <1>1, <1>3, <1>4
  <2>2. (a \o b)[i] = a[i]
    BY <2>1, ConcatProperties
  <2>3. ((a \o b) \o c)[i] = (a \o b)[i]
    BY <1>3, <2>1, ConcatProperties
  <2> QED BY <1>2, <2>1, <2>2, <2>3
<1>6. Text = Printed(TextLength)
  BY DEF Text, Printed
<1>7. Text \in Seq(Nat) /\ Len(Text) = TextLength
  BY <1>1, <1>6, PrintedProperties
<1>8. a = SubSeq(Text, 1, Len(a))
  <2> DEFINE t == SubSeq(Text, 1, Len(a))
  <2>1. t \in Seq(Nat) /\ Len(t) = Len(a) /\ \A i \in 1 .. Len(a) : t[i] = Text[i]
    BY <1>1, <1>4, <1>7
  <2>2. \A i \in 1 .. Len(a) : Text[i] = i
    BY <1>1, <1>4 DEF Text
  <2> HIDE DEF t
  <2> QED BY <1>5, <2>1, <2>2, SeqEqual
<1> QED BY <1>1, <1>4, <1>7, <1>8 DEF PrefixOf

LEMMA InputIsWholeHolds == IInv => InputIsWhole
<1> SUFFICES ASSUME IInv, NEW p \in Procs
             PROVE  PrefixOf(got[p], Text) /\ (AtEnd(p) /\ ~killed => got[p] = Text)
  BY DEF InputIsWhole
<1>1. got[p] \in Seq(Nat) /\ pipe[p]["in"] \in Seq(Nat) /\ obuf[p] \in Seq(Nat)
      /\ put[p] \in 0 .. TextLength
  BY DEF IInv, Typing, Streams
<1>2. (got[p] \o pipe[p]["in"]) \o obuf[p] = Printed(put[p])
  BY DEF IInv, ProcessInv, InputCarried
<1>3. PrefixOf(got[p], Text)
  BY <1>1, <1>2, FrontOfText
<1> QED BY <1>3 DEF IInv, ProcessInv, EndIsEnd, Text, Printed

LEMMA OutputIsWholeHolds == IInv => OutputIsWhole
<1> SUFFICES ASSUME IInv, NEW p \in Procs, NEW s \in Outputs, stage[p] = "gone"
             PROVE  /\ Len(text[p][s]) = Cardinality({k \in DOMAIN plan[p] : plan[p][k] = s})
                    /\ \A k \in DOMAIN text[p][s] : plan[p][text[p][s][k]] = s
                    /\ \A j, k \in DOMAIN text[p][s] : j < k => text[p][s][j] < text[p][s][k]
  BY DEF OutputIsWhole
<1>1. /\ text[p][s] \in Seq(Nat) /\ plan[p] \in Seq({"rest", "out", "err"})
      /\ pc[p] \in Nat /\ pipe[p][s] = <<>> /\ pc[p] > Len(plan[p])
      /\ IsTrace(text[p][s] \o pipe[p][s], plan[p], s, pc[p])
  <2>1. Typing /\ StageTells(p) /\ OutputCarried(p, s)
    BY DEF IInv, ProcessInv
  <2>2. text[p][s] \in Seq(Nat) /\ pc[p] \in Nat
    BY <2>1 DEF Typing
  <2>3. plan[p] \in Seq({"rest", "out", "err"})
    BY <2>1, PipesAssumption DEF Typing
  <2>4. pipe[p][s] = <<>> /\ pc[p] > Len(plan[p])
    BY <2>1 DEF StageTells, Outputs
  <2> QED BY <2>1, <2>2, <2>3, <2>4 DEF OutputCarried
<1>2. text[p][s] \o pipe[p][s] = text[p][s]
  BY <1>1, ConcatEmptySeq
<1>3. DOMAIN plan[p] = 1 .. Len(plan[p]) /\ DOMAIN text[p][s] = 1 .. Len(text[p][s])
      /\ Len(plan[p]) \in Nat
  BY <1>1, LenProperties
<1>4. WritesOf(plan[p], s, pc[p]) = {k \in DOMAIN plan[p] : plan[p][k] = s}
  BY <1>1, <1>3 DEF WritesOf
<1> QED BY <1>1, <1>2, <1>3, <1>4 DEF IsTrace

\* A child reads a prefix of what was printed to it and, when it sees the end,
\* all of it; getString() returns all a child wrote, in order.
THEOREM StreamsWhole == Spec => []StreamsAreWhole
<1>1. IInv => StreamsAreWhole
  BY InputIsWholeHolds, OutputIsWholeHolds DEF StreamsAreWhole
<1> QED BY <1>1, Invariant, PTL
--------------------------------------------------------------------------------
(* A write() is atomic because it is no longer than PIPE_BUF: Written moves  *)
(* the whole buffer in one step.                                             *)

LEMMA AtomicPreserved == IInv /\ WritesAreAtomic /\ [Next]_vars => WritesAreAtomic'
<1> SUFFICES ASSUME IInv, WritesAreAtomic, [Next]_vars, NEW q \in Procs
             PROVE  Len(obuf'[q]) <= BufferSize
  BY DEF WritesAreAtomic
<1>1. /\ obuf[q] \in Seq(Nat) /\ Len(obuf[q]) <= BufferSize /\ BufferSize \in Nat \ {0}
      /\ Len(obuf[q]) \in Nat
  BY PipesAssumption DEF IInv, Typing, WritesAreAtomic
<1>2. ASSUME UNCHANGED obuf PROVE Len(obuf'[q]) <= BufferSize
  BY <1>1, <1>2
<1>3. ASSUME NEW p \in Procs, Put(p) PROVE Len(obuf'[q]) <= BufferSize
  <2>1. CASE Len(obuf[p]) < BufferSize
    <3>1. obuf' = [obuf EXCEPT ![p] = Append(obuf[p], put[p] + 1)]
      BY <1>3, <2>1 DEF Put
    <3>2. obuf'[p] = Append(obuf[p], put[p] + 1) /\ (q # p => obuf'[q] = obuf[q])
      BY <3>1 DEF IInv, Typing
    <3>3. obuf[p] \in Seq(Nat) /\ put[p] + 1 \in Nat
      BY Types DEF IInv
    <3>4. Len(Append(obuf[p], put[p] + 1)) = Len(obuf[p]) + 1 /\ Len(obuf[p]) \in Nat
      BY <3>3
    <3> QED BY <1>1, <2>1, <3>2, <3>4
  <2>2. CASE Len(obuf[p]) >= BufferSize
    <3>1. UNCHANGED obuf
      BY <1>1, <1>3, <2>2, Types DEF Put, IInv
    <3> QED BY <1>2, <3>1
  <2>3. Len(obuf[p]) \in Nat
    BY Types DEF IInv
  <2> QED BY <1>1, <2>1, <2>2, <2>3
<1>4. ASSUME Written PROVE Len(obuf'[q]) <= BufferSize
  <2>1. /\ call.p \in Procs /\ call.more \in Seq(Nat)
        /\ call.more = <<>> \/ call.more = <<put[call.p] + 1>>
        /\ obuf' = [obuf EXCEPT ![call.p] = call.more]
    BY <1>4, WriteCall DEF Written
  <2>2. obuf'[call.p] = call.more /\ (q # call.p => obuf'[q] = obuf[q])
    BY <2>1 DEF IInv, Typing
  <2>3. Len(call.more) <= 1
    <3>1. CASE call.more = <<>>
      BY <3>1, EmptySeq
    <3>2. CASE call.more = <<put[call.p] + 1>>
      BY <3>2
    <3> QED BY <2>1, <3>1, <3>2
  <2>4. Len(call.more) \in Nat
    BY <2>1, LenProperties
  <2> QED BY <1>1, <2>2, <2>3, <2>4
<1>5. Put(q) \/ Written \/ (\E p \in Procs : Put(p)) \/ UNCHANGED obuf
  BY DEF Next, ParentNext, ChildNext, vars, parentVars, Start, Flush, Close, CallWait, Read, BrokenPipe,
         Waited, ChildReads, ChildAtEnd, ChildExits, ChildWrites
<1> QED BY <1>2, <1>3, <1>4, <1>5

\* sync() never asks write() for more than the buffer holds.
THEOREM AtomicWrites == Spec => []WritesAreAtomic
<1>1. Init => WritesAreAtomic
  BY PipesAssumption, EmptySeq DEF Init, WritesAreAtomic
<1> QED BY <1>1, AtomicPreserved, Invariant, PTL DEF Spec
================================================================================
