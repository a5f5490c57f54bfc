------------------------------ MODULE ProcessPipes ------------------------------
(***************************************************************************)
(* Child processes over pipes (include/pipes.hpp, src/pipes.cpp), driven   *)
(* the way drawFSA() (include/utils.hpp) and draw() of the marker          *)
(* transducer drive them: print into the child's stdin, end the line,      *)
(* close it, wait, and only then read what the child wrote.                *)
(*                                                                         *)
(* The parent is one thread: while it is inside write() or waitpid() it    *)
(* does nothing else.  It may hold several Process objects.  A child is    *)
(* another program, known by the system calls it makes.                    *)
(***************************************************************************)
EXTENDS Integers, Sequences, FiniteSets

CONSTANTS
    Procs,          \* the Process objects
    Parent,         \* the program itself
    Programs,       \* what a child may run: sequences of "rest", "out", "err"
    TextLength,     \* characters printed to a child, the line end included
    BufferSize,     \* BUFFER_SIZE, which is PIPE_BUF: a write of it is atomic
    PipeCapacity    \* characters a pipe of the kernel holds

ASSUME PipesAssumption ==
    /\ Parent \notin Procs
    /\ Programs \subseteq Seq({"rest", "out", "err"})
    /\ TextLength \in Nat
    /\ BufferSize \in Nat \ {0}
    /\ PipeCapacity \in Nat /\ PipeCapacity >= BufferSize

Streams == {"in", "out", "err"}
Outputs == {"out", "err"}

VARIABLES
    stage,      \* the statement of drawFSA() each Process is at
    put,        \* characters given to in()
    obuf,       \* output_buffer of in()'s PipeBuffer, up to pptr
    text,       \* what getString() has of out() and err()
    call,       \* the blocking system call the parent is inside
    killed,     \* SIGPIPE ended the parent
    pipe,       \* contents of the kernel's pipes
    writers,    \* who holds the write end of each child's stdin
    child,      \* "none", "running", "exited" or "reaped"
    plan, pc,   \* what the child runs, and its next call
    got         \* what the child has read

parentVars == <<stage, put, obuf, text, call, killed>>
childVars == <<child, plan, pc, got>>
vars == <<parentVars, pipe, writers, childVars>>

NoCall == [op |-> "none"]
Write(p, more) == [op |-> "write", p |-> p, more |-> more]
Wait(p) == [op |-> "wait", p |-> p]

Init ==
    /\ stage = [p \in Procs |-> "none"]
    /\ put = [p \in Procs |-> 0]
    /\ obuf = [p \in Procs |-> <<>>]
    /\ text = [p \in Procs |-> [s \in Outputs |-> <<>>]]
    /\ call = NoCall
    /\ killed = FALSE
    /\ pipe = [p \in Procs |-> [s \in Streams |-> <<>>]]
    /\ writers = [p \in Procs |-> {}]
    /\ child = [p \in Procs |-> "none"]
    /\ plan \in [Procs -> Programs]
    /\ pc = [p \in Procs |-> 1]
    /\ got = [p \in Procs |-> <<>>]
--------------------------------------------------------------------------------
(* The parent.                                                               *)

At(p, s) == stage[p] = s /\ call = NoCall /\ ~killed

\* A mistake the constructor could make: the child keeps the write end of its
\* own stdin.
InheritedOwn(p) ==
    [q \in Procs |->
        IF q = p THEN {Parent, p}
        ELSE IF Parent \in writers[q] THEN writers[q] \cup {p} ELSE writers[q]]

\* Every descriptor of the parent is inherited over fork() and exec, but the
\* child closes the parent's ends of its own pipes.
Inherited(p) ==
    [q \in Procs |->
        IF q = p THEN {Parent}
        ELSE IF Parent \in writers[q] THEN writers[q] \cup {p} ELSE writers[q]]

\* Process(path, args...)
Start(p) ==
    /\ At(p, "none")
    /\ stage' = [stage EXCEPT ![p] = "print"]
    /\ child' = [child EXCEPT ![p] = "running"]
    /\ writers' = Inherited(p)
    /\ UNCHANGED <<put, obuf, text, call, killed, pipe, plan, pc, got>>

\* One character into in(); overflow() syncs first when the buffer is full.
Put(p) ==
    /\ At(p, "print") /\ put[p] < TextLength
    /\ IF Len(obuf[p]) < BufferSize
       THEN /\ obuf' = [obuf EXCEPT ![p] = Append(@, put[p] + 1)]
            /\ put' = [put EXCEPT ![p] = @ + 1]
            /\ UNCHANGED call
       ELSE /\ call' = Write(p, <<put[p] + 1>>)
            /\ UNCHANGED <<obuf, put>>
    /\ UNCHANGED <<stage, text, killed, pipe, writers, childVars>>

\* std::endl flushes.
Flush(p) ==
    /\ At(p, "print") /\ put[p] = TextLength /\ obuf[p] # <<>>
    /\ call' = Write(p, <<>>)
    /\ UNCHANGED <<stage, put, obuf, text, killed, pipe, writers, childVars>>

\* A mistake sync() could make: what a short write left over is dropped.
WrittenShort ==
    /\ call.op = "write" /\ child[call.p] = "running"
    /\ LET p == call.p
           room == PipeCapacity - Len(pipe[p]["in"])
       IN  /\ room > 0
           /\ pipe' = [pipe EXCEPT ![p]["in"] =
                 @ \o SubSeq(obuf[p], 1, IF room < Len(obuf[p]) THEN room ELSE Len(obuf[p]))]
           /\ obuf' = [obuf EXCEPT ![p] = call.more]
           /\ put' = [put EXCEPT ![p] = @ + Len(call.more)]
    /\ call' = NoCall
    /\ UNCHANGED <<stage, text, killed, writers, childVars>>

\* write() inside sync() returns, the put pointer is reset, and overflow() goes
\* on to store the character it was called with.
Written ==
    /\ call.op = "write" /\ child[call.p] = "running"
    /\ LET p == call.p
       IN  /\ Len(pipe[p]["in"]) + Len(obuf[p]) <= PipeCapacity
           /\ pipe' = [pipe EXCEPT ![p]["in"] = @ \o obuf[p]]
           /\ obuf' = [obuf EXCEPT ![p] = call.more]
           /\ put' = [put EXCEPT ![p] = @ + Len(call.more)]
    /\ call' = NoCall
    /\ UNCHANGED <<stage, text, killed, writers, childVars>>

\* write() into a pipe nobody reads: the default of SIGPIPE.
BrokenPipe ==
    /\ call.op = "write" /\ child[call.p] # "running"
    /\ killed' = TRUE
    /\ call' = NoCall
    /\ writers' = [q \in Procs |-> writers[q] \ {Parent}]
    /\ UNCHANGED <<stage, put, obuf, text, pipe, childVars>>

\* in().close(): nothing is left to flush.
Close(p) ==
    /\ At(p, "print") /\ put[p] = TextLength /\ obuf[p] = <<>>
    /\ writers' = [writers EXCEPT ![p] = @ \ {Parent}]
    /\ stage' = [stage EXCEPT ![p] = "wait"]
    /\ UNCHANGED <<put, obuf, text, call, killed, pipe, childVars>>

\* wait(): waitpid() is called, and returns.
CallWait(p) ==
    /\ At(p, "wait")
    /\ call' = Wait(p)
    /\ UNCHANGED <<stage, put, obuf, text, killed, pipe, writers, childVars>>

Waited ==
    /\ call.op = "wait" /\ child[call.p] = "exited"
    /\ child' = [child EXCEPT ![call.p] = "reaped"]
    /\ stage' = [stage EXCEPT ![call.p] = "out"]
    /\ call' = NoCall
    /\ UNCHANGED <<put, obuf, text, killed, pipe, writers, plan, pc, got>>

Following(s) == IF s = "out" THEN "err" ELSE "gone"

\* getString(out()), then getString(err()): underflow() reads a buffer at a time
\* and throws at the end, which the insertion of rdbuf() takes for the end.
\* The destructor follows; the pid is gone, so it does not terminate().
Read(p, s) ==
    /\ At(p, s)
    /\ IF pipe[p][s] # <<>>
       THEN LET n == IF Len(pipe[p][s]) < BufferSize THEN Len(pipe[p][s]) ELSE BufferSize
            IN  /\ text' = [text EXCEPT ![p][s] = @ \o SubSeq(pipe[p][s], 1, n)]
                /\ pipe' = [pipe EXCEPT ![p][s] = SubSeq(@, n + 1, Len(@))]
                /\ UNCHANGED stage
       ELSE /\ child[p] # "running"
            /\ stage' = [stage EXCEPT ![p] = Following(s)]
            /\ UNCHANGED <<text, pipe>>
    /\ UNCHANGED <<put, obuf, call, killed, writers, childVars>>
--------------------------------------------------------------------------------
(* A child: "rest" reads its stdin to the end, "out" and "err" write one     *)
(* character, named by its place in the program.                             *)

Doing(p, op) == child[p] = "running" /\ pc[p] <= Len(plan[p]) /\ plan[p][pc[p]] = op

Ends(p) ==
    /\ child' = [child EXCEPT ![p] = "exited"]
    /\ writers' = [q \in Procs |-> writers[q] \ {p}]

ChildReads(p) ==
    /\ Doing(p, "rest") /\ pipe[p]["in"] # <<>>
    /\ got' = [got EXCEPT ![p] = Append(@, Head(pipe[p]["in"]))]
    /\ pipe' = [pipe EXCEPT ![p]["in"] = Tail(@)]
    /\ UNCHANGED <<parentVars, writers, child, plan, pc>>

ChildAtEnd(p) ==
    /\ Doing(p, "rest") /\ pipe[p]["in"] = <<>> /\ writers[p] = {}
    /\ pc' = [pc EXCEPT ![p] = @ + 1]
    /\ UNCHANGED <<parentVars, pipe, writers, child, plan, got>>

ChildWrites(p, s) ==
    /\ Doing(p, s) /\ ~killed
    /\ Len(pipe[p][s]) < PipeCapacity
    /\ pipe' = [pipe EXCEPT ![p][s] = Append(@, pc[p])]
    /\ pc' = [pc EXCEPT ![p] = @ + 1]
    /\ UNCHANGED <<parentVars, writers, child, plan, got>>

\* It is done, or writes to a parent that is gone.
ChildExits(p) ==
    /\ child[p] = "running"
    /\ pc[p] > Len(plan[p]) \/ (killed /\ \E s \in Outputs : Doing(p, s))
    /\ Ends(p)
    /\ UNCHANGED <<parentVars, pipe, plan, pc, got>>
--------------------------------------------------------------------------------
ParentNext ==
    \/ \E p \in Procs : Start(p) \/ Put(p) \/ Flush(p) \/ Close(p) \/ CallWait(p)
    \/ \E p \in Procs, s \in Outputs : Read(p, s)
    \/ Written \/ BrokenPipe \/ Waited

ChildNext(p) ==
    \/ ChildReads(p) \/ ChildAtEnd(p) \/ ChildExits(p)
    \/ \E s \in Outputs : ChildWrites(p, s)

Next == ParentNext \/ \E p \in Procs : ChildNext(p)

\* The operating system runs every process that can run.
Spec == Init /\ [][Next]_vars /\ WF_vars(ParentNext) /\ \A p \in Procs : WF_vars(ChildNext(p))
--------------------------------------------------------------------------------
(* Properties.                                                               *)

Text == [k \in 1 .. TextLength |-> k]

PrefixOf(s, t) == Len(s) <= Len(t) /\ s = SubSeq(t, 1, Len(s))

AtEnd(p) == \E k \in 1 .. pc[p] - 1 : plan[p][k] = "rest"

\* A child reads what was printed to it, in order, whichever writes were split
\* by the buffer or had to wait; when it sees the end and the parent was not
\* killed, it has read all.
InputIsWhole ==
    \A p \in Procs :
        /\ PrefixOf(got[p], Text)
        /\ AtEnd(p) /\ ~killed => got[p] = Text

\* What getString() returns is all the child wrote on that stream.
OutputIsWhole ==
    \A p \in Procs, s \in Outputs :
        stage[p] = "gone" =>
            /\ Len(text[p][s]) = Cardinality({k \in DOMAIN plan[p] : plan[p][k] = s})
            /\ \A k \in DOMAIN text[p][s] : plan[p][text[p][s][k]] = s
            /\ \A j, k \in DOMAIN text[p][s] : j < k => text[p][s][j] < text[p][s][k]

\* Nothing is lost, doubled or reordered on the way to a child or back.
StreamsAreWhole == InputIsWhole /\ OutputIsWhole

Ended ==
    \/ \A p \in Procs : stage[p] = "gone"
    \/ killed /\ \A p \in Procs : child[p] # "running"

\* The parent waits, or writes, while the child has a pipe full of output.
OutputFull(p) == \E s \in Outputs : Doing(p, s) /\ Len(pipe[p][s]) = PipeCapacity

\* The child waits for an end of input that a younger child holds back.
InputHeld(p) ==
    /\ Doing(p, "rest") /\ pipe[p]["in"] = <<>>
    /\ writers[p] # {} /\ writers[p] \subseteq Procs \ {p}

\* Every run ends, the parent killed by SIGPIPE or not, but for two ways to
\* hang: a child whose output exceeds a pipe before the parent reads, and an
\* end of input held back by a child that was started in between.
EndsOrHangs ==
    \/ <>Ended
    \/ <>[](\E p \in Procs : OutputFull(p))
    \/ <>[](\E p \in Procs : InputHeld(p))
================================================================================
