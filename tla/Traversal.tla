------------------------------- MODULE Traversal -------------------------------
(***************************************************************************)
(* TraversalState (doctest.h): which subcase and which generated value the *)
(* next run of a test case takes.  A test case is run again and again: a   *)
(* run follows the choices of decision, makes up the rest, and records in  *)
(* discovered what there was to choose from at each depth.                 *)
(***************************************************************************)
EXTENDS Integers, Sequences, SequencesExt

\* A decision point: how many branches it has, and the subcases met there.
\* Places in decision count from 0, as the code does.
NewPoint == [branch_count |-> 0, subcases |-> <<>>]

\* resetForTestCase()
NewTraversal == [discovered |-> <<>>, decision |-> <<>>, depth |-> 0, entered |-> <<>>, active |-> 0]

\* A mistake resetForRun() could make: it forgets the path.
ForgetForRun(t) == NewTraversal

\* resetForRun(): the chosen path stays.
ResetForRun(t) == [t EXCEPT !.discovered = <<>>, !.depth = 0, !.entered = <<>>, !.active = 0]

\* ensureDecisionPointAtCurrentDepth()
Ensured(t) ==
    IF Len(t.discovered) # t.depth THEN t
    ELSE [t EXCEPT !.discovered = Append(@, NewPoint),
                   !.decision = IF Len(@) = t.depth THEN Append(@, 0) ELSE @]

\* tryEnterSubcase(): the subcase joins its siblings, and is entered if it is
\* the one that is chosen.
TryEnter(t, signature) ==
    LET e == Ensured(t)
        d == t.depth + 1
        siblings == e.discovered[d].subcases
        known == Contains(siblings, signature)
        all == IF known THEN siblings ELSE Append(siblings, signature)
        index == CHOOSE i \in DOMAIN all : all[i] = signature
        met == [e EXCEPT !.discovered[d] = [branch_count |-> Len(all), subcases |-> all]]
    IN  IF index - 1 # e.decision[d] THEN [traversal |-> met, enter |-> FALSE]
        ELSE [traversal |-> [met EXCEPT !.entered = Append(@, t.depth), !.active = @ + 1, !.depth = @ + 1],
              enter |-> TRUE]

\* leaveSubcase()
Leave(t) == [t EXCEPT !.depth = Last(t.entered), !.entered = Front(@), !.active = @ - 1]

\* acquireGeneratorIndex(): the point is shared with a subcase of this depth.
Acquire(t, count) ==
    LET e == Ensured(t)
        index == e.decision[t.depth + 1]
    IN  [traversal |-> [e EXCEPT !.discovered[t.depth + 1].branch_count = count, !.depth = @ + 1],
         index |-> IF index < count THEN index ELSE 0]

\* advance(): the deepest point that has a branch left.
CanAdvance(t) ==
    {i \in 1 .. Min({Len(t.decision), Len(t.discovered)}) : t.decision[i] + 1 < t.discovered[i].branch_count}
\* A mistake advance() could make: the choices below the one that changes stay.
AdvancedOnly(t) == [t EXCEPT !.decision[Max(CanAdvance(t))] = @ + 1]
Advanced(t) ==
    LET i == Max(CanAdvance(t))
    IN  [t EXCEPT !.decision = Append(SubSeq(@, 1, i - 1), @[i] + 1)]
================================================================================
