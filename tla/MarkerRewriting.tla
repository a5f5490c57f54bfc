----------------------------- MODULE MarkerRewriting -----------------------------
(***************************************************************************)
(* ReplaceWithMarkerSSFT (include/replace_marker_ssft.hpp): a total        *)
(* subsequential transducer for the rules _left_right_ -> _leftright_,     *)
(* where _ is a marker that occurs in neither half.                        *)
(*                                                                         *)
(* The rules are put into a minimal trie one after the other, in the order *)
(* of their letters: the path of the last one is a stack of states that    *)
(* may still change, and a state that leaves it is merged with one that    *)
(* has the same color and transitions.  Then Psi and the transitions of a  *)
(* match are placed, and each transition that is missing follows the       *)
(* failure of its state.  The first marker of a right half and what comes  *)
(* after it is withheld until it is known whether there is a match.        *)
(***************************************************************************)
EXTENDS TotalSSFST

CONSTANTS
    Letters,        \* the numbers of the letters, the marker's among them
    Tasks,          \* [marker, rules]: what the constructor may be given
    MaxText         \* texts have at most this many letters after a marker

VARIABLES
    task,           \* what it was given
    minimize,       \* the flag it was given
    inserted,       \* how many of the sorted rules are in the trie
    stack,          \* unminimizedStates, [color, row] each
    nodes,          \* nodes[s] is the [color, row] state s was made from
    delays,         \* delays[s] is what is withheld in state s
    psi,            \* psi[s + 1] is Psi of state s, once it is placed
    rows,           \* rows[s + 1] are the transitions of state s, once they are placed
    phase           \* "inserting", "trie", "placed" or "complete"

markerVars == <<task, minimize, inserted, stack, nodes, delays, psi, rows, phase>>

None == -1
Blank == [l \in Letters |-> [out |-> <<>>, to |-> None]]
--------------------------------------------------------------------------------
(* RuleMetadata: the letters that match, and where the inner marker is.      *)

Meta(rule, marker) == [match |-> rule.left \o <<marker>> \o rule.right \o <<marker>>, at |-> Len(rule.left)]

\* The last marker is not part of the trie.
SizeOf(m) == Len(m.match) - 1
Output(m, offset) == IF offset < m.at THEN <<m.match[offset + 1]>> ELSE <<>>
Color(m) == SubSeq(m.match, m.at + 2, Len(m.match))

Delay(m, offset) == SubSeq(m.match, m.at + 1, offset)

Before(v, w) == \E i \in 1 .. Len(w) :
    /\ Len(v) >= i - 1 /\ SubSeq(v, 1, i - 1) = SubSeq(w, 1, i - 1)
    /\ Len(v) >= i => v[i] < w[i]

\* The rules in the order of their letters, marker and all.
Sorted(t) == SetToSortSeq({Meta(r, t.marker) : r \in t.rules}, LAMBDA m, n : Before(m.match, n.match))
--------------------------------------------------------------------------------
(* The incremental minimal trie.                                             *)

MarkerInit ==
    /\ task \in Tasks
    /\ minimize \in BOOLEAN
    /\ inserted = 0
    /\ stack = <<>> /\ nodes = <<>> /\ delays = <<>>
    /\ psi = <<>> /\ rows = <<>>
    /\ phase = "inserting"

\* A mistake it could make: states are merged whatever color they have.
SameRow(a, b) == a.row = b.row
SameNode(a, b) == a.color = b.color /\ a.row = b.row

\* The top of the stack, with the transition to the state popped before it,
\* becomes an old state or a new one.
PopState(m, b) ==
    LET offset == Len(b.stack) - 1
        top == Last(b.stack)
        row == IF offset < SizeOf(m)
               THEN [top.row EXCEPT ![m.match[offset + 1]] = [out |-> Output(m, offset), to |-> b.below]]
               ELSE top.row
        node == [color |-> top.color, row |-> row]
        known == {s \in DOMAIN b.nodes : minimize /\ SameNode(b.nodes[s], node)}
    IN  IF known # {} THEN [b EXCEPT !.stack = Front(@), !.below = CHOOSE s \in known : TRUE]
        ELSE [stack |-> Front(b.stack), nodes |-> Append(b.nodes, node),
              delays |-> Append(b.delays, Delay(m, offset)), below |-> Len(b.nodes) + 1]

\* The state that is left on top is given its transition to what was popped.
PopTemporaryUntil(m, until) ==
    LET pops == [i \in 1 .. Len(stack) - (until + 1) |-> i]
        b == FoldLeft(LAMBDA x, i : PopState(m, x),
                      [stack |-> stack, nodes |-> nodes, delays |-> delays, below |-> None], pops)
    IN  IF until < 0 THEN b
        ELSE [b EXCEPT !.stack[until + 1].row[m.match[until + 1]] = [out |-> Output(m, until), to |-> b.below]]

\* The last state may be there, if a longer rule came first.
InsertTemporary(m, st) ==
    IF Len(st) = SizeOf(m) + 1 THEN [st EXCEPT ![Len(st)].color = Color(m)]
    ELSE Append(st \o [i \in 1 .. SizeOf(m) - Len(st) |-> [color |-> <<>>, row |-> Blank]],
                [color |-> Color(m), row |-> Blank])

CommonPrefix(v, w) == Len(LongestCommonPrefix({v, w}))

Insert ==
    /\ phase = "inserting" /\ inserted < Len(Sorted(task))
    /\ LET m == Sorted(task)[inserted + 1]
           previous == Sorted(task)[inserted]
           b == IF inserted = 0 THEN [stack |-> stack, nodes |-> nodes, delays |-> delays]
                ELSE PopTemporaryUntil(previous, CommonPrefix(m.match, previous.match))
       IN  /\ stack' = InsertTemporary(m, b.stack)
           /\ nodes' = b.nodes /\ delays' = b.delays
    /\ inserted' = inserted + 1
    /\ UNCHANGED <<task, minimize, psi, rows, phase>>

PopAll ==
    /\ phase = "inserting" /\ inserted = Len(Sorted(task))
    /\ LET b == IF inserted = 0 THEN [stack |-> stack, nodes |-> nodes, delays |-> delays]
                ELSE PopTemporaryUntil(Last(Sorted(task)), -1)
       IN  stack' = b.stack /\ nodes' = b.nodes /\ delays' = b.delays
    /\ phase' = "trie"
    /\ UNCHANGED <<task, minimize, inserted, psi, rows>>
--------------------------------------------------------------------------------
(* Psi, the transitions of a match, and the failures.  State 0 has been      *)
(* there from the beginning; the root of the trie is the last state.         *)

TrieStart == Len(nodes)
DelayOf(s) == IF s = 0 THEN <<>> ELSE delays[s]

\* The transition of state s with l.
On(table, s, l) == table[s + 1][l]
Set(table, s, l, out, to) == [table EXCEPT ![s + 1][l] = [out |-> out, to |-> to]]

\* The states on the way of a rule; the one behind the inner marker, if it is
\* not the first or the last, has the marker as its Psi.
PlaceRule(p, m) ==
    LET way == FoldLeft(LAMBDA w, i : Append(w, On(p.rows, Last(w), m.match[i]).to),
                        <<TrieStart>>, [i \in 1 .. SizeOf(m) |-> i])
        inner == {way[i + 1] : i \in {i \in 2 .. SizeOf(m) - 1 : m.match[i] = task.marker}}
        end == Last(way)
    IN  [psi |-> [s \in DOMAIN p.psi |->
                     IF s - 1 = end THEN Color(m) ELSE IF s - 1 \in inner THEN <<task.marker>> ELSE p.psi[s]],
         rows |-> Set(p.rows, end, task.marker, Color(m), TrieStart)]

Place ==
    /\ phase = "trie"
    /\ LET p == FoldLeft(PlaceRule,
                         [psi |-> [i \in 1 .. Len(nodes) + 1 |-> <<>>],
                          rows |-> <<Blank>> \o [s \in DOMAIN nodes |-> nodes[s].row]], Sorted(task))
       IN  psi' = p.psi /\ rows' = Set(p.rows, 0, task.marker, <<task.marker>>, TrieStart)
    /\ phase' = "placed"
    /\ UNCHANGED <<task, minimize, inserted, stack, nodes, delays>>

\* A mistake it could make: the marker that was just read is not set apart.
FailOutputWithMarker(s, to, l) ==
    LET cutoff == Len(DelayOf(to))
    IN  SubSeq(DelayOf(s), 1, Len(DelayOf(s)) - cutoff) \o IF cutoff = 0 THEN <<l>> ELSE <<>>

\* What is given up when state s fails and goes to state to with l: what it
\* withheld, but for what is withheld there, too, apart from l.
FailOutput(s, to, l) ==
    LET cutoff == Len(DelayOf(to))
        kept == IF cutoff = 0 THEN 0 ELSE cutoff - 1
    IN  SubSeq(DelayOf(s), 1, Len(DelayOf(s)) - kept) \o IF cutoff = 0 THEN <<l>> ELSE <<>>

\* One letter of one state that has left the queue.
FillLetter(b, s, l) ==
    LET next == On(b.rows, s, l).to
        to == On(b.rows, b.fail[s + 1], l).to
    IN  IF next = None THEN [b EXCEPT !.rows = Set(@, s, l, FailOutput(s, to, l), to)]
        ELSE [b EXCEPT !.queue = Append(@, next), !.fail[next + 1] = IF @ = None THEN to ELSE @]

RECURSIVE BreadthFirst(_)
BreadthFirst(b) ==
    IF b.queue = <<>> THEN b.rows
    ELSE LET s == Head(b.queue)
             left == [b EXCEPT !.queue = Tail(@)]
         IN  IF s \in b.visited THEN BreadthFirst(left)
             ELSE BreadthFirst(FoldLeft(LAMBDA x, l : FillLetter(x, s, l),
                                        [left EXCEPT !.visited = @ \cup {s}], SetToSortSeq(Letters, <)))

FillFailTransitions ==
    /\ phase = "placed"
    /\ LET loops == [l \in Letters |-> IF l = task.marker THEN On(rows, 0, l) ELSE [out |-> <<l>>, to |-> 0]]
           fail == [i \in 1 .. Len(rows) |-> IF i - 1 \in {0, TrieStart} THEN 0 ELSE None]
       IN  rows' = BreadthFirst([rows |-> [rows EXCEPT ![1] = loops], fail |-> fail, queue |-> <<0>>, visited |-> {}])
    /\ phase' = "complete"
    /\ UNCHANGED <<task, minimize, inserted, stack, nodes, delays, psi>>

MarkerNext == Insert \/ PopAll \/ Place \/ FillFailTransitions

MarkerSpec == MarkerInit /\ [][MarkerNext]_markerVars

\* The transducer that was made.
Made == Total(Len(rows), [c \in (0 .. Len(rows) - 1) \X Letters |-> On(rows, c[1], c[2])],
              [s \in 0 .. Len(rows) - 1 |-> psi[s + 1]], <<>>)
--------------------------------------------------------------------------------
(* Properties.                                                               *)

\* The paths that lead on from a state that is ready: what is read, what is
\* written meanwhile, and the color at the end.
RECURSIVE Paths(_)
Paths(node) ==
    (IF node.color = <<>> THEN {} ELSE {<<<<>>, <<>>, node.color>>})
        \cup UNION {{<<<<l>> \o p[1], node.row[l].out \o p[2], p[3]>> : p \in Paths(nodes[node.row[l].to])} :
                        l \in {l \in Letters : node.row[l].to # None}}

\* And from one on the stack, whose way to the next is that of the last rule.
PathsFromStack ==
    LET m == Sorted(task)[inserted]
        Below(i, P) == Paths(stack[i]) \cup {<<<<m.match[i]>> \o p[1], Output(m, i - 1) \o p[2], p[3]>> : p \in P}
    IN  FoldRight(LAMBDA i, P : IF i = Len(stack) THEN Paths(stack[i]) ELSE Below(i, P),
                  [i \in 1 .. Len(stack) |-> i], {})

\* At each time the trie has the rules that were inserted and no other, with
\* the left half written on the way and the right half as color, and no two
\* of the states that were made lead on in the same way.
TrieHoldsTheRules ==
    /\ phase \in {"inserting", "trie"} /\ inserted > 0 =>
          (IF phase = "trie" THEN Paths(nodes[TrieStart]) ELSE PathsFromStack)
              = {<<Front(m.match), SubSeq(m.match, 1, m.at), Color(m)>> : m \in {Sorted(task)[i] : i \in 1 .. inserted}}
    /\ minimize => \A s, u \in DOMAIN nodes : s # u => Paths(nodes[s]) # Paths(nodes[u])

\* "rules are all in the form _left_right_ -> _leftright_", and the markers at
\* both ends "serve as left and right context" for other rules: the leftmost
\* match is rewritten, and its last marker may begin another.
RECURSIVE Rewritten(_, _)
Rewritten(t, text) ==
    IF text = <<>> THEN <<>>
    ELSE LET found == {r \in t.rules : IsPrefix(<<t.marker>> \o Meta(r, t.marker).match, text)}
         IN  IF found = {} THEN <<Head(text)>> \o Rewritten(t, Tail(text))
             ELSE LET r == CHOOSE r \in found : TRUE
                      rest == SubSeq(text, Len(r.left \o r.right) + 3, Len(text))
                  IN  <<t.marker>> \o r.left \o r.right \o Rewritten(t, rest)

\* Nothing happens before the first marker.
Texts ==
    {<<>>} \cup {<<l>> : l \in Letters}
        \cup {<<task.marker>> \o w : w \in UNION {[1 .. n -> Letters] : n \in 1 .. MaxText}}

\* Whatever was read, what has been written and what is withheld make up the
\* rewritten text.  A text that ends with a marker is rewritten whole, if no rule
\* has only a right half: Psi of the state behind such a rule's inner marker is
\* empty, and so is that of the states further in a right half, whose text ends
\* without a marker.
MarkedTextsAreRewritten ==
    phase = "complete" =>
        LET made == Made
            leftless == \E r \in task.rules : r.left = <<>> /\ r.right # <<>>
        IN  \A w \in Texts :
                LET end == Read(made, 0, w)
                    rewritten == Rewritten(task, w)
                IN  /\ end.out \o DelayOf(end.at) = rewritten
                    /\ ~leftless /\ w # <<>> /\ Last(w) = task.marker => F(made, w) = rewritten
================================================================================
