------------------------------ MODULE FreeMonoid ------------------------------
(***************************************************************************)
(* What InterningMonoid<S> promises its clients: every handle stands for a *)
(* word over Symbols, the operations compute in the free monoid Symbols^*, *)
(* and no operation changes the word of a handle it was not asked to write.*)
(* There is no pool, no id, no reference count and no buffer here.         *)
(***************************************************************************)
EXTENDS Naturals, Sequences

CONSTANTS
    Symbols,     \* the alphabet S
    Inputs,      \* the words a client may hand to from() and own()
    Values,      \* client variables of type Value (a WordId)
    Operands,    \* client variables of type Operand
    NoOperand    \* content of an Operand variable that is not alive

Handles == Values \cup Operands

VARIABLE content \* the word each handle denotes

Alive(x) == content[x] # NoOperand

Put(x, w) == content' = [content EXCEPT ![x] = w]

(***************************************************************************)
(* The longest common prefix of two words.                                 *)
(***************************************************************************)
Agree(s, t, n) == \A i \in 1 .. n : i <= Len(s) /\ i <= Len(t) /\ s[i] = t[i]

GcpLen(s, t) == CHOOSE n \in 0 .. Len(s) :
                   Agree(s, t, n) /\ (n = Len(s) \/ ~Agree(s, t, n + 1))

Init == content = [x \in Handles |-> IF x \in Values THEN <<>> ELSE NoOperand]

From(v, w) == Put(v, w)

\* A new Operand denotes a word computed from the words of live handles.
Widen(o, x) == ~Alive(o) /\ Alive(x) /\ Put(o, content[x])

Mul(o, x, y) == ~Alive(o) /\ Alive(x) /\ Alive(y) /\ Put(o, content[x] \o content[y])

InvMul(o, x, y) == /\ ~Alive(o) /\ Alive(x) /\ Alive(y)
                   /\ Agree(content[x], content[y], Len(content[x]))
                   /\ Put(o, SubSeq(content[y], Len(content[x]) + 1, Len(content[y])))

Sub(o, x) == /\ ~Alive(o) /\ Alive(x)
             /\ \E s, l \in 0 .. Len(content[x]) :
                   s + l <= Len(content[x]) /\ Put(o, SubSeq(content[x], s + 1, s + l))

Gcp(o, x, y) == /\ ~Alive(o) /\ Alive(x) /\ Alive(y)
                /\ Put(o, SubSeq(content[x], 1, GcpLen(content[x], content[y])))

Own(o, w) == ~Alive(o) /\ Put(o, w)

Destroy(o) == Alive(o) /\ Put(o, NoOperand)

Assign(x, y) == Alive(x) /\ Alive(y) /\ Put(x, content[y])

\* Compaction keeps the words of the handles it is given; the client has
\* dropped the other Value variables.
Compact(L) == content' = [x \in Handles |-> IF x \in Values \ L THEN <<>> ELSE content[x]]

Next ==
    \/ \E v \in Values, w \in Inputs : From(v, w)
    \/ \E o \in Operands, w \in Inputs : Own(o, w)
    \/ \E o \in Operands, x \in Handles : Widen(o, x) \/ Sub(o, x)
    \/ \E o \in Operands, x, y \in Handles : Mul(o, x, y) \/ InvMul(o, x, y) \/ Gcp(o, x, y)
    \/ \E o \in Operands : Destroy(o)
    \/ \E x, y \in Handles : Assign(x, y)
    \/ \E L \in SUBSET Values : Compact(L)

Spec == Init /\ [][Next]_content
===============================================================================
