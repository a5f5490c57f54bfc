------------------------------ MODULE PoolLayout ------------------------------
(***************************************************************************)
(* Slices of a vector of symbols, and the vector that is left when only    *)
(* some of its offsets are kept.  Offsets are 0-based, as in the code.     *)
(***************************************************************************)
EXTENDS Integers, Sequences, FiniteSets

\* The slice [start, start + length) of the vector mem.
Slice(mem, start, length) == SubSeq(mem, start + 1, start + length)

WordData == [start : Nat, length : Nat]

EndOf(d) == d.start + d.length

\* The offsets a slice covers, and the offsets the slices of a set of ids cover.
BytesOf(d) == d.start .. EndOf(d) - 1

Bytes(data, ids) == UNION {BytesOf(data[id]) : id \in ids}

\* How many members of S are below n: the dense new number of a kept offset
\* (or id).
Rank(S, n) == Cardinality({m \in S : m < n})

\* The member of S with rank n.
Nth(S, n) == CHOOSE m \in S : Rank(S, m) = n

\* The vector that holds the kept offsets of mem, in their order.
Pack(mem, kept) == [i \in 1 .. Cardinality(kept) |-> mem[Nth(kept, i - 1) + 1]]
===============================================================================
