------------------------------- MODULE Canonical -------------------------------
(***************************************************************************)
(* canonicalizeFST() of include/canonical.hpp: outputs are pushed towards  *)
(* the start until no state has a prefix in common that could still be     *)
(* written earlier.  The push values are found as shortest distances are:  *)
(* the shortest estimate is frozen and refines those of its predecessors.  *)
(* The result is then given to composeFST(), as a client may.              *)
(*                                                                         *)
(* All states of a total transducer are final, so the search for a witness *)
(* is over after its first step: the witness of a state is its Psi.        *)
(***************************************************************************)
EXTENDS TotalSSFST

CONSTANTS
    Firsts,         \* transducers to canonicalize
    Seconds,        \* transducers to compose the result with
    MaxRead         \* functions are compared on words of at most this length

\* All that is written is over the letters A.
WritesOver(t, A) ==
    /\ \A k \in DOMAIN t.delta : t.delta[k].out \in Seq(A)
    /\ \A q \in DOMAIN t.psi : t.psi[q] \in Seq(A)
    /\ t.initialOut \in Seq(A)

ASSUME FirstsAssumption == \A t \in Firsts : IsTotal(t)
\* The second transducer has a transition for all that the first can write.
ASSUME SecondsAssumption == \A t \in Seconds : IsTotal(t) /\ \A u \in Firsts : WritesOver(u, Alphabet(t))

VARIABLES
    fst,            \* the transducer that was given
    estimate,       \* the push value of each state, as far as it is known
    finalized,      \* the states whose value is frozen
    stage,          \* "relax", "canonical" or "composed"
    result,         \* what was returned
    second          \* what it was composed with

vars == <<fst, estimate, finalized, stage, result, second>>

Gcp(W) == LongestCommonPrefix(W)

\* invMul: u is a prefix of w.
InvMul(u, w) == SubSeq(w, Len(u) + 1, Len(w))

\* What can be written from a state: its Psi, and each of its outputs followed by
\* what its successor writes.
Outgoing(t, q, next) == {t.psi[q]} \cup {t.delta[<<q, a>>].out \o next[t.delta[<<q, a>>].to] : a \in Alphabet(t)}

Seed(t) == [q \in States(t) |-> Gcp(Outgoing(t, q, t.psi))]

Init ==
    /\ fst \in Firsts
    /\ estimate = Seed(fst)
    /\ finalized = {}
    /\ stage = "relax"
    /\ result = fst /\ second = fst

\* The shortest estimate and, among equals, the smallest state; entries of the
\* queue that no longer hold are skipped.
Shortest(q) == \A p \in States(fst) \ finalized :
    \/ Len(estimate[q]) < Len(estimate[p])
    \/ Len(estimate[q]) = Len(estimate[p]) /\ q <= p

\* A predecessor that is not frozen keeps what it has in common with writing its
\* output and then the push value of q.
Refined(p, q) ==
    Gcp({estimate[p]} \cup {fst.delta[<<p, a>>].out \o estimate[q] : a \in {a \in Alphabet(fst) : fst.delta[<<p, a>>].to = q}})

Relax(q) ==
    /\ stage = "relax" /\ q \notin finalized /\ Shortest(q)
    /\ finalized' = finalized \cup {q}
    /\ estimate' = [p \in States(fst) |-> IF p \in finalized' THEN estimate[p] ELSE Refined(p, q)]
    /\ UNCHANGED <<fst, stage, result, second>>

\* A mistake it could make: the value of the successor is not put behind an output.
ForgettingSuccessor(t, sigma) ==
    Total(t.n,
          [c \in DOMAIN t.delta |-> [t.delta[c] EXCEPT !.out = InvMul(sigma[c[1]], @)]],
          [q \in States(t) |-> InvMul(sigma[q], t.psi[q])],
          t.initialOut \o sigma[0])

Pushed(t, sigma) ==
    Total(t.n,
          [c \in DOMAIN t.delta |-> [t.delta[c] EXCEPT !.out = InvMul(sigma[c[1]], @ \o sigma[t.delta[c].to])]],
          [q \in States(t) |-> InvMul(sigma[q], t.psi[q])],
          t.initialOut \o sigma[0])

Rebuild ==
    /\ stage = "relax" /\ finalized = States(fst)
    /\ result' = Pushed(fst, estimate)
    /\ stage' = "canonical"
    /\ UNCHANGED <<fst, estimate, finalized, second>>

Compose ==
    /\ stage = "canonical"
    /\ second' \in Seconds
    /\ result' = ComposeFST(result, second')
    /\ stage' = "composed"
    /\ UNCHANGED <<fst, estimate, finalized>>

Next == (\E q \in States(fst) : Relax(q)) \/ Rebuild \/ Compose

Spec == Init /\ [][Next]_vars
--------------------------------------------------------------------------------
(* Properties.                                                               *)

Inputs == UNION {[1 .. n -> Alphabet(fst)] : n \in 0 .. MaxRead}

IsCanonical(t) == \A q \in States(t) : Gcp({t.psi[q]} \cup {t.delta[<<q, a>>].out : a \in Alphabet(t)}) = <<>>

\* "The gcp of q's outgoing outputs, together with Psi(q), becomes empty at every
\* state" (include/canonical.hpp), and the function stays what it was.
CanonicalIsOnward ==
    stage = "canonical" => IsCanonical(result) /\ \A w \in Inputs : F(result, w) = F(fst, w)

\* The composition does what its parts do one after the other, if nothing is
\* written before the first letter by the second: it would be written again
\* with every letter.
ComposedIsComposition ==
    stage = "composed" /\ second.initialOut = <<>> =>
        \A w \in Inputs : F(result, w) = F(second, F(fst, w))
================================================================================
