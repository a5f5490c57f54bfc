------------------------------ MODULE CompactLoop ------------------------------
(***************************************************************************)
(* The loop of InterningMonoid::compact() that moves the symbols of the    *)
(* live words into a new vector, one iteration a step.  The words are      *)
(* visited by ascending offset; those that touch or overlap form a run,    *)
(* which is copied once.                                                   *)
(***************************************************************************)
EXTENDS PoolLayout

CONSTANTS
    Symbols,
    Words,        \* storage->words before the compaction
    LiveIds       \* the ids that survive

ASSUME WordsAssumption == Words \in Seq(Symbols)
ASSUME LiveIdsAssumption == IsFiniteSet(LiveIds)

VARIABLES
    wordsData,    \* the slice of each live id before the loop
    visited,      \* the ids the loop has been through
    newStart,     \* the start written for each visited id
    newWords,
    runOldStart, runOldEnd, runNewStart, haveRun

run == <<runOldStart, runNewStart, haveRun>>
vars == <<wordsData, visited, newStart, newWords, run, runOldEnd>>

\* Any slices of the vector, in any order, overlapping in any way.
Init ==
    /\ wordsData \in {d \in [LiveIds -> [start : 0 .. Len(Words), length : 0 .. Len(Words)]] :
                        \A id \in LiveIds : EndOf(d[id]) <= Len(Words)}
    /\ visited = {}
    /\ newStart = [id \in LiveIds |-> 0]
    /\ newWords = <<>>
    /\ runOldStart = 0 /\ runOldEnd = 0 /\ runNewStart = 0
    /\ haveRun = FALSE

\* byStart is sorted by the old start; equal starts come in any order.
IsNext(id) ==
    /\ id \notin visited
    /\ \A j \in LiveIds \ visited : wordsData[id].start <= wordsData[j].start

\* storage->words[from .. to)
Old(from, to) == SubSeq(Words, from + 1, to)

\* A mistake the loop could make: every run is placed at the front.
FreshRunAtFront(id) ==
    /\ ~haveRun \/ wordsData[id].start > runOldEnd
    /\ runOldStart' = wordsData[id].start
    /\ runNewStart' = 0
    /\ newWords' = newWords \o Old(wordsData[id].start, EndOf(wordsData[id]))
    /\ runOldEnd' = EndOf(wordsData[id])
    /\ haveRun' = TRUE

FreshRun(id) ==
    /\ ~haveRun \/ wordsData[id].start > runOldEnd
    /\ runOldStart' = wordsData[id].start
    /\ runNewStart' = Len(newWords)
    /\ newWords' = newWords \o Old(wordsData[id].start, EndOf(wordsData[id]))
    /\ runOldEnd' = EndOf(wordsData[id])
    /\ haveRun' = TRUE

\* A mistake the loop could make: the whole word is copied again.
ExtendRunCopiesAll(id) ==
    /\ haveRun /\ wordsData[id].start <= runOldEnd
    /\ EndOf(wordsData[id]) > runOldEnd
    /\ newWords' = newWords \o Old(wordsData[id].start, EndOf(wordsData[id]))
    /\ runOldEnd' = EndOf(wordsData[id])
    /\ UNCHANGED run

ExtendRun(id) ==
    /\ haveRun /\ wordsData[id].start <= runOldEnd
    /\ EndOf(wordsData[id]) > runOldEnd
    /\ newWords' = newWords \o Old(runOldEnd, EndOf(wordsData[id]))
    /\ runOldEnd' = EndOf(wordsData[id])
    /\ UNCHANGED run

InsideRun(id) ==
    /\ haveRun /\ wordsData[id].start <= runOldEnd
    /\ EndOf(wordsData[id]) <= runOldEnd
    /\ UNCHANGED <<run, runOldEnd, newWords>>

\* A mistake the loop could make: a word that starts a run is placed with the
\* start of the run before it.
VisitStaleRun(id) ==
    /\ IsNext(id)
    /\ FreshRun(id) \/ ExtendRun(id) \/ InsideRun(id)
    /\ newStart' = [newStart EXCEPT ![id] = runNewStart' + (wordsData[id].start - runOldStart)]
    /\ visited' = visited \cup {id}
    /\ UNCHANGED wordsData

Visit(id) ==
    /\ IsNext(id)
    /\ FreshRun(id) \/ ExtendRun(id) \/ InsideRun(id)
    /\ newStart' = [newStart EXCEPT ![id] = runNewStart' + (wordsData[id].start - runOldStart')]
    /\ visited' = visited \cup {id}
    /\ UNCHANGED wordsData

Next == \E id \in LiveIds : Visit(id)

Spec == Init /\ [][Next]_vars
--------------------------------------------------------------------------------
Kept == Bytes(wordsData, visited)

\* Every variable has its type; an offset the loop writes is not negative.
TypeOK ==
    /\ visited \subseteq LiveIds
    /\ wordsData \in [LiveIds -> WordData]
    /\ newStart \in [LiveIds -> Nat]
    /\ newWords \in Seq(Symbols)
    /\ runOldStart \in Nat /\ runOldEnd \in Nat /\ runNewStart \in Nat
    /\ haveRun \in BOOLEAN

\* A symbol two live words share is copied once, and no symbol of a dead word
\* is: the new vector is the old one without the offsets nothing live covers.
SharingIsKept == newWords = Pack(Words, Kept)

\* Each visited word reads the same symbols through its new offset.
ContentIsKept ==
    \A id \in visited : Slice(newWords, newStart[id], wordsData[id].length)
                          = Slice(Words, wordsData[id].start, wordsData[id].length)

\* The offset the loop computes from its run is the rank of the old one, which
\* is how InterningMonoid!Compact states it.
OffsetIsRank ==
    \A id \in visited : newStart[id] = Rank(Kept, wordsData[id].start)
================================================================================
