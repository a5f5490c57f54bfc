-------------------------------- MODULE WordPools --------------------------------
(***************************************************************************)
(* The clients of words that are known by a number: the loop that compacts *)
(* a pool, the labels of a transducer, whose numbers it renews, and the    *)
(* older word sets.  A behaviour is about one of them.                     *)
(***************************************************************************)
EXTENDS CompactLoop, WordSets, MachineLabels

VARIABLE part

poolVars == <<part, vars, labelVars, setVars>>

LabelsIdle ==
    /\ kind = "SparseFST" /\ machine = NewMachine(kind) /\ meant = Denoted(machine)
    /\ source = LabelOf(MonoidOf(kind), <<<<>>, <<>>>>)
SetsIdle == SetInit /\ setType = "WordSet"
LoopIdle ==
    /\ wordsData = [id \in LiveIds |-> [start |-> 0, length |-> 0]]
    /\ visited = {} /\ newStart = [id \in LiveIds |-> 0] /\ newWords = <<>>
    /\ runOldStart = 0 /\ runOldEnd = 0 /\ runNewStart = 0 /\ haveRun = FALSE

PoolsInit ==
    \/ part = "loop" /\ Init /\ LabelsIdle /\ SetsIdle
    \/ part = "labels" /\ LabelsInit /\ LoopIdle /\ SetsIdle
    \/ part = "sets" /\ SetInit /\ LoopIdle /\ LabelsIdle

PoolsNext ==
    /\ \/ part = "loop" /\ Next /\ UNCHANGED <<labelVars, setVars>>
       \/ part = "labels" /\ LabelsNext /\ UNCHANGED <<vars, setVars>>
       \/ part = "sets" /\ SetNext /\ UNCHANGED <<vars, labelVars>>
    /\ UNCHANGED part

PoolsSpec == PoolsInit /\ [][PoolsNext]_poolVars
================================================================================
