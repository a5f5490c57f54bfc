----------------------------- MODULE TotalTransducers -----------------------------
(***************************************************************************)
(* The life of a total transducer: it is given, or made from replace rules *)
(* (MarkerRewriting), brought to its canonical form and composed with      *)
(* another (Canonical); the result may be asked for as a compressed one,   *)
(* which is then used (CompressedSSFST).                                   *)
(***************************************************************************)
EXTENDS CompressedSSFST, MarkerRewriting

CONSTANTS
    HandedOver      \* the tasks whose transducer is not only made

totalVars == <<compressedVars, markerVars>>

NoTransducer == Total(0, <<>>, <<>>, <<>>)

Waiting ==
    /\ stage = "waiting"
    /\ fst = NoTransducer /\ result = NoTransducer /\ second = NoTransducer
    /\ estimate = <<>> /\ finalized = {}
    /\ compressed = {} /\ stored = FALSE /\ calls = 0

Unused ==
    /\ phase = "unused"
    /\ task = [marker |-> None, rules |-> {}]
    /\ minimize = FALSE /\ inserted = 0
    /\ stack = <<>> /\ nodes = <<>> /\ delays = <<>> /\ psi = <<>> /\ rows = <<>>

TotalInit == (CompressedInit /\ Unused) \/ (MarkerInit /\ Waiting)

Construct == MarkerNext /\ UNCHANGED compressedVars

\* What the rules were made into is an argument of canonicalizeFST().
HandOver ==
    /\ stage = "waiting" /\ phase = "complete" /\ task \in HandedOver
    /\ fst' = Made /\ result' = Made /\ second' = Made
    /\ estimate' = Seed(Made)
    /\ stage' = "relax" /\ phase' = "taken"
    /\ UNCHANGED <<finalized, task, minimize, inserted, stack, nodes, delays, psi, rows, compressed, stored, calls>>

\* Each of these is a call of a client.
Use == CompressedNext /\ UNCHANGED markerVars

TotalNext == Construct \/ HandOver \/ Use

TotalSpec == TotalInit /\ [][TotalNext]_totalVars
================================================================================
