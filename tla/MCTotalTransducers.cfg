SPECIFICATION TotalSpec
CONSTANTS
    Letters <- Letters0
    Tasks <- Tasks0
    HandedOver <- HandedOver0
    MaxText = 6
    MaxRead = 3
    Firsts <- Firsts0
    Seconds <- Seconds0
    FlagBit = 128
    Asked <- Asked0
    MaxCalls = 2
CHECK_DEADLOCK FALSE
INVARIANTS
    TrieHoldsTheRules
    MarkedTextsAreRewritten
    CanonicalIsOnward
    ComposedIsComposition
    CompressedKeepsTheFunction
