-------------------------------- MODULE WordSets --------------------------------
(***************************************************************************)
(* The word sets of include/wordset.hpp.  A WordSet gives a number to each *)
(* word that is added, a UniqueWordSet one number to equal words, and an   *)
(* ExtendableWordSet lets a word grow in the vector it was put in.         *)
(***************************************************************************)
EXTENDS PoolLayout

CONSTANTS
    Alphabet,       \* the symbols words are made of
    Inputs,         \* the words a client adds
    MaxIds,         \* of a set
    MaxSymbols      \* in a vector

ASSUME InputsAssumption == Inputs \subseteq Seq(Alphabet)

VARIABLES
    setType,
    words,          \* the symbols of a WordSet or a UniqueWordSet
    slices,         \* slices[id + 1] is wordsData[id], the slice of word number id
    wordMap,        \* UniqueWordSet: the nodes of the hash map, each with the word it was hashed as
    data,           \* ExtendableWordSet: the vectors the words lie in
    says,           \* says[id + 1] is the word the client asked number id for
    displaced       \* the numbers whose symbols were moved, and those made from what they read

setVars == <<setType, words, slices, wordMap, data, says, displaced>>

SetTypes == {"WordSet", "UniqueWordSet", "ExtendableWordSet"}
NextId == Len(slices)
Ids == 0 .. NextId - 1
Get(id) == Slice(words, slices[id + 1].start, slices[id + 1].length)
Room(symbols) == NextId < MaxIds /\ Len(symbols) <= MaxSymbols

\* Storage::insert(): a new number for symbols at the end of the vector.
Insert(word) ==
    /\ words' = words \o word
    /\ slices' = Append(slices, [start |-> Len(words), length |-> Len(word)])
    /\ says' = Append(says, word)
    /\ Room(words')

\* A new number for symbols that are there.
NewSlice(start, length) ==
    /\ slices' = Append(slices, [start |-> start, length |-> length])
    /\ says' = Append(says, Slice(words, start, length))
    /\ Room(words)
    /\ UNCHANGED words
--------------------------------------------------------------------------------
(* WordSet.                                                                  *)

AddWord(word) ==
    /\ setType = "WordSet"
    /\ Insert(word)
    /\ UNCHANGED <<setType, wordMap, data, displaced>>

CopyWord(id) ==
    /\ setType = "WordSet"
    /\ NewSlice(slices[id + 1].start, slices[id + 1].length)
    /\ UNCHANGED <<setType, wordMap, data, displaced>>

ReplaceWithSubstr(id, offset, length) ==
    /\ setType = "WordSet"
    /\ offset + length <= slices[id + 1].length
    /\ slices' = [slices EXCEPT ![id + 1] = [start |-> @.start + offset, length |-> length]]
    /\ says' = [says EXCEPT ![id + 1] = Slice(@, offset, length)]
    /\ UNCHANGED <<setType, words, wordMap, data, displaced>>

\* clear(): the empty word, which the constructor added, goes too.
Clear ==
    /\ setType \in {"WordSet", "UniqueWordSet"}
    /\ words' = <<>> /\ slices' = <<>> /\ wordMap' = {} /\ says' = <<>>
    /\ UNCHANGED <<setType, data, displaced>>
--------------------------------------------------------------------------------
(* UniqueWordSet.                                                            *)

\* find(): a node in the bucket of the word whose word is equal now.
Found(word) == {id \in Ids : <<id, word>> \in wordMap /\ Get(id) = word}

\* addWord(): nothing if the word has a number.
AddUnique(word) ==
    /\ setType = "UniqueWordSet"
    /\ Found(word) = {}
    /\ Insert(word)
    /\ wordMap' = wordMap \cup {<<NextId, word>>}
    /\ UNCHANGED <<setType, data, displaced>>

AddSubWord(id, offset, length) ==
    LET start == slices[id + 1].start + offset
    IN  /\ setType = "UniqueWordSet"
        /\ offset + length <= slices[id + 1].length
        /\ Found(Slice(words, start, length)) = {}
        /\ NewSlice(start, length)
        /\ wordMap' = wordMap \cup {<<NextId, Slice(words, start, length)>>}
        /\ UNCHANGED <<setType, data, displaced>>

\* toWordSet(): a copy with the same numbers.
ToWordSet ==
    /\ setType = "UniqueWordSet"
    /\ setType' = "WordSet"
    /\ wordMap' = {}
    /\ UNCHANGED <<words, slices, data, says, displaced>>

\* serialize() and the constructor from a stream.  The constructor has added the
\* empty word before it reads, and the node of that stays; the symbols are read
\* up to the largest end of a slice; then every number goes into the map.
TotalLength ==
    IF NextId = 0 THEN 0
    ELSE CHOOSE n \in {EndOf(slices[i]) : i \in 1 .. NextId} : \A i \in 1 .. NextId : EndOf(slices[i]) <= n

Reload ==
    /\ setType = "UniqueWordSet"
    /\ words' = SubSeq(words, 1, TotalLength)
    /\ wordMap' = {<<0, <<>>>>} \cup {<<id, Get(id)>> : id \in Ids}
    /\ UNCHANGED <<setType, slices, data, says, displaced>>
--------------------------------------------------------------------------------
(* ExtendableWordSet.                                                        *)

WordIn(vectors, slice) == Slice(vectors[slice.base + 1], slice.start, slice.length)
InBase(base, start, length, canExtend) == [base |-> base, start |-> start, length |-> length, canExtend |-> canExtend]

\* A number for a whole vector, which is added for it; the client asked for a word.
NewVector(symbols, word) ==
    /\ data' = Append(data, symbols)
    /\ slices' = Append(slices, InBase(Len(data), 0, Len(symbols), TRUE))
    /\ says' = Append(says, word)
    /\ Room(symbols)
    /\ UNCHANGED <<setType, words, wordMap>>

\* addWord(); the empty word has the number 0.
AddExtendable(word) ==
    /\ setType = "ExtendableWordSet"
    /\ word # <<>>
    /\ NewVector(word, word)
    /\ UNCHANGED displaced

\* A mistake extendWord() could make: the number that was extended may be again.
ExtendInPlaceAgain(id, extension) ==
    LET slice == slices[id + 1]
        longer == extension \o data[slice.base + 1]
        new == InBase(slice.base, slice.start, Len(longer) - slice.start, TRUE)
    IN  /\ setType = "ExtendableWordSet"
        /\ extension # <<>>
        /\ slice.canExtend
        /\ data' = [data EXCEPT ![slice.base + 1] = longer]
        /\ slices' = Append(slices, new)
        /\ says' = Append(says, says[id + 1] \o extension)
        /\ displaced' = displaced \cup {id, NextId}
        /\ Room(longer)
        /\ UNCHANGED <<setType, words, wordMap>>

\* extendWord() of a word that ends its vector: the new symbols are put in front
\* of the vector, and both numbers read other symbols than they are for.
ExtendInPlace(id, extension) ==
    LET slice == slices[id + 1]
        longer == extension \o data[slice.base + 1]
        new == InBase(slice.base, slice.start, Len(longer) - slice.start, TRUE)
    IN  /\ setType = "ExtendableWordSet"
        /\ extension # <<>>
        /\ slice.canExtend
        /\ data' = [data EXCEPT ![slice.base + 1] = longer]
        /\ slices' = Append([slices EXCEPT ![id + 1].canExtend = FALSE], new)
        /\ says' = Append(says, says[id + 1] \o extension)
        /\ displaced' = displaced \cup {id, NextId}
        /\ Room(longer)
        /\ UNCHANGED <<setType, words, wordMap>>

\* extendWord() of any other word: a vector of its own for what the number reads
\* and, at its end, the new symbols.
ExtendCopy(id, extension) ==
    /\ setType = "ExtendableWordSet"
    /\ extension # <<>>
    /\ ~slices[id + 1].canExtend
    /\ NewVector(WordIn(data, slices[id + 1]) \o extension, says[id + 1] \o extension)
    /\ displaced' = displaced \cup {n \in {NextId} : id \in displaced}

\* replaceWithSuffix(); for an empty suffix the number 0 is returned.
ReplaceWithSuffix(id, offset) ==
    /\ setType = "ExtendableWordSet"
    /\ offset < slices[id + 1].length
    /\ slices' = [slices EXCEPT ![id + 1].start = @ + offset, ![id + 1].length = @ - offset]
    /\ says' = [says EXCEPT ![id + 1] = SubSeq(@, offset + 1, Len(@))]
    /\ UNCHANGED <<setType, words, wordMap, data, displaced>>
--------------------------------------------------------------------------------
\* Every constructor adds the empty word.
SetInit ==
    /\ setType \in SetTypes
    /\ words = <<>>
    /\ slices = IF setType = "ExtendableWordSet" THEN <<InBase(0, 0, 0, FALSE)>> ELSE <<[start |-> 0, length |-> 0]>>
    /\ wordMap = IF setType = "UniqueWordSet" THEN {<<0, <<>>>>} ELSE {}
    /\ data = IF setType = "ExtendableWordSet" THEN <<<<>>>> ELSE <<>>
    /\ says = <<<<>>>>
    /\ displaced = {}

SetNext ==
    \/ \E word \in Inputs : AddWord(word) \/ AddUnique(word) \/ AddExtendable(word)
    \/ \E id \in Ids : CopyWord(id)
    \/ \E id \in Ids, offset, length \in 0 .. MaxSymbols :
          ReplaceWithSubstr(id, offset, length) \/ AddSubWord(id, offset, length)
    \/ \E id \in Ids, word \in Inputs : ExtendInPlace(id, word) \/ ExtendCopy(id, word)
    \/ \E id \in Ids, offset \in 0 .. MaxSymbols : ReplaceWithSuffix(id, offset)
    \/ Clear \/ ToWordSet \/ Reload

SetSpec == SetInit /\ [][SetNext]_setVars
--------------------------------------------------------------------------------
\* A number lies in its vector and is as long as the word it was asked for, also
\* when the vector has grown: the length that extendWord() computes from the
\* vector is right only if the word ends it.
LengthsAreKept ==
    \A id \in Ids :
        /\ EndOf(slices[id + 1]) <= Len(data[slices[id + 1].base + 1])
        /\ slices[id + 1].length = Len(says[id + 1])

\* A number means the word it was asked for: in a WordSet until it is replaced,
\* in a UniqueWordSet always, and there no other number means it and a search
\* finds it; in an ExtendableWordSet unless extendWord() moved its symbols, or
\* those it was copied from, whatever is extended in the other vectors.  All
\* its numbers, moved or not, are as long as their words.
IdsKeepTheirWords ==
    /\ setType # "ExtendableWordSet" => \A id \in Ids : Get(id) = says[id + 1]
    /\ setType = "UniqueWordSet" => \A id \in Ids : Found(says[id + 1]) = {id}
    /\ setType = "ExtendableWordSet" =>
          /\ \A id \in Ids \ displaced : WordIn(data, slices[id + 1]) = says[id + 1]
          /\ LengthsAreKept

\* The number extendWord() returns means the word and the extension, which is
\* what its copying branch makes of them, and what its comment says of the other:
\* only the length of the entry is new.
ExtensionsMeanWhatWasAsked ==
    setType = "ExtendableWordSet" =>
        \A id \in Ids : slices[id + 1].canExtend => WordIn(data, slices[id + 1]) = says[id + 1]
================================================================================
