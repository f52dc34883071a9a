----------------------------- MODULE ByteMatcher -----------------------------
(***************************************************************************)
(* _IncrementalByteMatcher of mcp_adapter/policy.py: it looks for fixed    *)
(* byte strings (the credential, and the credential as JSON writes it) in  *)
(* a response that arrives in chunks, reading every byte once.  It is the  *)
(* Knuth-Morris-Pratt algorithm with one state for each string.            *)
(* ToolResponse takes for granted that it finds a value wherever chunks    *)
(* cut it; here the algorithm is checked against what it should find.      *)
(***************************************************************************)
EXTENDS Naturals, FiniteSets, Sequences, SequencesExt, FiniteSetsExt

CONSTANTS
    Bytes,        \* the bytes that occur
    MaxPattern,   \* bound of a pattern's length
    MaxStream,    \* bound of the response
    MaxChunk      \* bound of a chunk

MatcherAssumption == {MaxPattern, MaxStream, MaxChunk} \subseteq Nat \ {0}

VARIABLES
    patterns,     \* the two strings looked for
    states,       \* how much of each is matched
    stream,       \* what has been fed
    found         \* feed has returned True (the caller's flag stays set)

vars == <<patterns, states, stream, found>>

Strings(n) == UNION {[1..k -> Bytes] : k \in 1..n}

\* The inner loop of _prefix_table and of feed: fall back until the byte
\* continues what is matched, then take it.
Advance(pattern, prefix, matched, byte) ==
    LET fall[k \in 0..matched] ==
            IF k = 0 \/ byte = pattern[k + 1] THEN k ELSE fall[prefix[k]]
        kept == fall[matched]
    IN  IF byte = pattern[kept + 1] THEN kept + 1 ELSE kept

\* Mutant: after a mismatch the search starts again from nothing.
PrefixTable_Zero(pattern) == [i \in 1..Len(pattern) |-> 0]

\* _prefix_table.
PrefixTable(pattern) ==
    LET prefix[i \in 1..Len(pattern)] ==
            IF i = 1 THEN 0
            ELSE LET earlier == [j \in 1..i - 1 |-> prefix[j]]
                 IN  Advance(pattern, earlier, prefix[i - 1], pattern[i])
    IN  prefix

Init ==
    /\ patterns \in [1..2 -> Strings(MaxPattern)]
    /\ states = [i \in 1..2 |-> 0] /\ stream = <<>> /\ found = FALSE

Hits(after) == {i \in 1..2 : after[i] = Len(patterns[i])}

\* The states after one byte.  A string that is matched ends feed at once:
\* its state, and those of the strings after it, stay as they were.
Step(before, byte) ==
    LET after == [i \in 1..2 |-> Advance(patterns[i], PrefixTable(patterns[i]), before[i], byte)]
    IN  IF Hits(after) = {} THEN [hit |-> FALSE, states |-> after]
        ELSE [hit |-> TRUE,
              states |-> [i \in 1..2 |-> IF i < Min(Hits(after)) THEN after[i] ELSE before[i]]]

\* feed: byte by byte until a match; the rest of the chunk is not looked at.
Feed(chunk) ==
    LET fed[k \in 0..Len(chunk)] ==
            IF k = 0 THEN [hit |-> FALSE, states |-> states]
            ELSE IF fed[k - 1].hit THEN fed[k - 1] ELSE Step(fed[k - 1].states, chunk[k])
        result == fed[Len(chunk)]
    IN  /\ Len(stream) + Len(chunk) <= MaxStream
        /\ stream' = stream \o chunk
        /\ states' = result.states
        /\ found' = (found \/ result.hit)
        /\ UNCHANGED patterns

Next == \E chunk \in Strings(MaxChunk) : Feed(chunk)

Spec == Init /\ [][Next]_vars
-----------------------------------------------------------------------------
TypeOK ==
    /\ patterns \in [1..2 -> Strings(MaxPattern)]
    /\ \A i \in 1..2 : states[i] \in 0..Len(patterns[i]) - 1
    /\ stream \in Seq(Bytes) /\ Len(stream) <= MaxStream
    /\ found \in BOOLEAN

\* The matcher has reported a match exactly when one of the strings occurs in
\* what was fed, however the response was cut into chunks and however the
\* strings overlap themselves, each other, or an earlier partial match.
FoundWhereverCut ==
    found = \E i \in 1..2, start \in 0..Len(stream) :
                /\ start + Len(patterns[i]) <= Len(stream)
                /\ SubSeq(stream, start + 1, start + Len(patterns[i])) = patterns[i]

\* Until then each state is the longest beginning of its string that the
\* response ends with: nothing that could still become a match is forgotten
\* between two chunks.
StatesAreLongest ==
    ~found => \A i \in 1..2 :
        states[i] = Max({k \in 0..Len(patterns[i]) :
                            k <= Len(stream) /\ IsSuffix(SubSeq(patterns[i], 1, k), stream)})
=============================================================================
