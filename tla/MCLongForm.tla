----------------------------- MODULE MCLongForm ------------------------------
(* An instance of ChunkChain together with the pure parts of the long-form  *)
(* path: the split of the text before it, the filter at the joins behind.   *)
EXTENDS MCChunkChain, Sequences

CONSTANTS TargetBytes, MaxSentences, Hold, LeadMax, Gap

\* Every text of up to four characters, and the longer ones over the
\* characters that an oversize sentence is cut at.
MCChars == {"a", "1", ".", ",", "[", "]", "'", " ", "\n", "U+00E9", "U+3002", "U+FF0C"}
MCCuts == {"a", ".", ",", " ", "U+00E9", "U+FF0C"}
MCTexts == UNION {[1 .. n -> MCChars] : n \in 0 .. 4} \cup [1 .. 6 -> MCCuts]

C == INSTANCE Chunker WITH Texts <- MCTexts

\* Buffers of n samples, the loud ones numbered from base; three chunks, the
\* first two in up to two buffers.
MCBuffers(base, n) ==
  {[i \in 1 .. n |-> IF i \in loud THEN base + i ELSE 0] : loud \in SUBSET (1 .. n)}
MCTakes ==
  {<<a, <<b1, b2>>, <<c>>>> :
     a \in {<<s>> : s \in MCBuffers(10, 3) \cup MCBuffers(10, 4)}
           \cup {<<s, t>> : s \in MCBuffers(10, 2), t \in MCBuffers(14, 2)},
     b1 \in MCBuffers(20, 1) \cup MCBuffers(20, 2),
     b2 \in MCBuffers(30, 2) \cup MCBuffers(30, 3),
     c \in MCBuffers(40, 1)}

J == INSTANCE JoinFilter WITH Takes <- MCTakes

ASSUME PureConstants == C!ChunkerConstants /\ J!FilterConstants

\* They do not depend on the state: the initial ones are enough.
ChunksAreTheText == Init => C!ChunksAreTheText
JoinsAreTheGap == Init => J!JoinsAreTheGap
=============================================================================
