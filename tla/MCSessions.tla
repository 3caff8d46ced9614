----------------------------- MODULE MCSessions -----------------------------
(* Instances of Sessions, and of the functions of its frames that are        *)
(* checked on their own in the initial states, for TLC.                      *)
EXTENDS Sessions, Sampler

CONSTANT KvBits   \* kv_bits of a quantised cache

MCVoices == <<"v1", "v2">>
MCOthers == {"clone", "none"}
MCPartLen == [v1 |-> 3, v2 |-> 1, clone |-> 6]
MCPfChunks == {3}
MCTexts == <<"t1", "t2", "t3">>

\* One initial state, in which the functions below are checked.
Start == Init /\ pfChunk = Greatest(PfChunks)

-----------------------------------------------------------------------------
(* Two rows of a batch.  The scores differ in the first dimension, the      *)
(* second one sets the scale of a vector; keys of the first head of the      *)
(* first row are free, the others follow a pattern.                         *)

VectorsOf(first, seed, bits) ==
  [h \in 0 .. KvHeads - 1 |-> [p \in 0 .. MaxSeq - 1 |-> [d \in Dims |->
     IF d # 0 THEN (IF p % 2 = 0 THEN 1 ELSE -1) * QMax(bits)
     ELSE IF h = 0 THEN first[p] ELSE ((p + seed) % 3) - 1]]]

Ones == [p \in 0 .. MaxSeq - 1 |-> 1]
Ramp == [p \in 0 .. MaxSeq - 1 |-> 2 * p - 3]
Queries == [h \in 0 .. QHeads - 1 |-> [d \in Dims |-> IF d = 0 THEN 1 + (h % 2) ELSE 0]]
StalePart == [m |-> 7, l |-> 3, acc |-> [d \in Dims |-> 50]]
StaleRow == [a |-> 50, payload |-> [d \in Dims |-> 50]]

\* "dequant multiplies by exactly the stored f16 scale": what the attention
\* reads of a cache is what was appended, rounded to a step.
KvReadsBack == Start => \A bits \in KvBits, x \in [Dims -> -3 .. 3] : ReadsBack(x, bits)

\* Attention over a plain or a quantised cache is the softmax over what was
\* appended: for rows of every two lengths, launches of the longer one's
\* length or more, keys in every order of size; other vectors come back
\* rounded to a step.
AttentionIsExact ==
  /\ KvReadsBack
  /\ Start =>
    \A bits \in KvBits, keys \in [0 .. MaxSeq - 1 -> {-1, 1}],
       len \in 1 .. MaxSeq, other \in {1, MaxSeq} :
      \A maxLen \in Greatest({len, other}) .. MaxSeq :
        bits = 16 \/ maxLen = MaxSeq =>
          AttentionExact(<<VectorsOf(keys, 1, bits), VectorsOf(Ones, 2, bits)>>,
                         <<VectorsOf(Ramp, 1, bits), VectorsOf(Ramp, 2, bits)>>,
                         <<Queries, Queries>>, <<len, other>>, maxLen,
                         StalePart, StaleRow, bits)

-----------------------------------------------------------------------------

MCConfigs == {[temp |-> t, topp |-> p, pen |-> 2, window |-> w] :
                t \in {0, 1}, p \in {0, 60}, w \in {2, 9}}
MCLogits == [Cands -> {-2, 0, 2}]

\* The device sampler is an exact port of the host's, and both are what a
\* draw should be: at first and after two draws with all logits, and after five,
\* past the window, with some.
SamplersAgree ==
  Start =>
    /\ \A cfg \in MCConfigs, n \in {0, 2} : \A h \in [1 .. n -> Cands], cand \in MCLogits :
         SamplerExact(cfg, h, cand)
    /\ \A cfg \in MCConfigs, h \in [1 .. 5 -> Cands] :
         SamplerExact(cfg, h, [c \in Cands |-> IF c % 2 = 0 THEN 2 ELSE -2])
=============================================================================
