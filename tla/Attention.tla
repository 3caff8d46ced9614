------------------------------ MODULE Attention ------------------------------
(* Attention over a KV cache (kernels.cu): the append at 16, 8 or 4 bits an  *)
(* element, the tiled pass of prefill, the split pass and the merge of a     *)
(* decode, for caches of any width.  Queries, keys and values are small      *)
(* integers, the exponential is a power of two scaled by Span, and a         *)
(* rescaling is an exact division: an output is its numerator and            *)
(* denominator.  A head's vector is one group of the quantisation, and its   *)
(* scale is kept exactly.                                                    *)
EXTENDS Integers, Sequences, FiniteSets, SequencesExt

CONSTANTS
  Tile,     \* S2PK_ATTN_TILE
  Split,    \* S2PK_SPLIT
  KvHeads,  \* kv_heads
  Group,    \* query heads to a kv head
  HeadDim,  \* head_dim
  MaxSeq,   \* max_seq: positions of a cache
  Span      \* bound: the largest difference of two scores

ASSUME AttentionConstants ==
  {Tile, Split, KvHeads, Group, HeadDim, MaxSeq, Span} \subseteq Nat \ {0}

QHeads == KvHeads * Group
Dims == 0 .. HeadDim - 1

Least2(a, b) == IF a < b THEN a ELSE b
Greatest(S) == CHOOSE x \in S : \A y \in S : y <= x
AbsOf(x) == IF x < 0 THEN -x ELSE x
Total(S, Val(_)) == FoldLeft(LAMBDA s, x : s + Val(x), 0, SetToSeq(S))

-----------------------------------------------------------------------------
(* What a cache keeps of a vector: a scale a / QMax and its payload.        *)

QMax(bits) == CASE bits = 16 -> 1 [] bits = 8 -> 127 [] bits = 4 -> 7
Int8(n) == ((n + 128) % 256) - 128

\* x * num / den, rounded to the nearest, halves to even.
Rounded(x, num, den) ==
  LET f == (2 * x * num + den) \div (2 * den)
  IN  IF (2 * x * num + den) % (2 * den) = 0 /\ f % 2 = 1 THEN f - 1 ELSE f

\* k_kv_append8: at 4 bits a byte holds two elements.
Stored(x, bits) ==
  LET a == Greatest({AbsOf(x[d]) : d \in Dims})
      q == [d \in Dims |-> IF a = 0 THEN 0 ELSE Rounded(x[d], QMax(bits), a)]
  IN  CASE bits = 16 -> [a |-> 1, payload |-> x]
        [] bits = 8 -> [a |-> a, payload |-> [d \in Dims |-> Int8(q[d])]]
        [] bits = 4 -> [a |-> a, payload |-> [b \in 0 .. HeadDim \div 2 - 1 |->
                          Int8((q[2 * b] % 16) + 16 * (q[2 * b + 1] % 16))]]

\* The number an element is read as.
Fetched(st, d, bits) ==
  IF bits # 4 THEN st.payload[d]
  ELSE LET byte == st.payload[d \div 2]
           nib == IF d % 2 = 1 THEN byte \div 16 ELSE byte % 16
       IN  Int8((nib * 16) \div 16)

Element(st, d, bits) == (Fetched(st, d, bits) * st.a) \div QMax(bits)

\* Where head h keeps its vector of position p.
PlaneIx(h, p) == h * MaxSeq + p

\* k_kv_append for the row of one cache: vecs is that row, head by head.
KvAppend(plane, vecs, p, bits) ==
  [k \in DOMAIN plane |->
     IF k % MaxSeq = p THEN Stored(vecs[k \div MaxSeq], bits) ELSE plane[k]]

-----------------------------------------------------------------------------
(* A prefill: tile by tile with a running maximum.                          *)

\* The scores of the positions ps for the query qh of one head.
Scores(plane, qh, kvh, ps, bits) ==
  [p \in ps |-> Total(Dims, LAMBDA d : qh[d] * Element(plane[PlaneIx(kvh, p)], d, bits))]

Exp2(x) == 2 ^ (Span + x)
NegInfScore == -1000

\* The mass of the positions of s under the maximum m, and what they add up to.
Mass(s, m) == Total(DOMAIN s, LAMBDA p : Exp2(s[p] - m))
Weighted(plane, s, m, kvh, bits) ==
  [d \in Dims |->
     Total(DOMAIN s, LAMBDA p : Exp2(s[p] - m) * Element(plane[PlaneIx(kvh, p)], d, bits))]

\* k_attention, k_attention8
AttentionRow(kp, vp, q, len, bits) ==
  [h \in 0 .. QHeads - 1 |->
     LET kvh == h \div (QHeads \div KvHeads)
         Step(a, t) ==
           LET s == Scores(kp, q[h], kvh, t * Tile .. Least2((t + 1) * Tile, len) - 1, bits)
               m == Greatest({a.m} \cup {s[p] : p \in DOMAIN s})
               Rescaled(x) == IF a.m = NegInfScore THEN 0 ELSE x \div 2 ^ (m - a.m)
               add == Weighted(vp, s, m, kvh, bits)
           IN  [m |-> m, l |-> Rescaled(a.l) + Mass(s, m),
                acc |-> [d \in Dims |-> Rescaled(a.acc[d]) + add[d]]]
         all == FoldLeft(Step, [m |-> NegInfScore, l |-> 0, acc |-> [d \in Dims |-> 0]],
                         [t \in 1 .. ((len + Tile - 1) \div Tile) |-> t - 1])
     IN  [acc |-> all.acc, l |-> all.l]]

-----------------------------------------------------------------------------
(* A decode: one row a session, each with its caches and its length.        *)

NSplits_Down(maxLen) == maxLen \div Split

\* s2pk_attention_decode: the splits that are launched for every row.
NSplits(maxLen) == (maxLen + Split - 1) \div Split

\* k_attn_split, k_attn_split8: the partial results, in place of what part
\* held.  Past the length of its row a split writes its header only.
Partials(part, kps, vps, qs, lens, n, bits) ==
  [k \in DOMAIN part |->
     LET row == k \div (QHeads * n) + 1
         h == (k \div n) % QHeads
         kvh == h \div Group
         start == (k % n) * Split
         s == Scores(kps[row], qs[row][h], kvh,
                     start .. start + Least2(Split, lens[row] - start) - 1, bits)
         m == Greatest({s[p] : p \in DOMAIN s})
     IN  IF start >= lens[row] THEN [part[k] EXCEPT !.m = NegInfScore, !.l = 0]
         ELSE [m |-> m, l |-> Mass(s, m), acc |-> Weighted(vps[row], s, m, kvh, bits)]]

\* k_attn_combine for one row and head.
Combine(part, row, h, n) ==
  LET Ph(s) == part[((row - 1) * QHeads + h) * n + s]
      m == Greatest({Ph(s).m : s \in 0 .. n - 1})
      some == {s \in 0 .. n - 1 : Ph(s).l # 0}
      Rescaled(x, s) == x \div 2 ^ (m - Ph(s).m)
  IN  [acc |-> [d \in Dims |-> Total(some, LAMBDA s : Rescaled(Ph(s).acc[d], s))],
       l |-> Total(some, LAMBDA s : Rescaled(Ph(s).l, s))]

\* The buffer is scratch memory: it starts as whatever the last launch left.
AttentionDecode(stale, kps, vps, qs, lens, maxLen, bits) ==
  LET n == NSplits(maxLen)
      part == Partials([k \in 0 .. Len(lens) * QHeads * n - 1 |-> stale],
                       kps, vps, qs, lens, n, bits)
  IN  [row \in DOMAIN lens |-> [h \in 0 .. QHeads - 1 |-> Combine(part, row, h, n)]]

-----------------------------------------------------------------------------
(* What the outputs should be.                                              *)

\* The softmax over the vectors keys[h][p] and values[h][p] of the first len
\* positions, by its definition.
ReferenceRow(keys, values, q, len) ==
  [h \in 0 .. QHeads - 1 |->
     LET kvh == h \div Group
         ps == 0 .. len - 1
         s == [p \in ps |-> Total(Dims, LAMBDA d : q[h][d] * keys[kvh][p][d])]
         m == Greatest({s[p] : p \in ps})
     IN  [acc |-> [d \in Dims |-> Total(ps, LAMBDA p : Exp2(s[p] - m) * values[kvh][p][d])],
          l |-> Mass(s, m)]]

\* The cache of the first len positions, appended one by one to stale memory.
CacheOf(vectors, len, stale, bits) ==
  FoldLeft(LAMBDA c, p : KvAppend(c, [h \in 0 .. KvHeads - 1 |-> vectors[h][p]], p, bits),
           [k \in 0 .. KvHeads * MaxSeq - 1 |-> stale], [p \in 1 .. len |-> p - 1])

\* Each row of a decode, and a prefill that ends where it does, is given the
\* softmax over the vectors appended for its own positions: the split pass
\* over splits enough for the longest row, whatever the partial buffer and
\* the caches past a row held before.
AttentionExact(keys, values, qs, lens, maxLen, stalePart, staleRow, bits) ==
  LET kps == [row \in DOMAIN lens |-> CacheOf(keys[row], lens[row], staleRow, bits)]
      vps == [row \in DOMAIN lens |-> CacheOf(values[row], lens[row], staleRow, bits)]
      dec == AttentionDecode(stalePart, kps, vps, qs, lens, maxLen, bits)
  IN  \A row \in DOMAIN lens :
        LET ref == ReferenceRow(keys[row], values[row], qs[row], lens[row])
        IN  /\ dec[row] = ref
            /\ AttentionRow(kps[row], vps[row], qs[row], lens[row], bits) = ref

\* An element comes back within half a step of what was stored.
ReadsBack(x, bits) ==
  LET st == Stored(x, bits)
  IN  \A d \in Dims : 2 * AbsOf(Fetched(st, d, bits) * st.a - x[d] * QMax(bits)) <= st.a
=============================================================================
