--------------------------- MODULE SessionsProofs ---------------------------
(* What Sessions promises, for every number of slots and codebooks, every   *)
(* size of the prefix cache, the context, the scratch memory and a chunk,   *)
(* every registry of voices and every sequence of requests: a session's     *)
(* cache holds its own prompt and frames, its client hears its own text,    *)
(* and a voice that was warmed stays warm.                                  *)
EXTENDS Sessions, FiniteSetTheorems, SequenceTheorems, WellFoundedInduction, TLAPS

-----------------------------------------------------------------------------
(* The inductive invariant.                                                 *)

Names == ToSet(Voices) \cup Others

\* What a cache is made of.
Code == STRING \X Nat \X Nat
Col == [Codebooks -> Code]
Kinds == {"system", "convert", "ref", "speech", "end", "user", "text", "voice"}
Words == STRING \cup {""}
Tok == ({"sem"} \X Code) \cup (Kinds \X Words)
KvRow == [tok : Tok, col : Col \cup {<<>>}]

\* The rows of a prompt, prefilled at once, and those of a voice's prefix.
Whole(p) ==
  [j \in DOMAIN p.ids |->
     RowOf(p.ids[j], IF p.mask[j] THEN Column(p.parts[1], j - PartStarts(p.mask, p.parts)[1] + 1)
                     ELSE <<>>)]
Prefix(v) == PromptBuild(RequestFor(v, ""))
SysRows(v) == SubSeq(Whole(Prefix(v)), 1, Prefix(v).nsys)

SessionRec == [st : {"NEW", "PREFILLED", "DECODING"}, kv : Seq(KvRow), prev : Col \cup {<<>>}]
ActiveRec == [on : {TRUE}, req : DOMAIN Prompts, hit : BOOLEAN, pos : Nat, next : {1, 2},
              inserted : BOOLEAN, prefilling : BOOLEAN, fresh : BOOLEAN, heard : Seq(Col),
              sess : SessionRec]
EntryRec == [name : Words, P : Nat, blob : Seq(KvRow), use : Nat]

Types ==
  /\ pfChunk \in PfChunks /\ rr \in Slots /\ starts \in 0 .. Len(Texts)
  /\ kvc \in [entries : [1 .. Cap -> EntryRec], tick : Nat]
  /\ warm \in [next : 1 .. Len(Voices) + 1, ok : SUBSET ToSet(Voices)]
  /\ act \in [Slots -> ActiveRec \cup {Free}]
  /\ graphs \in [1 .. NSlots -> {0, NSplits(Ctx)}]
  /\ slab = [b \in 1 .. NSlots |-> [p \in 1 .. SlabLen |-> slab[b][p]]]

\* A chunk that ends at pos has cut no reference, and next is the part the
\* following one begins with.
Uncut(q, pos, next) ==
  q.parts # <<>> =>
    LET at == PartStarts(q.mask, q.parts)[1]
    IN  \/ next = 1 /\ pos < at
        \/ next = 2 /\ pos >= at + q.parts[1].T - 1

\* A session is prefilled chunk by chunk, is fresh, or decodes.
Stage(a) ==
  /\ a.prefilling =>
       /\ ~a.fresh /\ a.heard = <<>> /\ a.sess.st # "DECODING"
       /\ a.pos < Len(Plan(a).ids) /\ Uncut(Plan(a), a.pos, a.next)
  /\ a.fresh => a.heard = <<>> /\ a.sess.st = "PREFILLED"
  /\ ~a.prefilling /\ ~a.fresh =>
       /\ a.sess.st = "DECODING" /\ a.heard # <<>>
       /\ a.sess.prev = a.heard[Len(a.heard)]

\* Its cache, and what its client has heard.
Holds(a) ==
  LET p == Prompts[a.req]
  IN  /\ a.sess.kv = IF a.prefilling
                       THEN SubSeq(PromptRows[a.req], 1, a.pos + (IF a.hit THEN p.nsys ELSE 0))
                       ELSE PromptRows[a.req] \o FrameRows(a)
      /\ Len(a.sess.kv) <= Ctx
      /\ a.heard = [k \in DOMAIN a.heard |-> FrameOf(<<a.req.text, Len(p.ids) + k - 1>>)]

\* An entry of the prefix cache is the prefix of the voice it is named after.
EntryOk(e) ==
  e.name # "" =>
    /\ e.name \in ToSet(Voices) /\ e.P = Prefix(e.name).nsys /\ e.P \in 1 .. Ctx
    /\ e.blob = SysRows(e.name)

\* The prefixes made before serving lie one behind the other, and stay.
Warmed ==
  /\ starts = 0 =>
       /\ \A e \in warm.next .. Cap : kvc.entries[e].name = ""
       /\ \A i \in Slots : ~Busy(i)
  /\ starts = 0 \/ warm.ok = ToSet(Voices) =>
       \A v \in warm.ok : v # "" => Named(kvc, v) # {}

IInv ==
  /\ Types
  /\ \A i \in Slots : Busy(i) => Stage(act[i]) /\ Holds(act[i])
  /\ \A e \in 1 .. Cap : EntryOk(kvc.entries[e])
  /\ Warmed /\ WarmStaysWarm
  /\ OnlyTooLongRefused

-----------------------------------------------------------------------------
(* Numbers and sequences.                                                   *)

\* A nonempty set of numbers has a least one: intervals that shrink cannot
\* do so for ever.
LEMMA LeastNat ==
  ASSUME NEW T \in SUBSET Nat, T # {}
  PROVE  \E x \in T : \A y \in T : x <= y
<1> DEFINE U == {1 .. n : n \in T}
<1>1. U # {}
  OBVIOUS
<1>2. U \subseteq FiniteSubsetsOf(Nat)
  <2> SUFFICES ASSUME NEW n \in T PROVE 1 .. n \in FiniteSubsetsOf(Nat)
    OBVIOUS
  <2>1. IsFiniteSet(1 .. n) /\ 1 .. n \subseteq Nat
    BY FS_Interval
  <2> QED BY <2>1 DEF FiniteSubsetsOf
<1>3. PICK u \in U : \A w \in U : <<w, u>> \notin StrictSubsetOrdering(Nat)
  <2> HIDE DEF U
  <2> QED BY <1>1, <1>2, FS_StrictSubsetOrderingWellFounded, WFMin
<1>4. PICK x \in T : u = 1 .. x
  OBVIOUS
<1>5. ASSUME NEW y \in T, y < x PROVE FALSE
  <2>1. 1 .. y \subseteq Nat /\ 1 .. x \subseteq Nat /\ 1 .. y \subseteq 1 .. x
    BY <1>5
  <2>2. x \in 1 .. x /\ x \notin 1 .. y
    BY <1>5
  <2>3. <<1 .. y, 1 .. x>> \in StrictSubsetOrdering(Nat)
    BY <2>1, <2>2 DEF StrictSubsetOrdering
  <2> QED BY <2>3, <1>3, <1>4
<1> QED BY <1>5

\* A property of 0 that passes from a number to the next holds of all.
LEMMA Induction ==
  ASSUME NEW G, 0 \in G, \A n \in Nat : n \in G => n + 1 \in G
  PROVE  Nat \subseteq G
<1> SUFFICES ASSUME Nat \ G # {} PROVE FALSE
  OBVIOUS
<1>1. PICK x \in Nat \ G : \A y \in Nat \ G : x <= y
  BY LeastNat
<1>2. x - 1 \in Nat /\ x - 1 \in G
  BY <1>1
<1> QED BY <1>1, <1>2

\* The constants of the code are positive numbers.
LEMMA Numbers ==
  /\ NSlots \in Nat \ {0} /\ NumCodebooks \in Nat \ {0} /\ Ctx \in Nat \ {0}
  /\ ScratchRows \in Nat \ {0} /\ FrameCap \in Nat \ {0} /\ Split \in Nat \ {0} /\ Cap \in Nat
  BY SessionsConstants, AttentionConstants

\* A codebook and a column are recovered from an index of the flat codes.
LEMMA DivMod ==
  ASSUME NEW q \in Nat, NEW b \in Nat \ {0}, NEW r \in 0 .. b - 1
  PROVE  (q * b + r) % b = r /\ (q * b + r) \div b = q
  OBVIOUS

\* The splits that are launched reach the longest row.
LEMMA SplitsReach ==
  ASSUME NEW n \in Nat
  PROVE  NSplits(n) \in Nat /\ NSplits(n) * Split >= n
  BY Numbers DEF NSplits

\* A tuple of one element.
LEMMA OneElement ==
  ASSUME NEW x
  PROVE  Len(<<x>>) = 1 /\ DOMAIN <<x>> = 1 .. 1 /\ <<x>>[1] = x
  OBVIOUS

\* The elements of a concatenation.
LEMMA ConcatAt ==
  ASSUME NEW S, NEW s \in Seq(S), NEW t \in Seq(S)
  PROVE  /\ s \o t \in Seq(S) /\ Len(s \o t) = Len(s) + Len(t)
         /\ \A j \in 1 .. Len(s) : (s \o t)[j] = s[j]
         /\ \A j \in 1 .. Len(t) : (s \o t)[Len(s) + j] = t[j]
<1>1. s \o t \in Seq(S) /\ Len(s \o t) = Len(s) + Len(t)
  BY ConcatProperties
<1>2. ASSUME NEW j \in 1 .. Len(s) PROVE (s \o t)[j] = s[j]
  BY ConcatProperties
<1>3. ASSUME NEW j \in 1 .. Len(t) PROVE (s \o t)[Len(s) + j] = t[j]
  BY ConcatProperties
<1> QED BY <1>1, <1>2, <1>3

\* The elements of a slice.
LEMMA SubSeqFacts ==
  ASSUME NEW S, NEW s \in Seq(S), NEW a \in Nat, NEW b \in Nat, a <= b, b <= Len(s)
  PROVE  /\ SubSeq(s, a + 1, b) \in Seq(S) /\ Len(SubSeq(s, a + 1, b)) = b - a
         /\ \A j \in 1 .. b - a : SubSeq(s, a + 1, b)[j] = s[a + j]
<1>1. SubSeq(s, a + 1, b) \in Seq(S) /\ Len(SubSeq(s, a + 1, b)) = b - a
  BY SubSeqProperties
<1>2. ASSUME NEW j \in 1 .. b - a PROVE SubSeq(s, a + 1, b)[j] = s[a + j]
  BY SubSeqProperties
<1> QED BY <1>1, <1>2

\* FlattenSeq of one sequence.
LEMMA FlattenOne ==
  ASSUME NEW S, NEW s \in Seq(S)
  PROVE  FlattenSeq(<<s>>) = s
<1> DEFINE f == [i \in 1 .. Len(<<s>>) |-> s]
<1>1. f = [i \in 1 .. Len(<<s>>) |-> IF i = 1 THEN <<s>>[i] ELSE f[i - 1] \o <<s>>[i]]
  BY OneElement
<1>2. \A g : g = [i \in 1 .. Len(<<s>>) |-> IF i = 1 THEN <<s>>[i] ELSE g[i - 1] \o <<s>>[i]]
             => g[1] = s
  BY OneElement
<1> HIDE DEF f
<1> QED BY <1>1, <1>2, OneElement DEF FlattenSeq

-----------------------------------------------------------------------------
(* Prompts and their parts.                                                 *)

\* What was laid out codebook by codebook is read column by column.
LEMMA ColumnFlat ==
  ASSUME NEW cols \in Seq(Col), NEW t \in 1 .. Len(cols)
  PROVE  Column(Flat(cols), t) = cols[t]
<1> DEFINE T == Len(cols)
<1>1. T \in Nat \ {0} /\ cols[t] \in Col
  OBVIOUS
<1>2. ASSUME NEW cb \in Codebooks
      PROVE  Flat(cols).codes[(cb - 1) * T + t] = cols[t][cb]
  <2> DEFINE k == (cb - 1) * T + t
  <2>1. cb \in Nat /\ cb >= 1 /\ cb <= NumCodebooks
    BY Numbers DEF Codebooks
  <2>2. PICK q \in Nat : q = cb - 1
    BY <2>1
  <2>3. k - 1 = q * T + (t - 1) /\ t - 1 \in 0 .. T - 1
    BY <2>2, <1>1
  <2>4. (k - 1) % T = t - 1 /\ (k - 1) \div T = q
    <3>1. (q * T + (t - 1)) % T = t - 1 /\ (q * T + (t - 1)) \div T = q
      <4> HIDE DEF T
      <4> QED BY <2>3, <2>2, <1>1, DivMod
    <3> QED BY <3>1, <2>3
  <2>5. k \in 1 .. NumCodebooks * T
    <3>1. q + 1 <= NumCodebooks /\ NumCodebooks \in Nat
      BY <2>1, <2>2, Numbers
    <3>2. (q + 1) * T <= NumCodebooks * T
      <4> HIDE DEF T
      <4> QED BY <3>1, <1>1
    <3>3. k >= 1 /\ k <= (q + 1) * T
      <4>1. t \in Nat /\ 1 <= t /\ t <= T
        OBVIOUS
      <4> HIDE DEF T
      <4>2. PICK m \in Nat : m = q * T
        BY <2>2, <1>1
      <4>3. (q + 1) * T = m + T
        BY <2>2, <1>1, <4>2
      <4>4. k = m + t
        BY <2>2, <4>2
      <4> HIDE DEF k
      <4> QED BY <1>1, <4>1, <4>2, <4>3, <4>4
    <3>4. k \in Int
      BY <2>1, <1>1
    <3> HIDE DEF T, k
    <3> QED BY <3>2, <3>3, <3>4, <1>1, Numbers
  <2> HIDE DEF k
  <2>6. Flat(cols).codes[k] = cols[((k - 1) % T) + 1][((k - 1) \div T) + 1]
    BY <2>5 DEF Flat
  <2> QED BY <2>6, <2>4, <2>2, <2>1 DEF k
<1>3. Column(Flat(cols), t) = [cb \in Codebooks |-> cols[t][cb]]
  <2>1. Flat(cols).T = T
    BY DEF Flat
  <2> HIDE DEF T
  <2> QED BY <1>2, <2>1 DEF Column
<1> QED BY <1>1, <1>3 DEF Col

\* The columns of a part are counted once.
LEMMA FlatT == ASSUME NEW cols PROVE Flat(cols).T = Len(cols)
  BY DEF Flat

\* No part has no columns.
LEMMA TotalNone == TotalT(<<>>) = 0
<1> DEFINE f == [p \in 0 .. 0 |-> 0]
<1>1. f = [p \in 0 .. Len(<<>>) |-> IF p = 0 THEN 0 ELSE f[p - 1] + <<>>[p].T]
  OBVIOUS
<1>2. \A g : g = [p \in 0 .. Len(<<>>) |-> IF p = 0 THEN 0 ELSE g[p - 1] + <<>>[p].T]
             => g[Len(<<>>)] = 0
  OBVIOUS
<1> HIDE DEF f
<1> QED BY <1>1, <1>2 DEF TotalT

\* The columns of a single part.
LEMMA TotalOne == ASSUME NEW x, x.T \in Nat PROVE TotalT(<<x>>) = x.T
<1> DEFINE f == [p \in 0 .. 1 |-> IF p = 0 THEN 0 ELSE x.T]
<1>1. f = [p \in 0 .. Len(<<x>>) |-> IF p = 0 THEN 0 ELSE f[p - 1] + <<x>>[p].T]
  BY OneElement
<1>2. \A g : g = [p \in 0 .. Len(<<x>>) |-> IF p = 0 THEN 0 ELSE g[p - 1] + <<x>>[p].T]
             => g[Len(<<x>>)] = x.T
  <2> SUFFICES ASSUME NEW g,
                      g = [p \in 0 .. 1 |-> IF p = 0 THEN 0 ELSE g[p - 1] + <<x>>[p].T]
               PROVE  g[1] = x.T
    BY OneElement
  <2>1. g[0] = 0
    OBVIOUS
  <2>2. g[1] = g[0] + <<x>>[1].T
    OBVIOUS
  <2> QED BY <2>1, <2>2, OneElement
<1> HIDE DEF f
<1> QED BY <1>1, <1>2 DEF TotalT

\* The run of a single part.
LEMMA RunStart ==
  ASSUME NEW mask \in Seq(BOOLEAN), NEW h \in Nat, NEW n \in Nat \ {0}, h + n <= Len(mask),
         \A j \in 1 .. Len(mask) : mask[j] <=> h < j /\ j <= h + n,
         NEW part
  PROVE  DOMAIN PartStarts(mask, <<part>>) = {1} /\ PartStarts(mask, <<part>>)[1] = h + 1
<1> DEFINE NextMasked(j) ==
             CHOOSE k \in j .. Len(mask) + 1 :
               /\ k = Len(mask) + 1 \/ mask[k]
               /\ \A m \in j .. k - 1 : ~mask[m]
           f == [p \in {1} |-> NextMasked(1)]
           Body(g, p) == NextMasked(IF p = 1 THEN 1 ELSE g[p - 1] + <<part>>[p - 1].T)
<1>1. NextMasked(1) = h + 1
  <2>1. \A k \in 1 .. Len(mask) + 1 :
          (k = Len(mask) + 1 \/ mask[k]) /\ (\A m \in 1 .. k - 1 : ~mask[m]) <=> k = h + 1
    OBVIOUS
  <2>2. h + 1 \in 1 .. Len(mask) + 1
    OBVIOUS
  <2> QED BY <2>1, <2>2
<1>2. DOMAIN <<part>> = {1}
  BY OneElement
<1> HIDE DEF NextMasked
<1>3. f = [p \in DOMAIN <<part>> |-> Body(f, p)]
  BY <1>2
<1>4. \A g : g = [p \in DOMAIN <<part>> |-> Body(g, p)] => DOMAIN g = {1} /\ g[1] = NextMasked(1)
  BY <1>2
<1>5. PartStarts(mask, <<part>>) = CHOOSE g : g = [p \in DOMAIN <<part>> |-> Body(g, p)]
  BY DEF PartStarts, NextMasked
<1> HIDE DEF f, Body
<1> QED BY <1>1, <1>3, <1>4, <1>5

\* A prompt, or a piece of one, with its run of codes whole: s are the columns
\* of the run, h the tokens ahead of it.
PlanOk(q, h, s) ==
  /\ q.ids \in Seq(Tok) /\ q.mask \in Seq(BOOLEAN) /\ Len(q.mask) = Len(q.ids)
  /\ h \in Nat /\ s \in Seq(Col) /\ h + Len(s) <= Len(q.ids)
  /\ \A j \in 1 .. Len(q.ids) : q.mask[j] <=> h < j /\ j <= h + Len(s)
  /\ q.parts = IF s = <<>> THEN <<>> ELSE <<Flat(s)>>

\* The run of the only part begins behind the h tokens ahead of it.
LEMMA PlanStart ==
  ASSUME NEW q, NEW h, NEW s, PlanOk(q, h, s), s # <<>>
  PROVE  /\ DOMAIN PartStarts(q.mask, q.parts) = {1}
         /\ PartStarts(q.mask, q.parts)[1] = h + 1
         /\ q.parts = <<Flat(s)>> /\ q.parts[1] = Flat(s) /\ q.parts[1].T = Len(s)
         /\ DOMAIN q.parts = {1} /\ q.parts # <<>> /\ Len(s) \in Nat \ {0}
<1>1. q.parts = <<Flat(s)>> /\ Len(s) \in Nat \ {0}
  BY DEF PlanOk
<1>2. DOMAIN q.parts = {1} /\ q.parts[1] = Flat(s) /\ q.parts # <<>>
  <2>1. 1 .. 1 = {1} /\ DOMAIN <<>> = {}
    OBVIOUS
  <2> QED BY <1>1, <2>1, OneElement
<1>3. q.parts[1].T = Len(s)
  BY <1>2, FlatT
<1>4. DOMAIN PartStarts(q.mask, <<Flat(s)>>) = {1} /\ PartStarts(q.mask, <<Flat(s)>>)[1] = h + 1
  <2>1. q.mask \in Seq(BOOLEAN) /\ h \in Nat /\ h + Len(s) <= Len(q.mask)
    BY DEF PlanOk
  <2>2. \A j \in 1 .. Len(q.mask) : q.mask[j] <=> h < j /\ j <= h + Len(s)
    BY DEF PlanOk
  <2> QED BY <1>1, <2>1, <2>2, RunStart
<1> QED BY <1>1, <1>2, <1>3, <1>4

\* The rows of a plan, one by one.
LEMMA WholeRows ==
  ASSUME NEW q, NEW h, NEW s, PlanOk(q, h, s)
  PROVE  /\ Whole(q) \in Seq(KvRow) /\ Len(Whole(q)) = Len(q.ids)
         /\ \A j \in 1 .. Len(q.ids) :
              Whole(q)[j] = RowOf(q.ids[j], IF q.mask[j] THEN s[j - h] ELSE <<>>)
<1>1. DOMAIN q.ids = 1 .. Len(q.ids) /\ Len(q.ids) \in Nat /\ DOMAIN Whole(q) = 1 .. Len(q.ids)
  BY DEF PlanOk, Whole
<1>2. ASSUME NEW j \in 1 .. Len(q.ids)
      PROVE  /\ Whole(q)[j] = RowOf(q.ids[j], IF q.mask[j] THEN s[j - h] ELSE <<>>)
             /\ Whole(q)[j] \in KvRow
  <2>1. q.ids[j] \in Tok
    BY DEF PlanOk
  <2>2. CASE q.mask[j]
    <3>1. h < j /\ j <= h + Len(s) /\ h \in Nat /\ s \in Seq(Col) /\ Len(s) \in Nat
      BY <2>2 DEF PlanOk
    <3>2. s # <<>>
      BY <3>1
    <3>3. PartStarts(q.mask, q.parts)[1] = h + 1 /\ q.parts[1] = Flat(s)
      BY <3>2, PlanStart
    <3>4. j - (h + 1) + 1 = j - h /\ j - h \in 1 .. Len(s)
      BY <3>1
    <3>5. Column(Flat(s), j - h) = s[j - h] /\ s[j - h] \in Col
      BY <3>1, <3>4, ColumnFlat
    <3>6. Whole(q)[j] = RowOf(q.ids[j], s[j - h])
      BY <1>1, <2>2, <3>3, <3>4, <3>5 DEF Whole
    <3> QED BY <2>1, <2>2, <3>5, <3>6 DEF KvRow, RowOf
  <2>3. CASE ~q.mask[j]
    BY <1>1, <2>1, <2>3 DEF Whole, KvRow, RowOf
  <2> QED BY <2>2, <2>3
<1>3. Whole(q) = [j \in 1 .. Len(q.ids) |-> Whole(q)[j]]
  BY <1>1 DEF Whole
<1>4. Whole(q) \in [1 .. Len(q.ids) -> KvRow]
  BY <1>2, <1>3
<1>5. Whole(q) \in Seq(KvRow)
  BY <1>1, <1>4, SeqDef
<1>6. Len(Whole(q)) = Len(q.ids)
  BY <1>1, <1>5
<1> QED BY <1>2, <1>5, <1>6

\* What s2p_session_prefill makes of it, and when it refuses.
LEMMA PrefillWhole ==
  ASSUME NEW q, NEW h, NEW s, PlanOk(q, h, s), NEW x, x.kv \in Seq(KvRow)
  PROVE  /\ PrefillOk(x, q.ids, q.mask, q.parts) <=>
              /\ x.st \in {"NEW", "PREFILLED"}
              /\ Len(x.kv) + Len(q.ids) <= Ctx - 1 /\ Len(q.ids) <= ScratchRows
         /\ Prefill(x, q.ids, q.mask, q.parts) =
              [x EXCEPT !.kv = @ \o Whole(q), !.st = "PREFILLED"]
<1>1. /\ Len(q.ids) \in Nat /\ DOMAIN q.ids = 1 .. Len(q.ids) /\ DOMAIN q.mask = 1 .. Len(q.ids)
      /\ h \in Nat /\ s \in Seq(Col) /\ Len(s) \in Nat /\ h + Len(s) <= Len(q.ids)
      /\ \A j \in 1 .. Len(q.ids) : q.mask[j] <=> h < j /\ j <= h + Len(s)
  BY DEF PlanOk
<1>2. CASE s = <<>>
  <2>1. q.parts = <<>> /\ DOMAIN q.parts = {} /\ Len(s) = 0
    BY <1>2 DEF PlanOk
  <2>2. \A j \in 1 .. Len(q.ids) : ~q.mask[j]
    BY <1>1, <2>1
  <2>3. {j \in DOMAIN q.mask : q.mask[j]} = {}
    BY <1>1, <2>2
  <2>4. Cardinality({j \in DOMAIN q.mask : q.mask[j]}) = TotalT(q.parts)
    BY <2>1, <2>3, TotalNone, FS_EmptySet
  <2>5. Prefill(x, q.ids, q.mask, q.parts) =
          [x EXCEPT !.kv = @ \o [j \in DOMAIN q.ids |-> RowOf(q.ids[j], <<>>)], !.st = "PREFILLED"]
    BY <2>1 DEF Prefill
  <2>6. [j \in DOMAIN q.ids |-> RowOf(q.ids[j], <<>>)] = Whole(q)
    BY <1>1, <2>2 DEF Whole
  <2> QED BY <2>1, <2>4, <2>5, <2>6 DEF PrefillOk
<1>3. CASE s # <<>>
  <2>1. /\ PartStarts(q.mask, q.parts)[1] = h + 1 /\ DOMAIN q.parts = {1}
        /\ q.parts[1].T = Len(s) /\ q.parts = <<Flat(s)>> /\ Len(s) \in Nat \ {0}
    BY <1>3, PlanStart
  <2>2. {j \in DOMAIN q.mask : q.mask[j]} = h + 1 .. h + Len(s)
    BY <1>1
  <2>3. Cardinality({j \in DOMAIN q.mask : q.mask[j]}) = TotalT(q.parts)
    <3>1. Cardinality(h + 1 .. h + Len(s)) = Len(s)
      <4>1. PICK n \in Nat \ {0} : n = Len(s)
        BY <2>1
      <4>2. h + 1 \in Int /\ h + n \in Int /\ h + 1 <= h + n /\ (h + n) - (h + 1) + 1 = n
        BY <1>1
      <4>3. Cardinality(h + 1 .. h + n) = n
        BY <4>2, FS_Interval
      <4> QED BY <4>1, <4>3
    <3>2. TotalT(q.parts) = Len(s)
      BY <2>1, FlatT, TotalOne
    <3> QED BY <2>2, <3>1, <3>2
  <2>4. \A p \in DOMAIN q.parts : \A t \in 0 .. q.parts[p].T - 1 :
          /\ PartStarts(q.mask, q.parts)[p] + t \in DOMAIN q.mask
          /\ q.mask[PartStarts(q.mask, q.parts)[p] + t]
    <3> SUFFICES ASSUME NEW t \in 0 .. Len(s) - 1
                 PROVE  h + 1 + t \in DOMAIN q.mask /\ q.mask[h + 1 + t]
      BY <2>1
    <3> QED BY <1>1
  <2>5. Prefill(x, q.ids, q.mask, q.parts) = [x EXCEPT !.kv = @ \o Whole(q), !.st = "PREFILLED"]
    <3> DEFINE at == PartStarts(q.mask, q.parts)
               In(j, p) == at[p] <= j /\ j < at[p] + q.parts[p].T
               Col0(j) == IF \E p \in DOMAIN q.parts : In(j, p)
                            THEN LET p == CHOOSE p \in DOMAIN q.parts : In(j, p)
                                 IN  Column(q.parts[p], j - at[p] + 1)
                            ELSE <<>>
    <3>1. ASSUME NEW j \in 1 .. Len(q.ids)
          PROVE  Col0(j) = IF q.mask[j] THEN Column(q.parts[1], j - at[1] + 1) ELSE <<>>
      <4>1. In(j, 1) <=> q.mask[j]
        BY <1>1, <2>1
      <4> HIDE DEF In
      <4>2. (\E p \in DOMAIN q.parts : In(j, p)) <=> In(j, 1)
        BY <2>1
      <4>3. In(j, 1) => (CHOOSE p \in DOMAIN q.parts : In(j, p)) = 1
        BY <2>1
      <4> QED BY <4>1, <4>2, <4>3
    <3>2. Prefill(x, q.ids, q.mask, q.parts) =
            [x EXCEPT !.kv = @ \o [j \in DOMAIN q.ids |-> RowOf(q.ids[j], Col0(j))],
                      !.st = "PREFILLED"]
      BY DEF Prefill
    <3> HIDE DEF Col0
    <3>3. [j \in DOMAIN q.ids |-> RowOf(q.ids[j], Col0(j))] = Whole(q)
      BY <1>1, <3>1 DEF Whole
    <3> QED BY <3>2, <3>3
  <2> QED BY <2>3, <2>4, <2>5 DEF PrefillOk
<1> QED BY <1>2, <1>3

\* SubSeq by a name that the provers do not expand.
Cut(s, a, b) == SubSeq(s, a, b)

\* A chunk of it that cuts no run.
Fits(parts, q, h, s, from, to) ==
  /\ PlanOk(q, h, s) /\ from \in Nat /\ to \in Nat /\ from <= to /\ to <= Len(q.ids)
  /\ \/ h + Len(s) <= from /\ parts = <<>>
     \/ to <= h /\ parts = <<>>
     \/ from <= h /\ h + Len(s) <= to /\ parts = q.parts

SliceOf(c, q, h, s, from, to) ==
  /\ c.ids = SubSeq(q.ids, from + 1, to) /\ c.mask = SubSeq(q.mask, from + 1, to)
  /\ Fits(c.parts, q, h, s, from, to)

\* A chunk is a plan of its own, and its rows are those of the whole there.
LEMMA Slice ==
  ASSUME NEW c, NEW q, NEW h, NEW s, NEW from \in Nat, NEW to \in Nat, SliceOf(c, q, h, s, from, to)
  PROVE  /\ \E g, r : PlanOk(c, g, r)
         /\ Len(c.ids) = to - from
         /\ Whole(c) = Cut(Whole(q), from + 1, to)
<1>1. SUFFICES ASSUME PlanOk(q, h, s), from <= to, to <= Len(q.ids),
                     c.ids = SubSeq(q.ids, from + 1, to), c.mask = SubSeq(q.mask, from + 1, to),
                    \/ h + Len(s) <= from /\ c.parts = <<>>
                    \/ to <= h /\ c.parts = <<>>
                    \/ from <= h /\ h + Len(s) <= to /\ c.parts = q.parts
             PROVE  /\ \E g, r : PlanOk(c, g, r)
                    /\ Len(c.ids) = to - from
                    /\ Whole(c) = Cut(Whole(q), from + 1, to)
  BY DEF SliceOf, Fits
<1>2. from <= to /\ to <= Len(q.ids)
  BY <1>1
<1>3. c.ids = SubSeq(q.ids, from + 1, to) /\ c.mask = SubSeq(q.mask, from + 1, to)
  BY <1>1
<1>4. \/ h + Len(s) <= from /\ c.parts = <<>>
      \/ to <= h /\ c.parts = <<>>
      \/ from <= h /\ h + Len(s) <= to /\ c.parts = q.parts
  BY <1>1
<1> DEFINE g == IF from <= h /\ h + Len(s) <= to THEN h - from ELSE 0
           r == IF from <= h /\ h + Len(s) <= to THEN s ELSE <<>>
<1>5. /\ Len(q.ids) \in Nat /\ h \in Nat /\ s \in Seq(Col) /\ Len(s) \in Nat
      /\ q.ids \in Seq(Tok) /\ q.mask \in Seq(BOOLEAN) /\ Len(q.mask) = Len(q.ids)
      /\ h + Len(s) <= Len(q.ids)
      /\ \A j \in 1 .. Len(q.ids) : q.mask[j] <=> h < j /\ j <= h + Len(s)
      /\ q.parts = IF s = <<>> THEN <<>> ELSE <<Flat(s)>>
  BY <1>1 DEF PlanOk
<1>6. /\ c.ids \in Seq(Tok) /\ Len(c.ids) = to - from
      /\ \A j \in 1 .. to - from : c.ids[j] = q.ids[from + j]
  <2> DEFINE w == q.ids
  <2>1. w \in Seq(Tok) /\ from <= to /\ to <= Len(w)
    BY <1>2, <1>5
  <2> HIDE DEF w
  <2>2. /\ SubSeq(w, from + 1, to) \in Seq(Tok) /\ Len(SubSeq(w, from + 1, to)) = to - from
        /\ \A j \in 1 .. to - from : SubSeq(w, from + 1, to)[j] = w[from + j]
    BY <2>1, SubSeqFacts
  <2> QED BY <1>3, <2>2 DEF w
<1>7. /\ c.mask \in Seq(BOOLEAN) /\ Len(c.mask) = to - from
      /\ \A j \in 1 .. to - from : c.mask[j] = q.mask[from + j]
  <2> DEFINE w == q.mask
  <2>1. w \in Seq(BOOLEAN) /\ from <= to /\ to <= Len(w)
    BY <1>2, <1>5
  <2> HIDE DEF w
  <2>2. /\ SubSeq(w, from + 1, to) \in Seq(BOOLEAN) /\ Len(SubSeq(w, from + 1, to)) = to - from
        /\ \A j \in 1 .. to - from : SubSeq(w, from + 1, to)[j] = w[from + j]
    BY <2>1, SubSeqFacts
  <2> QED BY <1>3, <2>2 DEF w
<1>8. s = <<>> <=> Len(s) = 0
  BY <1>5, <1>2, <1>4
<1>9. PlanOk(c, g, r)
  <2>1. CASE from <= h /\ h + Len(s) <= to
    <3>1. g = h - from /\ r = s /\ g \in Nat
      BY <2>1, <1>5, <1>2, <1>4
    <3>2. c.parts = IF r = <<>> THEN <<>> ELSE <<Flat(r)>>
      BY <1>5, <1>2, <1>4, <1>8, <2>1, <3>1
    <3>3. ASSUME NEW j \in 1 .. to - from PROVE c.mask[j] <=> g < j /\ j <= g + Len(r)
      <4>1. from + j \in 1 .. Len(q.ids)
        BY <1>5, <1>2, <1>4
      <4>2. q.mask[from + j] <=> h < from + j /\ from + j <= h + Len(s)
        BY <1>5, <4>1
      <4>3. c.mask[j] = q.mask[from + j]
        BY <1>7
      <4>4. h < from + j /\ from + j <= h + Len(s) <=> g < j /\ j <= g + Len(r)
        BY <1>5, <3>1
      <4> QED BY <4>2, <4>3, <4>4
    <3>4. g + Len(r) <= to - from
      BY <1>5, <1>2, <1>4, <2>1, <3>1
    <3> HIDE DEF g, r
    <3> QED BY <1>5, <1>2, <1>4, <1>6, <1>7, <3>1, <3>2, <3>3, <3>4 DEF PlanOk
  <2>2. CASE ~(from <= h /\ h + Len(s) <= to)
    <3>1. g = 0 /\ r = <<>> /\ Len(r) = 0 /\ r \in Seq(Col) /\ c.parts = <<>>
      BY <2>2, <1>4
    <3>2. ASSUME NEW j \in 1 .. to - from PROVE ~c.mask[j]
      <4>1. from + j \in 1 .. Len(q.ids)
        BY <1>5, <1>2, <1>4
      <4>2. ~q.mask[from + j]
        BY <1>5, <1>2, <1>4, <2>2, <4>1
      <4> QED BY <1>7, <4>2
    <3>3. \A j \in 1 .. to - from : c.mask[j] <=> g < j /\ j <= g + Len(r)
      <4> HIDE DEF g, r
      <4> QED BY <3>1, <3>2
    <3>4. g \in Nat /\ g + Len(r) <= to - from
      BY <3>1, <1>5, <1>2, <1>4
    <3> HIDE DEF g, r
    <3> QED BY <1>6, <1>7, <3>1, <3>3, <3>4 DEF PlanOk
  <2> QED BY <2>1, <2>2
<1> HIDE DEF g, r
<1>10. /\ Whole(c) \in Seq(KvRow) /\ Len(Whole(c)) = to - from
       /\ \A j \in 1 .. to - from :
            Whole(c)[j] = RowOf(c.ids[j], IF c.mask[j] THEN r[j - g] ELSE <<>>)
  BY <1>1, <1>6, <1>9, WholeRows
<1>11. /\ Whole(q) \in Seq(KvRow) /\ Len(Whole(q)) = Len(q.ids)
       /\ \A j \in 1 .. Len(q.ids) :
            Whole(q)[j] = RowOf(q.ids[j], IF q.mask[j] THEN s[j - h] ELSE <<>>)
  BY <1>1, WholeRows
<1>12. /\ SubSeq(Whole(q), from + 1, to) \in Seq(KvRow)
       /\ Len(SubSeq(Whole(q), from + 1, to)) = to - from
       /\ \A j \in 1 .. to - from : SubSeq(Whole(q), from + 1, to)[j] = Whole(q)[from + j]
  <2> DEFINE w == Whole(q)
  <2>1. w \in Seq(KvRow) /\ from <= to /\ to <= Len(w)
    BY <1>2, <1>11
  <2> HIDE DEF w
  <2>2. /\ SubSeq(w, from + 1, to) \in Seq(KvRow) /\ Len(SubSeq(w, from + 1, to)) = to - from
        /\ \A j \in 1 .. to - from : SubSeq(w, from + 1, to)[j] = w[from + j]
    BY <2>1, SubSeqFacts
  <2> QED BY <2>2 DEF w
<1>13. ASSUME NEW j \in 1 .. to - from
       PROVE  Whole(c)[j] = Whole(q)[from + j]
  <2>1. from + j \in 1 .. Len(q.ids)
    BY <1>5, <1>2, <1>4
  <2>2. c.ids[j] = q.ids[from + j] /\ c.mask[j] = q.mask[from + j]
    BY <1>6, <1>7
  <2>3. CASE q.mask[from + j]
    <3>1. h < from + j /\ from + j <= h + Len(s)
      BY <1>5, <1>2, <1>4, <2>1, <2>3
    <3>2. from <= h /\ h + Len(s) <= to
      BY <3>1, <1>5, <1>2, <1>4
    <3>3. g = h - from /\ r = s
      BY <3>2 DEF g, r
    <3>4. j - g = (from + j) - h
      BY <3>3, <1>5, <1>2, <1>4
    <3> QED BY <1>10, <1>11, <2>1, <2>2, <2>3, <3>3, <3>4
  <2>4. CASE ~q.mask[from + j]
    BY <1>10, <1>11, <2>1, <2>2, <2>4
  <2> QED BY <2>3, <2>4
<1>14. Whole(c) = SubSeq(Whole(q), from + 1, to)
  <2> QED BY <1>5, <1>2, <1>10, <1>12, <1>13, SeqEqual
<1> QED BY <1>6, <1>9, <1>14 DEF Cut

-----------------------------------------------------------------------------
(* s2p_prompt_build.                                                        *)

\* A token of literal text or of a text.
LEMMA TokenIn ==
  ASSUME NEW x \in Kinds, NEW y \in Words
  PROVE  <<x, y>> \in Tok /\ <<x, y>>[1] = x /\ <<x, y>>[2] = y
<1>1. <<x, y>> \in Kinds \X Words
  OBVIOUS
<1> QED BY <1>1 DEF Tok

\* Sequences of one member, and of two.
LEMMA OneSeq == ASSUME NEW S, NEW x \in S PROVE <<x>> \in Seq(S)
  OBVIOUS

LEMMA TwoSeq ==
  ASSUME NEW S, NEW x \in S, NEW y \in S
  PROVE  <<x, y>> \in Seq(S) /\ Len(<<x, y>>) = 2 /\ <<x, y>>[1] = x /\ <<x, y>>[2] = y
  OBVIOUS

\* The system block of one reference.
LEMMA BlockShape ==
  ASSUME NEW s \in Seq(Col), \A t \in 1 .. Len(s) : s[t][1] \in Code, NEW x \in Words
  PROVE  LET b == SystemBlock(<<s>>, x)
         IN  \E h \in Nat :
               /\ b.ids \in Seq(Tok) /\ Len(b.ids) = h + Len(s) + 1
               /\ b.vq = h + 1 .. h + Len(s)
               /\ b.parts = IF s = <<>> THEN <<>> ELSE <<Flat(s)>>
               /\ \A j \in 1 .. Len(b.ids) : b.ids[j][1] # "text"
<1> DEFINE NoText(u) == \A j \in 1 .. Len(u) : u[j][1] # "text"
           one == <<Literal("system"), Literal("convert")>>
           two == IF x = "" THEN <<>> ELSE <<<<"ref", x>>>>
           three == <<Literal("speech")>>
           head == one \o two \o three
           sem == [t \in 1 .. Len(s) |-> <<"sem", s[t][1]>>]
           end == <<Literal("end")>>
<1>1. FlattenSeq(<<s>>) = s /\ Len(s) \in Nat
  BY FlattenOne
<1>2. one \in Seq(Tok) /\ NoText(one)
  <2>1. /\ Literal("system") \in Tok /\ Literal("system")[1] = "system"
        /\ Literal("convert") \in Tok /\ Literal("convert")[1] = "convert"
    BY TokenIn DEF Literal, Kinds, Words
  <2> HIDE DEF Literal
  <2> QED BY <2>1, TwoSeq
<1>3. two \in Seq(Tok) /\ NoText(two)
  <2>1. <<"ref", x>> \in Tok /\ <<"ref", x>>[1] = "ref"
    BY TokenIn DEF Kinds
  <2>2. <<>> \in Seq(Tok) /\ NoText(<<>>)
    OBVIOUS
  <2>3. <<<<"ref", x>>>> \in Seq(Tok) /\ NoText(<<<<"ref", x>>>>)
    BY <2>1, OneSeq, OneElement
  <2> QED BY <2>2, <2>3
<1>4. three \in Seq(Tok) /\ NoText(three) /\ end \in Seq(Tok) /\ NoText(end) /\ Len(end) = 1
  <2>1. /\ Literal("speech") \in Tok /\ Literal("speech")[1] = "speech"
        /\ Literal("end") \in Tok /\ Literal("end")[1] = "end"
    BY TokenIn DEF Literal, Kinds, Words
  <2> HIDE DEF Literal
  <2> QED BY <2>1, OneSeq, OneElement
<1>5. sem \in Seq(Tok) /\ NoText(sem) /\ Len(sem) = Len(s)
  <2>1. ASSUME NEW t \in 1 .. Len(s) PROVE <<"sem", s[t][1]>> \in Tok
    BY DEF Tok
  <2>2. sem \in [1 .. Len(s) -> Tok]
    BY <2>1
  <2>3. sem \in Seq(Tok) /\ Len(sem) = Len(s)
    BY <1>1, <2>2, SeqDef
  <2> QED BY <2>3
<1>6. ASSUME NEW u \in Seq(Tok), NEW w \in Seq(Tok), NoText(u), NoText(w)
      PROVE  u \o w \in Seq(Tok) /\ NoText(u \o w) /\ Len(u \o w) = Len(u) + Len(w)
  <2>1. u \o w \in Seq(Tok) /\ Len(u \o w) = Len(u) + Len(w)
    BY ConcatAt
  <2>2. ASSUME NEW j \in 1 .. Len(u \o w) PROVE (u \o w)[j][1] # "text"
    <3>1. CASE j <= Len(u)
      BY <1>6, <3>1, ConcatAt
    <3>2. CASE j > Len(u)
      <4>1. j - Len(u) \in 1 .. Len(w) /\ Len(u) + (j - Len(u)) = j
        BY <2>1, <3>2
      <4> QED BY <1>6, <4>1, ConcatAt
    <3> QED BY <3>1, <3>2
  <2> QED BY <2>1, <2>2
<1> HIDE DEF NoText
<1>7. head \in Seq(Tok) /\ NoText(head) /\ Len(head) \in Nat
  <2>1. one \o two \in Seq(Tok) /\ NoText(one \o two)
    BY <1>2, <1>3, <1>6
  <2>2. three \in Seq(Tok) /\ NoText(three)
    BY <1>4
  <2> HIDE DEF one, two, three
  <2>3. (one \o two) \o three \in Seq(Tok) /\ NoText((one \o two) \o three)
    BY <2>1, <2>2, <1>6
  <2> QED BY <2>3
<1>8. /\ head \o sem \o end \in Seq(Tok) /\ NoText(head \o sem \o end)
      /\ Len(head \o sem \o end) = Len(head) + Len(s) + 1
  <2> HIDE DEF head, sem, end
  <2>1. head \o sem \in Seq(Tok) /\ NoText(head \o sem) /\ Len(head \o sem) = Len(head) + Len(s)
    BY <1>5, <1>6, <1>7
  <2> QED BY <2>1, <1>4, <1>6
<1>9. <<s>> # <<>>
  <2>1. Len(<<s>>) = 1 /\ Len(<<>>) = 0
    OBVIOUS
  <2> QED BY <2>1
<1>10. SystemBlock(<<s>>, x) =
         [ids |-> head \o sem \o end, vq |-> Len(head) + 1 .. Len(head) + Len(s),
          parts |-> IF s = <<>> THEN <<>> ELSE <<Flat(s)>>]
  BY <1>1, <1>9 DEF SystemBlock
<1>11. \A j \in 1 .. Len(head \o sem \o end) : (head \o sem \o end)[j][1] # "text"
  BY <1>8 DEF NoText
<1> DEFINE b == SystemBlock(<<s>>, x)
<1>12. /\ b.ids = head \o sem \o end /\ b.vq = Len(head) + 1 .. Len(head) + Len(s)
       /\ b.parts = IF s = <<>> THEN <<>> ELSE <<Flat(s)>>
  <2> DEFINE i == head \o sem \o end
             v == Len(head) + 1 .. Len(head) + Len(s)
             p == IF s = <<>> THEN <<>> ELSE <<Flat(s)>>
  <2>1. b = [ids |-> i, vq |-> v, parts |-> p]
    BY <1>10
  <2> HIDE DEF i, v, p, b
  <2>2. b.ids = i /\ b.vq = v /\ b.parts = p
    BY <2>1
  <2> QED BY <2>2 DEF i, v, p
<1> HIDE DEF head, sem, end
<1> QED BY <1>7, <1>8, <1>11, <1>12

\* The system block of a voice, a clone or no reference at all.
SysBlock(v) == SystemBlock(IF v = "none" THEN <<>> ELSE <<Part(v)>>, IF v = "none" THEN "" ELSE v)
Turn4(t) == <<Literal("user"), <<"text", t>>, Literal("end"), Literal("voice")>>

\* Voices and the other references are names; each reference has its frames.
LEMMA NamesAreStrings ==
  /\ Names \subseteq STRING /\ ToSet(Voices) \subseteq Names /\ ToSet(Texts) \subseteq STRING
  /\ \A v \in Names : v # "none" => PartLen[v] \in Nat
<1>1. ASSUME NEW q \in Seq(STRING) PROVE ToSet(q) \subseteq STRING
  <2>1. \A i \in DOMAIN q : q[i] \in STRING
    OBVIOUS
  <2> QED BY <2>1 DEF ToSet
<1>2. ToSet(Voices) \subseteq STRING /\ ToSet(Texts) \subseteq STRING /\ Others \subseteq STRING
  BY <1>1, SessionsConstants
<1> QED BY <1>2, SessionsConstants DEF Names

\* What a request says.
LEMMA RequestFields ==
  ASSUME NEW v, NEW t
  PROVE  LET r == RequestFor(v, t)
         IN  /\ r.refs = IF v = "none" THEN <<>> ELSE <<Part(v)>>
             /\ r.refText = IF v = "none" THEN "" ELSE v
             /\ r.text = t /\ r.key = IF Contains(Voices, v) THEN v ELSE ""
  BY DEF RequestFor

\* A prompt is its system block and the user's turn.
LEMMA PromptOf ==
  ASSUME NEW v, NEW t
  PROVE  LET q == PromptBuild(RequestFor(v, t))
             B == SysBlock(v)
         IN  /\ q.ids = B.ids \o Turn4(t)
             /\ q.mask = [j \in 1 .. Len(B.ids \o Turn4(t)) |-> j \in B.vq]
             /\ q.parts = B.parts /\ q.nsys = Len(B.ids)
<1> DEFINE B == SysBlock(v)
           ids == B.ids \o Turn4(t)
           mask == [j \in 1 .. Len(ids) |-> j \in B.vq]
<1>1. PromptBuild(RequestFor(v, t)) =
        [ids |-> ids, mask |-> mask, parts |-> B.parts, nsys |-> Len(B.ids)]
  <2>1. B = SystemBlock(RequestFor(v, t).refs, RequestFor(v, t).refText)
    BY RequestFields DEF SysBlock
  <2>2. RequestFor(v, t).text = t
    BY RequestFields
  <2> DEFINE r == RequestFor(v, t)
  <2> HIDE DEF B, r
  <2>3. PromptBuild(r) =
          [ids |-> ids, mask |-> mask, parts |-> B.parts, nsys |-> Len(B.ids)]
    BY <2>1, <2>2 DEF PromptBuild, Turn4, r
  <2> QED BY <2>3 DEF r
<1> HIDE DEF B, ids, mask
<1>2. /\ PromptBuild(RequestFor(v, t)).ids = ids /\ PromptBuild(RequestFor(v, t)).mask = mask
      /\ PromptBuild(RequestFor(v, t)).parts = B.parts
      /\ PromptBuild(RequestFor(v, t)).nsys = Len(B.ids)
  BY <1>1
<1> QED BY <1>2 DEF B, ids, mask

\* A reference is a sequence of columns of codes.
LEMMA PartIn ==
  ASSUME NEW v \in Names, v # "none"
  PROVE  Part(v) \in Seq(Col) /\ \A t \in 1 .. Len(Part(v)) : Part(v)[t][1] \in Code
<1>1. PartLen[v] \in Nat /\ v \in STRING
  BY NamesAreStrings
<1>2. \A t \in 1 .. PartLen[v] : [cb \in Codebooks |-> <<v, t, cb>>] \in Col
  BY <1>1, Numbers DEF Col, Code, Codebooks
<1>3. Part(v) \in [1 .. PartLen[v] -> Col]
  BY <1>2 DEF Part
<1>4. Part(v) \in Seq(Col) /\ Len(Part(v)) = PartLen[v]
  BY <1>1, <1>3, SeqDef
<1>5. 1 \in Codebooks
  BY Numbers DEF Codebooks
<1> QED BY <1>3, <1>4, <1>5 DEF Col

\* The block s is the reference in, the tokens ahead of it h.
BlockOk(b, h, s) ==
  /\ b.ids \in Seq(Tok) /\ h \in Nat /\ s \in Seq(Col) /\ h + Len(s) <= Len(b.ids)
  /\ b.vq = h + 1 .. h + Len(s)
  /\ b.parts = IF s = <<>> THEN <<>> ELSE <<Flat(s)>>
  /\ \A j \in 1 .. Len(b.ids) : b.ids[j][1] # "text"

\* The system block of any request: empty, or with its reference whole.
LEMMA SysShape ==
  ASSUME NEW v \in Names
  PROVE  /\ \E h \in Nat, s \in Seq(Col) : BlockOk(SysBlock(v), h, s)
         /\ Len(SysBlock(v).ids) > 0 <=> v # "none"
<1>1. CASE v = "none"
  <2>1. SysBlock(v) = [ids |-> <<>>, vq |-> {}, parts |-> <<>>]
    BY <1>1 DEF SysBlock, SystemBlock
  <2>2. SysBlock(v).ids = <<>> /\ SysBlock(v).vq = {} /\ SysBlock(v).parts = <<>>
    BY <2>1
  <2>3. <<>> \in Seq(Col) /\ <<>> \in Seq(Tok) /\ Len(<<>>) = 0
    OBVIOUS
  <2>4. BlockOk(SysBlock(v), 0, <<>>)
    BY <2>2, <2>3 DEF BlockOk
  <2>5. \E h \in Nat, s \in Seq(Col) : BlockOk(SysBlock(v), h, s)
    BY <2>3, <2>4
  <2>6. Len(SysBlock(v).ids) = 0
    BY <2>2, <2>3
  <2> QED BY <1>1, <2>5, <2>6
<1>2. CASE v # "none"
  <2> DEFINE s == Part(v)
  <2>1. s \in Seq(Col) /\ \A t \in 1 .. Len(s) : s[t][1] \in Code
    BY <1>2, PartIn
  <2>2. v \in Words
    BY NamesAreStrings DEF Words
  <2>3. SysBlock(v) = SystemBlock(<<s>>, v)
    BY <1>2 DEF SysBlock
  <2> HIDE DEF s
  <2> DEFINE b == SystemBlock(<<s>>, v)
  <2>4. PICK h \in Nat :
          /\ b.ids \in Seq(Tok) /\ Len(b.ids) = h + Len(s) + 1
          /\ b.vq = h + 1 .. h + Len(s)
          /\ b.parts = IF s = <<>> THEN <<>> ELSE <<Flat(s)>>
          /\ \A j \in 1 .. Len(b.ids) : b.ids[j][1] # "text"
    BY <2>1, <2>2, BlockShape
  <2>5. Len(s) \in Nat
    BY <2>1
  <2> HIDE DEF b
  <2>6. BlockOk(b, h, s)
    BY <2>1, <2>4, <2>5 DEF BlockOk
  <2>7. Len(b.ids) > 0
    BY <2>4, <2>5
  <2> QED BY <1>2, <2>1, <2>3, <2>6, <2>7 DEF b
<1> QED BY <1>1, <1>2

\* Sequences of four members.
LEMMA FourSeq ==
  ASSUME NEW S, NEW w \in S, NEW x \in S, NEW y \in S, NEW z \in S
  PROVE  /\ <<w, x, y, z>> \in Seq(S) /\ Len(<<w, x, y, z>>) = 4
         /\ <<w, x, y, z>>[1] = w /\ <<w, x, y, z>>[2] = x
         /\ <<w, x, y, z>>[3] = y /\ <<w, x, y, z>>[4] = z
  OBVIOUS

\* The user's turn holds the text in its second token, and nowhere else.
LEMMA TurnShape ==
  ASSUME NEW t \in Words
  PROVE  /\ Turn4(t) \in Seq(Tok) /\ Len(Turn4(t)) = 4 /\ Turn4(t)[2] = <<"text", t>>
         /\ \A j \in 1 .. 4 : j # 2 => Turn4(t)[j][1] # "text"
<1>1. /\ Literal("user") \in Tok /\ Literal("user")[1] = "user"
      /\ Literal("end") \in Tok /\ Literal("end")[1] = "end"
      /\ Literal("voice") \in Tok /\ Literal("voice")[1] = "voice"
  BY TokenIn DEF Literal, Kinds, Words
<1>2. <<"text", t>> \in Tok
  BY TokenIn DEF Kinds
<1>3. \A j \in 1 .. 4 : j = 1 \/ j = 2 \/ j = 3 \/ j = 4
  OBVIOUS
<1> HIDE DEF Literal
<1>4. /\ Turn4(t) \in Seq(Tok) /\ Len(Turn4(t)) = 4 /\ Turn4(t)[2] = <<"text", t>>
      /\ Turn4(t)[1] = Literal("user") /\ Turn4(t)[3] = Literal("end")
      /\ Turn4(t)[4] = Literal("voice")
  BY <1>1, <1>2, FourSeq DEF Turn4
<1> QED BY <1>1, <1>3, <1>4

\* A prompt, whatever its text: its run of codes lies in its system block, its
\* text is one token of the user's turn.
PromptOk(q, t, n, h, s) ==
  /\ PlanOk(q, h, s) /\ h + Len(s) <= n /\ q.nsys = n /\ Len(q.ids) = n + 4
  /\ q.ids[n + 2] = <<"text", t>>
  /\ \A j \in 1 .. n + 4 : j # n + 2 => q.ids[j][1] # "text"

\* A prompt's system block does not depend on its text.
LEMMA PromptShape ==
  ASSUME NEW v \in Names
  PROVE  \E n \in Nat, h \in Nat, s \in Seq(Col) :
           /\ n = Len(SysBlock(v).ids) /\ (n > 0 <=> v # "none")
           /\ \A t \in Words : /\ PromptOk(PromptBuild(RequestFor(v, t)), t, n, h, s)
                               /\ \A j \in 1 .. n : PromptBuild(RequestFor(v, t)).ids[j] = SysBlock(v).ids[j]
<1> DEFINE B == SysBlock(v)
           n == Len(B.ids)
<1>1. PICK h \in Nat, s \in Seq(Col) : BlockOk(B, h, s)
  BY SysShape
<1>2. B.ids \in Seq(Tok) /\ n \in Nat /\ h + Len(s) <= n /\ Len(s) \in Nat
  BY <1>1 DEF BlockOk
<1>3. n > 0 <=> v # "none"
  BY SysShape
<1>4. ASSUME NEW t \in Words
      PROVE  /\ PromptOk(PromptBuild(RequestFor(v, t)), t, n, h, s)
             /\ \A j \in 1 .. n : PromptBuild(RequestFor(v, t)).ids[j] = B.ids[j]
  <2> DEFINE q == PromptBuild(RequestFor(v, t))
             u == Turn4(t)
  <2>1. /\ q.ids = B.ids \o u /\ q.parts = B.parts /\ q.nsys = n
        /\ q.mask = [j \in 1 .. Len(B.ids \o u) |-> j \in B.vq]
    BY PromptOf
  <2>2. /\ u \in Seq(Tok) /\ Len(u) = 4 /\ u[2] = <<"text", t>>
        /\ \A j \in 1 .. 4 : j # 2 => u[j][1] # "text"
    BY TurnShape
  <2> HIDE DEF q, u, B
  <2>3. /\ q.ids \in Seq(Tok) /\ Len(q.ids) = n + 4
        /\ \A j \in 1 .. n : q.ids[j] = B.ids[j]
        /\ \A j \in 1 .. 4 : q.ids[n + j] = u[j]
    <3>1. /\ B.ids \o u \in Seq(Tok) /\ Len(B.ids \o u) = Len(B.ids) + Len(u)
          /\ \A j \in 1 .. Len(B.ids) : (B.ids \o u)[j] = B.ids[j]
          /\ \A j \in 1 .. Len(u) : (B.ids \o u)[Len(B.ids) + j] = u[j]
      <4>1. B.ids \in Seq(Tok) /\ u \in Seq(Tok)
        BY <1>2, <2>2
      <4> QED BY <4>1, ConcatAt
    <3> QED BY <3>1, <2>1, <2>2
  <2>4. q.mask = [j \in 1 .. n + 4 |-> j \in B.vq]
    BY <2>1, <2>3
  <2>5. /\ q.mask \in Seq(BOOLEAN) /\ Len(q.mask) = n + 4
        /\ \A j \in 1 .. n + 4 : q.mask[j] <=> j \in B.vq
    <3>1. q.mask \in [1 .. n + 4 -> BOOLEAN] /\ n + 4 \in Nat
      BY <2>4, <1>2
    <3>2. q.mask \in Seq(BOOLEAN) /\ Len(q.mask) = n + 4
      BY <3>1, SeqDef
    <3> QED BY <2>4, <3>2
  <2>6. B.vq = h + 1 .. h + Len(s) /\ B.parts = IF s = <<>> THEN <<>> ELSE <<Flat(s)>>
    BY <1>1 DEF BlockOk
  <2>7. \A j \in 1 .. n + 4 : q.mask[j] <=> h < j /\ j <= h + Len(s)
    BY <1>2, <2>5, <2>6
  <2>8. PlanOk(q, h, s)
    <3>1. q.parts = IF s = <<>> THEN <<>> ELSE <<Flat(s)>>
      BY <2>1, <2>6
    <3>2. h + Len(s) <= Len(q.ids) /\ Len(q.mask) = Len(q.ids)
      BY <1>2, <2>3, <2>5
    <3>3. \A j \in 1 .. Len(q.ids) : q.mask[j] <=> h < j /\ j <= h + Len(s)
      BY <2>3, <2>7
    <3>4. q.ids \in Seq(Tok) /\ q.mask \in Seq(BOOLEAN)
      BY <2>3, <2>5
    <3> HIDE DEF n
    <3> QED BY <3>1, <3>2, <3>3, <3>4 DEF PlanOk
  <2>9. ASSUME NEW j \in 1 .. n + 4, j # n + 2 PROVE q.ids[j][1] # "text"
    <3>1. CASE j <= n
      <4>1. j \in 1 .. n /\ B.ids[j][1] # "text"
        BY <3>1, <1>2, <1>1 DEF BlockOk
      <4> QED BY <4>1, <2>3
    <3>2. CASE j > n
      <4>1. j - n \in 1 .. 4 /\ n + (j - n) = j /\ j - n # 2
        BY <3>2, <2>9, <1>2
      <4> QED BY <4>1, <2>2, <2>3, SMTT(30)
    <3> QED BY <3>1, <3>2, <1>2
  <2>10. q.ids[n + 2] = <<"text", t>>
    BY <2>2, <2>3
  <2>11. PromptOk(q, t, n, h, s)
    BY <1>2, <2>1, <2>3, <2>8, <2>9, <2>10 DEF PromptOk
  <2> QED BY <2>3, <2>11 DEF q
<1> HIDE DEF B
<1> QED BY <1>1, <1>2, <1>3, <1>4 DEF B

\* What is prefilled for a voice before its texts does not depend on them.
LEMMA PrefixOf ==
  ASSUME NEW v \in Names, NEW t \in Words
  PROVE  LET q == PromptBuild(RequestFor(v, t))
         IN  /\ q.nsys = Prefix(v).nsys /\ q.nsys \in Nat /\ (q.nsys > 0 <=> v # "none")
             /\ Len(q.ids) = q.nsys + 4
             /\ Whole(q) \in Seq(KvRow) /\ Len(Whole(q)) = Len(q.ids)
             /\ SubSeq(Whole(q), 1, q.nsys) = SysRows(v)
<1> DEFINE q == PromptBuild(RequestFor(v, t))
           p == Prefix(v)
<1>1. PICK n \in Nat, h \in Nat, s \in Seq(Col) :
           /\ n = Len(SysBlock(v).ids) /\ (n > 0 <=> v # "none")
           /\ \A w \in Words : /\ PromptOk(PromptBuild(RequestFor(v, w)), w, n, h, s)
                               /\ \A j \in 1 .. n : PromptBuild(RequestFor(v, w)).ids[j] = SysBlock(v).ids[j]
  BY PromptShape
<1>2. PromptOk(q, t, n, h, s) /\ PromptOk(p, "", n, h, s) /\ \A j \in 1 .. n : q.ids[j] = p.ids[j]
  BY <1>1 DEF Words, Prefix
<1> HIDE DEF q, p
<1>3. /\ PlanOk(q, h, s) /\ PlanOk(p, h, s) /\ q.nsys = n /\ p.nsys = n
      /\ Len(q.ids) = n + 4 /\ Len(p.ids) = n + 4
  BY <1>2 DEF PromptOk
<1>4. /\ Whole(q) \in Seq(KvRow) /\ Len(Whole(q)) = n + 4
      /\ \A j \in 1 .. n + 4 :
           Whole(q)[j] = RowOf(q.ids[j], IF q.mask[j] THEN s[j - h] ELSE <<>>)
  BY <1>3, WholeRows
<1>5. /\ Whole(p) \in Seq(KvRow) /\ Len(Whole(p)) = n + 4
      /\ \A j \in 1 .. n + 4 :
           Whole(p)[j] = RowOf(p.ids[j], IF p.mask[j] THEN s[j - h] ELSE <<>>)
  BY <1>3, WholeRows
<1>6. \A j \in 1 .. n + 4 : q.mask[j] = p.mask[j]
  <2> SUFFICES ASSUME NEW j \in 1 .. n + 4 PROVE q.mask[j] = p.mask[j]
    OBVIOUS
  <2>1. q.mask[j] \in BOOLEAN /\ p.mask[j] \in BOOLEAN
    BY <1>3 DEF PlanOk
  <2>2. q.mask[j] <=> p.mask[j]
    BY <1>3 DEF PlanOk
  <2> QED BY <2>1, <2>2
<1>7. ASSUME NEW j \in 1 .. n PROVE Whole(q)[j] = Whole(p)[j]
  <2>1. j \in 1 .. n + 4
    OBVIOUS
  <2>2. q.ids[j] = p.ids[j] /\ q.mask[j] = p.mask[j]
    BY <1>2, <1>6, <2>1
  <2> QED BY <1>4, <1>5, <2>1, <2>2
<1>8. SubSeq(Whole(q), 1, n) = SubSeq(Whole(p), 1, n)
  <2>1. /\ SubSeq(Whole(q), 1, n) \in Seq(KvRow) /\ Len(SubSeq(Whole(q), 1, n)) = n
        /\ \A j \in 1 .. n : SubSeq(Whole(q), 1, n)[j] = Whole(q)[j]
    BY <1>4, SubSeqProperties
  <2>2. /\ SubSeq(Whole(p), 1, n) \in Seq(KvRow) /\ Len(SubSeq(Whole(p), 1, n)) = n
        /\ \A j \in 1 .. n : SubSeq(Whole(p), 1, n)[j] = Whole(p)[j]
    BY <1>5, SubSeqProperties
  <2> QED BY <1>7, <2>1, <2>2, SeqEqual
<1> QED BY <1>1, <1>3, <1>4, <1>8 DEF SysRows, q, p

-----------------------------------------------------------------------------
(* The prefill plan of a session and its chunks.                            *)

\* Two sequences that make up a third.
LEMMA Glue ==
  ASSUME NEW S, NEW u \in Seq(S), NEW w \in Seq(S), NEW x \in Seq(S), Len(x) = Len(u) + Len(w),
         \A j \in 1 .. Len(u) : x[j] = u[j],
         \A j \in 1 .. Len(w) : x[Len(u) + j] = w[j]
  PROVE  u \o w = x
<1>1. /\ u \o w \in Seq(S) /\ Len(u \o w) = Len(u) + Len(w)
      /\ \A j \in 1 .. Len(u) : (u \o w)[j] = u[j]
      /\ \A j \in 1 .. Len(w) : (u \o w)[Len(u) + j] = w[j]
  BY ConcatAt
<1>2. Len(u) \in Nat /\ Len(w) \in Nat
  OBVIOUS
<1>3. ASSUME NEW j \in 1 .. Len(u) + Len(w) PROVE (u \o w)[j] = x[j]
  <2>1. CASE j <= Len(u)
    BY <2>1, <1>1, <1>2
  <2>2. CASE j > Len(u)
    <3>1. j - Len(u) \in 1 .. Len(w) /\ Len(u) + (j - Len(u)) = j
      BY <2>2, <1>2
    <3> QED BY <3>1, <1>1
  <2>3. j <= Len(u) \/ j > Len(u)
    BY <1>2
  <2> QED BY <2>1, <2>2, <2>3
<1> QED BY <1>1, <1>3, SeqEqual

\* A prefix and what follows it.
LEMMA SubSeqJoin ==
  ASSUME NEW S, NEW s \in Seq(S), NEW a \in Nat, NEW b \in Nat, a <= b, b <= Len(s)
  PROVE  SubSeq(s, 1, a) \o SubSeq(s, a + 1, b) = SubSeq(s, 1, b)
<1> DEFINE u == SubSeq(s, 1, a)
           w == SubSeq(s, a + 1, b)
           x == SubSeq(s, 1, b)
<1>1. u \in Seq(S) /\ Len(u) = a /\ \A j \in 1 .. a : u[j] = s[j]
  BY SubSeqProperties
<1>2. w \in Seq(S) /\ Len(w) = b - a /\ \A j \in 1 .. b - a : w[j] = s[a + j]
  BY SubSeqFacts
<1>3. x \in Seq(S) /\ Len(x) = b /\ \A j \in 1 .. b : x[j] = s[j]
  BY SubSeqProperties
<1> HIDE DEF u, w, x
<1>4. Len(x) = Len(u) + Len(w)
  BY <1>1, <1>2, <1>3
<1>5. \A j \in 1 .. Len(u) : x[j] = u[j]
  BY <1>1, <1>3
<1>6. ASSUME NEW j \in 1 .. Len(w) PROVE x[Len(u) + j] = w[j]
  <2>1. a + j \in 1 .. b /\ j \in 1 .. b - a
    BY <1>2
  <2> QED BY <2>1, <1>1, <1>2, <1>3
<1>7. u \in Seq(S) /\ w \in Seq(S) /\ x \in Seq(S)
  BY <1>1, <1>2, <1>3
<1>8. u \o w = x
  BY <1>4, <1>5, <1>6, <1>7, Glue
<1> QED BY <1>8 DEF u, w, x

\* A slice of a tail is a slice of the whole.
LEMMA SubSeqTail ==
  ASSUME NEW S, NEW s \in Seq(S), NEW n \in Nat, n <= Len(s),
         NEW a \in Nat, NEW b \in Nat, a <= b, n + b <= Len(s)
  PROVE  SubSeq(SubSeq(s, n + 1, Len(s)), a + 1, b) = SubSeq(s, (n + a) + 1, n + b)
<1> DEFINE u == SubSeq(s, n + 1, Len(s))
<1>1. Len(s) \in Nat
  OBVIOUS
<1>2. u \in Seq(S) /\ Len(u) = Len(s) - n /\ \A j \in 1 .. Len(s) - n : u[j] = s[n + j]
  BY <1>1, SubSeqFacts
<1> HIDE DEF u
<1>3. /\ SubSeq(u, a + 1, b) \in Seq(S) /\ Len(SubSeq(u, a + 1, b)) = b - a
      /\ \A j \in 1 .. b - a : SubSeq(u, a + 1, b)[j] = u[a + j]
  BY <1>1, <1>2, SubSeqFacts
<1>4. /\ SubSeq(s, (n + a) + 1, n + b) \in Seq(S)
      /\ Len(SubSeq(s, (n + a) + 1, n + b)) = (n + b) - (n + a)
      /\ \A j \in 1 .. (n + b) - (n + a) : SubSeq(s, (n + a) + 1, n + b)[j] = s[(n + a) + j]
  BY <1>1, SubSeqFacts
<1>5. ASSUME NEW j \in 1 .. b - a PROVE SubSeq(u, a + 1, b)[j] = SubSeq(s, (n + a) + 1, n + b)[j]
  <2>1. a + j \in 1 .. Len(s) - n /\ n + (a + j) = (n + a) + j
    BY <1>1
  <2> QED BY <2>1, <1>2, <1>3, <1>4
<1>6. SubSeq(u, a + 1, b) = SubSeq(s, (n + a) + 1, n + b)
  <2>1. (n + b) - (n + a) = b - a
    OBVIOUS
  <2> QED BY <1>3, <1>4, <1>5, <2>1, SeqEqual
<1> QED BY <1>6 DEF u

\* The whole of a sequence.
LEMMA SubSeqAll ==
  ASSUME NEW S, NEW s \in Seq(S)
  PROVE  SubSeq(s, 1, Len(s)) = s
<1> DEFINE x == SubSeq(s, 1, Len(s))
<1>1. x \in Seq(S) /\ Len(x) = Len(s) /\ \A j \in 1 .. Len(s) : x[j] = s[j]
  BY SubSeqProperties
<1> HIDE DEF x
<1>2. x = s
  BY <1>1, SeqEqual
<1> QED BY <1>2 DEF x

\* A prompt among all.
LEMMA PromptsOf ==
  ASSUME NEW r \in DOMAIN Prompts
  PROVE  /\ \E v \in Names, t \in ToSet(Texts) : r = RequestFor(v, t)
         /\ \A v \in Names, t \in ToSet(Texts) : r = RequestFor(v, t) =>
              Prompts[r] = PromptBuild(RequestFor(v, t))
         /\ PromptRows[r] = Whole(Prompts[r])
<1>1. DOMAIN Prompts = {RequestFor(v, t) : v \in Names, t \in ToSet(Texts)}
  BY DEF Prompts, Names
<1>2. Prompts[r] = PromptBuild(r)
  BY <1>1 DEF Prompts, Names
<1>3. PromptRows[r] = Whole(Prompts[r])
  BY DEF PromptRows, Whole
<1> QED BY <1>1, <1>2, <1>3

\* A request the model considers has its prompt built.
LEMMA RequestIn ==
  ASSUME NEW v \in Names, NEW t \in ToSet(Texts)
  PROVE  RequestFor(v, t) \in DOMAIN Prompts /\ Prompts[RequestFor(v, t)] = PromptBuild(RequestFor(v, t))
  BY DEF Prompts, Names

\* What a request's prompt is like.
LEMMA OfRequest ==
  ASSUME NEW r \in DOMAIN Prompts
  PROVE  LET p == Prompts[r]
         IN  /\ r.text \in STRING
             /\ \E n \in Nat, h \in Nat, s \in Seq(Col) : PromptOk(p, r.text, n, h, s)
             /\ p.nsys \in Nat /\ Len(p.ids) = p.nsys + 4
             /\ PromptRows[r] = Whole(p) /\ Whole(p) \in Seq(KvRow) /\ Len(Whole(p)) = Len(p.ids)
             /\ r.key # "" => /\ r.key \in ToSet(Voices)
                              /\ p.nsys = Prefix(r.key).nsys /\ (p.nsys > 0 <=> r.key # "none")
                              /\ SubSeq(Whole(p), 1, p.nsys) = SysRows(r.key)
<1>1. PICK v \in Names, t \in ToSet(Texts) : r = RequestFor(v, t)
  BY PromptsOf
<1> DEFINE p == Prompts[r]
<1>2. p = PromptBuild(RequestFor(v, t)) /\ PromptRows[r] = Whole(p)
  BY <1>1, PromptsOf
<1>3. r.text = t /\ r.key = IF Contains(Voices, v) THEN v ELSE ""
  <2>1. RequestFor(v, t).text = t /\ RequestFor(v, t).key = IF Contains(Voices, v) THEN v ELSE ""
    BY RequestFields
  <2> HIDE DEF p
  <2> QED BY <1>1, <2>1
<1>4. t \in STRING /\ t \in Words
  BY NamesAreStrings DEF Words
<1>5. \E n \in Nat, h \in Nat, s \in Seq(Col) : PromptOk(p, t, n, h, s)
  <2>1. PICK n \in Nat, h \in Nat, s \in Seq(Col) :
             /\ n = Len(SysBlock(v).ids) /\ (n > 0 <=> v # "none")
             /\ \A w \in Words : /\ PromptOk(PromptBuild(RequestFor(v, w)), w, n, h, s)
                                 /\ \A j \in 1 .. n : PromptBuild(RequestFor(v, w)).ids[j] = SysBlock(v).ids[j]
    BY PromptShape
  <2>2. PromptOk(p, t, n, h, s)
    BY <1>2, <1>4, <2>1
  <2> QED BY <2>2
<1>6. /\ p.nsys = Prefix(v).nsys /\ p.nsys \in Nat /\ (p.nsys > 0 <=> v # "none")
      /\ Len(p.ids) = p.nsys + 4
      /\ Whole(p) \in Seq(KvRow) /\ Len(Whole(p)) = Len(p.ids)
      /\ SubSeq(Whole(p), 1, p.nsys) = SysRows(v)
  BY <1>2, <1>4, PrefixOf
<1>7. ASSUME r.key # "" PROVE r.key = v /\ v \in ToSet(Voices)
  <2>1. Contains(Voices, v) /\ r.key = v
    BY <1>3, <1>7
  <2>2. Voices \in Seq(STRING)
    BY SessionsConstants
  <2>3. PICK i \in 1 .. Len(Voices) : Voices[i] = v
    BY <2>1 DEF Contains
  <2> QED BY <2>1, <2>2, <2>3 DEF ToSet
<1> HIDE DEF p
<1>8. r.key # "" => /\ r.key \in ToSet(Voices)
                    /\ p.nsys = Prefix(r.key).nsys /\ (p.nsys > 0 <=> r.key # "none")
                    /\ SubSeq(Whole(p), 1, p.nsys) = SysRows(r.key)
  BY <1>6, <1>7
<1> QED BY <1>2, <1>3, <1>4, <1>5, <1>6, <1>8 DEF p

\* What is left of a prompt behind its run of codes.
LEMMA TailPlan ==
  ASSUME NEW p, NEW h, NEW s, PlanOk(p, h, s),
         NEW k \in Nat, h + Len(s) <= k, k <= Len(p.ids), NEW q,
         q.ids = SubSeq(p.ids, k + 1, Len(p.ids)),
         q.mask = [j \in 1 .. Len(p.ids) - k |-> FALSE], q.parts = <<>>
  PROVE  /\ PlanOk(q, 0, <<>>) /\ Len(q.ids) = Len(p.ids) - k
         /\ Whole(q) = SubSeq(Whole(p), k + 1, Len(p.ids))
<1> DEFINE m == Len(p.ids) - k
<1>1. /\ p.ids \in Seq(Tok) /\ Len(p.ids) \in Nat /\ h \in Nat /\ Len(s) \in Nat
      /\ \A j \in 1 .. Len(p.ids) : p.mask[j] <=> h < j /\ j <= h + Len(s)
  BY DEF PlanOk
<1>2. m \in Nat
  BY <1>1
<1>3. /\ q.ids \in Seq(Tok) /\ Len(q.ids) = m /\ \A j \in 1 .. m : q.ids[j] = p.ids[k + j]
  <2>1. /\ SubSeq(p.ids, k + 1, Len(p.ids)) \in Seq(Tok)
        /\ Len(SubSeq(p.ids, k + 1, Len(p.ids))) = Len(p.ids) - k
        /\ \A j \in 1 .. Len(p.ids) - k : SubSeq(p.ids, k + 1, Len(p.ids))[j] = p.ids[k + j]
    BY <1>1, SubSeqFacts
  <2> QED BY <2>1
<1> HIDE DEF m
<1>4. q.mask \in Seq(BOOLEAN) /\ Len(q.mask) = m /\ \A j \in 1 .. m : q.mask[j] = FALSE
  <2>1. q.mask = [j \in 1 .. m |-> FALSE]
    BY DEF m
  <2>2. q.mask \in [1 .. m -> BOOLEAN]
    BY <2>1
  <2>3. q.mask \in Seq(BOOLEAN) /\ Len(q.mask) = m
    BY <1>2, <2>2, SeqDef
  <2> QED BY <2>1, <2>3
<1>5. <<>> \in Seq(Col) /\ Len(<<>>) = 0
  OBVIOUS
<1>6. PlanOk(q, 0, <<>>)
  BY <1>2, <1>3, <1>4, <1>5, SMTT(30) DEF PlanOk
<1>7. /\ Whole(q) \in Seq(KvRow) /\ Len(Whole(q)) = m
      /\ \A j \in 1 .. m : Whole(q)[j] = RowOf(q.ids[j], <<>>)
  <2>1. /\ Whole(q) \in Seq(KvRow) /\ Len(Whole(q)) = Len(q.ids)
        /\ \A j \in 1 .. Len(q.ids) :
             Whole(q)[j] = RowOf(q.ids[j], IF q.mask[j] THEN <<>>[j - 0] ELSE <<>>)
    BY <1>6, WholeRows
  <2> QED BY <2>1, <1>3, <1>4
<1>8. /\ Whole(p) \in Seq(KvRow) /\ Len(Whole(p)) = Len(p.ids)
      /\ \A j \in 1 .. Len(p.ids) :
           Whole(p)[j] = RowOf(p.ids[j], IF p.mask[j] THEN s[j - h] ELSE <<>>)
  BY WholeRows
<1> DEFINE x == SubSeq(Whole(p), k + 1, Len(p.ids))
<1>9. /\ x \in Seq(KvRow) /\ Len(x) = m /\ \A j \in 1 .. m : x[j] = Whole(p)[k + j]
  <2> DEFINE w == Whole(p)
             e == Len(p.ids)
  <2>1. k <= e /\ e <= Len(w) /\ e \in Nat /\ w \in Seq(KvRow) /\ m = e - k
    BY <1>1, <1>8 DEF m
  <2> HIDE DEF w, e
  <2>2. /\ SubSeq(w, k + 1, e) \in Seq(KvRow) /\ Len(SubSeq(w, k + 1, e)) = e - k
        /\ \A j \in 1 .. e - k : SubSeq(w, k + 1, e)[j] = w[k + j]
    BY <2>1, SubSeqFacts
  <2> QED BY <2>1, <2>2 DEF w, e, x
<1> HIDE DEF x
<1>10. ASSUME NEW j \in 1 .. m PROVE Whole(q)[j] = x[j]
  <2>1. k + j \in 1 .. Len(p.ids) /\ ~(k + j <= h + Len(s))
    BY <1>1 DEF m
  <2>2. ~p.mask[k + j]
    BY <1>1, <2>1
  <2>3. Whole(p)[k + j] = RowOf(p.ids[k + j], <<>>)
    BY <1>8, <2>1, <2>2
  <2> QED BY <1>3, <1>7, <1>9, <2>3
<1>11. Whole(q) = x
  BY <1>2, <1>7, <1>9, <1>10, SeqEqual
<1> QED BY <1>3, <1>6, <1>11 DEF x, m

\* Rows of the cache that a hit brought.
Loaded(a) == IF a.hit THEN Prompts[a.req].nsys ELSE 0

\* A prefill plan: the whole prompt, or what a hit has left of it.
LEMMA PlanShape ==
  ASSUME NEW a, a.req \in DOMAIN Prompts, a.hit \in BOOLEAN
  PROVE  LET q == Plan(a)
             n == Loaded(a)
             whole == PromptRows[a.req]
         IN  /\ \E h \in Nat, s \in Seq(Col) :
                  /\ PlanOk(q, h, s)
                  /\ Len(s) <= Cardinality({j \in DOMAIN Prompts[a.req].mask : Prompts[a.req].mask[j]})
             /\ n \in Nat /\ Len(q.ids) >= 4 /\ n + Len(q.ids) = Len(whole)
             /\ Whole(q) = SubSeq(whole, n + 1, Len(whole))
             /\ whole \in Seq(KvRow) /\ Len(whole) = Len(Prompts[a.req].ids)
             /\ a.hit => q.nsys = 0
             /\ ~a.hit => q = Prompts[a.req]
<1> DEFINE q == Plan(a)
           p == Prompts[a.req]
           n == Loaded(a)
           whole == PromptRows[a.req]
           run == Cardinality({j \in DOMAIN p.mask : p.mask[j]})
<1>1. /\ \E k \in Nat, h \in Nat, s \in Seq(Col) : PromptOk(p, a.req.text, k, h, s)
      /\ p.nsys \in Nat /\ Len(p.ids) = p.nsys + 4
      /\ whole = Whole(p) /\ Whole(p) \in Seq(KvRow) /\ Len(Whole(p)) = Len(p.ids)
  BY OfRequest
<1>2. PICK k \in Nat, h \in Nat, s \in Seq(Col) : PromptOk(p, a.req.text, k, h, s)
  BY <1>1
<1> HIDE DEF p
<1>3. PlanOk(p, h, s) /\ h + Len(s) <= p.nsys /\ Len(s) \in Nat
  BY <1>2 DEF PromptOk
<1>4. run = Len(s)
  <2>1. DOMAIN p.mask = 1 .. Len(p.ids) /\ h + Len(s) <= Len(p.ids) /\ Len(p.ids) \in Nat
    BY <1>3 DEF PlanOk
  <2>2. \A j \in 1 .. Len(p.ids) : p.mask[j] <=> h < j /\ j <= h + Len(s)
    BY <1>3 DEF PlanOk
  <2>3. {j \in DOMAIN p.mask : p.mask[j]} = h + 1 .. h + Len(s)
    BY <2>1, <2>2
  <2>4. Cardinality(h + 1 .. h + Len(s)) = Len(s)
    <3>1. CASE Len(s) = 0
      <4>1. h + 1 .. h + Len(s) = {}
        BY <3>1
      <4> QED BY <3>1, <4>1, FS_EmptySet
    <3>2. CASE Len(s) > 0
      BY <3>2, <1>3, FS_Interval
    <3> QED BY <3>1, <3>2, <1>3
  <2> QED BY <2>3, <2>4
<1> HIDE DEF run
<1>5. CASE ~a.hit
  <2>1. q = p /\ n = 0
    BY <1>5 DEF Plan, Loaded, p
  <2>2. Whole(q) = SubSeq(whole, n + 1, Len(whole))
    BY <1>1, <2>1, SubSeqAll
  <2>3. PlanOk(q, h, s) /\ Len(s) <= run
    BY <1>3, <1>4, <2>1
  <2>4. n \in Nat /\ Len(q.ids) >= 4 /\ n + Len(q.ids) = Len(whole)
    BY <1>1, <2>1
  <2> QED BY <1>1, <1>5, <2>1, <2>2, <2>3, <2>4 DEF p, run
<1>6. CASE a.hit
  <2> DEFINE m == Len(p.ids) - p.nsys
             ids == SubSeq(p.ids, p.nsys + 1, Len(p.ids))
             mask == [j \in 1 .. m |-> FALSE]
  <2>1. q = [ids |-> ids, mask |-> mask, parts |-> <<>>, nsys |-> 0] /\ n = p.nsys
    BY <1>6 DEF Plan, Loaded, p
  <2> HIDE DEF m, ids, mask, q, n
  <2>2. q.ids = ids /\ q.mask = mask /\ q.parts = <<>> /\ q.nsys = 0
    BY <2>1
  <2>3. /\ PlanOk(q, 0, <<>>) /\ Len(q.ids) = Len(p.ids) - p.nsys
        /\ Whole(q) = SubSeq(Whole(p), p.nsys + 1, Len(p.ids))
    <3> DEFINE k0 == p.nsys
    <3>1. k0 \in Nat /\ h + Len(s) <= k0 /\ k0 <= Len(p.ids) /\ PlanOk(p, h, s)
      BY <1>1, <1>3
    <3>2. /\ q.ids = SubSeq(p.ids, k0 + 1, Len(p.ids))
          /\ q.mask = [j \in 1 .. Len(p.ids) - k0 |-> FALSE] /\ q.parts = <<>>
      BY <2>2 DEF m, ids, mask
    <3> HIDE DEF k0
    <3>3. /\ PlanOk(q, 0, <<>>) /\ Len(q.ids) = Len(p.ids) - k0
          /\ Whole(q) = SubSeq(Whole(p), k0 + 1, Len(p.ids))
      BY <3>1, <3>2, TailPlan
    <3> QED BY <3>3 DEF k0
  <2>4. <<>> \in Seq(Col) /\ Len(<<>>) = 0 /\ 0 \in Nat
    OBVIOUS
  <2>5. \E g \in Nat, r \in Seq(Col) : PlanOk(q, g, r) /\ Len(r) <= run
    <3>1. Len(<<>>) <= run
      BY <1>3, <1>4, <2>4
    <3> QED BY <3>1, <2>3, <2>4
  <2>6. n \in Nat /\ Len(q.ids) >= 4 /\ n + Len(q.ids) = Len(whole)
    BY <1>1, <2>1, <2>3
  <2>7. Whole(q) = SubSeq(whole, n + 1, Len(whole))
    BY <1>1, <2>1, <2>3
  <2> QED BY <1>1, <1>6, <2>2, <2>5, <2>6, <2>7 DEF p, q, n, run
<1> QED BY <1>5, <1>6

\* A chunk ends ahead of the run of codes or behind it.
LEMMA ChunkEndAt ==
  ASSUME NEW q, NEW h, NEW s, PlanOk(q, h, s), NEW from \in Nat, from < Len(q.ids),
         pfChunk \in Nat \ {0}
  PROVE  LET c == ChunkEnd(q, from)
         IN  /\ c \in Nat /\ from < c /\ c <= Len(q.ids) /\ (c <= h \/ h + Len(s) <= c)
             /\ c - from <= pfChunk + Len(s)
<1> DEFINE L == Len(q.ids)
           b == IF from + pfChunk > L THEN L ELSE from + pfChunk
           P(c) == /\ \A j \in b + 1 .. c : q.mask[j]
                   /\ c = L \/ ~q.mask[c + 1]
<1>1. /\ L \in Nat /\ h \in Nat /\ Len(s) \in Nat /\ h + Len(s) <= L
      /\ \A j \in 1 .. L : q.mask[j] <=> h < j /\ j <= h + Len(s)
  BY DEF PlanOk
<1>2. b \in Nat /\ from < b /\ b <= L /\ b <= from + pfChunk
  BY <1>1
<1>3. ChunkEnd(q, from) = CHOOSE c \in b .. L : P(c)
  BY DEF ChunkEnd
<1> HIDE DEF L, b
<1>4. \E c \in b .. L : P(c)
  <2>1. CASE h <= b /\ b < h + Len(s)
    <3>1. h + Len(s) \in b .. L
      BY <2>1, <1>1, <1>2
    <3>2. \A j \in b + 1 .. h + Len(s) : q.mask[j]
      BY <2>1, <1>1, <1>2
    <3>3. h + Len(s) = L \/ ~q.mask[(h + Len(s)) + 1]
      BY <1>1
    <3> QED BY <3>1, <3>2, <3>3
  <2>2. CASE ~(h <= b /\ b < h + Len(s))
    <3>1. b \in b .. L /\ \A j \in b + 1 .. b : q.mask[j]
      BY <1>1, <1>2
    <3>2. b = L \/ ~q.mask[b + 1]
      BY <1>1, <1>2, <2>2
    <3> QED BY <3>1, <3>2
  <2> QED BY <2>1, <2>2
<1> DEFINE c == ChunkEnd(q, from)
<1>5. c \in b .. L /\ P(c)
  BY <1>3, <1>4
<1> HIDE DEF c
<1>6. c \in Nat /\ from < c /\ c <= L /\ b <= c
  BY <1>1, <1>2, <1>5
<1>7. c <= h \/ h + Len(s) <= c
  BY <1>1, <1>5, <1>6
<1>8. c - from <= pfChunk + Len(s)
  <2>1. CASE c = b
    BY <2>1, <1>1, <1>2
  <2>2. CASE c > b
    <3>1. q.mask[b + 1] /\ q.mask[c]
      BY <2>2, <1>2, <1>5, <1>6
    <3>2. h < b + 1 /\ c <= h + Len(s)
      BY <3>1, <2>2, <1>1, <1>2, <1>6
    <3> QED BY <3>2, <1>1, <1>2, <1>6
  <2> QED BY <2>1, <2>2, <1>2, <1>6
<1> QED BY <1>6, <1>7, <1>8 DEF c, L

\* The parts that a chunk is given.
ChunkParts(q, next, b) ==
  LET np == Cardinality({p \in next .. Len(q.parts) : PartStarts(q.mask, q.parts)[p] <= b})
  IN  [np |-> np, parts |-> SubSeq(q.parts, next, next + np - 1)]

\* None of a sequence, and all of one member.
LEMMA SubSeqNone ==
  ASSUME NEW s, NEW a \in Int
  PROVE  SubSeq(s, a, a - 1) = <<>>
  OBVIOUS

LEMMA SubSeqOne ==
  ASSUME NEW x
  PROVE  SubSeq(<<x>>, 1, 1) = <<x>>
<1>1. <<x>> \in Seq({x}) /\ Len(<<x>>) = 1
  OBVIOUS
<1> QED BY <1>1, SubSeqAll

\* A chunk is given every part whose run it holds, and no other.
LEMMA ChunkPartsOk ==
  ASSUME NEW q, NEW h, NEW s, PlanOk(q, h, s), NEW from \in Nat, NEW next \in {1, 2},
         Uncut(q, from, next),
         NEW b \in Nat, from < b, b <= h \/ h + Len(s) <= b
  PROVE  LET g == ChunkParts(q, next, b)
         IN  /\ next + g.np \in {1, 2} /\ Uncut(q, b, next + g.np)
             /\ \/ h + Len(s) <= from /\ g.parts = <<>>
                \/ b <= h /\ g.parts = <<>>
                \/ from <= h /\ h + Len(s) <= b /\ g.parts = q.parts
<1> DEFINE S == {p \in next .. Len(q.parts) : PartStarts(q.mask, q.parts)[p] <= b}
           np == Cardinality(S)
           g == ChunkParts(q, next, b)
<1>1. h \in Nat /\ Len(s) \in Nat /\ q.parts = IF s = <<>> THEN <<>> ELSE <<Flat(s)>>
  BY DEF PlanOk
<1>2. g.np = np /\ g.parts = SubSeq(q.parts, next, next + np - 1)
  BY DEF ChunkParts
<1> SUFFICES /\ next + g.np \in {1, 2} /\ Uncut(q, b, next + g.np)
             /\ \/ h + Len(s) <= from /\ g.parts = <<>>
                \/ b <= h /\ g.parts = <<>>
                \/ from <= h /\ h + Len(s) <= b /\ g.parts = q.parts
  OBVIOUS
<1> HIDE DEF g
<1>3. CASE s = <<>>
  <2>1. q.parts = <<>> /\ Len(q.parts) = 0 /\ Len(s) = 0
    BY <1>1, <1>3
  <2>2. S = {}
    BY <2>1
  <2>3. np = 0
    BY <2>2, FS_EmptySet
  <2>4. g.parts = <<>> /\ g.np = 0
    <3>1. next + np - 1 = next - 1 /\ next \in Int
      BY <2>3
    <3> QED BY <1>2, <2>3, <3>1, SubSeqNone
  <2>5. h + Len(s) <= from \/ b <= h \/ (from <= h /\ h + Len(s) <= b)
    BY <1>1, <2>1
  <2> QED BY <2>1, <2>4, <2>5 DEF Uncut
<1>4. CASE s # <<>>
  <2>1. /\ PartStarts(q.mask, q.parts)[1] = h + 1 /\ q.parts = <<Flat(s)>>
        /\ q.parts[1].T = Len(s) /\ q.parts # <<>> /\ Len(s) \in Nat \ {0}
    BY <1>4, PlanStart
  <2>2. Len(q.parts) = 1
    BY <2>1, OneElement
  <2>3. ASSUME NEW pos \in Nat, NEW k
        PROVE  Uncut(q, pos, k) <=> \/ k = 1 /\ pos < h + 1
                                    \/ k = 2 /\ pos >= h + Len(s)
    <3>1. (h + 1) + Len(s) - 1 = h + Len(s)
      BY <1>1
    <3> QED BY <2>1, <3>1 DEF Uncut
  <2>4. CASE next = 2
    <3>1. S = {}
      BY <2>2, <2>4
    <3>2. np = 0
      BY <3>1, FS_EmptySet
    <3>3. g.parts = <<>> /\ g.np = 0
      <4>1. next + np - 1 = next - 1 /\ next \in Int
        BY <3>2
      <4> QED BY <1>2, <3>2, <4>1, SubSeqNone
    <3>4. h + Len(s) <= from
      BY <2>3, <2>4
    <3>5. Uncut(q, b, 2)
      BY <1>1, <2>3, <3>4
    <3> QED BY <2>4, <3>3, <3>4, <3>5
  <2>5. CASE next = 1 /\ b <= h
    <3>1. S = {}
      BY <1>1, <2>1, <2>2, <2>5
    <3>2. np = 0
      BY <3>1, FS_EmptySet
    <3>3. g.parts = <<>> /\ g.np = 0
      <4>1. next + np - 1 = next - 1 /\ next \in Int
        BY <3>2
      <4> QED BY <1>2, <3>2, <4>1, SubSeqNone
    <3>4. Uncut(q, b, 1)
      BY <1>1, <2>3, <2>5
    <3> QED BY <2>5, <3>3, <3>4
  <2>6. CASE next = 1 /\ ~(b <= h)
    <3>1. S = {1}
      BY <1>1, <2>1, <2>2, <2>6
    <3>2. np = 1
      BY <3>1, FS_Singleton
    <3>3. g.parts = q.parts /\ g.np = 1
      <4>1. next + np - 1 = 1 /\ next = 1
        BY <2>6, <3>2
      <4> QED BY <1>2, <2>1, <3>2, <4>1, SubSeqOne
    <3>4. h + Len(s) <= b /\ from <= h
      BY <1>1, <2>3, <2>6
    <3>5. Uncut(q, b, 2)
      BY <1>1, <2>3, <3>4
    <3> QED BY <2>6, <3>3, <3>4, <3>5
  <2> QED BY <2>4, <2>5, <2>6
<1> QED BY <1>3, <1>4

\* The tokens and the mask of a chunk.
IdsOf(q, from, to) == SubSeq(q.ids, from + 1, to)
MaskOf(q, from, to) == SubSeq(q.mask, from + 1, to)

HasKv(x) == x.kv \in Seq(KvRow)

\* A session after the prefill of some rows, and whether they fit.
Prefilled(x, rows) == [x EXCEPT !.kv = @ \o rows, !.st = "PREFILLED"]
Room(x, n) ==
  x.st \in {"NEW", "PREFILLED"} /\ Len(x.kv) + n <= Ctx - 1 /\ n <= ScratchRows

\* s2p_session_prefill of a chunk adds the rows of the prompt there, if they fit.
LEMMA PrefillSlice ==
  ASSUME NEW q, NEW h, NEW s, NEW from, NEW to, NEW parts, Fits(parts, q, h, s, from, to),
         NEW x, HasKv(x)
  PROVE  LET ids == IdsOf(q, from, to)
             mask == MaskOf(q, from, to)
         IN  /\ Len(ids) = to - from
             /\ PrefillOk(x, ids, mask, parts) <=> Room(x, to - from)
             /\ Prefill(x, ids, mask, parts) = Prefilled(x, Cut(Whole(q), from + 1, to))
<1> DEFINE ids == IdsOf(q, from, to)
           mask == MaskOf(q, from, to)
<1>1. PICK c : c.ids = ids /\ c.mask = mask /\ c.parts = parts
  <2> HIDE DEF ids, mask
  <2>1. PICK c : c = [ids |-> ids, mask |-> mask, parts |-> parts]
    OBVIOUS
  <2> QED BY <2>1
<1>2. /\ \E g, r : PlanOk(c, g, r)
      /\ Len(c.ids) = to - from
      /\ Whole(c) = Cut(Whole(q), from + 1, to)
  <2>1. SliceOf(c, q, h, s, from, to) /\ from \in Nat /\ to \in Nat
    BY <1>1 DEF SliceOf, Fits, IdsOf, MaskOf
  <2> QED BY <2>1, Slice
<1>3. PICK g, r : PlanOk(c, g, r)
  BY <1>2
<1> HIDE DEF ids, mask
<1>4. /\ PrefillOk(x, c.ids, c.mask, c.parts) <=>
           /\ x.st \in {"NEW", "PREFILLED"}
           /\ Len(x.kv) + Len(c.ids) <= Ctx - 1 /\ Len(c.ids) <= ScratchRows
      /\ Prefill(x, c.ids, c.mask, c.parts) =
           [x EXCEPT !.kv = @ \o Whole(c), !.st = "PREFILLED"]
  BY <1>3, PrefillWhole DEF HasKv
<1>5. PrefillOk(x, ids, mask, parts) <=> Room(x, to - from)
  BY <1>1, <1>2, <1>4 DEF Room
<1>6. Prefill(x, ids, mask, parts) = Prefilled(x, Cut(Whole(q), from + 1, to))
  BY <1>1, <1>2, <1>4 DEF Prefilled
<1>7. Len(ids) = to - from
  BY <1>1, <1>2
<1> QED BY <1>5, <1>6, <1>7 DEF ids, mask

\* One chunk of the prefill of a session, that ends at b.
LEMMA ChunkStep ==
  ASSUME NEW q, NEW h, NEW s, PlanOk(q, h, s), NEW from \in Nat, from < Len(q.ids),
         NEW next \in {1, 2}, Uncut(q, from, next), pfChunk \in Nat \ {0},
         NEW x, HasKv(x), NEW b, b = ChunkEnd(q, from),
         NEW g, g = ChunkParts(q, next, b)
  PROVE  LET ids == IdsOf(q, from, b)
             mask == MaskOf(q, from, b)
         IN  /\ b \in Nat /\ from < b /\ b <= Len(q.ids)
             /\ next + g.np \in {1, 2} /\ Uncut(q, b, next + g.np)
             /\ Len(ids) = b - from /\ b - from <= pfChunk + Len(s)
             /\ PrefillOk(x, ids, mask, g.parts) <=> Room(x, b - from)
             /\ Prefill(x, ids, mask, g.parts) = Prefilled(x, Cut(Whole(q), from + 1, b))
<1>1. /\ b \in Nat /\ from < b /\ b <= Len(q.ids) /\ (b <= h \/ h + Len(s) <= b)
      /\ b - from <= pfChunk + Len(s)
  BY ChunkEndAt
<1>2. /\ next + g.np \in {1, 2} /\ Uncut(q, b, next + g.np)
      /\ \/ h + Len(s) <= from /\ g.parts = <<>>
         \/ b <= h /\ g.parts = <<>>
         \/ from <= h /\ h + Len(s) <= b /\ g.parts = q.parts
  BY <1>1, ChunkPartsOk
<1>3. PICK parts : parts = g.parts
  OBVIOUS
<1>4. Fits(parts, q, h, s, from, b)
  BY <1>1, <1>2, <1>3 DEF Fits
<1> DEFINE ids == IdsOf(q, from, b)
           mask == MaskOf(q, from, b)
<1>5. /\ Len(ids) = b - from
      /\ PrefillOk(x, ids, mask, parts) <=> Room(x, b - from)
      /\ Prefill(x, ids, mask, parts) = Prefilled(x, Cut(Whole(q), from + 1, b))
  BY <1>4, PrefillSlice
<1> HIDE DEF ids, mask
<1>6. /\ PrefillOk(x, ids, mask, g.parts) <=> Room(x, b - from)
      /\ Prefill(x, ids, mask, g.parts) = Prefilled(x, Cut(Whole(q), from + 1, b))
  BY <1>3, <1>5
<1> QED BY <1>1, <1>2, <1>5, <1>6 DEF ids, mask

-----------------------------------------------------------------------------
(* The prefix cache.                                                        *)

Cache == [entries : [1 .. Cap -> EntryRec], tick : Nat]
CacheOk(c) == \A e \in 1 .. Cap : EntryOk(c.entries[e])

\* A prefix that is not empty is no longer than the context.
LEMMA UpToCtx ==
  /\ \A m \in 1 .. Ctx : m # 0
  /\ \A m \in 0 .. Ctx : m # 0 => m \in 1 .. Ctx /\ m \in Nat
  BY Numbers

\* Entries are numbered from one.
LEMMA NotZeroIn == \A m \in 1 .. Cap : m # 0
  OBVIOUS

LEMMA SlotsAreNat == 1 .. Cap \subseteq Nat
  OBVIOUS

\* The first entry of some.
LEMMA LeastIn ==
  ASSUME NEW S \in SUBSET Nat, S # {}
  PROVE  Least(S) \in S /\ \A f \in S : Least(S) <= f
  BY LeastNat DEF Least

\* An insert goes to the first empty entry when there is one.
LEMMA SlotIn ==
  ASSUME NEW c \in Cache, Cap # 0
  PROVE  /\ KvcSlot(c) \in 1 .. Cap
         /\ Named(c, "") # {} => /\ c.entries[KvcSlot(c)].name = ""
                                 /\ \A f \in Named(c, "") : KvcSlot(c) <= f
<1>1. c.entries \in [1 .. Cap -> EntryRec] /\ Cap \in Nat
  BY Numbers DEF Cache
<1>2. CASE Named(c, "") # {}
  <2>1. Named(c, "") \in SUBSET Nat /\ Named(c, "") \subseteq 1 .. Cap
    <3>1. DOMAIN c.entries = 1 .. Cap /\ 1 .. Cap \subseteq Nat
      BY <1>1
    <3> QED BY <3>1 DEF Named
  <2>2. Least(Named(c, "")) \in Named(c, "") /\ \A f \in Named(c, "") : Least(Named(c, "")) <= f
    BY <1>2, <2>1, LeastIn
  <2>3. KvcSlot(c) = Least(Named(c, ""))
    BY <1>2 DEF KvcSlot
  <2>4. c.entries[Least(Named(c, ""))].name = ""
    BY <2>2 DEF Named
  <2> QED BY <2>1, <2>2, <2>3, <2>4
<1>3. CASE Named(c, "") = {}
  <2> DEFINE T == {c.entries[e].use : e \in 1 .. Cap}
             S == {e \in 1 .. Cap : \A f \in 1 .. Cap : c.entries[e].use <= c.entries[f].use}
  <2>1. T \in SUBSET Nat
    BY <1>1 DEF EntryRec
  <2>2. T # {}
    <3>1. 1 \in 1 .. Cap
      BY <1>1
    <3> QED BY <3>1
  <2>3. PICK u \in T : \A w \in T : u <= w
    <3> HIDE DEF T
    <3> QED BY <2>1, <2>2, LeastNat
  <2>4. S # {}
    BY <2>3
  <2>5. S \in SUBSET Nat /\ S \subseteq 1 .. Cap
    BY <1>1
  <2>6. KvcSlot(c) = Least(S)
    BY <1>3 DEF KvcSlot
  <2> HIDE DEF S
  <2>7. Least(S) \in S
    BY <2>4, <2>5, LeastIn
  <2> QED BY <1>3, <2>5, <2>6, <2>7
<1> QED BY <1>2, <1>3

\* What an insert makes of the entries.
NewEntry(x, c, key, n, s) ==
  \/ x = [name |-> key, P |-> n, blob |-> KvSave(s, n), use |-> c.tick + 1]
  \/ x = NoEntry

Inserted(d, c, key, n, s) ==
  \E x : /\ NewEntry(x, c, key, n, s)
         /\ d.entries = [c.entries EXCEPT ![KvcSlot(c)] = x]
         /\ d.tick \in {c.tick, c.tick + 1}
         /\ d = [entries |-> d.entries, tick |-> d.tick]

\* kvc_insert changes one entry, or none.
LEMMA InsertIs ==
  ASSUME NEW c \in Cache, NEW key, NEW nsys, NEW s, NEW d \in KvcInsert(c, key, nsys, s)
  PROVE  d = c \/ (Cap # 0 /\ key # "" /\ nsys # 0 /\ Inserted(d, c, key, nsys, s))
<1>1. CASE Cap = 0 \/ key = "" \/ nsys = 0
  BY <1>1 DEF KvcInsert
<1>2. CASE ~(Cap = 0 \/ key = "" \/ nsys = 0)
  <2> DEFINE x == [name |-> key, P |-> nsys, blob |-> KvSave(s, nsys), use |-> c.tick + 1]
             k == KvcSlot(c)
  <2> HIDE DEF x, k
  <2>1. \/ d = [entries |-> [c.entries EXCEPT ![k] = x], tick |-> c.tick + 1]
        \/ d = [c EXCEPT !.entries[k] = NoEntry]
    BY <1>2 DEF KvcInsert, x, k
  <2>2. CASE d = [entries |-> [c.entries EXCEPT ![k] = x], tick |-> c.tick + 1]
    BY <1>2, <2>2 DEF x, k, NewEntry, Inserted
  <2>3. CASE d = [c EXCEPT !.entries[k] = NoEntry]
    <3>1. d.entries = [c.entries EXCEPT ![k] = NoEntry] /\ d.tick = c.tick
      BY <2>3 DEF Cache
    <3>2. d = [entries |-> d.entries, tick |-> d.tick]
      BY <2>3 DEF Cache
    <3> QED BY <1>2, <3>1, <3>2 DEF k, NewEntry, Inserted
  <2> QED BY <2>1, <2>2, <2>3
<1> QED BY <1>1, <1>2

\* An empty entry is an entry.
LEMMA NoEntryIn == NoEntry \in EntryRec /\ NoEntry.name = "" /\ EntryOk(NoEntry)
<1>1. NoEntry.name = "" /\ NoEntry.P = 0 /\ NoEntry.blob = <<>> /\ NoEntry.use = 0
  BY DEF NoEntry
<1>2. <<>> \in Seq(KvRow) /\ "" \in Words /\ 0 \in Nat
  BY DEF Words
<1>3. NoEntry \in EntryRec
  BY <1>2 DEF NoEntry, EntryRec
<1> QED BY <1>1, <1>3 DEF EntryOk

\* What is inserted is a voice's prefix.
Given(key, n, s) ==
  /\ n \in 0 .. Ctx /\ KvSave(s, n) \in Seq(KvRow)
  /\ key # "" => key \in ToSet(Voices) /\ n = Prefix(key).nsys /\ KvSave(s, n) = SysRows(key)

\* What kvc_insert writes is an entry of its voice.
LEMMA GivenEntry ==
  ASSUME NEW key, NEW n, NEW s, Given(key, n, s), key # "", n # 0, NEW u \in Nat
  PROVE  LET x == [name |-> key, P |-> n, blob |-> KvSave(s, n), use |-> u]
         IN  x \in EntryRec /\ EntryOk(x)
<1>1. PICK blob \in Seq(KvRow), m \in 0 .. Ctx :
        /\ blob = KvSave(s, n) /\ m = n /\ key \in ToSet(Voices)
        /\ m = Prefix(key).nsys /\ blob = SysRows(key)
  BY DEF Given
<1>2. m \in 1 .. Ctx /\ m \in Nat
  BY <1>1, UpToCtx
<1>3. key \in Words
  <2>1. ToSet(Voices) \subseteq STRING
    BY NamesAreStrings
  <2> QED BY <1>1, <2>1 DEF Words
<1>4. PICK x : x = [name |-> key, P |-> m, blob |-> blob, use |-> u]
  OBVIOUS
<1>5. x \in EntryRec
  BY <1>2, <1>3, <1>4 DEF EntryRec
<1>6. x.name = key /\ x.P = m /\ x.blob = blob
  BY <1>4
<1>7. EntryOk(x)
  BY <1>1, <1>2, <1>6 DEF EntryOk
<1> QED BY <1>1, <1>4, <1>5, <1>7

\* d names other voices than c only where c has its first empty entry.
FillsGap(c, d) ==
  Named(c, "") # {} =>
    \A e \in 1 .. Cap : d.entries[e].name # c.entries[e].name =>
       c.entries[e].name = "" /\ \A f \in Named(c, "") : e <= f

\* An insert of a voice's prefix keeps what every entry is, and the names of
\* the others but one.
LEMMA InsertOk ==
  ASSUME NEW c \in Cache, CacheOk(c), NEW key, NEW n, NEW s, Given(key, n, s),
         NEW d \in KvcInsert(c, key, n, s)
  PROVE  d \in Cache /\ CacheOk(d) /\ FillsGap(c, d)
<1>1. c.entries \in [1 .. Cap -> EntryRec] /\ c.tick \in Nat
  BY DEF Cache
<1>2. CASE d = c
  BY <1>2 DEF FillsGap
<1>3. CASE d # c
  <2> DEFINE k == KvcSlot(c)
  <2>1. Cap # 0 /\ key # "" /\ n # 0 /\ Inserted(d, c, key, n, s)
    BY <1>3, InsertIs
  <2>2. PICK x : /\ NewEntry(x, c, key, n, s)
                 /\ d.entries = [c.entries EXCEPT ![KvcSlot(c)] = x]
                 /\ d.tick \in {c.tick, c.tick + 1}
                 /\ d = [entries |-> d.entries, tick |-> d.tick]
    BY <2>1 DEF Inserted
  <2>3. /\ k \in 1 .. Cap
        /\ Named(c, "") # {} => c.entries[k].name = "" /\ \A f \in Named(c, "") : k <= f
    BY <2>1, SlotIn
  <2>4. x \in EntryRec /\ EntryOk(x)
    <3>1. CASE x = NoEntry
      BY <3>1, NoEntryIn
    <3>2. CASE x # NoEntry
      <4>1. PICK u \in Nat : u = c.tick + 1
        BY <1>1
      <4>2. x = [name |-> key, P |-> n, blob |-> KvSave(s, n), use |-> u]
        BY <2>2, <3>2, <4>1 DEF NewEntry
      <4> QED BY <2>1, <4>2, GivenEntry
    <3> QED BY <3>1, <3>2
  <2> HIDE DEF k
  <2>5. d.entries = [c.entries EXCEPT ![k] = x]
    BY <2>2 DEF k
  <2>6. d \in Cache
    <3>1. d.entries \in [1 .. Cap -> EntryRec] /\ d.tick \in Nat
      <4>1. d.tick \in Nat
        BY <1>1, <2>2
      <4> QED BY <1>1, <2>4, <2>5, <4>1
    <3>2. d = [entries |-> d.entries, tick |-> d.tick]
      BY <2>2
    <3> QED BY <3>1, <3>2 DEF Cache
  <2>7. ASSUME NEW e \in 1 .. Cap PROVE EntryOk(d.entries[e])
    <3>1. CASE e = k
      BY <1>1, <2>4, <2>5, <3>1
    <3>2. CASE e # k
      <4>1. d.entries[e] = c.entries[e]
        BY <1>1, <2>5, <3>2
      <4>2. EntryOk(c.entries[e])
        BY DEF CacheOk
      <4> QED BY <4>1, <4>2
    <3> QED BY <3>1, <3>2
  <2>8. ASSUME Named(c, "") # {}, NEW e \in 1 .. Cap, d.entries[e].name # c.entries[e].name
        PROVE  c.entries[e].name = "" /\ \A f \in Named(c, "") : e <= f
    <3>1. e = k
      BY <1>1, <2>5, <2>8
    <3> QED BY <2>3, <2>8, <3>1
  <2> QED BY <2>6, <2>7, <2>8 DEF CacheOk, FillsGap
<1> QED BY <1>2, <1>3

\* After it, a voice that was named still is, unless it was evicted.
LEMMA InsertNames ==
  ASSUME NEW c \in Cache, NEW d \in Cache, Named(c, "") # {},
         \A e \in 1 .. Cap : d.entries[e].name # c.entries[e].name => c.entries[e].name = ""
  PROVE  \A v : v # "" /\ Named(c, v) # {} => Named(d, v) # {}
<1> SUFFICES ASSUME NEW v, v # "", Named(c, v) # {} PROVE Named(d, v) # {}
  OBVIOUS
<1>1. DOMAIN c.entries = 1 .. Cap /\ DOMAIN d.entries = 1 .. Cap
  BY DEF Cache
<1>2. PICK e \in 1 .. Cap : c.entries[e].name = v
  BY <1>1 DEF Named
<1>3. d.entries[e].name = v
  BY <1>2
<1> QED BY <1>1, <1>3 DEF Named

\* Entry e is that of the voice key.
Brings(e, c, key) ==
  /\ e \in 1 .. Cap /\ key # "" /\ c.entries[e].name = key
  /\ c.entries[e].blob = SysRows(key) /\ c.entries[e].blob \in Seq(KvRow)
  /\ Prefix(key).nsys \in 1 .. Ctx

\* A hit is the prefix of the request's voice, and marks it as used.
LEMMA HitOk ==
  ASSUME NEW c \in Cache, CacheOk(c), NEW key, NEW nsys, KvcHit(c, key, nsys) # 0
  PROVE  Brings(KvcHit(c, key, nsys), c, key)
<1> DEFINE e == Least(Named(c, key))
<1>1. key # "" /\ Named(c, key) # {} /\ KvcHit(c, key, nsys) = e
  BY DEF KvcHit
<1>2. c.entries \in [1 .. Cap -> EntryRec] /\ Cap \in Nat
  BY Numbers DEF Cache
<1>3. Named(c, key) \in SUBSET Nat
  <2>1. DOMAIN c.entries = 1 .. Cap /\ 1 .. Cap \subseteq Nat
    BY <1>2
  <2> QED BY <2>1 DEF Named
<1>4. e \in Named(c, key)
  BY <1>1, <1>3, LeastIn
<1> HIDE DEF e
<1>5. e \in 1 .. Cap /\ c.entries[e].name = key
  BY <1>2, <1>4 DEF Named
<1>6. EntryOk(c.entries[e]) /\ c.entries[e] \in EntryRec
  BY <1>2, <1>5 DEF CacheOk
<1>7. /\ c.entries[e].blob = SysRows(key) /\ c.entries[e].blob \in Seq(KvRow)
      /\ Prefix(key).nsys \in 1 .. Ctx
  BY <1>1, <1>5, <1>6 DEF EntryOk, EntryRec
<1> QED BY <1>1, <1>5, <1>7 DEF Brings

\* A voice that has an entry is found.
LEMMA HitThere ==
  ASSUME NEW c \in Cache, CacheOk(c), NEW key, key # "", Named(c, key) # {}
  PROVE  KvcHit(c, key, Prefix(key).nsys) # 0
<1>1. PICK es \in [1 .. Cap -> EntryRec] : es = c.entries
  BY DEF Cache
<1>2. DOMAIN es = 1 .. Cap /\ 1 .. Cap \subseteq Nat
  <2>1. DOMAIN es = 1 .. Cap
    OBVIOUS
  <2> QED BY <2>1, SlotsAreNat
<1>3. Named(c, key) \in SUBSET Nat
  BY <1>1, <1>2 DEF Named
<1>4. PICK e : e = Least(Named(c, key)) /\ e \in Named(c, key)
  BY <1>3, LeastIn
<1>5. e \in 1 .. Cap /\ es[e].name = key
  BY <1>1, <1>2, <1>4 DEF Named
<1>6. EntryOk(es[e])
  BY <1>1, <1>5 DEF CacheOk
<1>7. es[e].P = Prefix(key).nsys /\ es[e].P \in 1 .. Ctx
  BY <1>5, <1>6 DEF EntryOk
<1>8. Prefix(key).nsys # 0
  BY <1>7, UpToCtx
<1>9. e # 0
  BY <1>5, NotZeroIn
<1> QED BY <1>1, <1>4, <1>7, <1>8, <1>9 DEF KvcHit

\* A touch changes no name and no rows.
LEMMA TouchOk ==
  ASSUME NEW c \in Cache, CacheOk(c), NEW k \in 1 .. Cap
  PROVE  /\ KvcTouch(c, k) \in Cache /\ CacheOk(KvcTouch(c, k))
         /\ \A e \in 1 .. Cap : KvcTouch(c, k).entries[e].name = c.entries[e].name
<1> DEFINE d == KvcTouch(c, k)
           x == [c.entries[k] EXCEPT !.use = c.tick + 1]
<1>1. c.entries \in [1 .. Cap -> EntryRec] /\ c.tick \in Nat
  BY DEF Cache
<1>2. c.entries[k] \in EntryRec
  BY <1>1
<1>3. x \in EntryRec /\ x.name = c.entries[k].name /\ x.P = c.entries[k].P /\ x.blob = c.entries[k].blob
  <2>1. PICK u \in Nat : u = c.tick + 1
    BY <1>1
  <2>2. PICK y \in EntryRec : y = c.entries[k]
    BY <1>2
  <2>3. x = [y EXCEPT !.use = u]
    BY <2>1, <2>2
  <2>4. [y EXCEPT !.use = u] \in EntryRec
    BY DEF EntryRec
  <2>5. /\ [y EXCEPT !.use = u].name = y.name /\ [y EXCEPT !.use = u].P = y.P
        /\ [y EXCEPT !.use = u].blob = y.blob
    BY DEF EntryRec
  <2> HIDE DEF x
  <2> QED BY <2>2, <2>3, <2>4, <2>5
<1> HIDE DEF x
<1>4. d = [entries |-> [c.entries EXCEPT ![k] = x], tick |-> c.tick + 1]
  <2>1. PICK es \in [1 .. Cap -> EntryRec], t \in Nat : c = [entries |-> es, tick |-> t]
    BY DEF Cache
  <2>2. c.entries = es /\ c.tick = t
    BY <2>1
  <2>3. d = [c EXCEPT !.entries = [@ EXCEPT ![k] = x], !.tick = @ + 1]
    BY <2>1 DEF KvcTouch, x
  <2> HIDE DEF d, x
  <2> QED BY <2>1, <2>2, <2>3
<1> HIDE DEF d
<1>5. d.entries = [c.entries EXCEPT ![k] = x]
  BY <1>4
<1>6. d \in Cache
  BY <1>1, <1>3, <1>4 DEF Cache
<1>7. ASSUME NEW e \in 1 .. Cap PROVE d.entries[e].name = c.entries[e].name /\ EntryOk(d.entries[e])
  <2>1. EntryOk(c.entries[e])
    BY DEF CacheOk
  <2>2. CASE e = k
    <3>1. d.entries[e] = x
      BY <1>1, <1>5, <2>2
    <3> QED BY <1>3, <2>1, <2>2, <3>1 DEF EntryOk
  <2>3. CASE e # k
    <3>1. d.entries[e] = c.entries[e]
      BY <1>1, <1>5, <2>3
    <3> QED BY <2>1, <3>1
  <2> QED BY <2>2, <2>3
<1> QED BY <1>6, <1>7 DEF CacheOk, d

-----------------------------------------------------------------------------
(* One frame of one row.                                                    *)

\* The last of some positions.
LEMMA GreatestIn ==
  ASSUME NEW S, NEW M \in Nat, S \subseteq 0 .. M, S # {}
  PROVE  Greatest(S) \in S /\ \A y \in S : y <= Greatest(S)
<1> DEFINE T == {M - x : x \in S}
<1>1. T \in SUBSET Nat /\ T # {}
  <2>1. \A x \in 0 .. M : M - x \in Nat
    OBVIOUS
  <2>2. T \subseteq Nat
    BY <2>1
  <2>3. PICK x \in S : TRUE
    OBVIOUS
  <2>4. M - x \in T
    OBVIOUS
  <2> HIDE DEF T
  <2> QED BY <2>2, <2>4
<1>2. PICK m \in T : \A y \in T : m <= y
  <2> HIDE DEF T
  <2> QED BY <1>1, LeastNat
<1>3. PICK x \in S : m = M - x
  BY <1>2
<1>4. \A y \in S : y <= x
  <2> SUFFICES ASSUME NEW y \in S PROVE y <= x
    OBVIOUS
  <2>1. M - y \in T /\ x \in 0 .. M /\ y \in 0 .. M
    OBVIOUS
  <2>2. M - x <= M - y
    BY <1>2, <1>3, <2>1
  <2> QED BY <2>1, <2>2
<1> QED BY <1>4 DEF Greatest

\* Splits that reach the last row attend to every row.
LEMMA AttendedAll ==
  ASSUME NEW kv \in Seq(KvRow), NEW n \in Nat, n * Split >= Len(kv)
  PROVE  Attended(kv, n) = kv
<1>1. Len(kv) \in Nat /\ n * Split \in Nat
  BY Numbers
<1>2. Least2(Len(kv), n * Split) = Len(kv)
  BY <1>1 DEF Least2
<1>3. SubSeq(kv, 1, Len(kv)) = kv
  BY SubSeqAll
<1> QED BY <1>2, <1>3 DEF Attended

\* The cache of the fast decoder after k steps, and its frame so far.
FastCache(h, cache, k) == [p \in 1 .. SlabLen |-> IF p <= k THEN <<h, p - 1>> ELSE cache[p]]
FastOut(h, k) == [cb \in Codebooks |-> IF cb <= k THEN <<h[1], h[2], cb>> ELSE <<>>]
FastState(h, cache, k) == [cache |-> FastCache(h, cache, k), x |-> h, out |-> FastOut(h, k)]

\* Step cb of FastRow.
FastStep(h, a, cb) ==
  LET c == [a.cache EXCEPT ![cb + 1] = <<a.x, cb>>]
      y == IF \A p \in FastWindow(cb) : c[p] = <<h, p - 1>> THEN h ELSE <<"?", 0>>
  IN  [cache |-> c, x |-> y, out |-> [a.out EXCEPT ![cb + 1] = <<y[1], y[2], cb + 1>>]]

\* A step of the fast decoder writes its position and passes the hidden state on.
LEMMA FastStepIs ==
  ASSUME NEW h, NEW cache, NEW k \in 0 .. NumCodebooks - 1
  PROVE  FastStep(h, FastState(h, cache, k), k) = FastState(h, cache, k + 1)
<1> DEFINE a == FastState(h, cache, k)
           c == [a.cache EXCEPT ![k + 1] = <<a.x, k>>]
<1>1. k \in Nat /\ k + 1 \in Codebooks /\ k + 1 \in 1 .. SlabLen /\ NumCodebooks \in Nat
  BY Numbers DEF Codebooks, SlabLen
<1>2. a.cache = FastCache(h, cache, k) /\ a.x = h /\ a.out = FastOut(h, k)
  BY DEF FastState
<1> HIDE DEF a
<1>3. c = FastCache(h, cache, k + 1)
  <2>1. c = [p \in 1 .. SlabLen |-> IF p = k + 1 THEN <<h, k>> ELSE FastCache(h, cache, k)[p]]
    BY <1>1, <1>2 DEF FastCache
  <2>2. ASSUME NEW p \in 1 .. SlabLen
        PROVE  (IF p = k + 1 THEN <<h, k>> ELSE FastCache(h, cache, k)[p]) =
               (IF p <= k + 1 THEN <<h, p - 1>> ELSE cache[p])
    <3>1. CASE p = k + 1
      <4>1. p - 1 = k /\ p <= k + 1
        BY <3>1, <1>1
      <4> QED BY <3>1, <4>1
    <3>2. CASE p # k + 1
      <4>1. p <= k <=> p <= k + 1
        BY <3>2, <1>1 DEF SlabLen
      <4> QED BY <3>2, <4>1 DEF FastCache
    <3> QED BY <3>1, <3>2
  <2> HIDE DEF c
  <2> QED BY <2>1, <2>2 DEF FastCache
<1>4. \A p \in FastWindow(k) : c[p] = <<h, p - 1>>
  <2>1. \A p \in 1 .. k + 1 : p \in 1 .. SlabLen /\ p <= k + 1
    BY <1>1 DEF SlabLen
  <2> HIDE DEF c
  <2> QED BY <1>3, <2>1 DEF FastWindow, FastCache
<1>5. [a.out EXCEPT ![k + 1] = <<h[1], h[2], k + 1>>] = FastOut(h, k + 1)
  <2>1. \A cb \in Codebooks : cb # k + 1 => (cb <= k <=> cb <= k + 1)
    BY <1>1 DEF Codebooks
  <2>2. [a.out EXCEPT ![k + 1] = <<h[1], h[2], k + 1>>] =
          [cb \in Codebooks |-> IF cb = k + 1 THEN <<h[1], h[2], k + 1>> ELSE FastOut(h, k)[cb]]
    BY <1>1, <1>2 DEF FastOut
  <2>3. ASSUME NEW cb \in Codebooks
        PROVE  (IF cb = k + 1 THEN <<h[1], h[2], k + 1>> ELSE FastOut(h, k)[cb]) =
               (IF cb <= k + 1 THEN <<h[1], h[2], cb>> ELSE <<>>)
    <3>1. CASE cb = k + 1
      BY <3>1, <1>1
    <3>2. CASE cb # k + 1
      BY <3>2, <2>1 DEF FastOut
    <3> QED BY <3>1, <3>2
  <2> QED BY <2>2, <2>3 DEF FastOut
<1>6. FastStep(h, a, k) =
        [cache |-> c, x |-> h, out |-> [a.out EXCEPT ![k + 1] = <<h[1], h[2], k + 1>>]]
  BY <1>4 DEF FastStep
<1> HIDE DEF c
<1> QED BY <1>3, <1>5, <1>6 DEF FastState, a

\* Every position is written before it is read: the frame is that of h, and
\* nothing of the cache before is left in what is read.
LEMMA FastRowIs ==
  ASSUME NEW h, NEW cache, cache = [p \in 1 .. SlabLen |-> cache[p]]
  PROVE  /\ FastRow(h, cache).out = FrameOf(h)
         /\ FastRow(h, cache).cache = FastCache(h, cache, NumCodebooks)
<1> DEFINE Body(g, k) == IF k = 0 THEN [cache |-> cache, x |-> h, out |-> [cb \in Codebooks |-> <<>>]]
                         ELSE FastStep(h, g[k - 1], k - 1)
           W == [k \in 0 .. NumCodebooks |-> FastState(h, cache, k)]
<1>1. NumCodebooks \in Nat \ {0}
  BY Numbers
<1>2. FastState(h, cache, 0) = [cache |-> cache, x |-> h, out |-> [cb \in Codebooks |-> <<>>]]
  <2>1. FastCache(h, cache, 0) = cache
    <3>1. \A p \in 1 .. SlabLen : ~(p <= 0)
      BY <1>1 DEF SlabLen
    <3>2. FastCache(h, cache, 0) = [p \in 1 .. SlabLen |-> cache[p]]
      BY <3>1 DEF FastCache
    <3> QED BY <3>2
  <2>2. FastOut(h, 0) = [cb \in Codebooks |-> <<>>]
    <3>1. \A cb \in Codebooks : ~(cb <= 0)
      BY <1>1 DEF Codebooks
    <3> QED BY <3>1 DEF FastOut
  <2> QED BY <2>1, <2>2 DEF FastState
<1>3. ASSUME NEW k \in 0 .. NumCodebooks, k # 0
      PROVE  k - 1 \in 0 .. NumCodebooks - 1 /\ k - 1 \in 0 .. NumCodebooks /\ (k - 1) + 1 = k
  BY <1>3, <1>1
<1>4. W = [k \in 0 .. NumCodebooks |-> Body(W, k)]
  <2>1. ASSUME NEW k \in 0 .. NumCodebooks PROVE Body(W, k) = FastState(h, cache, k)
    <3>1. CASE k = 0
      BY <3>1, <1>2
    <3>2. CASE k # 0
      <4>1. W[k - 1] = FastState(h, cache, k - 1)
        BY <3>2, <1>3
      <4>2. FastStep(h, FastState(h, cache, k - 1), k - 1) = FastState(h, cache, k)
        BY <3>2, <1>3, FastStepIs
      <4> HIDE DEF W
      <4> QED BY <3>2, <4>1, <4>2
    <3> QED BY <3>1, <3>2
  <2> HIDE DEF Body
  <2> QED BY <2>1
<1>5. ASSUME NEW g, g = [k \in 0 .. NumCodebooks |-> Body(g, k)]
      PROVE  g[NumCodebooks] = FastState(h, cache, NumCodebooks)
  <2> DEFINE G == {k \in Nat : k <= NumCodebooks => g[k] = FastState(h, cache, k)}
  <2>1. 0 \in G
    <3>1. 0 \in 0 .. NumCodebooks
      BY <1>1
    <3>2. g[0] = Body(g, 0)
      <4> HIDE DEF Body
      <4> QED BY <1>5, <3>1
    <3> QED BY <3>2, <1>2
  <2>2. ASSUME NEW k \in Nat, k \in G PROVE k + 1 \in G
    <3> SUFFICES ASSUME k + 1 <= NumCodebooks PROVE g[k + 1] = FastState(h, cache, k + 1)
      OBVIOUS
    <3>1. k + 1 \in 0 .. NumCodebooks /\ k + 1 # 0 /\ (k + 1) - 1 = k /\ k <= NumCodebooks
      BY <1>1
    <3>2. g[k] = FastState(h, cache, k)
      BY <2>2, <3>1
    <3>3. g[k + 1] = Body(g, k + 1)
      <4> HIDE DEF Body
      <4> QED BY <1>5, <3>1
    <3>4. k \in 0 .. NumCodebooks - 1
      BY <3>1, <1>1
    <3>5. FastStep(h, FastState(h, cache, k), k) = FastState(h, cache, k + 1)
      BY <3>4, FastStepIs
    <3> QED BY <3>1, <3>2, <3>3, <3>5
  <2> HIDE DEF G
  <2>3. Nat \subseteq G
    BY <2>1, <2>2, Induction
  <2>4. NumCodebooks \in G
    BY <2>3, <1>1
  <2> QED BY <2>4, <1>1 DEF G
<1>6. FastRow(h, cache) = (CHOOSE g : g = [k \in 0 .. NumCodebooks |-> Body(g, k)])[NumCodebooks]
  BY DEF FastRow, FastStep
<1> HIDE DEF Body, W
<1>7. FastRow(h, cache) = FastState(h, cache, NumCodebooks)
  BY <1>4, <1>5, <1>6
<1>8. FastOut(h, NumCodebooks) = FrameOf(h)
  <2>1. \A cb \in Codebooks : cb <= NumCodebooks
    BY <1>1 DEF Codebooks
  <2> QED BY <2>1 DEF FastOut, FrameOf
<1>9. /\ FastState(h, cache, NumCodebooks).out = FastOut(h, NumCodebooks)
      /\ FastState(h, cache, NumCodebooks).cache = FastCache(h, cache, NumCodebooks)
  BY DEF FastState
<1> QED BY <1>7, <1>8, <1>9

\* The one token of text in a cache says whose it is.
LEMMA HiddenIs ==
  ASSUME NEW kv \in Seq(KvRow), NEW p \in 1 .. Len(kv), NEW t, kv[p].tok = <<"text", t>>,
         \A j \in 1 .. Len(kv) : j # p => kv[j].tok[1] # "text"
  PROVE  Hidden(kv) = <<t, Len(kv)>>
<1> DEFINE texts == {j \in DOMAIN kv : kv[j].tok[1] = "text"}
<1>1. DOMAIN kv = 1 .. Len(kv)
  OBVIOUS
<1>2. <<"text", t>>[1] = "text" /\ <<"text", t>>[2] = t
  OBVIOUS
<1>3. texts = {p}
  BY <1>1, <1>2
<1>4. Greatest({p}) = p
  <2>1. \A x \in {p} : (\A y \in {p} : y <= x) <=> x = p
    OBVIOUS
  <2> QED BY <2>1 DEF Greatest
<1>5. texts # {}
  BY <1>3
<1>6. Hidden(kv) = <<kv[Greatest(texts)].tok[2], Len(kv)>>
  BY <1>5 DEF Hidden
<1> HIDE DEF texts
<1> QED BY <1>2, <1>3, <1>4, <1>6

\* The rows of the frames that were fed back.
FedBack(heard) == [k \in 1 .. Len(heard) - 1 |-> RowOf(<<"sem", heard[k][1]>>, heard[k])]

\* A frame fed back is a row without text.
LEMMA FrameRowIn ==
  ASSUME NEW F \in Col
  PROVE  /\ RowOf(<<"sem", F[1]>>, F) \in KvRow
         /\ RowOf(<<"sem", F[1]>>, F).tok[1] # "text"
<1>1. 1 \in Codebooks
  BY Numbers DEF Codebooks
<1>2. F[1] \in Code
  BY <1>1 DEF Col
<1>3. <<"sem", F[1]>> \in Tok /\ <<"sem", F[1]>>[1] = "sem"
  BY <1>2 DEF Tok
<1>4. RowOf(<<"sem", F[1]>>, F).tok = <<"sem", F[1]>>
  BY DEF RowOf
<1>5. RowOf(<<"sem", F[1]>>, F) \in KvRow
  BY <1>3 DEF RowOf, KvRow
<1>6. "sem" # "text"
  OBVIOUS
<1> HIDE DEF RowOf
<1> QED BY <1>3, <1>4, <1>5, <1>6

\* So are all of them: one fewer than were heard.
LEMMA FedBackIn ==
  ASSUME NEW heard \in Seq(Col)
  PROVE  /\ FedBack(heard) \in Seq(KvRow)
         /\ Len(FedBack(heard)) = IF Len(heard) = 0 THEN 0 ELSE Len(heard) - 1
         /\ \A j \in 1 .. Len(FedBack(heard)) : FedBack(heard)[j].tok[1] # "text"
<1> DEFINE n == IF Len(heard) = 0 THEN 0 ELSE Len(heard) - 1
           f == FedBack(heard)
<1>1. Len(heard) \in Nat /\ n \in Nat
  OBVIOUS
<1>2. 1 .. Len(heard) - 1 = 1 .. n
  BY <1>1
<1>3. ASSUME NEW k \in 1 .. n
      PROVE  /\ RowOf(<<"sem", heard[k][1]>>, heard[k]) \in KvRow
             /\ RowOf(<<"sem", heard[k][1]>>, heard[k]).tok[1] # "text"
  <2>1. heard[k] \in Col
    BY <1>1
  <2> QED BY <2>1, FrameRowIn
<1>4. f = [k \in 1 .. n |-> RowOf(<<"sem", heard[k][1]>>, heard[k])]
  BY <1>2 DEF FedBack
<1> HIDE DEF f, n
<1>5. f \in [1 .. n -> KvRow]
  BY <1>3, <1>4
<1>6. f \in Seq(KvRow) /\ Len(f) = n
  BY <1>1, <1>5, SeqDef
<1>7. \A j \in 1 .. n : f[j].tok[1] # "text"
  BY <1>3, <1>4
<1> QED BY <1>6, <1>7 DEF f, n

\* The cache behind one more frame.
LEMMA FedBackNext ==
  ASSUME NEW heard \in Seq(Col), NEW F \in Col
  PROVE  FedBack(Append(heard, F)) =
           IF heard = <<>> THEN <<>>
           ELSE Append(FedBack(heard), RowOf(<<"sem", heard[Len(heard)][1]>>, heard[Len(heard)]))
<1> DEFINE h2 == Append(heard, F)
           n == Len(heard)
<1>1. /\ n \in Nat /\ h2 \in Seq(Col) /\ Len(h2) = n + 1
      /\ \A j \in 1 .. n : h2[j] = heard[j]
  BY AppendProperties
<1>2. FedBack(h2) \in Seq(KvRow) /\ Len(FedBack(h2)) = n
  <2> HIDE DEF h2, n
  <2>1. /\ FedBack(h2) \in Seq(KvRow)
        /\ Len(FedBack(h2)) = IF Len(h2) = 0 THEN 0 ELSE Len(h2) - 1
    BY <1>1, FedBackIn
  <2>2. Len(h2) # 0 /\ Len(h2) - 1 = n
    BY <1>1
  <2> QED BY <2>1, <2>2
<1>3. CASE heard = <<>>
  <2>1. n = 0
    BY <1>3
  <2>2. \A q \in Seq(KvRow) : Len(q) = 0 => q = <<>>
    OBVIOUS
  <2> HIDE DEF h2, n
  <2>3. FedBack(h2) = <<>>
    BY <1>2, <2>1, <2>2
  <2> QED BY <1>3, <2>3 DEF h2
<1>4. CASE heard # <<>>
  <2>1. n >= 1 /\ n # 0
    BY <1>4
  <2> DEFINE row == RowOf(<<"sem", heard[n][1]>>, heard[n])
             f == FedBack(heard)
             g == Append(f, row)
  <2>2. f \in Seq(KvRow) /\ Len(f) = n - 1
    BY <2>1, FedBackIn
  <2>3. row \in KvRow
    <3>1. heard[n] \in Col
      BY <2>1
    <3> QED BY <3>1, FrameRowIn
  <2>4. \A j \in 1 .. n - 1 : f[j] = RowOf(<<"sem", heard[j][1]>>, heard[j])
    BY DEF FedBack
  <2>5. \A j \in 1 .. n : FedBack(h2)[j] = RowOf(<<"sem", h2[j][1]>>, h2[j])
    <3>1. Len(h2) - 1 = n
      BY <1>1
    <3> HIDE DEF h2, n
    <3> QED BY <3>1 DEF FedBack
  <2> HIDE DEF row, f
  <2>6. /\ g \in Seq(KvRow) /\ Len(g) = n /\ g[n] = row
        /\ \A j \in 1 .. n - 1 : g[j] = f[j]
    <3>1. /\ g \in Seq(KvRow) /\ Len(g) = Len(f) + 1 /\ g[Len(f) + 1] = row
          /\ \A j \in 1 .. Len(f) : g[j] = f[j]
      BY <2>2, <2>3, AppendProperties
    <3>2. Len(f) + 1 = n
      BY <2>2, <1>1
    <3> HIDE DEF g, n
    <3> QED BY <3>1, <3>2, <2>2
  <2> HIDE DEF g, h2
  <2>7. ASSUME NEW j \in 1 .. n PROVE FedBack(h2)[j] = g[j]
    <3>1. FedBack(h2)[j] = RowOf(<<"sem", heard[j][1]>>, heard[j])
      BY <2>5, <1>1
    <3>2. CASE j = n
      BY <3>1, <3>2, <2>6 DEF row
    <3>3. CASE j # n
      <4>1. j \in 1 .. n - 1
        BY <3>3, <1>1
      <4> QED BY <4>1, <3>1, <2>4, <2>6
    <3> QED BY <3>2, <3>3
  <2>8. FedBack(h2) = g
    BY <1>2, <2>6, <2>7, SeqEqual
  <2> QED BY <1>4, <2>8 DEF g, f, row, h2
<1> QED BY <1>3, <1>4

\* A cache of a prompt and of frames is that of the request's text.
LEMMA HiddenOwn ==
  ASSUME NEW r \in DOMAIN Prompts, NEW f \in Seq(KvRow), \A j \in 1 .. Len(f) : f[j].tok[1] # "text"
  PROVE  LET kv == PromptRows[r] \o f
         IN  /\ kv \in Seq(KvRow) /\ Len(kv) = Len(Prompts[r].ids) + Len(f)
             /\ Hidden(kv) = <<r.text, Len(kv)>>
<1> DEFINE p == Prompts[r]
           w == PromptRows[r]
           kv == w \o f
<1>1. PICK n \in Nat, h \in Nat, s \in Seq(Col) : PromptOk(p, r.text, n, h, s)
  BY OfRequest
<1>2. w = Whole(p) /\ w \in Seq(KvRow) /\ Len(w) = Len(p.ids)
  <2>1. w = Whole(p) /\ Whole(p) \in Seq(KvRow) /\ Len(Whole(p)) = Len(p.ids)
    BY OfRequest
  <2> HIDE DEF w, p
  <2> QED BY <2>1
<1> HIDE DEF p, w
<1>3. /\ PlanOk(p, h, s) /\ Len(p.ids) = n + 4 /\ p.ids[n + 2] = <<"text", r.text>>
      /\ \A j \in 1 .. n + 4 : j # n + 2 => p.ids[j][1] # "text"
  BY <1>1 DEF PromptOk
<1>4. \A j \in 1 .. n + 4 : w[j].tok = p.ids[j]
  <2>1. \A j \in 1 .. n + 4 : Whole(p)[j] = RowOf(p.ids[j], IF p.mask[j] THEN s[j - h] ELSE <<>>)
    BY <1>3, WholeRows
  <2>2. \A x, y : RowOf(x, y).tok = x
    BY DEF RowOf
  <2> QED BY <1>2, <2>1, <2>2
<1>5. /\ kv \in Seq(KvRow) /\ Len(kv) = (n + 4) + Len(f)
      /\ \A j \in 1 .. n + 4 : kv[j] = w[j]
      /\ \A j \in 1 .. Len(f) : kv[(n + 4) + j] = f[j]
  <2>1. /\ kv \in Seq(KvRow) /\ Len(kv) = Len(w) + Len(f)
        /\ \A j \in 1 .. Len(w) : kv[j] = w[j]
        /\ \A j \in 1 .. Len(f) : kv[Len(w) + j] = f[j]
    <3>1. w \in Seq(KvRow)
      BY <1>2
    <3> QED BY <3>1, ConcatAt
  <2>2. Len(w) = n + 4
    BY <1>2, <1>3
  <2> HIDE DEF kv
  <2> QED BY <2>1, <2>2
<1> HIDE DEF kv
<1>6. n + 2 \in 1 .. Len(kv) /\ kv[n + 2].tok = <<"text", r.text>>
  <2>1. n + 2 \in 1 .. n + 4 /\ Len(f) \in Nat
    OBVIOUS
  <2>2. n + 2 \in 1 .. Len(kv)
    BY <1>5, <2>1
  <2> QED BY <2>1, <2>2, <1>3, <1>4, <1>5
<1>7. ASSUME NEW j \in 1 .. Len(kv), j # n + 2 PROVE kv[j].tok[1] # "text"
  <2>1. CASE j <= n + 4
    <3>1. j \in 1 .. n + 4
      BY <2>1
    <3>2. kv[j].tok = p.ids[j] /\ p.ids[j][1] # "text"
      BY <3>1, <1>3, <1>4, <1>5, <1>7
    <3> QED BY <3>2
  <2>2. CASE j > n + 4
    <3>1. j - (n + 4) \in 1 .. Len(f) /\ (n + 4) + (j - (n + 4)) = j
      BY <2>2, <1>5
    <3>2. kv[j] = f[j - (n + 4)]
      BY <3>1, <1>5
    <3> QED BY <3>1, <3>2
  <2> QED BY <2>1, <2>2
<1>8. Hidden(kv) = <<r.text, Len(kv)>>
  BY <1>5, <1>6, <1>7, HiddenIs
<1>9. Len(kv) = Len(p.ids) + Len(f)
  BY <1>3, <1>5
<1> QED BY <1>5, <1>8, <1>9 DEF kv, w, p

\* The rows of a batch: each of its sessions once.
LEMMA InOrderIs ==
  ASSUME NEW S \in SUBSET Slots, NEW seq \in InOrder(S)
  PROVE  /\ seq \in Seq(S) /\ Len(seq) = Cardinality(S) /\ Cardinality(S) \in 0 .. NSlots
         /\ \A i \in S : \E n \in 1 .. Len(seq) : seq[n] = i
         /\ \A m, n \in 1 .. Len(seq) : seq[m] = seq[n] => m = n
<1>1. IsFiniteSet(Slots) /\ Cardinality(Slots) = NSlots
  <2>1. NSlots \in Nat \ {0}
    BY Numbers
  <2>2. IsFiniteSet(0 .. NSlots - 1) /\ Cardinality(0 .. NSlots - 1) = NSlots - 1 - 0 + 1
    BY <2>1, FS_Interval
  <2> QED BY <2>1, <2>2 DEF Slots
<1>2. Cardinality(S) \in Nat /\ Cardinality(S) <= NSlots
  BY <1>1, FS_Subset, FS_CardinalityType
<1>3. seq \in [1 .. Cardinality(S) -> S]
  BY DEF InOrder
<1>4. seq \in Seq(S) /\ Len(seq) = Cardinality(S) /\ DOMAIN seq = 1 .. Cardinality(S)
  BY <1>2, <1>3, SeqDef
<1>5. \A i \in S : \E n \in 1 .. Cardinality(S) : seq[n] = i
  BY <1>4 DEF InOrder
<1>6. \A m, n \in 1 .. Cardinality(S) : m < n => seq[m] < seq[n]
  BY <1>4 DEF InOrder
<1>7. ASSUME NEW m \in 1 .. Cardinality(S), NEW n \in 1 .. Cardinality(S), seq[m] = seq[n]
      PROVE  m = n
  <2>1. seq[m] \in Int /\ seq[n] \in Int
    <3>1. seq[m] \in Slots /\ seq[n] \in Slots
      BY <1>3
    <3>2. Slots \subseteq Int
      BY Numbers DEF Slots
    <3> QED BY <3>1, <3>2
  <2>2. ~(m < n) /\ ~(n < m)
    BY <1>6, <1>7, <2>1
  <2> QED BY <2>2
<1> QED BY <1>2, <1>4, <1>5, <1>7, Numbers

\* A session of the invariant.
Good(a) == a \in ActiveRec /\ Stage(a) /\ Holds(a)

\* The fields of a session's record.
LEMMA ActiveFields ==
  ASSUME NEW a \in ActiveRec
  PROVE  /\ a.on = TRUE /\ a.req \in DOMAIN Prompts /\ a.hit \in BOOLEAN /\ a.pos \in Nat
         /\ a.next \in {1, 2} /\ a.inserted \in BOOLEAN /\ a.prefilling \in BOOLEAN
         /\ a.fresh \in BOOLEAN /\ a.heard \in Seq(Col) /\ a.sess \in SessionRec
         /\ a.sess.st \in {"NEW", "PREFILLED", "DECODING"} /\ a.sess.kv \in Seq(KvRow)
         /\ a.sess.prev \in Col \cup {<<>>}
  BY DEF ActiveRec, SessionRec

\* What is heard is what the invariant says.
Heard(r, heard) == heard = [k \in DOMAIN heard |-> FrameOf(<<r.text, Len(Prompts[r].ids) + k - 1>>)]

\* A session that has been prefilled: what it has.
LEMMA Prefilling ==
  ASSUME NEW a, Good(a), ~a.prefilling
  PROVE  /\ a.sess.kv = PromptRows[a.req] \o FedBack(a.heard) /\ Heard(a.req, a.heard)
         /\ a.sess.st = "DECODING" => a.heard # <<>> /\ a.sess.prev = a.heard[Len(a.heard)] /\ ~a.fresh
         /\ a.sess.st = "PREFILLED" => a.heard = <<>>
         /\ a.sess.st # "NEW"
<1>1. a.fresh \in BOOLEAN
  BY ActiveFields DEF Good
<1>2. a.sess.kv = PromptRows[a.req] \o FedBack(a.heard)
  <2>1. FrameRows(a) = FedBack(a.heard)
    BY DEF FrameRows, FedBack
  <2> QED BY <2>1 DEF Good, Holds
<1>3. Heard(a.req, a.heard)
  BY DEF Good, Holds, Heard
<1>4. /\ a.fresh => a.heard = <<>> /\ a.sess.st = "PREFILLED"
      /\ ~a.fresh => /\ a.sess.st = "DECODING" /\ a.heard # <<>>
                     /\ a.sess.prev = a.heard[Len(a.heard)]
  BY DEF Good, Stage
<1> QED BY <1>1, <1>2, <1>3, <1>4

\* A frame is a column of codes.
LEMMA FrameIn ==
  ASSUME NEW t \in STRING, NEW n \in Nat
  PROVE  FrameOf(<<t, n>>) \in Col
<1>1. <<t, n>>[1] = t /\ <<t, n>>[2] = n
  OBVIOUS
<1>2. \A cb \in Codebooks : <<t, n, cb>> \in Code
  <2>1. \A cb \in Codebooks : cb \in Nat
    BY Numbers DEF Codebooks
  <2> QED BY <2>1 DEF Code
<1> QED BY <1>1, <1>2 DEF FrameOf, Col

\* What a session is after a frame F, its cache now kv.
After(a, kv, F) ==
  [[a EXCEPT !.sess = [[a.sess EXCEPT !.kv = kv] EXCEPT !.st = "DECODING", !.prev = F],
             !.heard = Append(@, F)] EXCEPT !.fresh = FALSE]

\* A session's record after the two assignments.
LEMMA SessionAfter ==
  ASSUME NEW u \in SessionRec, NEW kv \in Seq(KvRow), NEW F \in Col
  PROVE  [[u EXCEPT !.kv = kv] EXCEPT !.st = "DECODING", !.prev = F] =
           [st |-> "DECODING", kv |-> kv, prev |-> F]
<1> DEFINE S1 == {"NEW", "PREFILLED", "DECODING"}
           S2 == Seq(KvRow)
           S3 == Col \cup {<<>>}
<1>1. u \in [st : S1, kv : S2, prev : S3]
  BY DEF SessionRec
<1> HIDE DEF S1, S2, S3
<1>2. PICK x \in S1, y \in S2, w \in S3 : u = [st |-> x, kv |-> y, prev |-> w]
  BY <1>1
<1>3. [u EXCEPT !.kv = kv] = [st |-> x, kv |-> kv, prev |-> w]
  BY <1>2
<1> DEFINE u1 == [u EXCEPT !.kv = kv]
           u2 == [u1 EXCEPT !.st = "DECODING"]
<1>4. u2 = [st |-> "DECODING", kv |-> kv, prev |-> w]
  <2>1. u1 = [st |-> x, kv |-> kv, prev |-> w]
    BY <1>3
  <2> HIDE DEF u1
  <2> QED BY <2>1
<1>5. [u2 EXCEPT !.prev = F] = [st |-> "DECODING", kv |-> kv, prev |-> F]
  <2> HIDE DEF u2
  <2> QED BY <1>4
<1> QED BY <1>5

AfterIs(z, a, kv, F) ==
  /\ z \in ActiveRec /\ z.req = a.req /\ z.hit = a.hit /\ z.prefilling = a.prefilling
  /\ z.fresh = FALSE /\ z.heard = Append(a.heard, F) /\ z.sess.kv = kv
  /\ z.sess.st = "DECODING" /\ z.sess.prev = F

\* The record after a frame.
LEMMA AfterFields ==
  ASSUME NEW a \in ActiveRec, NEW kv \in Seq(KvRow), NEW F \in Col
  PROVE  AfterIs(After(a, kv, F), a, kv, F)
<1> DEFINE z == After(a, kv, F)
           x == [[a.sess EXCEPT !.kv = kv] EXCEPT !.st = "DECODING", !.prev = F]
           h == Append(a.heard, F)
<1>1. x = [st |-> "DECODING", kv |-> kv, prev |-> F]
  <2>1. a.sess \in SessionRec
    BY ActiveFields
  <2> QED BY <2>1, SessionAfter
<1> HIDE DEF x
<1>2. x \in SessionRec /\ x.st = "DECODING" /\ x.kv = kv /\ x.prev = F
  BY <1>1 DEF SessionRec
<1>3. h \in Seq(Col)
  <2>1. a.heard \in Seq(Col)
    BY ActiveFields
  <2> QED BY <2>1, AppendProperties
<1>4. z = [[a EXCEPT !.sess = x, !.heard = h] EXCEPT !.fresh = FALSE]
  BY DEF After, x
<1> HIDE DEF z, h
<1>5. z \in ActiveRec
  BY <1>2, <1>3, <1>4 DEF ActiveRec
<1>6. z.req = a.req /\ z.hit = a.hit /\ z.prefilling = a.prefilling
  BY <1>4 DEF ActiveRec
<1>7. z.fresh = FALSE /\ z.heard = h /\ z.sess = x
  BY <1>4 DEF ActiveRec
<1> QED BY <1>2, <1>5, <1>6, <1>7 DEF z, h, AfterIs

\* A session whose frame is that of its own text and position stays a good one.
LEMMA AfterGood ==
  ASSUME NEW a, Good(a), ~a.prefilling, NEW kv \in Seq(KvRow), Len(kv) <= Ctx,
         NEW F \in Col, F = FrameOf(<<a.req.text, Len(kv)>>),
         kv = PromptRows[a.req] \o FedBack(Append(a.heard, F))
  PROVE  Good(After(a, kv, F))
<1> DEFINE z == After(a, kv, F)
           r == a.req
           h == a.heard
           n == Len(h)
<1>1. a \in ActiveRec /\ r \in DOMAIN Prompts /\ h \in Seq(Col) /\ a.prefilling \in BOOLEAN
  BY ActiveFields DEF Good
<1>2. /\ z \in ActiveRec /\ z.req = r /\ z.prefilling = FALSE /\ z.fresh = FALSE
      /\ z.heard = Append(h, F) /\ z.sess.kv = kv /\ z.sess.st = "DECODING" /\ z.sess.prev = F
  <2>1. AfterIs(z, a, kv, F)
    <3>1. a \in ActiveRec
      BY <1>1
    <3> QED BY <3>1, AfterFields
  <2> HIDE DEF z
  <2> QED BY <1>1, <2>1 DEF AfterIs
<1> HIDE DEF z
<1>3. /\ n \in Nat /\ Append(h, F) \in Seq(Col) /\ Len(Append(h, F)) = n + 1
      /\ Append(h, F)[n + 1] = F /\ \A k \in 1 .. n : Append(h, F)[k] = h[k]
  BY <1>1, AppendProperties
<1>4. Stage(z)
  <2>1. Append(h, F) # <<>>
    <3>1. Len(<<>>) = 0 /\ n + 1 # 0
      BY <1>3
    <3> QED BY <1>3, <3>1
  <2>2. z.sess.prev = z.heard[Len(z.heard)]
    BY <1>2, <1>3
  <2> QED BY <1>2, <2>1, <2>2 DEF Stage
<1>5. Len(kv) = Len(Prompts[r].ids) + n
  <2> DEFINE f == FedBack(Append(h, F))
  <2>1. f \in Seq(KvRow) /\ Len(f) = n
    <3>1. /\ f \in Seq(KvRow)
          /\ Len(f) = IF Len(Append(h, F)) = 0 THEN 0 ELSE Len(Append(h, F)) - 1
      BY <1>3, FedBackIn
    <3>2. Len(Append(h, F)) # 0 /\ Len(Append(h, F)) - 1 = n
      BY <1>3
    <3> HIDE DEF f
    <3> QED BY <3>1, <3>2
  <2>2. \A j \in 1 .. Len(f) : f[j].tok[1] # "text"
    BY <1>3, FedBackIn
  <2> HIDE DEF f
  <2>3. Len(PromptRows[r] \o f) = Len(Prompts[r].ids) + Len(f)
    BY <1>1, <2>1, <2>2, HiddenOwn
  <2> QED BY <2>1, <2>3 DEF f
<1>6. Heard(r, Append(h, F))
  <2> DEFINE L == Len(Prompts[r].ids)
             g == [k \in 1 .. n + 1 |-> FrameOf(<<r.text, L + k - 1>>)]
  <2>1. L \in Nat
    <3> DEFINE m == Prompts[r].nsys
    <3>1. m \in Nat /\ L = m + 4
      BY <1>1, OfRequest
    <3> HIDE DEF L, m
    <3> QED BY <3>1
  <2> HIDE DEF L
  <2>2. \A k \in 1 .. n : h[k] = FrameOf(<<r.text, L + k - 1>>)
    <3>1. Heard(r, h)
      BY Prefilling
    <3>2. DOMAIN h = 1 .. n
      BY <1>1
    <3> QED BY <3>1, <3>2 DEF Heard, L
  <2>3. F = FrameOf(<<r.text, L + (n + 1) - 1>>)
    <3>1. Len(kv) = L + n /\ n \in Nat
      BY <1>3, <1>5 DEF L
    <3>2. L + (n + 1) - 1 = L + n
      <4> HIDE DEF n
      <4> QED BY <2>1, <3>1
    <3> QED BY <3>1, <3>2
  <2>4. ASSUME NEW k \in 1 .. n + 1 PROVE Append(h, F)[k] = FrameOf(<<r.text, L + k - 1>>)
    <3>1. CASE k = n + 1
      BY <3>1, <1>3, <2>3
    <3>2. CASE k # n + 1
      <4>1. k \in 1 .. n
        <5> HIDE DEF n
        <5> QED BY <3>2, <1>3
      <4> QED BY <4>1, <1>3, <2>2
    <3> QED BY <3>1, <3>2
  <2>5. Append(h, F) = [k \in 1 .. n + 1 |-> Append(h, F)[k]]
    <3> DEFINE u == Append(h, F)
    <3>1. u \in Seq(Col) /\ Len(u) = n + 1
      BY <1>3
    <3> HIDE DEF u
    <3>2. u = [k \in 1 .. n + 1 |-> u[k]]
      BY <3>1, SMTT(30)
    <3> QED BY <3>2 DEF u
  <2>6. DOMAIN Append(h, F) = 1 .. n + 1
    BY <2>5
  <2>7. Append(h, F) = [k \in DOMAIN Append(h, F) |-> FrameOf(<<r.text, L + k - 1>>)]
    <3> DEFINE u == Append(h, F)
    <3>1. u = [k \in 1 .. n + 1 |-> u[k]] /\ DOMAIN u = 1 .. n + 1
      BY <2>5, <2>6
    <3>2. \A k \in 1 .. n + 1 : u[k] = FrameOf(<<r.text, L + k - 1>>)
      BY <2>4
    <3> HIDE DEF u
    <3>3. u = [k \in DOMAIN u |-> FrameOf(<<r.text, L + k - 1>>)]
      BY <3>1, <3>2
    <3> QED BY <3>3 DEF u
  <2> QED BY <2>7 DEF Heard, L
<1>7. Holds(z)
  <2>1. FrameRows(z) = FedBack(z.heard)
    BY DEF FrameRows, FedBack
  <2>2. z.sess.kv = PromptRows[z.req] \o FrameRows(z)
    BY <1>2, <2>1
  <2>3. z.heard = [k \in DOMAIN z.heard |-> FrameOf(<<z.req.text, Len(Prompts[z.req].ids) + k - 1>>)]
    BY <1>2, <1>6 DEF Heard
  <2>4. Len(z.sess.kv) <= Ctx
    BY <1>2
  <2> QED BY <1>2, <2>2, <2>3, <2>4 DEF Holds
<1> QED BY <1>2, <1>4, <1>7 DEF Good, z

Associates(u, w, x) == Append(u \o w, x) = u \o Append(w, x)

\* Appending to a concatenation.
LEMMA AppendConcat ==
  ASSUME NEW T, NEW u \in Seq(T), NEW w \in Seq(T), NEW x \in T
  PROVE  Associates(u, w, x)
<1> DEFINE y == Append(w, x)
           c == u \o w
           z == Append(c, x)
<1>1. /\ y \in Seq(T) /\ Len(y) = Len(w) + 1 /\ y[Len(w) + 1] = x
      /\ \A j \in 1 .. Len(w) : y[j] = w[j]
  BY AppendProperties
<1>2. /\ c \in Seq(T) /\ Len(c) = Len(u) + Len(w)
      /\ \A j \in 1 .. Len(u) : c[j] = u[j]
      /\ \A j \in 1 .. Len(w) : c[Len(u) + j] = w[j]
  BY ConcatAt
<1> HIDE DEF c
<1>3. /\ z \in Seq(T) /\ Len(z) = Len(c) + 1 /\ z[Len(c) + 1] = x
      /\ \A j \in 1 .. Len(c) : z[j] = c[j]
  BY <1>2, AppendProperties
<1>4. Len(u) \in Nat /\ Len(w) \in Nat
  OBVIOUS
<1> HIDE DEF y, z
<1>5. Len(z) = Len(u) + Len(y)
  BY <1>1, <1>2, <1>3, <1>4
<1>6. \A j \in 1 .. Len(u) : z[j] = u[j]
  <2>1. \A j \in 1 .. Len(u) : j \in 1 .. Len(c)
    BY <1>2, <1>4
  <2> QED BY <2>1, <1>2, <1>3
<1>7. ASSUME NEW j \in 1 .. Len(y) PROVE z[Len(u) + j] = y[j]
  <2>1. CASE j = Len(w) + 1
    <3>1. Len(u) + j = Len(c) + 1
      BY <2>1, <1>2, <1>4
    <3> QED BY <2>1, <3>1, <1>1, <1>3
  <2>2. CASE j # Len(w) + 1
    <3>1. j \in 1 .. Len(w) /\ Len(u) + j \in 1 .. Len(c)
      BY <2>2, <1>1, <1>2, <1>4
    <3> QED BY <3>1, <1>1, <1>2, <1>3
  <2> QED BY <2>1, <2>2
<1>8. u \o y = z
  BY <1>1, <1>3, <1>5, <1>6, <1>7, Glue
<1> QED BY <1>8 DEF y, z, c, Associates

\* Nothing added to a sequence.
LEMMA ConcatNone ==
  ASSUME NEW T, NEW u \in Seq(T)
  PROVE  u \o <<>> = u
  OBVIOUS

\* Rows of the cache of slot i.
KvLen(i) == Len(act[i].sess.kv)

\* The splits of a batch reach every row that is decoding.
LEMMA SplitsOk ==
  ASSUME graphs \in [1 .. NSlots -> {0, NSplits(Ctx)}],
         NEW dec \in Seq(Slots), Len(dec) \in 0 .. NSlots, NEW new,
         \A b \in 1 .. Len(dec) : KvLen(dec[b]) \in Nat /\ KvLen(dec[b]) < Ctx
  PROVE  LET n == SplitsOf(dec, new)
         IN  /\ n \in Nat /\ \A b \in 1 .. Len(dec) : n * Split >= KvLen(dec[b]) + 1
             /\ new = <<>> => n \in {0, NSplits(Ctx)}
<1> DEFINE n == SplitsOf(dec, new)
           T == {KvLen(dec[b]) + 1 : b \in 1 .. Len(dec)}
<1>1. Ctx \in Nat /\ NSplits(Ctx) \in Nat /\ NSplits(Ctx) * Split >= Ctx /\ Split \in Nat
  BY Numbers, SplitsReach
<1>2. CASE Len(dec) = 0
  <2>1. n = 0
    BY <1>2 DEF SplitsOf
  <2>2. 1 .. Len(dec) = {}
    BY <1>2
  <2> HIDE DEF n
  <2> QED BY <2>1, <2>2 DEF n
<1>3. CASE Len(dec) # 0 /\ new # <<>>
  <2>1. n = NSplits(LongestKv(dec))
    BY <1>3 DEF SplitsOf
  <2>2. LongestKv(dec) = Greatest(T)
    <3>1. DOMAIN dec = 1 .. Len(dec)
      OBVIOUS
    <3> QED BY <3>1 DEF LongestKv, KvLen
  <2>3. T \subseteq 0 .. Ctx
    BY <1>1
  <2>4. T # {}
    <3>1. 1 \in 1 .. Len(dec)
      BY <1>3
    <3> QED BY <3>1
  <2>5. \A b \in 1 .. Len(dec) : KvLen(dec[b]) + 1 \in T
    OBVIOUS
  <2> HIDE DEF T
  <2>6. Greatest(T) \in T /\ \A y \in T : y <= Greatest(T)
    BY <1>1, <2>3, <2>4, GreatestIn
  <2> DEFINE m == Greatest(T)
  <2>7. m \in Nat
    <3>1. \A x \in 0 .. Ctx : x \in Nat
      BY <1>1
    <3>2. m \in T
      BY <2>6
    <3> HIDE DEF m
    <3> QED BY <2>3, <3>1, <3>2
  <2> HIDE DEF m
  <2>8. NSplits(m) \in Nat /\ NSplits(m) * Split >= m
    BY <2>7, SplitsReach
  <2>9. ASSUME NEW b \in 1 .. Len(dec) PROVE NSplits(m) * Split >= KvLen(dec[b]) + 1
    <3>1. KvLen(dec[b]) + 1 <= m /\ KvLen(dec[b]) \in Nat
      BY <2>5, <2>6 DEF m
    <3>2. NSplits(m) * Split \in Nat
      BY <1>1, <2>8
    <3> QED BY <2>7, <2>8, <3>1, <3>2
  <2> HIDE DEF n
  <2> QED BY <1>3, <2>1, <2>2, <2>8, <2>9 DEF m, n
<1>4. CASE Len(dec) # 0 /\ new = <<>>
  <2>1. Len(dec) \in 1 .. NSlots
    BY <1>4
  <2>2. graphs[Len(dec)] \in {0, NSplits(Ctx)}
    BY <2>1
  <2>3. n = NSplits(Ctx)
    BY <1>4, <2>2 DEF SplitsOf, CapturedSplits
  <2>4. ASSUME NEW b \in 1 .. Len(dec) PROVE NSplits(Ctx) * Split >= KvLen(dec[b]) + 1
    <3>1. KvLen(dec[b]) \in Nat /\ KvLen(dec[b]) < Ctx
      OBVIOUS
    <3>2. NSplits(Ctx) * Split \in Nat
      BY <1>1
    <3> QED BY <1>1, <3>1, <3>2
  <2> HIDE DEF n
  <2> QED BY <1>1, <2>3, <2>4 DEF n
<1> QED BY <1>2, <1>3, <1>4

\* What a session that takes part in a batch has.
RowIs(i, r, heard, kv) ==
  /\ r \in DOMAIN Prompts /\ heard \in Seq(Col) /\ kv \in Seq(KvRow)
  /\ act[i].req = r /\ act[i].heard = heard /\ act[i].sess.kv = kv
  /\ kv = PromptRows[r] \o FedBack(heard) /\ Len(kv) <= Ctx

\* A session that is not prefilling has its row.
LEMMA RowThere ==
  ASSUME NEW i, Good(act[i]), ~act[i].prefilling
  PROVE  \E r, heard, kv : RowIs(i, r, heard, kv)
<1> DEFINE a == act[i]
<1>1. a \in ActiveRec /\ Len(a.sess.kv) <= Ctx
  BY DEF Good, Holds
<1>2. a.req \in DOMAIN Prompts /\ a.heard \in Seq(Col) /\ a.sess.kv \in Seq(KvRow)
  BY <1>1, ActiveFields
<1>3. a.sess.kv = PromptRows[a.req] \o FedBack(a.heard)
  BY Prefilling
<1>4. RowIs(i, a.req, a.heard, a.sess.kv)
  BY <1>1, <1>2, <1>3 DEF RowIs
<1> QED BY <1>4

\* A decoding session has room for a row, and embeds its last frame there.
Feeds(i, heard, kv) ==
  /\ heard # <<>> /\ Len(kv) < Ctx /\ act[i].sess.prev = heard[Len(heard)]

\* A decoding session that is not forced has room, and something to feed back.
LEMMA DecodingRow ==
  ASSUME NEW i, Good(act[i]), ~act[i].prefilling, act[i].sess.st = "DECODING", ~Forced(act[i].sess),
         NEW r, NEW heard, NEW kv, RowIs(i, r, heard, kv)
  PROVE  Feeds(i, heard, kv)
<1>1. act[i].heard = heard /\ act[i].sess.kv = kv /\ kv \in Seq(KvRow)
  BY DEF RowIs
<1>2. act[i].heard # <<>> /\ act[i].sess.prev = act[i].heard[Len(act[i].heard)]
  BY Prefilling
<1>3. ~(Len(kv) >= Ctx)
  BY <1>1 DEF Forced
<1>4. Len(kv) < Ctx
  <2>1. Len(kv) \in Nat
    BY <1>1
  <2> QED BY <1>3, <2>1, Numbers
<1> QED BY <1>1, <1>2, <1>4 DEF Feeds

\* A session that has not decoded has not been heard.
LEMMA FirstRow ==
  ASSUME NEW i, Good(act[i]), ~act[i].prefilling, act[i].sess.st = "PREFILLED",
         NEW r, NEW heard, NEW kv, RowIs(i, r, heard, kv)
  PROVE  heard = <<>>
<1>1. act[i].heard = heard
  BY DEF RowIs
<1>2. act[i].heard = <<>>
  BY Prefilling
<1> QED BY <1>1, <1>2

\* The sessions of a batch and its rows.
GraphsOk == graphs \in [1 .. NSlots -> {0, NSplits(Ctx)}]
SlabOk == slab = [b \in 1 .. NSlots |-> [p \in 1 .. SlabLen |-> slab[b][p]]]
Ready(i) == Good(act[i]) /\ ~act[i].prefilling
Batch(S, dec, new) ==
  /\ S \in SUBSET Slots /\ dec \in InOrder(DecodeRows(S)) /\ new \in InOrder(FirstRows(S))
  /\ \A i \in S : Ready(i)
  /\ GraphsOk /\ SlabOk

\* The rows of a batch: those that decode, then those that begin.
LEMMA BatchRows ==
  ASSUME NEW S, NEW dec, NEW new, Batch(S, dec, new)
  PROVE  /\ dec \in Seq(Slots) /\ new \in Seq(Slots) /\ dec \o new \in Seq(S)
         /\ Len(dec) \in Nat /\ Len(new) \in Nat
         /\ Len(dec \o new) = Len(dec) + Len(new) /\ Len(dec) + Len(new) <= NSlots
         /\ \A b \in 1 .. Len(dec) : (dec \o new)[b] = dec[b] /\ dec[b] \in DecodeRows(S)
         /\ \A b \in 1 .. Len(new) : (dec \o new)[Len(dec) + b] = new[b] /\ new[b] \in FirstRows(S)
<1> DEFINE D == DecodeRows(S)
           N == FirstRows(S)
<1>1. S \in SUBSET Slots /\ dec \in InOrder(D) /\ new \in InOrder(N)
  BY DEF Batch
<1>2. D \subseteq S /\ N \subseteq S
  BY DEF DecodeRows, FirstRows
<1>3. D \cap N = {}
  <2>1. \A i \in D : act[i].sess.st = "DECODING"
    BY DEF DecodeRows
  <2>2. \A i \in N : act[i].sess.st = "PREFILLED"
    BY DEF FirstRows
  <2> QED BY <2>1, <2>2
<1> HIDE DEF D, N
<1>4. /\ dec \in Seq(D) /\ Len(dec) = Cardinality(D)
      /\ new \in Seq(N) /\ Len(new) = Cardinality(N)
  BY <1>1, <1>2, InOrderIs
<1>5. Cardinality(D) + Cardinality(N) <= NSlots /\ Cardinality(D) \in Nat /\ Cardinality(N) \in Nat
  <2>1. IsFiniteSet(Slots) /\ Cardinality(Slots) = NSlots
    <3>1. NSlots \in Nat \ {0}
      BY Numbers
    <3>2. IsFiniteSet(0 .. NSlots - 1) /\ Cardinality(0 .. NSlots - 1) = NSlots - 1 - 0 + 1
      BY <3>1, FS_Interval
    <3> QED BY <3>1, <3>2 DEF Slots
  <2>2. D \in SUBSET Slots /\ N \in SUBSET Slots /\ D \cup N \in SUBSET Slots
    BY <1>1, <1>2
  <2>3. IsFiniteSet(D) /\ IsFiniteSet(N)
    BY <2>1, <2>2, FS_Subset
  <2>4. Cardinality(D \cup N) <= NSlots
    BY <2>1, <2>2, FS_Subset
  <2>5. Cardinality(D \cup N) = Cardinality(D) + Cardinality(N) - Cardinality(D \cap N)
    BY <2>3, FS_Union
  <2>6. Cardinality(D \cap N) = 0
    BY <1>3, FS_EmptySet
  <2>7. Cardinality(D) \in Nat /\ Cardinality(N) \in Nat
    BY <2>3, FS_CardinalityType
  <2> QED BY <2>4, <2>5, <2>6, <2>7
<1>6. dec \in Seq(S) /\ new \in Seq(S) /\ dec \in Seq(Slots) /\ new \in Seq(Slots)
  BY <1>1, <1>2, <1>4
<1>7. /\ dec \o new \in Seq(S) /\ Len(dec \o new) = Len(dec) + Len(new)
      /\ \A j \in 1 .. Len(dec) : (dec \o new)[j] = dec[j]
      /\ \A j \in 1 .. Len(new) : (dec \o new)[Len(dec) + j] = new[j]
  BY <1>6, ConcatAt
<1>8. /\ \A b \in 1 .. Len(dec) : dec[b] \in D
      /\ \A b \in 1 .. Len(new) : new[b] \in N
  BY <1>4
<1> QED BY <1>4, <1>5, <1>6, <1>7, <1>8 DEF D, N

\* The frames before, of all rows that decode.
Prevs(dec) == [n \in DOMAIN dec |-> act[dec[n]].sess.prev]

\* A decoding row is fed the last frame of its own session.
LEMMA DecodingFeeds ==
  ASSUME NEW S, NEW dec, NEW new, Batch(S, dec, new), NEW b \in 1 .. Len(dec),
         NEW i, i = dec[b], NEW r, NEW heard, NEW kv, RowIs(i, r, heard, kv)
  PROVE  Feeds(i, heard, kv)
<1>1. i \in DecodeRows(S)
  BY BatchRows
<1>2. i \in S /\ act[i].sess.st = "DECODING" /\ ~Forced(act[i].sess)
  BY <1>1 DEF DecodeRows
<1>3. Good(act[i]) /\ ~act[i].prefilling
  BY <1>2 DEF Batch, Ready
<1> QED BY <1>2, <1>3, DecodingRow

\* A session of a batch has its row.
LEMMA ReadyRow ==
  ASSUME NEW S, NEW dec, NEW new, Batch(S, dec, new), NEW i \in S
  PROVE  \E r, heard, kv : RowIs(i, r, heard, kv)
<1>1. Good(act[i]) /\ ~act[i].prefilling
  BY DEF Batch, Ready
<1> QED BY <1>1, RowThere

Silent(heard) == heard = <<>>

\* A client hears nothing before its session's first frame.
LEMMA FirstEmpty ==
  ASSUME NEW S, NEW dec, NEW new, Batch(S, dec, new), NEW b \in 1 .. Len(new),
         NEW i, i = new[b], NEW r, NEW heard, NEW kv, RowIs(i, r, heard, kv)
  PROVE  Silent(heard)
<1>1. i \in FirstRows(S)
  BY BatchRows
<1>2. i \in S /\ act[i].sess.st = "PREFILLED"
  BY <1>1 DEF FirstRows
<1>3. Good(act[i]) /\ ~act[i].prefilling
  BY <1>2 DEF Batch, Ready
<1> QED BY <1>2, <1>3, FirstRow DEF Silent

\* The last frame is a column.
LEMMA LastIn ==
  ASSUME NEW heard \in Seq(Col), heard # <<>>
  PROVE  heard[Len(heard)] \in Col
  OBVIOUS

\* The frames before are columns of codes.
LEMMA PrevsIn ==
  ASSUME NEW S, NEW dec, NEW new, Batch(S, dec, new)
  PROVE  /\ Prevs(dec) \in Seq(Col) /\ Len(Prevs(dec)) = Len(dec)
         /\ \A b \in 1 .. Len(dec) : Prevs(dec)[b] = act[dec[b]].sess.prev
<1>1. /\ dec \in Seq(Slots) /\ Len(dec) \in Nat /\ DOMAIN dec = 1 .. Len(dec)
      /\ \A b \in 1 .. Len(dec) : dec[b] \in S
  <2>1. /\ dec \in Seq(Slots) /\ Len(dec) \in Nat
        /\ \A b \in 1 .. Len(dec) : dec[b] \in DecodeRows(S)
    BY BatchRows
  <2> QED BY <2>1 DEF DecodeRows
<1>2. ASSUME NEW b \in 1 .. Len(dec) PROVE act[dec[b]].sess.prev \in Col
  <2>1. PICK i : i = dec[b]
    OBVIOUS
  <2>2. i \in S
    BY <1>1, <2>1
  <2>3. PICK r, heard, kv : RowIs(i, r, heard, kv)
    BY <2>2, ReadyRow
  <2>4. Feeds(i, heard, kv)
    BY <2>1, <2>3, DecodingFeeds
  <2>5. heard \in Seq(Col)
    BY <2>3 DEF RowIs
  <2>6. act[i].sess.prev = heard[Len(heard)] /\ heard # <<>>
    BY <2>4 DEF Feeds
  <2>7. act[i].sess.prev \in Col
    BY <2>5, <2>6, LastIn
  <2> QED BY <2>1, <2>7
<1>3. Prevs(dec) = [b \in 1 .. Len(dec) |-> act[dec[b]].sess.prev]
  BY <1>1 DEF Prevs
<1>4. Prevs(dec) \in [1 .. Len(dec) -> Col]
  BY <1>2, <1>3
<1>5. Prevs(dec) \in Seq(Col) /\ Len(Prevs(dec)) = Len(dec)
  BY <1>1, <1>4, SeqDef
<1> QED BY <1>3, <1>5

\* The cache of a row that decodes is the one before and its last frame.
FeedsBack(dec, new, b, r, heard, kv, F) ==
  /\ RowKv(dec, new, b) = PromptRows[r] \o FedBack(Append(heard, F))
  /\ RowKv(dec, new, b) \in Seq(KvRow) /\ Len(RowKv(dec, new, b)) = Len(kv) + 1
  /\ Len(kv) < Ctx

\* A row that decodes gets the row of its last frame.
LEMMA KvOfDecoding ==
  ASSUME NEW S, NEW dec, NEW new, Batch(S, dec, new), NEW b \in 1 .. Len(dec),
         NEW i, i = dec[b], NEW r, NEW heard, NEW kv, RowIs(i, r, heard, kv), NEW F \in Col
  PROVE  FeedsBack(dec, new, b, r, heard, kv, F)
<1>1. /\ r \in DOMAIN Prompts /\ heard \in Seq(Col) /\ kv \in Seq(KvRow)
      /\ act[i].sess.kv = kv /\ kv = PromptRows[r] \o FedBack(heard)
  BY DEF RowIs
<1>2. heard # <<>> /\ Len(kv) < Ctx /\ act[i].sess.prev = heard[Len(heard)]
  <2>1. b \in 1 .. Len(dec) /\ i = dec[b] /\ RowIs(i, r, heard, kv) /\ Batch(S, dec, new)
    OBVIOUS
  <2>2. Feeds(i, heard, kv)
    BY <2>1, DecodingFeeds
  <2> QED BY <2>2 DEF Feeds
<1>3. PICK prev \in Col : prev = heard[Len(heard)]
  BY <1>1, <1>2, LastIn
<1>4. Column(Flat(Prevs(dec)), b) = prev
  <2>1. /\ Prevs(dec) \in Seq(Col) /\ Len(Prevs(dec)) = Len(dec)
        /\ Prevs(dec)[b] = act[dec[b]].sess.prev
    BY PrevsIn
  <2>2. b \in 1 .. Len(Prevs(dec))
    BY <2>1
  <2>3. Column(Flat(Prevs(dec)), b) = Prevs(dec)[b]
    BY <2>1, <2>2, ColumnFlat
  <2> QED BY <1>2, <1>3, <2>1, <2>3
<1> DEFINE row == RowOf(<<"sem", prev[1]>>, prev)
<1>5. RowKv(dec, new, b) = Append(kv, row)
  <2>1. b <= Len(dec)
    OBVIOUS
  <2> DEFINE staged == Flat([n \in DOMAIN dec |-> act[dec[n]].sess.prev])
  <2>2. staged = Flat(Prevs(dec))
    BY DEF Prevs
  <2> HIDE DEF staged
  <2>3. RowKv(dec, new, b) =
          Append(act[dec[b]].sess.kv, RowOf(<<"sem", act[dec[b]].sess.prev[1]>>, Column(staged, b)))
    BY <2>1 DEF RowKv, staged
  <2>4. act[dec[b]].sess.kv = kv /\ act[dec[b]].sess.prev = prev
    BY <1>1, <1>2, <1>3
  <2> QED BY <1>4, <2>2, <2>3, <2>4
<1>6. row \in KvRow
  BY FrameRowIn
<1> HIDE DEF row
<1>7. FedBack(Append(heard, F)) = Append(FedBack(heard), row)
  BY <1>1, <1>2, <1>3, FedBackNext DEF row
<1>8. PromptRows[r] \in Seq(KvRow) /\ FedBack(heard) \in Seq(KvRow)
  <2>1. FedBack(heard) \in Seq(KvRow)
    BY <1>1, FedBackIn
  <2>2. PromptRows[r] = Whole(Prompts[r]) /\ Whole(Prompts[r]) \in Seq(KvRow)
    BY <1>1, OfRequest
  <2> QED BY <2>1, <2>2
<1>9. Append(kv, row) = PromptRows[r] \o Append(FedBack(heard), row)
  <2> DEFINE u == PromptRows[r]
             w == FedBack(heard)
  <2>1. u \in Seq(KvRow) /\ w \in Seq(KvRow) /\ kv = u \o w
    BY <1>1, <1>8
  <2> HIDE DEF u, w
  <2>2. Associates(u, w, row)
    BY <1>6, <2>1, AppendConcat
  <2>3. Append(kv, row) = u \o Append(w, row)
    BY <2>1, <2>2 DEF Associates
  <2> QED BY <2>3 DEF u, w
<1>10. Append(kv, row) \in Seq(KvRow) /\ Len(Append(kv, row)) = Len(kv) + 1
  BY <1>1, <1>6, AppendProperties
<1> QED BY <1>2, <1>5, <1>7, <1>9, <1>10 DEF FeedsBack

\* That of a row that does not decode yet is its prompt.
KeepsKv(dec, new, j, r, heard, kv, F) ==
  RowKv(dec, new, j) = kv /\ kv = PromptRows[r] \o FedBack(Append(heard, F))

\* A row that begins keeps its cache.
LEMMA KvOfFirst ==
  ASSUME NEW S, NEW dec, NEW new, Batch(S, dec, new), NEW b \in 1 .. Len(new),
         NEW i, i = new[b], NEW r, NEW heard, NEW kv, RowIs(i, r, heard, kv), NEW F \in Col
  PROVE  \A j : j = Len(dec) + b => KeepsKv(dec, new, j, r, heard, kv, F)
<1>1. /\ heard \in Seq(Col) /\ act[i].sess.kv = kv /\ kv = PromptRows[r] \o FedBack(heard)
  BY DEF RowIs
<1>2. heard = <<>>
  <2>1. b \in 1 .. Len(new) /\ i = new[b] /\ RowIs(i, r, heard, kv) /\ Batch(S, dec, new)
    OBVIOUS
  <2>2. Silent(heard)
    BY <2>1, FirstEmpty
  <2> QED BY <2>2 DEF Silent
<1>3. RowKv(dec, new, Len(dec) + b) = kv
  <2>1. Len(dec) \in Nat
    BY BatchRows
  <2>2. ~(Len(dec) + b <= Len(dec)) /\ (Len(dec) + b) - Len(dec) = b
    BY <2>1
  <2> QED BY <1>1, <2>2 DEF RowKv
<1>4. FedBack(Append(heard, F)) = <<>>
  BY <1>1, <1>2, FedBackNext
<1>5. FedBack(heard) = <<>>
  <2>1. FedBack(heard) \in Seq(KvRow) /\ Len(FedBack(heard)) = 0
    <3>1. Len(heard) = 0
      BY <1>2
    <3> QED BY <1>1, <3>1, FedBackIn
  <2>2. \A q \in Seq(KvRow) : Len(q) = 0 => q = <<>>
    OBVIOUS
  <2> QED BY <2>1, <2>2
<1> QED BY <1>1, <1>3, <1>4, <1>5 DEF KeepsKv

\* The cache of row j of a batch.
RowKvOk(dec, new, j, r, heard, F) ==
  LET k == RowKv(dec, new, j)
  IN  /\ k \in Seq(KvRow) /\ Len(k) <= Ctx /\ Len(k) \in Nat
      /\ k = PromptRows[r] \o FedBack(Append(heard, F))
      /\ Hidden(k) = <<r.text, Len(k)>>
      /\ j <= Len(dec) => Attended(k, SplitsOf(dec, new)) = k

\* The text of a row is its request's.
LEMMA RowText ==
  ASSUME NEW r \in DOMAIN Prompts, NEW heard \in Seq(Col), NEW F \in Col, NEW k,
         k = PromptRows[r] \o FedBack(Append(heard, F))
  PROVE  k \in Seq(KvRow) /\ Hidden(k) = <<r.text, Len(k)>>
<1> DEFINE f == FedBack(Append(heard, F))
<1>1. Append(heard, F) \in Seq(Col)
  BY AppendProperties
<1>2. f \in Seq(KvRow) /\ \A j \in 1 .. Len(f) : f[j].tok[1] # "text"
  BY <1>1, FedBackIn
<1> HIDE DEF f
<1>3. LET kv == PromptRows[r] \o f
      IN  /\ kv \in Seq(KvRow) /\ Len(kv) = Len(Prompts[r].ids) + Len(f)
          /\ Hidden(kv) = <<r.text, Len(kv)>>
  BY <1>2, HiddenOwn
<1>4. k = PromptRows[r] \o f
  BY DEF f
<1> QED BY <1>3, <1>4

\* The splits of a batch reach each of its decoding rows.
LEMMA DecodingSplits ==
  ASSUME NEW S, NEW dec, NEW new, Batch(S, dec, new)
  PROVE  LET n == SplitsOf(dec, new)
         IN  /\ n \in Nat /\ \A b \in 1 .. Len(dec) : n * Split >= KvLen(dec[b]) + 1
             /\ new = <<>> => n \in {0, NSplits(Ctx)}
<1>1. graphs \in [1 .. NSlots -> {0, NSplits(Ctx)}]
  BY DEF Batch, GraphsOk
<1>2. /\ dec \in Seq(Slots) /\ Len(dec) \in 0 .. NSlots
      /\ \A b \in 1 .. Len(dec) : dec[b] \in DecodeRows(S)
  <2>1. /\ dec \in Seq(Slots) /\ Len(dec) \in Nat /\ Len(new) \in Nat
        /\ Len(dec) + Len(new) <= NSlots
        /\ \A b \in 1 .. Len(dec) : dec[b] \in DecodeRows(S)
    BY BatchRows
  <2> QED BY <2>1, Numbers
<1>3. ASSUME NEW b \in 1 .. Len(dec) PROVE KvLen(dec[b]) \in Nat /\ KvLen(dec[b]) < Ctx
  <2>1. PICK i : i = dec[b]
    OBVIOUS
  <2>2. i \in S
    BY <1>2, <2>1 DEF DecodeRows
  <2>3. PICK r, heard, kv : RowIs(i, r, heard, kv)
    BY <2>2, ReadyRow
  <2>4. Feeds(i, heard, kv)
    BY <2>1, <2>3, DecodingFeeds
  <2>5. KvLen(i) = Len(kv) /\ kv \in Seq(KvRow)
    BY <2>3 DEF RowIs, KvLen
  <2>6. Len(kv) < Ctx /\ Len(kv) \in Nat
    BY <2>4, <2>5 DEF Feeds
  <2> QED BY <2>1, <2>5, <2>6
<1> QED BY <1>1, <1>2, <1>3, SplitsOk

\* Every row of a batch has its own prompt and frames, and attends to all of them.
LEMMA RowKvIs ==
  ASSUME NEW S, NEW dec, NEW new, Batch(S, dec, new), NEW j \in 1 .. Len(dec) + Len(new),
         NEW i, i = (dec \o new)[j], NEW r, NEW heard, NEW kv, RowIs(i, r, heard, kv), NEW F \in Col
  PROVE  RowKvOk(dec, new, j, r, heard, F)
<1>1. /\ Len(dec) \in Nat /\ Len(new) \in Nat
      /\ \A b \in 1 .. Len(dec) : (dec \o new)[b] = dec[b]
      /\ \A b \in 1 .. Len(new) : (dec \o new)[Len(dec) + b] = new[b]
  BY BatchRows
<1>2. r \in DOMAIN Prompts /\ heard \in Seq(Col) /\ kv \in Seq(KvRow) /\ Len(kv) <= Ctx
  BY DEF RowIs
<1>3. PICK k : k = RowKv(dec, new, j)
  OBVIOUS
<1>4. CASE j <= Len(dec)
  <2>1. j \in 1 .. Len(dec) /\ i = dec[j]
    BY <1>1, <1>4
  <2>2. /\ RowKv(dec, new, j) = PromptRows[r] \o FedBack(Append(heard, F))
        /\ RowKv(dec, new, j) \in Seq(KvRow) /\ Len(RowKv(dec, new, j)) = Len(kv) + 1
        /\ Len(kv) < Ctx
    <3>1. FeedsBack(dec, new, j, r, heard, kv, F)
      BY <2>1, KvOfDecoding
    <3> QED BY <3>1 DEF FeedsBack
  <2>3. k = PromptRows[r] \o FedBack(Append(heard, F)) /\ k \in Seq(KvRow) /\ Len(k) = Len(kv) + 1
    BY <1>3, <2>2
  <2>4. Hidden(k) = <<r.text, Len(k)>>
    BY <1>2, <2>3, RowText
  <2>5. Len(k) \in Nat /\ Len(k) <= Ctx
    <3>1. Len(kv) \in Nat
      BY <1>2
    <3> QED BY <2>2, <2>3, <3>1, Numbers
  <2>6. PICK n \in Nat : n = SplitsOf(dec, new) /\ n * Split >= KvLen(dec[j]) + 1
    BY <2>1, DecodingSplits
  <2>7. KvLen(dec[j]) = Len(kv)
    BY <2>1 DEF KvLen, RowIs
  <2>8. n * Split >= Len(k)
    BY <2>3, <2>6, <2>7
  <2>9. Attended(k, n) = k
    BY <2>3, <2>8, AttendedAll
  <2> QED BY <1>3, <2>3, <2>4, <2>5, <2>6, <2>9 DEF RowKvOk
<1>5. CASE j > Len(dec)
  <2> DEFINE b == j - Len(dec)
  <2>1. b \in 1 .. Len(new) /\ Len(dec) + b = j
    BY <1>1, <1>5
  <2> HIDE DEF b
  <2>2. i = new[b]
    BY <1>1, <2>1
  <2>3. KeepsKv(dec, new, j, r, heard, kv, F)
    BY <2>1, <2>2, KvOfFirst
  <2>4. k = kv /\ k = PromptRows[r] \o FedBack(Append(heard, F))
    BY <1>3, <2>3 DEF KeepsKv
  <2>5. Hidden(k) = <<r.text, Len(k)>>
    BY <1>2, <2>4, RowText
  <2>6. k \in Seq(KvRow) /\ Len(k) \in Nat /\ Len(k) <= Ctx
    BY <1>2, <2>4
  <2>7. ~(j <= Len(dec))
    BY <1>1, <1>5
  <2> QED BY <1>3, <2>4, <2>5, <2>6, <2>7 DEF RowKvOk
<1> QED BY <1>1, <1>4, <1>5

\* A request has a text.
LEMMA TextIn ==
  ASSUME NEW r \in DOMAIN Prompts
  PROVE  r.text \in STRING
  BY OfRequest

\* The frame F of row j, its cache now k.
RowStep(dec, new, j, r, heard, k, F) ==
  /\ k = RowKv(dec, new, j) /\ F \in Col /\ F = FrameOf(<<r.text, Len(k)>>)
  /\ RowKvOk(dec, new, j, r, heard, F)
  /\ RowFrame(dec, new, j).out = F
  /\ RowFrame(dec, new, j).cache = [p \in 1 .. SlabLen |-> RowFrame(dec, new, j).cache[p]]

\* The frame of a row is that of its own text and position.
LEMMA RowFrameIs ==
  ASSUME NEW S, NEW dec, NEW new, Batch(S, dec, new), NEW j \in 1 .. Len(dec) + Len(new),
         NEW i, i = (dec \o new)[j], NEW r, NEW heard, NEW kv, RowIs(i, r, heard, kv)
  PROVE  \E k, F : RowStep(dec, new, j, r, heard, k, F)
<1>1. PICK k : k = RowKv(dec, new, j)
  OBVIOUS
<1>2. r \in DOMAIN Prompts /\ r.text \in STRING
  BY TextIn DEF RowIs
<1>3. FrameOf(<<r.text, 0>>) \in Col
  BY <1>2, FrameIn
<1>4. RowKvOk(dec, new, j, r, heard, FrameOf(<<r.text, 0>>))
  BY <1>3, RowKvIs
<1>5. /\ Len(k) \in Nat /\ Hidden(k) = <<r.text, Len(k)>>
      /\ j <= Len(dec) => Attended(k, SplitsOf(dec, new)) = k
  BY <1>1, <1>4 DEF RowKvOk
<1>6. PICK F \in Col : F = FrameOf(<<r.text, Len(k)>>)
  BY <1>2, <1>5, FrameIn
<1>7. RowKvOk(dec, new, j, r, heard, F)
  BY RowKvIs
<1>8. RowFrame(dec, new, j) = FastRow(<<r.text, Len(k)>>, slab[j])
  <2>1. CASE j <= Len(dec)
    BY <1>1, <1>5, <2>1 DEF RowFrame
  <2>2. CASE ~(j <= Len(dec))
    BY <1>1, <1>5, <2>2 DEF RowFrame
  <2> QED BY <2>1, <2>2
<1>9. slab[j] = [p \in 1 .. SlabLen |-> slab[j][p]]
  <2>1. j \in 1 .. NSlots
    <3>1. Len(dec) \in Nat /\ Len(new) \in Nat /\ Len(dec) + Len(new) <= NSlots
      BY BatchRows
    <3> QED BY <3>1, Numbers
  <2>2. slab = [b \in 1 .. NSlots |-> [p \in 1 .. SlabLen |-> slab[b][p]]]
    BY DEF Batch, SlabOk
  <2> QED BY <2>1, <2>2
<1>10. /\ FastRow(<<r.text, Len(k)>>, slab[j]).out = FrameOf(<<r.text, Len(k)>>)
       /\ FastRow(<<r.text, Len(k)>>, slab[j]).cache =
            FastCache(<<r.text, Len(k)>>, slab[j], NumCodebooks)
  BY <1>9, FastRowIs
<1>11. RowFrame(dec, new, j).out = F
  BY <1>6, <1>8, <1>10
<1>12. RowFrame(dec, new, j).cache = [p \in 1 .. SlabLen |-> RowFrame(dec, new, j).cache[p]]
  <2>1. PICK c : c = RowFrame(dec, new, j).cache
    OBVIOUS
  <2>2. c = FastCache(<<r.text, Len(k)>>, slab[j], NumCodebooks)
    BY <1>8, <1>10, <2>1
  <2>3. c = [p \in 1 .. SlabLen |-> c[p]]
    BY <2>2 DEF FastCache
  <2> QED BY <2>1, <2>3
<1>13. RowStep(dec, new, j, r, heard, k, F)
  BY <1>1, <1>6, <1>7, <1>11, <1>12 DEF RowStep
<1> QED BY <1>13

\* The frames of a batch, as they lie row by row.
Frames(dec, new) == [b \in 1 .. Len(dec \o new) |-> RowFrame(dec, new, b)]
Codes(dec, new) ==
  [k \in 1 .. Len(dec \o new) * NumCodebooks |->
     Frames(dec, new)[((k - 1) \div NumCodebooks) + 1].out[((k - 1) % NumCodebooks) + 1]]
FrameAt(dec, new, b) == [cb \in Codebooks |-> Codes(dec, new)[(b - 1) * NumCodebooks + cb]]

\* The codes of a row are found where they were laid.
LEMMA FrameAtIs ==
  ASSUME NEW S, NEW dec, NEW new, Batch(S, dec, new), NEW b \in 1 .. Len(dec) + Len(new),
         NEW F \in Col, RowFrame(dec, new, b).out = F
  PROVE  FrameAt(dec, new, b) = F
<1> DEFINE B == Len(dec \o new)
           N == NumCodebooks
<1>1. N \in Nat \ {0}
  BY Numbers
<1>2. B \in Nat /\ b \in 1 .. B /\ b \in Nat
  <2>1. Len(dec) \in Nat /\ Len(new) \in Nat /\ B = Len(dec) + Len(new)
    BY BatchRows
  <2> HIDE DEF B
  <2> QED BY <2>1
<1>3. Frames(dec, new)[b] = RowFrame(dec, new, b)
  BY <1>2 DEF Frames
<1>4. ASSUME NEW cb \in Codebooks PROVE Codes(dec, new)[(b - 1) * N + cb] = F[cb]
  <2>1. cb \in Nat /\ cb >= 1 /\ cb <= N
    BY <1>1 DEF Codebooks
  <2>2. PICK q \in Nat : q = b - 1
    BY <1>2
  <2>3. PICK c \in 0 .. N - 1 : c = cb - 1
    BY <2>1, <1>1
  <2> DEFINE k == (b - 1) * N + cb
  <2> HIDE DEF N, B
  <2>4. k \in Int /\ k - 1 = q * N + c
    BY <2>1, <2>2, <2>3, <1>1
  <2>5. (q * N + c) % N = c /\ (q * N + c) \div N = q
    BY <1>1, DivMod
  <2>6. k \in 1 .. B * N
    <3>1. q + 1 <= B
      BY <1>2, <2>2
    <3>2. (q + 1) * N <= B * N
      BY <3>1, <1>1, <1>2
    <3>3. k >= 1 /\ k <= (q + 1) * N
      BY <2>1, <2>2, <1>1
    <3>4. (q + 1) * N \in Int /\ B * N \in Int
      BY <1>1, <1>2
    <3> HIDE DEF k
    <3> QED BY <2>4, <3>2, <3>3, <3>4
  <2> HIDE DEF k
  <2>7. Codes(dec, new)[k] = Frames(dec, new)[((k - 1) \div N) + 1].out[((k - 1) % N) + 1]
    BY <2>6 DEF Codes, N, B
  <2>8. ((k - 1) \div N) + 1 = b /\ ((k - 1) % N) + 1 = cb
    BY <1>2, <2>1, <2>2, <2>3, <2>4, <2>5
  <2>9. Codes(dec, new)[k] = F[cb]
    BY <1>3, <2>7, <2>8
  <2> QED BY <2>9 DEF k, N
<1>5. FrameAt(dec, new, b) = [cb \in Codebooks |-> F[cb]]
  BY <1>4 DEF FrameAt
<1> QED BY <1>5 DEF Col

-----------------------------------------------------------------------------
(* A decode of some sessions.                                               *)

\* What it makes of a session that has no row, that ends, that goes on.
Ended(a) == [a EXCEPT !.sess.st = "FINISHED"]
Done(a, kv) == [a EXCEPT !.sess = [[a.sess EXCEPT !.kv = kv] EXCEPT !.st = "FINISHED"]]
Stepped(a, kv, F) ==
  [a EXCEPT !.sess = [[a.sess EXCEPT !.kv = kv] EXCEPT !.st = "DECODING", !.prev = F],
            !.heard = Append(@, F)]

NoRow(dec, new, i) == \A b \in 1 .. Len(dec \o new) : (dec \o new)[b] # i
RowOfSlot(dec, new, i) == CHOOSE b \in 1 .. Len(dec \o new) : (dec \o new)[b] = i
Harvested(dec, new, eos, i, b) ==
  IF b \in eos THEN Done(act[i], RowKv(dec, new, b))
  ELSE Stepped(act[i], RowKv(dec, new, b), FrameAt(dec, new, b))

BatchAct(S, dec, new, eos) ==
  [i \in Slots |-> IF i \notin S THEN act[i]
                   ELSE IF NoRow(dec, new, i) THEN Ended(act[i])
                   ELSE Harvested(dec, new, eos, i, RowOfSlot(dec, new, i))]
BatchSlab(dec, new) ==
  [b \in 1 .. NSlots |-> IF b <= Len(dec \o new) THEN Frames(dec, new)[b].cache ELSE slab[b]]
BatchGraphs(dec, new) ==
  IF Len(dec \o new) > 0 /\ new = <<>>
    THEN [graphs EXCEPT ![Len(dec \o new)] = SplitsOf(dec, new)]
    ELSE graphs

\* The fields of a result.
LEMMA ThreeFields ==
  ASSUME NEW x, NEW y, NEW z, NEW f, f = [act |-> x, slab |-> y, graphs |-> z]
  PROVE  f.act = x /\ f.slab = y /\ f.graphs = z
  OBVIOUS

\* The three results of s2p_model_batch_next_frame.
LEMMA BatchIs ==
  ASSUME NEW S, NEW dec, NEW new, NEW eos
  PROVE  LET f == BatchNextFrame(S, dec, new, eos)
         IN  /\ f.act = BatchAct(S, dec, new, eos) /\ f.slab = BatchSlab(dec, new)
             /\ f.graphs = BatchGraphs(dec, new)
<1> DEFINE x == BatchAct(S, dec, new, eos)
           y == BatchSlab(dec, new)
           z == BatchGraphs(dec, new)
<1>1. BatchNextFrame(S, dec, new, eos) = [act |-> x, slab |-> y, graphs |-> z]
  BY DEF BatchNextFrame, BatchAct, BatchSlab, BatchGraphs, NoRow, RowOfSlot, Harvested, Ended, Done,
         Stepped, FrameAt, Codes, Frames
<1> HIDE DEF x, y, z
<1> QED BY <1>1, ThreeFields DEF x, y, z

\* A session that ends, at its text's end or the context's, is finished.
LEMMA Finished ==
  ASSUME NEW a \in ActiveRec, NEW kv
  PROVE  Ended(a).sess.st = "FINISHED" /\ Done(a, kv).sess.st = "FINISHED"
<1>1. PICK u \in SessionRec : u = a.sess
  BY ActiveFields
<1>2. ASSUME NEW y PROVE [a EXCEPT !.sess = y].sess = y
  BY DEF ActiveRec
<1>3. ASSUME NEW y \in SessionRec PROVE [y EXCEPT !.st = "FINISHED"].st = "FINISHED"
  BY DEF SessionRec
<1>4. [[u EXCEPT !.kv = kv] EXCEPT !.st = "FINISHED"].st = "FINISHED"
  BY DEF SessionRec
<1>5. Ended(a) = [a EXCEPT !.sess = [u EXCEPT !.st = "FINISHED"]]
  BY <1>1 DEF Ended
<1>6. Done(a, kv) = [a EXCEPT !.sess = [[u EXCEPT !.kv = kv] EXCEPT !.st = "FINISHED"]]
  BY <1>1 DEF Done
<1>7. Ended(a).sess.st = "FINISHED"
  <2>1. Ended(a).sess = [u EXCEPT !.st = "FINISHED"]
    BY <1>2, <1>5
  <2> QED BY <1>3, <2>1
<1>8. Done(a, kv).sess.st = "FINISHED"
  <2>1. Done(a, kv).sess = [[u EXCEPT !.kv = kv] EXCEPT !.st = "FINISHED"]
    BY <1>2, <1>6
  <2> QED BY <1>4, <2>1
<1> QED BY <1>7, <1>8

\* A session goes on: it is still a good one, of the same request.
GoesOn(z, a) ==
  Good(z) /\ ~z.prefilling /\ z.on = TRUE /\ z.req = a.req /\ z.hit = a.hit

\* A session steps to the frame after its own rows.
LEMMA AfterGoesOn ==
  ASSUME NEW i, Good(act[i]), ~act[i].prefilling, NEW r, NEW heard, NEW kv0, RowIs(i, r, heard, kv0),
         NEW F \in Col, NEW kv \in Seq(KvRow), Len(kv) <= Ctx, F = FrameOf(<<r.text, Len(kv)>>),
         kv = PromptRows[r] \o FedBack(Append(heard, F))
  PROVE  GoesOn(After(act[i], kv, F), act[i])
<1>1. PICK a : a = act[i]
  OBVIOUS
<1>2. Good(a) /\ ~a.prefilling /\ a.req = r /\ a.heard = heard
  BY <1>1 DEF RowIs
<1>3. F = FrameOf(<<a.req.text, Len(kv)>>) /\ kv = PromptRows[a.req] \o FedBack(Append(a.heard, F))
  BY <1>2
<1>4. Good(After(a, kv, F))
  BY <1>2, <1>3, AfterGood
<1>5. PICK z : z = After(a, kv, F)
  OBVIOUS
<1>6. a \in ActiveRec
  BY <1>2 DEF Good
<1>7. AfterIs(z, a, kv, F)
  BY <1>5, <1>6, AfterFields
<1>8. z.req = a.req /\ z.hit = a.hit /\ z.prefilling = a.prefilling
  BY <1>7 DEF AfterIs
<1>9. z.on = TRUE
  <2>1. z \in ActiveRec
    BY <1>7 DEF AfterIs
  <2> QED BY <2>1, ActiveFields
<1>10. GoesOn(z, a)
  BY <1>2, <1>4, <1>5, <1>8, <1>9 DEF GoesOn
<1> QED BY <1>1, <1>5, <1>10

\* A session of a batch ends, or goes on with its own frame.
LEMMA BatchStep ==
  ASSUME NEW S, NEW dec, NEW new, Batch(S, dec, new), NEW eos, NEW i \in S,
         NEW z, z = BatchAct(S, dec, new, eos)[i]
  PROVE  z.sess.st = "FINISHED" \/ GoesOn([z EXCEPT !.fresh = FALSE], act[i])
<1>1. i \in Slots /\ Good(act[i]) /\ ~act[i].prefilling
  BY DEF Batch, Ready
<1>2. act[i] \in ActiveRec
  BY <1>1 DEF Good
<1>3. CASE NoRow(dec, new, i)
  <2>1. z = Ended(act[i])
    BY <1>1, <1>3 DEF BatchAct
  <2> QED BY <1>2, <2>1, Finished
<1>4. CASE ~NoRow(dec, new, i)
  <2>1. PICK b \in 1 .. Len(dec \o new) : b = RowOfSlot(dec, new, i) /\ (dec \o new)[b] = i
    BY <1>4 DEF NoRow, RowOfSlot
  <2>2. z = Harvested(dec, new, eos, i, b)
    BY <1>1, <1>4, <2>1 DEF BatchAct
  <2>3. CASE b \in eos
    <3>1. z = Done(act[i], RowKv(dec, new, b))
      BY <2>2, <2>3 DEF Harvested
    <3> QED BY <1>2, <3>1, Finished
  <2>4. CASE b \notin eos
    <3>1. z = Stepped(act[i], RowKv(dec, new, b), FrameAt(dec, new, b))
      BY <2>2, <2>4 DEF Harvested
    <3>2. b \in 1 .. Len(dec) + Len(new) /\ i = (dec \o new)[b]
      BY <2>1, BatchRows
    <3>3. PICK r, heard, kv0 : RowIs(i, r, heard, kv0)
      BY ReadyRow
    <3>4. PICK k, F : RowStep(dec, new, b, r, heard, k, F)
      BY <3>2, <3>3, RowFrameIs
    <3>5. /\ k = RowKv(dec, new, b) /\ F \in Col /\ F = FrameOf(<<r.text, Len(k)>>)
          /\ RowKvOk(dec, new, b, r, heard, F)
          /\ RowFrame(dec, new, b).out = F
      BY <3>4 DEF RowStep
    <3>6. FrameAt(dec, new, b) = F
      BY <3>2, <3>5, FrameAtIs
    <3>7. k \in Seq(KvRow) /\ Len(k) <= Ctx /\ k = PromptRows[r] \o FedBack(Append(heard, F))
      BY <3>5 DEF RowKvOk
    <3>8. GoesOn(After(act[i], k, F), act[i])
      BY <1>1, <3>3, <3>5, <3>7, AfterGoesOn
    <3>9. [z EXCEPT !.fresh = FALSE] = After(act[i], k, F)
      BY <3>1, <3>5, <3>6 DEF Stepped, After
    <3> QED BY <3>8, <3>9
  <2> QED BY <2>3, <2>4
<1> QED BY <1>3, <1>4

\* What a decode of S makes of the sessions.
Decoded(S) ==
  /\ act' = [i \in Slots |-> act'[i]]
  /\ \A i \in Slots : \/ act'[i] = act[i] \/ act'[i] = Free
                      \/ i \in S /\ GoesOn(act'[i], act[i])

\* The sessions taken over from a batch.
TakenOver(S, f) ==
  act' = [i \in Slots |-> IF i \notin S THEN act[i]
                          ELSE IF f.act[i].sess.st = "FINISHED" \/ Len(f.act[i].heard) >= FrameCap
                            THEN Free
                          ELSE [f.act[i] EXCEPT !.fresh = FALSE]]

\* The worker takes over from a batch what goes on, and retires the rest.
LEMMA BatchDecoded ==
  ASSUME NEW S, NEW dec, NEW new, Batch(S, dec, new), NEW eos,
         NEW f, f = BatchNextFrame(S, dec, new, eos), TakenOver(S, f)
  PROVE  Decoded(S)
<1>1. f.act = BatchAct(S, dec, new, eos)
  BY BatchIs
<1>2. ASSUME NEW i \in S PROVE act'[i] = Free \/ GoesOn(act'[i], act[i])
  <2>1. i \in Slots
    BY DEF Batch
  <2>2. PICK z : z = BatchAct(S, dec, new, eos)[i]
    OBVIOUS
  <2>3. z.sess.st = "FINISHED" \/ GoesOn([z EXCEPT !.fresh = FALSE], act[i])
    BY <2>2, BatchStep
  <2>4. f.act[i] = z
    BY <1>1, <2>2
  <2>5. act'[i] = IF z.sess.st = "FINISHED" \/ Len(z.heard) >= FrameCap THEN Free
                  ELSE [z EXCEPT !.fresh = FALSE]
    BY <2>1, <2>4 DEF TakenOver
  <2> QED BY <2>3, <2>5
<1>3. ASSUME NEW i \in Slots, i \notin S PROVE act'[i] = act[i]
  BY <1>3 DEF TakenOver
<1>4. act' = [i \in Slots |-> act'[i]]
  <2> DEFINE g(i) == IF i \notin S THEN act[i]
                     ELSE IF f.act[i].sess.st = "FINISHED" \/ Len(f.act[i].heard) >= FrameCap
                       THEN Free
                     ELSE [f.act[i] EXCEPT !.fresh = FALSE]
  <2>1. act' = [i \in Slots |-> g(i)]
    BY DEF TakenOver
  <2> HIDE DEF g
  <2> QED BY <2>1
<1> QED BY <1>2, <1>3, <1>4 DEF Decoded

\* So it does when the GPU fails.
LEMMA RetiredDecoded ==
  ASSUME NEW S, act' = Retired(S)
  PROVE  Decoded(S)
  BY DEF Retired, Decoded

\* The graphs of the splits are for the whole context.
LEMMA BatchGraphsOk ==
  ASSUME NEW S, NEW dec, NEW new, Batch(S, dec, new)
  PROVE  BatchGraphs(dec, new) \in [1 .. NSlots -> {0, NSplits(Ctx)}]
<1> DEFINE B == Len(dec \o new)
           n == SplitsOf(dec, new)
<1>1. graphs \in [1 .. NSlots -> {0, NSplits(Ctx)}]
  BY DEF Batch, GraphsOk
<1>2. CASE B > 0 /\ new = <<>>
  <2>1. n \in {0, NSplits(Ctx)}
    BY <1>2, DecodingSplits
  <2>2. BatchGraphs(dec, new) = [graphs EXCEPT ![B] = n]
    BY <1>2 DEF BatchGraphs
  <2> HIDE DEF n
  <2> QED BY <1>1, <2>1, <2>2
<1>3. CASE ~(B > 0 /\ new = <<>>)
  BY <1>1, <1>3 DEF BatchGraphs
<1> QED BY <1>2, <1>3

\* The caches of the fast decoder keep their length.
LEMMA BatchSlabOk ==
  ASSUME NEW S, NEW dec, NEW new, Batch(S, dec, new), NEW x, x = BatchSlab(dec, new)
  PROVE  x = [b \in 1 .. NSlots |-> [p \in 1 .. SlabLen |-> x[b][p]]]
<1>1. slab = [b \in 1 .. NSlots |-> [p \in 1 .. SlabLen |-> slab[b][p]]]
  BY DEF Batch, SlabOk
<1>2. ASSUME NEW b \in 1 .. NSlots PROVE x[b] = [p \in 1 .. SlabLen |-> x[b][p]]
  <2>1. CASE b <= Len(dec \o new)
    <3>1. x[b] = Frames(dec, new)[b].cache
      BY <2>1 DEF BatchSlab
    <3>2. /\ b \in 1 .. Len(dec \o new) /\ b \in 1 .. Len(dec) + Len(new)
          /\ dec \o new \in Seq(S)
      <4>1. /\ Len(dec \o new) \in Nat /\ Len(dec \o new) = Len(dec) + Len(new)
            /\ dec \o new \in Seq(S)
        BY BatchRows
      <4> QED BY <2>1, <4>1
    <3>3. x[b] = RowFrame(dec, new, b).cache
      BY <3>1, <3>2 DEF Frames
    <3>4. PICK i \in S : i = (dec \o new)[b]
      BY <3>2
    <3>5. PICK r, heard, kv : RowIs(i, r, heard, kv)
      BY ReadyRow
    <3>6. PICK k, F : RowStep(dec, new, b, r, heard, k, F)
      BY <3>2, <3>4, <3>5, RowFrameIs
    <3>7. RowFrame(dec, new, b).cache = [p \in 1 .. SlabLen |-> RowFrame(dec, new, b).cache[p]]
      BY <3>6 DEF RowStep
    <3> QED BY <3>3, <3>7
  <2>2. CASE ~(b <= Len(dec \o new))
    <3>1. x[b] = slab[b]
      BY <2>2 DEF BatchSlab
    <3>2. slab[b] = [p \in 1 .. SlabLen |-> slab[b][p]]
      BY <1>1
    <3> QED BY <3>1, <3>2
  <2> QED BY <2>1, <2>2
<1>3. x = [b \in 1 .. NSlots |-> x[b]]
  BY DEF BatchSlab
<1> QED BY <1>2, <1>3

\* A decode, whatever its order, ends and failures.
LEMMA DecodeOk ==
  ASSUME NEW S \in SUBSET Slots, Decode(S), \A i \in S : Ready(i), GraphsOk, SlabOk
  PROVE  Decoded(S) /\ GraphsOk' /\ SlabOk'
<1>1. PICK dec \in InOrder(DecodeRows(S)), new \in InOrder(FirstRows(S)) :
    \/ \E eos \in SUBSET (1 .. Len(dec) + Len(new)) :
         LET f == BatchNextFrame(S, dec, new, eos)
             Over(i) == \/ f.act[i].sess.st = "FINISHED"
                        \/ Len(f.act[i].heard) >= FrameCap
         IN  /\ act' = [i \in Slots |-> IF i \notin S THEN act[i]
                                       ELSE IF Over(i) THEN Free
                                       ELSE [f.act[i] EXCEPT !.fresh = FALSE]]
             /\ slab' = f.slab /\ graphs' = f.graphs
    \/ /\ Faults /\ act' = Retired(S)
       /\ UNCHANGED slab
       /\ graphs' \in {graphs, BatchNextFrame(S, dec, new, {}).graphs}
  BY DEF Decode
<1>2. Batch(S, dec, new)
  BY DEF Batch
<1>3. BatchGraphs(dec, new) \in [1 .. NSlots -> {0, NSplits(Ctx)}]
  BY <1>2, BatchGraphsOk
<1>4. CASE \E eos \in SUBSET (1 .. Len(dec) + Len(new)) :
         LET f == BatchNextFrame(S, dec, new, eos)
             Over(i) == \/ f.act[i].sess.st = "FINISHED"
                        \/ Len(f.act[i].heard) >= FrameCap
         IN  /\ act' = [i \in Slots |-> IF i \notin S THEN act[i]
                                       ELSE IF Over(i) THEN Free
                                       ELSE [f.act[i] EXCEPT !.fresh = FALSE]]
             /\ slab' = f.slab /\ graphs' = f.graphs
  <2>1. PICK eos, f :
          /\ f = BatchNextFrame(S, dec, new, eos)
          /\ act' = [i \in Slots |-> IF i \notin S THEN act[i]
                                     ELSE IF f.act[i].sess.st = "FINISHED" \/ Len(f.act[i].heard) >= FrameCap
                                       THEN Free
                                     ELSE [f.act[i] EXCEPT !.fresh = FALSE]]
          /\ slab' = f.slab /\ graphs' = f.graphs
    BY <1>4
  <2>2. Decoded(S)
    <3>1. TakenOver(S, f)
      BY <2>1 DEF TakenOver
    <3>2. f = BatchNextFrame(S, dec, new, eos)
      BY <2>1
    <3> QED BY <1>2, <3>1, <3>2, BatchDecoded
  <2>3. slab' = BatchSlab(dec, new) /\ graphs' = BatchGraphs(dec, new)
    BY <2>1, BatchIs
  <2>4. SlabOk'
    BY <1>2, <2>3, BatchSlabOk DEF SlabOk
  <2> QED BY <1>3, <2>2, <2>3, <2>4 DEF GraphsOk
<1>5. CASE /\ Faults /\ act' = Retired(S)
           /\ UNCHANGED slab
           /\ graphs' \in {graphs, BatchNextFrame(S, dec, new, {}).graphs}
  <2>1. Decoded(S)
    BY <1>5, RetiredDecoded
  <2>2. graphs' = graphs \/ graphs' = BatchGraphs(dec, new)
    BY <1>5, BatchIs
  <2>3. GraphsOk'
    BY <1>3, <2>2 DEF GraphsOk
  <2>4. SlabOk'
    BY <1>5 DEF SlabOk
  <2> QED BY <2>1, <2>3, <2>4
<1> QED BY <1>1, <1>4, <1>5
-----------------------------------------------------------------------------
(* The steps.  The invariant, in the parts that the steps change.           *)

SlotOk(x) == x = Free \/ Good(x)
SlotsFor(f) == f = [i \in Slots |-> f[i]] /\ \A i \in Slots : SlotOk(f[i])

\* A slot is taken by a session or free.
LEMMA GoodBusy ==
  ASSUME NEW x
  PROVE  /\ Good(x) => x.on = TRUE
         /\ x \in ActiveRec /\ Stage(x) /\ Holds(x) => Good(x)
         /\ Free.on = FALSE
  BY ActiveFields DEF Good, Free

\* The two ways to say what a slot holds.
LEMMA SlotsAre ==
  ASSUME NEW f
  PROVE  SlotsFor(f) <=> /\ f \in [Slots -> ActiveRec \cup {Free}]
                         /\ \A i \in Slots : f[i].on => Stage(f[i]) /\ Holds(f[i])
<1>1. ASSUME SlotsFor(f)
      PROVE  /\ f \in [Slots -> ActiveRec \cup {Free}]
             /\ \A i \in Slots : f[i].on => Stage(f[i]) /\ Holds(f[i])
  <2>1. ASSUME NEW i \in Slots
        PROVE  f[i] \in ActiveRec \cup {Free} /\ (f[i].on => Stage(f[i]) /\ Holds(f[i]))
    <3>1. CASE f[i] = Free
      BY <3>1, GoodBusy
    <3>2. CASE Good(f[i])
      BY <3>2 DEF Good
    <3> QED BY <1>1, <3>1, <3>2 DEF SlotsFor, SlotOk
  <2> QED BY <1>1, <2>1 DEF SlotsFor
<1>2. ASSUME f \in [Slots -> ActiveRec \cup {Free}],
             \A i \in Slots : f[i].on => Stage(f[i]) /\ Holds(f[i])
      PROVE  SlotsFor(f)
  <2>1. ASSUME NEW i \in Slots PROVE SlotOk(f[i])
    <3>1. f[i] = Free \/ f[i] \in ActiveRec
      BY <1>2
    <3>2. CASE f[i] \in ActiveRec
      <4>1. f[i].on = TRUE
        BY <3>2, ActiveFields
      <4> QED BY <1>2, <3>2, <4>1 DEF SlotOk, Good
    <3> QED BY <3>1, <3>2 DEF SlotOk
  <2>2. f = [i \in Slots |-> f[i]]
    BY <1>2
  <2> QED BY <2>1, <2>2 DEF SlotsFor
<1> QED BY <1>1, <1>2

WarmIn == warm \in [next : 1 .. Len(Voices) + 1, ok : SUBSET ToSet(Voices)]
CacheGood == kvc \in Cache /\ CacheOk(kvc)
Registers == pfChunk \in PfChunks /\ rr \in Slots /\ starts \in 0 .. Len(Texts)

Parts ==
  /\ Registers /\ CacheGood /\ WarmIn /\ SlotsFor(act) /\ GraphsOk /\ SlabOk
  /\ Warmed /\ WarmStaysWarm /\ OnlyTooLongRefused

\* The invariant is its parts.
LEMMA PartsAre == IInv <=> Parts
  BY SlotsAre DEF IInv, Parts, Types, Registers, CacheGood, Cache, CacheOk, WarmIn, GraphsOk, SlabOk, Busy

\* And so behind a step.
LEMMA PartsNext == IInv' <=> Parts'
  BY SlotsAre DEF IInv, Parts, Types, Registers, CacheGood, Cache, CacheOk, WarmIn, GraphsOk, SlabOk, Busy

\* What a step makes of the sessions when none begins: one is retired, or goes
\* on for the same request.
Lasts(f) ==
  /\ f = [i \in Slots |-> f[i]]
  /\ \A i \in Slots : \/ f[i] = Free \/ f[i] = act[i]
                      \/ Busy(i) /\ Good(f[i]) /\ f[i].req = act[i].req /\ f[i].hit = act[i].hit

Idle == \A i \in Slots : ~Busy(i)

\* Then every slot is as it must be, and who was hit stays so.
LEMMA LastsKeeps ==
  ASSUME SlotsFor(act), Lasts(act'), WarmStaysWarm, UNCHANGED warm
  PROVE  SlotsFor(act') /\ WarmStaysWarm' /\ (Idle => Idle')
<1>1. ASSUME NEW i \in Slots
      PROVE  /\ SlotOk(act'[i])
             /\ act'[i].on => Busy(i) /\ act'[i].req = act[i].req /\ act'[i].hit = act[i].hit
  <2>1. CASE act'[i] = Free
    BY <2>1, GoodBusy DEF SlotOk
  <2>2. CASE act'[i] = act[i]
    BY <2>2 DEF SlotsFor, Busy
  <2>3. CASE Busy(i) /\ Good(act'[i]) /\ act'[i].req = act[i].req /\ act'[i].hit = act[i].hit
    BY <2>3 DEF SlotOk
  <2> QED BY <2>1, <2>2, <2>3 DEF Lasts
<1>2. SlotsFor(act')
  BY <1>1 DEF SlotsFor, Lasts
<1>3. WarmStaysWarm'
  BY <1>1 DEF WarmStaysWarm, Busy
<1>4. Idle => Idle'
  BY <1>1 DEF Idle, Busy
<1> QED BY <1>2, <1>3, <1>4

\* A decode begins no session.
LEMMA DecodedLasts ==
  ASSUME NEW S \in SUBSET Slots, Decoded(S), \A i \in S : Ready(i)
  PROVE  Lasts(act')
<1>1. ASSUME NEW i \in Slots, i \in S, GoesOn(act'[i], act[i])
      PROVE  Busy(i) /\ Good(act'[i]) /\ act'[i].req = act[i].req /\ act'[i].hit = act[i].hit
  <2>1. act[i].on = TRUE
    BY <1>1, GoodBusy DEF Ready
  <2> QED BY <1>1, <2>1 DEF GoesOn, Busy
<1> QED BY <1>1 DEF Decoded, Lasts

\* Nor does retiring some.
LEMMA RetiredLasts ==
  ASSUME NEW S, act' = Retired(S)
  PROVE  Lasts(act')
  BY DEF Retired, Lasts

\* A step of the sessions alone.
LEMMA LastsParts ==
  ASSUME Parts, Lasts(act'), UNCHANGED <<pfChunk, warm, kvc, rr, starts, refused>>, GraphsOk', SlabOk'
  PROVE  Parts'
<1>1. SlotsFor(act') /\ WarmStaysWarm' /\ (Idle => Idle')
  BY LastsKeeps DEF Parts
<1>2. Warmed'
  BY <1>1 DEF Parts, Warmed, Idle, Named
<1>3. Registers' /\ CacheGood' /\ WarmIn'
  BY DEF Parts, Registers, CacheGood, WarmIn
<1>4. OnlyTooLongRefused'
  BY DEF Parts, OnlyTooLongRefused
<1> QED BY <1>1, <1>2, <1>3, <1>4 DEF Parts

\* A session that is not prefilling takes part in a batch.
LEMMA BusyReady ==
  ASSUME SlotsFor(act), NEW i \in Slots, Busy(i)
  PROVE  /\ Good(act[i]) /\ (~act[i].prefilling => Ready(i))
         /\ act[i].fresh => ~act[i].prefilling
<1>1. Good(act[i])
  BY GoodBusy DEF SlotsFor, SlotOk, Busy
<1>2. act[i].prefilling => ~act[i].fresh
  BY <1>1 DEF Good, Stage
<1> QED BY <1>1, <1>2 DEF Ready

\* FirstFrame keeps the invariant.
LEMMA FirstFrameStep ==
  ASSUME Parts, NEW i \in Slots, FirstFrame(i)
  PROVE  Parts'
<1>1. SlotsFor(act) /\ GraphsOk /\ SlabOk
  BY DEF Parts
<1>2. Ready(i)
  BY <1>1, BusyReady DEF FirstFrame
<1> DEFINE S == {i}
<1>3. S \in SUBSET Slots /\ \A j \in S : Ready(j)
  BY <1>2
<1>4. Decode(S)
  BY DEF FirstFrame
<1> HIDE DEF S
<1>5. Decoded(S) /\ GraphsOk' /\ SlabOk'
  BY <1>1, <1>3, <1>4, DecodeOk
<1>6. Lasts(act')
  BY <1>3, <1>5, DecodedLasts
<1> QED BY <1>5, <1>6, LastsParts DEF FirstFrame

\* Lockstep keeps it.
LEMMA LockstepStep ==
  ASSUME Parts, Lockstep
  PROVE  Parts'
<1> DEFINE S == {i \in Slots : Busy(i) /\ ~act[i].fresh /\ ~act[i].prefilling}
<1>1. SlotsFor(act) /\ GraphsOk /\ SlabOk
  BY DEF Parts
<1>2. S \in SUBSET Slots /\ \A i \in S : Ready(i)
  BY <1>1, BusyReady
<1>3. Decode(S)
  BY DEF Lockstep
<1> HIDE DEF S
<1>4. Decoded(S) /\ GraphsOk' /\ SlabOk'
  BY <1>1, <1>2, <1>3, DecodeOk
<1>5. Lasts(act')
  BY <1>2, <1>4, DecodedLasts
<1> QED BY <1>4, <1>5, LastsParts DEF Lockstep

\* Gone keeps it.
LEMMA GoneStep ==
  ASSUME Parts, NEW i \in Slots, Gone(i)
  PROVE  Parts'
<1>1. Lasts(act')
  BY RetiredLasts DEF Gone
<1>2. GraphsOk' /\ SlabOk'
  BY DEF Gone, Parts, GraphsOk, SlabOk
<1> QED BY <1>1, <1>2, LastsParts DEF Gone

\* Appending to an empty cache.
LEMMA NoneConcat ==
  ASSUME NEW T, NEW u \in Seq(T)
  PROVE  <<>> \o u = u
  BY Glue, ConcatAt, Len(<<>>) = 0, <<>> \in Seq(T)

EmptyKv(x, st) == x.kv = <<>> /\ x.st = st

\* A new session.
LEMMA NewIs ==
  /\ NewSession \in SessionRec /\ EmptyKv(NewSession, "NEW") /\ HasKv(NewSession)
  BY DEF NewSession, SessionRec, EmptyKv, HasKv

\* The rows that a prefill leaves in a session.
Rows(x, rows) == x.kv = rows

\* A new session's rows are those it was given.
LEMMA PrefilledNew ==
  ASSUME NEW rows \in Seq(KvRow)
  PROVE  Rows(Prefilled(NewSession, rows), rows)
<1>1. NewSession.kv \o rows = rows
  BY NoneConcat DEF NewSession
<1>2. Prefilled(NewSession, rows).kv = NewSession.kv \o rows
  BY DEF Prefilled, NewSession
<1> QED BY <1>1, <1>2 DEF Rows

\* The prefill of a voice's system block alone.
WarmIds(v) == SubSeq(Prefix(v).ids, 1, Prefix(v).nsys)
WarmMask(v) == SubSeq(Prefix(v).mask, 1, Prefix(v).nsys)
WarmOk(v) == PrefillOk(NewSession, WarmIds(v), WarmMask(v), Prefix(v).parts)
Warming(v) == Prefill(NewSession, WarmIds(v), WarmMask(v), Prefix(v).parts)

\* What is kept of a voice before serving is its prefix.
LEMMA WarmGiven ==
  ASSUME NEW v \in ToSet(Voices), WarmOk(v)
  PROVE  Given(v, Prefix(v).nsys, Warming(v))
<1> DEFINE p == Prefix(v)
           n == p.nsys
<1>1. v \in Names /\ "" \in Words
  BY NamesAreStrings DEF Words
<1>2. PICK h \in Nat, s \in Seq(Col) :
        PlanOk(p, h, s) /\ h + Len(s) <= n /\ n \in Nat /\ n <= Len(p.ids)
  <2>1. PICK m \in Nat, h \in Nat, s \in Seq(Col) :
          \A t \in Words : PromptOk(PromptBuild(RequestFor(v, t)), t, m, h, s)
    BY <1>1, PromptShape
  <2>2. PromptOk(p, "", m, h, s)
    BY <1>1, <2>1 DEF Prefix
  <2> HIDE DEF p
  <2>3. PlanOk(p, h, s) /\ h + Len(s) <= n /\ n = m /\ Len(p.ids) = m + 4
    BY <2>2 DEF PromptOk
  <2>4. n <= Len(p.ids)
    BY <2>3
  <2> QED BY <2>3, <2>4
<1>3. Fits(p.parts, p, h, s, 0, n)
  <2> HIDE DEF p
  <2>1. 0 <= h /\ 0 <= n /\ 0 \in Nat
    BY <1>2
  <2> QED BY <1>2, <2>1 DEF Fits
<1>4. /\ IdsOf(p, 0, n) = WarmIds(v) /\ MaskOf(p, 0, n) = WarmMask(v)
      /\ Cut(Whole(p), 0 + 1, n) = SysRows(v)
  BY 0 + 1 = 1 DEF IdsOf, MaskOf, WarmIds, WarmMask, Cut, SysRows
<1>5. /\ WarmOk(v) <=> Room(NewSession, n - 0)
      /\ Warming(v) = Prefilled(NewSession, SysRows(v))
  BY <1>3, <1>4, NewIs, PrefillSlice DEF WarmOk, Warming
<1>6. n \in 0 .. Ctx
  <2>1. Room(NewSession, n - 0)
    BY <1>5
  <2>2. Len(NewSession.kv) = 0
    BY DEF NewSession
  <2>3. 0 + (n - 0) <= Ctx - 1
    BY <2>1, <2>2 DEF Room
  <2> HIDE DEF n
  <2> QED BY <1>2, <2>3, Numbers
<1>7. SysRows(v) \in Seq(KvRow) /\ Len(SysRows(v)) = n
  <2>1. Whole(p) \in Seq(KvRow) /\ Len(Whole(p)) = Len(p.ids)
    BY <1>2, WholeRows
  <2> DEFINE w == Whole(p)
  <2> HIDE DEF n, w
  <2>2. 0 <= n /\ n <= Len(w) /\ 0 \in Nat /\ n \in Nat
    BY <1>2, <2>1 DEF w
  <2>3. SubSeq(w, 0 + 1, n) \in Seq(KvRow) /\ Len(SubSeq(w, 0 + 1, n)) = n - 0
    BY <2>1, <2>2, SubSeqFacts DEF w
  <2>4. SubSeq(w, 0 + 1, n) = SysRows(v)
    BY <1>4 DEF w, Cut, n
  <2>5. n - 0 = n
    BY <2>2
  <2> QED BY <2>3, <2>4, <2>5 DEF n
<1>8. KvSave(Warming(v), n) = SysRows(v)
  <2>1. Rows(Warming(v), SysRows(v))
    BY <1>5, <1>7, PrefilledNew
  <2>2. KvSave(Warming(v), n) = SubSeq(SysRows(v), 1, n)
    BY <2>1 DEF KvSave, Rows
  <2> DEFINE w == SysRows(v)
  <2>3. SubSeq(w, 1, Len(w)) = w
    <3> HIDE DEF w
    <3> QED BY <1>7, SubSeqAll DEF w
  <2> QED BY <1>7, <2>2, <2>3
<1> QED BY <1>6, <1>7, <1>8 DEF Given

\* Before serving: the entries made lie one behind the other.
LEMMA WarmVoiceStep ==
  ASSUME Parts, WarmVoice
  PROVE  Parts'
<1>1. starts = 0 /\ warm.next <= Len(Voices) /\ warm.next <= Cap
  BY DEF WarmVoice
<1> DEFINE v == Voices[warm.next]
           p == Prefix(v)
           n == warm.next
<1>2. UNCHANGED <<pfChunk, rr, act, slab, graphs, starts, refused>>
  BY DEF WarmVoice
<1>3. \/ /\ WarmOk(v)
         /\ \E c \in KvcInsert(kvc, v, p.nsys, Warming(v)) :
              /\ kvc' = c
              /\ warm' = [next |-> n + 1,
                          ok |-> IF Named(c, v) = {} THEN warm.ok ELSE warm.ok \cup {v}]
      \/ warm' = [warm EXCEPT !.next = @ + 1] /\ UNCHANGED kvc
  BY DEF WarmVoice, WarmOk, Warming, WarmIds, WarmMask, Prefix
<1>4. WarmIn /\ n \in Nat /\ n \in 1 .. Len(Voices) /\ n \in 1 .. Cap /\ warm.ok \subseteq ToSet(Voices)
  <2>1. n \in 1 .. Len(Voices) + 1 /\ WarmIn /\ warm.ok \subseteq ToSet(Voices)
    BY DEF Parts, WarmIn
  <2>2. Len(Voices) \in Nat /\ Cap \in Nat
    BY SessionsConstants
  <2> QED BY <1>1, <2>1, <2>2
<1>5. v \in ToSet(Voices)
  BY <1>4, SessionsConstants DEF ToSet
<1> HIDE DEF v, p, n
<1>6. /\ \A e \in n .. Cap : kvc.entries[e].name = ""
      /\ Idle /\ CacheGood
      /\ \A w \in warm.ok : w # "" => Named(kvc, w) # {}
  BY <1>1 DEF Parts, Warmed, Idle, n
<1>7. /\ CacheGood' /\ warm'.next = n + 1 /\ warm'.ok \subseteq ToSet(Voices)
      /\ warm' = [next |-> n + 1, ok |-> warm'.ok]
      /\ \A e \in n + 1 .. Cap : kvc'.entries[e].name = ""
      /\ \A w \in warm'.ok : w # "" => Named(kvc', w) # {}
  <2>1. CASE warm' = [warm EXCEPT !.next = @ + 1] /\ UNCHANGED kvc
    <3>1. warm'.next = n + 1 /\ warm'.ok = warm.ok /\ warm' = [next |-> n + 1, ok |-> warm.ok]
      BY <2>1, <1>4 DEF WarmIn, n
    <3>2. n + 1 .. Cap \subseteq n .. Cap
      BY <1>4
    <3> QED BY <2>1, <3>1, <3>2, <1>4, <1>6 DEF CacheGood
  <2>2. CASE /\ WarmOk(v)
             /\ \E c \in KvcInsert(kvc, v, p.nsys, Warming(v)) :
                  /\ kvc' = c
                  /\ warm' = [next |-> n + 1,
                              ok |-> IF Named(c, v) = {} THEN warm.ok ELSE warm.ok \cup {v}]
    <3>1. PICK c \in KvcInsert(kvc, v, p.nsys, Warming(v)) :
            /\ kvc' = c
            /\ warm' = [next |-> n + 1,
                        ok |-> IF Named(c, v) = {} THEN warm.ok ELSE warm.ok \cup {v}]
      BY <2>2
    <3>2. Given(v, p.nsys, Warming(v))
      BY <1>5, <2>2, WarmGiven DEF p
    <3>3. c \in Cache /\ CacheOk(c) /\ FillsGap(kvc, c)
      <4>1. PICK m, x : m = p.nsys /\ x = Warming(v)
        OBVIOUS
      <4>2. Given(v, m, x) /\ c \in KvcInsert(kvc, v, m, x) /\ kvc \in Cache /\ CacheOk(kvc)
        BY <1>6, <3>1, <3>2, <4>1 DEF CacheGood
      <4> QED BY <4>2, InsertOk
    <3>4. n \in Named(kvc, "")
      <4>1. DOMAIN kvc.entries = 1 .. Cap
        BY <1>6 DEF CacheGood, Cache
      <4>2. kvc.entries[n].name = ""
        <5>1. n \in n .. Cap
          BY <1>4
        <5> QED BY <1>6, <5>1
      <4> QED BY <1>4, <4>1, <4>2 DEF Named
    <3>5. \A e \in 1 .. Cap : c.entries[e].name # kvc.entries[e].name =>
             kvc.entries[e].name = "" /\ e <= n
      BY <3>3, <3>4 DEF FillsGap
    <3>6. ASSUME NEW e \in n + 1 .. Cap PROVE c.entries[e].name = ""
      <4>1. e \in 1 .. Cap /\ e \in n .. Cap /\ ~(e <= n)
        BY <1>4
      <4> QED BY <1>6, <3>5, <4>1
    <3>7. \A w : w # "" /\ Named(kvc, w) # {} => Named(c, w) # {}
      <4>1. Named(kvc, "") # {} /\ kvc \in Cache
        BY <1>6, <3>4 DEF CacheGood
      <4>2. \A e \in 1 .. Cap : c.entries[e].name # kvc.entries[e].name => kvc.entries[e].name = ""
        BY <3>5
      <4> QED BY <3>3, <4>1, <4>2, InsertNames
    <3>8. warm'.next = n + 1 /\ warm'.ok = IF Named(c, v) = {} THEN warm.ok ELSE warm.ok \cup {v}
      BY <3>1
    <3>9. warm'.ok \subseteq ToSet(Voices) /\ \A w \in warm'.ok : w # "" => Named(c, w) # {}
      BY <1>4, <1>5, <1>6, <3>7, <3>8
    <3>10. warm' = [next |-> n + 1, ok |-> warm'.ok]
      BY <3>1, <3>8
    <3> QED BY <3>1, <3>3, <3>6, <3>8, <3>9, <3>10 DEF CacheGood
  <2> QED BY <1>3, <2>1, <2>2
<1>8. WarmIn'
  <2>1. n + 1 \in 1 .. Len(Voices) + 1
    BY <1>4
  <2> QED BY <1>7, <2>1 DEF WarmIn
<1>9. Warmed'
  <2>1. Idle'
    BY <1>2, <1>6 DEF Idle, Busy
  <2>2. \A e \in warm'.next .. Cap : kvc'.entries[e].name = ""
    BY <1>7
  <2> QED BY <1>7, <2>1, <2>2 DEF Warmed, Idle, Named
<1>10. WarmStaysWarm'
  BY <1>2, <1>6 DEF WarmStaysWarm, Idle, Busy
<1>11. Registers' /\ SlotsFor(act') /\ GraphsOk' /\ SlabOk' /\ OnlyTooLongRefused'
  BY <1>2 DEF Parts, Registers, GraphsOk, SlabOk, OnlyTooLongRefused
<1> QED BY <1>7, <1>8, <1>9, <1>10, <1>11 DEF Parts

\* A session that begins.
Begun(r, hit, x) ==
  [on |-> TRUE, req |-> r, hit |-> hit, pos |-> 0, next |-> 1, inserted |-> FALSE,
   prefilling |-> TRUE, fresh |-> FALSE, heard |-> <<>>, sess |-> x]

BegunFields(a, r, hit, x) ==
  /\ a \in ActiveRec /\ a.req = r /\ a.hit = hit /\ a.pos = 0 /\ a.next = 1
  /\ a.prefilling = TRUE /\ a.fresh = FALSE /\ a.heard = <<>> /\ a.sess = x /\ a.on = TRUE

\* The record of a session that begins.
LEMMA BegunIn ==
  ASSUME NEW r \in DOMAIN Prompts, NEW hit \in BOOLEAN, NEW x \in SessionRec
  PROVE  BegunFields(Begun(r, hit, x), r, hit, x)
<1>1. <<>> \in Seq(Col)
  OBVIOUS
<1> QED BY <1>1 DEF Begun, BegunFields, ActiveRec

\* The rows that a session has when it begins.
LEMMA BegunGood ==
  ASSUME NEW r \in DOMAIN Prompts, NEW hit \in BOOLEAN, NEW x \in SessionRec, x.st = "NEW",
         x.kv = IF hit THEN SubSeq(PromptRows[r], 1, Prompts[r].nsys) ELSE <<>>,
         hit => Prompts[r].nsys \in 1 .. Ctx
  PROVE  Good(Begun(r, hit, x))
<1> DEFINE a == Begun(r, hit, x)
<1>1. BegunFields(a, r, hit, x)
  BY BegunIn
<1> HIDE DEF a
<1>2. /\ a \in ActiveRec /\ a.req = r /\ a.hit = hit /\ a.pos = 0 /\ a.next = 1
      /\ a.prefilling = TRUE /\ a.fresh = FALSE /\ a.heard = <<>> /\ a.sess = x
  BY <1>1 DEF BegunFields
<1>3. /\ Len(Plan(a).ids) >= 4 /\ \E h \in Nat, s \in Seq(Col) : PlanOk(Plan(a), h, s)
      /\ PromptRows[r] \in Seq(KvRow) /\ Len(PromptRows[r]) = Len(Prompts[r].ids)
  BY <1>2, PlanShape
<1>4. Uncut(Plan(a), 0, 1)
  <2> DEFINE q == Plan(a)
  <2>1. PICK h \in Nat, s \in Seq(Col) : PlanOk(q, h, s)
    BY <1>3
  <2> HIDE DEF q
  <2>2. Uncut(q, 0, 1)
    <3>1. CASE s = <<>>
      <4>1. q.parts = <<>>
        BY <2>1, <3>1 DEF PlanOk
      <4> QED BY <4>1 DEF Uncut
    <3>2. CASE s # <<>>
      <4>1. PartStarts(q.mask, q.parts)[1] = h + 1
        BY <2>1, <3>2, PlanStart
      <4>2. 0 < h + 1
        OBVIOUS
      <4> QED BY <4>1, <4>2 DEF Uncut
    <3> QED BY <3>1, <3>2
  <2> QED BY <2>2 DEF q
<1>5. Stage(a)
  <2>1. 0 < Len(Plan(a).ids)
    <3>1. Len(Plan(a).ids) \in Nat
      BY <1>3 DEF PlanOk
    <3> QED BY <1>3, <3>1
  <2> QED BY <1>2, <1>4, <2>1 DEF Stage
<1>6. Holds(a)
  <2> DEFINE w == PromptRows[r]
             n == Prompts[r].nsys
  <2>1. n \in Nat /\ n <= Len(w) /\ w \in Seq(KvRow)
    <3>1. n \in Nat /\ Len(Prompts[r].ids) = n + 4
      BY OfRequest
    <3> QED BY <1>3, <3>1
  <2> HIDE DEF w, n
  <2>2. SubSeq(w, 1, 0) = <<>>
    <3>1. SubSeq(w, 1, 1 - 1) = <<>>
      BY SubSeqNone
    <3> QED BY <3>1
  <2>3. Len(SubSeq(w, 1, n)) = n
    <3>1. Len(SubSeq(w, 0 + 1, n)) = n - 0
      BY <2>1, SubSeqFacts
    <3>2. 0 + 1 = 1 /\ n - 0 = n
      BY <2>1
    <3> QED BY <3>1, <3>2
  <2>4. x.kv = SubSeq(w, 1, 0 + (IF hit THEN n ELSE 0))
    <3>1. CASE hit
      <4>1. 0 + n = n
        BY <2>1
      <4> QED BY <3>1, <4>1 DEF w, n
    <3>2. CASE ~hit
      BY <2>2, <3>2 DEF w
    <3> QED BY <3>1, <3>2
  <2>5. Len(x.kv) <= Ctx
    <3>1. CASE hit
      <4>1. Len(x.kv) = n /\ n \in 1 .. Ctx
        BY <2>3, <3>1 DEF w, n
      <4> QED BY <4>1, Numbers
    <3>2. CASE ~hit
      <4>1. Len(x.kv) = 0
        BY <3>2
      <4> QED BY <4>1, Numbers
    <3> QED BY <3>1, <3>2
  <2>6. a.heard = [k \in DOMAIN a.heard |-> FrameOf(<<a.req.text, Len(Prompts[a.req].ids) + k - 1>>)]
    <3>1. DOMAIN a.heard = {}
      BY <1>2
    <3> QED BY <1>2, <3>1
  <2>7. a.sess.kv = SubSeq(PromptRows[a.req], 1,
                           a.pos + (IF a.hit THEN Prompts[a.req].nsys ELSE 0))
    BY <1>2, <2>4 DEF w, n
  <2>8. Len(a.sess.kv) <= Ctx
    BY <1>2, <2>5
  <2> QED BY <1>2, <2>6, <2>7, <2>8 DEF Holds
<1> QED BY <1>2, <1>5, <1>6 DEF Good, a

\* What a session begins with: its voice's prefix on a hit.
FirstSession(hit) == IF hit = 0 THEN NewSession ELSE KvLoad(NewSession, kvc.entries[hit].blob)

HitFor(r) == KvcHit(kvc, r.key, Prompts[r].nsys)

\* It begins with no row, or with its voice's prefix.
LEMMA FirstGood ==
  ASSUME CacheGood, NEW r \in DOMAIN Prompts
  PROVE  Good(Begun(r, HitFor(r) # 0, FirstSession(HitFor(r))))
<1> DEFINE n == Prompts[r].nsys
           hit == HitFor(r)
           x == FirstSession(hit)
<1>1. CASE hit = 0
  <2>1. x = NewSession
    BY <1>1 DEF FirstSession
  <2>2. x \in SessionRec /\ x.st = "NEW" /\ x.kv = <<>>
    BY <2>1, NewIs DEF EmptyKv
  <2> HIDE DEF x, hit
  <2>3. Good(Begun(r, FALSE, x))
    BY <2>2, BegunGood
  <2>4. (hit # 0) = FALSE
    BY <1>1
  <2> QED BY <2>3, <2>4 DEF hit, x
<1>2. CASE hit # 0
  <2>1. PICK key, m : key = r.key /\ m = n
    OBVIOUS
  <2>2. PICK e : e = KvcHit(kvc, key, m)
    OBVIOUS
  <2>3. e = hit /\ e # 0
    BY <1>2, <2>1, <2>2 DEF HitFor
  <2>4. /\ e \in 1 .. Cap /\ key # "" /\ kvc.entries[e].blob = SysRows(key)
        /\ kvc.entries[e].blob \in Seq(KvRow) /\ Prefix(key).nsys \in 1 .. Ctx
    <3>1. Brings(KvcHit(kvc, key, m), kvc, key)
      BY <2>2, <2>3, HitOk DEF CacheGood
    <3> QED BY <2>2, <3>1 DEF Brings
  <2>5. /\ PromptRows[r] = Whole(Prompts[r]) /\ n = Prefix(key).nsys
        /\ SubSeq(Whole(Prompts[r]), 1, n) = SysRows(key)
    BY <2>1, <2>4, OfRequest
  <2> DEFINE b == kvc.entries[e].blob
  <2>6. b = SubSeq(PromptRows[r], 1, n) /\ b \in Seq(KvRow)
    BY <2>4, <2>5
  <2>7. x = KvLoad(NewSession, b)
    BY <2>3 DEF FirstSession
  <2> HIDE DEF b
  <2>8. x = [st |-> "NEW", kv |-> b, prev |-> <<>>]
    BY <2>7 DEF KvLoad, NewSession
  <2> HIDE DEF x
  <2>9. x \in SessionRec /\ x.st = "NEW" /\ x.kv = b
    BY <2>6, <2>8 DEF SessionRec
  <2>10. x.kv = IF TRUE THEN SubSeq(PromptRows[r], 1, Prompts[r].nsys) ELSE <<>>
    BY <2>6, <2>9
  <2>11. n \in 1 .. Ctx
    BY <2>4, <2>5
  <2>12. Good(Begun(r, TRUE, x))
    BY <2>9, <2>10, <2>11, BegunGood
  <2>13. (hit # 0) = TRUE
    BY <1>2
  <2> QED BY <2>12, <2>13 DEF x
<1> QED BY <1>1, <1>2

\* A voice that has an entry is hit.
LEMMA HitsWarm ==
  ASSUME CacheGood, NEW r \in DOMAIN Prompts, r.key # "", Named(kvc, r.key) # {}
  PROVE  HitFor(r) # 0
<1>1. PICK key : key = r.key
  OBVIOUS
<1>2. Prompts[r].nsys = Prefix(key).nsys
  BY <1>1, OfRequest
<1>3. KvcHit(kvc, key, Prefix(key).nsys) # 0
  BY <1>1, HitThere DEF CacheGood
<1> QED BY <1>1, <1>2, <1>3 DEF HitFor

\* The cache after a lookup.
LookedUp(hit, d) == d = IF hit = 0 THEN kvc ELSE KvcTouch(kvc, hit)

\* A lookup keeps every entry and its name.
LEMMA LookupOk ==
  ASSUME CacheGood, NEW r, NEW d, LookedUp(HitFor(r), d)
  PROVE  /\ d \in Cache /\ CacheOk(d) /\ DOMAIN d.entries = DOMAIN kvc.entries
         /\ \A e \in 1 .. Cap : d.entries[e].name = kvc.entries[e].name
<1>1. CASE HitFor(r) = 0
  BY <1>1 DEF LookedUp, CacheGood
<1>2. CASE HitFor(r) # 0
  <2>1. PICK key, m : key = r.key /\ m = Prompts[r].nsys
    OBVIOUS
  <2>2. PICK e : e = KvcHit(kvc, key, m)
    OBVIOUS
  <2>3. e = HitFor(r) /\ e # 0
    BY <1>2, <2>1, <2>2 DEF HitFor
  <2>4. e \in 1 .. Cap
    <3>1. Brings(KvcHit(kvc, key, m), kvc, key)
      BY <2>2, <2>3, HitOk DEF CacheGood
    <3> QED BY <2>2, <3>1 DEF Brings
  <2>5. d = KvcTouch(kvc, e)
    BY <2>3 DEF LookedUp
  <2>6. /\ d \in Cache /\ CacheOk(d)
        /\ \A f \in 1 .. Cap : d.entries[f].name = kvc.entries[f].name
    BY <2>4, <2>5, TouchOk DEF CacheGood
  <2>7. DOMAIN d.entries = 1 .. Cap /\ DOMAIN kvc.entries = 1 .. Cap
    BY <2>6 DEF CacheGood, Cache
  <2> QED BY <2>6, <2>7
<1> QED BY <1>1, <1>2

\* StartRequest keeps the invariant: who asks for a warmed voice is hit.
LEMMA StartRequestStep ==
  ASSUME Parts, NEW i \in Slots, NEW v \in Names, StartRequest(i, v)
  PROVE  Parts'
<1>1. ~Busy(i) /\ starts < Len(Texts) /\ starts' = starts + 1
  BY DEF StartRequest
<1>2. starts \in 0 .. Len(Texts) /\ CacheGood /\ SlotsFor(act)
  BY DEF Parts, Registers
<1>3. Len(Texts) \in Nat /\ Texts \in Seq(STRING)
  BY SessionsConstants
<1> DEFINE r == RequestFor(v, Texts[starts + 1])
           a == Begun(r, HitFor(r) # 0, FirstSession(HitFor(r)))
<1>4. r \in DOMAIN Prompts
  <2>1. starts + 1 \in 1 .. Len(Texts)
    BY <1>1, <1>2, <1>3
  <2>2. Texts[starts + 1] \in ToSet(Texts)
    BY <1>3, <2>1 DEF ToSet
  <2> QED BY <2>2, RequestIn
<1>5. /\ LookedUp(HitFor(r), kvc')
      /\ act' \in {[act EXCEPT ![i] = a]} \cup (IF Faults THEN {act} ELSE {})
  BY DEF StartRequest, LookedUp, HitFor, Begun, FirstSession
<1>6. UNCHANGED <<pfChunk, warm, rr, slab, graphs, refused>>
  BY DEF StartRequest
<1> HIDE DEF r, a
<1>7. Good(a)
  BY <1>2, <1>4, FirstGood DEF a
<1>8. a.req = r /\ a.hit = (HitFor(r) # 0)
  BY DEF a, Begun
<1>9. /\ CacheGood' /\ DOMAIN kvc'.entries = DOMAIN kvc.entries
      /\ \A e \in 1 .. Cap : kvc'.entries[e].name = kvc.entries[e].name
  BY <1>2, <1>5, LookupOk DEF CacheGood
<1>10. act' = act \/ act' = [act EXCEPT ![i] = a]
  BY <1>5
<1>11. SlotsFor(act')
  <2>1. CASE act' = act
    BY <1>2, <2>1
  <2>2. CASE act' = [act EXCEPT ![i] = a]
    <3> DEFINE f == [act EXCEPT ![i] = a]
    <3>1. act = [j \in Slots |-> act[j]] /\ \A j \in Slots : SlotOk(act[j])
      BY <1>2 DEF SlotsFor
    <3>2. f = [j \in Slots |-> f[j]]
      BY <3>1
    <3>3. \A j \in Slots : f[j] = IF j = i THEN a ELSE act[j]
      BY <3>1
    <3> HIDE DEF f
    <3>4. \A j \in Slots : SlotOk(f[j])
      BY <1>7, <3>1, <3>3 DEF SlotOk
    <3>5. act' = f
      BY <2>2 DEF f
    <3> QED BY <3>2, <3>4, <3>5 DEF SlotsFor
  <2> QED BY <1>10, <2>1, <2>2
<1>12. \A w : Named(kvc', w) = Named(kvc, w)
  <2>1. DOMAIN kvc.entries = 1 .. Cap
    BY <1>2 DEF CacheGood, Cache
  <2> QED BY <1>9, <2>1 DEF Named
<1>13. Warmed'
  <2>1. starts' # 0
    BY <1>1, <1>2
  <2>2. warm.ok = ToSet(Voices) => \A w \in warm.ok : w # "" => Named(kvc, w) # {}
    BY DEF Parts, Warmed
  <2>3. warm'.ok = ToSet(Voices) => \A w \in warm'.ok : w # "" => Named(kvc', w) # {}
    BY <1>6, <1>12, <2>2
  <2> QED BY <2>1, <2>3 DEF Warmed
<1>14. WarmStaysWarm'
  <2>1. SUFFICES ASSUME warm.ok = ToSet(Voices), NEW j \in Slots, act'[j].on, act'[j].req.key # ""
                 PROVE  act'[j].hit
    BY <1>6 DEF WarmStaysWarm, Busy
  <2>2. CASE act'[j] = act[j]
    BY <2>1, <2>2 DEF Parts, WarmStaysWarm, Busy
  <2>3. CASE act'[j] # act[j]
    <3>1. act'[j] = a
      <4>1. act' = [act EXCEPT ![i] = a] /\ act = [k \in Slots |-> act[k]]
        BY <1>2, <1>10, <2>3 DEF SlotsFor
      <4> QED BY <4>1, <2>3
    <3>2. r.key # ""
      BY <1>8, <2>1, <3>1
    <3>3. r.key \in ToSet(Voices)
      BY <1>4, <3>2, OfRequest
    <3>4. Named(kvc, r.key) # {}
      BY <2>1, <3>2, <3>3 DEF Parts, Warmed
    <3>5. HitFor(r) # 0
      BY <1>2, <1>4, <3>2, <3>4, HitsWarm
    <3> QED BY <1>8, <3>1, <3>5
  <2> QED BY <2>2, <2>3
<1>15. Registers' /\ WarmIn' /\ GraphsOk' /\ SlabOk' /\ OnlyTooLongRefused'
  <2>1. starts' \in 0 .. Len(Texts)
    BY <1>1, <1>2, <1>3
  <2>2. Registers'
    BY <1>6, <2>1 DEF Parts, Registers
  <2> QED BY <1>6, <2>2 DEF Parts, WarmIn, GraphsOk, SlabOk, OnlyTooLongRefused
<1> QED BY <1>9, <1>11, <1>13, <1>14, <1>15 DEF Parts

-----------------------------------------------------------------------------
(* One chunk of the prefill of a session.                                   *)

\* The beginning of a beginning.
LEMMA SubSeqHead ==
  ASSUME NEW S, NEW s \in Seq(S), NEW n \in Nat, NEW b \in Nat, n <= b, b <= Len(s)
  PROVE  SubSeq(SubSeq(s, 1, b), 1, n) = SubSeq(s, 1, n)
<1> DEFINE u == SubSeq(s, 1, b)
           w == SubSeq(u, 1, n)
           x == SubSeq(s, 1, n)
<1>1. u \in Seq(S) /\ Len(u) = b /\ \A j \in 1 .. b : u[j] = s[j]
  <2>1. /\ SubSeq(s, 0 + 1, b) \in Seq(S) /\ Len(SubSeq(s, 0 + 1, b)) = b - 0
        /\ \A j \in 1 .. b - 0 : SubSeq(s, 0 + 1, b)[j] = s[0 + j]
    BY SubSeqFacts
  <2>2. 0 + 1 = 1 /\ b - 0 = b /\ \A j \in 1 .. b : 0 + j = j
    OBVIOUS
  <2> QED BY <2>1, <2>2
<1>2. x \in Seq(S) /\ Len(x) = n /\ \A j \in 1 .. n : x[j] = s[j]
  <2>1. n <= Len(s)
    BY DEF u
  <2>2. /\ SubSeq(s, 0 + 1, n) \in Seq(S) /\ Len(SubSeq(s, 0 + 1, n)) = n - 0
        /\ \A j \in 1 .. n - 0 : SubSeq(s, 0 + 1, n)[j] = s[0 + j]
    BY <2>1, SubSeqFacts
  <2>3. 0 + 1 = 1 /\ n - 0 = n /\ \A j \in 1 .. n : 0 + j = j
    OBVIOUS
  <2> QED BY <2>2, <2>3
<1> HIDE DEF u
<1>3. w \in Seq(S) /\ Len(w) = n /\ \A j \in 1 .. n : w[j] = u[j]
  <2>1. n <= Len(u)
    BY <1>1
  <2>2. /\ SubSeq(u, 0 + 1, n) \in Seq(S) /\ Len(SubSeq(u, 0 + 1, n)) = n - 0
        /\ \A j \in 1 .. n - 0 : SubSeq(u, 0 + 1, n)[j] = u[0 + j]
    BY <1>1, <2>1, SubSeqFacts
  <2>3. 0 + 1 = 1 /\ n - 0 = n /\ \A j \in 1 .. n : 0 + j = j
    OBVIOUS
  <2> QED BY <2>2, <2>3
<1> HIDE DEF w, x
<1>4. \A j \in 1 .. n : w[j] = x[j]
  <2>1. 1 .. n \subseteq 1 .. b
    OBVIOUS
  <2> QED BY <1>1, <1>2, <1>3, <2>1
<1>5. w = x
  BY <1>2, <1>3, <1>4
<1> QED BY <1>5 DEF w, x, u

\* A session with some rows of its prompt more.
WithRows(z, kv) == z \in SessionRec /\ z.kv = kv /\ z.st = "PREFILLED"

\* The record behind a prefill.
LEMMA PrefilledRec ==
  ASSUME NEW u \in SessionRec, NEW kv \in Seq(KvRow)
  PROVE  WithRows([[u EXCEPT !.kv = kv] EXCEPT !.st = "PREFILLED"], kv)
<1> DEFINE S1 == {"NEW", "PREFILLED", "DECODING"}
           S2 == Seq(KvRow)
           S3 == Col \cup {<<>>}
<1>1. u \in [st : S1, kv : S2, prev : S3] /\ kv \in S2 /\ "PREFILLED" \in S1
  BY DEF SessionRec
<1> HIDE DEF S1, S2, S3
<1>2. PICK x \in S1, y \in S2, v \in S3 : u = [st |-> x, kv |-> y, prev |-> v]
  BY <1>1
<1>3. [u EXCEPT !.kv = kv] = [st |-> x, kv |-> kv, prev |-> v]
  BY <1>2
<1> DEFINE u1 == [u EXCEPT !.kv = kv]
           z == [u1 EXCEPT !.st = "PREFILLED"]
<1>4. z = [st |-> "PREFILLED", kv |-> kv, prev |-> v]
  <2>1. u1 = [st |-> x, kv |-> kv, prev |-> v]
    BY <1>3
  <2> HIDE DEF u1
  <2> QED BY <2>1
<1>5. WithRows(z, kv)
  <2> HIDE DEF z
  <2>1. z \in [st : S1, kv : S2, prev : S3]
    BY <1>1, <1>4
  <2> QED BY <1>4, <2>1 DEF WithRows, SessionRec, S1, S2, S3
<1> QED BY <1>5

\* A prefill appends rows.
LEMMA PrefilledIn ==
  ASSUME NEW x \in SessionRec, NEW rows \in Seq(KvRow), NEW kv, kv = x.kv \o rows
  PROVE  WithRows(Prefilled(x, rows), kv)
<1>1. kv \in Seq(KvRow)
  <2>1. x.kv \in Seq(KvRow)
    BY DEF SessionRec
  <2> QED BY <2>1, ConcatAt
<1>2. Prefilled(x, rows) = [[x EXCEPT !.kv = kv] EXCEPT !.st = "PREFILLED"]
  BY DEF Prefilled
<1> QED BY <1>1, <1>2, PrefilledRec

\* The session a behind a chunk up to b with np parts, x what was prefilled;
\* snap if its prefix is kept.
Chunked(a, x, b, np, snap) ==
  [a EXCEPT !.sess = x, !.pos = b, !.next = @ + np, !.inserted = @ \/ snap,
            !.prefilling = b < Len(Plan(a).ids), !.fresh = b = Len(Plan(a).ids)]

ChunkedFields(z, a, x, b, np) ==
  /\ z \in ActiveRec /\ z.req = a.req /\ z.hit = a.hit /\ z.sess = x /\ z.pos = b
  /\ z.next = a.next + np /\ z.prefilling = (b < Len(Plan(a).ids))
  /\ z.fresh = (b = Len(Plan(a).ids)) /\ z.heard = a.heard

\* The record behind a chunk.
LEMMA ChunkedIn ==
  ASSUME NEW a \in ActiveRec, NEW x \in SessionRec, NEW b \in Nat, NEW np, a.next + np \in {1, 2},
         NEW snap \in BOOLEAN
  PROVE  ChunkedFields(Chunked(a, x, b, np, snap), a, x, b, np)
<1> DEFINE n == a.next + np
           f == a.inserted \/ snap
           g == b < Len(Plan(a).ids)
           e == b = Len(Plan(a).ids)
           z == Chunked(a, x, b, np, snap)
<1>1. f \in BOOLEAN /\ g \in BOOLEAN /\ e \in BOOLEAN /\ n \in {1, 2}
  OBVIOUS
<1>2. z = [a EXCEPT !.sess = x, !.pos = b, !.next = n, !.inserted = f, !.prefilling = g, !.fresh = e]
  BY DEF Chunked
<1> HIDE DEF n, f, g, e, z
<1>3. z \in ActiveRec
  BY <1>1, <1>2 DEF ActiveRec
<1>4. /\ z.req = a.req /\ z.hit = a.hit /\ z.sess = x /\ z.pos = b /\ z.next = n
      /\ z.prefilling = g /\ z.fresh = e /\ z.heard = a.heard
  BY <1>2 DEF ActiveRec
<1> QED BY <1>3, <1>4 DEF ChunkedFields, n, g, e, z

\* What a chunk has to do with: h and s are the run of codes of the plan q,
\* n the rows that a hit brought, w those of the whole prompt.
ChunkOf(a, q, h, s, n, w) ==
  /\ q = Plan(a) /\ n = Loaded(a) /\ w = PromptRows[a.req]
  /\ PlanOk(q, h, s) /\ n \in Nat /\ w \in Seq(KvRow) /\ n + Len(q.ids) = Len(w)
  /\ Len(s) <= Cardinality({j \in DOMAIN Prompts[a.req].mask : Prompts[a.req].mask[j]})
  /\ Len(w) = Len(Prompts[a.req].ids) /\ Whole(q) = SubSeq(w, n + 1, Len(w))
  /\ a.pos \in Nat /\ a.pos < Len(q.ids) /\ a.next \in {1, 2} /\ Uncut(q, a.pos, a.next)
  /\ a.sess.kv = SubSeq(w, 1, a.pos + n) /\ Len(q.ids) \in Nat

\* A session that is prefilling has a plan, and is inside it.
LEMMA ChunkThere ==
  ASSUME NEW a, Good(a), a.prefilling
  PROVE  \E q, h, s, n, w : ChunkOf(a, q, h, s, n, w)
<1>1. a \in ActiveRec /\ Stage(a) /\ Holds(a)
  BY DEF Good
<1>2. /\ a.req \in DOMAIN Prompts /\ a.hit \in BOOLEAN /\ a.pos \in Nat /\ a.next \in {1, 2}
  BY <1>1, ActiveFields
<1>3. PICK q, n, w : q = Plan(a) /\ n = Loaded(a) /\ w = PromptRows[a.req]
  OBVIOUS
<1>4. PICK h \in Nat, s \in Seq(Col) :
         /\ PlanOk(q, h, s)
         /\ Len(s) <= Cardinality({j \in DOMAIN Prompts[a.req].mask : Prompts[a.req].mask[j]})
  BY <1>2, <1>3, PlanShape
<1>5. /\ n \in Nat /\ n + Len(q.ids) = Len(w) /\ Whole(q) = SubSeq(w, n + 1, Len(w))
      /\ w \in Seq(KvRow) /\ Len(w) = Len(Prompts[a.req].ids)
  BY <1>2, <1>3, PlanShape
<1>6. a.pos < Len(q.ids) /\ Uncut(q, a.pos, a.next)
  BY <1>1, <1>3 DEF Stage
<1>7. a.sess.kv = SubSeq(w, 1, a.pos + n)
  BY <1>1, <1>3 DEF Holds, Loaded
<1>8. Len(q.ids) \in Nat
  BY <1>4 DEF PlanOk
<1> QED BY <1>2, <1>3, <1>4, <1>5, <1>6, <1>7, <1>8 DEF ChunkOf

\* The rows behind a chunk that ends at b are those of the prompt up to there.
Joins(a, q, n, w, b) ==
  /\ Cut(Whole(q), a.pos + 1, b) \in Seq(KvRow)
  /\ a.sess.kv \o Cut(Whole(q), a.pos + 1, b) = SubSeq(w, 1, n + b)
  /\ Len(a.sess.kv) = n + a.pos /\ Len(SubSeq(w, 1, n + b)) = n + b

\* A chunk's rows continue the rows its session has.
LEMMA ChunkRows ==
  ASSUME NEW a, NEW q, NEW h, NEW s, NEW n, NEW w, ChunkOf(a, q, h, s, n, w),
         NEW b \in Nat, a.pos < b, b <= Len(q.ids)
  PROVE  Joins(a, q, n, w, b)
<1>1. PICK pos \in Nat : pos = a.pos
  BY DEF ChunkOf
<1>2. PICK L \in Nat : L = Len(q.ids)
  BY DEF ChunkOf
<1>3. /\ n \in Nat /\ w \in Seq(KvRow) /\ n + L = Len(w) /\ pos < b /\ b <= L
      /\ Whole(q) = SubSeq(w, n + 1, Len(w)) /\ a.sess.kv = SubSeq(w, 1, pos + n)
  BY <1>1, <1>2 DEF ChunkOf
<1>4. /\ n + pos \in Nat /\ n + b \in Nat /\ n + pos <= n + b /\ n + b <= Len(w) /\ n <= Len(w)
      /\ pos <= b /\ pos + n = n + pos /\ n + pos <= Len(w)
  BY <1>3
<1>5. Cut(Whole(q), pos + 1, b) = SubSeq(w, (n + pos) + 1, n + b)
  BY <1>3, <1>4, SubSeqTail DEF Cut
<1>6. SubSeq(w, (n + pos) + 1, n + b) \in Seq(KvRow)
  BY <1>3, <1>4, SubSeqFacts
<1>7. SubSeq(w, 1, n + pos) \o SubSeq(w, (n + pos) + 1, n + b) = SubSeq(w, 1, n + b)
  <2>1. PICK c \in Nat, d \in Nat : c = n + pos /\ d = n + b
    BY <1>4
  <2>2. SubSeq(w, 1, c) \o SubSeq(w, c + 1, d) = SubSeq(w, 1, d)
    BY <1>3, <1>4, <2>1, SubSeqJoin
  <2> QED BY <2>1, <2>2
<1>8. ASSUME NEW c \in Nat, c <= Len(w) PROVE Len(SubSeq(w, 1, c)) = c
  <2>1. Len(SubSeq(w, 0 + 1, c)) = c - 0
    BY <1>3, <1>8, SubSeqFacts
  <2>2. 0 + 1 = 1 /\ c - 0 = c
    OBVIOUS
  <2> QED BY <2>1, <2>2
<1>9. Len(SubSeq(w, 1, n + pos)) = n + pos /\ Len(SubSeq(w, 1, n + b)) = n + b
  BY <1>4, <1>8
<1>10. a.sess.kv = SubSeq(w, 1, n + pos)
  BY <1>3, <1>4
<1> QED BY <1>1, <1>5, <1>6, <1>7, <1>9, <1>10 DEF Joins

\* It fits, and the session goes on.
LEMMA ChunkGood ==
  ASSUME NEW a, Good(a), a.prefilling, NEW q, NEW h, NEW s, NEW n, NEW w, ChunkOf(a, q, h, s, n, w),
         NEW b \in Nat, a.pos < b, b <= Len(q.ids), NEW np, a.next + np \in {1, 2},
         Uncut(q, b, a.next + np), Room(a.sess, b - a.pos),
         NEW x, WithRows(x, SubSeq(w, 1, n + b)), NEW snap \in BOOLEAN
  PROVE  /\ Good(Chunked(a, x, b, np, snap))
         /\ Chunked(a, x, b, np, snap).req = a.req /\ Chunked(a, x, b, np, snap).hit = a.hit
         /\ n + b <= Ctx - 1
<1> DEFINE z == Chunked(a, x, b, np, snap)
           L == Len(q.ids)
<1>1. a \in ActiveRec /\ Stage(a) /\ a.prefilling = TRUE /\ a.heard = <<>>
  BY ActiveFields DEF Good, Stage
<1>2. x \in SessionRec /\ x.kv = SubSeq(w, 1, n + b) /\ x.st = "PREFILLED"
  BY DEF WithRows
<1>3. ChunkedFields(z, a, x, b, np)
  BY <1>1, <1>2, ChunkedIn
<1> HIDE DEF z
<1>4. q = Plan(a) /\ n = Loaded(a) /\ w = PromptRows[a.req] /\ n \in Nat /\ L \in Nat
      /\ n + L = Len(w) /\ w \in Seq(KvRow)
  BY DEF ChunkOf
<1> HIDE DEF L
<1>5. /\ z \in ActiveRec /\ z.req = a.req /\ z.hit = a.hit /\ z.sess = x /\ z.pos = b
      /\ z.next = a.next + np /\ z.prefilling = (b < L) /\ z.fresh = (b = L) /\ z.heard = <<>>
  BY <1>1, <1>3, <1>4 DEF ChunkedFields, L
<1>6. b <= L
  BY DEF L
<1>7. Plan(z) = q
  BY <1>4, <1>5 DEF Plan
<1>8. Stage(z)
  <2>1. (b < L => b # L) /\ (b < L \/ b = L)
    BY <1>4, <1>6
  <2> QED BY <1>2, <1>5, <1>7, <2>1 DEF Stage, L
<1>9. Len(x.kv) = n + b /\ n + b <= Ctx - 1
  <2>1. Len(a.sess.kv) = n + a.pos /\ Len(SubSeq(w, 1, n + b)) = n + b
    <3>1. Joins(a, q, n, w, b)
      BY ChunkRows
    <3> QED BY <3>1 DEF Joins
  <2>2. Len(a.sess.kv) + (b - a.pos) <= Ctx - 1
    BY DEF Room
  <2>3. PICK pos \in Nat : pos = a.pos
    BY DEF ChunkOf
  <2>4. (n + pos) + (b - pos) = n + b
    BY <1>4
  <2> QED BY <1>2, <2>1, <2>2, <2>3, <2>4
<1>10. Holds(z)
  <2>1. Len(z.sess.kv) <= Ctx
    BY <1>4, <1>5, <1>9, Numbers
  <2>2. z.heard = [k \in DOMAIN z.heard |-> FrameOf(<<z.req.text, Len(Prompts[z.req].ids) + k - 1>>)]
    <3>1. DOMAIN z.heard = {}
      BY <1>5
    <3> QED BY <1>5, <3>1
  <2>3. z.sess.kv = IF z.prefilling
                      THEN SubSeq(PromptRows[z.req], 1, z.pos + (IF z.hit THEN Prompts[z.req].nsys ELSE 0))
                      ELSE PromptRows[z.req] \o FrameRows(z)
    <3>1. z.sess.kv = SubSeq(w, 1, n + b)
      BY <1>2, <1>5
    <3>2. CASE b < L
      <4>1. n + b = b + n
        BY <1>4
      <4>2. n = IF z.hit THEN Prompts[z.req].nsys ELSE 0
        BY <1>4, <1>5 DEF Loaded
      <4>3. w = PromptRows[z.req] /\ z.pos = b /\ z.prefilling = TRUE
        BY <1>4, <1>5, <3>2
      <4> QED BY <3>1, <4>1, <4>2, <4>3
    <3>3. CASE ~(b < L)
      <4>1. n + b = Len(w)
        BY <1>4, <1>6, <3>3
      <4>2. z.sess.kv = w
        BY <1>4, <3>1, <4>1, SubSeqAll
      <4>3. FrameRows(z) = <<>>
        <5>1. Len(z.heard) - 1 = -1 /\ 1 .. -1 = {}
          BY <1>5
        <5> QED BY <5>1 DEF FrameRows
      <4>4. w \o <<>> = w
        BY <1>4, ConcatNone
      <4>5. w = PromptRows[z.req] /\ z.prefilling = FALSE
        <5>1. (b < L) = FALSE
          BY <3>3
        <5>2. z.prefilling = (b < L)
          BY <1>5
        <5>3. w = PromptRows[z.req]
          BY <1>4, <1>5
        <5> QED BY <5>1, <5>2, <5>3
      <4> QED BY <4>2, <4>3, <4>4, <4>5
    <3> QED BY <3>2, <3>3
  <2> QED BY <2>1, <2>2, <2>3 DEF Holds
<1> QED BY <1>5, <1>8, <1>9, <1>10 DEF Good, z

\* What is kept of it is its voice's prefix.
LEMMA ChunkGiven ==
  ASSUME NEW a, Good(a), NEW q, NEW h, NEW s, NEW n, NEW w, ChunkOf(a, q, h, s, n, w),
         q.nsys > 0, NEW b \in Nat, q.nsys <= b, b <= Len(q.ids), n + b <= Ctx - 1,
         NEW x, WithRows(x, SubSeq(w, 1, n + b))
  PROVE  ~a.hit /\ Given(a.req.key, q.nsys, x)
<1>1. a.req \in DOMAIN Prompts /\ a.hit \in BOOLEAN
  BY ActiveFields DEF Good
<1>2. q = Plan(a) /\ n = Loaded(a) /\ w = PromptRows[a.req] /\ w \in Seq(KvRow) /\ n + Len(q.ids) = Len(w)
  BY DEF ChunkOf
<1>3. ~a.hit
  <2>1. a.hit => q.nsys = 0
    BY <1>1, <1>2, PlanShape
  <2> QED BY <2>1
<1>4. q = Prompts[a.req] /\ n = 0
  BY <1>1, <1>2, <1>3, PlanShape DEF Loaded
<1>5. PICK r, key, m : r = a.req /\ key = r.key /\ m = q.nsys
  OBVIOUS
<1>6. /\ m \in Nat /\ w = Whole(Prompts[r])
      /\ key # "" => /\ key \in ToSet(Voices) /\ m = Prefix(key).nsys
                      /\ SubSeq(w, 1, m) = SysRows(key)
  BY <1>1, <1>2, <1>4, <1>5, OfRequest
<1>7. PICK L : L = Len(q.ids)
  OBVIOUS
<1>8. L \in Nat /\ L = Len(w) /\ m <= b /\ b <= L /\ b <= Ctx - 1
  <2>1. L \in Nat
    BY <1>7 DEF ChunkOf
  <2>2. 0 + L = L /\ 0 + b = b
    BY <2>1
  <2> QED BY <1>2, <1>4, <1>5, <1>7, <2>1, <2>2
<1>9. x.kv = SubSeq(w, 1, b)
  <2>1. n + b = b
    BY <1>4
  <2> QED BY <2>1 DEF WithRows
<1>10. m \in Nat /\ w \in Seq(KvRow)
  BY <1>2, <1>6
<1>11. m <= L /\ m <= Ctx /\ m <= b /\ b <= Len(w) /\ m <= Len(w)
  <2> HIDE <1>6, <1>2
  <2> QED BY <1>10, <1>8, Numbers
<1>12. KvSave(x, m) = SubSeq(w, 1, m)
  <2>1. SubSeq(SubSeq(w, 1, b), 1, m) = SubSeq(w, 1, m)
    BY <1>10, <1>11, SubSeqHead
  <2> QED BY <1>9, <2>1 DEF KvSave
<1>13. SubSeq(w, 1, m) \in Seq(KvRow)
  <2>1. 0 <= m /\ 0 \in Nat
    BY <1>10
  <2>2. SubSeq(w, 0 + 1, m) \in Seq(KvRow)
    BY <1>10, <1>11, <2>1, SubSeqFacts
  <2> QED BY <2>2
<1>14. m \in 0 .. Ctx
  BY <1>10, <1>11, Numbers
<1>15. Given(key, m, x)
  BY <1>6, <1>12, <1>13, <1>14 DEF Given
<1> QED BY <1>3, <1>5, <1>15

\* It does not fit: the prompt is too long, or the chunk with its reference.
TooLong(r) ==
  LET p == Prompts[r]
      run == Cardinality({j \in DOMAIN p.mask : p.mask[j]})
  IN  Len(p.ids) > Ctx - 1 \/ run + pfChunk > ScratchRows

\* So says the model of nothing else.
LEMMA ChunkTooLong ==
  ASSUME NEW a, Good(a), a.prefilling, NEW q, NEW h, NEW s, NEW n, NEW w, ChunkOf(a, q, h, s, n, w),
         NEW b \in Nat, a.pos < b, b <= Len(q.ids), ~Room(a.sess, b - a.pos),
         pfChunk \in Nat \ {0}, b - a.pos <= pfChunk + Len(s)
  PROVE  TooLong(a.req)
<1> DEFINE run == Cardinality({j \in DOMAIN Prompts[a.req].mask : Prompts[a.req].mask[j]})
<1>1. PICK pos \in Nat, L \in Nat : pos = a.pos /\ L = Len(q.ids)
  BY DEF ChunkOf
<1>2. n \in Nat /\ Len(s) <= run /\ n + L = Len(Prompts[a.req].ids) /\ pos < b /\ b <= L
      /\ PlanOk(q, h, s)
  BY <1>1 DEF ChunkOf
<1>3. Len(s) \in Nat
  BY <1>2 DEF PlanOk
<1>4. run \in Nat
  <2>1. a.req \in DOMAIN Prompts
    BY ActiveFields DEF Good
  <2>2. PICK m \in Nat, g \in Nat, v \in Seq(Col) : PromptOk(Prompts[a.req], a.req.text, m, g, v)
    BY <2>1, OfRequest
  <2>3. Prompts[a.req].mask \in Seq(BOOLEAN)
    BY <2>2 DEF PromptOk, PlanOk
  <2> DEFINE M == Prompts[a.req].mask
  <2> HIDE DEF M
  <2>4. M \in Seq(BOOLEAN)
    BY <2>3 DEF M
  <2>5. IsFiniteSet(1 .. Len(M)) /\ {j \in DOMAIN M : M[j]} \subseteq 1 .. Len(M)
    BY <2>4, FS_Interval
  <2>6. IsFiniteSet({j \in DOMAIN M : M[j]})
    BY <2>5, FS_Subset
  <2>7. Cardinality({j \in DOMAIN M : M[j]}) \in Nat
    BY <2>6, FS_CardinalityType
  <2> QED BY <2>7 DEF M
<1>5. a.sess.st \in {"NEW", "PREFILLED"}
  <2>1. a.sess.st # "DECODING"
    BY DEF Good, Stage
  <2>2. a.sess.st \in {"NEW", "PREFILLED", "DECODING"}
    BY ActiveFields DEF Good
  <2> QED BY <2>1, <2>2
<1>6. Len(a.sess.kv) = n + pos
  <2>1. Joins(a, q, n, w, b)
    BY ChunkRows
  <2> QED BY <1>1, <2>1 DEF Joins
<1>7. ~((n + pos) + (b - pos) <= Ctx - 1) \/ ~(b - pos <= ScratchRows)
  BY <1>1, <1>5, <1>6 DEF Room
<1> HIDE DEF run
<1>8. PICK len : len = Len(Prompts[a.req].ids)
  OBVIOUS
<1>9. len > Ctx - 1 \/ run + pfChunk > ScratchRows
  <2>1. PICK t \in Nat : t = Len(s)
    BY <1>3
  <2>2. b - pos <= pfChunk + t /\ t <= run /\ len = n + L /\ b <= L /\ pos < b /\ n \in Nat
    BY <1>1, <1>2, <1>8, <2>1
  <2>3. PICK pf \in Nat, c \in Nat, m \in Nat : pf = pfChunk /\ c = Ctx /\ m = ScratchRows
    BY Numbers
  <2>4. (n + pos) + (b - pos) = n + b
    BY <2>2
  <2>5. CASE ~(n + b <= c - 1)
    <3>1. len > c - 1
      BY <2>2, <2>5
    <3> QED BY <2>3, <3>1
  <2>6. CASE ~(b - pos <= m)
    <3>1. run + pf > m
      BY <1>4, <2>2, <2>3, <2>6
    <3> QED BY <2>3, <3>1
  <2> QED BY <1>7, <2>3, <2>4, <2>5, <2>6
<1> QED BY <1>8, <1>9 DEF TooLong, run

Snap(a, q, b) == ~a.inserted /\ q.nsys > 0 /\ b >= q.nsys
ChunkFits(a, q, b, parts) == PrefillOk(a.sess, IdsOf(q, a.pos, b), MaskOf(q, a.pos, b), parts)
ChunkSession(a, q, b, parts) == Prefill(a.sess, IdsOf(q, a.pos, b), MaskOf(q, a.pos, b), parts)

\* What becomes of a chunk: it is prefilled, refused or fails.
Taken(i, a, q, b, np, parts) ==
  /\ ChunkFits(a, q, b, parts)
  /\ kvc' \in IF Snap(a, q, b) THEN KvcInsert(kvc, a.req.key, q.nsys, ChunkSession(a, q, b, parts))
              ELSE {kvc}
  /\ act' = [act EXCEPT ![i] = Chunked(a, ChunkSession(a, q, b, parts), b, np, Snap(a, q, b))]
  /\ UNCHANGED refused
Refused(i, a, q, b, parts) ==
  /\ ~ChunkFits(a, q, b, parts) /\ act' = Retired({i}) /\ refused' = refused \cup {a.req}
  /\ UNCHANGED kvc
Failed(i) == act' = Retired({i}) /\ UNCHANGED <<kvc, refused>>

Outcome(i, a, q, b, np, parts) ==
  Taken(i, a, q, b, np, parts) \/ Refused(i, a, q, b, parts) \/ Failed(i)

Turn(k) == (rr + k) % NSlots
NumParts(q, next, b) ==
  Cardinality({p \in next .. Len(q.parts) : PartStarts(q.mask, q.parts)[p] <= b})
PartsFrom(q, next, np) == SubSeq(q.parts, next, next + np - 1)

\* PrefillChunk in the terms of these lemmas.
LEMMA PrefillChunkIs ==
  ASSUME PrefillChunk
  PROVE  /\ UNCHANGED <<pfChunk, warm, slab, graphs, starts>>
         /\ \E k, a, q, b, np, parts :
              /\ k \in Slots /\ a = act[Turn(k)] /\ q = Plan(a) /\ b = ChunkEnd(q, a.pos)
              /\ np = NumParts(q, a.next, b) /\ parts = PartsFrom(q, a.next, np)
              /\ Busy(Turn(k)) /\ a.prefilling /\ rr' = (Turn(k) + 1) % NSlots
              /\ Outcome(Turn(k), a, q, b, np, parts)
<1>1. UNCHANGED <<pfChunk, warm, slab, graphs, starts>>
  BY DEF PrefillChunk
<1>2. PICK k \in Slots :
     LET i == Turn(k)
         a == act[i]
         q == Plan(a)
         b == ChunkEnd(q, a.pos)
         np == NumParts(q, a.next, b)
         parts == PartsFrom(q, a.next, np)
         s == ChunkSession(a, q, b, parts)
         snap == Snap(a, q, b)
     IN  /\ Busy(i) /\ a.prefilling /\ rr' = (i + 1) % NSlots
         /\ \/ /\ ChunkFits(a, q, b, parts)
               /\ kvc' \in IF snap THEN KvcInsert(kvc, a.req.key, q.nsys, s) ELSE {kvc}
               /\ act' = [act EXCEPT ![i] =
                            [a EXCEPT !.sess = s, !.pos = b, !.next = @ + np,
                                      !.inserted = @ \/ snap,
                                      !.prefilling = b < Len(q.ids),
                                      !.fresh = b = Len(q.ids)]]
               /\ UNCHANGED refused
            \/ /\ ~ChunkFits(a, q, b, parts)
               /\ act' = Retired({i}) /\ refused' = refused \cup {a.req}
               /\ UNCHANGED kvc
            \/ Faults /\ act' = Retired({i}) /\ UNCHANGED <<kvc, refused>>
  BY DEF PrefillChunk, Chunk, Turn, NumParts, PartsFrom, ChunkSession, ChunkFits, Snap, IdsOf, MaskOf
<1> DEFINE a == act[Turn(k)]
           q == Plan(a)
           b == ChunkEnd(q, a.pos)
           np == NumParts(q, a.next, b)
           parts == PartsFrom(q, a.next, np)
<1>3. Busy(Turn(k)) /\ a.prefilling /\ rr' = (Turn(k) + 1) % NSlots
  BY <1>2
<1>4. Outcome(Turn(k), a, q, b, np, parts)
  BY <1>2 DEF Outcome, Taken, Refused, Failed, Chunked
<1> HIDE DEF a, q, b, np, parts
<1>5. /\ a = act[Turn(k)] /\ q = Plan(a) /\ b = ChunkEnd(q, a.pos)
      /\ np = NumParts(q, a.next, b) /\ parts = PartsFrom(q, a.next, np)
  BY DEF a, q, b, np, parts
<1> QED BY <1>1, <1>3, <1>4, <1>5

\* The scan stays among the slots.
LEMMA TurnIn ==
  ASSUME NEW x \in Nat
  PROVE  x % NSlots \in Slots
  BY Numbers DEF Slots

\* What the chunk does, by its plan.
LEMMA ChunkFacts ==
  ASSUME NEW a, Good(a), a.prefilling, NEW q, NEW h, NEW s, NEW n, NEW w, ChunkOf(a, q, h, s, n, w),
         NEW b, b = ChunkEnd(q, a.pos), NEW np, np = NumParts(q, a.next, b),
         NEW parts, parts = PartsFrom(q, a.next, np), pfChunk \in Nat \ {0}
  PROVE  /\ b \in Nat /\ a.pos < b /\ b <= Len(q.ids)
         /\ a.next + np \in {1, 2} /\ Uncut(q, b, a.next + np)
         /\ b - a.pos <= pfChunk + Len(s)
         /\ ChunkFits(a, q, b, parts) <=> Room(a.sess, b - a.pos)
         /\ WithRows(ChunkSession(a, q, b, parts), SubSeq(w, 1, n + b))
<1>1. PICK x : x = a.sess
  OBVIOUS
<1>2. PICK from \in Nat : from = a.pos
  BY DEF ChunkOf
<1>3. PICK next \in {1, 2} : next = a.next
  BY DEF ChunkOf
<1>4. x = a.sess /\ from = a.pos /\ next = a.next
  BY <1>1, <1>2, <1>3
<1>5. /\ PlanOk(q, h, s) /\ from < Len(q.ids) /\ Uncut(q, from, next) /\ HasKv(x) /\ x \in SessionRec
  BY <1>4, ActiveFields DEF ChunkOf, HasKv, Good
<1>6. PICK g : g = ChunkParts(q, next, b)
  OBVIOUS
<1>7. g.np = np /\ g.parts = parts
  BY <1>4, <1>6 DEF ChunkParts, NumParts, PartsFrom
<1>8. /\ b \in Nat /\ from < b /\ b <= Len(q.ids)
      /\ next + np \in {1, 2} /\ Uncut(q, b, next + np) /\ b - from <= pfChunk + Len(s)
      /\ PrefillOk(x, IdsOf(q, from, b), MaskOf(q, from, b), parts) <=> Room(x, b - from)
      /\ Prefill(x, IdsOf(q, from, b), MaskOf(q, from, b), parts) =
           Prefilled(x, Cut(Whole(q), from + 1, b))
  <2>1. b = ChunkEnd(q, from)
    BY <1>4
  <2> QED BY <1>5, <1>6, <1>7, <2>1, ChunkStep
<1>9. WithRows(ChunkSession(a, q, b, parts), SubSeq(w, 1, n + b))
  <2>1. Joins(a, q, n, w, b)
    BY <1>4, <1>8, ChunkRows
  <2> DEFINE rows == Cut(Whole(q), from + 1, b)
             kv == SubSeq(w, 1, n + b)
  <2>2. rows \in Seq(KvRow) /\ kv = x.kv \o rows
    BY <1>4, <2>1 DEF Joins
  <2>3. ChunkSession(a, q, b, parts) = Prefilled(x, rows)
    BY <1>4, <1>8 DEF ChunkSession
  <2> HIDE DEF rows, kv
  <2>4. WithRows(Prefilled(x, rows), kv)
    BY <1>5, <2>2, PrefilledIn
  <2> QED BY <2>3, <2>4 DEF kv
<1> QED BY <1>4, <1>8, <1>9 DEF ChunkFits

\* One session changed, for the same request.
LEMMA SlotsExcept ==
  ASSUME SlotsFor(act), NEW i \in Slots, Busy(i), NEW z, Good(z), z.req = act[i].req, z.hit = act[i].hit,
         act' = [act EXCEPT ![i] = z]
  PROVE  Lasts(act')
<1>1. act = [j \in Slots |-> act[j]]
  BY DEF SlotsFor
<1> DEFINE f == [act EXCEPT ![i] = z]
<1>2. f = [j \in Slots |-> f[j]] /\ \A j \in Slots : f[j] = IF j = i THEN z ELSE act[j]
  BY <1>1
<1>3. act' = f
  OBVIOUS
<1> HIDE DEF f
<1>4. \A j \in Slots : \/ f[j] = act[j]
                       \/ Busy(j) /\ Good(f[j]) /\ f[j].req = act[j].req /\ f[j].hit = act[j].hit
  BY <1>2
<1> QED BY <1>2, <1>3, <1>4 DEF Lasts

\* When every voice was warmed, a session that was hit makes no entry.
LEMMA PrefillChunkStep ==
  ASSUME Parts, PrefillChunk
  PROVE  Parts'
<1>1. UNCHANGED <<pfChunk, warm, slab, graphs, starts>>
  BY PrefillChunkIs
<1>2. PICK k, a, q, b, np, parts :
        /\ k \in Slots /\ a = act[Turn(k)] /\ q = Plan(a) /\ b = ChunkEnd(q, a.pos)
        /\ np = NumParts(q, a.next, b) /\ parts = PartsFrom(q, a.next, np)
        /\ Busy(Turn(k)) /\ a.prefilling /\ rr' = (Turn(k) + 1) % NSlots
        /\ Outcome(Turn(k), a, q, b, np, parts)
  BY PrefillChunkIs
<1>3. SlotsFor(act) /\ CacheGood /\ Registers /\ WarmStaysWarm /\ OnlyTooLongRefused
  BY DEF Parts
<1>4. PICK i \in Slots : i = Turn(k) /\ (i + 1) % NSlots \in Slots
  <2>1. rr \in Nat /\ k \in Nat
    BY <1>2, <1>3, Numbers DEF Registers, Slots
  <2>2. rr + k \in Nat
    BY <2>1
  <2>3. Turn(k) \in Slots
    BY <2>2, TurnIn DEF Turn
  <2>4. Turn(k) + 1 \in Nat
    BY <2>3 DEF Slots
  <2>5. (Turn(k) + 1) % NSlots \in Slots
    BY <2>4, TurnIn
  <2> QED BY <2>3, <2>5
<1>5. Good(a) /\ Busy(i) /\ a = act[i] /\ a.prefilling
  BY <1>2, <1>3, <1>4, BusyReady
<1>6. PICK h, s, n, w : ChunkOf(a, q, h, s, n, w)
  <2>1. PICK p, h, s, n, w : ChunkOf(a, p, h, s, n, w)
    BY <1>5, ChunkThere
  <2>2. p = q
    BY <1>2, <2>1 DEF ChunkOf
  <2> QED BY <2>1, <2>2
<1>7. pfChunk \in Nat \ {0}
  BY <1>3, SessionsConstants DEF Registers
<1> DEFINE x == ChunkSession(a, q, b, parts)
<1>8. /\ b \in Nat /\ a.pos < b /\ b <= Len(q.ids)
      /\ a.next + np \in {1, 2} /\ Uncut(q, b, a.next + np)
      /\ b - a.pos <= pfChunk + Len(s)
      /\ ChunkFits(a, q, b, parts) <=> Room(a.sess, b - a.pos)
      /\ WithRows(x, SubSeq(w, 1, n + b))
  BY <1>2, <1>5, <1>6, <1>7, ChunkFacts
<1> HIDE DEF x
<1>9. Registers'
  BY <1>1, <1>2, <1>3, <1>4 DEF Registers
<1>10. WarmIn' /\ GraphsOk' /\ SlabOk'
  BY <1>1 DEF Parts, WarmIn, GraphsOk, SlabOk
<1>11. starts # 0
  <2>1. ~Idle
    BY <1>5 DEF Idle
  <2> QED BY <2>1 DEF Parts, Warmed, Idle
<1>12. ASSUME UNCHANGED kvc PROVE CacheGood' /\ Warmed'
  <2>1. warm.ok = ToSet(Voices) => \A v \in warm.ok : v # "" => Named(kvc, v) # {}
    BY DEF Parts, Warmed
  <2>2. warm'.ok = ToSet(Voices) => \A v \in warm'.ok : v # "" => Named(kvc', v) # {}
    BY <1>1, <1>12, <2>1
  <2>3. starts' # 0
    BY <1>1, <1>11
  <2>4. CacheGood'
    BY <1>3, <1>12 DEF CacheGood
  <2> QED BY <2>2, <2>3, <2>4 DEF Warmed
<1>13. ASSUME UNCHANGED refused PROVE OnlyTooLongRefused'
  BY <1>1, <1>3, <1>13 DEF OnlyTooLongRefused
<1>14. ASSUME Lasts(act') PROVE SlotsFor(act') /\ WarmStaysWarm'
  BY <1>1, <1>3, <1>14, LastsKeeps
<1>15. CASE Taken(i, a, q, b, np, parts)
  <2> DEFINE snap == Snap(a, q, b)
             z == Chunked(a, x, b, np, snap)
  <2>1. ChunkFits(a, q, b, parts) /\ UNCHANGED refused /\ act' = [act EXCEPT ![i] = z]
    BY <1>15 DEF Taken, x
  <2>2. kvc' \in IF snap THEN KvcInsert(kvc, a.req.key, q.nsys, x) ELSE {kvc}
    BY <1>15 DEF Taken, x
  <2>3. snap \in BOOLEAN /\ (snap => q.nsys > 0 /\ q.nsys <= b)
    <3>1. a.inserted \in BOOLEAN
      BY <1>5, ActiveFields DEF Good
    <3>2. snap => q.nsys > 0 /\ b >= q.nsys
      BY DEF Snap
    <3>3. snap \in BOOLEAN
      BY <3>1 DEF Snap
    <3> QED BY <3>2, <3>3
  <2> HIDE DEF snap
  <2>4. Good(z) /\ z.req = a.req /\ z.hit = a.hit /\ n + b <= Ctx - 1
    BY <1>5, <1>6, <1>8, <2>1, <2>3, ChunkGood
  <2> HIDE DEF z
  <2>5. Lasts(act')
    BY <1>3, <1>5, <2>1, <2>4, SlotsExcept
  <2>6. CacheGood' /\ Warmed'
    <3>1. CASE ~snap
      BY <1>12, <2>2, <3>1
    <3>2. CASE snap
      <4>1. PICK key, m : key = a.req.key /\ m = q.nsys
        OBVIOUS
      <4>2. ~a.hit /\ Given(key, m, x)
        BY <1>5, <1>6, <1>8, <2>3, <2>4, <3>2, <4>1, ChunkGiven
      <4>3. kvc' \in KvcInsert(kvc, key, m, x)
        BY <2>2, <3>2, <4>1
      <4>4. CacheGood'
        <5>1. kvc \in Cache /\ CacheOk(kvc)
          BY <1>3 DEF CacheGood
        <5>2. PICK d \in KvcInsert(kvc, key, m, x) : d = kvc'
          BY <4>3
        <5>3. d \in Cache /\ CacheOk(d)
          BY <4>2, <5>1, InsertOk
        <5> QED BY <5>2, <5>3 DEF CacheGood
      <4>5. CASE warm.ok = ToSet(Voices)
        <5>1. key = ""
          BY <1>3, <1>5, <4>1, <4>2, <4>5 DEF WarmStaysWarm
        <5>2. kvc' = kvc
          BY <4>3, <5>1 DEF KvcInsert
        <5> QED BY <1>12, <5>2
      <4>6. CASE warm.ok # ToSet(Voices)
        <5>1. starts' # 0 /\ warm'.ok # ToSet(Voices)
          BY <1>1, <1>11, <4>6
        <5> QED BY <4>4, <5>1 DEF Warmed
      <4> QED BY <4>5, <4>6
    <3> QED BY <3>1, <3>2
  <2> QED BY <1>9, <1>10, <1>13, <1>14, <2>1, <2>5, <2>6 DEF Parts
<1>16. CASE Refused(i, a, q, b, parts)
  <2>1. Lasts(act') /\ UNCHANGED kvc /\ ~ChunkFits(a, q, b, parts) /\ refused' = refused \cup {a.req}
    BY <1>16, RetiredLasts DEF Refused
  <2>2. TooLong(a.req)
    BY <1>5, <1>6, <1>7, <1>8, <2>1, ChunkTooLong
  <2>3. OnlyTooLongRefused'
    <3>1. \A r \in refused : TooLong(r)
      BY <1>3 DEF OnlyTooLongRefused, TooLong
    <3>2. \A r \in refused' : TooLong(r)
      BY <2>1, <2>2, <3>1
    <3> QED BY <1>1, <3>2 DEF OnlyTooLongRefused, TooLong
  <2> QED BY <1>9, <1>10, <1>12, <1>14, <2>1, <2>3 DEF Parts
<1>17. CASE Failed(i)
  <2>1. Lasts(act') /\ UNCHANGED <<kvc, refused>>
    BY <1>17, RetiredLasts DEF Failed
  <2> QED BY <1>9, <1>10, <1>12, <1>13, <1>14, <2>1 DEF Parts
<1> QED BY <1>2, <1>4, <1>15, <1>16, <1>17 DEF Outcome

-----------------------------------------------------------------------------
(* The theorems.                                                            *)

\* Before anything is warmed or started there is nothing to be wrong.
LEMMA InitParts ==
  ASSUME Init
  PROVE  Parts
<1>1. Registers
  <2>1. 0 \in Slots
    BY Numbers DEF Slots
  <2>2. Len(Texts) \in Nat
    BY SessionsConstants
  <2> QED BY <2>1, <2>2 DEF Init, Registers
<1>2. CacheGood
  <2>1. kvc \in Cache
    BY NoEntryIn DEF Init, Cache
  <2>2. \A e \in 1 .. Cap : kvc.entries[e] = NoEntry
    BY DEF Init
  <2> QED BY <2>1, <2>2, NoEntryIn DEF CacheGood, CacheOk
<1>3. WarmIn
  <2>1. 1 \in 1 .. Len(Voices) + 1
    BY SessionsConstants
  <2> QED BY <2>1 DEF Init, WarmIn
<1>4. SlotsFor(act)
  BY DEF Init, SlotsFor, SlotOk
<1>5. GraphsOk /\ SlabOk
  BY DEF Init, GraphsOk, SlabOk
<1>6. \A i \in Slots : ~Busy(i)
  BY GoodBusy DEF Init, Busy
<1>7. Warmed
  <2>1. \A e \in warm.next .. Cap : kvc.entries[e].name = ""
    <3>1. warm.next = 1
      BY DEF Init
    <3> QED BY <3>1, NoEntryIn DEF Init
  <2>2. warm.ok = {}
    BY DEF Init
  <2> QED BY <1>6, <2>1, <2>2 DEF Warmed
<1>8. WarmStaysWarm
  BY <1>6 DEF WarmStaysWarm
<1>9. OnlyTooLongRefused
  BY DEF Init, OnlyTooLongRefused
<1> QED BY <1>1, <1>2, <1>3, <1>4, <1>5, <1>7, <1>8, <1>9 DEF Parts

\* Nothing changes.
LEMMA StutterParts ==
  ASSUME Parts, UNCHANGED vars
  PROVE  Parts'
<1>1. UNCHANGED <<pfChunk, warm, kvc, rr, act, slab, graphs, starts, refused>>
  BY DEF vars
<1>2. Registers' /\ CacheGood' /\ WarmIn' /\ GraphsOk' /\ SlabOk'
  BY <1>1 DEF Parts, Registers, CacheGood, WarmIn, GraphsOk, SlabOk
<1>3. SlotsFor(act')
  BY <1>1 DEF Parts
<1>4. Warmed' /\ WarmStaysWarm' /\ OnlyTooLongRefused'
  BY <1>1 DEF Parts, Warmed, Named, Busy, WarmStaysWarm, OnlyTooLongRefused
<1> QED BY <1>1, <1>2, <1>3, <1>4 DEF Parts

\* The invariant holds of the initial states and is kept by every step.
THEOREM Inductive == Spec => []IInv
<1>1. Init => IInv
  BY InitParts, PartsAre
<1>2. IInv /\ [Next]_vars => IInv'
  <2> SUFFICES ASSUME IInv, [Next]_vars
               PROVE  IInv'
    OBVIOUS
  <2>1. Parts
    BY PartsAre
  <2>2. CASE WarmVoice
    BY <2>1, <2>2, WarmVoiceStep, PartsNext
  <2>3. CASE PrefillChunk
    BY <2>1, <2>3, PrefillChunkStep, PartsNext
  <2>4. CASE Lockstep
    BY <2>1, <2>4, LockstepStep, PartsNext
  <2>5. CASE \E i \in Slots : FirstFrame(i) \/ Gone(i)
    BY <2>1, <2>5, FirstFrameStep, GoneStep, PartsNext
  <2>6. CASE \E i \in Slots, v \in ToSet(Voices) \cup Others : StartRequest(i, v)
    BY <2>1, <2>6, StartRequestStep, PartsNext DEF Names
  <2>7. CASE UNCHANGED vars
    BY <2>1, <2>7, StutterParts, PartsNext
  <2> QED BY <2>2, <2>3, <2>4, <2>5, <2>6, <2>7 DEF Next
<1> QED BY <1>1, <1>2, PTL DEF Spec

\* The types of the state: the captured graphs, the prefix cache, the voices
\* warmed, and of a session its state and that its cache is within the context.
THEOREM TypeCorrect == Spec => []TypeOK
<1>1. IInv => TypeOK
  <2> SUFFICES ASSUME IInv
               PROVE  TypeOK
    OBVIOUS
  <2>1. Parts
    BY PartsAre
  <2>2. pfChunk \in PfChunks /\ rr \in Slots /\ starts \in 0 .. Len(Texts)
    BY <2>1 DEF Parts, Registers
  <2>3. graphs \in [1 .. NSlots -> 0 .. NSplits(Ctx)]
    <3>1. NSplits(Ctx) \in Nat
      BY Numbers, SplitsReach
    <3>2. {0, NSplits(Ctx)} \subseteq 0 .. NSplits(Ctx)
      BY <3>1
    <3>3. graphs \in [1 .. NSlots -> {0, NSplits(Ctx)}]
      BY <2>1 DEF Parts, GraphsOk
    <3> DEFINE R == 0 .. NSplits(Ctx)
               Q == {0, NSplits(Ctx)}
    <3> HIDE DEF R, Q
    <3>4. graphs \in [1 .. NSlots -> Q] /\ Q \subseteq R
      BY <3>2, <3>3 DEF R, Q
    <3>5. graphs \in [1 .. NSlots -> R]
      BY <3>4
    <3> QED BY <3>5 DEF R
  <2>4. warm.next \in 1 .. Len(Voices) + 1 /\ warm.ok \subseteq ToSet(Voices)
    BY <2>1 DEF Parts, WarmIn
  <2>5. Len(kvc.entries) = Cap
    <3>1. kvc.entries \in [1 .. Cap -> EntryRec] /\ Cap \in Nat
      BY <2>1, Numbers DEF Parts, CacheGood, Cache
    <3>2. kvc.entries \in Seq(EntryRec) /\ Len(kvc.entries) = Cap
      BY <3>1
    <3> QED BY <3>2
  <2>6. ASSUME NEW i \in Slots, Busy(i)
        PROVE  /\ act[i].sess.st \in {"NEW", "PREFILLED", "DECODING"}
               /\ Len(act[i].sess.kv) <= Ctx
               /\ ~(act[i].prefilling /\ act[i].fresh)
    <3>1. Good(act[i])
      BY <2>1, <2>6, BusyReady DEF Parts
    <3> QED BY <3>1, ActiveFields DEF Good, Stage, Holds
  <2> QED BY <2>2, <2>3, <2>4, <2>5, <2>6 DEF TypeOK
<1> QED BY <1>1, Inductive, PTL

\* A session's cache holds its own prompt, as far as it is prefilled, and then
\* its own frames: whatever the size of the chunks, whether the voice's prefix
\* was computed or loaded, and whatever was evicted meanwhile.
THEOREM CachesHoldPrompts == Spec => []KvIsPrompt
<1>1. IInv => KvIsPrompt
  BY DEF IInv, Holds, KvIsPrompt
<1> QED BY <1>1, Inductive, PTL

\* What a client hears was computed from its own text, a frame for every
\* position after its prompt: no row of a batch is taken for another's, no
\* cache of the fast decoder is read from an earlier frame, and the splits of
\* a captured graph reach every row.
THEOREM ClientsHearTheirText == Spec => []FramesAreOwn
<1>1. IInv => FramesAreOwn
  BY DEF IInv, Holds, FramesAreOwn
<1> QED BY <1>1, Inductive, PTL

\* The model refuses a prompt only for its length, or a chunk with its whole
\* reference for the scratch memory.
THEOREM RefusedForLength == Spec => []OnlyTooLongRefused
<1>1. IInv => OnlyTooLongRefused
  BY DEF IInv
<1> QED BY <1>1, Inductive, PTL

\* Once every voice was warmed before serving, a request of a named voice is
\* always a hit: no entry is ever evicted.
THEOREM WarmForEver == Spec => []WarmStaysWarm
<1>1. IInv => WarmStaysWarm
  BY DEF IInv
<1> QED BY <1>1, Inductive, PTL

=============================================================================
