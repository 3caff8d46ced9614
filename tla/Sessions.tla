------------------------------ MODULE Sessions ------------------------------
(* What is in a session's KV cache: the prompt of its request, prefilled in *)
(* chunks or seeded from the prefix cache of its voice, then its own frames *)
(* (text/prompt.c, slowar.c, the prefix cache and the prefill plan of       *)
(* scheduler.c, the per-frame decoder of fastar.cu).  A row of a cache is   *)
(* named by what was embedded there; a frame is named by the text and the   *)
(* position it was computed from, so that a row or a frame of another       *)
(* session shows.  The worker is one thread: an action is one of its calls. *)
EXTENDS Attention

CONSTANTS
  NSlots,       \* max_sessions
  Voices,       \* the registry: a sequence of names
  Others,       \* other requests: a clone is "clone", zero-shot is "none"
  PartLen,      \* reference -> number of its frames
  NumCodebooks, \* S2P_NUM_CODEBOOKS
  Cap,          \* kvc_cap
  PfChunks,     \* values of S2P_PREFILL_CHUNK to consider
  Ctx,          \* ctx_len
  ScratchRows,  \* scratch_rows
  FrameCap,     \* SCHED_MAX_FRAMES
  Texts,        \* bound: the texts of the requests, one each
  Faults        \* whether GPU calls and allocations may fail

ASSUME SessionsConstants ==
  /\ {NSlots, NumCodebooks, Ctx, ScratchRows, FrameCap} \subseteq Nat \ {0} /\ Cap \in Nat
  /\ PfChunks \subseteq Nat \ {0} /\ Faults \in BOOLEAN
  /\ Voices \in Seq(STRING) /\ Texts \in Seq(STRING) /\ Others \subseteq STRING
  /\ \A v \in ToSet(Voices) \cup Others : v # "none" => PartLen[v] \in Nat

VARIABLES
  pfChunk,  \* S2P_PREFILL_CHUNK
  warm,     \* [next, ok]: voices tried and snapshots kept before serving
  kvc,      \* prefix cache: [entries, tick]
  rr,       \* slot the next prefill scan starts at
  act,      \* slot -> its request, session and prefill plan, or Free
  slab,     \* caches of the fast decoder, one per row of a batch
  graphs,   \* rows of a batch -> splits its captured graph launches, or 0
  starts,   \* requests started
  refused   \* requests whose prefill the model refused

vars == <<pfChunk, warm, kvc, rr, act, slab, graphs, starts, refused>>

Slots == 0 .. NSlots - 1
Codebooks == 1 .. NumCodebooks

-----------------------------------------------------------------------------
(* Prompts (text/prompt.c).  A segment of literal text is one token, a      *)
(* token its kind and what it is of.                                        *)

Literal(kind) == <<kind, "">>

\* The reference of a voice or a clone, one column of codes per frame.
Part(v) == [t \in 1 .. PartLen[v] |-> [cb \in Codebooks |-> <<v, t, cb>>]]

RequestFor(v, text) ==
  [key     |-> IF Contains(Voices, v) THEN v ELSE "",
   refs    |-> IF v = "none" THEN <<>> ELSE <<Part(v)>>,
   refText |-> IF v = "none" THEN "" ELSE v,
   text    |-> text]

\* Codes lie codebook by codebook in memory: [codes, T].
Flat(cols) ==
  LET T == Len(cols)
  IN  [T |-> T, codes |-> [k \in 1 .. NumCodebooks * T |->
                             cols[((k - 1) % T) + 1][((k - 1) \div T) + 1]]]

Column(part, t) == [cb \in Codebooks |-> part.codes[(cb - 1) * part.T + t]]

\* The system block: one for all references together.
SystemBlock(refs, refText) ==
  LET cat == FlattenSeq(refs)
      head == <<Literal("system"), Literal("convert")>>
              \o (IF refText = "" THEN <<>> ELSE <<<<"ref", refText>>>>)
              \o <<Literal("speech")>>
      sem == [t \in 1 .. Len(cat) |-> <<"sem", cat[t][1]>>]
  IN  IF refs = <<>> THEN [ids |-> <<>>, vq |-> {}, parts |-> <<>>]
      ELSE [ids |-> head \o sem \o <<Literal("end")>>,
            vq |-> Len(head) + 1 .. Len(head) + Len(cat),
            parts |-> IF cat = <<>> THEN <<>> ELSE <<Flat(cat)>>]

\* s2p_prompt_build: the system block, then the user's turn.
PromptBuild(r) ==
  LET sys == SystemBlock(r.refs, r.refText)
      ids == sys.ids \o <<Literal("user"), <<"text", r.text>>, Literal("end"), Literal("voice")>>
  IN  [ids   |-> ids,
       mask  |-> [j \in 1 .. Len(ids) |-> j \in sys.vq],
       parts |-> sys.parts,
       nsys  |-> Len(sys.ids)]

\* The prompts of all requests, each built once.
Prompts == [r \in {RequestFor(v, t) : v \in ToSet(Voices) \cup Others, t \in ToSet(Texts)} |->
              PromptBuild(r)]

\* Where the runs of the mask begin that the parts belong to.
PartStarts(mask, parts) ==
  LET NextMasked(j) ==
        CHOOSE k \in j .. Len(mask) + 1 :
          /\ k = Len(mask) + 1 \/ mask[k]
          /\ \A m \in j .. k - 1 : ~mask[m]
      at[p \in DOMAIN parts] == NextMasked(IF p = 1 THEN 1 ELSE at[p - 1] + parts[p - 1].T)
  IN  at

\* The columns of all parts.
TotalT(parts) ==
  LET sum[p \in 0 .. Len(parts)] == IF p = 0 THEN 0 ELSE sum[p - 1] + parts[p].T
  IN  sum[Len(parts)]

-----------------------------------------------------------------------------
(* Sessions (slowar.c).                                                     *)

NewSession == [st |-> "NEW", kv |-> <<>>, prev |-> <<>>]

\* A row: the token embedded there and the column of codes added to it.
RowOf(tok, col) == [tok |-> tok, col |-> col]

PrefillOk_NoCtx(s, ids, mask, parts) ==
  s.st \in {"NEW", "PREFILLED"} /\ Len(ids) <= ScratchRows

\* s2p_session_prefill of a slice of a prompt.
PrefillOk(s, ids, mask, parts) ==
  LET at == PartStarts(mask, parts)
  IN  /\ s.st \in {"NEW", "PREFILLED"}
      /\ Len(s.kv) + Len(ids) <= Ctx - 1
      /\ Len(ids) <= ScratchRows
      /\ Cardinality({j \in DOMAIN mask : mask[j]}) = TotalT(parts)
      /\ \A p \in DOMAIN parts : \A t \in 0 .. parts[p].T - 1 :
           at[p] + t \in DOMAIN mask /\ mask[at[p] + t]

Prefill(s, ids, mask, parts) ==
  LET at == PartStarts(mask, parts)
      In(j, p) == at[p] <= j /\ j < at[p] + parts[p].T
      Col(j) == IF \E p \in DOMAIN parts : In(j, p)
                  THEN LET p == CHOOSE p \in DOMAIN parts : In(j, p)
                       IN  Column(parts[p], j - at[p] + 1)
                  ELSE <<>>
  IN  [s EXCEPT !.kv = @ \o [j \in DOMAIN ids |-> RowOf(ids[j], Col(j))],
                !.st = "PREFILLED"]

KvSave_All(s, n) == s.kv

\* s2p_session_kv_save, s2p_session_kv_load
KvSave(s, n) == SubSeq(s.kv, 1, n)
KvLoad(s, blob) == [s EXCEPT !.kv = blob]

-----------------------------------------------------------------------------
(* One frame of a batch.                                                    *)

\* What the backbone knows after the rows of kv: whose text, and how far.
Hidden(kv) ==
  LET texts == {j \in DOMAIN kv : kv[j].tok[1] = "text"}
  IN  <<IF texts = {} THEN "?" ELSE kv[Greatest(texts)].tok[2], Len(kv)>>

FrameOf(h) == [cb \in Codebooks |-> <<h[1], h[2], cb>>]

SlabLen == NumCodebooks + 1

\* Positions the attention reads at step cb.
FastWindow(cb) == 1 .. cb + 1

\* s2pfa_decode_frame_batch_dev for one row: position 0 is primed on the
\* hidden state, position cb on the code of the step before.  The cache is
\* not cleared between frames.
FastRow(h, cache) ==
  LET Step(a, cb) ==
        LET c == [a.cache EXCEPT ![cb + 1] = <<a.x, cb>>]
            y == IF \A p \in FastWindow(cb) : c[p] = <<h, p - 1>> THEN h ELSE <<"?", 0>>
        IN  [cache |-> c, x |-> y, out |-> [a.out EXCEPT ![cb + 1] = <<y[1], y[2], cb + 1>>]]
      step[k \in 0 .. NumCodebooks] ==
        IF k = 0 THEN [cache |-> cache, x |-> h, out |-> [cb \in Codebooks |-> <<>>]]
        ELSE Step(step[k - 1], k - 1)
  IN  step[NumCodebooks]

\* The context is exhausted.
Forced(s) == s.st = "DECODING" /\ Len(s.kv) >= Ctx

\* The sequence of the members of S in the order of the slots.
InOrder(S) ==
  {seq \in [1 .. Cardinality(S) -> S] :
     /\ \A i \in S : \E n \in DOMAIN seq : seq[n] = i
     /\ \A m, n \in DOMAIN seq : m < n => seq[m] < seq[n]}

\* Of the sessions in S, the rows of a batch: decoding ones first, then those
\* that have not decoded a frame.
DecodeRows(S) == {i \in S : act[i].sess.st = "DECODING" /\ ~Forced(act[i].sess)}
FirstRows(S) == {i \in S : act[i].sess.st = "PREFILLED"}

\* The cache of row b with the frame before, which is embedded with its codes;
\* those of all rows are staged as one run.
RowKv(dec, new, b) ==
  LET staged == Flat([n \in DOMAIN dec |-> act[dec[n]].sess.prev])
  IN  IF b <= Len(dec)
        THEN Append(act[dec[b]].sess.kv,
                    RowOf(<<"sem", act[dec[b]].sess.prev[1]>>, Column(staged, b)))
        ELSE act[new[b - Len(dec)]].sess.kv

LongestKv(dec) == Greatest({Len(act[dec[b]].sess.kv) + 1 : b \in DOMAIN dec})

CapturedSplits_AsSeen(maxLen) == NSplits(maxLen)

\* A graph is captured once for a number of rows, for the whole context.
CapturedSplits(maxLen) == NSplits(Ctx)

\* Splits of the attention of a batch: those of its graph when every row is
\* decoding, of its longest row otherwise.
SplitsOf(dec, new) ==
  LET bd == Len(dec)
  IN  IF bd = 0 THEN 0
      ELSE IF new # <<>> THEN NSplits(LongestKv(dec))
      ELSE IF graphs[bd] # 0 THEN graphs[bd] ELSE CapturedSplits(LongestKv(dec))

\* Rows of a cache that n splits read.
Attended(kv, n) == SubSeq(kv, 1, Least2(Len(kv), n * Split))

\* The frame of row b: the backbone, then the fast decoder.
RowFrame(dec, new, b) ==
  LET kv == RowKv(dec, new, b)
  IN  FastRow(Hidden(IF b <= Len(dec) THEN Attended(kv, SplitsOf(dec, new)) ELSE kv), slab[b])

\* s2p_model_batch_next_frame over the sessions of the slots in S, whose rows
\* are dec and new; the rows in eos sample the end of the text.
BatchNextFrame(S, dec, new, eos) ==
  LET rows == dec \o new
      B == Len(rows)
      fast == [b \in 1 .. B |-> RowFrame(dec, new, b)]
      \* the results lie row by row
      codes == [k \in 1 .. B * NumCodebooks |->
                  fast[((k - 1) \div NumCodebooks) + 1].out[((k - 1) % NumCodebooks) + 1]]
      Frame(b) == [cb \in Codebooks |-> codes[(b - 1) * NumCodebooks + cb]]
      Harvest(i, b) ==
        LET s == [act[i].sess EXCEPT !.kv = RowKv(dec, new, b)]
        IN  IF b \in eos THEN [act[i] EXCEPT !.sess = [s EXCEPT !.st = "FINISHED"]]
            ELSE [act[i] EXCEPT !.sess = [s EXCEPT !.st = "DECODING", !.prev = Frame(b)],
                                !.heard = Append(@, Frame(b))]
  IN  [act  |-> [i \in Slots |->
                   IF i \notin S THEN act[i]
                   ELSE IF \A b \in 1 .. B : rows[b] # i
                     THEN [act[i] EXCEPT !.sess.st = "FINISHED"]
                   ELSE Harvest(i, CHOOSE b \in 1 .. B : rows[b] = i)],
       slab |-> [b \in 1 .. NSlots |-> IF b <= B THEN fast[b].cache ELSE slab[b]],
       graphs |-> IF B > 0 /\ new = <<>> THEN [graphs EXCEPT ![B] = SplitsOf(dec, new)]
                  ELSE graphs]

-----------------------------------------------------------------------------
(* The prefix cache (scheduler.c 466-513).                                  *)

NoEntry == [name |-> "", P |-> 0, blob |-> <<>>, use |-> 0]

Named(c, key) == {e \in DOMAIN c.entries : c.entries[e].name = key}
Least(S) == CHOOSE e \in S : \A f \in S : e <= f

\* kvc_lookup: the entry, or 0.
KvcHit(c, key, nsys) ==
  IF key = "" \/ nsys = 0 \/ Named(c, key) = {} THEN 0
  ELSE LET e == Least(Named(c, key)) IN IF c.entries[e].P = nsys THEN e ELSE 0

KvcTouch(c, e) == [c EXCEPT !.entries[e].use = c.tick + 1, !.tick = @ + 1]

KvcSlot_First(c) == 1

\* Where an insert goes: the first empty entry, or the least recently used.
KvcSlot(c) ==
  IF Named(c, "") # {} THEN Least(Named(c, ""))
  ELSE Least({e \in 1 .. Cap : \A f \in 1 .. Cap : c.entries[e].use <= c.entries[f].use})

\* kvc_insert: the possible results; a failed one has made room already.
KvcInsert(c, key, nsys, s) ==
  IF Cap = 0 \/ key = "" \/ nsys = 0 THEN {c}
  ELSE {[entries |-> [c.entries EXCEPT ![KvcSlot(c)] =
                        [name |-> key, P |-> nsys, blob |-> KvSave(s, nsys),
                         use |-> c.tick + 1]],
         tick |-> c.tick + 1]}
       \cup IF Faults THEN {[c EXCEPT !.entries[KvcSlot(c)] = NoEntry]} ELSE {}

-----------------------------------------------------------------------------
(* The worker.                                                              *)

Free == [on |-> FALSE]
Busy(i) == act[i].on

Init ==
  /\ pfChunk \in PfChunks
  /\ warm = [next |-> 1, ok |-> {}]
  /\ kvc = [entries |-> [e \in 1 .. Cap |-> NoEntry], tick |-> 0]
  /\ rr = 0
  /\ act = [i \in Slots |-> Free]
  /\ slab = [b \in 1 .. NSlots |-> [p \in 1 .. SlabLen |-> <<>>]]
  /\ graphs = [b \in 1 .. NSlots |-> 0]
  /\ starts = 0
  /\ refused = {}

\* s2p_sched_warm_voices, before serving: the system block of a voice in one
\* prefill.  S2P_KV_WARM=0 skips it.
WarmVoice ==
  /\ starts = 0 /\ warm.next <= Len(Voices) /\ warm.next <= Cap
  /\ LET v == Voices[warm.next]
         p == PromptBuild(RequestFor(v, ""))
         ids == SubSeq(p.ids, 1, p.nsys)
         mask == SubSeq(p.mask, 1, p.nsys)
         s == Prefill(NewSession, ids, mask, p.parts)
     IN  \/ /\ PrefillOk(NewSession, ids, mask, p.parts)
            /\ \E c \in KvcInsert(kvc, v, p.nsys, s) :
                 /\ kvc' = c
                 /\ warm' = [next |-> warm.next + 1,
                             ok |-> IF Named(c, v) = {} THEN warm.ok ELSE warm.ok \cup {v}]
         \/ /\ ~PrefillOk(NewSession, ids, mask, p.parts) \/ Faults
            /\ warm' = [warm EXCEPT !.next = @ + 1] /\ UNCHANGED kvc
  /\ UNCHANGED <<pfChunk, rr, act, slab, graphs, starts, refused>>

\* The slots in S are retired.
Retired(S) == [i \in Slots |-> IF i \in S THEN Free ELSE act[i]]

\* What is left to prefill after a hit: no VQ outside the prefix.
Plan(a) ==
  LET p == Prompts[a.req]
      n == Len(p.ids) - p.nsys
  IN  IF ~a.hit THEN p
      ELSE [ids |-> SubSeq(p.ids, p.nsys + 1, Len(p.ids)), mask |-> [j \in 1 .. n |-> FALSE],
            parts |-> <<>>, nsys |-> 0]

\* start_request into slot i; the number of sessions is that of the slots.
StartRequest(i, v) ==
  /\ ~Busy(i) /\ starts < Len(Texts)
  /\ \A j \in Slots : j < i => Busy(j)
  /\ warm.next = 1 \/ warm.next > Len(Voices) \/ warm.next > Cap
  /\ LET r == RequestFor(v, Texts[starts + 1])
         hit == KvcHit(kvc, r.key, Prompts[r].nsys)
         a == [on |-> TRUE, req |-> r, hit |-> hit # 0, pos |-> 0, next |-> 1, inserted |-> FALSE,
               prefilling |-> TRUE, fresh |-> FALSE, heard |-> <<>>,
               sess |-> IF hit = 0 THEN NewSession
                        ELSE KvLoad(NewSession, kvc.entries[hit].blob)]
     IN  /\ kvc' = IF hit = 0 THEN kvc ELSE KvcTouch(kvc, hit)
         /\ act' \in {[act EXCEPT ![i] = a]} \cup (IF Faults THEN {act} ELSE {})
  /\ starts' = starts + 1
  /\ UNCHANGED <<pfChunk, warm, rr, slab, graphs, refused>>

ChunkEnd_Raw(p, from) == IF from + pfChunk > Len(p.ids) THEN Len(p.ids) ELSE from + pfChunk

\* The end of a chunk, moved past the run of codes it would cut.
ChunkEnd(p, from) ==
  LET b == IF from + pfChunk > Len(p.ids) THEN Len(p.ids) ELSE from + pfChunk
  IN  CHOOSE c \in b .. Len(p.ids) :
        /\ \A j \in b + 1 .. c : p.mask[j]
        /\ c = Len(p.ids) \/ ~p.mask[c + 1]

\* The tokens of plan p up to b, for session i.
Chunk(i, a, p, b) ==
  LET np == Cardinality({q \in a.next .. Len(p.parts) : PartStarts(p.mask, p.parts)[q] <= b})
      ids == SubSeq(p.ids, a.pos + 1, b)
      mask == SubSeq(p.mask, a.pos + 1, b)
      parts == SubSeq(p.parts, a.next, a.next + np - 1)
      s == Prefill(a.sess, ids, mask, parts)
      snap == ~a.inserted /\ p.nsys > 0 /\ b >= p.nsys
  IN  \/ /\ PrefillOk(a.sess, ids, mask, parts)
         /\ kvc' \in IF snap THEN KvcInsert(kvc, a.req.key, p.nsys, s) ELSE {kvc}
         /\ act' = [act EXCEPT ![i] =
                      [a EXCEPT !.sess = s, !.pos = b, !.next = @ + np,
                                !.inserted = @ \/ snap,
                                !.prefilling = b < Len(p.ids),
                                !.fresh = b = Len(p.ids)]]
         /\ UNCHANGED refused
      \/ /\ ~PrefillOk(a.sess, ids, mask, parts)
         /\ act' = Retired({i}) /\ refused' = refused \cup {a.req}
         /\ UNCHANGED kvc
      \/ Faults /\ act' = Retired({i}) /\ UNCHANGED <<kvc, refused>>

\* One chunk of one joining session, the next in turn.
PrefillChunk ==
  /\ \E k \in Slots :
       LET Turn(n) == (rr + n) % NSlots
           Joining(n) == Busy(Turn(n)) /\ act[Turn(n)].prefilling
           i == Turn(k)
           p == Plan(act[i])
       IN  /\ Joining(k) /\ \A n \in Slots : n < k => ~Joining(n)
           /\ rr' = (i + 1) % NSlots
           /\ Chunk(i, act[i], p, ChunkEnd(p, act[i].pos))
  /\ UNCHANGED <<pfChunk, warm, slab, graphs, starts>>

\* A decode of the sessions in S, its results handled slot by slot: a session
\* at its end, or at the frame cap, is retired.
Decode(S) ==
  \E dec \in InOrder(DecodeRows(S)), new \in InOrder(FirstRows(S)) :
    \/ \E eos \in SUBSET (1 .. Len(dec) + Len(new)) :
         LET f == BatchNextFrame(S, dec, new, eos)
             Over(i) == \/ f.act[i].sess.st = "FINISHED"
                        \/ Len(f.act[i].heard) >= FrameCap
         IN  /\ act' = [i \in Slots |-> IF i \notin S THEN act[i]
                                       ELSE IF Over(i) THEN Free
                                       ELSE [f.act[i] EXCEPT !.fresh = FALSE]]
             /\ slab' = f.slab /\ graphs' = f.graphs
    \* the GPU fails: before, while or after a graph is captured
    \/ /\ Faults /\ act' = Retired(S)
       /\ UNCHANGED slab
       /\ graphs' \in {graphs, BatchNextFrame(S, dec, new, {}).graphs}

\* A session's first frame is stepped alone.
FirstFrame(i) ==
  /\ Busy(i) /\ act[i].fresh
  /\ Decode({i})
  /\ UNCHANGED <<pfChunk, warm, kvc, rr, starts, refused>>

Lockstep ==
  LET S == {i \in Slots : Busy(i) /\ ~act[i].fresh /\ ~act[i].prefilling}
  IN  /\ S # {} /\ \A i \in Slots : Busy(i) => ~act[i].fresh
      /\ Decode(S)
      /\ UNCHANGED <<pfChunk, warm, kvc, rr, starts, refused>>

\* The client cancels or goes; the session is retired at its next handling.
Gone(i) ==
  /\ Busy(i) /\ ~act[i].prefilling /\ ~act[i].fresh
  /\ act' = Retired({i})
  /\ UNCHANGED <<pfChunk, warm, kvc, rr, slab, graphs, starts, refused>>

Next ==
  \/ WarmVoice \/ PrefillChunk \/ Lockstep
  \/ \E i \in Slots : FirstFrame(i) \/ Gone(i)
  \/ \E i \in Slots, v \in ToSet(Voices) \cup Others : StartRequest(i, v)

Spec == Init /\ [][Next]_vars

-----------------------------------------------------------------------------
(* Properties.                                                              *)

TypeOK ==
  /\ pfChunk \in PfChunks /\ rr \in Slots /\ starts \in 0 .. Len(Texts)
  /\ graphs \in [1 .. NSlots -> 0 .. NSplits(Ctx)]
  /\ warm.next \in 1 .. Len(Voices) + 1 /\ warm.ok \subseteq ToSet(Voices)
  /\ Len(kvc.entries) = Cap
  /\ \A i \in Slots : Busy(i) =>
       /\ act[i].sess.st \in {"NEW", "PREFILLED", "DECODING"}
       /\ Len(act[i].sess.kv) <= Ctx
       /\ ~(act[i].prefilling /\ act[i].fresh)

\* The rows of the whole prompts, prefilled at once.
PromptRows ==
  [r \in DOMAIN Prompts |->
     LET p == Prompts[r]
         at == PartStarts(p.mask, p.parts)
     IN  [j \in DOMAIN p.ids |->
            RowOf(p.ids[j],
                  IF p.mask[j] THEN Column(p.parts[1], j - at[1] + 1) ELSE <<>>)]]

\* The rows of the frames a session has fed back.
FrameRows(a) == [k \in 1 .. Len(a.heard) - 1 |-> RowOf(<<"sem", a.heard[k][1]>>, a.heard[k])]

\* A session's cache holds its own prompt, as far as it is prefilled, and
\* then its own frames: whatever the size of the chunks, whether the voice's
\* prefix was computed or loaded, and whatever was evicted meanwhile.
KvIsPrompt ==
  \A i \in Slots : Busy(i) =>
    LET a == act[i]
        p == Prompts[a.req]
        whole == PromptRows[a.req]
    IN  a.sess.kv = IF a.prefilling
                      THEN SubSeq(whole, 1, a.pos + (IF a.hit THEN p.nsys ELSE 0))
                      ELSE whole \o FrameRows(a)

\* The frames delivered to a client were computed from its own text, one for
\* every position after its prompt: no row of a batch is mistaken for
\* another, no cache of the fast decoder is read from an earlier frame, and
\* a replayed graph attends to all of a session's rows, however long.
FramesAreOwn ==
  \A i \in Slots : Busy(i) =>
    LET n == Len(Prompts[act[i].req].ids)
    IN  act[i].heard = [k \in DOMAIN act[i].heard |-> FrameOf(<<act[i].req.text, n + k - 1>>)]

\* A request is refused by the model only if its prompt does not fit the
\* context, or a chunk with its reference not the scratch memory: a chunk
\* never cuts a reference, a part is never given twice or forgotten.
OnlyTooLongRefused ==
  \A r \in refused :
    LET p == Prompts[r]
        run == Cardinality({j \in DOMAIN p.mask : p.mask[j]})
    IN  Len(p.ids) > Ctx - 1 \/ run + pfChunk > ScratchRows

\* "sized for the whole registry so caches stay warm": once every voice was
\* warmed, and the cache has room for all, no request of a named voice
\* prefills its system block again.
WarmStaysWarm ==
  warm.ok = ToSet(Voices) =>
    \A i \in Slots : Busy(i) /\ act[i].req.key # "" => act[i].hit
=============================================================================
