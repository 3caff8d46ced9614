------------------------------- MODULE Sampler -------------------------------
(* The semantic sampler, twice: s2ps_sample on the host (sampling.c) and     *)
(* k_sample, its "exact port" with 128 threads a row (kernels.cu).  Logits   *)
(* are integers, even where a penalty divides them; the exponential is a     *)
(* power of two, so that every sum is exact.  A draw may return any          *)
(* candidate that was not masked: the generators are left out.               *)
EXTENDS Integers, Sequences, FiniteSets, SequencesExt

CONSTANTS
  NSem,       \* S2PS_N_SEM
  TopK,       \* S2PS_TOP_K
  MaxWindow,  \* S2PS_MAX_WINDOW
  DefWindow,  \* S2PS_DEF_WINDOW
  RasTopP,    \* S2PS_RAS_TOP_P, in percent
  Levels,     \* k_sample runs 2^Levels threads a row
  Spread      \* bound: the largest difference of two logits

ASSUME SamplerConstants ==
  /\ {NSem, TopK, MaxWindow, DefWindow, Spread} \subseteq Nat \ {0} /\ Levels \in Nat
  /\ TopK <= NSem + 1 /\ DefWindow <= MaxWindow /\ RasTopP \in 1 .. 100

Eos == NSem
Cands == 0 .. NSem
Zeroed == -1    \* the token of a zeroed entry of prev: no candidate

\* s2ps_sampler_init: temperature 0 is greedy.
SamplerInit(cfg) ==
  LET w == IF cfg.window > 0 THEN cfg.window ELSE DefWindow
  IN  [temp   |-> IF cfg.temp < 0 THEN 0 ELSE cfg.temp,
       topp   |-> IF cfg.topp \in 1 .. 100 THEN cfg.topp ELSE 100,
       pen    |-> IF cfg.pen > 0 THEN cfg.pen ELSE 1,
       window |-> IF w > MaxWindow THEN MaxWindow ELSE w,
       prev   |-> [k \in 1 .. MaxWindow |-> Zeroed],
       count  |-> 0]

Capped(sp) == IF sp.count < sp.window THEN sp.count ELSE sp.window

\* A duplicate among the last four of the window.
UseRas(sp) ==
  /\ sp.temp # 0 /\ Capped(sp) >= 4
  /\ \E a, b \in Capped(sp) - 3 .. Capped(sp) : a # b /\ sp.prev[a] = sp.prev[b]

TopP(sp) == IF UseRas(sp) THEN RasTopP ELSE sp.topp

PenalisedOnce(v, pen) == IF v < 0 THEN v * pen ELSE v \div pen

\* Faulty variant: a token is penalised once for every time it was drawn.
Penalised_InPlace(sp, cand) ==
  FoldLeft(LAMBDA c, tok : IF tok \in Cands
                             THEN [c EXCEPT ![tok] = PenalisedOnce(@, sp.pen)] ELSE c,
           cand, SubSeq(sp.prev, 1, Capped(sp)))

\* Originals are gathered first, then scattered.
Penalised(sp, cand) ==
  [c \in Cands |-> IF \E k \in 1 .. Capped(sp) : sp.prev[k] = c
                     THEN PenalisedOnce(cand[c], sp.pen) ELSE cand[c]]

-----------------------------------------------------------------------------
(* The candidates that are kept, best first.                                *)

\* The host inserts them one by one into a full or growing list.
HostTop(cand) ==
  LET Insert(top, i) ==
        IF Len(top) = TopK /\ cand[i] <= cand[Last(top)] THEN top
        ELSE LET kept == IF Len(top) = TopK THEN Front(top) ELSE top
                 p == Len(SelectSeq(kept, LAMBDA j : cand[i] <= cand[j]))
             IN  InsertAt(kept, p + 1, i)
  IN  FoldLeft(Insert, <<>>, [k \in 1 .. NSem + 1 |-> k - 1])

NThreads == 2 ^ Levels
NegInf == -1000   \* below every logit
Better(a, b) == a.v > b.v \/ (a.v = b.v /\ a.i < b.i)
BetterOf(a, b) == IF Better(b, a) THEN b ELSE a

\* The device finds a maximum TopK times: each thread over its stride, then
\* a tree over the threads.
DeviceTop(cand) ==
  LET ThreadBest(c, t) ==
        FoldLeft(LAMBDA best, i : BetterOf(best, [v |-> c[i], i |-> i]),
                 [v |-> NegInf, i |-> NSem + 1],
                 SelectSeq([k \in 1 .. NSem + 1 |-> k - 1], LAMBDA i : i % NThreads = t))
      Halve(r, level) ==
        LET off == 2 ^ (Levels - level)
        IN  [t \in DOMAIN r |-> IF t < off THEN BetterOf(r[t], r[t + off]) ELSE r[t]]
      Best(c) == FoldLeft(Halve, [t \in 0 .. NThreads - 1 |-> ThreadBest(c, t)],
                          [level \in 1 .. Levels |-> level])[0]
      Take(a, k) == LET b == Best(a.cand)
                    IN  [cand |-> [a.cand EXCEPT ![b.i] = NegInf], top |-> Append(a.top, b.i)]
  IN  FoldLeft(Take, [cand |-> cand, top |-> <<>>], [k \in 1 .. TopK |-> k]).top

-----------------------------------------------------------------------------
(* One draw.                                                                *)

Exp(d) == 2 ^ (Spread + d)

\* Ranks whose cumulated mass, themselves included, stays within top_p of
\* the softmax without temperature; rank 1 always.
Unmasked(cand, top, topp) ==
  LET e == [j \in DOMAIN top |-> Exp(cand[top[j]] - cand[top[1]])]
      Mass(k) == FoldLeft(LAMBDA s, x : s + x, 0, SubSeq(e, 1, k))
  IN  {j \in DOMAIN top : j = 1 \/ 100 * Mass(j) <= topp * Mass(Len(top))}

Drawable(sp, cand, top) ==
  IF sp.temp = 0 THEN {top[1]} ELSE {top[j] : j \in Unmasked(cand, top, TopP(sp))}

\* The history after a draw: the end of the text leaves no trace.
Advance(sp, c) ==
  IF c = Eos THEN sp
  ELSE IF sp.count < sp.window THEN [sp EXCEPT !.prev[sp.count + 1] = c, !.count = @ + 1]
  ELSE [sp EXCEPT !.prev = [k \in DOMAIN @ |-> IF k < sp.window THEN @[k + 1]
                                               ELSE IF k = sp.window THEN c ELSE @[k]],
                  !.count = @ + 1]

\* s2ps_sample
HostSample(sp, cand) ==
  LET c == Penalised(sp, cand) IN Drawable(sp, c, HostTop(c))

\* k_sample
DeviceSample(sp, cand) ==
  LET c == Penalised(sp, cand) IN Drawable(sp, c, DeviceTop(c))

-----------------------------------------------------------------------------
(* What a draw should be, from everything the session has sampled.          *)

LastOf(h, n) == SubSeq(h, Len(h) - (IF Len(h) < n THEN Len(h) ELSE n) + 1, Len(h))

\* Candidates a draw may return after the draws h: those of the TopK best,
\* after each recent token was penalised once, that the better ones leave
\* room for.
ReferenceChoices(cfg, h, cand) ==
  LET sp == SamplerInit(cfg)
      recent == LastOf(h, sp.window)
      last4 == LastOf(recent, 4)
      ras == sp.temp # 0 /\ Len(last4) = 4 /\ Cardinality(ToSet(last4)) < 4
      v == [c \in Cands |-> IF c \in ToSet(recent) THEN PenalisedOnce(cand[c], sp.pen)
                            ELSE cand[c]]
      Above(c) == {b \in Cands : v[b] > v[c] \/ (v[b] = v[c] /\ b < c)}
      top == {c \in Cands : Cardinality(Above(c)) < TopK}
      best == CHOOSE c \in Cands : Above(c) = {}
      Mass(S) == FoldLeft(LAMBDA s, c : s + Exp(v[c] - v[best]), 0, SetToSeq(S))
  IN  IF sp.temp = 0 THEN {best}
      ELSE {c \in top : \/ c = best
                        \/ 100 * Mass(Above(c) \cup {c})
                             <= (IF ras THEN RasTopP ELSE sp.topp) * Mass(top)}

\* After any draws h the host and the device may return the same candidates,
\* and those of the reference.
SamplerExact(cfg, h, cand) ==
  LET sp == FoldLeft(Advance, SamplerInit(cfg), h)
      spoken == SelectSeq(h, LAMBDA c : c # Eos)
  IN  /\ HostSample(sp, cand) = ReferenceChoices(cfg, spoken, cand)
      /\ DeviceSample(sp, cand) = HostSample(sp, cand)
=============================================================================
