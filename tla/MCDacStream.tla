---------------------------- MODULE MCDacStream -----------------------------
(* Instances of DacStream for TLC, together with the decoder it streams.    *)
EXTENDS DacStream, SequencesExt

(* A column is a number modulo a prime.  Every layer mixes it in a way of   *)
(* its own that no two windows of different columns, or in another order,   *)
(* are likely to share.                                                     *)
Prime == 97
LayerNames ==
  <<"rvq", "norm", "conv0", "convf", "tanh", "dec_alpha", "up_t0", "up_t1", "attn_norm",
    "q", "k", "v", "wo", "ffn", "cnx", "pw", "ru", "alpha0", "c1", "up", "alpha">>
Number == [n \in {LayerNames[j] : j \in DOMAIN LayerNames} |->
             CHOOSE j \in DOMAIN LayerNames : LayerNames[j] = n]
Id(l) == FoldLeft(LAMBDA a, b : 31 * (a + b), Number[l[1]], Tail(l))
MCKernel(id, w) ==
  FoldLeft(LAMBDA a, kk : (a + (3 * kk + 5 * id[2] + Id(id[1]) + 1) * w[kk]) % Prime,
           Id(id[1]), [j \in 1 .. Cardinality(DOMAIN w) |-> j - 1])
MCRow(l, x) == (x * x + 7 * x + Id(l)) % Prime
MCAttend(q, k, v) ==
  FoldLeft(LAMBDA a, j : (a * 2 + (1 + q * k[j]) * v[j]) % Prime, 0, [j \in 1 .. Len(k) |-> j])
MCRope(x, pos) == (x * (pos + 2)) % Prime
MCPlus(x, y) == (x + y) % Prime

D == INSTANCE DacDecoder WITH
       Kernel <- MCKernel, Row <- MCRow, Attend <- MCAttend, Rope <- MCRope, Plus <- MCPlus,
       Zero <- 0, CbSize <- 2, Window <- 3, Layers <- 2, Taps <- 3,
       Dils <- <<1, 2>>, Strides <- <<2, 1>>

ASSUME PureConstants == D!DecoderConstants

(* Five frames, one of them with a code out of range, in every cut into     *)
(* pushes, each of them alone or in a batch.                                *)
MCCodes == <<1, 0, 1, 3, -1>>
MCCuts == {c \in UNION {[1 .. n -> 1 .. 5] : n \in 1 .. 5} :
             FoldLeft(LAMBDA a, b : a + b, 0, c) = 5}
Pushes(cut, batched) ==
  LET First(i) == 1 + FoldLeft(LAMBDA a, b : a + b, 0, SubSeq(cut, 1, i - 1))
  IN  [i \in DOMAIN cut |->
         [codes |-> SubSeq(MCCodes, First(i), First(i) + cut[i] - 1), batched |-> batched[i]]]

EveryCutIsWhole ==
  \A cut \in MCCuts : \A batched \in [DOMAIN cut -> BOOLEAN] :
    D!StreamedIsWhole(Pushes(cut, batched))

\* It does not depend on the state: the first steps are enough.
StreamedIsWhole == [][Init => EveryCutIsWhole]_vars
=============================================================================
