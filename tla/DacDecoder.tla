------------------------------ MODULE DacDecoder ------------------------------
(* The two decoders of the vocoder: s2p_dac_decode runs every layer over    *)
(* the whole sequence of frames (dac.c); the incremental engine runs every  *)
(* layer over the new columns only and keeps, layer by layer, as much of    *)
(* its own input as the next columns will read (stream_inc.c).  The code    *)
(* promises the same samples bit for bit.                                   *)
(*                                                                          *)
(* A column is one value: what a layer computes from a column, or from a    *)
(* window of columns, is a constant operator, the same in both decoders, so *)
(* the only thing left to get wrong is WHICH columns a layer reads.         *)
EXTENDS Integers, Sequences, SequencesExt

CONSTANTS
  Kernel(_, _),    \* <<layer, phase>>, window of columns -> column
  Row(_, _),       \* what a layer does to one column alone
  Attend(_, _, _), \* query, window of keys, window of values -> column
  Rope(_, _),      \* the rotation of a column at an absolute position
  Plus(_, _),      \* residual addition
  Zero,            \* the column of zeros
  CbSize,          \* entries of a codebook
  Window,          \* attention window of post_module (INC_WINDOW)
  Layers,          \* its number of layers
  Taps,            \* width of the causal convolutions
  Dils,            \* dilations of the residual units of a block
  Strides          \* strides of the decoder blocks

\* What an instance assumes of its constants.
DecoderConstants ==
  /\ Window \in Nat \ {0} /\ Layers \in Nat /\ Taps \in Nat \ {0}
  /\ Dils \in Seq(Nat \ {0}) /\ Strides \in Seq(Nat \ {0})
  /\ Len(Strides) % 2 = 0 \* push_batch ends in the buffer it began with

-----------------------------------------------------------------------------
(* The kernels.  Columns are numbered from 0 in the code, from 1 here.      *)

UpTo(n) == [i \in 1 .. n |-> i]

\* The columns 1 .. n, computed once (a plain function is computed again at
\* every use).
Columns(n, Col(_)) == <<>> \o [t \in 1 .. n |-> Col(t)]

Tap(x, ti) == IF ti \in 1 .. Len(x) THEN x[ti] ELSE Zero

Conv(l, x, dil, leftpad, tout) ==
  Columns(tout, LAMBDA to :
    Kernel(<<l, 0>>, [kk \in 0 .. Taps - 1 |-> Tap(x, to - leftpad + kk * dil)]))

\* Output column to reads the columns j and j - 1 (a kernel is two strides
\* wide), with the weights of its phase.
TConv(l, x, stride, tout) ==
  Columns(tout, LAMBDA to :
    LET j == 1 + (to - 1) \div stride
    IN  Kernel(<<l, (to - 1) % stride>>, [m \in 0 .. 1 |-> Tap(x, j - m)]))

\* tconv k2 s2: every output column reads one input column.
Upsample(l, x) ==
  Columns(2 * Len(x), LAMBDA to :
    Kernel(<<l, (to - 1) % 2>>, [m \in 0 .. 0 |-> x[1 + (to - 1) \div 2]]))

\* Query j sits at row hl + j of the keys and attends the window ending there.
Sdpa(q, k, v, hl) ==
  Columns(Len(q), LAMBDA j :
    LET tq == hl + j
        ks == IF tq - Window + 1 < 1 THEN 1 ELSE tq - Window + 1
    IN  Attend(q[j], SubSeq(k, ks, tq), SubSeq(v, ks, tq)))

\* RoPE of new rows, the first of them at absolute position pos.
RopeOff(x, pos) == Columns(Len(x), LAMBDA t : Rope(x[t], pos + t - 1))

EachRow(l, x) == Columns(Len(x), LAMBDA t : Row(l, x[t]))

AddIp(x, y) == Columns(Len(x), LAMBDA t : Plus(x[t], y[t]))

Clamp(v) == IF v < 0 THEN 0 ELSE IF v > CbSize - 1 THEN CbSize - 1 ELSE v

RvqFromIndices(codes) == Columns(Len(codes), LAMBDA t : Row(<<"rvq">>, Clamp(codes[t])))

-----------------------------------------------------------------------------
(* The whole-buffer decoder.                                                *)

TfLayer(l, x) ==
  LET n == EachRow(<<"attn_norm", l>>, x)
      q == RopeOff(EachRow(<<"q", l>>, n), 0)
      k == RopeOff(EachRow(<<"k", l>>, n), 0)
      a == Sdpa(q, k, EachRow(<<"v", l>>, n), 0)
      y == AddIp(x, EachRow(<<"wo", l>>, a))
  IN  AddIp(y, EachRow(<<"ffn", l>>, y))

RunTf(x) ==
  EachRow(<<"norm">>, FoldLeft(LAMBDA y, l : TfLayer(l, y), x, UpTo(Layers)))

RunCnx(i, x) ==
  LET dw == Conv(<<"cnx", i>>, x, 1, Taps - 1, Len(x))
  IN  AddIp(x, EachRow(<<"pw", i>>, dw))

RunRu(i, r, x) ==
  LET c7 == Conv(<<"ru", i, r>>, EachRow(<<"alpha0", i, r>>, x), Dils[r],
                 (Taps - 1) * Dils[r], Len(x))
  IN  AddIp(x, EachRow(<<"c1", i, r>>, c7))

RunDecoderStack(x) ==
  LET Block(y, i) ==
        FoldLeft(LAMBDA z, r : RunRu(i, r, z),
                 TConv(<<"up", i>>, EachRow(<<"alpha", i>>, y), Strides[i],
                       Len(y) * Strides[i]),
                 UpTo(Len(Dils)))
      c0 == Conv(<<"conv0">>, x, 1, Taps - 1, Len(x))
      y == FoldLeft(Block, c0, UpTo(Len(Strides)))
  IN  EachRow(<<"tanh">>, Conv(<<"convf">>, EachRow(<<"dec_alpha">>, y), 1, Taps - 1, Len(y)))

\* s2p_dac_decode
Decode(codes) ==
  LET x == RunTf(RvqFromIndices(codes))
      y == RunCnx(1, Upsample(<<"up_t0">>, x))
  IN  RunDecoderStack(RunCnx(2, Upsample(<<"up_t1">>, y)))

-----------------------------------------------------------------------------
(* The incremental engine.  A history holds the columns a layer read last;  *)
(* it starts as zeros, which are the padding of the whole-buffer kernel.    *)

HistInit(len) == Columns(len, LAMBDA i : Zero)

IncCreate ==
  [pos |-> 0,
   kh  |-> [l \in 1 .. Layers |-> <<>>],
   vh  |-> [l \in 1 .. Layers |-> <<>>],
   cnx |-> [i \in 1 .. 2 |-> HistInit(Taps - 1)],
   c0  |-> HistInit(Taps - 1),
   up  |-> [i \in 1 .. Len(Strides) |-> HistInit(1)],
   ru  |-> [i \in 1 .. Len(Strides) |->
              [r \in 1 .. Len(Dils) |-> HistInit((Taps - 1) * Dils[r])]],
   cf  |-> HistInit(Taps - 1)]

ExtBuild(h, new) == h \o new

HistUpdate_Short(ext, tn) == SubSeq(ext, tn, Len(ext) - 1)

\* The last columns of ext, as many as the history has.
HistUpdate(ext, tn) == SubSeq(ext, tn + 1, Len(ext))

\* A causal convolution over [history | new columns].
ConvHist(l, h, dil, x) ==
  LET ext == ExtBuild(h, x)
  IN  [out |-> Conv(l, ext, dil, 0, Len(x)), hist |-> HistUpdate(ext, Len(x))]

IncCnx(i, h, x) ==
  LET dw == ConvHist(<<"cnx", i>>, h, 1, x)
  IN  [out |-> AddIp(x, EachRow(<<"pw", i>>, dw.out)), hist |-> dw.hist]

\* The last Window - 1 rows of keys or values (INC_KVHIST).
Retain(rows) ==
  LET keep == IF Len(rows) < Window - 1 THEN Len(rows) ELSE Window - 1
  IN  SubSeq(rows, Len(rows) - keep + 1, Len(rows))

IncPostLayer(s, l, x) ==
  LET n == EachRow(<<"attn_norm", l>>, x)
      hl == Len(s.kh[l])
      q == RopeOff(EachRow(<<"q", l>>, n), s.pos)
      k == s.kh[l] \o RopeOff(EachRow(<<"k", l>>, n), s.pos)
      v == s.vh[l] \o EachRow(<<"v", l>>, n)
      y == AddIp(x, EachRow(<<"wo", l>>, Sdpa(q, k, v, hl)))
  IN  [x |-> AddIp(y, EachRow(<<"ffn", l>>, y)),
       s |-> [s EXCEPT !.kh[l] = Retain(k), !.vh[l] = Retain(v)]]

IncPost(s, x) ==
  LET p == FoldLeft(LAMBDA a, l : IncPostLayer(a.s, l, a.x), [x |-> x, s |-> s],
                    UpTo(Layers))
  IN  [p EXCEPT !.x = EachRow(<<"norm">>, @)]

\* Everything up to the decoder blocks: the same in a push and in a batch.
IncFront(s, codes) ==
  LET p  == IncPost(s, RvqFromIndices(codes))
      c1 == IncCnx(1, s.cnx[1], Upsample(<<"up_t0">>, p.x))
      c2 == IncCnx(2, s.cnx[2], Upsample(<<"up_t1">>, c1.out))
      d  == ConvHist(<<"conv0">>, s.c0, 1, c2.out)
  IN  [y |-> d.out,
       s |-> [p.s EXCEPT !.cnx = <<c1.hist, c2.hist>>, !.c0 = d.hist]]

\* The upsampler of a block runs the whole-buffer kernel over [context
\* column | new columns] and drops the outputs of the context column.
IncUp(s, i, y) ==
  LET ext == ExtBuild(s.up[i], EachRow(<<"alpha", i>>, y))
      lo  == Len(y) * Strides[i]
      raw == TConv(<<"up", i>>, ext, Strides[i], lo + Strides[i])
  IN  [x |-> SubSeq(raw, Strides[i] + 1, Len(raw)),
       s |-> [s EXCEPT !.up[i] = HistUpdate(ext, Len(y))]]

IncRu(b, i, r) ==
  LET c7 == ConvHist(<<"ru", i, r>>, b.s.ru[i][r], Dils[r],
                     EachRow(<<"alpha0", i, r>>, b.x))
  IN  [x |-> AddIp(b.x, EachRow(<<"c1", i, r>>, c7.out)),
       s |-> [b.s EXCEPT !.ru[i][r] = c7.hist]]

IncBlock(s, i, y) ==
  FoldLeft(LAMBDA b, r : IncRu(b, i, r), IncUp(s, i, y), UpTo(Len(Dils)))

\* The final convolution; the stream has advanced by tn frames.
IncTail(s, y, tn) ==
  LET c == ConvHist(<<"convf">>, s.cf, 1, EachRow(<<"dec_alpha">>, y))
  IN  [pcm |-> EachRow(<<"tanh">>, c.out),
       s   |-> [s EXCEPT !.cf = c.hist, !.pos = @ + tn]]

\* s2pd_inc_push_async: x and y swap after every block.
IncPush(s, codes) ==
  LET Block(b, i) == IncBlock(b.s, i, b.x)
      f == IncFront(s, codes)
      b == FoldLeft(Block, [x |-> f.y, s |-> f.s], UpTo(Len(Strides)))
  IN  IncTail(b.s, b.x, Len(codes))

\* s2pd_inc_push_batch, for one of its sessions: the buffers are fixed, par
\* says which of them holds the input of a block, and the tail reads by.
IncPushBatch(s, codes) ==
  LET Block(b, i) ==
        LET o == IncBlock(b.s, i, IF b.par = 1 THEN b.bx ELSE b.by)
        IN  IF b.par = 1 THEN [b EXCEPT !.by = o.x, !.s = o.s, !.par = 0]
                         ELSE [b EXCEPT !.bx = o.x, !.s = o.s, !.par = 1]
      f == IncFront(s, codes)
      b == FoldLeft(Block, [bx |-> <<>>, by |-> f.y, s |-> f.s, par |-> 0],
                    UpTo(Len(Strides)))
  IN  IncTail(b.s, b.by, Len(codes))

\* A stream's life: pushes of [codes, batched], one after the other.
StreamDecode(pushes) ==
  LET Push(a, p) ==
        LET o == IF p.batched THEN IncPushBatch(a.s, p.codes) ELSE IncPush(a.s, p.codes)
        IN  [s |-> o.s, pcm |-> a.pcm \o o.pcm]
  IN  FoldLeft(Push, [s |-> IncCreate, pcm |-> <<>>], pushes).pcm

-----------------------------------------------------------------------------
(* stream_inc.c: "the streamed PCM equals s2p_dac_decode of the full        *)
(* sequence bit for bit", however the frames are grouped into pushes, and   *)
(* whether a push went alone or in a batch with other sessions.             *)
StreamedIsWhole(pushes) ==
  StreamDecode(pushes) = Decode(FlattenSeq([i \in 1 .. Len(pushes) |-> pushes[i].codes]))
=============================================================================
