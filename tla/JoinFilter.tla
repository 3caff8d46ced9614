----------------------------- MODULE JoinFilter ------------------------------
(* The filter at the joins of a long-form response (gap_feed, gap_boundary  *)
(* of src/http/http.c): the silence around a join is replaced by a gap of   *)
(* a given length.  ChunkChain decides which audio passes here and in which *)
(* order; this module is about the samples.                                 *)
EXTENDS Integers, Sequences, SequencesExt

CONSTANTS
  Takes,  \* the responses filtered: the chunks of one, each a sequence of
          \* buffers, each a sequence of samples
  Hold,   \* GAP_HOLD_SAMPLES
  LeadMax, \* GAP_LEAD_MAX
  Gap     \* gap_ms, in samples

\* What an instance assumes of its constants.
FilterConstants == Hold \in Nat /\ Hold % 2 = 0 /\ LeadMax \in Nat /\ Gap \in Nat

\* A sample is 0 when it is no louder than GAP_SIL_PEAK; any other tells
\* itself apart.
Silent(x) == x = 0

\* sil_lead, sil_tail: the scan of 10 ms at a time finds the same sample.
SilLead(p) ==
  LET loud == {i \in 1 .. Len(p) : ~Silent(p[i])}
  IN  IF loud = {} THEN Len(p) ELSE (CHOOSE i \in loud : \A j \in loud : i <= j) - 1

SilTail(p) == SilLead(Reverse(p))

Start(buffered) ==
  [buffered |-> buffered, hold |-> <<>>, skip |-> FALSE, skipped |-> 0, wire |-> <<>>]

Emit(c, p) == [c EXCEPT !.wire = @ \o p]

Drop(p, n) == SubSeq(p, n + 1, Len(p))

\* The oldest half is forwarded when the window is full, the newest held.
RECURSIVE HoldBack(_, _)
HoldBack(c, p) ==
  IF p = <<>> THEN c
  ELSE IF Len(c.hold) = Hold THEN
    HoldBack([Emit(c, SubSeq(c.hold, 1, Hold \div 2)) EXCEPT !.hold = Drop(@, Hold \div 2)], p)
  ELSE LET room == Hold - Len(c.hold)
           take == IF Len(p) < room THEN Len(p) ELSE room
       IN  HoldBack([c EXCEPT !.hold = @ \o SubSeq(p, 1, take)], Drop(p, take))

\* Faulty variant: the skip is over after the first buffer of the chunk.
Trimmed_Once(c, p) ==
  LET lead == IF SilLead(p) < LeadMax THEN SilLead(p) ELSE LeadMax
  IN  [c |-> [c EXCEPT !.skip = FALSE], p |-> Drop(p, lead)]

\* The leading silence of a later chunk is dropped, up to a budget that its
\* buffers share.
Trimmed(c, p) ==
  LET budget == LeadMax - c.skipped
      lead == IF SilLead(p) < budget THEN SilLead(p) ELSE budget
  IN  [c |-> [c EXCEPT !.skipped = @ + lead,
                       !.skip = Len(p) = lead /\ c.skipped + lead < LeadMax],
       p |-> Drop(p, lead)]

\* The window is for buffered responses only.
GapFeed(c, p) ==
  LET t == IF c.skip THEN Trimmed(c, p) ELSE [c |-> c, p |-> p]
  IN  IF c.buffered THEN HoldBack(t.c, t.p) ELSE Emit(t.c, t.p)

\* A chunk that is not the last one has ended.
GapBoundary(c) ==
  LET kept == SubSeq(c.hold, 1, Len(c.hold) - SilTail(c.hold))
      d == IF c.buffered THEN [Emit(c, kept) EXCEPT !.hold = <<>>] ELSE c
  IN  [Emit(d, [i \in 1 .. Gap |-> 0]) EXCEPT !.skip = TRUE, !.skipped = 0]

\* chain_advance behind the last chunk.
Close(c) == [Emit(c, c.hold) EXCEPT !.hold = <<>>]

Chunk(c, buffers) == FoldLeft(GapFeed, c, buffers)

Response(buffered, take) ==
  LET Join(c, buffers) == Chunk(GapBoundary(c), buffers)
  IN  Close(FoldLeft(Join, Chunk(Start(buffered), take[1]), Tail(take))).wire

-----------------------------------------------------------------------------
Loud(p) == SelectSeq(p, LAMBDA x : ~Silent(x))
Samples(buffers) == FlattenSeq(buffers)

\* The silence on the wire between the last loud sample of one chunk and the
\* first of the next.
Between(wire, x, y) ==
  LET Place(z) == CHOOSE i \in 1 .. Len(wire) : wire[i] = z
  IN  Place(y) - Place(x) - 1

Excess(n, bound) == IF n > bound THEN n - bound ELSE 0

(* http.c:104-117, http.c:411-420: every loud sample is heard once and in   *)
(* order, and a join is the gap alone, whatever the buffers the chunks came *)
(* in.  A chunk whose leading silence exceeds the budget keeps the rest; a  *)
(* streamed response keeps the trailing silence, and a buffered one keeps   *)
(* at most what exceeds the half window that is always held.                *)
JoinsAreTheGap ==
  \A take \in Takes, buffered \in BOOLEAN :
    LET wire == Response(buffered, take)
        pcm == [k \in 1 .. Len(take) |-> Samples(take[k])]
    IN  /\ Loud(wire) = Loud(FlattenSeq(pcm))
        /\ \A k \in 1 .. Len(take) - 1 :
             Loud(pcm[k]) # <<>> /\ Loud(pcm[k + 1]) # <<>> =>
               LET heard == Between(wire, Loud(pcm[k])[Len(Loud(pcm[k]))], Loud(pcm[k + 1])[1])
                   least == Gap + Excess(SilLead(pcm[k + 1]), LeadMax)
                   tail == SilTail(pcm[k])
               IN  IF buffered THEN heard \in least .. least + Excess(tail, Hold \div 2)
                                    /\ (tail <= Hold \div 2 => heard = least)
                   ELSE heard = least + tail
=============================================================================
