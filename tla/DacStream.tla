------------------------------ MODULE DacStream ------------------------------
(* The vocoder streams of the active sessions: frames go from the batched   *)
(* decode of the worker into a per-stream accumulator, in groups onto a     *)
(* CUDA stream, and come back one tick later as audio (scheduler.c          *)
(* handle_frame and finish_stream, stream.c, the bookkeeping of             *)
(* stream_inc.c).  The GPU runs on its own: what was enqueued happens       *)
(* later, and the worker waits for it only where the code synchronises.     *)
(* What a frame sounds like is DacDecoder's subject; here a frame is its    *)
(* number, and audio is the sequence of the frames it was made from.        *)
EXTENDS Integers, Sequences, FiniteSets

CONSTANTS
  MaxSessions, \* the session slots: 1 .. MaxSessions
  NCust,       \* size of the pool of CUDA streams (S2P_DAC_STREAMS)
  Batch,       \* frames per push (S2P_STREAM_BATCH)
  FrameCap,    \* SCHED_MAX_FRAMES
  CudaFails    \* whether an enqueue or a synchronisation may fail

ASSUME DacConstants ==
  /\ {MaxSessions, NCust, Batch, FrameCap} \subseteq Nat \ {0}
  /\ CudaFails \in BOOLEAN

Slots == 1 .. MaxSessions
Addr == 0 .. MaxSessions

VARIABLES
  batchOn,  \* S2P_DAC_BATCH, read once
  str,      \* slot -> its stream, with the worker's bookkeeping of the slot
  gpu,      \* CUDA stream -> operations enqueued and not yet run
  pin,      \* slot -> contents of the pinned result buffer pcm_pin
  table,    \* [host, dev]: the buffer tables btab_pin and btab_dev
  tick,     \* the lockstep round: slots still to handle, rows that ended,
            \* slots whose frame is not accumulated yet, streams being pushed
  hand,     \* the slot handle_frame is at, what it collected, why it ends
  heard     \* slot -> frames delivered to the client, in order

vars == <<batchOn, str, gpu, pin, table, tick, hand, heard>>

NoStream == [st |-> "none", addr |-> 0, frames |-> 0, bat |-> <<>>, flushed |-> FALSE,
             pending |-> 0]
Idle == [at |-> "idle", todo |-> {}, eos |-> {}, codes |-> {}, strs |-> {}, tn |-> 0]
Rest == [at |-> "rest", slot |-> 0, got |-> <<>>, why |-> "none"]

\* An operation for the streams of slots, each with its frames.
Op == [op : {"push", "table", "batch"}, slots : Seq(Slots), addrs : Seq(Addr),
       frames : Seq(Seq(Nat))]

StreamRec == [st : {"none", "fresh", "on"}, addr : Addr, frames : 0 .. FrameCap,
              bat : Seq(Nat), flushed : BOOLEAN, pending : 0 .. Batch]
TickRec == [at : {"idle", "rows", "batch"}, todo : SUBSET Slots, eos : SUBSET Slots,
            codes : SUBSET Slots, strs : SUBSET Slots, tn : 0 .. Batch + 1]
HandRec == [at : {"rest", "frame", "push", "eager", "deliver", "finish", "tail", "last",
                  "retire"},
            slot : Addr, got : Seq(Nat),
            why : {"none", "eos", "gone", "cap", "cuda", "state"}]

Init ==
  /\ batchOn \in BOOLEAN
  /\ str = [i \in Slots |-> NoStream]
  /\ gpu = [c \in 0 .. NCust - 1 |-> <<>>]
  /\ pin = [i \in Slots |-> <<>>]
  /\ table = [host |-> <<>>, dev |-> <<>>]
  /\ tick = Idle
  /\ hand = Rest
  /\ heard = [i \in Slots |-> <<>>]

Live(i) == str[i].st # "none"

\* scheduler.c 566: the slot's CUDA stream.
Cust_Pool(i) == (i - 1) % NCust
Cust(i) == IF batchOn THEN 0 ELSE (i - 1) % NCust

-----------------------------------------------------------------------------
(* The GPU.  An operation is a push of one stream, the copy of the pinned   *)
(* table to the device, or a batched push, whose kernels find the buffers   *)
(* of every stream through the device table.                                *)

Garbage == <<0>>

\* What operation o leaves in the buffer of its n-th stream.
Result(o, n) ==
  IF o.op = "batch" /\ ~(n \in DOMAIN table.dev /\ table.dev[n] = o.addrs[n])
  THEN Garbage ELSE o.frames[n]

\* Where slot i is among the streams of o.
Places(o, i) == {n \in DOMAIN o.slots : o.slots[n] = i}

GpuStep(c) ==
  /\ gpu[c] # <<>>
  /\ LET o == Head(gpu[c]) IN
     /\ pin' = [i \in Slots |-> IF Places(o, i) = {} THEN pin[i]
                                ELSE Result(o, CHOOSE n \in Places(o, i) : TRUE)]
     /\ table' = IF o.op = "table" THEN [table EXCEPT !.dev = table.host] ELSE table
  /\ gpu' = [gpu EXCEPT ![c] = Tail(@)]
  /\ UNCHANGED <<batchOn, str, tick, hand, heard>>

\* cudaStreamSynchronize has returned: what was enqueued has run.
Synced(i) == gpu[Cust(i)] = <<>>

PushOp(i, frames) == [op |-> "push", slots |-> <<i>>, addrs |-> <<>>, frames |-> <<frames>>]

-----------------------------------------------------------------------------
(* The operations of a stream, on the slot in hand.                         *)

\* s2p_dac_stream_collect, s2pd_inc_collect: without a push in flight there
\* is nothing to wait for; else the first pending columns of the pinned
\* buffer, whatever the push left there.
Collectable(i) == str[i].pending = 0 \/ Synced(i)
Collected(i) == [k \in 1 .. str[i].pending |-> IF k \in DOMAIN pin[i] THEN pin[i][k] ELSE 0]

Target_Late(s) == IF s.flushed THEN Batch + 1 ELSE 1
Target_Batch(s) == Batch

\* The first frame is pushed alone, the others in groups.
Target(s) == IF s.flushed THEN Batch ELSE 1

Goto(at) == hand' = [hand EXCEPT !.at = at]
Retiring(why) == hand' = [hand EXCEPT !.at = "retire", !.why = why, !.got = <<>>]

\* s2pd_inc_push_async of the frames in the accumulator: a push in flight is
\* S2P_ERR_STATE.  next is where the worker goes on.
Enqueue(i, frames, next) ==
  \/ /\ str[i].pending # 0
     /\ Retiring("state")
     /\ UNCHANGED <<str, gpu>>
  \/ /\ str[i].pending = 0
     /\ gpu' = [gpu EXCEPT ![Cust(i)] = Append(@, PushOp(i, frames))]
     /\ str' = [str EXCEPT ![i].pending = Len(frames), ![i].bat = <<>>, ![i].flushed = TRUE]
     /\ Goto(next)

\* A CUDA call of this step failed.
CudaError ==
  /\ CudaFails /\ hand.at \in {"frame", "push", "eager", "finish", "tail", "last"}
  /\ Retiring("cuda")
  /\ UNCHANGED <<batchOn, str, gpu, pin, table, tick, heard>>

-----------------------------------------------------------------------------
(* handle_frame, one step a wait.                                           *)

\* A row: the text has ended, the request is cancelled or could not be
\* decoded, or there is a frame.
Handle(i, eos) ==
  /\ hand = Rest
  /\ \/ /\ eos
        /\ hand' = [Rest EXCEPT !.at = "finish", !.slot = i, !.why = "eos"]
        /\ str' = [str EXCEPT ![i].st = "on"]
     \/ /\ hand' = [Rest EXCEPT !.at = "retire", !.slot = i, !.why = "gone"]
        /\ str' = [str EXCEPT ![i].st = "on"]
     \/ /\ ~eos
        /\ hand' = [Rest EXCEPT !.at = "frame", !.slot = i]
        /\ str' = [str EXCEPT ![i].st = "on", ![i].frames = @ + 1]
  /\ UNCHANGED <<batchOn, gpu, pin, table, heard>>

\* do_push: the frame goes to the GPU here, not in the tick's batched push.
DoPush == ~batchOn \/ tick.at = "idle"

CollectFrame ==
  LET i == hand.slot IN
  /\ hand.at = "frame" /\ Collectable(i)
  /\ hand' = [hand EXCEPT !.at = IF DoPush THEN "push" ELSE "deliver", !.got = Collected(i)]
  /\ str' = [str EXCEPT ![i].pending = 0]
  /\ UNCHANGED <<batchOn, gpu, pin, table, tick, heard>>

\* s2p_dac_stream_push_async; the first frame is collected at once.
PushFrame ==
  LET i == hand.slot
      bat == Append(str[i].bat, str[i].frames)
      next == IF str[i].frames = 1 THEN "eager" ELSE "deliver"
  IN
  /\ hand.at = "push"
  /\ tick' = [tick EXCEPT !.codes = @ \ {i}]
  /\ \/ /\ Len(bat) < Target(str[i])
        /\ str' = [str EXCEPT ![i].bat = bat]
        /\ Goto(next) /\ UNCHANGED gpu
     \/ /\ Len(bat) >= Target(str[i])
        /\ Enqueue(i, bat, next)
  /\ UNCHANGED <<batchOn, pin, table, heard>>

EagerCollect ==
  LET i == hand.slot IN
  /\ hand.at = "eager" /\ Collectable(i)
  /\ hand' = [hand EXCEPT !.at = "deliver", !.got = Collected(i)]
  /\ str' = [str EXCEPT ![i].pending = 0]
  /\ UNCHANGED <<batchOn, gpu, pin, table, tick, heard>>

\* The callback may return nonzero; at the frame cap the stream is finished.
Deliver ==
  LET i == hand.slot IN
  /\ hand.at = "deliver"
  /\ heard' = [heard EXCEPT ![i] = @ \o hand.got]
  /\ \/ hand.got # <<>> /\ Retiring("gone")
     \/ str[i].frames < FrameCap /\ hand' = Rest
     \/ /\ str[i].frames >= FrameCap
        /\ hand' = [hand EXCEPT !.at = "finish", !.why = "cap", !.got = <<>>]
  /\ UNCHANGED <<batchOn, str, gpu, pin, table, tick>>

\* finish_stream: what is in flight ...
FinishCollect ==
  LET i == hand.slot IN
  /\ hand.at = "finish" /\ Collectable(i)
  /\ heard' = [heard EXCEPT ![i] = @ \o Collected(i)]
  /\ str' = [str EXCEPT ![i].pending = 0]
  /\ \/ Goto("tail")
     \/ Collected(i) # <<>> /\ Retiring("gone")
  /\ UNCHANGED <<batchOn, gpu, pin, table, tick>>

FinishTail_None ==
  /\ hand.at = "tail" /\ Goto("last")
  /\ UNCHANGED <<batchOn, str, gpu, pin, table, tick, heard>>

\* ... then s2p_dac_stream_finish: the rest of the accumulator ...
FinishTail ==
  LET i == hand.slot IN
  /\ hand.at = "tail"
  /\ \/ str[i].bat = <<>> /\ Goto("last") /\ UNCHANGED <<str, gpu>>
     \/ str[i].bat # <<>> /\ Enqueue(i, str[i].bat, "last")
  /\ UNCHANGED <<batchOn, pin, table, tick, heard>>

\* ... collected and delivered.
FinishLast ==
  LET i == hand.slot IN
  /\ hand.at = "last" /\ Collectable(i)
  /\ heard' = [heard EXCEPT ![i] = @ \o Collected(i)]
  /\ str' = [str EXCEPT ![i].pending = 0]
  /\ Goto("retire")
  /\ UNCHANGED <<batchOn, gpu, pin, table, tick>>

\* retire: wait for the slot's CUDA stream, free its buffers.
Retire ==
  LET i == hand.slot IN
  /\ hand.at = "retire" /\ Synced(i)
  /\ str' = [str EXCEPT ![i] = NoStream]
  /\ pin' = [pin EXCEPT ![i] = <<>>]
  /\ heard' = [heard EXCEPT ![i] = <<>>]
  /\ tick' = [tick EXCEPT !.codes = @ \ {i}]
  /\ hand' = Rest
  /\ UNCHANGED <<batchOn, gpu, table>>

Handler ==
  \/ CollectFrame \/ PushFrame \/ EagerCollect \/ Deliver
  \/ FinishCollect \/ FinishTail \/ FinishLast \/ Retire \/ CudaError

-----------------------------------------------------------------------------
(* The worker's round.                                                      *)

\* Admission and prefill: a new stream, whose buffers lie where there is room.
Admit(i) ==
  /\ tick = Idle /\ hand = Rest /\ ~Live(i)
  /\ \E a \in Slots :
       /\ \A j \in Slots : Live(j) => str[j].addr # a
       /\ str' = [str EXCEPT ![i] = [NoStream EXCEPT !.st = "fresh", !.addr = a]]
  /\ UNCHANGED <<batchOn, gpu, pin, table, tick, hand, heard>>

\* A session's first frame is stepped alone.
FirstFrame(i) ==
  /\ tick = Idle /\ str[i].st = "fresh"
  /\ \E eos \in BOOLEAN : Handle(i, eos)
  /\ tick' = [tick EXCEPT !.codes = IF hand'.at = "frame" THEN {i} ELSE {}]

\* s2p_model_batch_next_frame: one frame of every session, or its end.
Lockstep ==
  /\ tick = Idle /\ hand = Rest
  /\ \A i \in Slots : str[i].st # "fresh"
  /\ \E i \in Slots : Live(i)
  /\ LET active == {i \in Slots : Live(i)}
     IN  \E eos \in SUBSET active :
           tick' = [Idle EXCEPT !.at = "rows", !.todo = active, !.eos = eos]
  /\ UNCHANGED <<batchOn, str, gpu, pin, table, hand, heard>>

\* The rows of the tick, in slot order.
LockstepRow(i) ==
  /\ tick.at = "rows" /\ i \in tick.todo /\ \A j \in tick.todo : i <= j
  /\ Handle(i, i \in tick.eos)
  /\ tick' = [tick EXCEPT !.todo = @ \ {i},
                          !.codes = IF hand'.at = "frame" THEN @ \cup {i} ELSE @]

TickDone ==
  /\ tick.at = "rows" /\ tick.todo = {} /\ tick.codes = {} /\ hand = Rest
  /\ tick' = Idle
  /\ UNCHANGED <<batchOn, str, gpu, pin, table, hand, heard>>

-----------------------------------------------------------------------------
(* s2p_dac_stream_push_batch for the survivors of a tick: every stream gets *)
(* its frame; those that are full go to the GPU, streams with as many       *)
(* frames in one s2pd_inc_push_batch.                                       *)

BatchAppend ==
  /\ tick.at = "rows" /\ tick.todo = {} /\ tick.codes # {} /\ hand = Rest
  /\ str' = [i \in Slots |-> IF i \in tick.codes
                               THEN [str[i] EXCEPT !.bat = Append(@, str[i].frames)]
                               ELSE str[i]]
  /\ tick' = [Idle EXCEPT !.at = "batch", !.strs = tick.codes, !.tn = 1]
  /\ UNCHANGED <<batchOn, gpu, pin, table, hand, heard>>

\* The streams of the group that is due, in the order of their slots.
Ready == {i \in tick.strs : Len(str[i].bat) = tick.tn /\ tick.tn >= Target(str[i])}

InOrder(S) ==
  {grp \in [1 .. Cardinality(S) -> S] :
     /\ \A i \in S : \E n \in DOMAIN grp : grp[n] = i
     /\ \A m, n \in DOMAIN grp : m < n => grp[m] < grp[n]}

Addrs(grp) == [n \in DOMAIN grp |-> str[grp[n]].addr]

\* The table is uploaded only when the roster changed.
SameRoster(addrs) == table.host = addrs

TableOp == [op |-> "table", slots |-> <<>>, addrs |-> <<>>, frames |-> <<>>]
BatchOp(grp) == [op |-> "batch", slots |-> grp, addrs |-> Addrs(grp),
                 frames |-> [n \in DOMAIN grp |-> str[grp[n]].bat]]

\* One s2pd_inc_push_batch, on CUDA stream 0.
PushGroup(grp) ==
  LET addrs == Addrs(grp) IN
  \/ /\ Len(grp) = 1
     /\ gpu' = [gpu EXCEPT ![0] = Append(@, PushOp(grp[1], str[grp[1]].bat))]
     /\ UNCHANGED table
  \/ /\ Len(grp) > 1 /\ SameRoster(addrs)
     /\ gpu' = [gpu EXCEPT ![0] = Append(@, BatchOp(grp))]
     /\ UNCHANGED table
  \/ /\ Len(grp) > 1 /\ ~SameRoster(addrs)
     /\ gpu' = [gpu EXCEPT ![0] = @ \o <<TableOp, BatchOp(grp)>>]
     /\ table' = [table EXCEPT !.host = addrs]

\* A stream of the group has a push in flight: S2P_ERR_STATE.
Refused == \E i \in Ready : str[i].pending # 0

BatchGroup ==
  /\ tick.at = "batch" /\ tick.tn <= Batch
  /\ tick' = [tick EXCEPT !.tn = @ + 1]
  /\ \/ /\ Ready = {}
        /\ UNCHANGED <<str, gpu, table>>
     \/ /\ Ready # {} /\ ~Refused
        /\ \E grp \in InOrder(Ready) : PushGroup(grp)
        /\ str' = [i \in Slots |-> IF i \in Ready
                                     THEN [str[i] EXCEPT !.bat = <<>>, !.flushed = TRUE,
                                                         !.pending = tick.tn]
                                     ELSE str[i]]
  /\ UNCHANGED <<batchOn, pin, hand, heard>>

BatchDone ==
  /\ tick.at = "batch" /\ tick.tn > Batch
  /\ tick' = Idle
  /\ UNCHANGED <<batchOn, str, gpu, pin, table, hand, heard>>

\* The batched push fails, before or behind the copy of its table, and every
\* stream of the tick is closed: retire waits for CUDA stream 0.
BatchFails ==
  /\ tick.at = "batch" /\ (CudaFails \/ Refused) /\ gpu[0] = <<>>
  /\ \/ UNCHANGED table
     \/ \E grp \in InOrder(Ready) :
          Len(grp) > 1 /\ table' = [host |-> Addrs(grp), dev |-> Addrs(grp)]
  /\ str' = [i \in Slots |-> IF i \in tick.strs THEN NoStream ELSE str[i]]
  /\ pin' = [i \in Slots |-> IF i \in tick.strs THEN <<>> ELSE pin[i]]
  /\ heard' = [i \in Slots |-> IF i \in tick.strs THEN <<>> ELSE heard[i]]
  /\ tick' = Idle
  /\ UNCHANGED <<batchOn, gpu, hand>>

Next ==
  \/ \E i \in Slots : Admit(i) \/ FirstFrame(i) \/ LockstepRow(i)
  \/ Handler
  \/ Lockstep \/ TickDone \/ BatchAppend \/ BatchGroup \/ BatchDone \/ BatchFails
  \/ \E c \in 0 .. NCust - 1 : GpuStep(c)

Spec == Init /\ [][Next]_vars

-----------------------------------------------------------------------------
(* Properties.                                                              *)

Frames(m, n) == [k \in 1 .. n - m + 1 |-> m + k - 1]

\* The accumulator bat[STREAM_BATCH_MAX] never overflows, a push never
\* exceeds what the pinned buffer holds.
TypeOK ==
  /\ batchOn \in BOOLEAN
  /\ str \in [Slots -> StreamRec]
  /\ \A i \in Slots : Len(str[i].bat) < Batch \/ (Len(str[i].bat) = Batch /\ tick.at = "batch")
  /\ gpu \in [0 .. NCust - 1 -> Seq(Op)]
  /\ pin \in [Slots -> Seq(Nat)] /\ \A i \in Slots : Len(pin[i]) <= Batch
  /\ table \in [host : Seq(Addr), dev : Seq(Addr)]
  /\ tick \in TickRec /\ hand \in HandRec
  /\ heard \in [Slots -> Seq(Nat)]

\* What the worker has collected of a slot: heard, or still in its hands.
Told(i) == IF hand.slot = i THEN heard[i] \o hand.got ELSE heard[i]

\* The stream is closed without another word.
Retires(i) == hand.slot = i /\ hand.at = "retire"

\* The frame of this tick that is not in the accumulator yet.
Held(i) == IF i \in tick.codes THEN 1 ELSE 0

\* A client has heard the frames of its stream from the first on, in order
\* and undamaged, and every frame it has not heard is in flight on the GPU,
\* in the accumulator or in the worker's hands: nothing is lost, repeated or
\* taken from another session's buffers, whatever the GPU's delay.
FramesAccounted ==
  \A i \in Slots : Live(i) /\ ~Retires(i) =>
    LET n == Len(Told(i))
    IN  /\ Told(i) = Frames(1, n)
        /\ n + str[i].pending + Len(str[i].bat) + Held(i) = str[i].frames
        /\ str[i].bat = Frames(n + str[i].pending + 1, str[i].frames - Held(i))

\* A stream that ends with its text was heard to the last frame; so was one
\* that ends at the frame cap, if its last frame is pushed before the cap is
\* tested (S2P_DAC_BATCH=0).  No push meets a result that was not collected
\* (S2P_ERR_STATE).
EndsComplete ==
  /\ hand.why # "state" /\ ~(tick.at = "batch" /\ Refused)
  /\ hand.at = "retire" /\ (hand.why = "eos" \/ (hand.why = "cap" /\ ~batchOn)) =>
       heard[hand.slot] = Frames(1, str[hand.slot].frames)

\* The first frame is heard in the tick that made it, and no frame waits for
\* more than a full group after it.
Prompt ==
  \A i \in Slots : Live(i) /\ str[i].frames > 0 /\ hand.slot # i =>
    /\ heard[i] # <<>>
    /\ str[i].frames - Len(heard[i]) <= Batch
=============================================================================
