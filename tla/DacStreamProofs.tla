--------------------------- MODULE DacStreamProofs ---------------------------
(* What DacStream promises, for every number of sessions, CUDA streams,     *)
(* frames per push and frames per request: no frame of a session is lost,   *)
(* repeated or exchanged on its way through the accumulator, the GPU's      *)
(* queues, the shared buffer table and the pinned result buffer.            *)
EXTENDS DacStream, FiniteSetTheorems, SequenceTheorems, TLAPS

(***************************************************************************)
(* The inductive invariant.                                                *)
(***************************************************************************)

\* What the push in flight of slot i will have left in its pinned buffer.
Expected(i) == Frames(Len(Told(i)) + 1, Len(Told(i)) + str[i].pending)

\* An operation on CUDA stream c serves streams that wait for it there, and
\* brings what they wait for.
Brings(o, c) ==
  \A n \in DOMAIN o.slots : \A i \in Slots : i = o.slots[n] =>
    /\ Live(i) /\ Cust(i) = c /\ str[i].pending > 0
    /\ n \in DOMAIN o.frames /\ o.frames[n] = Expected(i)

InFlight == \A c \in DOMAIN gpu : \A p \in DOMAIN gpu[c] : Brings(gpu[c][p], c)

\* What a stream waits for is in its buffer or on its way.
Arrives(i) ==
  str[i].pending > 0 =>
    \/ pin[i] = Expected(i)
    \/ \E p \in DOMAIN gpu[Cust(i)] : Places(gpu[Cust(i)][p], i) # {}

Awaited == \A i \in Slots : Arrives(i)

\* Only pushes serve a stream, and the copy of the table is followed by the
\* push that needs it, on CUDA stream 0.
Ordered ==
  \A c \in DOMAIN gpu : \A p \in DOMAIN gpu[c] :
    /\ gpu[c][p].op # "push" => c = 0
    /\ gpu[c][p].op # "table" => gpu[c][p].slots # <<>>
    /\ gpu[c][p].op = "table" =>
         gpu[c][p].slots = <<>> /\ \E q \in DOMAIN gpu[c] : q > p /\ gpu[c][q].op = "batch"

\* The device has the table of the host, or its copy is enqueued ahead of
\* every push that needs it.
TableOk ==
  /\ table.dev = table.host \/ \E q \in DOMAIN gpu[0] : gpu[0][q].op = "table"
  /\ \A p \in DOMAIN gpu[0] : gpu[0][p].op = "batch" =>
       /\ DOMAIN gpu[0][p].addrs = DOMAIN gpu[0][p].slots
       /\ gpu[0][p].addrs = table.host
       /\ \/ table.dev = table.host
          \/ \E q \in DOMAIN gpu[0] : q < p /\ gpu[0][q].op = "table"

\* A stream has its first frame behind it when the worker leaves it, and its
\* client has heard something.
Stream(i) ==
  /\ str[i].st # "on" =>
       str[i].frames = 0 /\ str[i].pending = 0 /\ str[i].bat = <<>> /\ heard[i] = <<>>
  /\ str[i].pending = 0 \/ str[i].bat = <<>>
  /\ str[i].flushed <=> str[i].frames > Held(i)
  /\ str[i].frames > Held(i) /\ ~(hand.slot = i /\ hand.at \in {"eager", "retire"}) =>
       Told(i) # <<>>
  /\ str[i].st = "on" /\ (hand.slot # i \/ tick.at = "rows") => str[i].frames > Held(i)
  /\ hand.slot # i => str[i].frames < FrameCap

\* What the worker has in hand at each of its steps.
HandPlace ==
  /\ hand.at = "rest" => hand = Rest
  /\ hand.at # "rest" => hand.slot \in Slots /\ str[hand.slot].st = "on"
  /\ hand.at \in {"frame", "push"} => hand.slot \in tick.codes
  /\ hand.at \in {"push", "eager"} => DoPush
  /\ hand.at \in {"frame", "push", "eager", "deliver"} => str[hand.slot].frames > 0
  /\ hand.at \in {"frame", "eager", "finish", "tail", "last", "retire"} => hand.got = <<>>
  /\ hand.at \in {"push", "tail"} => str[hand.slot].pending = 0
  /\ hand.at = "eager" =>
       heard[hand.slot] = <<>> /\ str[hand.slot].pending = 1 /\ hand.slot \notin tick.codes
  /\ hand.at = "deliver" =>
       IF DoPush THEN hand.slot \notin tick.codes
                 ELSE hand.slot \in tick.codes /\ str[hand.slot].pending = 0
  /\ hand.at \in {"finish", "tail", "last"} /\ (hand.why = "eos" \/ ~batchOn) =>
       hand.slot \notin tick.codes
  /\ hand.at = "last" => str[hand.slot].bat = <<>>

\* Where the round is: whose frames are to be pushed together, and that no
\* result is on its way then.
TickPlace ==
  /\ tick.at = "idle" => tick.codes \subseteq {hand.slot} /\ tick = [Idle EXCEPT !.codes = tick.codes]
  /\ tick.at # "idle" => \A i \in Slots : str[i].st # "fresh"
  /\ tick.codes \cap tick.todo = {}
  /\ \A i \in tick.codes \cup tick.todo : str[i].st = "on"
  /\ ~batchOn => tick.codes \subseteq {hand.slot}
  /\ tick.at = "rows" =>
       /\ hand.slot \notin tick.todo
       /\ batchOn => \A i \in Slots : Live(i) /\ i \notin tick.todo /\ i # hand.slot =>
            i \in tick.codes /\ str[i].pending = 0
  /\ tick.at = "batch" =>
       /\ hand = Rest /\ tick.codes = {} /\ tick.todo = {} /\ batchOn /\ tick.tn > 0
       /\ tick.strs = {i \in Slots : Live(i)}
       /\ tick.tn <= Batch => \A i \in Slots : str[i].pending = 0
       /\ tick.tn > Batch => \A i \in Slots : Len(str[i].bat) < Batch

\* No push is refused, and a stream that ends well was heard to its end.
EndsWell ==
  /\ hand.why # "state"
  /\ hand.at = "retire" /\ (hand.why = "eos" \/ (hand.why = "cap" /\ ~batchOn)) =>
       heard[hand.slot] = Frames(1, str[hand.slot].frames)

OnGpu == InFlight /\ Awaited /\ Ordered /\ TableOk

\* What is known of slot i between two steps.
Counted(i) ==
  /\ Told(i) = Frames(1, Len(Told(i)))
  /\ Len(Told(i)) + str[i].pending + Len(str[i].bat) + Held(i) = str[i].frames
  /\ str[i].bat = Frames(Len(Told(i)) + str[i].pending + 1, str[i].frames - Held(i))

Steady(i) == Stream(i) /\ (Live(i) /\ ~Retires(i) => Counted(i))

IInv ==
  /\ TypeOK /\ OnGpu /\ HandPlace /\ TickPlace /\ EndsWell
  /\ \A i \in Slots : Steady(i)

-----------------------------------------------------------------------------
(* Numbers, sequences of frames, types.                                     *)

LEMMA Numbers ==
  /\ MaxSessions \in Nat /\ MaxSessions > 0
  /\ NCust \in Nat /\ NCust > 0
  /\ Batch \in Nat /\ Batch > 0
  /\ FrameCap \in Nat /\ FrameCap > 0
BY DacConstants

LEMMA CustPlace == \A i \in Slots : Cust(i) \in 0 .. NCust - 1
<1> SUFFICES ASSUME NEW i \in Slots PROVE Cust(i) \in 0 .. NCust - 1
  OBVIOUS
<1>1. i - 1 \in Nat
  BY Numbers DEF Slots
<1>2. (i - 1) % NCust \in 0 .. NCust - 1
  BY <1>1, Numbers
<1> QED BY <1>2, Numbers DEF Cust

LEMMA CustBatch == ASSUME batchOn, NEW i \in Slots PROVE Cust(i) = 0
BY DEF Cust

LEMMA FramesSeq ==
  ASSUME NEW m \in Nat, NEW k \in Nat
  PROVE  /\ Frames(m + 1, m + k) \in Seq(Nat)
         /\ Len(Frames(m + 1, m + k)) = k
         /\ \A j \in 1 .. k : Frames(m + 1, m + k)[j] = m + j
<1> DEFINE f == [j \in 1 .. k |-> m + j]
<1>1. Frames(m + 1, m + k) = f
  <2>1. (m + k) - (m + 1) + 1 = k
    OBVIOUS
  <2>2. \A j \in 1 .. k : (m + 1) + j - 1 = m + j
    OBVIOUS
  <2> QED BY <2>1, <2>2 DEF Frames
<1>2. \A j \in 1 .. k : m + j \in Nat
  OBVIOUS
<1>3. f \in Seq(Nat) /\ Len(f) = k
  BY <1>2
<1> QED BY <1>1, <1>3

LEMMA NoFrames == ASSUME NEW m \in Nat PROVE Frames(m + 1, m) = <<>>
<1>1. 0 \in Nat
  OBVIOUS
<1>3. Frames(m + 1, m + 0) \in Seq(Nat) /\ Len(Frames(m + 1, m + 0)) = 0
  BY FramesSeq, <1>1
<1>4. Frames(m + 1, m + 0) = <<>>
  BY <1>3, EmptySeq
<1>2. m + 0 = m
  OBVIOUS
<1> QED BY <1>4, <1>2

LEMMA FramesConcat ==
  ASSUME NEW n \in Nat, NEW k \in Nat
  PROVE  Frames(1, n) \o Frames(n + 1, n + k) = Frames(1, n + k)
<1> DEFINE a == Frames(1, n)
           b == Frames(n + 1, n + k)
           c == Frames(1, n + k)
<1>1. a \in Seq(Nat) /\ Len(a) = n /\ \A j \in 1 .. n : a[j] = j
  <2>1. Frames(0 + 1, 0 + n) \in Seq(Nat) /\ Len(Frames(0 + 1, 0 + n)) = n
        /\ \A j \in 1 .. n : Frames(0 + 1, 0 + n)[j] = 0 + j
    BY FramesSeq
  <2>2. 0 + 1 = 1 /\ 0 + n = n /\ \A j \in 1 .. n : 0 + j = j
    OBVIOUS
  <2> QED BY <2>1, <2>2
<1>2. b \in Seq(Nat) /\ Len(b) = k /\ \A j \in 1 .. k : b[j] = n + j
  BY FramesSeq
<1>3. c \in Seq(Nat) /\ Len(c) = n + k /\ \A j \in 1 .. n + k : c[j] = j
  <2> DEFINE m == n + k
  <2>1. m \in Nat
    OBVIOUS
  <2> HIDE DEF m
  <2>2. Frames(0 + 1, 0 + m) \in Seq(Nat) /\ Len(Frames(0 + 1, 0 + m)) = m
        /\ \A j \in 1 .. m : Frames(0 + 1, 0 + m)[j] = 0 + j
    BY FramesSeq, <2>1
  <2>3. 0 + 1 = 1 /\ 0 + m = m /\ \A j \in 1 .. m : 0 + j = j
    BY <2>1
  <2> QED BY <2>2, <2>3 DEF m
<1> HIDE DEF a, b, c
<1>7. /\ a \o b \in Seq(Nat) /\ Len(a \o b) = Len(a) + Len(b)
      /\ \A j \in 1 .. Len(a) + Len(b) :
           (a \o b)[j] = IF j <= Len(a) THEN a[j] ELSE b[j - Len(a)]
  BY <1>1, <1>2, ConcatProperties, Zenon
<1>4. a \o b \in Seq(Nat) /\ Len(a \o b) = n + k
  BY <1>1, <1>2, <1>7
<1>5. \A j \in 1 .. n + k : (a \o b)[j] = j
  BY <1>1, <1>2, <1>7
<1>6. a \o b = c
  BY <1>3, <1>4, <1>5, SeqEqual
<1> QED BY <1>6 DEF a, b, c

LEMMA FramesAppend ==
  ASSUME NEW m \in Nat, NEW k \in Nat
  PROVE  Append(Frames(m + 1, m + k), m + k + 1) = Frames(m + 1, m + k + 1)
<1> DEFINE a == Frames(m + 1, m + k)
           c == Frames(m + 1, m + (k + 1))
<1>1. a \in Seq(Nat) /\ Len(a) = k /\ \A j \in 1 .. k : a[j] = m + j
  BY FramesSeq
<1>2. c \in Seq(Nat) /\ Len(c) = k + 1 /\ \A j \in 1 .. k + 1 : c[j] = m + j
  <2>1. k + 1 \in Nat
    OBVIOUS
  <2> QED BY FramesSeq, <2>1
<1>3. m + (k + 1) = m + k + 1
  OBVIOUS
<1> HIDE DEF a, c
<1>4. /\ Append(a, m + k + 1) \in Seq(Nat)
      /\ Len(Append(a, m + k + 1)) = k + 1
      /\ \A j \in 1 .. k + 1 : Append(a, m + k + 1)[j] = m + j
  BY <1>1
<1>5. Append(a, m + k + 1) = c
  BY <1>2, <1>4, SeqEqual
<1> QED BY <1>3, <1>5 DEF a, c

\* The record of a slot.
LEMMA SlotTypes ==
  ASSUME TypeOK, NEW i \in Slots
  PROVE  /\ str[i] \in StreamRec
         /\ str[i].st \in {"none", "fresh", "on"} /\ str[i].addr \in Addr
         /\ str[i].frames \in Nat /\ str[i].frames <= FrameCap
         /\ str[i].bat \in Seq(Nat) /\ Len(str[i].bat) \in Nat /\ Len(str[i].bat) <= Batch
         /\ str[i].flushed \in BOOLEAN
         /\ str[i].pending \in Nat /\ str[i].pending <= Batch
         /\ pin[i] \in Seq(Nat) /\ Len(pin[i]) <= Batch
         /\ heard[i] \in Seq(Nat)
<1>1. str[i] \in StreamRec
  BY DEF TypeOK
<1>2. Len(str[i].bat) <= Batch
  <2>1. str[i].bat \in Seq(Nat)
    BY <1>1 DEF StreamRec
  <2>2. Len(str[i].bat) < Batch \/ Len(str[i].bat) = Batch
    BY DEF TypeOK
  <2> QED BY <2>1, <2>2, Numbers
<1>3. pin[i] \in Seq(Nat) /\ Len(pin[i]) <= Batch /\ heard[i] \in Seq(Nat)
  BY DEF TypeOK
<1> QED BY <1>1, <1>2, <1>3, Numbers DEF StreamRec

LEMMA ToldSeq ==
  ASSUME TypeOK, NEW i \in Slots
  PROVE  /\ Told(i) \in Seq(Nat) /\ Len(Told(i)) \in Nat
         /\ hand.slot # i \/ hand.got = <<>> => Told(i) = heard[i]
<1>1. heard[i] \in Seq(Nat)
  BY SlotTypes
<1>2. hand.got \in Seq(Nat)
  BY DEF TypeOK, HandRec
<1>3. heard[i] \o <<>> = heard[i]
  BY <1>1
<1>4. heard[i] \o hand.got \in Seq(Nat)
  BY <1>1, <1>2, ConcatProperties, Zenon
<1>5. Told(i) \in Seq(Nat)
  BY <1>1, <1>4, Zenon DEF Told
<1>6. Len(Told(i)) \in Nat
  BY <1>5
<1>7. hand.slot # i \/ hand.got = <<>> => Told(i) = heard[i]
  BY <1>3, Zenon DEF Told
<1> QED BY <1>5, <1>6, <1>7

LEMMA HeldNumber == ASSUME NEW i PROVE Held(i) \in 0 .. 1 /\ (Held(i) = 1 <=> i \in tick.codes)
BY DEF Held

-----------------------------------------------------------------------------
(* The queues of the GPU.                                                   *)

LEMMA OpTypes ==
  ASSUME TypeOK, NEW c \in 0 .. NCust - 1, NEW p \in DOMAIN gpu[c]
  PROVE  /\ gpu[c][p] \in Op
         /\ gpu[c][p].op \in {"push", "table", "batch"}
         /\ gpu[c][p].slots \in Seq(Slots) /\ gpu[c][p].addrs \in Seq(Addr)
         /\ gpu[c][p].frames \in Seq(Seq(Nat))
         /\ p \in 1 .. Len(gpu[c])
<1>1. gpu[c] \in Seq(Op)
  BY DEF TypeOK
<1>2. p \in 1 .. Len(gpu[c]) /\ gpu[c][p] \in Op
  BY <1>1
<1> QED BY <1>2 DEF Op

LEMMA Queues == ASSUME TypeOK PROVE DOMAIN gpu = 0 .. NCust - 1 /\ 0 \in DOMAIN gpu
BY Numbers DEF TypeOK

\* An operation that is enqueued for a slot: the slot waits for it.
LEMMA Waits ==
  ASSUME TypeOK, InFlight, NEW c \in 0 .. NCust - 1, NEW p \in DOMAIN gpu[c],
         NEW n \in DOMAIN gpu[c][p].slots
  PROVE  /\ gpu[c][p].slots[n] \in Slots
         /\ Live(gpu[c][p].slots[n]) /\ Cust(gpu[c][p].slots[n]) = c
         /\ str[gpu[c][p].slots[n]].pending > 0
         /\ n \in DOMAIN gpu[c][p].frames
         /\ gpu[c][p].frames[n] = Expected(gpu[c][p].slots[n])
<1>1. gpu[c][p].slots \in Seq(Slots)
  BY OpTypes
<1>2. gpu[c][p].slots[n] \in Slots
  BY <1>1
<1>3. Brings(gpu[c][p], c)
  BY Queues DEF InFlight
<1> QED BY <1>2, <1>3 DEF Brings

\* No operation is enqueued for a slot that waits for nothing, or whose
\* CUDA stream was synchronised.
LEMMA NoneFor ==
  ASSUME TypeOK, InFlight, NEW i \in Slots, str[i].pending = 0 \/ Synced(i),
         NEW c \in 0 .. NCust - 1, NEW p \in DOMAIN gpu[c],
         NEW n \in DOMAIN gpu[c][p].slots
  PROVE  gpu[c][p].slots[n] # i
<1> SUFFICES ASSUME gpu[c][p].slots[n] = i PROVE FALSE
  OBVIOUS
<1>1. Cust(i) = c /\ str[i].pending > 0
  BY Waits
<1>2. str[i].pending # 0
  BY <1>1, SlotTypes
<1>3. gpu[c] = <<>>
  BY <1>1, <1>2 DEF Synced
<1>4. DOMAIN gpu[c] = {}
  BY <1>3
<1> QED BY <1>4

\* When nothing is pending, nothing is enqueued.
LEMMA AllQuiet ==
  ASSUME TypeOK, InFlight, Ordered, \A i \in Slots : str[i].pending = 0,
         NEW c \in 0 .. NCust - 1
  PROVE  gpu[c] = <<>>
<1>1. gpu[c] \in Seq(Op)
  BY DEF TypeOK
<1>2. ASSUME NEW p \in DOMAIN gpu[c], gpu[c][p].op # "table" PROVE FALSE
  <2>1. gpu[c][p].slots # <<>> /\ gpu[c][p].slots \in Seq(Slots)
    BY <1>2, Queues, OpTypes DEF Ordered
  <2>2. 1 \in DOMAIN gpu[c][p].slots
    BY <2>1
  <2>3. gpu[c][p].slots[1] \in Slots
    BY <2>1, <2>2
  <2>4. gpu[c][p].slots[1] # gpu[c][p].slots[1]
    BY <2>2, <2>3, NoneFor
  <2> QED BY <2>4
<1>3. ASSUME NEW p \in DOMAIN gpu[c] PROVE FALSE
  <2>1. gpu[c][p].op = "table"
    BY <1>2
  <2>2. PICK q \in DOMAIN gpu[c] : gpu[c][q].op = "batch"
    BY <2>1, Queues DEF Ordered
  <2> QED BY <2>2, <1>2
<1>4. Len(gpu[c]) \in Nat /\ DOMAIN gpu[c] = 1 .. Len(gpu[c])
  BY <1>1
<1>5. ~ Len(gpu[c]) > 0
  <2> SUFFICES ASSUME Len(gpu[c]) > 0 PROVE FALSE
    OBVIOUS
  <2>1. 1 \in DOMAIN gpu[c]
    BY <1>4
  <2> QED BY <2>1, <1>3
<1>6. Len(gpu[c]) = 0
  BY <1>4, <1>5
<1> QED BY <1>1, <1>6, EmptySeq

\* A step that leaves slot i, and what is on its way for it, alone, or takes
\* what it has waited for.
Undisturbed(i) ==
  \/ (str[i].pending = 0 \/ Synced(i)) /\ str'[i].pending = 0
  \/ /\ str'[i].pending = str[i].pending /\ pin'[i] = pin[i]
     /\ (Live(i) => Live(i)') /\ Told(i)' = Told(i)

LEMMA ExpectedKept ==
  ASSUME NEW i, str'[i].pending = str[i].pending, Told(i)' = Told(i)
  PROVE  Expected(i)' = Expected(i)
BY DEF Expected, Frames

LEMMA Quiet ==
  ASSUME TypeOK, OnGpu, UNCHANGED <<batchOn, gpu, table>>,
         \A i \in Slots : Undisturbed(i)
  PROVE  OnGpu'
<1> USE DEF OnGpu
<1>1. \A i : Cust(i)' = Cust(i)
  BY DEF Cust
<1>2. InFlight'
  <2> SUFFICES ASSUME NEW c \in 0 .. NCust - 1, NEW p \in DOMAIN gpu[c],
                      NEW n \in DOMAIN gpu[c][p].slots, NEW i \in Slots, i = gpu[c][p].slots[n]
               PROVE  /\ Live(i)' /\ Cust(i)' = c /\ str'[i].pending > 0
                      /\ n \in DOMAIN gpu[c][p].frames
                      /\ gpu[c][p].frames[n] = Expected(i)'
    <3>1. DOMAIN gpu' = 0 .. NCust - 1
      BY Queues
    <3> QED BY <3>1 DEF InFlight, Brings
  <2>1. /\ Live(i) /\ Cust(i) = c /\ str[i].pending > 0
        /\ n \in DOMAIN gpu[c][p].frames /\ gpu[c][p].frames[n] = Expected(i)
    BY Waits
  <2>2. ~(str[i].pending = 0 \/ Synced(i))
    BY NoneFor
  <2>3. /\ str'[i].pending = str[i].pending /\ Live(i)' /\ Told(i)' = Told(i)
    BY <2>1, <2>2 DEF Undisturbed
  <2>4. Expected(i)' = Expected(i)
    BY <2>3, ExpectedKept
  <2> QED BY <1>1, <2>1, <2>3, <2>4
<1>3. Awaited'
  <2> SUFFICES ASSUME NEW i \in Slots, str'[i].pending > 0
               PROVE  \/ pin'[i] = Expected(i)'
                      \/ \E p \in DOMAIN gpu[Cust(i)'] : Places(gpu[Cust(i)'][p], i) # {}
    BY DEF Awaited, Arrives, Places
  <2>1. str'[i].pending = str[i].pending /\ pin'[i] = pin[i] /\ Told(i)' = Told(i)
    BY DEF Undisturbed
  <2>2. Expected(i)' = Expected(i)
    BY <2>1, ExpectedKept
  <2>3. Arrives(i)
    BY DEF Awaited
  <2> QED BY <1>1, <2>1, <2>2, <2>3 DEF Arrives
<1>4. Ordered'
  BY DEF Ordered
<1>5. TableOk'
  BY DEF TableOk
<1> QED BY <1>2, <1>3, <1>4, <1>5

-----------------------------------------------------------------------------
(* The slots a step does not touch, and the type of a step.                 *)

LEMMA Others ==
  ASSUME NEW j \in Slots, Steady(j), str'[j] = str[j], heard'[j] = heard[j],
         hand.slot # j, hand'.slot # j, j \in tick'.codes <=> j \in tick.codes
  PROVE  Steady(j)' /\ Told(j)' = Told(j)
<1>1. Told(j) = heard[j] /\ Told(j)' = heard[j]
  BY DEF Told
<1>2. Held(j)' = Held(j)
  BY DEF Held
<1>3. Live(j)' <=> Live(j)
  BY DEF Live
<1>4. Stream(j)'
  BY <1>1, <1>2 DEF Steady, Stream
<1>5. Live(j) => Counted(j)
  BY DEF Steady, Retires
<1>6. Counted(j) => Counted(j)'
  BY <1>1, <1>2 DEF Counted, Frames
<1> QED BY <1>1, <1>3, <1>4, <1>5, <1>6 DEF Steady

\* What slot i has after a step, in numbers of the step before.
LEMMA CountedNow ==
  ASSUME NEW i, NEW n, NEW p, NEW b, NEW h, NEW f,
         Told(i)' = Frames(1, n), Len(Told(i)') = n,
         str'[i].pending = p, str'[i].bat = b, str'[i].frames = f, Held(i)' = h,
         n + p + Len(b) + h = f, b = Frames(n + p + 1, f - h)
  PROVE  Counted(i)'
<1>1. Frames(1, Len(Told(i)))' = Frames(1, n)
  BY DEF Frames
<1>2. Frames(Len(Told(i)) + str[i].pending + 1, str[i].frames - Held(i))' = Frames(n + p + 1, f - h)
  BY DEF Frames
<1> QED BY <1>1, <1>2, Zenon DEF Counted

LEMMA Undone ==
  ASSUME NEW j \in Slots, str'[j] = str[j], pin'[j] = pin[j], Told(j)' = Told(j)
  PROVE  Undisturbed(j)
BY DEF Undisturbed, Live

LEMMA SlotUpdate ==
  ASSUME TypeOK, NEW i \in Slots, NEW r \in StreamRec, str' = [str EXCEPT ![i] = r],
         Len(r.bat) < Batch \/ (Len(r.bat) = Batch /\ tick'.at = "batch"),
         tick.at = "batch" => tick'.at = "batch"
  PROVE  /\ str' \in [Slots -> StreamRec] /\ str'[i] = r
         /\ \A j \in Slots : j # i => str'[j] = str[j]
         /\ \A j \in Slots : Len(str'[j].bat) < Batch \/ (Len(str'[j].bat) = Batch /\ tick'.at = "batch")
<1>1. str \in [Slots -> StreamRec]
  BY DEF TypeOK
<1>2. str' \in [Slots -> StreamRec] /\ str'[i] = r /\ \A j \in Slots : j # i => str'[j] = str[j]
  BY <1>1
<1>3. ASSUME NEW j \in Slots
      PROVE  Len(str'[j].bat) < Batch \/ (Len(str'[j].bat) = Batch /\ tick'.at = "batch")
  <2>1. CASE j = i
    BY <1>2, <2>1
  <2>2. CASE j # i
    BY <1>2, <2>2 DEF TypeOK
  <2> QED BY <2>1, <2>2
<1> QED BY <1>2, <1>3

\* A slot without a stream that is heard.
LEMMA Fresh ==
  ASSUME NEW i, str[i].st # "on", str[i].frames = 0, str[i].pending = 0, str[i].bat = <<>>,
         ~str[i].flushed, heard[i] = <<>>, hand.slot # i, i \notin tick.codes
  PROVE  Steady(i)
<1>1. Told(i) = <<>> /\ Held(i) = 0
  BY DEF Told, Held
<1>2. Stream(i)
  BY <1>1, Numbers DEF Stream
<1>3. Counted(i)
  <2>1. Len(Told(i)) = 0 /\ Len(str[i].bat) = 0
    BY <1>1
  <2>2. 1 \in Nat /\ 0 \in Nat /\ Frames(0 + 1, 0) = <<>>
    BY NoFrames
  <2>3. Frames(1, 0) = <<>>
    BY <2>2
  <2> QED BY <1>1, <2>1, <2>3 DEF Counted
<1> QED BY <1>2, <1>3 DEF Steady

LEMMA FreshNext ==
  ASSUME NEW i, str'[i].st # "on", str'[i].frames = 0, str'[i].pending = 0, str'[i].bat = <<>>,
         ~str'[i].flushed, heard'[i] = <<>>, hand'.slot # i, i \notin tick'.codes
  PROVE  Steady(i)'
<1>1. Told(i)' = <<>> /\ Held(i)' = 0
  BY DEF Told, Held
<1>2. Stream(i)'
  BY <1>1, Numbers DEF Stream
<1>3. Counted(i)'
  <2>1. Len(<<>>) = 0
    OBVIOUS
  <2>2. Frames(0 + 1, 0) = <<>>
    BY NoFrames
  <2>3. Frames(1, 0) = <<>>
    BY <2>2
  <2> QED BY <1>1, <2>1, <2>3 DEF Counted, Frames
<1> QED BY <1>2, <1>3 DEF Steady

-----------------------------------------------------------------------------
(* Admission, and the steps of the round that touch no stream.              *)

LEMMA InitIInv == Init => IInv
<1> SUFFICES ASSUME Init PROVE IInv
  OBVIOUS
<1> USE DEF Init
<1>1. TypeOK
  <2>1. NoStream \in StreamRec
    BY Numbers DEF NoStream, StreamRec, Addr
  <2>2. Idle \in TickRec
    BY Numbers DEF Idle, TickRec
  <2>3. Rest \in HandRec
    BY Numbers DEF Rest, HandRec, Addr
  <2>4. <<>> \in Seq(Nat) /\ <<>> \in Seq(Op) /\ <<>> \in Seq(Addr) /\ Len(<<>>) = 0
    OBVIOUS
  <2>5. \A i \in Slots : Len(str[i].bat) < Batch
    BY Numbers, <2>4 DEF NoStream
  <2> QED BY <2>1, <2>2, <2>3, <2>4, <2>5, Numbers DEF TypeOK
<1>2. OnGpu
  <2>1. \A c \in DOMAIN gpu : gpu[c] = <<>> /\ DOMAIN gpu[c] = {}
    OBVIOUS
  <2>2. InFlight /\ Ordered
    BY <2>1 DEF InFlight, Ordered
  <2>3. Awaited
    BY DEF Awaited, Arrives, NoStream
  <2>4. TableOk
    <3>1. 0 \in DOMAIN gpu
      BY Numbers
    <3> QED BY <3>1, <2>1 DEF TableOk
  <2> QED BY <2>2, <2>3, <2>4 DEF OnGpu
<1>3. HandPlace
  BY DEF HandPlace, Rest
<1>4. TickPlace
  BY DEF TickPlace, Idle, NoStream
<1>5. EndsWell
  BY DEF EndsWell, Rest
<1>6. ASSUME NEW i \in Slots PROVE Steady(i)
  <2>1. hand.slot # i /\ i \notin tick.codes
    BY Numbers DEF Rest, Idle, Slots
  <2>2. str[i] = NoStream /\ heard[i] = <<>>
    OBVIOUS
  <2> QED BY <2>1, <2>2, Fresh DEF NoStream
<1> QED BY <1>1, <1>2, <1>3, <1>4, <1>5, <1>6 DEF IInv

\* A step between two rounds that changes no stream and nothing it hears.
LEMMA RoundStep ==
  ASSUME IInv, UNCHANGED <<batchOn, str, gpu, pin, table, hand, heard>>, hand = Rest,
         tick' \in TickRec, tick'.codes = tick.codes, tick'.at # "batch",
         tick.at = "batch" => \A i \in Slots : Len(str[i].bat) < Batch
  PROVE  TypeOK' /\ OnGpu' /\ EndsWell' /\ \A i \in Slots : Steady(i)'
<1>1. TypeOK'
  BY DEF IInv, TypeOK
<1>2. ASSUME NEW j \in Slots PROVE Steady(j)' /\ Undisturbed(j)
  <2>1. hand.slot # j /\ hand'.slot # j
    BY Numbers DEF Rest, Slots
  <2>2. Steady(j)
    BY DEF IInv
  <2>3. Steady(j)' /\ Told(j)' = Told(j)
    BY <2>1, <2>2, Others
  <2> QED BY <2>3, Undone
<1>3. OnGpu'
  BY <1>2, Quiet DEF IInv
<1>4. EndsWell'
  BY DEF IInv, EndsWell
<1> QED BY <1>1, <1>2, <1>3, <1>4

LEMMA LockstepIInv == ASSUME IInv, Lockstep PROVE IInv'
<1> DEFINE active == {i \in Slots : Live(i)}
<1>0. PICK eos \in SUBSET active :
        tick' = [Idle EXCEPT !.at = "rows", !.todo = active, !.eos = eos]
  BY DEF Lockstep
<1>1. /\ tick = Idle /\ hand = Rest /\ \A i \in Slots : str[i].st # "fresh"
      /\ UNCHANGED <<batchOn, str, gpu, pin, table, hand, heard>>
  BY DEF Lockstep
<1>2. tick' = [at |-> "rows", todo |-> active, eos |-> eos, codes |-> {}, strs |-> {}, tn |-> 0]
  BY <1>0 DEF Idle
<1>3. tick' \in TickRec
  BY <1>2, Numbers DEF TickRec
<1>4. TypeOK' /\ OnGpu' /\ EndsWell' /\ \A i \in Slots : Steady(i)'
  BY <1>1, <1>2, <1>3, RoundStep DEF Idle
<1>5. HandPlace'
  BY <1>1 DEF HandPlace, Rest
<1>6. TickPlace'
  <2>1. \A i \in active : str[i].st = "on"
    BY <1>1, SlotTypes DEF IInv, Live
  <2>2. 0 \notin active
    BY Numbers DEF Slots
  <2> QED BY <1>1, <1>2, <2>1, <2>2 DEF TickPlace, Rest, Live
<1> QED BY <1>4, <1>5, <1>6 DEF IInv

LEMMA TickDoneIInv == ASSUME IInv, TickDone PROVE IInv'
<1>1. /\ tick.codes = {} /\ hand = Rest /\ tick' = Idle /\ tick.at = "rows"
      /\ UNCHANGED <<batchOn, str, gpu, pin, table, hand, heard>>
  BY DEF TickDone
<1>3. tick' \in TickRec
  BY <1>1, Numbers DEF TickRec, Idle
<1>4. TypeOK' /\ OnGpu' /\ EndsWell' /\ \A i \in Slots : Steady(i)'
  BY <1>1, <1>3, RoundStep DEF Idle
<1>5. HandPlace'
  BY <1>1 DEF HandPlace, Rest
<1>6. TickPlace'
  BY <1>1 DEF TickPlace, Idle, Rest
<1> QED BY <1>4, <1>5, <1>6 DEF IInv

LEMMA BatchDoneIInv == ASSUME IInv, BatchDone PROVE IInv'
<1>1. /\ tick.at = "batch" /\ tick.tn > Batch /\ tick' = Idle
      /\ UNCHANGED <<batchOn, str, gpu, pin, table, hand, heard>>
  BY DEF BatchDone
<1>2. hand = Rest /\ tick.codes = {} /\ \A i \in Slots : Len(str[i].bat) < Batch
  BY <1>1 DEF IInv, TickPlace
<1>3. tick' \in TickRec
  BY <1>1, Numbers DEF TickRec, Idle
<1>4. TypeOK' /\ OnGpu' /\ EndsWell' /\ \A i \in Slots : Steady(i)'
  BY <1>1, <1>2, <1>3, RoundStep DEF Idle
<1>5. HandPlace'
  BY <1>1, <1>2 DEF HandPlace, Rest
<1>6. TickPlace'
  BY <1>1, <1>2 DEF TickPlace, Idle, Rest
<1> QED BY <1>4, <1>5, <1>6 DEF IInv

LEMMA AdmitIInv == ASSUME IInv, NEW i \in Slots, Admit(i) PROVE IInv'
<1>0. PICK a \in Slots : str' = [str EXCEPT ![i] = [NoStream EXCEPT !.st = "fresh", !.addr = a]]
  BY DEF Admit
<1> DEFINE r == [st |-> "fresh", addr |-> a, frames |-> 0, bat |-> <<>>, flushed |-> FALSE,
                 pending |-> 0]
<1>1. /\ tick = Idle /\ hand = Rest /\ ~Live(i) /\ str' = [str EXCEPT ![i] = r]
      /\ UNCHANGED <<batchOn, gpu, pin, table, tick, hand, heard>>
  BY <1>0 DEF Admit, NoStream
<1>2. r \in StreamRec /\ Len(r.bat) = 0
  BY Numbers DEF StreamRec, Addr, Slots
<1>3. /\ str' \in [Slots -> StreamRec] /\ str'[i] = r
      /\ \A j \in Slots : j # i => str'[j] = str[j]
      /\ \A j \in Slots : Len(str'[j].bat) < Batch \/ (Len(str'[j].bat) = Batch /\ tick'.at = "batch")
  BY <1>1, <1>2, SlotUpdate, Numbers DEF IInv, Idle
<1>4. TypeOK'
  BY <1>1, <1>3 DEF IInv, TypeOK
<1>5. hand.slot = 0 /\ 0 \notin Slots
  BY <1>1, Numbers DEF Rest, Slots
<1>6. str[i].st # "on" /\ str[i].pending = 0 /\ heard[i] = <<>>
  BY <1>1 DEF Live, IInv, Steady, Stream
<1>7. ASSUME NEW j \in Slots PROVE Steady(j)' /\ Undisturbed(j)
  <2>1. CASE j = i
    <3>1. Steady(i)'
      <4>1. str'[i].st # "on" /\ str'[i].frames = 0 /\ str'[i].pending = 0 /\ str'[i].bat = <<>>
            /\ ~str'[i].flushed
        BY <1>3
      <4>2. heard'[i] = <<>> /\ hand'.slot # i /\ i \notin tick'.codes
        BY <1>1, <1>5, <1>6 DEF Idle
      <4> QED BY <4>1, <4>2, FreshNext
    <3>2. Undisturbed(i)
      BY <1>3, <1>6 DEF Undisturbed
    <3> QED BY <2>1, <3>1, <3>2
  <2>2. CASE j # i
    <3>1. Steady(j)' /\ Told(j)' = Told(j)
      BY <1>1, <1>3, <1>5, <2>2, Others DEF IInv
    <3> QED BY <3>1, <1>1, <1>3, <2>2, Undone
  <2> QED BY <2>1, <2>2
<1>8. OnGpu'
  BY <1>1, <1>7, Quiet DEF IInv
<1>9. HandPlace'
  BY <1>1 DEF HandPlace, Rest
<1>10. TickPlace'
  BY <1>1 DEF TickPlace, Idle, Rest
<1>11. EndsWell'
  BY <1>1 DEF EndsWell, Rest
<1> QED BY <1>4, <1>7, <1>8, <1>9, <1>10, <1>11 DEF IInv

-----------------------------------------------------------------------------
(* A row: the worker takes a slot in hand.                                  *)

LEMMA HandleStep ==
  ASSUME IInv, NEW i \in Slots, NEW eos, Handle(i, eos), Live(i), i \notin tick.codes,
         tick' \in TickRec, tick'.at = tick.at, tick.at # "batch",
         tick'.codes = IF hand'.at = "frame" THEN tick.codes \cup {i} ELSE tick.codes,
         tick.at = "rows" => str[i].st = "on"
  PROVE  /\ TypeOK' /\ OnGpu' /\ HandPlace' /\ EndsWell' /\ \A j \in Slots : Steady(j)'
         /\ hand = Rest /\ batchOn' = batchOn /\ hand'.slot = i
         /\ \A j \in Slots : j # i => str'[j] = str[j]
         /\ str'[i].st = "on" /\ str'[i].pending = str[i].pending
<1> DEFINE f == IF hand'.at = "frame" THEN 1 ELSE 0
           r == [str[i] EXCEPT !.st = "on", !.frames = @ + f]
<1>1. hand = Rest /\ UNCHANGED <<batchOn, gpu, pin, table, heard>>
  BY DEF Handle
<1>2. /\ hand'.slot = i /\ hand'.got = <<>> /\ hand' \in HandRec
      /\ \/ hand'.at = "finish" /\ hand'.why = "eos"
         \/ hand'.at = "retire" /\ hand'.why = "gone"
         \/ hand'.at = "frame" /\ hand'.why = "none"
  <2> DEFINE h(at, why) == [at |-> at, slot |-> i, got |-> <<>>, why |-> why]
  <2>1. h("finish", "eos") \in HandRec /\ h("retire", "gone") \in HandRec
        /\ h("frame", "none") \in HandRec
    <3>1. i \in Addr /\ <<>> \in Seq(Nat)
      BY Numbers DEF Addr, Slots
    <3> QED BY <3>1 DEF HandRec
  <2>2. hand' \in {h("finish", "eos"), h("retire", "gone"), h("frame", "none")}
    BY DEF Handle, Rest
  <2> QED BY <2>1, <2>2
<1>3. hand.slot = 0 /\ 0 \notin Slots
  BY <1>1, Numbers DEF Rest, Slots
<1>4. str[i] \in StreamRec /\ str[i].frames \in Nat /\ Len(str[i].bat) < Batch /\ f \in 0 .. 1
  BY SlotTypes DEF IInv, TypeOK
<1>5. Steady(i) /\ Stream(i) /\ Counted(i) /\ Told(i) = heard[i] /\ Held(i) = 0
  BY <1>3 DEF IInv, Steady, Retires, Told, Held
<1>6. str[i].frames < FrameCap
  BY <1>3, <1>5 DEF Stream
<1>7. str' = [str EXCEPT ![i] = r]
  <2>1. str \in [Slots -> StreamRec]
    BY DEF IInv, TypeOK
  <2>2. CASE hand'.at = "frame"
    <3>1. str' = [str EXCEPT ![i].st = "on", ![i].frames = @ + 1]
      BY <2>2 DEF Handle, Rest
    <3> QED BY <2>1, <2>2, <3>1 DEF StreamRec
  <2>3. CASE hand'.at # "frame"
    <3>1. str' = [str EXCEPT ![i].st = "on"]
      BY <2>3 DEF Handle, Rest
    <3>2. str[i].frames + f = str[i].frames
      BY <1>4, <2>3
    <3>3. r = [str[i] EXCEPT !.st = "on"]
      BY <1>4, <3>2 DEF StreamRec
    <3> QED BY <2>1, <3>1, <3>3
  <2> QED BY <2>2, <2>3
<1>8. r \in StreamRec /\ r.bat = str[i].bat
  <2>1. str[i].frames + f \in 0 .. FrameCap
    BY <1>4, <1>6, Numbers
  <2> HIDE DEF f
  <2> QED BY <1>4, <2>1 DEF StreamRec
<1>9. /\ r.st = "on" /\ r.frames = str[i].frames + f /\ r.flushed = str[i].flushed
      /\ r.pending = str[i].pending
  BY <1>4 DEF StreamRec
<1> HIDE DEF f, r
<1>10. /\ str' \in [Slots -> StreamRec] /\ str'[i] = r
       /\ \A j \in Slots : j # i => str'[j] = str[j]
       /\ \A j \in Slots : Len(str'[j].bat) < Batch \/ (Len(str'[j].bat) = Batch /\ tick'.at = "batch")
  BY <1>4, <1>7, <1>8, SlotUpdate DEF IInv
<1>11. TypeOK'
  BY <1>1, <1>2, <1>10 DEF IInv, TypeOK
<1>12. Told(i)' = Told(i) /\ Held(i)' = f
  <2>1. heard[i] \o <<>> = heard[i]
    BY SlotTypes DEF IInv
  <2>2. Told(i)' = heard[i] \o <<>>
    BY <1>1, <1>2 DEF Told
  <2>3. Held(i)' = f
    BY DEF Held, f
  <2> QED BY <1>5, <2>1, <2>2, <2>3
<1>13. Steady(i)'
  <2>1. Stream(i)'
    <3>1. str'[i].flushed <=> str'[i].frames > Held(i)'
      BY <1>4, <1>5, <1>9, <1>10, <1>12 DEF Stream
    <3>2. str'[i].frames > Held(i)' => Told(i)' # <<>>
      BY <1>3, <1>4, <1>5, <1>9, <1>10, <1>12 DEF Stream
    <3>3. tick'.at = "rows" => str'[i].frames > Held(i)'
      BY <1>3, <1>4, <1>5, <1>9, <1>10, <1>12 DEF Stream
    <3>4. str'[i].pending = 0 \/ str'[i].bat = <<>>
      BY <1>5, <1>8, <1>9, <1>10 DEF Stream
    <3> QED BY <1>2, <1>9, <1>10, <3>1, <3>2, <3>3, <3>4 DEF Stream
  <2>2. Counted(i)'
    <3>1. str'[i].frames - Held(i)' = str[i].frames - Held(i)
      BY <1>4, <1>5, <1>9, <1>10, <1>12
    <3>2. str'[i].frames = str[i].frames + Held(i)'
      BY <1>4, <1>9, <1>10, <1>12
    <3>3. Len(Told(i)) \in Nat /\ str[i].pending \in Nat /\ Len(str[i].bat) \in Nat
      BY ToldSeq, SlotTypes DEF IInv
    <3>4. Told(i)' = Frames(1, Len(Told(i)'))
      BY <1>5, <1>12 DEF Counted
    <3>5. Len(Told(i)') + str'[i].pending + Len(str'[i].bat) + Held(i)' = str'[i].frames
      BY <1>4, <1>5, <1>8, <1>9, <1>10, <1>12, <3>2, <3>3 DEF Counted
    <3>6. str'[i].bat = Frames(Len(Told(i)') + str'[i].pending + 1, str'[i].frames - Held(i)')
      BY <1>5, <1>8, <1>9, <1>10, <1>12, <3>1 DEF Counted
    <3> QED BY <3>4, <3>5, <3>6 DEF Counted, Frames
  <2> QED BY <2>1, <2>2 DEF Steady
<1>14. ASSUME NEW j \in Slots PROVE Steady(j)' /\ Undisturbed(j)
  <2>1. CASE j = i
    <3>1. Undisturbed(i)
      BY <1>1, <1>9, <1>10, <1>12 DEF Undisturbed, Live
    <3> QED BY <1>13, <2>1, <3>1
  <2>2. CASE j # i
    <3>1. Steady(j)' /\ Told(j)' = Told(j)
      BY <1>1, <1>2, <1>3, <1>10, <2>2, Others DEF IInv
    <3> QED BY <3>1, <1>1, <1>10, <2>2, Undone
  <2> QED BY <2>1, <2>2
<1>15. OnGpu'
  BY <1>1, <1>14, Quiet DEF IInv
<1>16. HandPlace'
  BY <1>2, <1>4, <1>9, <1>10 DEF HandPlace, f
<1>17. EndsWell'
  BY <1>2 DEF EndsWell
<1> QED BY <1>1, <1>2, <1>9, <1>10, <1>11, <1>14, <1>15, <1>16, <1>17

LEMMA FirstFrameIInv == ASSUME IInv, NEW i \in Slots, FirstFrame(i) PROVE IInv'
<1>0. PICK eos \in BOOLEAN : Handle(i, eos)
  BY DEF FirstFrame
<1>1. /\ tick = Idle /\ str[i].st = "fresh"
      /\ tick' = [tick EXCEPT !.codes = IF hand'.at = "frame" THEN {i} ELSE {}]
  BY DEF FirstFrame
<1>2. tick' \in TickRec /\ tick'.at = tick.at /\ tick.codes = {}
      /\ tick'.codes = IF hand'.at = "frame" THEN tick.codes \cup {i} ELSE tick.codes
  BY <1>1, Numbers DEF Idle, TickRec
<1>3. Live(i) /\ tick.at = "idle" /\ i \notin tick.codes
  BY <1>1, <1>2 DEF Live, Idle
<1>4. /\ TypeOK' /\ OnGpu' /\ HandPlace' /\ EndsWell' /\ \A j \in Slots : Steady(j)'
      /\ hand'.slot = i /\ str'[i].st = "on"
  BY <1>0, <1>2, <1>3, HandleStep
<1>5. TickPlace'
  BY <1>1, <1>2, <1>4 DEF TickPlace, Idle
<1> QED BY <1>4, <1>5 DEF IInv

LEMMA LockstepRowIInv == ASSUME IInv, NEW i \in Slots, LockstepRow(i) PROVE IInv'
<1>0. Handle(i, i \in tick.eos)
  BY DEF LockstepRow
<1>1. /\ tick.at = "rows" /\ i \in tick.todo
      /\ tick' = [tick EXCEPT !.todo = @ \ {i},
                              !.codes = IF hand'.at = "frame" THEN @ \cup {i} ELSE @]
  BY DEF LockstepRow
<1>2. tick \in TickRec /\ TickPlace
  BY DEF IInv, TypeOK
<1>3. tick' \in TickRec /\ tick'.at = tick.at /\ tick'.todo = tick.todo \ {i}
      /\ tick'.codes = IF hand'.at = "frame" THEN tick.codes \cup {i} ELSE tick.codes
  BY <1>1, <1>2 DEF TickRec
<1>4. str[i].st = "on" /\ Live(i) /\ tick.at # "batch" /\ i \notin tick.codes
  BY <1>1, <1>2 DEF TickPlace, Live
<1>5. /\ TypeOK' /\ OnGpu' /\ HandPlace' /\ EndsWell' /\ \A j \in Slots : Steady(j)'
      /\ hand = Rest /\ batchOn' = batchOn /\ hand'.slot = i
      /\ \A j \in Slots : j # i => str'[j] = str[j]
      /\ str'[i].st = "on" /\ str'[i].pending = str[i].pending
  BY <1>0, <1>3, <1>4, HandleStep
<1>6. TickPlace'
  <2>1. tick.codes \subseteq Slots /\ tick.todo \subseteq Slots /\ 0 \notin Slots /\ hand.slot = 0
    BY <1>2, <1>5, Numbers DEF TickRec, Rest, Slots
  <2>2. ~batchOn => tick.codes = {}
    BY <1>2, <2>1 DEF TickPlace
  <2>3. tick'.codes \cap tick'.todo = {} /\ tick'.codes \subseteq tick.codes \cup {i}
        /\ tick'.codes \cup tick'.todo \subseteq Slots /\ tick.codes \subseteq tick'.codes
    BY <1>1, <1>2, <1>3, <2>1 DEF TickPlace
  <2>4. \A j \in Slots : str'[j].st # "fresh"
    BY <1>1, <1>2, <1>5 DEF TickPlace
  <2>5. \A j \in tick'.codes \cup tick'.todo : str'[j].st = "on"
    BY <1>2, <1>3, <1>5, <2>1, <2>3 DEF TickPlace
  <2>6. ASSUME batchOn', NEW j \in Slots, Live(j)', j \notin tick'.todo, j # i
        PROVE  j \in tick'.codes /\ str'[j].pending = 0
    <3>1. Live(j) /\ j \notin tick.todo /\ j # hand.slot /\ batchOn
      BY <1>3, <1>5, <2>1, <2>6 DEF Live
    <3> QED BY <1>1, <1>2, <1>5, <2>3, <2>6, <3>1 DEF TickPlace
  <2> QED BY <1>1, <1>3, <1>5, <2>2, <2>3, <2>4, <2>5, <2>6 DEF TickPlace
<1> QED BY <1>5, <1>6 DEF IInv

-----------------------------------------------------------------------------
(* The slot in hand: the frames it collects.                                *)

LEMMA InHand ==
  ASSUME IInv, hand.at # "rest"
  PROVE  /\ hand.slot \in Slots /\ str[hand.slot].st = "on" /\ tick.at # "batch"
         /\ \A j \in Slots : Len(str[j].bat) < Batch
<1>1. tick.at # "batch"
  BY DEF IInv, TickPlace, Rest
<1>2. \A j \in Slots : Len(str[j].bat) < Batch
  BY <1>1 DEF IInv, TypeOK
<1> QED BY <1>1, <1>2 DEF IInv, HandPlace

LEMMA TickKept ==
  ASSUME IInv, hand.at # "rest", NEW i \in Slots, hand.slot = i, hand'.slot = i,
         tick' = tick \/ tick' = [tick EXCEPT !.codes = @ \ {i}],
         batchOn' = batchOn, \A j \in Slots : j # i => str'[j] = str[j], str'[i].st = "on"
  PROVE  TickPlace' /\ tick' \in TickRec
<1>1. tick \in TickRec /\ TickPlace /\ tick.at # "batch"
  BY InHand DEF IInv, TypeOK
<1>2. /\ tick'.at = tick.at /\ tick'.todo = tick.todo /\ tick'.codes \subseteq tick.codes
      /\ tick.codes \ {i} \subseteq tick'.codes /\ tick' \in TickRec
      /\ tick' = [tick EXCEPT !.codes = tick'.codes]
  BY <1>1 DEF TickRec
<1>3. tick.at = "idle" => /\ tick'.codes \subseteq {i} /\ tick' = [Idle EXCEPT !.codes = tick'.codes]
  <2>1. ASSUME tick.at = "idle" PROVE tick = [Idle EXCEPT !.codes = tick.codes]
    BY <1>1, <2>1 DEF TickPlace
  <2>2. ASSUME tick.at = "idle" PROVE tick' = [Idle EXCEPT !.codes = tick'.codes]
    BY <1>2, <2>1, <2>2 DEF Idle
  <2> QED BY <1>1, <1>2, <2>2 DEF TickPlace
<1>4. \A j \in Slots : str'[j].st = "fresh" => str[j].st = "fresh"
  OBVIOUS
<1>5. \A j \in Slots : str[j].st = "on" => str'[j].st = "on"
  OBVIOUS
<1>6. tick.codes \cup tick.todo \subseteq Slots
  BY <1>1 DEF TickRec
<1>7. ASSUME tick.at = "rows", batchOn, NEW j \in Slots, Live(j)', j \notin tick.todo, j # i
      PROVE  j \in tick'.codes /\ str'[j].pending = 0
  <2>1. Live(j) /\ str'[j] = str[j]
    BY <1>7 DEF Live
  <2> QED BY <1>1, <1>2, <1>7, <2>1 DEF TickPlace
<1>8. tick.at # "idle" => \A j \in Slots : str'[j].st # "fresh"
  BY <1>1, <1>4 DEF TickPlace
<1>9. \A j \in tick'.codes \cup tick'.todo : str'[j].st = "on"
  BY <1>1, <1>2, <1>5, <1>6 DEF TickPlace
<1>10. tick'.codes \cap tick'.todo = {} /\ (~batchOn' => tick'.codes \subseteq {hand'.slot})
  BY <1>1, <1>2 DEF TickPlace
<1> QED BY <1>1, <1>2, <1>3, <1>7, <1>8, <1>9, <1>10 DEF TickPlace

\* What is collected is what was pushed.
LEMMA Collecting ==
  ASSUME IInv, NEW i \in Slots, hand.slot = i, hand.at \in {"frame", "eager", "finish", "last"},
         Collectable(i)
  PROVE  /\ hand.got = <<>> /\ Told(i) = heard[i] /\ Counted(i)
         /\ Collected(i) \in Seq(Nat) /\ Len(Collected(i)) = str[i].pending
         /\ heard[i] \o Collected(i) = Frames(1, Len(heard[i]) + str[i].pending)
         /\ Len(heard[i] \o Collected(i)) = Len(heard[i]) + str[i].pending
         /\ str[i].pending = 0 \/ Synced(i)
<1> DEFINE n == Len(heard[i])
           k == str[i].pending
<1>1. hand.got = <<>>
  BY DEF IInv, HandPlace
<1>2. Told(i) = heard[i]
  BY <1>1, ToldSeq DEF IInv
<1>3. Counted(i)
  <2>1. Live(i) /\ ~Retires(i)
    BY DEF IInv, HandPlace, Live, Retires
  <2> QED BY <2>1 DEF IInv, Steady
<1>4. n \in Nat /\ k \in Nat /\ heard[i] \in Seq(Nat)
  BY SlotTypes DEF IInv
<1>5. str[i].pending = 0 \/ Synced(i)
  BY DEF Collectable
<1>6. Expected(i) = Frames(n + 1, n + k)
  BY <1>2 DEF Expected
<1>8. Frames(n + 1, n + k) \in Seq(Nat) /\ Len(Frames(n + 1, n + k)) = k
  <2> HIDE DEF n, k
  <2> QED BY <1>4, FramesSeq
<1>7. Collected(i) = Frames(n + 1, n + k)
  <2>1. CASE k = 0
    <3>1. Collected(i) = <<>>
      BY <2>1 DEF Collected
    <3>2. n + k = n /\ Frames(n + 1, n) = <<>>
      BY <1>4, <2>1, NoFrames
    <3> QED BY <3>1, <3>2
  <2>2. CASE k # 0
    <3>1. gpu[Cust(i)] = <<>>
      BY <1>5, <2>2 DEF Synced
    <3>2. DOMAIN gpu[Cust(i)] = {}
      BY <3>1
    <3>3. Arrives(i) /\ str[i].pending > 0
      BY <1>4, <2>2 DEF IInv, OnGpu, Awaited
    <3>4. pin[i] = Frames(n + 1, n + k)
      BY <1>6, <3>2, <3>3 DEF Arrives
    <3>5. pin[i] \in Seq(Nat) /\ Len(pin[i]) = k
      BY <1>8, <3>4
    <3> DEFINE c == [j \in 1 .. k |-> IF j \in DOMAIN pin[i] THEN pin[i][j] ELSE 0]
    <3>6. Collected(i) = c
      BY DEF Collected
    <3>7. c = pin[i]
      <4> HIDE DEF k
      <4>0. DOMAIN pin[i] = 1 .. k /\ \A j \in 1 .. k : pin[i][j] \in Nat
        BY <3>5
      <4>2. \A j \in 1 .. k : c[j] = pin[i][j]
        BY <4>0
      <4>3. \A j \in 1 .. k : (IF j \in DOMAIN pin[i] THEN pin[i][j] ELSE 0) \in Nat
        BY <4>0
      <4>1. c \in Seq(Nat) /\ Len(c) = k /\ \A j \in 1 .. k : c[j] = pin[i][j]
        BY <1>4, <4>2, <4>3
      <4> HIDE DEF c
      <4> QED BY <3>5, <4>1, SeqEqual
    <3> QED BY <3>4, <3>6, <3>7
  <2> QED BY <2>1, <2>2
<1>9. heard[i] = Frames(1, n)
  BY <1>2, <1>3 DEF Counted
<1> HIDE DEF n, k
<1>10. heard[i] \o Collected(i) = Frames(1, n + k)
  <2>1. Frames(1, n) \o Frames(n + 1, n + k) = Frames(1, n + k)
    BY <1>4, FramesConcat
  <2> QED BY <1>7, <1>9, <2>1
<1>11. Len(heard[i] \o Collected(i)) = Len(heard[i]) + Len(Collected(i))
  <2>1. Collected(i) \in Seq(Nat) /\ heard[i] \in Seq(Nat)
    BY <1>4, <1>7, <1>8
  <2> QED BY <2>1, ConcatProperties, Zenon
<1> QED BY <1>1, <1>2, <1>3, <1>5, <1>7, <1>8, <1>10, <1>11 DEF n, k

LEMMA CollectStep ==
  ASSUME IInv, NEW i \in Slots, hand.slot = i, hand.at \in {"frame", "eager", "finish", "last"},
         Collectable(i), str' = [str EXCEPT ![i].pending = 0],
         UNCHANGED <<batchOn, gpu, pin, table, tick>>,
         hand' \in HandRec, hand'.slot = i, hand'.at # "eager",
         heard' \in [Slots -> Seq(Nat)], \A j \in Slots : j # i => heard'[j] = heard[j],
         heard'[i] \o hand'.got = heard[i] \o Collected(i)
  PROVE  /\ TypeOK' /\ OnGpu' /\ TickPlace' /\ \A j \in Slots : Steady(j)'
         /\ str'[i] = [str[i] EXCEPT !.pending = 0] /\ str'[i].pending = 0
         /\ str'[i].st = str[i].st /\ str'[i].frames = str[i].frames /\ str'[i].bat = str[i].bat
<1> DEFINE r == [str[i] EXCEPT !.pending = 0]
           n == Len(heard[i])
           k == str[i].pending
<1>1. str[i] \in StreamRec /\ str[i].st = "on" /\ Len(str[i].bat) < Batch /\ tick.at # "batch"
  BY InHand, SlotTypes DEF IInv
<1>2. r \in StreamRec /\ r.st = str[i].st /\ r.frames = str[i].frames /\ r.bat = str[i].bat
      /\ r.flushed = str[i].flushed /\ r.pending = 0
  <2>1. 0 \in 0 .. Batch
    BY Numbers
  <2> QED BY <1>1, <2>1 DEF StreamRec
<1>3. str' = [str EXCEPT ![i] = r]
  BY DEF IInv, TypeOK
<1> HIDE DEF r
<1>4. /\ str' \in [Slots -> StreamRec] /\ str'[i] = r
      /\ \A j \in Slots : j # i => str'[j] = str[j]
      /\ \A j \in Slots : Len(str'[j].bat) < Batch \/ (Len(str'[j].bat) = Batch /\ tick'.at = "batch")
  BY <1>1, <1>2, <1>3, SlotUpdate DEF IInv
<1>5. TypeOK'
  BY <1>4 DEF IInv, TypeOK
<1>6. TickPlace'
  BY <1>1, <1>2, <1>4, TickKept
<1>7. /\ Told(i) = heard[i] /\ Counted(i) /\ n \in Nat /\ k \in Nat
      /\ heard[i] \o Collected(i) = Frames(1, n + k)
      /\ Len(heard[i] \o Collected(i)) = n + k
      /\ str[i].pending = 0 \/ Synced(i)
  BY Collecting, SlotTypes DEF IInv
<1> HIDE DEF n, k
<1>8. Told(i)' = Frames(1, n + k) /\ Len(Told(i)') = n + k
  <2>1. Told(i)' = heard'[i] \o hand'.got
    BY DEF Told
  <2> QED BY <1>7, <2>1
<1>9. Held(i)' = Held(i) /\ Held(i) \in 0 .. 1
  BY HeldNumber DEF Held
<1>10. Steady(i)'
  <2>0. Stream(i)
    BY DEF IInv, Steady
  <2>1. Stream(i)'
    <3>1. str'[i].flushed <=> str'[i].frames > Held(i)'
      BY <1>2, <1>4, <1>9, <2>0 DEF Stream
    <3>2. str'[i].frames > Held(i)' => Told(i)' # <<>>
      <4> SUFFICES ASSUME str[i].frames > Held(i) PROVE n + k > 0
        BY <1>2, <1>4, <1>8, <1>9
      <4>1. CASE hand.at = "eager"
        <5>1. k = 1
          BY <4>1 DEF IInv, HandPlace, k
        <5> QED BY <1>7, <5>1
      <4>2. CASE hand.at # "eager"
        <5>1. heard[i] # <<>>
          BY <1>7, <2>0, <4>2 DEF Stream
        <5>2. n > 0
          BY <5>1, SlotTypes DEF IInv, n
        <5> QED BY <1>7, <5>2
      <4> QED BY <4>1, <4>2
    <3>3. tick'.at = "rows" => str'[i].frames > Held(i)'
      BY <1>1, <1>2, <1>4, <1>9, <2>0 DEF Stream
    <3> QED BY <1>1, <1>2, <1>4, <3>1, <3>2, <3>3 DEF Stream
  <2>2. Counted(i)'
    <3>0. n + k + Len(str[i].bat) + Held(i) = str[i].frames
          /\ str[i].bat = Frames(n + k + 1, str[i].frames - Held(i))
      BY <1>7 DEF Counted, n, k
    <3>1. Told(i)' = Frames(1, Len(Told(i)'))
      BY <1>8
    <3>2. Len(Told(i)') + str'[i].pending + Len(str'[i].bat) + Held(i)' = str'[i].frames
      <4>1. Len(str[i].bat) \in Nat /\ str[i].frames \in Nat
        BY SlotTypes DEF IInv
      <4>2. str'[i].pending = 0 /\ str'[i].bat = str[i].bat /\ str'[i].frames = str[i].frames
        BY <1>2, <1>4
      <4>3. n + k + 0 + Len(str[i].bat) + Held(i) = str[i].frames
        BY <1>7, <1>9, <3>0, <4>1
      <4> QED BY <1>8, <1>9, <4>2, <4>3
    <3>3. (n + k) + 0 + 1 = n + k + 1
      BY <1>7
    <3>4. str'[i].bat = Frames(Len(Told(i)') + str'[i].pending + 1, str'[i].frames - Held(i)')
      BY <1>2, <1>4, <1>8, <1>9, <3>0, <3>3
    <3> QED BY <3>1, <3>2, <3>4 DEF Counted, Frames
  <2> QED BY <2>1, <2>2 DEF Steady
<1>11. ASSUME NEW j \in Slots PROVE Steady(j)' /\ Undisturbed(j)
  <2>1. CASE j = i
    <3>1. Undisturbed(i)
      BY <1>2, <1>4, <1>7 DEF Undisturbed
    <3> QED BY <1>10, <2>1, <3>1
  <2>2. CASE j # i
    <3>1. Steady(j)' /\ Told(j)' = Told(j)
      BY <1>4, <2>2, Others DEF IInv
    <3> QED BY <3>1, <1>4, <2>2, Undone
  <2> QED BY <2>1, <2>2
<1>12. OnGpu'
  BY <1>11, Quiet DEF IInv
<1> QED BY <1>2, <1>4, <1>5, <1>6, <1>11, <1>12 DEF r

-----------------------------------------------------------------------------
(* The steps of the slot in hand that collect, deliver or end.              *)

LEMMA CollectFrameIInv == ASSUME IInv, CollectFrame PROVE IInv'
<1>0. PICK i \in Slots : i = hand.slot
  BY InHand DEF CollectFrame
<1>1. /\ hand.at = "frame" /\ Collectable(i) /\ str' = [str EXCEPT ![i].pending = 0]
      /\ hand' = [hand EXCEPT !.at = IF DoPush THEN "push" ELSE "deliver", !.got = Collected(i)]
      /\ UNCHANGED <<batchOn, gpu, pin, table, tick, heard>>
  BY <1>0 DEF CollectFrame
<1>2. Collected(i) \in Seq(Nat)
  BY <1>0, <1>1, Collecting
<1>3. /\ hand' \in HandRec /\ hand'.slot = i /\ hand'.got = Collected(i) /\ hand'.why = hand.why
      /\ hand'.at = IF DoPush THEN "push" ELSE "deliver"
  BY <1>0, <1>1, <1>2 DEF IInv, TypeOK, HandRec
<1>4. /\ TypeOK' /\ OnGpu' /\ TickPlace' /\ \A j \in Slots : Steady(j)'
      /\ str'[i].pending = 0 /\ str'[i].st = str[i].st /\ str'[i].frames = str[i].frames
  <2>1. heard' \in [Slots -> Seq(Nat)] /\ hand'.at # "eager"
    BY <1>1, <1>3 DEF IInv, TypeOK
  <2> QED BY <1>0, <1>1, <1>3, <2>1, CollectStep
<1>5. HandPlace'
  <2>1. str[i].st = "on" /\ i \in tick.codes /\ str[i].frames > 0
    BY <1>0, <1>1 DEF IInv, HandPlace
  <2>2. DoPush' <=> DoPush
    BY <1>1 DEF DoPush
  <2> QED BY <1>1, <1>3, <1>4, <2>1, <2>2 DEF HandPlace
<1>6. EndsWell'
  BY <1>3 DEF IInv, EndsWell
<1> QED BY <1>4, <1>5, <1>6 DEF IInv

LEMMA EagerCollectIInv == ASSUME IInv, EagerCollect PROVE IInv'
<1>0. PICK i \in Slots : i = hand.slot
  BY InHand DEF EagerCollect
<1>1. /\ hand.at = "eager" /\ Collectable(i) /\ str' = [str EXCEPT ![i].pending = 0]
      /\ hand' = [hand EXCEPT !.at = "deliver", !.got = Collected(i)]
      /\ UNCHANGED <<batchOn, gpu, pin, table, tick, heard>>
  BY <1>0 DEF EagerCollect
<1>2. Collected(i) \in Seq(Nat)
  BY <1>0, <1>1, Collecting
<1>3. /\ hand' \in HandRec /\ hand'.slot = i /\ hand'.got = Collected(i) /\ hand'.why = hand.why
      /\ hand'.at = "deliver"
  BY <1>0, <1>1, <1>2 DEF IInv, TypeOK, HandRec
<1>4. /\ TypeOK' /\ OnGpu' /\ TickPlace' /\ \A j \in Slots : Steady(j)'
      /\ str'[i].pending = 0 /\ str'[i].st = str[i].st /\ str'[i].frames = str[i].frames
  <2>1. heard' \in [Slots -> Seq(Nat)] /\ hand'.at # "eager"
    BY <1>1, <1>3 DEF IInv, TypeOK
  <2> QED BY <1>0, <1>1, <1>3, <2>1, CollectStep
<1>5. HandPlace'
  <2>1. str[i].st = "on" /\ i \notin tick.codes /\ str[i].frames > 0 /\ DoPush
    BY <1>0, <1>1 DEF IInv, HandPlace
  <2>2. DoPush' <=> DoPush
    BY <1>1 DEF DoPush
  <2> QED BY <1>1, <1>3, <1>4, <2>1, <2>2 DEF HandPlace
<1>6. EndsWell'
  BY <1>3 DEF IInv, EndsWell
<1> QED BY <1>4, <1>5, <1>6 DEF IInv

\* The client hears what was collected.
LEMMA HeardUpdate ==
  ASSUME IInv, NEW i \in Slots, NEW g \in Seq(Nat), heard' = [heard EXCEPT ![i] = @ \o g]
  PROVE  /\ heard' \in [Slots -> Seq(Nat)] /\ heard'[i] = heard[i] \o g
         /\ heard'[i] \o <<>> = heard[i] \o g
         /\ \A j \in Slots : j # i => heard'[j] = heard[j]
<1>1. heard[i] \in Seq(Nat) /\ heard \in [Slots -> Seq(Nat)]
  BY DEF IInv, TypeOK
<1>2. heard[i] \o g \in Seq(Nat)
  BY <1>1, ConcatProperties, Zenon
<1>3. (heard[i] \o g) \o <<>> = heard[i] \o g
  BY <1>2, ConcatEmptySeq, Zenon
<1>4. heard'[i] = heard[i] \o g
  BY <1>1
<1>5. heard' \in [Slots -> Seq(Nat)]
  BY <1>1, <1>2
<1>6. \A j \in Slots : j # i => heard'[j] = heard[j]
  BY <1>1
<1> QED BY <1>3, <1>4, <1>5, <1>6

LEMMA FinishCollectIInv == ASSUME IInv, FinishCollect PROVE IInv'
<1>0. PICK i \in Slots : i = hand.slot
  BY InHand DEF FinishCollect
<1>1. /\ hand.at = "finish" /\ Collectable(i) /\ str' = [str EXCEPT ![i].pending = 0]
      /\ heard' = [heard EXCEPT ![i] = @ \o Collected(i)]
      /\ UNCHANGED <<batchOn, gpu, pin, table, tick>>
  BY <1>0 DEF FinishCollect
<1>2. Collected(i) \in Seq(Nat) /\ hand.got = <<>>
  BY <1>0, <1>1, Collecting
<1>3. /\ hand' \in HandRec /\ hand'.slot = i /\ hand'.got = <<>>
      /\ \/ hand'.at = "tail" /\ hand'.why = hand.why
         \/ hand'.at = "retire" /\ hand'.why = "gone"
  <2>1. CASE Goto("tail")
    BY <1>0, <1>2, <2>1 DEF Goto, IInv, TypeOK, HandRec
  <2>2. CASE Retiring("gone")
    BY <1>0, <1>2, <2>2 DEF Retiring, IInv, TypeOK, HandRec
  <2> QED BY <2>1, <2>2 DEF FinishCollect
<1>4. /\ TypeOK' /\ OnGpu' /\ TickPlace' /\ \A j \in Slots : Steady(j)'
      /\ str'[i].pending = 0 /\ str'[i].st = str[i].st
  <2>1. /\ heard' \in [Slots -> Seq(Nat)] /\ heard'[i] \o <<>> = heard[i] \o Collected(i)
        /\ \A j \in Slots : j # i => heard'[j] = heard[j]
    BY <1>1, <1>2, HeardUpdate
  <2>2. heard'[i] \o hand'.got = heard[i] \o Collected(i) /\ hand'.at # "eager"
    BY <1>3, <2>1
  <2> QED BY <1>0, <1>1, <1>3, <2>1, <2>2, CollectStep
<1>5. HandPlace'
  <2>1. str[i].st = "on" /\ (hand.why = "eos" \/ ~batchOn => i \notin tick.codes)
    BY <1>0, <1>1 DEF IInv, HandPlace
  <2> QED BY <1>1, <1>3, <1>4, <2>1 DEF HandPlace
<1>6. EndsWell'
  BY <1>3 DEF IInv, EndsWell
<1> QED BY <1>4, <1>5, <1>6 DEF IInv

LEMMA FinishLastIInv == ASSUME IInv, FinishLast PROVE IInv'
<1>0. PICK i \in Slots : i = hand.slot
  BY InHand DEF FinishLast
<1>1. /\ hand.at = "last" /\ Collectable(i) /\ str' = [str EXCEPT ![i].pending = 0]
      /\ heard' = [heard EXCEPT ![i] = @ \o Collected(i)]
      /\ hand' = [hand EXCEPT !.at = "retire"]
      /\ UNCHANGED <<batchOn, gpu, pin, table, tick>>
  BY <1>0 DEF FinishLast, Goto
<1>2. /\ Collected(i) \in Seq(Nat) /\ hand.got = <<>> /\ Counted(i) /\ Told(i) = heard[i]
      /\ heard[i] \o Collected(i) = Frames(1, Len(heard[i]) + str[i].pending)
  BY <1>0, <1>1, Collecting
<1>3. /\ hand' \in HandRec /\ hand'.slot = i /\ hand'.got = <<>> /\ hand'.at = "retire"
      /\ hand'.why = hand.why
  BY <1>0, <1>1, <1>2 DEF IInv, TypeOK, HandRec
<1>4. /\ heard' \in [Slots -> Seq(Nat)] /\ heard'[i] \o <<>> = heard[i] \o Collected(i)
      /\ heard'[i] = heard[i] \o Collected(i)
      /\ \A j \in Slots : j # i => heard'[j] = heard[j]
  BY <1>1, <1>2, HeardUpdate
<1>5. /\ TypeOK' /\ OnGpu' /\ TickPlace' /\ \A j \in Slots : Steady(j)'
      /\ str'[i].st = str[i].st /\ str'[i].frames = str[i].frames
  <2>2. heard'[i] \o hand'.got = heard[i] \o Collected(i) /\ hand'.at # "eager"
    BY <1>3, <1>4
  <2> QED BY <1>0, <1>1, <1>3, <1>4, <2>2, CollectStep
<1>6. str[i].st = "on" /\ str[i].bat = <<>> /\ (hand.why = "eos" \/ ~batchOn => i \notin tick.codes)
  BY <1>0, <1>1 DEF IInv, HandPlace
<1>7. HandPlace'
  BY <1>3, <1>5, <1>6 DEF HandPlace
<1>8. EndsWell'
  <2>1. ASSUME hand.why = "eos" \/ ~batchOn PROVE heard'[i] = Frames(1, str'[i].frames)
    <3>1. Held(i) = 0
      BY <1>6, <2>1 DEF Held
    <3>2. Len(heard[i]) + str[i].pending + 0 + 0 = str[i].frames
      BY <1>2, <1>6, <3>1 DEF Counted
    <3>3. Len(heard[i]) + str[i].pending = str[i].frames
      BY <3>2, SlotTypes DEF IInv
    <3> QED BY <1>2, <1>4, <1>5, <3>3
  <2> QED BY <1>1, <1>3, <2>1 DEF IInv, EndsWell
<1> QED BY <1>5, <1>7, <1>8 DEF IInv

\* A step that hands the collected frames on, or puts the slot down, and
\* leaves its stream alone.
LEMMA HandedOn ==
  ASSUME IInv, NEW i \in Slots, hand.slot = i, hand.at # "rest",
         UNCHANGED <<batchOn, str, gpu, pin, table, tick>>,
         hand' \in HandRec, hand'.slot = i \/ hand' = Rest, hand'.at # "eager",
         heard' \in [Slots -> Seq(Nat)], \A j \in Slots : j # i => heard'[j] = heard[j],
         Told(i)' = Told(i) \/ (str[i].pending = 0 /\ Retires(i)'),
         ~Retires(i)' => /\ hand.at \notin {"eager", "retire"}
                         /\ hand' = Rest => str[i].frames > Held(i) /\ str[i].frames < FrameCap
  PROVE  TypeOK' /\ OnGpu' /\ \A j \in Slots : Steady(j)'
<1>1. str[i].st = "on" /\ Live(i) /\ tick.at # "batch"
  BY InHand DEF Live
<1>2. TypeOK'
  BY DEF IInv, TypeOK
<1>3. Held(i)' = Held(i)
  BY DEF Held
<1>4. Stream(i)'
  <2>0. Stream(i)
    BY DEF IInv, Steady
  <2>1. hand'.slot # i => hand' = Rest
    OBVIOUS
  <2>2. ASSUME ~Retires(i)', str[i].frames > Held(i) PROVE Told(i)' # <<>>
    BY <2>0, <2>2 DEF Stream
  <2>3. CASE Retires(i)'
    BY <1>1, <1>3, <2>0, <2>3 DEF Stream, Retires
  <2>4. CASE ~Retires(i)'
    <3>1. hand' = Rest => str[i].frames > Held(i) /\ str[i].frames < FrameCap
      BY <2>4
    <3> QED BY <1>1, <1>3, <2>0, <2>1, <2>2, <2>4, <3>1 DEF Stream
  <2> QED BY <2>3, <2>4
<1>5. ~Retires(i)' => Counted(i)'
  <2> SUFFICES ASSUME ~Retires(i)' PROVE Counted(i)'
    OBVIOUS
  <2>1. Counted(i) /\ Told(i)' = Told(i)
    BY <1>1 DEF IInv, Steady, Retires
  <2> QED BY <1>3, <2>1 DEF Counted, Frames
<1>6. ASSUME NEW j \in Slots PROVE Steady(j)' /\ Undisturbed(j)
  <2>1. CASE j = i
    <3>1. Undisturbed(i)
      BY DEF Undisturbed, Live
    <3> QED BY <1>4, <1>5, <2>1, <3>1 DEF Steady
  <2>2. CASE j # i
    <3>0. hand'.slot # j
      BY <2>2, Numbers DEF Rest, Slots
    <3>1. Steady(j)' /\ Told(j)' = Told(j)
      BY <2>2, <3>0, Others DEF IInv
    <3> QED BY <3>1, <2>2, Undone
  <2> QED BY <2>1, <2>2
<1>7. OnGpu'
  BY <1>6, Quiet DEF IInv
<1> QED BY <1>2, <1>6, <1>7

LEMMA CudaErrorIInv == ASSUME IInv, CudaError PROVE IInv'
<1>0. PICK i \in Slots : i = hand.slot
  BY InHand DEF CudaError
<1>1. /\ hand.at \in {"frame", "push", "eager", "finish", "tail", "last"}
      /\ UNCHANGED <<batchOn, str, gpu, pin, table, tick, heard>>
      /\ hand' = [hand EXCEPT !.at = "retire", !.why = "cuda", !.got = <<>>]
  BY DEF CudaError, Retiring
<1>2. /\ hand' \in HandRec /\ hand'.slot = i /\ hand'.at = "retire" /\ hand'.why = "cuda"
      /\ hand'.got = <<>>
  <2>1. <<>> \in Seq(Nat) /\ hand \in HandRec
    BY DEF IInv, TypeOK
  <2> QED BY <1>0, <1>1, <2>1 DEF HandRec
<1>3. Retires(i)'
  BY <1>2 DEF Retires
<1>4. Told(i)' = Told(i) \/ str[i].pending = 0
  <2>1. CASE hand.at = "push"
    BY <1>0, <2>1 DEF IInv, HandPlace
  <2>2. CASE hand.at # "push"
    <3>0. hand.at \in {"frame", "eager", "finish", "tail", "last", "retire"}
      BY <1>1, <2>2
    <3>1. hand.got = <<>>
      BY <3>0 DEF IInv, HandPlace
    <3> QED BY <1>0, <1>1, <1>2, <3>1 DEF Told
  <2> QED BY <2>1, <2>2
<1>5. TypeOK' /\ OnGpu' /\ \A j \in Slots : Steady(j)'
  <2>1. heard' \in [Slots -> Seq(Nat)] /\ hand'.at # "eager" /\ hand.at # "rest"
    BY <1>1, <1>2 DEF IInv, TypeOK
  <2> QED BY <1>0, <1>1, <1>2, <1>3, <1>4, <2>1, HandedOn
<1>6. str[i].st = "on"
  BY <1>0, <1>1, InHand
<1>7. TickPlace'
  BY <1>0, <1>1, <1>2, <1>6, TickKept
<1>8. HandPlace'
  BY <1>1, <1>2, <1>6 DEF HandPlace
<1>9. EndsWell'
  BY <1>2 DEF EndsWell
<1> QED BY <1>5, <1>7, <1>8, <1>9 DEF IInv

LEMMA DeliverIInv == ASSUME IInv, Deliver PROVE IInv'
<1>0. PICK i \in Slots : i = hand.slot
  BY InHand DEF Deliver
<1>1. /\ hand.at = "deliver" /\ heard' = [heard EXCEPT ![i] = @ \o hand.got]
      /\ UNCHANGED <<batchOn, str, gpu, pin, table, tick>>
  BY <1>0 DEF Deliver
<1>2. hand.got \in Seq(Nat) /\ hand \in HandRec /\ <<>> \in Seq(Nat)
  BY DEF IInv, TypeOK, HandRec
<1>3. \/ /\ hand' = Rest /\ str[i].frames < FrameCap
      \/ /\ hand' \in HandRec /\ hand'.slot = i /\ hand'.at = "finish" /\ hand'.why = "cap"
         /\ hand'.got = <<>> /\ str[i].frames >= FrameCap
      \/ /\ hand' \in HandRec /\ hand'.slot = i /\ hand'.at = "retire" /\ hand'.why = "gone"
         /\ hand'.got = <<>>
  <2>1. CASE Retiring("gone")
    BY <1>0, <1>2, <2>1 DEF Retiring, HandRec
  <2>2. CASE hand' = Rest /\ str[i].frames < FrameCap
    BY <2>2
  <2>3. CASE str[i].frames >= FrameCap /\ hand' = [hand EXCEPT !.at = "finish", !.why = "cap", !.got = <<>>]
    BY <1>0, <1>2, <2>3 DEF HandRec
  <2> QED BY <1>0, <2>1, <2>2, <2>3 DEF Deliver
<1>4. /\ heard' \in [Slots -> Seq(Nat)] /\ heard'[i] = heard[i] \o hand.got
      /\ heard'[i] \o <<>> = heard[i] \o hand.got
      /\ \A j \in Slots : j # i => heard'[j] = heard[j]
  BY <1>1, <1>2, HeardUpdate
<1>5. hand'.slot = 0 \/ (hand'.slot = i /\ hand'.got = <<>>)
  BY <1>3 DEF Rest
<1>6. Told(i)' = Told(i)
  <2>1. i # 0
    BY DEF Slots
  <2> QED BY <1>0, <1>4, <1>5, <2>1 DEF Told
<1>7. /\ str[i].st = "on" /\ str[i].frames > 0
      /\ IF DoPush THEN i \notin tick.codes ELSE i \in tick.codes /\ str[i].pending = 0
  BY <1>0, <1>1 DEF IInv, HandPlace
<1>8. str[i].frames > Held(i)
  <2>1. CASE DoPush
    <3>1. Held(i) = 0
      BY <1>7, <2>1 DEF Held
    <3> QED BY <1>7, <3>1
  <2>2. CASE ~DoPush
    <3>1. tick.at = "rows"
      BY <1>1, <2>2, InHand DEF DoPush, IInv, TypeOK, TickRec
    <3> QED BY <1>7, <3>1 DEF IInv, Steady, Stream
  <2> QED BY <2>1, <2>2
<1>9. TypeOK' /\ OnGpu' /\ \A j \in Slots : Steady(j)'
  <2>1. hand' \in HandRec /\ (hand'.slot = i \/ hand' = Rest) /\ hand'.at # "eager"
    <3>1. Rest \in HandRec /\ Rest.at = "rest"
      BY Numbers DEF Rest, HandRec, Addr
    <3> QED BY <1>3, <3>1
  <2>2. hand' = Rest => str[i].frames > Held(i) /\ str[i].frames < FrameCap
    BY <1>3, <1>8 DEF Rest
  <2> QED BY <1>0, <1>1, <1>4, <1>6, <2>1, <2>2, HandedOn
<1>10. HandPlace' /\ EndsWell'
  <2>1. CASE hand' = Rest
    BY <2>1 DEF HandPlace, EndsWell, Rest
  <2>2. CASE hand'.at = "finish" /\ hand'.why = "cap" /\ hand'.got = <<>> /\ hand'.slot = i
    <3>1. ~batchOn => i \notin tick.codes
      BY <1>7 DEF DoPush
    <3> QED BY <1>1, <1>7, <2>2, <3>1 DEF HandPlace, EndsWell
  <2>3. CASE hand'.at = "retire" /\ hand'.why = "gone" /\ hand'.got = <<>> /\ hand'.slot = i
    BY <1>1, <1>7, <2>3 DEF HandPlace, EndsWell
  <2> QED BY <1>3, <2>1, <2>2, <2>3
<1>11. TickPlace'
  <2>1. CASE hand'.slot = i
    BY <1>0, <1>1, <1>7, <2>1, TickKept
  <2>2. CASE hand' = Rest
    <3>0. TickPlace /\ tick.codes \subseteq Slots /\ tick.todo \subseteq Slots /\ 0 \notin Slots
          /\ tick.at # "batch" /\ hand'.slot = 0
      <4>1. TickPlace /\ tick.codes \subseteq Slots /\ tick.todo \subseteq Slots
        BY DEF IInv, TypeOK, TickRec
      <4>2. 0 \notin Slots /\ hand'.slot = 0
        BY <2>2 DEF Slots, Rest
      <4>3. tick.at # "batch"
        BY <1>1, InHand
      <4> QED BY <4>1, <4>2, <4>3
    <3>1. ASSUME tick.at = "idle" \/ ~batchOn PROVE tick.codes = {}
      <4>1. tick.codes \subseteq {i} /\ DoPush
        BY <1>0, <3>0, <3>1 DEF TickPlace, DoPush
      <4> QED BY <1>7, <4>1
    <3>2. ASSUME tick.at = "rows", batchOn, NEW j \in Slots, Live(j), j \notin tick.todo
          PROVE  j \in tick.codes /\ str[j].pending = 0
      <4>1. CASE j = i
        BY <1>7, <3>2, <4>1 DEF DoPush
      <4>2. CASE j # i
        BY <1>0, <3>0, <3>2, <4>2 DEF TickPlace
      <4> QED BY <4>1, <4>2
    <3> QED BY <1>1, <2>2, <3>0, <3>1, <3>2 DEF TickPlace, Live
  <2> QED BY <1>3, <2>1, <2>2
<1> QED BY <1>9, <1>10, <1>11 DEF IInv

LEMMA RetireIInv == ASSUME IInv, Retire PROVE IInv'
<1>0. PICK i \in Slots : i = hand.slot
  BY InHand DEF Retire
<1>1. /\ hand.at = "retire" /\ Synced(i) /\ str' = [str EXCEPT ![i] = NoStream]
      /\ pin' = [pin EXCEPT ![i] = <<>>] /\ heard' = [heard EXCEPT ![i] = <<>>]
      /\ tick' = [tick EXCEPT !.codes = @ \ {i}] /\ hand' = Rest
      /\ UNCHANGED <<batchOn, gpu, table>>
  BY <1>0 DEF Retire
<1>2. tick.at # "batch" /\ tick \in TickRec
  BY <1>1, InHand DEF IInv, TypeOK
<1>3. /\ tick' \in TickRec /\ tick'.at = tick.at /\ tick'.todo = tick.todo
      /\ tick'.codes = tick.codes \ {i}
  BY <1>1, <1>2 DEF TickRec
<1>4. NoStream \in StreamRec /\ Len(NoStream.bat) = 0
  BY Numbers DEF NoStream, StreamRec, Addr
<1>5. /\ str' \in [Slots -> StreamRec] /\ str'[i] = NoStream
      /\ \A j \in Slots : j # i => str'[j] = str[j]
      /\ \A j \in Slots : Len(str'[j].bat) < Batch \/ (Len(str'[j].bat) = Batch /\ tick'.at = "batch")
  BY <1>1, <1>2, <1>4, Numbers, SlotUpdate DEF IInv
<1>6. TypeOK'
  <2>1. pin' \in [Slots -> Seq(Nat)] /\ \A j \in Slots : Len(pin'[j]) <= Batch
    BY <1>1, Numbers DEF IInv, TypeOK
  <2>2. heard' \in [Slots -> Seq(Nat)]
    BY <1>1 DEF IInv, TypeOK
  <2>3. Rest \in HandRec
    BY Numbers DEF Rest, HandRec, Addr
  <2> QED BY <1>1, <1>3, <1>5, <2>1, <2>2, <2>3 DEF IInv, TypeOK
<1>7. hand'.slot = 0 /\ 0 \notin Slots
  BY <1>1, Numbers DEF Rest, Slots
<1>8. ASSUME NEW j \in Slots PROVE Steady(j)' /\ Undisturbed(j)
  <2>1. CASE j = i
    <3>1. /\ str'[i].st # "on" /\ str'[i].frames = 0 /\ str'[i].pending = 0 /\ str'[i].bat = <<>>
          /\ ~str'[i].flushed
      BY <1>5 DEF NoStream
    <3>2. heard'[i] = <<>> /\ hand'.slot # i /\ i \notin tick'.codes
      BY <1>1, <1>3, <1>7 DEF IInv, TypeOK
    <3>3. Steady(i)'
      BY <3>1, <3>2, FreshNext
    <3>4. Undisturbed(i)
      BY <1>1, <3>1 DEF Undisturbed
    <3> QED BY <2>1, <3>3, <3>4
  <2>2. CASE j # i
    <3>0. heard'[j] = heard[j] /\ pin'[j] = pin[j] /\ (j \in tick'.codes <=> j \in tick.codes)
      BY <1>1, <1>3, <2>2 DEF IInv, TypeOK
    <3>1. Steady(j)' /\ Told(j)' = Told(j)
      BY <1>0, <1>5, <1>7, <2>2, <3>0, Others DEF IInv
    <3> QED BY <1>5, <2>2, <3>0, <3>1, Undone
  <2> QED BY <2>1, <2>2
<1>9. OnGpu'
  BY <1>1, <1>8, Quiet DEF IInv
<1>10. HandPlace' /\ EndsWell'
  BY <1>1 DEF HandPlace, EndsWell, Rest
<1>11. TickPlace'
  <2>0. TickPlace /\ tick.codes \subseteq Slots /\ tick.todo \subseteq Slots
    BY <1>2 DEF IInv, TickRec
  <2>1. str'[i].st = "none" /\ str[i].st = "on"
    BY <1>0, <1>1, <1>5, InHand DEF NoStream
  <2>2. tick.at = "idle" \/ ~batchOn => tick'.codes = {}
    BY <1>0, <1>3, <2>0 DEF TickPlace
  <2>3. tick.at = "idle" => tick' = [Idle EXCEPT !.codes = tick'.codes]
    <3> SUFFICES ASSUME tick.at = "idle" PROVE tick' = [Idle EXCEPT !.codes = tick'.codes]
      OBVIOUS
    <3>1. tick = [Idle EXCEPT !.codes = tick.codes]
      BY <2>0 DEF TickPlace
    <3> QED BY <1>1, <1>3, <3>1 DEF Idle
  <2>4. tick.at # "idle" => \A j \in Slots : str'[j].st # "fresh"
    BY <1>5, <2>0, <2>1 DEF TickPlace
  <2>5. i \notin tick.todo
    <3>1. CASE tick.at = "idle"
      BY <1>0, <2>0, <3>1 DEF TickPlace, Idle
    <3>2. CASE tick.at = "rows"
      BY <1>0, <2>0, <3>2 DEF TickPlace
    <3> QED BY <1>2, <3>1, <3>2 DEF TickRec
  <2>6. \A j \in tick'.codes \cup tick'.todo : str'[j].st = "on"
    BY <1>3, <1>5, <2>0, <2>5 DEF TickPlace
  <2>7. ASSUME tick.at = "rows", batchOn, NEW j \in Slots, Live(j)', j \notin tick.todo
        PROVE  j \in tick'.codes /\ str'[j].pending = 0
    <3>1. j # i
      BY <2>1, <2>7 DEF Live
    <3>2. Live(j) /\ str'[j] = str[j]
      BY <1>5, <2>7, <3>1 DEF Live
    <3> QED BY <1>0, <1>3, <2>0, <2>7, <3>1, <3>2 DEF TickPlace
  <2>8. tick'.codes \cap tick'.todo = {}
    BY <1>3, <2>0 DEF TickPlace
  <2> QED BY <1>1, <1>2, <1>3, <1>7, <2>0, <2>2, <2>3, <2>4, <2>6, <2>7, <2>8 DEF TickPlace
<1> QED BY <1>6, <1>8, <1>9, <1>10, <1>11 DEF IInv

-----------------------------------------------------------------------------
(* Pushes of one stream.                                                    *)

\* A frame that is held joins the accumulator.
LEMMA AppendOne ==
  ASSUME IInv, NEW i \in Slots, Counted(i), i \in tick.codes,
         NEW b, b = Append(str[i].bat, str[i].frames)
  PROVE  /\ b \in Seq(Nat) /\ Len(b) = Len(str[i].bat) + 1
         /\ Len(Told(i)) + str[i].pending + Len(b) = str[i].frames
         /\ b = Frames(Len(Told(i)) + str[i].pending + 1, str[i].frames)
<1> DEFINE m == Len(Told(i)) + str[i].pending
           k == Len(str[i].bat)
           f == str[i].frames
<1>1. m \in Nat /\ k \in Nat /\ f \in Nat /\ str[i].bat \in Seq(Nat)
  BY SlotTypes, ToldSeq DEF IInv
<1>2. Held(i) = 1
  BY DEF Held
<1>3. m + k + 1 = f /\ str[i].bat = Frames(m + 1, f - 1)
  BY <1>2 DEF Counted
<1>4. b \in Seq(Nat) /\ Len(b) = k + 1
  BY <1>1
<1> HIDE DEF m, k, f
<1>5. f - 1 = m + k
  BY <1>1, <1>3
<1>6. Append(Frames(m + 1, m + k), m + k + 1) = Frames(m + 1, m + k + 1)
  BY <1>1, FramesAppend
<1>7. b = Frames(m + 1, f)
  BY <1>3, <1>5, <1>6 DEF f
<1>8. m + (k + 1) = f
  BY <1>1, <1>3
<1> QED BY <1>4, <1>7, <1>8 DEF m, k, f

\* An operation at the end of a queue, and what it changes.
Enqueues(c0, o) == gpu' = [gpu EXCEPT ![c0] = Append(@, o)]

EnqueuedAt(c0, e, o) ==
  /\ gpu' \in [0 .. NCust - 1 -> Seq(Op)]
  /\ \A c \in 0 .. NCust - 1 : \A p \in DOMAIN gpu'[c] :
       \/ p \in DOMAIN gpu[c] /\ gpu'[c][p] = gpu[c][p]
       \/ c = c0 /\ p = e /\ gpu'[c][p] = o
  /\ \A c \in 0 .. NCust - 1 : \A p \in DOMAIN gpu[c] :
       p \in DOMAIN gpu'[c] /\ gpu'[c][p] = gpu[c][p]
  /\ e \in DOMAIN gpu'[c0] /\ gpu'[c0][e] = o

LEMMA Enqueued ==
  ASSUME TypeOK, NEW c0 \in 0 .. NCust - 1, NEW o \in Op, NEW e, e = Len(gpu[c0]) + 1,
         Enqueues(c0, o)
  PROVE  EnqueuedAt(c0, e, o)
<1> USE DEF Enqueues
<1>1. gpu \in [0 .. NCust - 1 -> Seq(Op)]
  BY DEF TypeOK
<1> DEFINE s == gpu[c0]
<1>2. s \in Seq(Op)
  BY <1>1
<1> HIDE DEF s
<1>3. /\ Append(s, o) \in Seq(Op) /\ Len(Append(s, o)) = Len(s) + 1
      /\ DOMAIN Append(s, o) = 1 .. Len(s) + 1 /\ DOMAIN s = 1 .. Len(s) /\ Len(s) \in Nat
      /\ \A p \in 1 .. Len(s) : Append(s, o)[p] = s[p]
      /\ Append(s, o)[Len(s) + 1] = o
  BY <1>2
<1>4. gpu'[c0] = Append(s, o) /\ \A c \in 0 .. NCust - 1 : c # c0 => gpu'[c] = gpu[c]
  BY <1>1 DEF s
<1>5. gpu' \in [0 .. NCust - 1 -> Seq(Op)]
  BY <1>1, <1>3 DEF s
<1>6. ASSUME NEW c \in 0 .. NCust - 1, NEW p \in DOMAIN gpu'[c]
      PROVE  \/ p \in DOMAIN gpu[c] /\ gpu'[c][p] = gpu[c][p]
             \/ c = c0 /\ p = Len(s) + 1 /\ gpu'[c][p] = o
  <2>1. CASE c # c0
    BY <1>4, <1>6, <2>1
  <2>2. CASE c = c0
    <3>1. p \in 1 .. Len(s) + 1
      BY <1>3, <1>4, <1>6, <2>2
    <3>2. CASE p = Len(s) + 1
      BY <1>3, <1>4, <2>2, <3>2
    <3>3. CASE p # Len(s) + 1
      <4>1. p \in 1 .. Len(s)
        BY <1>3, <3>1, <3>3
      <4> QED BY <1>3, <1>4, <2>2, <4>1 DEF s
    <3> QED BY <3>2, <3>3
  <2> QED BY <2>1, <2>2
<1>7. ASSUME NEW c \in 0 .. NCust - 1, NEW p \in DOMAIN gpu[c]
      PROVE  p \in DOMAIN gpu'[c] /\ gpu'[c][p] = gpu[c][p]
  <2>1. CASE c # c0
    BY <1>4, <1>7, <2>1
  <2>2. CASE c = c0
    <3>1. p \in 1 .. Len(s) /\ p \in 1 .. Len(s) + 1
      BY <1>3, <1>7, <2>2 DEF s
    <3> QED BY <1>3, <1>4, <2>2, <3>1 DEF s
  <2> QED BY <2>1, <2>2
<1>8. Len(s) + 1 \in DOMAIN gpu'[c0] /\ gpu'[c0][Len(s) + 1] = o
  BY <1>3, <1>4
<1>9. e = Len(s) + 1
  BY DEF s
<1> HIDE DEF s
<1> QED BY <1>5, <1>6, <1>7, <1>8, <1>9 DEF EnqueuedAt

\* The frames of b are pushed for slot i.
IsPushed(i, b) == gpu' = [gpu EXCEPT ![Cust(i)] = Append(@, PushOp(i, b))]

LEMMA PushOnGpu ==
  ASSUME IInv, NEW i \in Slots, NEW b \in Seq(Nat), Len(b) > 0, str[i].pending = 0,
         str'[i].pending = Len(b), Live(i)', Told(i)' = Told(i),
         b = Frames(Len(Told(i)) + 1, Len(Told(i)) + Len(b)),
         IsPushed(i, b), UNCHANGED <<batchOn, pin, table>>,
         \A j \in Slots : j # i => str'[j] = str[j] /\ Told(j)' = Told(j)
  PROVE  OnGpu' /\ gpu' \in [0 .. NCust - 1 -> Seq(Op)]
<1>1. PICK c0 \in 0 .. NCust - 1 : c0 = Cust(i)
  BY CustPlace
<1>0. PICK e : e = Len(gpu[c0]) + 1
  OBVIOUS
<1>20. PICK o : o = PushOp(i, b)
  OBVIOUS
<1>2. /\ o \in Op /\ o.op = "push" /\ o.slots = <<i>> /\ o.frames = <<b>>
      /\ DOMAIN o.slots = {1} /\ DOMAIN o.frames = {1} /\ o.slots[1] = i /\ o.frames[1] = b
      /\ o.slots # <<>>
  BY <1>20 DEF PushOp, Op
<1>3. TypeOK /\ InFlight /\ Awaited /\ Ordered /\ TableOk
  BY DEF IInv, OnGpu
<1>4. gpu' = [gpu EXCEPT ![c0] = Append(@, o)]
  BY <1>1, <1>20 DEF IsPushed
<1>5. Cust(i)' = c0 /\ \A j : Cust(j)' = Cust(j)
  BY <1>1 DEF Cust
<1>6. /\ gpu' \in [0 .. NCust - 1 -> Seq(Op)]
      /\ \A c \in 0 .. NCust - 1 : \A p \in DOMAIN gpu'[c] :
           \/ p \in DOMAIN gpu[c] /\ gpu'[c][p] = gpu[c][p]
           \/ c = c0 /\ p = e /\ gpu'[c][p] = o
      /\ \A c \in 0 .. NCust - 1 : \A p \in DOMAIN gpu[c] :
           p \in DOMAIN gpu'[c] /\ gpu'[c][p] = gpu[c][p]
      /\ e \in DOMAIN gpu'[c0] /\ gpu'[c0][e] = o
  <2>1. o \in Op
    BY <1>2
  <2>2. TypeOK /\ Enqueues(c0, o)
    BY <1>3, <1>4 DEF Enqueues
  <2>3. EnqueuedAt(c0, e, o)
    BY <1>0, <2>1, <2>2, Enqueued, Zenon
  <2> QED BY <2>3 DEF EnqueuedAt
<1>7. DOMAIN gpu' = 0 .. NCust - 1 /\ DOMAIN gpu = 0 .. NCust - 1
  BY <1>3, <1>6, Queues
<1>8. \A j \in Slots : j # i => Expected(j)' = Expected(j)
  BY ExpectedKept
<1>9. Expected(i)' = b
  BY DEF Expected, Frames
<1>10. ASSUME NEW c \in 0 .. NCust - 1, NEW p \in DOMAIN gpu'[c],
              NEW n \in DOMAIN gpu'[c][p].slots, NEW j \in Slots, j = gpu'[c][p].slots[n]
       PROVE  /\ Live(j)' /\ Cust(j)' = c /\ str'[j].pending > 0
              /\ n \in DOMAIN gpu'[c][p].frames /\ gpu'[c][p].frames[n] = Expected(j)'
  <2>1. CASE p \in DOMAIN gpu[c] /\ gpu'[c][p] = gpu[c][p]
    <3>0. p \in DOMAIN gpu[c]
      BY <2>1
    <3>1. n \in DOMAIN gpu[c][p].slots /\ j = gpu[c][p].slots[n]
      BY <1>10, <2>1
    <3>2. /\ Live(j) /\ Cust(j) = c /\ str[j].pending > 0
          /\ n \in DOMAIN gpu[c][p].frames /\ gpu[c][p].frames[n] = Expected(j)
      BY <1>3, <3>0, <3>1, Waits
    <3>3. j # i
      BY <1>3, <3>0, <3>1, NoneFor
    <3>4. str'[j] = str[j] /\ Live(j)' /\ Cust(j)' = c /\ Expected(j)' = Expected(j)
      BY <1>5, <1>8, <3>2, <3>3 DEF Live
    <3> QED BY <2>1, <3>2, <3>4
  <2>2. CASE c = c0 /\ p = e /\ gpu'[c][p] = o
    <3>1. n = 1 /\ j = i /\ gpu'[c][p].frames[n] = b /\ n \in DOMAIN gpu'[c][p].frames
      BY <1>2, <1>10, <2>2
    <3> QED BY <1>5, <1>9, <2>2, <3>1
  <2> QED BY <1>6, <2>1, <2>2
<1>11. InFlight'
  BY <1>7, <1>10 DEF InFlight, Brings
<1>12. Awaited'
  <2> SUFFICES ASSUME NEW j \in Slots, str'[j].pending > 0
               PROVE  \/ pin[j] = Expected(j)'
                      \/ \E p \in DOMAIN gpu'[Cust(j)] : Places(gpu'[Cust(j)][p], j) # {}
    BY <1>5 DEF Awaited, Arrives, Places
  <2>1. CASE j = i
    <3>1. 1 \in Places(o, i)
      BY <1>2 DEF Places
    <3>2. e \in DOMAIN gpu'[Cust(i)] /\ gpu'[Cust(i)][e] = o
      BY <1>1, <1>6
    <3> QED BY <2>1, <3>1, <3>2
  <2>2. CASE j # i
    <3>1. Arrives(j) /\ str[j].pending > 0
      BY <1>3, <2>2 DEF Awaited
    <3>2. CASE pin[j] = Expected(j)
      BY <1>8, <2>2, <3>2
    <3>3. CASE \E p \in DOMAIN gpu[Cust(j)] : Places(gpu[Cust(j)][p], j) # {}
      <4>1. PICK p \in DOMAIN gpu[Cust(j)] : Places(gpu[Cust(j)][p], j) # {}
        BY <3>3
      <4>2. p \in DOMAIN gpu'[Cust(j)] /\ gpu'[Cust(j)][p] = gpu[Cust(j)][p]
        BY <1>6, CustPlace
      <4> QED BY <4>1, <4>2
    <3> QED BY <3>1, <3>2, <3>3 DEF Arrives
  <2> QED BY <2>1, <2>2
<1>13. Ordered'
  <2> SUFFICES ASSUME NEW c \in 0 .. NCust - 1, NEW p \in DOMAIN gpu'[c]
               PROVE  /\ gpu'[c][p].op # "push" => c = 0
                      /\ gpu'[c][p].op # "table" => gpu'[c][p].slots # <<>>
                      /\ gpu'[c][p].op = "table" =>
                           gpu'[c][p].slots = <<>>
                           /\ \E q \in DOMAIN gpu'[c] : q > p /\ gpu'[c][q].op = "batch"
    BY <1>7 DEF Ordered
  <2>1. CASE p \in DOMAIN gpu[c] /\ gpu'[c][p] = gpu[c][p]
    <3>1. /\ gpu[c][p].op # "push" => c = 0
          /\ gpu[c][p].op # "table" => gpu[c][p].slots # <<>>
          /\ gpu[c][p].op = "table" =>
               gpu[c][p].slots = <<>> /\ \E q \in DOMAIN gpu[c] : q > p /\ gpu[c][q].op = "batch"
      BY <1>3, <1>7, <2>1 DEF Ordered
    <3> QED BY <1>6, <2>1, <3>1
  <2>2. CASE gpu'[c][p] = o
    BY <1>2, <2>2
  <2> QED BY <1>6, <2>1, <2>2
<1>14. TableOk'
  <2>0. 0 \in 0 .. NCust - 1
    BY Numbers
  <2>1. table.dev = table.host \/ \E q \in DOMAIN gpu'[0] : gpu'[0][q].op = "table"
    BY <1>3, <1>6, <2>0 DEF TableOk
  <2>2. ASSUME NEW p \in DOMAIN gpu'[0], gpu'[0][p].op = "batch"
        PROVE  /\ DOMAIN gpu'[0][p].addrs = DOMAIN gpu'[0][p].slots
               /\ gpu'[0][p].addrs = table.host
               /\ \/ table.dev = table.host
                  \/ \E q \in DOMAIN gpu'[0] : q < p /\ gpu'[0][q].op = "table"
    <3>1. p \in DOMAIN gpu[0] /\ gpu'[0][p] = gpu[0][p]
      BY <1>2, <1>6, <2>0, <2>2
    <3>2. /\ DOMAIN gpu[0][p].addrs = DOMAIN gpu[0][p].slots
          /\ gpu[0][p].addrs = table.host
          /\ \/ table.dev = table.host
             \/ \E q \in DOMAIN gpu[0] : q < p /\ gpu[0][q].op = "table"
      BY <1>3, <2>2, <3>1 DEF TableOk
    <3>3. (\E q \in DOMAIN gpu[0] : q < p /\ gpu[0][q].op = "table") =>
            \E q \in DOMAIN gpu'[0] : q < p /\ gpu'[0][q].op = "table"
      BY <1>6, <2>0
    <3> QED BY <3>1, <3>2, <3>3
  <2>3. table' = table
    OBVIOUS
  <2>4. \A p \in DOMAIN gpu'[0] : gpu'[0][p].op = "batch" =>
          /\ DOMAIN gpu'[0][p].addrs = DOMAIN gpu'[0][p].slots
          /\ gpu'[0][p].addrs = table'.host
          /\ \/ table'.dev = table'.host
             \/ \E q \in DOMAIN gpu'[0] : q < p /\ gpu'[0][q].op = "table"
    BY <2>2, <2>3
  <2> QED BY <2>1, <2>3, <2>4, Zenon DEF TableOk
<1> QED BY <1>6, <1>11, <1>12, <1>13, <1>14 DEF OnGpu

LEMMA SmallSums ==
  ASSUME NEW x \in Nat, NEW y \in Nat
  PROVE  /\ x + y = 0 => x = 0 /\ y = 0
         /\ x + y = 1 /\ y > 0 => x = 0 /\ y = 1
OBVIOUS

\* The stream in hand is pushed: slot i after it.
PutDown(i, b) ==
  str' = [str EXCEPT ![i].pending = Len(b), ![i].bat = <<>>, ![i].flushed = TRUE]

LEMMA PushedSlot ==
  ASSUME IInv, NEW i \in Slots, hand.slot = i, str[i].st = "on", tick.at # "batch",
         NEW b \in Seq(Nat), Len(b) > 0, Len(b) <= Batch,
         PutDown(i, b), tick'.at = tick.at
  PROVE  /\ str' \in [Slots -> StreamRec]
         /\ str'[i].pending = Len(b) /\ str'[i].bat = <<>> /\ str'[i].flushed
         /\ str'[i].st = "on" /\ str'[i].frames = str[i].frames
         /\ \A j \in Slots : j # i => str'[j] = str[j]
         /\ \A j \in Slots : Len(str'[j].bat) < Batch \/ (Len(str'[j].bat) = Batch /\ tick'.at = "batch")
<1> DEFINE r == [str[i] EXCEPT !.pending = Len(b), !.bat = <<>>, !.flushed = TRUE]
<1>1. str[i] \in StreamRec
  BY SlotTypes DEF IInv
<1>2. Len(b) \in 0 .. Batch /\ <<>> \in Seq(Nat) /\ Len(<<>>) = 0
  BY Numbers
<1>3. /\ r \in StreamRec /\ r.pending = Len(b) /\ r.bat = <<>> /\ r.flushed /\ r.st = str[i].st
      /\ r.frames = str[i].frames
  BY <1>1, <1>2 DEF StreamRec
<1>4. str' = [str EXCEPT ![i] = r]
  BY DEF IInv, TypeOK, PutDown
<1> HIDE DEF r
<1>5. Len(r.bat) < Batch
  BY <1>2, <1>3, Numbers
<1>6. /\ str' \in [Slots -> StreamRec] /\ str'[i] = r
      /\ \A j \in Slots : j # i => str'[j] = str[j]
      /\ \A j \in Slots : Len(str'[j].bat) < Batch \/ (Len(str'[j].bat) = Batch /\ tick'.at = "batch")
  BY <1>3, <1>4, <1>5, SlotUpdate DEF IInv
<1> QED BY <1>3, <1>6

LEMMA PushFrameIInv == ASSUME IInv, PushFrame PROVE IInv'
<1>0. PICK i \in Slots : i = hand.slot
  BY InHand DEF PushFrame
<1>1. PICK b : b = Append(str[i].bat, str[i].frames)
  OBVIOUS
<1>2. PICK next : next = IF str[i].frames = 1 THEN "eager" ELSE "deliver"
  OBVIOUS
<1>3. /\ hand.at = "push" /\ tick' = [tick EXCEPT !.codes = @ \ {i}]
      /\ UNCHANGED <<batchOn, pin, table, heard>>
      /\ \/ Len(b) < Target(str[i]) /\ str' = [str EXCEPT ![i].bat = b] /\ Goto(next) /\ gpu' = gpu
         \/ Len(b) >= Target(str[i]) /\ Enqueue(i, b, next)
  BY <1>0, <1>1, <1>2 DEF PushFrame
<1>4. /\ str[i].st = "on" /\ i \in tick.codes /\ DoPush /\ str[i].frames > 0 /\ str[i].pending = 0
      /\ Live(i)
  BY <1>0, <1>3 DEF IInv, HandPlace, Live
<1>5. tick.at # "batch" /\ Len(str[i].bat) < Batch
  BY <1>3, InHand
<1>6. Stream(i) /\ Counted(i) /\ Held(i) = 1
  BY <1>0, <1>3, <1>4 DEF IInv, Steady, Retires, Held
<1>7. /\ b \in Seq(Nat) /\ Len(b) = Len(str[i].bat) + 1
      /\ Len(Told(i)) + str[i].pending + Len(b) = str[i].frames
      /\ b = Frames(Len(Told(i)) + str[i].pending + 1, str[i].frames)
  BY <1>1, <1>4, <1>6, AppendOne
<1>8. PICK n \in Nat : n = Len(Told(i))
  BY ToldSeq DEF IInv
<1>9. str[i].frames \in Nat /\ Len(str[i].bat) \in Nat
  BY SlotTypes DEF IInv
<1>10. Len(b) > 0 /\ Len(b) <= Batch /\ Len(b) \in Nat
  BY <1>5, <1>7, <1>9, Numbers
<1>11. n + Len(b) = str[i].frames /\ b = Frames(n + 1, n + Len(b))
  <2>1. n + 0 + Len(b) = str[i].frames /\ n + 0 + 1 = n + 1
    BY <1>4, <1>7, <1>8
  <2>2. n + Len(b) = str[i].frames
    BY <1>8, <1>10, <2>1
  <2> QED BY <1>4, <1>7, <1>8, <2>1, <2>2
<1>12. /\ str[i].frames = 1 => n = 0 /\ Len(b) = 1 /\ Target(str[i]) = 1
       /\ str[i].frames # 1 => Target(str[i]) = Batch /\ str[i].flushed /\ Told(i) # <<>>
  <2>1. str[i].flushed <=> str[i].frames > 1
    BY <1>6 DEF Stream
  <2>2. CASE str[i].frames = 1
    <3>1. n = 0 /\ Len(b) = 1
      <4>1. n + Len(b) = 1
        BY <1>11, <2>2
      <4> QED BY <1>10, <4>1, SmallSums
    <3>2. ~str[i].flushed
      BY <2>1, <2>2
    <3> QED BY <2>2, <3>1, <3>2 DEF Target
  <2>3. CASE str[i].frames # 1
    <3>1. str[i].frames > 1
      BY <1>4, <1>9, <2>3
    <3>2. Told(i) # <<>>
      BY <1>3, <1>6, <3>1 DEF Stream
    <3> QED BY <2>1, <2>3, <3>1, <3>2 DEF Target
  <2> QED BY <2>2, <2>3
<1>13. hand \in HandRec /\ tick \in TickRec
  BY DEF IInv, TypeOK
<1>14. tick'.codes = tick.codes \ {i} /\ tick'.at = tick.at
  BY <1>3, <1>13 DEF TickRec
<1>15. Held(i)' = 0
  BY <1>14 DEF Held
<1>16. ~Enqueue(i, b, next) \/ str[i].pending = 0
  BY <1>4
<1>17. hand' = [hand EXCEPT !.at = next]
  BY <1>3, <1>4 DEF Goto, Enqueue
<1>18. /\ hand' \in HandRec /\ hand'.slot = i /\ hand'.got = hand.got /\ hand'.why = hand.why
       /\ hand'.at = next /\ next \in {"eager", "deliver"}
  BY <1>0, <1>2, <1>13, <1>17 DEF HandRec
<1>19. Told(i)' = Told(i)
  BY <1>0, <1>3, <1>18 DEF Told
<1>20. str[i].frames = 1 => heard[i] = <<>> /\ hand.got = <<>>
  <2> SUFFICES ASSUME str[i].frames = 1 PROVE heard[i] = <<>> /\ hand.got = <<>>
    OBVIOUS
  <2>1. Len(heard[i] \o hand.got) = 0
    BY <1>0, <1>8, <1>12 DEF Told
  <2>2. heard[i] \in Seq(Nat) /\ hand.got \in Seq(Nat)
    BY <1>13, SlotTypes DEF IInv, HandRec
  <2>3. Len(heard[i] \o hand.got) = Len(heard[i]) + Len(hand.got)
    BY <2>2, ConcatProperties, Zenon
  <2>4. Len(heard[i]) = 0 /\ Len(hand.got) = 0
    <3>1. Len(heard[i]) \in Nat /\ Len(hand.got) \in Nat
      BY <2>2
    <3>2. Len(heard[i]) + Len(hand.got) = 0
      BY <2>1, <2>3
    <3> QED BY <3>1, <3>2, SmallSums
  <2> QED BY <2>2, <2>4
\* What is left to show of the two ways.
<1>21. ASSUME /\ str' \in [Slots -> StreamRec] /\ str'[i].st = "on"
              /\ str'[i].frames = str[i].frames /\ str'[i].flushed
              /\ str'[i].pending = 0 \/ str'[i].bat = <<>>
              /\ str[i].frames = 1 => str'[i].pending = 1
              /\ \A j \in Slots : j # i => str'[j] = str[j]
              /\ \A j \in Slots : Len(str'[j].bat) < Batch \/ (Len(str'[j].bat) = Batch /\ tick'.at = "batch"),
              Counted(i)', OnGpu', gpu' \in [0 .. NCust - 1 -> Seq(Op)]
       PROVE  IInv'
  <2>1. TickPlace' /\ tick' \in TickRec
    BY <1>0, <1>3, <1>18, <1>21, TickKept
  <2>2. TypeOK'
    BY <1>3, <1>18, <1>21, <2>1 DEF IInv, TypeOK
  <2>3. Stream(i)'
    <3>1. ~(hand'.at = "eager") => Told(i)' # <<>>
      BY <1>2, <1>12, <1>18, <1>19
    <3> QED BY <1>4, <1>15, <1>18, <1>21, <3>1 DEF Stream
  <2>4. ASSUME NEW j \in Slots PROVE Steady(j)'
    <3>1. CASE j = i
      BY <1>21, <2>3, <3>1 DEF Steady
    <3>2. CASE j # i
      <4>1. hand.slot # j /\ hand'.slot # j /\ (j \in tick'.codes <=> j \in tick.codes)
            /\ heard'[j] = heard[j] /\ str'[j] = str[j] /\ Steady(j)
        BY <1>0, <1>3, <1>14, <1>18, <1>21, <3>2 DEF IInv
      <4> QED BY <4>1, Others
    <3> QED BY <3>1, <3>2
  <2>5. DoPush' <=> DoPush
    BY <1>3, <1>14 DEF DoPush
  <2>6. HandPlace'
    <3>1. CASE next = "eager"
      <4>1. str[i].frames = 1
        BY <1>2, <3>1
      <4> QED BY <1>3, <1>4, <1>14, <1>18, <1>20, <1>21, <2>5, <3>1, <4>1 DEF HandPlace
    <3>2. CASE next = "deliver"
      BY <1>4, <1>14, <1>18, <1>21, <2>5, <3>2 DEF HandPlace
    <3> QED BY <1>18, <3>1, <3>2
  <2>7. EndsWell'
    BY <1>18 DEF IInv, EndsWell
  <2> QED BY <1>21, <2>1, <2>2, <2>4, <2>6, <2>7 DEF IInv
<1>22. Frames(n + Len(b) + 1, n + Len(b)) = <<>>
  <2>1. n + Len(b) \in Nat
    BY <1>8, <1>10
  <2> QED BY <2>1, NoFrames
<1>23. CASE Len(b) < Target(str[i]) /\ str' = [str EXCEPT ![i].bat = b] /\ Goto(next) /\ gpu' = gpu
  <2>1. str[i].frames # 1 /\ Len(b) < Batch
    BY <1>12, <1>23
  <2> DEFINE r == [str[i] EXCEPT !.bat = b]
  <2>2. str[i] \in StreamRec
    BY SlotTypes DEF IInv
  <2>3. /\ r \in StreamRec /\ r.bat = b /\ r.st = str[i].st /\ r.frames = str[i].frames
        /\ r.flushed = str[i].flushed /\ r.pending = str[i].pending
    BY <1>7, <2>2 DEF StreamRec
  <2>4. str' = [str EXCEPT ![i] = r]
    BY <1>23 DEF IInv, TypeOK
  <2> HIDE DEF r
  <2>5. /\ str' \in [Slots -> StreamRec] /\ str'[i] = r
        /\ \A j \in Slots : j # i => str'[j] = str[j]
        /\ \A j \in Slots : Len(str'[j].bat) < Batch \/ (Len(str'[j].bat) = Batch /\ tick'.at = "batch")
    BY <1>14, <2>1, <2>3, <2>4, SlotUpdate DEF IInv
  <2>6. Counted(i)'
    <3>1. Told(i)' = Frames(1, n) /\ Len(Told(i)') = n
      BY <1>6, <1>8, <1>19 DEF Counted
    <3>2. n + 0 + Len(b) + 0 = str[i].frames /\ str[i].frames - 0 = n + Len(b) /\ n + 0 + 1 = n + 1
      BY <1>8, <1>9, <1>10, <1>11
    <3>3. str'[i].pending = 0 /\ str'[i].bat = b /\ str'[i].frames = str[i].frames
      BY <1>4, <2>3, <2>5
    <3>4. b = Frames(n + 0 + 1, str[i].frames - 0)
      BY <1>11, <3>2
    <3> QED BY <1>15, <3>1, <3>2, <3>3, <3>4, CountedNow, Zenon
  <2>7. ASSUME NEW j \in Slots PROVE Undisturbed(j)
    <3>1. CASE j = i
      BY <1>4, <2>3, <2>5, <3>1 DEF Undisturbed
    <3>2. CASE j # i
      <4>1. Told(j)' = Told(j)
        BY <1>0, <1>3, <1>18, <3>2 DEF Told
      <4> QED BY <1>3, <2>5, <3>2, <4>1, Undone
    <3> QED BY <3>1, <3>2
  <2>8. OnGpu'
    BY <1>3, <1>23, <2>7, Quiet DEF IInv
  <2>9. gpu' \in [0 .. NCust - 1 -> Seq(Op)]
    BY <1>23 DEF IInv, TypeOK
  <2> QED BY <1>4, <1>12, <1>21, <2>1, <2>3, <2>5, <2>6, <2>8, <2>9
<1>24. CASE Enqueue(i, b, next)
  <2>1. IsPushed(i, b) /\ PutDown(i, b)
    BY <1>4, <1>24 DEF Enqueue, IsPushed, PutDown
  <2>2. /\ str' \in [Slots -> StreamRec]
        /\ str'[i].pending = Len(b) /\ str'[i].bat = <<>> /\ str'[i].flushed
        /\ str'[i].st = "on" /\ str'[i].frames = str[i].frames
        /\ \A j \in Slots : j # i => str'[j] = str[j]
        /\ \A j \in Slots : Len(str'[j].bat) < Batch \/ (Len(str'[j].bat) = Batch /\ tick'.at = "batch")
    BY <1>0, <1>4, <1>5, <1>7, <1>10, <1>14, <2>1, PushedSlot
  <2>3. OnGpu' /\ gpu' \in [0 .. NCust - 1 -> Seq(Op)]
    <3>1. \A j \in Slots : j # i => str'[j] = str[j] /\ Told(j)' = Told(j)
      BY <1>0, <1>3, <1>18, <2>2 DEF Told
    <3>2. Live(i)'
      BY <2>2 DEF Live
    <3> QED BY <1>3, <1>4, <1>7, <1>8, <1>10, <1>11, <1>19, <2>1, <2>2, <3>1, <3>2, PushOnGpu
  <2>4. Counted(i)'
    <3>1. Told(i)' = Frames(1, n) /\ Len(Told(i)') = n
      BY <1>6, <1>8, <1>19 DEF Counted
    <3>2. n + Len(b) + 0 + 0 = str[i].frames /\ str[i].frames - 0 = n + Len(b) /\ Len(<<>>) = 0
      BY <1>8, <1>9, <1>10, <1>11
    <3>3. <<>> = Frames(n + Len(b) + 1, str[i].frames - 0) /\ n + Len(b) + Len(<<>>) + 0 = str[i].frames
      BY <1>22, <3>2
    <3> QED BY <1>15, <2>2, <3>1, <3>3, CountedNow, Zenon
  <2>5. str[i].frames = 1 => str'[i].pending = 1
    BY <1>12, <2>2
  <2> QED BY <1>21, <2>2, <2>3, <2>4, <2>5
<1> QED BY <1>3, <1>23, <1>24

LEMMA FinishTailIInv == ASSUME IInv, FinishTail PROVE IInv'
<1>0. PICK i \in Slots : i = hand.slot
  BY InHand DEF FinishTail
<1>1. PICK b : b = str[i].bat
  OBVIOUS
<1>2. /\ hand.at = "tail" /\ UNCHANGED <<batchOn, pin, table, tick, heard>>
      /\ \/ b = <<>> /\ Goto("last") /\ UNCHANGED <<str, gpu>>
         \/ b # <<>> /\ Enqueue(i, b, "last")
  BY <1>0, <1>1 DEF FinishTail
<1>3. /\ str[i].st = "on" /\ str[i].pending = 0 /\ Live(i)
      /\ hand.why = "eos" \/ ~batchOn => i \notin tick.codes
  BY <1>0, <1>2 DEF IInv, HandPlace, Live
<1>4. tick.at # "batch" /\ Len(str[i].bat) < Batch
  BY <1>2, InHand
<1>5. hand' = [hand EXCEPT !.at = "last"]
  BY <1>2, <1>3 DEF Goto, Enqueue
<1>6. hand \in HandRec /\ hand.got = <<>>
  BY <1>2 DEF IInv, TypeOK, HandPlace
<1>7. /\ hand' \in HandRec /\ hand'.slot = i /\ hand'.got = <<>> /\ hand'.why = hand.why
      /\ hand'.at = "last"
  BY <1>0, <1>5, <1>6 DEF HandRec
<1>8. Told(i)' = Told(i) /\ Held(i)' = Held(i)
  BY <1>0, <1>2, <1>6, <1>7 DEF Told, Held
<1>9. ~Retires(i) /\ ~Retires(i)' /\ Stream(i) /\ Counted(i)
  BY <1>0, <1>2, <1>3, <1>7 DEF Retires, IInv, Steady
<1>10. EndsWell'
  BY <1>7 DEF IInv, EndsWell
<1>11. CASE b = <<>> /\ UNCHANGED <<str, gpu>>
  <2>1. TypeOK' /\ OnGpu' /\ \A j \in Slots : Steady(j)'
    <3>1. /\ hand.at # "rest" /\ hand'.at # "eager" /\ heard' \in [Slots -> Seq(Nat)]
          /\ hand.at \notin {"eager", "retire"} /\ hand' # Rest
      BY <1>2, <1>7 DEF IInv, TypeOK, Rest
    <3> QED BY <1>0, <1>2, <1>7, <1>8, <1>11, <3>1, HandedOn
  <2>2. TickPlace'
    BY <1>0, <1>2, <1>3, <1>7, <1>11, TickKept
  <2>3. HandPlace'
    BY <1>1, <1>2, <1>3, <1>7, <1>11 DEF HandPlace
  <2> QED BY <1>10, <2>1, <2>2, <2>3 DEF IInv
<1>12. CASE b # <<>> /\ Enqueue(i, b, "last")
  <2>1. IsPushed(i, b) /\ PutDown(i, b)
    BY <1>3, <1>12 DEF Enqueue, IsPushed, PutDown
  <2>2. b \in Seq(Nat) /\ str[i].frames \in Nat
    BY <1>1, SlotTypes DEF IInv
  <2>3. Len(b) > 0 /\ Len(b) <= Batch /\ Len(b) \in Nat
    <3>1. Len(b) \in Nat /\ Len(b) # 0
      BY <1>12, <2>2
    <3> QED BY <1>1, <1>4, <3>1, Numbers
  <2>4. PICK n \in Nat : n = Len(Told(i))
    BY ToldSeq DEF IInv
  <2>5. PICK h \in 0 .. 1 : h = Held(i)
    BY HeldNumber
  <2>6. n + 0 + Len(b) + h = str[i].frames /\ b = Frames(n + 0 + 1, str[i].frames - h)
        /\ Told(i) = Frames(1, n)
    BY <1>1, <1>3, <1>9, <2>4, <2>5 DEF Counted
  <2>7. str[i].frames - h = n + Len(b) /\ n + 0 + 1 = n + 1 /\ str[i].frames > h
    BY <2>2, <2>3, <2>4, <2>5, <2>6
  <2>8. b = Frames(n + 1, n + Len(b))
    BY <2>6, <2>7
  <2>9. /\ str' \in [Slots -> StreamRec]
        /\ str'[i].pending = Len(b) /\ str'[i].bat = <<>> /\ str'[i].flushed
        /\ str'[i].st = "on" /\ str'[i].frames = str[i].frames
        /\ \A j \in Slots : j # i => str'[j] = str[j]
        /\ \A j \in Slots : Len(str'[j].bat) < Batch \/ (Len(str'[j].bat) = Batch /\ tick'.at = "batch")
    BY <1>0, <1>2, <1>3, <1>4, <2>1, <2>2, <2>3, PushedSlot
  <2>10. OnGpu' /\ gpu' \in [0 .. NCust - 1 -> Seq(Op)]
    <3>1. \A j \in Slots : j # i => str'[j] = str[j] /\ Told(j)' = Told(j)
      BY <1>0, <1>2, <1>7, <2>9 DEF Told
    <3>2. Live(i)'
      BY <2>9 DEF Live
    <3> QED BY <1>2, <1>3, <1>8, <2>1, <2>2, <2>3, <2>4, <2>8, <2>9, <3>1, <3>2, PushOnGpu
  <2>11. TypeOK'
    BY <1>2, <1>7, <2>9, <2>10 DEF IInv, TypeOK
  <2>12. TickPlace'
    BY <1>0, <1>2, <1>7, <2>9, TickKept
  <2>13. HandPlace'
    BY <1>2, <1>3, <1>7, <2>9 DEF HandPlace
  <2>14. Stream(i)'
    <3>1. Told(i) # <<>>
      BY <1>2, <1>9, <2>5, <2>7 DEF Stream
    <3> QED BY <1>7, <1>8, <2>5, <2>7, <2>9, <3>1 DEF Stream
  <2>15. Counted(i)'
    <3>1. Frames(n + Len(b) + 1, n + Len(b)) = <<>>
      <4>1. n + Len(b) \in Nat
        BY <2>3, <2>4
      <4> QED BY <4>1, NoFrames
    <3>2. n + Len(b) + 0 + h = str[i].frames /\ Len(<<>>) = 0
      BY <2>2, <2>3, <2>4, <2>5, <2>6
    <3>3. Told(i)' = Frames(1, n) /\ Len(Told(i)') = n /\ Held(i)' = h
      BY <1>8, <2>4, <2>5, <2>6
    <3>4. <<>> = Frames(n + Len(b) + 1, str[i].frames - h) /\ n + Len(b) + Len(<<>>) + h = str[i].frames
      BY <2>7, <3>1, <3>2
    <3> QED BY <2>9, <3>3, <3>4, CountedNow, Zenon
  <2>16. ASSUME NEW j \in Slots PROVE Steady(j)'
    <3>1. CASE j = i
      BY <2>14, <2>15, <3>1 DEF Steady
    <3>2. CASE j # i
      <4>1. hand.slot # j /\ hand'.slot # j /\ (j \in tick'.codes <=> j \in tick.codes)
            /\ heard'[j] = heard[j] /\ str'[j] = str[j] /\ Steady(j)
        BY <1>0, <1>2, <1>7, <2>9, <3>2 DEF IInv
      <4> QED BY <4>1, Others
    <3> QED BY <3>1, <3>2
  <2> QED BY <1>10, <2>10, <2>11, <2>12, <2>13, <2>16 DEF IInv
<1> QED BY <1>2, <1>11, <1>12

-----------------------------------------------------------------------------
(* The GPU.                                                                 *)

\* A stream that an operation serves gets what it waits for.
LEMMA Served ==
  ASSUME IInv, NEW c \in 0 .. NCust - 1, gpu[c] # <<>>, NEW o, o = Head(gpu[c]),
         NEW n \in DOMAIN o.slots, NEW j \in Slots, j = o.slots[n]
  PROVE  Result(o, n) = Expected(j) /\ str[j].pending > 0
<1>1. gpu[c] \in Seq(Op) /\ 1 \in DOMAIN gpu[c] /\ o = gpu[c][1]
  <2>1. gpu[c] \in Seq(Op)
    BY DEF IInv, TypeOK
  <2> QED BY <2>1
<1>2. n \in DOMAIN o.frames /\ o.frames[n] = Expected(j) /\ Cust(j) = c /\ str[j].pending > 0
  BY <1>1, Waits DEF IInv, OnGpu
<1>3. CASE o.op # "batch"
  BY <1>2, <1>3 DEF Result
<1>4. CASE o.op = "batch"
  <2>1. c = 0
    BY <1>1, <1>4, Queues DEF IInv, OnGpu, Ordered
  <2>2. /\ DOMAIN o.addrs = DOMAIN o.slots /\ o.addrs = table.host
        /\ \/ table.dev = table.host
           \/ \E q \in DOMAIN gpu[0] : q < 1 /\ gpu[0][q].op = "table"
    BY <1>1, <1>4, <2>1 DEF IInv, OnGpu, TableOk
  <2>3. DOMAIN gpu[0] = 1 .. Len(gpu[0]) /\ Len(gpu[0]) \in Nat
    BY <1>1, <2>1
  <2>4. table.dev = table.host
    BY <2>2, <2>3
  <2>5. n \in DOMAIN table.dev /\ table.dev[n] = o.addrs[n]
    BY <2>2, <2>4
  <2> QED BY <1>2, <2>5 DEF Result
<1> QED BY <1>2, <1>3, <1>4

\* What is left in a queue once its head has run.
LEMMA Dequeued ==
  ASSUME TypeOK, NEW c0 \in 0 .. NCust - 1, gpu[c0] # <<>>, gpu' = [gpu EXCEPT ![c0] = Tail(@)]
  PROVE  /\ gpu' \in [0 .. NCust - 1 -> Seq(Op)]
         /\ \A c \in 0 .. NCust - 1 : c # c0 => gpu'[c] = gpu[c]
         /\ \A p \in DOMAIN gpu'[c0] : p + 1 \in DOMAIN gpu[c0] /\ gpu'[c0][p] = gpu[c0][p + 1]
         /\ \A p \in DOMAIN gpu[c0] : p = 1 \/ (p - 1 \in DOMAIN gpu'[c0] /\ gpu'[c0][p - 1] = gpu[c0][p])
         /\ Head(gpu[c0]) \in Op /\ Head(gpu[c0]) = gpu[c0][1] /\ DOMAIN gpu[c0] \subseteq Nat
         /\ 1 \in DOMAIN gpu[c0]
<1>1. gpu \in [0 .. NCust - 1 -> Seq(Op)]
  BY DEF TypeOK
<1> DEFINE s == gpu[c0]
<1>2. s \in Seq(Op) /\ s # <<>>
  BY <1>1
<1>3. gpu'[c0] = Tail(s) /\ \A c \in 0 .. NCust - 1 : c # c0 => gpu'[c] = gpu[c]
  BY <1>1
<1> HIDE DEF s
<1>4. /\ Tail(s) \in Seq(Op) /\ Len(Tail(s)) = Len(s) - 1 /\ Len(s) \in Nat /\ Len(s) > 0
      /\ \A p \in 1 .. Len(s) - 1 : Tail(s)[p] = s[p + 1]
      /\ Head(s) = s[1] /\ DOMAIN s = 1 .. Len(s) /\ DOMAIN Tail(s) = 1 .. Len(s) - 1
  BY <1>2
<1>5. gpu' \in [0 .. NCust - 1 -> Seq(Op)]
  BY <1>1, <1>4 DEF s
<1>6. \A p \in DOMAIN Tail(s) : p + 1 \in DOMAIN s /\ Tail(s)[p] = s[p + 1]
  BY <1>4
<1>7. \A p \in DOMAIN s : p = 1 \/ (p - 1 \in DOMAIN Tail(s) /\ Tail(s)[p - 1] = s[p])
  BY <1>4
<1>8. Head(s) \in Op /\ Head(s) = s[1] /\ DOMAIN s \subseteq Nat /\ 1 \in DOMAIN s
  BY <1>2, <1>4
<1> QED BY <1>3, <1>5, <1>6, <1>7, <1>8 DEF s

LEMMA GpuStepIInv == ASSUME IInv, NEW c \in 0 .. NCust - 1, GpuStep(c) PROVE IInv'
<1>0. PICK o : o = Head(gpu[c])
  OBVIOUS
<1>1. /\ gpu[c] # <<>> /\ gpu' = [gpu EXCEPT ![c] = Tail(@)]
      /\ pin' = [i \in Slots |-> IF Places(o, i) = {} THEN pin[i]
                                 ELSE Result(o, CHOOSE n \in Places(o, i) : TRUE)]
      /\ table' = IF o.op = "table" THEN [table EXCEPT !.dev = table.host] ELSE table
      /\ UNCHANGED <<batchOn, str, tick, hand, heard>>
  BY <1>0 DEF GpuStep
<1>2. TypeOK /\ InFlight /\ Awaited /\ Ordered /\ TableOk
  BY DEF IInv, OnGpu
<1>3. /\ gpu' \in [0 .. NCust - 1 -> Seq(Op)]
      /\ \A d \in 0 .. NCust - 1 : d # c => gpu'[d] = gpu[d]
      /\ \A p \in DOMAIN gpu'[c] : p + 1 \in DOMAIN gpu[c] /\ gpu'[c][p] = gpu[c][p + 1]
      /\ \A p \in DOMAIN gpu[c] : p = 1 \/ (p - 1 \in DOMAIN gpu'[c] /\ gpu'[c][p - 1] = gpu[c][p])
      /\ o \in Op /\ o = gpu[c][1] /\ DOMAIN gpu[c] \subseteq Nat /\ 1 \in DOMAIN gpu[c]
  BY <1>0, <1>1, <1>2, Dequeued
<1>4. DOMAIN gpu = 0 .. NCust - 1 /\ DOMAIN gpu' = 0 .. NCust - 1 /\ 0 \in 0 .. NCust - 1
  BY <1>2, <1>3, Queues
<1>5. ASSUME NEW i \in Slots, Places(o, i) # {}
      PROVE  pin'[i] = Expected(i) /\ str[i].pending > 0
  <2>1. PICK n \in Places(o, i) : n = CHOOSE m \in Places(o, i) : TRUE
    BY <1>5
  <2>2. n \in DOMAIN o.slots /\ i = o.slots[n]
    BY <2>1 DEF Places
  <2>3. Result(o, n) = Expected(i) /\ str[i].pending > 0
    BY <1>0, <1>1, <2>2, Served
  <2> QED BY <1>1, <1>5, <2>1, <2>3
<1>6. \A i \in Slots : Places(o, i) = {} => pin'[i] = pin[i]
  BY <1>1
<1>7. TypeOK'
  <2>1. ASSUME NEW i \in Slots PROVE pin'[i] \in Seq(Nat) /\ Len(pin'[i]) <= Batch
    <3>1. CASE Places(o, i) = {}
      BY <1>2, <1>6, <3>1 DEF TypeOK
    <3>2. CASE Places(o, i) # {}
      <4>1. PICK n \in Nat : n = Len(Told(i))
        BY <1>2, ToldSeq
      <4>2. str[i].pending \in Nat /\ str[i].pending <= Batch
        BY <1>2, SlotTypes
      <4>3. pin'[i] = Frames(n + 1, n + str[i].pending)
        BY <1>5, <3>2, <4>1 DEF Expected
      <4> QED BY <4>2, <4>3, FramesSeq
    <3> QED BY <3>1, <3>2
  <2>2. pin' \in [Slots -> Seq(Nat)]
    BY <1>1, <2>1
  <2>3. table' \in [host : Seq(Addr), dev : Seq(Addr)]
    BY <1>1, <1>2 DEF TypeOK
  <2> QED BY <1>1, <1>2, <1>3, <2>1, <2>2, <2>3 DEF TypeOK
<1>8. \A i : Expected(i)' = Expected(i) /\ (Live(i)' <=> Live(i)) /\ Cust(i)' = Cust(i)
  BY <1>1 DEF Expected, Told, Live, Cust, Frames
<1>9. InFlight'
  <2> SUFFICES ASSUME NEW d \in 0 .. NCust - 1, NEW p \in DOMAIN gpu'[d],
                      NEW n \in DOMAIN gpu'[d][p].slots, NEW i \in Slots, i = gpu'[d][p].slots[n]
               PROVE  /\ Live(i)' /\ Cust(i)' = d /\ str'[i].pending > 0
                      /\ n \in DOMAIN gpu'[d][p].frames
                      /\ gpu'[d][p].frames[n] = Expected(i)'
    BY <1>4 DEF InFlight, Brings
  <2>1. PICK q \in DOMAIN gpu[d] : gpu'[d][p] = gpu[d][q]
    BY <1>3
  <2>2. n \in DOMAIN gpu[d][q].slots /\ i = gpu[d][q].slots[n]
    BY <2>1
  <2>3. /\ Live(i) /\ Cust(i) = d /\ str[i].pending > 0
        /\ n \in DOMAIN gpu[d][q].frames /\ gpu[d][q].frames[n] = Expected(i)
    BY <1>2, <2>2, Waits
  <2> QED BY <1>1, <1>8, <2>1, <2>3
<1>10. Awaited'
  <2> SUFFICES ASSUME NEW i \in Slots, str[i].pending > 0
               PROVE  \/ pin'[i] = Expected(i)
                      \/ \E p \in DOMAIN gpu'[Cust(i)] : Places(gpu'[Cust(i)][p], i) # {}
    BY <1>1, <1>8 DEF Awaited, Arrives, Places
  <2>1. CASE Places(o, i) # {}
    BY <1>5, <2>1
  <2>2. CASE Places(o, i) = {} /\ pin[i] = Expected(i)
    BY <1>6, <2>2
  <2>3. CASE Places(o, i) = {} /\ \E p \in DOMAIN gpu[Cust(i)] : Places(gpu[Cust(i)][p], i) # {}
    <3>1. PICK d \in 0 .. NCust - 1 : d = Cust(i)
      BY CustPlace
    <3>2. PICK p \in DOMAIN gpu[d] : Places(gpu[d][p], i) # {}
      BY <2>3, <3>1
    <3>3. CASE d # c
      BY <1>3, <3>1, <3>2, <3>3
    <3>4. CASE d = c
      <4>1. p # 1
        BY <1>3, <2>3, <3>2, <3>4
      <4>2. p - 1 \in DOMAIN gpu'[d] /\ gpu'[d][p - 1] = gpu[d][p]
        BY <1>3, <3>4, <4>1
      <4> QED BY <3>1, <3>2, <4>2
    <3> QED BY <3>3, <3>4
  <2> QED BY <1>2, <2>1, <2>2, <2>3 DEF Awaited, Arrives
<1>11. Ordered'
  <2> SUFFICES ASSUME NEW d \in 0 .. NCust - 1, NEW p \in DOMAIN gpu'[d]
               PROVE  /\ gpu'[d][p].op # "push" => d = 0
                      /\ gpu'[d][p].op # "table" => gpu'[d][p].slots # <<>>
                      /\ gpu'[d][p].op = "table" =>
                           gpu'[d][p].slots = <<>>
                           /\ \E q \in DOMAIN gpu'[d] : q > p /\ gpu'[d][q].op = "batch"
    BY <1>4 DEF Ordered
  <2>1. CASE d # c
    <3>1. gpu'[d] = gpu[d]
      BY <1>3, <2>1
    <3> QED BY <1>2, <1>4, <3>1 DEF Ordered
  <2>2. CASE d = c
    <3>1. p + 1 \in DOMAIN gpu[d] /\ gpu'[d][p] = gpu[d][p + 1] /\ p \in Nat
      BY <1>3, <2>2
    <3>2. /\ gpu[d][p + 1].op # "push" => d = 0
          /\ gpu[d][p + 1].op # "table" => gpu[d][p + 1].slots # <<>>
          /\ gpu[d][p + 1].op = "table" =>
               gpu[d][p + 1].slots = <<>>
               /\ \E q \in DOMAIN gpu[d] : q > p + 1 /\ gpu[d][q].op = "batch"
      BY <1>2, <1>4, <3>1 DEF Ordered
    <3>3. ASSUME NEW q \in DOMAIN gpu[d], q > p + 1, gpu[d][q].op = "batch"
          PROVE  \E r \in DOMAIN gpu'[d] : r > p /\ gpu'[d][r].op = "batch"
      <4>1. q \in Nat /\ q # 1 /\ q - 1 > p
        BY <1>3, <2>2, <3>1, <3>3
      <4>2. q - 1 \in DOMAIN gpu'[d] /\ gpu'[d][q - 1] = gpu[d][q]
        BY <1>3, <2>2, <4>1
      <4> QED BY <3>3, <4>1, <4>2
    <3> QED BY <3>1, <3>2, <3>3
  <2> QED BY <2>1, <2>2
<1>12. TableOk'
  <2>1. CASE c # 0
    <3>1. gpu'[0] = gpu[0]
      BY <1>3, <1>4, <2>1
    <3>2. o.op = "push"
      BY <1>2, <1>3, <1>4, <2>1 DEF Ordered
    <3>3. table' = table
      BY <1>1, <3>2
    <3> QED BY <1>2, <3>1, <3>3 DEF TableOk
  <2>2. CASE c = 0 /\ o.op = "table"
    <3>1. table'.dev = table.host /\ table'.host = table.host
      BY <1>1, <1>2, <2>2 DEF TypeOK
    <3>2. ASSUME NEW p \in DOMAIN gpu'[0], gpu'[0][p].op = "batch"
          PROVE  /\ DOMAIN gpu'[0][p].addrs = DOMAIN gpu'[0][p].slots
                 /\ gpu'[0][p].addrs = table.host
      <4>1. p + 1 \in DOMAIN gpu[0] /\ gpu'[0][p] = gpu[0][p + 1]
        BY <1>3, <2>2
      <4> QED BY <1>2, <3>2, <4>1 DEF TableOk
    <3> QED BY <3>1, <3>2 DEF TableOk
  <2>3. CASE c = 0 /\ o.op # "table"
    <3>1. table' = table
      BY <1>1, <2>3
    <3>2. ASSUME NEW q \in DOMAIN gpu[0], gpu[0][q].op = "table"
          PROVE  q - 1 \in DOMAIN gpu'[0] /\ gpu'[0][q - 1].op = "table" /\ q \in Nat
      <4>1. q # 1
        BY <1>3, <2>3, <3>2
      <4> QED BY <1>3, <2>3, <3>2, <4>1
    <3>3. table.dev = table.host \/ \E q \in DOMAIN gpu'[0] : gpu'[0][q].op = "table"
      BY <1>2, <3>2 DEF TableOk
    <3>4. ASSUME NEW p \in DOMAIN gpu'[0], gpu'[0][p].op = "batch"
          PROVE  /\ DOMAIN gpu'[0][p].addrs = DOMAIN gpu'[0][p].slots
                 /\ gpu'[0][p].addrs = table.host
                 /\ \/ table.dev = table.host
                    \/ \E q \in DOMAIN gpu'[0] : q < p /\ gpu'[0][q].op = "table"
      <4>1. p + 1 \in DOMAIN gpu[0] /\ gpu'[0][p] = gpu[0][p + 1] /\ p \in Int
        <5>1. p + 1 \in DOMAIN gpu[0] /\ gpu'[0][p] = gpu[0][p + 1]
          BY <1>3, <2>3
        <5>2. gpu'[0] \in Seq(Op)
          BY <1>3, <1>4
        <5>3. p \in 1 .. Len(gpu'[0])
          BY <5>2
        <5> QED BY <5>1, <5>3
      <4>2. /\ DOMAIN gpu[0][p + 1].addrs = DOMAIN gpu[0][p + 1].slots
            /\ gpu[0][p + 1].addrs = table.host
            /\ \/ table.dev = table.host
               \/ \E q \in DOMAIN gpu[0] : q < p + 1 /\ gpu[0][q].op = "table"
        BY <1>2, <3>4, <4>1 DEF TableOk
      <4>3. ASSUME NEW q \in DOMAIN gpu[0], q < p + 1, gpu[0][q].op = "table"
            PROVE  \E r \in DOMAIN gpu'[0] : r < p /\ gpu'[0][r].op = "table"
        <5>1. q - 1 \in DOMAIN gpu'[0] /\ gpu'[0][q - 1].op = "table" /\ q \in Nat
          BY <3>2, <4>3
        <5>2. q - 1 < p
          BY <4>1, <4>3, <5>1
        <5> QED BY <5>1, <5>2
      <4> QED BY <4>1, <4>2, <4>3
    <3> QED BY <3>1, <3>3, <3>4 DEF TableOk
  <2> QED BY <2>1, <2>2, <2>3
<1>13. HandPlace' /\ TickPlace' /\ EndsWell'
  BY <1>1 DEF IInv, HandPlace, TickPlace, EndsWell, DoPush, Live
<1>14. ASSUME NEW j \in Slots PROVE Steady(j)'
  <2>1. Told(j)' = Told(j) /\ Held(j)' = Held(j) /\ (Retires(j)' <=> Retires(j))
    BY <1>1 DEF Told, Held, Retires
  <2>2. Stream(j)'
    BY <1>1, <2>1 DEF IInv, Steady, Stream
  <2>3. Counted(j) => Counted(j)'
    BY <1>1, <2>1 DEF Counted, Frames
  <2>4. Live(j) /\ ~Retires(j) => Counted(j)
    BY DEF IInv, Steady
  <2> QED BY <1>8, <2>1, <2>2, <2>3, <2>4 DEF Steady
<1> QED BY <1>7, <1>9, <1>10, <1>11, <1>12, <1>13, <1>14 DEF IInv, OnGpu

-----------------------------------------------------------------------------
(* The batched push of a tick.                                              *)

\* A frame that was held is in the accumulator: slot i after it.
Appends(i) == str'[i] = [str[i] EXCEPT !.bat = Append(@, str[i].frames)]

LEMMA Appended ==
  ASSUME IInv, NEW i \in Slots, hand = Rest, i \in tick.codes, tick.at = "rows", Appends(i),
         UNCHANGED <<hand, heard>>, tick'.codes = {}, str[i].pending = 0
  PROVE  /\ Steady(i)' /\ str'[i] \in StreamRec /\ Len(str'[i].bat) <= Batch
         /\ Len(str'[i].bat) \in Nat
         /\ str'[i].st = str[i].st /\ str'[i].pending = 0
<1>1. PICK b : b = Append(str[i].bat, str[i].frames)
  OBVIOUS
<1>2. hand.slot # i /\ hand'.slot # i /\ hand.at = "rest"
  BY Numbers DEF Rest, Slots
<1>3. str[i].st = "on" /\ Live(i)
  BY DEF IInv, TickPlace, Live
<1>4. Stream(i) /\ Counted(i)
  BY <1>2, <1>3 DEF IInv, Steady, Retires
<1>5. /\ b \in Seq(Nat) /\ Len(b) = Len(str[i].bat) + 1
      /\ Len(Told(i)) + str[i].pending + Len(b) = str[i].frames
      /\ b = Frames(Len(Told(i)) + str[i].pending + 1, str[i].frames)
  BY <1>1, <1>4, AppendOne
<1>6. str[i] \in StreamRec /\ str[i].frames \in Nat /\ Len(str[i].bat) \in Nat
  BY SlotTypes DEF IInv
<1>7. /\ str'[i] \in StreamRec /\ str'[i].bat = b /\ str'[i].st = str[i].st
      /\ str'[i].pending = 0 /\ str'[i].frames = str[i].frames
      /\ str'[i].flushed = str[i].flushed
  BY <1>1, <1>5, <1>6 DEF StreamRec, Appends
<1>8. Len(str[i].bat) < Batch
  BY DEF IInv, TypeOK
<1>9. Len(b) <= Batch /\ Len(b) \in Nat
  BY <1>5, <1>6, <1>8, Numbers
<1>10. Told(i)' = Told(i) /\ Held(i) = 1 /\ Held(i)' = 0
  BY <1>2 DEF Told, Held
<1>11. str[i].frames > 1
  BY <1>2, <1>3, <1>4, <1>10 DEF Stream
<1>12. Stream(i)'
  <2>1. str'[i].frames > 0
    BY <1>6, <1>7, <1>11
  <2>2. str'[i].flushed
    BY <1>4, <1>7, <1>10, <1>11 DEF Stream
  <2>3. Told(i) # <<>> /\ str[i].frames < FrameCap
    BY <1>2, <1>4, <1>10, <1>11 DEF Stream
  <2> QED BY <1>2, <1>3, <1>7, <1>10, <2>1, <2>2, <2>3 DEF Stream
<1>13. Counted(i)'
  <2>1. PICK n \in Nat : n = Len(Told(i))
    BY ToldSeq DEF IInv
  <2>2. n + 0 + Len(b) + 0 = str[i].frames /\ str[i].frames - 0 = str[i].frames
    BY <1>5, <1>6, <1>9, <2>1
  <2>3. Told(i)' = Frames(1, n) /\ Len(Told(i)') = n
    BY <1>4, <1>10, <2>1 DEF Counted
  <2>4. b = Frames(n + 0 + 1, str[i].frames - 0)
    BY <1>5, <2>1, <2>2
  <2> QED BY <1>7, <1>10, <2>2, <2>3, <2>4, CountedNow, Zenon
<1> QED BY <1>7, <1>9, <1>12, <1>13 DEF Steady

LEMMA BatchAppendIInv == ASSUME IInv, BatchAppend PROVE IInv'
<1>1. /\ tick.at = "rows" /\ tick.todo = {} /\ tick.codes # {} /\ hand = Rest
      /\ tick' = [Idle EXCEPT !.at = "batch", !.strs = tick.codes, !.tn = 1]
      /\ UNCHANGED <<batchOn, gpu, pin, table, hand, heard>>
  BY DEF BatchAppend
<1>2. /\ \A i \in Slots : i \in tick.codes => Appends(i)
      /\ \A i \in Slots : i \notin tick.codes => str'[i] = str[i]
      /\ str' \in [Slots -> {str'[i] : i \in Slots}]
  BY DEF BatchAppend, Appends
<1>3. tick \in TickRec /\ tick.codes \subseteq Slots
  BY DEF IInv, TypeOK, TickRec
<1>4. tick' = [at |-> "batch", todo |-> {}, eos |-> {}, codes |-> {}, strs |-> tick.codes,
               tn |-> 1]
  BY <1>1 DEF Idle
<1>5. tick' \in TickRec
  BY <1>3, <1>4, Numbers DEF TickRec
<1>6. hand.slot = 0 /\ 0 \notin Slots
  BY <1>1, Numbers DEF Rest, Slots
<1>7. batchOn
  <2> SUFFICES ASSUME ~batchOn PROVE FALSE
    OBVIOUS
  <2>1. tick.codes \subseteq {0}
    BY <1>6 DEF IInv, TickPlace
  <2> QED BY <1>1, <1>3, <1>6, <2>1
<1>8. \A i \in Slots : Live(i) => i \in tick.codes /\ str[i].pending = 0
  BY <1>1, <1>6, <1>7 DEF IInv, TickPlace
<1>9. \A i \in tick.codes : str[i].st = "on" /\ Live(i)
  BY DEF IInv, TickPlace, Live
<1>10. \A i \in Slots : str[i].pending = 0
  <2>1. ASSUME NEW i \in Slots, ~Live(i) PROVE str[i].pending = 0
    BY <2>1 DEF Live, IInv, Steady, Stream
  <2> QED BY <1>8, <2>1
<1>11. ASSUME NEW i \in Slots
       PROVE  /\ Steady(i)' /\ str'[i] \in StreamRec /\ Len(str'[i].bat) <= Batch
              /\ Len(str'[i].bat) \in Nat
              /\ str'[i].st = str[i].st /\ str'[i].pending = 0
  <2>1. CASE i \in tick.codes
    <3>1. Appends(i) /\ tick'.codes = {} /\ str[i].pending = 0 /\ UNCHANGED <<hand, heard>>
      <4>1. Appends(i)
        BY <1>2, <2>1, Zenon
      <4>2. tick'.codes = {}
        BY <1>4
      <4>3. str[i].pending = 0
        BY <1>10
      <4>4. UNCHANGED <<hand, heard>>
        BY <1>1
      <4> QED BY <4>1, <4>2, <4>3, <4>4, Zenon
    <3>2. hand = Rest /\ tick.at = "rows"
      BY <1>1
    <3> QED BY <2>1, <3>1, <3>2, Appended, Zenon
  <2>2. CASE i \notin tick.codes
    <3>1. str'[i] = str[i] /\ i \notin tick'.codes /\ hand.slot # i /\ hand'.slot # i
          /\ heard'[i] = heard[i] /\ Steady(i)
      <4>1. str'[i] = str[i] /\ tick'.codes = {}
        BY <1>2, <1>4, <2>2
      <4> QED BY <1>1, <1>6, <4>1 DEF IInv
    <3>2. Steady(i)'
      BY <2>2, <3>1, Others
    <3> QED BY <1>10, <3>1, <3>2, SlotTypes DEF IInv
  <2> QED BY <2>1, <2>2
<1>12. TypeOK'
  <2>1. str' \in [Slots -> StreamRec]
    BY <1>2, <1>11
  <2>2. \A i \in Slots : Len(str'[i].bat) < Batch \/ (Len(str'[i].bat) = Batch /\ tick'.at = "batch")
    BY <1>4, <1>11, Numbers
  <2> QED BY <1>1, <1>5, <2>1, <2>2 DEF IInv, TypeOK
<1>13. OnGpu'
  <2>1. \A i \in Slots : Undisturbed(i)
    BY <1>10, <1>11 DEF Undisturbed
  <2> QED BY <1>1, <2>1, Quiet DEF IInv
<1>14. HandPlace' /\ EndsWell'
  BY <1>1 DEF HandPlace, EndsWell, Rest
<1>15. TickPlace'
  <2>1. \A i \in Slots : Live(i)' <=> Live(i)
    BY <1>11 DEF Live
  <2>2. tick.codes = {i \in Slots : Live(i)'}
    BY <1>3, <1>8, <1>9, <2>1
  <2>3. \A i \in Slots : str'[i].st # "fresh"
    BY <1>1, <1>11 DEF IInv, TickPlace
  <2>4. ~(1 > Batch)
    BY Numbers
  <2>5. /\ tick'.at = "batch" /\ tick'.todo = {} /\ tick'.codes = {} /\ tick'.strs = tick.codes
        /\ tick'.tn = 1
    BY <1>4
  <2>6. hand' = Rest /\ batchOn' /\ hand'.slot = 0
    BY <1>1, <1>6, <1>7
  <2>7. tick'.strs = {i \in Slots : Live(i)}'
    BY <2>2, <2>5
  <2>8. /\ \A i \in Slots : str'[i].pending = 0
        /\ ~(tick'.tn > Batch) /\ tick'.tn > 0
        /\ tick'.codes \subseteq {hand'.slot}
    BY <1>11, <2>4, <2>5
  <2> QED BY <2>3, <2>5, <2>6, <2>7, <2>8 DEF TickPlace
<1> QED BY <1>11, <1>12, <1>13, <1>14, <1>15 DEF IInv

\* The streams of a group, as a sequence.
LEMMA Group ==
  ASSUME NEW S \in SUBSET Slots, NEW grp \in InOrder(S)
  PROVE  /\ grp \in Seq(Slots) /\ DOMAIN grp = 1 .. Len(grp) /\ Len(grp) \in Nat
         /\ \A n \in DOMAIN grp : grp[n] \in S
         /\ \A i \in S : \E n \in DOMAIN grp : grp[n] = i
<1>1. IsFiniteSet(Slots)
  BY Numbers, FS_Interval DEF Slots
<1>2. IsFiniteSet(S)
  BY <1>1, FS_Subset
<1>3. PICK k \in Nat : k = Cardinality(S)
  BY <1>2, FS_CardinalityType
<1>4. grp \in [1 .. k -> S] /\ \A i \in S : \E n \in DOMAIN grp : grp[n] = i
  BY <1>3 DEF InOrder
<1>5. grp \in Seq(Slots) /\ Len(grp) = k
  BY <1>4
<1> QED BY <1>3, <1>4, <1>5

\* Operation o pushes the accumulators of the streams of grp.
Serves(o, grp) ==
  /\ o \in Op /\ o.op \in {"push", "batch"} /\ o.slots = grp
  /\ DOMAIN o.frames = DOMAIN grp /\ \A n \in DOMAIN grp : o.frames[n] = str[grp[n]].bat
  /\ o.op = "batch" => DOMAIN o.addrs = DOMAIN grp

\* What a group leaves in the queue of CUDA stream 0 and in the table of the
\* host: the operation alone, or behind the table it needs.
Alone(o) ==
  /\ gpu' = [gpu EXCEPT ![0] = <<o>>] /\ table' = table
  /\ o.op = "batch" => table.host = o.addrs
BehindTable(o) ==
  /\ gpu' = [gpu EXCEPT ![0] = <<TableOp, o>>]
  /\ o.op = "batch" /\ table' = [table EXCEPT !.host = o.addrs]

LEMMA GroupPushed ==
  ASSUME TypeOK, gpu[0] = <<>>, NEW S \in SUBSET Slots, S # {}, NEW grp \in InOrder(S),
         PushGroup(grp)
  PROVE  \E o : Serves(o, grp) /\ (Alone(o) \/ BehindTable(o))
<1>1. /\ grp \in Seq(Slots) /\ DOMAIN grp = 1 .. Len(grp) /\ Len(grp) \in Nat
      /\ \A n \in DOMAIN grp : grp[n] \in Slots
  BY Group
<1>2. \A i \in Slots : str[i].bat \in Seq(Nat) /\ str[i].addr \in Addr
  BY SlotTypes
<1>3. PICK addrs : addrs = Addrs(grp)
  OBVIOUS
<1>4. addrs \in Seq(Addr) /\ DOMAIN addrs = DOMAIN grp
  <2>1. addrs = [n \in 1 .. Len(grp) |-> str[grp[n]].addr]
    BY <1>1, <1>3 DEF Addrs
  <2>2. \A n \in 1 .. Len(grp) : str[grp[n]].addr \in Addr
    BY <1>1, <1>2
  <2> QED BY <1>1, <2>1, <2>2
<1>5. CASE Len(grp) = 1
  <2>1. PICK i \in Slots : i = grp[1]
    BY <1>1, <1>5
  <2>2. PICK o : o = PushOp(i, str[i].bat)
    OBVIOUS
  <2>3. <<i>> = grp
    <3>1. <<i>> \in Seq(Slots) /\ Len(<<i>>) = 1 /\ <<i>>[1] = i
      OBVIOUS
    <3>2. \A n \in 1 .. 1 : <<i>>[n] = grp[n]
      BY <2>1, <3>1
    <3> QED BY <1>1, <1>5, <3>1, <3>2, SeqEqual
  <2>4. o \in Op /\ o.op = "push" /\ o.slots = <<i>> /\ o.frames = <<str[i].bat>>
    <3>1. /\ <<i>> \in Seq(Slots) /\ <<>> \in Seq(Addr)
          /\ <<str[i].bat>> \in Seq(Seq(Nat))
      BY <1>2
    <3> QED BY <2>2, <3>1 DEF PushOp, Op
  <2>5. DOMAIN <<str[i].bat>> = 1 .. 1 /\ <<str[i].bat>>[1] = str[i].bat
    OBVIOUS
  <2>6. Serves(o, grp)
    <3>1. DOMAIN grp = 1 .. 1
      BY <1>1, <1>5
    <3>2. \A n \in DOMAIN grp : o.frames[n] = str[grp[n]].bat
      BY <2>1, <2>4, <2>5, <3>1
    <3> QED BY <2>3, <2>4, <2>5, <3>1, <3>2 DEF Serves
  <2>7. Alone(o)
    <3>1. gpu' = [gpu EXCEPT ![0] = Append(@, o)] /\ table' = table
      BY <1>5, <2>1, <2>2 DEF PushGroup
    <3>2. Append(<<>>, o) = <<o>>
      OBVIOUS
    <3> QED BY <2>4, <3>1, <3>2 DEF Alone
  <2> QED BY <2>6, <2>7
<1>6. CASE Len(grp) > 1
  <2>1. PICK o : o = BatchOp(grp)
    OBVIOUS
  <2> DEFINE frames == [n \in 1 .. Len(grp) |-> str[grp[n]].bat]
  <2>2. o = [op |-> "batch", slots |-> grp, addrs |-> addrs, frames |-> frames]
    BY <1>1, <1>3, <2>1 DEF BatchOp
  <2>3. frames \in Seq(Seq(Nat)) /\ DOMAIN frames = DOMAIN grp
        /\ \A n \in DOMAIN grp : frames[n] = str[grp[n]].bat
    <3>1. \A n \in 1 .. Len(grp) : str[grp[n]].bat \in Seq(Nat)
      BY <1>1, <1>2
    <3> QED BY <1>1, <3>1
  <2> HIDE DEF frames
  <2>4. Serves(o, grp) /\ o.addrs = addrs
    BY <1>1, <1>4, <2>2, <2>3 DEF Serves, Op
  <2>5. o.op = "batch"
    BY <2>2
  <2>6. CASE SameRoster(addrs)
    <3>1. gpu' = [gpu EXCEPT ![0] = Append(@, o)] /\ table' = table
      BY <1>3, <1>6, <2>1, <2>6 DEF PushGroup
    <3>2. Append(<<>>, o) = <<o>>
      OBVIOUS
    <3>3. Alone(o)
      BY <2>4, <2>6, <3>1, <3>2 DEF Alone, SameRoster
    <3> QED BY <2>4, <3>3
  <2>7. CASE ~SameRoster(addrs)
    <3>1. gpu' = [gpu EXCEPT ![0] = @ \o <<TableOp, o>>] /\ table' = [table EXCEPT !.host = addrs]
      <4>1. Len(grp) # 1
        BY <1>1, <1>6
      <4>2. ~SameRoster(Addrs(grp))
        BY <1>3, <2>7
      <4> QED BY <1>3, <2>1, <4>1, <4>2, Zenon DEF PushGroup
    <3>2. PICK t : t = TableOp
      OBVIOUS
    <3>3. <<>> \o <<t, o>> = <<t, o>>
      OBVIOUS
    <3>4. BehindTable(o)
      BY <2>4, <2>5, <3>1, <3>2, <3>3 DEF BehindTable
    <3> QED BY <2>4, <3>4
  <2> QED BY <2>6, <2>7
<1> QED BY <1>5, <1>6 DEF PushGroup

LEMMA GroupOnGpu ==
  ASSUME TypeOK, OnGpu, batchOn, UNCHANGED <<batchOn, pin>>,
         \A c \in 0 .. NCust - 1 : gpu[c] = <<>>,
         NEW S \in SUBSET Slots, S # {}, NEW grp \in InOrder(S),
         NEW o, Serves(o, grp), Alone(o) \/ BehindTable(o),
         \A i \in S : Live(i)' /\ str'[i].pending = Batch /\ str[i].bat = Expected(i)',
         \A i \in Slots : i \notin S => str'[i].pending = 0
  PROVE  /\ OnGpu' /\ gpu' \in [0 .. NCust - 1 -> Seq(Op)]
         /\ table' \in [host : Seq(Addr), dev : Seq(Addr)]
<1>1. /\ grp \in Seq(Slots) /\ DOMAIN grp = 1 .. Len(grp) /\ Len(grp) \in Nat
      /\ \A n \in DOMAIN grp : grp[n] \in S
      /\ \A i \in S : \E n \in DOMAIN grp : grp[n] = i
  BY Group
<1>2. /\ o \in Op /\ o.op \in {"push", "batch"} /\ o.slots = grp
      /\ DOMAIN o.frames = DOMAIN grp /\ \A n \in DOMAIN grp : o.frames[n] = str[grp[n]].bat
      /\ o.op = "batch" => DOMAIN o.addrs = DOMAIN grp
  BY DEF Serves
<1>3. DOMAIN gpu = 0 .. NCust - 1 /\ 0 \in 0 .. NCust - 1
  BY Queues
<1>4. grp # <<>>
  <2>1. PICK i : i \in S
    OBVIOUS
  <2>2. PICK n \in DOMAIN grp : grp[n] = i
    BY <1>1, <2>1
  <2>3. DOMAIN <<>> = {}
    OBVIOUS
  <2> QED BY <2>2, <2>3
<1>5. PICK t : t = TableOp
  OBVIOUS
<1>6. t \in Op /\ t.op = "table" /\ t.slots = <<>>
  <2>1. <<>> \in Seq(Slots) /\ <<>> \in Seq(Addr) /\ <<>> \in Seq(Seq(Nat))
    OBVIOUS
  <2> QED BY <1>5, <2>1 DEF TableOp, Op
\* The two shapes of the queue.
<1>7. table.dev = table.host
  <2>1. gpu[0] = <<>> /\ DOMAIN gpu[0] = {}
    BY <1>3
  <2> QED BY <2>1 DEF OnGpu, TableOk
<1>8. /\ \A c \in 0 .. NCust - 1 : c # 0 => gpu'[c] = <<>> /\ DOMAIN gpu'[c] = {}
      /\ gpu' \in [0 .. NCust - 1 -> Seq(Op)]
      /\ table' \in [host : Seq(Addr), dev : Seq(Addr)]
      /\ \/ /\ DOMAIN gpu'[0] = 1 .. 1 /\ gpu'[0][1] = o /\ table' = table
            /\ o.op = "batch" => table.host = o.addrs
         \/ /\ DOMAIN gpu'[0] = 1 .. 2 /\ gpu'[0][1] = t /\ gpu'[0][2] = o
            /\ o.op = "batch" /\ table'.host = o.addrs
  <2>1. gpu \in [0 .. NCust - 1 -> Seq(Op)] /\ table \in [host : Seq(Addr), dev : Seq(Addr)]
    BY DEF TypeOK
  <2>2. CASE Alone(o)
    <3>1. /\ <<o>> \in Seq(Op) /\ DOMAIN <<o>> = 1 .. 1 /\ <<o>>[1] = o
      BY <1>2
    <3>2. gpu' = [gpu EXCEPT ![0] = <<o>>] /\ table' = table
          /\ (o.op = "batch" => table.host = o.addrs)
      BY <2>2 DEF Alone
    <3>3. gpu'[0] = <<o>> /\ \A c \in 0 .. NCust - 1 : c # 0 => gpu'[c] = <<>>
      BY <1>3, <2>1, <3>2
    <3>4. gpu' \in [0 .. NCust - 1 -> Seq(Op)]
      BY <2>1, <3>1, <3>2
    <3> QED BY <2>1, <3>1, <3>2, <3>3, <3>4
  <2>3. CASE BehindTable(o)
    <3>1. /\ <<t, o>> \in Seq(Op) /\ DOMAIN <<t, o>> = 1 .. 2 /\ <<t, o>>[1] = t /\ <<t, o>>[2] = o
      BY <1>2, <1>6
    <3>2. gpu' = [gpu EXCEPT ![0] = <<t, o>>] /\ table' = [table EXCEPT !.host = o.addrs]
          /\ o.op = "batch"
      BY <1>5, <2>3 DEF BehindTable
    <3>3. gpu'[0] = <<t, o>> /\ \A c \in 0 .. NCust - 1 : c # 0 => gpu'[c] = <<>>
      BY <1>3, <2>1, <3>2
    <3>4. gpu' \in [0 .. NCust - 1 -> Seq(Op)]
      BY <2>1, <3>1, <3>2
    <3>5. o.addrs \in Seq(Addr)
      BY <1>2 DEF Op
    <3>6. table' \in [host : Seq(Addr), dev : Seq(Addr)] /\ table'.host = o.addrs
      BY <2>1, <3>2, <3>5
    <3> QED BY <3>1, <3>2, <3>3, <3>4, <3>6
  <2> QED BY <2>2, <2>3
<1>9. DOMAIN gpu' = 0 .. NCust - 1
  BY <1>8
<1>10. \A c \in 0 .. NCust - 1 : \A p \in DOMAIN gpu'[c] : c = 0 /\ gpu'[c][p] \in {t, o}
  <2>1. \A p \in DOMAIN gpu'[0] : gpu'[0][p] \in {t, o}
    BY <1>8
  <2> QED BY <1>8, <2>1
<1>11. \A i \in Slots : Cust(i)' = 0
  BY DEF Cust
<1>12. InFlight'
  <2> SUFFICES ASSUME NEW c \in 0 .. NCust - 1, NEW p \in DOMAIN gpu'[c],
                      NEW n \in DOMAIN gpu'[c][p].slots, NEW i \in Slots, i = gpu'[c][p].slots[n]
               PROVE  /\ Live(i)' /\ Cust(i)' = c /\ str'[i].pending > 0
                      /\ n \in DOMAIN gpu'[c][p].frames
                      /\ gpu'[c][p].frames[n] = Expected(i)'
    BY <1>9 DEF InFlight, Brings
  <2>1. c = 0 /\ gpu'[c][p] \in {t, o}
    BY <1>10
  <2>2. gpu'[c][p] = o
    <3>1. DOMAIN <<>> = {}
      OBVIOUS
    <3> QED BY <1>6, <2>1, <3>1
  <2>3. n \in DOMAIN grp /\ i = grp[n] /\ i \in S
    BY <1>1, <1>2, <2>2
  <2>4. Live(i)' /\ str'[i].pending > 0 /\ str[i].bat = Expected(i)'
    BY <2>3, Numbers
  <2>5. n \in DOMAIN o.frames /\ o.frames[n] = str[i].bat
    BY <1>2, <2>3
  <2> QED BY <1>11, <2>1, <2>2, <2>4, <2>5
<1>13. Awaited'
  <2> SUFFICES ASSUME NEW i \in Slots, str'[i].pending > 0
               PROVE  \E p \in DOMAIN gpu'[0] : Places(gpu'[0][p], i) # {}
    BY <1>11 DEF Awaited, Arrives, Places
  <2>1. i \in S
    BY Numbers
  <2>2. PICK n \in DOMAIN grp : grp[n] = i
    BY <1>1, <2>1
  <2>3. n \in Places(o, i)
    BY <1>2, <2>2 DEF Places
  <2>4. \E p \in DOMAIN gpu'[0] : gpu'[0][p] = o
    BY <1>8
  <2> QED BY <2>3, <2>4
<1>14. Ordered'
  <2> SUFFICES ASSUME NEW c \in 0 .. NCust - 1, NEW p \in DOMAIN gpu'[c]
               PROVE  /\ gpu'[c][p].op # "push" => c = 0
                      /\ gpu'[c][p].op # "table" => gpu'[c][p].slots # <<>>
                      /\ gpu'[c][p].op = "table" =>
                           gpu'[c][p].slots = <<>>
                           /\ \E q \in DOMAIN gpu'[c] : q > p /\ gpu'[c][q].op = "batch"
    BY <1>9 DEF Ordered
  <2>1. c = 0 /\ gpu'[c][p] \in {t, o}
    BY <1>10
  <2>2. CASE gpu'[c][p].op # "table"
    BY <1>2, <1>4, <1>6, <2>1, <2>2
  <2>3. CASE gpu'[c][p].op = "table"
    <3>1. gpu'[c][p] # o
      BY <1>2, <2>3
    <3>2. DOMAIN gpu'[0] = 1 .. 2 /\ gpu'[0][2] = o /\ o.op = "batch" /\ p = 1
      BY <1>8, <2>1, <3>1
    <3> QED BY <1>6, <2>1, <3>1, <3>2
  <2> QED BY <2>2, <2>3
<1>15. TableOk'
  <2>1. CASE /\ DOMAIN gpu'[0] = 1 .. 1 /\ gpu'[0][1] = o /\ table' = table
             /\ o.op = "batch" => table.host = o.addrs
    <3>1. \A p \in DOMAIN gpu'[0] : gpu'[0][p] = o
      BY <2>1
    <3> QED BY <1>2, <1>7, <2>1, <3>1 DEF TableOk
  <2>2. CASE /\ DOMAIN gpu'[0] = 1 .. 2 /\ gpu'[0][1] = t /\ gpu'[0][2] = o
             /\ o.op = "batch" /\ table'.host = o.addrs
    <3>1. \A p \in DOMAIN gpu'[0] : gpu'[0][p].op = "batch" => p = 2 /\ gpu'[0][p] = o
      BY <1>6, <2>2
    <3>2. 1 \in DOMAIN gpu'[0] /\ gpu'[0][1].op = "table" /\ 1 < 2
      BY <1>6, <2>2
    <3> QED BY <1>2, <2>2, <3>1, <3>2 DEF TableOk
  <2> QED BY <1>8, <2>1, <2>2
<1> QED BY <1>8, <1>12, <1>13, <1>14, <1>15 DEF OnGpu

\* While the groups of a tick are pushed, until the last one has been.
LEMMA BatchPlace ==
  ASSUME IInv, tick.at = "batch"
  PROVE  /\ hand = Rest /\ tick.codes = {} /\ tick.todo = {} /\ batchOn
         /\ tick.strs = {i \in Slots : Live(i)}
         /\ tick.tn \in Nat /\ tick.tn > 0
         /\ \A i \in Slots : hand.slot # i /\ Held(i) = 0 /\ Told(i) = heard[i]
         /\ \A i \in Slots : str[i].st # "fresh"
<1>1. hand = Rest /\ tick.codes = {} /\ tick.todo = {} /\ batchOn /\ tick.tn > 0
      /\ tick.strs = {i \in Slots : Live(i)}
  BY DEF IInv, TickPlace
<1>2. tick.tn \in Nat
  BY Numbers DEF IInv, TypeOK, TickRec
<1>3. \A i \in Slots : hand.slot # i
  BY <1>1, Numbers DEF Rest, Slots
<1>4. \A i \in Slots : Held(i) = 0 /\ Told(i) = heard[i]
  BY <1>1, <1>3 DEF Held, Told
<1>5. \A i \in Slots : str[i].st # "fresh"
  BY DEF IInv, TickPlace
<1> QED BY <1>1, <1>2, <1>3, <1>4, <1>5

\* A group is due once its streams have Batch frames.
LEMMA ReadyStream ==
  ASSUME IInv, tick.at = "batch", tick.tn <= Batch, NEW i \in Slots
  PROVE  /\ str[i].pending = 0
         /\ i \in Ready => /\ Live(i) /\ str[i].st = "on" /\ Counted(i) /\ tick.tn = Batch
                           /\ Len(str[i].bat) = Batch /\ str[i].frames > 0 /\ str[i].flushed
         /\ tick.tn = Batch /\ i \notin Ready => Len(str[i].bat) < Batch
<1>1. /\ hand = Rest /\ tick.codes = {} /\ tick.strs = {j \in Slots : Live(j)}
      /\ hand.slot # i /\ Held(i) = 0 /\ str[i].st # "fresh" /\ tick.tn \in Nat
  BY BatchPlace
<1>2. str[i].pending = 0
  BY DEF IInv, TickPlace
<1>3. Stream(i) /\ (Live(i) => Counted(i))
  BY <1>1 DEF IInv, Steady, Retires
<1>4. str[i].bat \in Seq(Nat) /\ Len(str[i].bat) \in Nat /\ Len(str[i].bat) <= Batch
      /\ str[i].st \in {"none", "fresh", "on"}
  BY SlotTypes DEF IInv
<1>5. CASE ~Live(i)
  <2>1. str[i].bat = <<>> /\ i \notin Ready
    BY <1>1, <1>3, <1>5 DEF Live, Stream, Ready
  <2>2. Len(<<>>) = 0
    OBVIOUS
  <2> QED BY <1>2, <2>1, <2>2, Numbers
<1>6. CASE Live(i)
  <2>1. str[i].st = "on" /\ i \in tick.strs
    BY <1>1, <1>4, <1>6 DEF Live
  <2>2. str[i].frames > 0 /\ str[i].flushed
    BY <1>1, <1>3, <2>1 DEF Stream
  <2>3. Target(str[i]) = Batch
    BY <2>2 DEF Target
  <2>4. i \in Ready <=> Len(str[i].bat) = tick.tn /\ tick.tn >= Batch
    BY <2>1, <2>3 DEF Ready
  <2>5. i \in Ready => tick.tn = Batch /\ Len(str[i].bat) = Batch
    BY <1>1, <2>4, Numbers
  <2>6. tick.tn = Batch /\ i \notin Ready => Len(str[i].bat) < Batch
    BY <1>4, <2>4, Numbers
  <2> QED BY <1>2, <1>3, <1>6, <2>1, <2>2, <2>5, <2>6
<1> QED BY <1>5, <1>6

\* A stream of the group: slot i after it.
Grouped(i) == str'[i] = [str[i] EXCEPT !.bat = <<>>, !.flushed = TRUE, !.pending = tick.tn]

LEMMA GroupedSlot ==
  ASSUME IInv, tick.at = "batch", tick.tn <= Batch, NEW i \in Slots, i \in Ready, Grouped(i),
         UNCHANGED <<hand, heard>>, tick'.codes = {}
  PROVE  /\ Steady(i)' /\ str'[i] \in StreamRec /\ Len(str'[i].bat) = 0
         /\ str'[i].st = str[i].st /\ Live(i)' /\ str'[i].pending = Batch
         /\ str[i].bat = Expected(i)'
<1>1. /\ str[i].pending = 0 /\ str[i].st = "on" /\ Counted(i) /\ tick.tn = Batch
      /\ Len(str[i].bat) = Batch /\ str[i].frames > 0 /\ Live(i)
  BY ReadyStream
<1>2. hand.slot # i /\ Held(i) = 0 /\ Told(i) = heard[i] /\ hand = Rest
  BY BatchPlace
<1>3. Told(i)' = Told(i) /\ Held(i)' = 0
  BY <1>2 DEF Told, Held
<1>4. str[i] \in StreamRec /\ str[i].frames \in Nat /\ str[i].bat \in Seq(Nat)
  BY SlotTypes DEF IInv
<1>5. <<>> \in Seq(Nat) /\ Len(<<>>) = 0 /\ Batch \in 0 .. Batch
  BY Numbers
<1>6. /\ str'[i] \in StreamRec /\ str'[i].st = "on" /\ str'[i].bat = <<>> /\ str'[i].flushed
      /\ str'[i].pending = Batch /\ str'[i].frames = str[i].frames
  BY <1>1, <1>4, <1>5 DEF StreamRec, Grouped
<1>7. PICK n \in Nat : n = Len(Told(i))
  BY ToldSeq DEF IInv
<1>8. /\ Told(i) = Frames(1, n) /\ n + 0 + Batch + 0 = str[i].frames
      /\ str[i].bat = Frames(n + 0 + 1, str[i].frames - 0)
  BY <1>1, <1>2, <1>7 DEF Counted
<1>9. str[i].frames - 0 = n + Batch /\ n + 0 + 1 = n + 1 /\ n + Batch \in Nat
  BY <1>4, <1>7, <1>8, Numbers
<1>10. Counted(i)'
  <2>1. Told(i)' = Frames(1, n) /\ Len(Told(i)') = n
    BY <1>3, <1>7, <1>8
  <2>2. <<>> = Frames(n + Batch + 1, str[i].frames - 0)
    BY <1>9, NoFrames
  <2>3. n + Batch + Len(<<>>) + 0 = str[i].frames
    BY <1>5, <1>7, <1>8, Numbers
  <2> QED BY <1>3, <1>6, <2>1, <2>2, <2>3, CountedNow, Zenon
<1>11. Stream(i)'
  <2>1. Stream(i)
    BY DEF IInv, Steady
  <2>2. Told(i) # <<>> /\ str[i].frames < FrameCap
    BY <1>1, <1>2, <2>1 DEF Stream, Rest
  <2> QED BY <1>1, <1>2, <1>3, <1>6, <2>2 DEF Stream
<1>12. str[i].bat = Expected(i)'
  <2>1. Expected(i)' = Frames(n + 1, n + Batch)
    BY <1>3, <1>6, <1>7 DEF Expected, Frames
  <2> QED BY <1>8, <1>9, <2>1
<1>13. Live(i)'
  BY <1>6 DEF Live
<1> QED BY <1>1, <1>5, <1>6, <1>10, <1>11, <1>12, <1>13 DEF Steady

LEMMA BatchGroupIInv == ASSUME IInv, BatchGroup PROVE IInv'
<1>1. /\ tick.at = "batch" /\ tick.tn <= Batch /\ tick' = [tick EXCEPT !.tn = @ + 1]
      /\ UNCHANGED <<batchOn, pin, hand, heard>>
  BY DEF BatchGroup
<1>2. /\ hand = Rest /\ tick.codes = {} /\ tick.todo = {} /\ batchOn
      /\ tick.strs = {i \in Slots : Live(i)} /\ tick.tn \in Nat /\ tick.tn > 0
      /\ \A i \in Slots : hand.slot # i /\ Held(i) = 0 /\ Told(i) = heard[i]
      /\ \A i \in Slots : str[i].st # "fresh"
  BY <1>1, BatchPlace
<1>3. tick \in TickRec
  BY DEF IInv, TypeOK
<1>4. /\ tick' \in TickRec /\ tick'.at = "batch" /\ tick'.codes = {} /\ tick'.todo = {}
      /\ tick'.strs = tick.strs /\ tick'.tn = tick.tn + 1
  <2>1. tick.tn + 1 \in 0 .. Batch + 1
    BY <1>1, <1>2, Numbers
  <2> QED BY <1>1, <1>2, <1>3, <2>1 DEF TickRec
<1>5. PICK S \in SUBSET Slots : S = Ready
  BY <1>3 DEF Ready, TickRec
<1>6. ASSUME NEW i \in Slots
      PROVE  /\ str[i].pending = 0
             /\ tick.tn = Batch /\ i \notin S => Len(str[i].bat) < Batch
             /\ i \in S => tick.tn = Batch
  BY <1>1, <1>5, ReadyStream
\* What is left to show of the two ways.
<1>7. ASSUME \A i \in Slots : i \notin S => str'[i] = str[i],
             str' \in [Slots -> {str'[i] : i \in Slots}],
             \A i \in S : /\ Steady(i)' /\ str'[i] \in StreamRec /\ Len(str'[i].bat) = 0
                          /\ str'[i].st = str[i].st,
             OnGpu', gpu' \in [0 .. NCust - 1 -> Seq(Op)],
             table' \in [host : Seq(Addr), dev : Seq(Addr)]
      PROVE  IInv'
  <2>1. ASSUME NEW i \in Slots
        PROVE  /\ Steady(i)' /\ str'[i] \in StreamRec /\ str'[i].st = str[i].st
               /\ Len(str'[i].bat) < Batch \/ Len(str'[i].bat) = Batch
               /\ tick.tn = Batch => Len(str'[i].bat) < Batch
    <3>1. CASE i \in S
      BY <1>7, <3>1, Numbers
    <3>2. CASE i \notin S
      <4>1. str'[i] = str[i] /\ heard'[i] = heard[i] /\ hand.slot # i /\ hand'.slot # i
            /\ (i \in tick'.codes <=> i \in tick.codes) /\ Steady(i)
        BY <1>1, <1>2, <1>4, <1>7, <3>2 DEF IInv
      <4>2. Steady(i)'
        BY <4>1, Others
      <4>3. str[i] \in StreamRec /\ (Len(str[i].bat) < Batch \/ Len(str[i].bat) = Batch)
        BY DEF IInv, TypeOK
      <4> QED BY <1>6, <3>2, <4>1, <4>2, <4>3
    <3> QED BY <3>1, <3>2
  <2>2. TypeOK'
    <3>1. str' \in [Slots -> StreamRec]
      BY <1>7, <2>1
    <3> QED BY <1>1, <1>4, <1>7, <2>1, <3>1 DEF IInv, TypeOK
  <2>3. HandPlace' /\ EndsWell'
    BY <1>1, <1>2 DEF HandPlace, EndsWell, Rest
  <2>4. TickPlace'
    <3>1. \A i \in Slots : Live(i)' <=> Live(i)
      BY <2>1 DEF Live
    <3>2. tick'.strs = {i \in Slots : Live(i)}'
      BY <1>2, <1>4, <3>1
    <3>3. \A i \in Slots : str'[i].st # "fresh"
      BY <1>2, <2>1
    <3>4. tick'.tn <= Batch => \A i \in Slots : str'[i].pending = 0
      <4> SUFFICES ASSUME tick.tn + 1 <= Batch, NEW i \in Slots PROVE str'[i].pending = 0
        BY <1>4
      <4>1. i \notin S
        BY <1>2, <1>6, Numbers
      <4> QED BY <1>6, <1>7, <4>1
    <3>5. tick'.tn > Batch => \A i \in Slots : Len(str'[i].bat) < Batch
      <4> SUFFICES ASSUME tick.tn + 1 > Batch, NEW i \in Slots PROVE Len(str'[i].bat) < Batch
        BY <1>4
      <4>1. tick.tn = Batch
        BY <1>1, <1>2, Numbers
      <4> QED BY <2>1, <4>1
    <3>6. hand' = Rest /\ batchOn' /\ tick'.tn > 0
      BY <1>1, <1>2, <1>4
    <3> QED BY <1>4, <3>2, <3>3, <3>4, <3>5, <3>6 DEF TickPlace
  <2> QED BY <1>7, <2>1, <2>2, <2>3, <2>4 DEF IInv
<1>8. CASE Ready = {} /\ UNCHANGED <<str, gpu, table>>
  <2>1. ASSUME NEW i \in Slots PROVE Undisturbed(i)
    <3>1. Told(i)' = Told(i)
      BY <1>1 DEF Told
    <3> QED BY <1>1, <1>8, <3>1, Undone
  <2>2. OnGpu'
    BY <1>1, <1>8, <2>1, Quiet DEF IInv
  <2>3. /\ gpu' \in [0 .. NCust - 1 -> Seq(Op)]
        /\ table' \in [host : Seq(Addr), dev : Seq(Addr)]
        /\ str' \in [Slots -> {str'[i] : i \in Slots}]
    BY <1>8 DEF IInv, TypeOK
  <2> QED BY <1>5, <1>7, <1>8, <2>2, <2>3
<1>9. CASE /\ Ready # {} /\ ~Refused
           /\ \E grp \in InOrder(Ready) : PushGroup(grp)
           /\ str' = [i \in Slots |-> IF i \in Ready
                                        THEN [str[i] EXCEPT !.bat = <<>>, !.flushed = TRUE,
                                                            !.pending = tick.tn]
                                        ELSE str[i]]
  <2>1. PICK grp \in InOrder(S) : PushGroup(grp)
    BY <1>5, <1>9
  <2>2. /\ \A i \in Slots : i \in S => Grouped(i)
        /\ \A i \in Slots : i \notin S => str'[i] = str[i]
    BY <1>5, <1>9 DEF Grouped
  <2>3. str' \in [Slots -> {str'[i] : i \in Slots}]
    BY <1>9
  <2>4. \A c \in 0 .. NCust - 1 : gpu[c] = <<>>
    BY <1>6, AllQuiet DEF IInv, OnGpu
  <2>5. gpu[0] = <<>>
    BY <2>4, Numbers
  <2>6. PICK o : Serves(o, grp) /\ (Alone(o) \/ BehindTable(o))
    BY <1>5, <1>9, <2>1, <2>5, GroupPushed DEF IInv
  <2>7. ASSUME NEW i \in S
        PROVE  /\ Steady(i)' /\ str'[i] \in StreamRec /\ Len(str'[i].bat) = 0
               /\ str'[i].st = str[i].st /\ Live(i)' /\ str'[i].pending = Batch
               /\ str[i].bat = Expected(i)'
    <3>1. Grouped(i) /\ i \in Ready /\ i \in Slots
      BY <1>5, <2>2
    <3>2. UNCHANGED <<hand, heard>> /\ tick'.codes = {} /\ tick.at = "batch" /\ tick.tn <= Batch
      BY <1>1, <1>4
    <3> QED BY <3>1, <3>2, GroupedSlot
  <2>8. \A i \in Slots : i \notin S => str'[i].pending = 0
    BY <1>6, <2>2
  <2>9. /\ OnGpu' /\ gpu' \in [0 .. NCust - 1 -> Seq(Op)]
        /\ table' \in [host : Seq(Addr), dev : Seq(Addr)]
    <3>1. S # {} /\ TypeOK /\ OnGpu /\ batchOn /\ UNCHANGED <<batchOn, pin>>
      BY <1>1, <1>2, <1>5, <1>9 DEF IInv
    <3>2. \A i \in S : Live(i)' /\ str'[i].pending = Batch /\ str[i].bat = Expected(i)'
      BY <2>7
    <3> QED BY <2>4, <2>6, <2>8, <3>1, <3>2, GroupOnGpu
  <2> QED BY <1>7, <2>2, <2>3, <2>7, <2>9
<1> QED BY <1>8, <1>9 DEF BatchGroup

LEMMA AddrsType ==
  ASSUME TypeOK, NEW S \in SUBSET Slots, NEW grp \in InOrder(S), NEW a, a = Addrs(grp)
  PROVE  a \in Seq(Addr)
<1>1. DOMAIN grp = 1 .. Len(grp) /\ Len(grp) \in Nat /\ \A n \in DOMAIN grp : grp[n] \in S
  BY Group
<1>2. a = [n \in 1 .. Len(grp) |-> str[grp[n]].addr]
  BY <1>1 DEF Addrs
<1>3. \A n \in 1 .. Len(grp) : str[grp[n]].addr \in Addr
  BY <1>1, SlotTypes
<1> QED BY <1>1, <1>2, <1>3

LEMMA BatchFailsIInv == ASSUME IInv, BatchFails PROVE IInv'
<1>1. /\ tick.at = "batch" /\ gpu[0] = <<>> /\ tick' = Idle
      /\ UNCHANGED <<batchOn, gpu, hand>>
      /\ str' = [i \in Slots |-> IF i \in tick.strs THEN NoStream ELSE str[i]]
      /\ pin' = [i \in Slots |-> IF i \in tick.strs THEN <<>> ELSE pin[i]]
      /\ heard' = [i \in Slots |-> IF i \in tick.strs THEN <<>> ELSE heard[i]]
  BY DEF BatchFails
<1>2. /\ hand = Rest /\ tick.codes = {} /\ batchOn
      /\ tick.strs = {i \in Slots : Live(i)}
      /\ \A i \in Slots : hand.slot # i /\ Held(i) = 0
  BY <1>1, BatchPlace
<1>3. tick \in TickRec
  BY DEF IInv, TypeOK
<1>4. ASSUME NEW c \in 0 .. NCust - 1 PROVE gpu[c] = <<>>
  <2>1. CASE c = 0
    BY <1>1, <2>1
  <2>2. CASE c # 0
    <3>1. gpu[c] \in Seq(Op) /\ DOMAIN gpu = 0 .. NCust - 1
      BY DEF IInv, TypeOK
    <3>2. ASSUME NEW p \in DOMAIN gpu[c] PROVE FALSE
      <4>1. gpu[c][p].op = "push" /\ gpu[c][p].slots # <<>>
        BY <2>2, <3>1 DEF IInv, OnGpu, Ordered
      <4>2. gpu[c][p].slots \in Seq(Slots)
        BY OpTypes DEF IInv
      <4>3. 1 \in DOMAIN gpu[c][p].slots
        BY <4>1, <4>2
      <4>4. PICK i \in Slots : i = gpu[c][p].slots[1]
        BY <4>2, <4>3
      <4>5. Cust(i) = c
        BY <4>3, <4>4, Waits DEF IInv, OnGpu
      <4> QED BY <1>2, <2>2, <4>5, CustBatch
    <3>3. Len(gpu[c]) \in Nat /\ DOMAIN gpu[c] = 1 .. Len(gpu[c])
      BY <3>1
    <3>4. ~(Len(gpu[c]) > 0)
      <4> SUFFICES ASSUME Len(gpu[c]) > 0 PROVE FALSE
        OBVIOUS
      <4>1. 1 \in DOMAIN gpu[c]
        BY <3>3
      <4> QED BY <4>1, <3>2
    <3>5. Len(gpu[c]) = 0
      BY <3>3, <3>4
    <3> QED BY <3>1, <3>5, EmptySeq
  <2> QED BY <2>1, <2>2
<1>5. ASSUME NEW i \in Slots
      PROVE  /\ str'[i] \in StreamRec /\ str'[i].st = "none" /\ str'[i].frames = 0
             /\ str'[i].pending = 0 /\ str'[i].bat = <<>> /\ ~str'[i].flushed
             /\ heard'[i] = <<>> /\ pin'[i] \in Seq(Nat) /\ Len(pin'[i]) <= Batch
  <2>1. Len(<<>>) = 0 /\ <<>> \in Seq(Nat)
    OBVIOUS
  <2>2. CASE Live(i)
    <3>1. str'[i] = NoStream /\ heard'[i] = <<>> /\ pin'[i] = <<>>
      BY <1>1, <1>2, <2>2
    <3>2. NoStream \in StreamRec
      BY Numbers, <2>1 DEF NoStream, StreamRec, Addr
    <3> QED BY <2>1, <3>1, <3>2, Numbers DEF NoStream
  <2>3. CASE ~Live(i)
    <3>1. str'[i] = str[i] /\ heard'[i] = heard[i] /\ pin'[i] = pin[i]
      BY <1>1, <1>2, <2>3
    <3>2. Stream(i)
      BY DEF IInv, Steady
    <3>3. /\ str[i].st = "none" /\ str[i].frames = 0 /\ str[i].pending = 0 /\ str[i].bat = <<>>
          /\ heard[i] = <<>>
      BY <2>3, <3>2 DEF Live, Stream
    <3>4. ~str[i].flushed
      BY <1>2, <3>2, <3>3 DEF Stream
    <3> QED BY <3>1, <3>3, <3>4, SlotTypes DEF IInv
  <2> QED BY <2>2, <2>3
<1>6. table' \in [host : Seq(Addr), dev : Seq(Addr)] /\ table'.dev = table'.host
  <2>1. CASE table' = table
    <3>1. DOMAIN gpu[0] = {}
      BY <1>1
    <3> QED BY <2>1, <3>1 DEF IInv, TypeOK, OnGpu, TableOk
  <2>2. CASE \E grp \in InOrder(Ready) :
               Len(grp) > 1 /\ table' = [host |-> Addrs(grp), dev |-> Addrs(grp)]
    <3>1. PICK S \in SUBSET Slots : S = Ready
      BY <1>3 DEF Ready, TickRec
    <3>2. PICK grp \in InOrder(S) : table' = [host |-> Addrs(grp), dev |-> Addrs(grp)]
      BY <2>2, <3>1
    <3>3. PICK a : a = Addrs(grp)
      OBVIOUS
    <3>4. a \in Seq(Addr)
      BY <3>3, AddrsType DEF IInv
    <3> QED BY <3>2, <3>3, <3>4
  <2> QED BY <2>1, <2>2 DEF BatchFails
<1>7. TypeOK'
  <2>1. str' \in [Slots -> StreamRec]
    BY <1>1, <1>5
  <2>2. pin' \in [Slots -> Seq(Nat)]
    BY <1>1, <1>5
  <2>3. heard' \in [Slots -> Seq(Nat)]
    <3>1. <<>> \in Seq(Nat)
      OBVIOUS
    <3> QED BY <1>1, <1>5, <3>1
  <2>4. Idle \in TickRec
    BY Numbers DEF Idle, TickRec
  <2>5. \A i \in Slots : Len(str'[i].bat) < Batch
    <3>1. Len(<<>>) = 0
      OBVIOUS
    <3> QED BY <1>5, <3>1, Numbers
  <2> QED BY <1>1, <1>5, <1>6, <2>1, <2>2, <2>3, <2>4, <2>5 DEF IInv, TypeOK
<1>8. OnGpu'
  <2>1. \A c \in 0 .. NCust - 1 : gpu'[c] = <<>> /\ DOMAIN gpu'[c] = {}
    BY <1>1, <1>4
  <2>2. DOMAIN gpu' = 0 .. NCust - 1 /\ 0 \in 0 .. NCust - 1
    BY <1>1, Queues DEF IInv
  <2>3. InFlight' /\ Ordered'
    BY <2>1, <2>2 DEF InFlight, Ordered
  <2>4. Awaited'
    BY <1>5 DEF Awaited, Arrives
  <2>5. TableOk'
    BY <1>6, <2>1, <2>2 DEF TableOk
  <2> QED BY <2>3, <2>4, <2>5 DEF OnGpu
<1>9. HandPlace' /\ EndsWell'
  BY <1>1, <1>2 DEF HandPlace, EndsWell, Rest
<1>10. TickPlace'
  BY <1>1 DEF TickPlace, Idle
<1>11. ASSUME NEW i \in Slots PROVE Steady(i)'
  <2>1. hand'.slot # i /\ i \notin tick'.codes
    BY <1>1, <1>2 DEF Idle
  <2>2. str'[i].st # "on"
    BY <1>5
  <2> QED BY <1>5, <2>1, <2>2, FreshNext
<1> QED BY <1>7, <1>8, <1>9, <1>10, <1>11 DEF IInv

-----------------------------------------------------------------------------
(* The invariant.                                                           *)

LEMMA NextIInv == ASSUME IInv, [Next]_vars PROVE IInv'
<1>1. CASE UNCHANGED vars
  <2> USE <1>1 DEF vars
  <2>1. TypeOK'
    BY DEF IInv, TypeOK
  <2>2. \A i \in Slots : Undisturbed(i)
    BY Undone DEF Told
  <2>3. OnGpu'
    BY <2>2, Quiet DEF IInv
  <2>4. HandPlace' /\ TickPlace' /\ EndsWell'
    BY DEF IInv, HandPlace, TickPlace, EndsWell, DoPush, Live
  <2>5. ASSUME NEW i \in Slots PROVE Steady(i)'
    <3>1. /\ Told(i)' = Told(i) /\ Held(i)' = Held(i) /\ (Retires(i)' <=> Retires(i))
          /\ (Live(i)' <=> Live(i))
      BY DEF Told, Held, Retires, Live
    <3>2. Stream(i)'
      BY <3>1 DEF IInv, Steady, Stream
    <3>3. Counted(i) => Counted(i)'
      BY <3>1 DEF Counted, Frames
    <3>4. Live(i) /\ ~Retires(i) => Counted(i)
      BY DEF IInv, Steady
    <3> QED BY <3>1, <3>2, <3>3, <3>4 DEF Steady
  <2> QED BY <2>1, <2>3, <2>4, <2>5 DEF IInv
<1>2. ASSUME NEW i \in Slots, Admit(i) PROVE IInv'
  BY <1>2, AdmitIInv
<1>3. ASSUME NEW i \in Slots, FirstFrame(i) PROVE IInv'
  BY <1>3, FirstFrameIInv
<1>4. ASSUME NEW i \in Slots, LockstepRow(i) PROVE IInv'
  BY <1>4, LockstepRowIInv
<1>5. CASE Handler
  BY <1>5, CollectFrameIInv, PushFrameIInv, EagerCollectIInv, DeliverIInv, FinishCollectIInv,
     FinishTailIInv, FinishLastIInv, RetireIInv, CudaErrorIInv DEF Handler
<1>6. CASE Lockstep \/ TickDone \/ BatchAppend \/ BatchGroup \/ BatchDone \/ BatchFails
  BY <1>6, LockstepIInv, TickDoneIInv, BatchAppendIInv, BatchGroupIInv, BatchDoneIInv,
     BatchFailsIInv
<1>7. ASSUME NEW c \in 0 .. NCust - 1, GpuStep(c) PROVE IInv'
  BY <1>7, GpuStepIInv
<1> QED BY <1>1, <1>2, <1>3, <1>4, <1>5, <1>6, <1>7 DEF Next

\* What the four theorems below rest on.
LEMMA Invariant == Spec => []IInv
<1>1. Init => IInv
  BY InitIInv
<1>2. IInv /\ [Next]_vars => IInv'
  BY NextIInv
<1> QED BY <1>1, <1>2, PTL DEF Spec

-----------------------------------------------------------------------------
(* What a session hears.                                                    *)

\* The accumulator of a stream never overflows and no push exceeds what its
\* pinned buffer holds (bat[STREAM_BATCH_MAX], pcm_pin of stream.c), whatever
\* the GPU's delay and whichever CUDA call fails.
THEOREM TypeCorrect == Spec => []TypeOK
<1>1. IInv => TypeOK
  BY DEF IInv
<1> QED BY <1>1, Invariant, PTL

\* Every frame of a live stream was delivered, in order and undamaged, or is
\* on the GPU, in the accumulator or in the worker's hands: handle_frame,
\* finish_stream and the batched push of stream.c lose, repeat and exchange
\* nothing, for every number of sessions that share a CUDA stream and a table.
THEOREM FramesKept == Spec => []FramesAccounted
<1>1. IInv => FramesAccounted
  BY DEF IInv, FramesAccounted, Steady, Counted
<1> QED BY <1>1, Invariant, PTL

\* A stream that ends with its text was heard to its last frame, one that ends
\* at the frame cap too unless its frames are pushed by the tick, and
\* s2pd_inc_push_async and s2pd_inc_push_batch never meet a push in flight
\* (S2P_ERR_STATE).
THEOREM EndsKept == Spec => []EndsComplete
<1>1. IInv => EndsComplete
  <2> SUFFICES ASSUME IInv PROVE EndsComplete
    OBVIOUS
  <2>1. EndsWell
    BY DEF IInv
  <2>2. ASSUME tick.at = "batch", Refused PROVE FALSE
    <3>1. PICK i \in Ready : str[i].pending # 0
      BY <2>2 DEF Refused
    <3>2. /\ tick.strs = {j \in Slots : Live(j)} /\ tick.tn \in Nat /\ hand.slot # i
          /\ Held(i) = 0
      BY <2>2, <3>1, BatchPlace DEF Ready
    <3>3. i \in Slots
      BY <3>1, <3>2 DEF Ready
    <3>4. tick.tn > Batch
      BY <2>2, <3>1, <3>2, <3>3, ReadyStream, Numbers
    <3>5. Len(str[i].bat) < Batch /\ Len(str[i].bat) = tick.tn
      BY <2>2, <3>1, <3>3, <3>4 DEF IInv, TickPlace, Ready
    <3> QED BY <3>2, <3>4, <3>5, Numbers
  <2> QED BY <2>1, <2>2 DEF EndsWell, EndsComplete
<1> QED BY <1>1, Invariant, PTL

\* Once the worker has left a session that has a frame, its client has heard
\* something and at most a group of its frames is still to come: the first
\* frame is pushed alone and collected at once (handle_frame's eager collect).
THEOREM PromptKept == Spec => []Prompt
<1>1. IInv => Prompt
  <2> SUFFICES ASSUME IInv, NEW i \in Slots, Live(i), str[i].frames > 0, hand.slot # i
               PROVE  heard[i] # <<>> /\ str[i].frames - Len(heard[i]) <= Batch
    BY DEF Prompt
  <2>1. Stream(i) /\ Counted(i)
    BY DEF IInv, Steady, Retires
  <2>2. Told(i) = heard[i]
    BY DEF Told
  <2>3. str[i].st = "on"
    BY <2>1, Numbers DEF Stream
  <2>4. str[i].frames > Held(i) /\ heard[i] # <<>>
    BY <2>1, <2>2, <2>3 DEF Stream
  <2>5. /\ str[i].pending \in Nat /\ str[i].pending <= Batch /\ str[i].frames \in Nat
        /\ Len(str[i].bat) \in Nat /\ Len(str[i].bat) <= Batch /\ heard[i] \in Seq(Nat)
    BY SlotTypes DEF IInv
  <2>6. PICK h \in 0 .. 1 : h = Held(i)
    BY HeldNumber
  <2>7. PICK n \in Nat : n = Len(heard[i])
    BY <2>5
  <2>8. n + str[i].pending + Len(str[i].bat) + h = str[i].frames
    BY <2>1, <2>2, <2>6, <2>7 DEF Counted
  <2>9. str[i].pending = 0 \/ Len(str[i].bat) = 0
    <3>1. Len(<<>>) = 0
      OBVIOUS
    <3> QED BY <2>1, <3>1 DEF Stream
  <2> SUFFICES str[i].frames - n <= Batch
    BY <2>4, <2>7
  <2>13. PICK p \in Nat, l \in Nat, f \in Nat : p = str[i].pending /\ l = Len(str[i].bat) /\ f = str[i].frames
    BY <2>5
  <2>12. p <= Batch /\ l <= Batch /\ n + p + l + h = f /\ (p = 0 \/ l = 0)
    BY <2>5, <2>8, <2>9, <2>13
  <2>10. CASE h = 0
    <3>1. n + p + l = f
      BY <2>10, <2>12
    <3>2. n + p = f \/ n + l = f
      BY <2>12, <3>1
    <3>3. f - n = p \/ f - n = l
      BY <3>2
    <3> QED BY <2>12, <2>13, <3>3
  <2>11. CASE h = 1
    <3>1. i \in tick.codes
      BY <2>6, <2>11, HeldNumber
    <3>2. tick.at = "rows"
      <4>1. tick.at \in {"idle", "rows", "batch"}
        BY DEF IInv, TypeOK, TickRec
      <4>2. tick.at # "idle" /\ tick.at # "batch"
        BY <3>1 DEF IInv, TickPlace
      <4> QED BY <4>1, <4>2
    <3>3. str[i].pending = 0 /\ Len(str[i].bat) < Batch
      <4>1. batchOn /\ i \notin tick.todo
        BY <3>1 DEF IInv, TickPlace
      <4>2. str[i].pending = 0
        BY <3>2, <4>1 DEF IInv, TickPlace
      <4>3. Len(str[i].bat) < Batch
        BY <3>2 DEF IInv, TypeOK
      <4> QED BY <4>2, <4>3
    <3>4. p = 0 /\ l < Batch
      BY <2>13, <3>3
    <3> QED BY <2>11, <2>12, <2>13, <3>4, Numbers
  <2> QED BY <2>6, <2>10, <2>11
<1> QED BY <1>1, Invariant, PTL
=============================================================================
