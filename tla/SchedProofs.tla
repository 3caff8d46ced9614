----------------------------- MODULE SchedProofs -----------------------------
(* Proofs about the scheduler, for every number of requests, slots, queue   *)
(* depth and frame cap and for every set of faults.  The inductive          *)
(* invariant IInv of Sched holds initially (InitIInv) and is preserved by   *)
(* every action, one lemma each; the theorems follow from it.               *)
EXTENDS Sched, FiniteSetTheorems, TLAPS

(* Appending a new element to a sequence adds it to the range.              *)
LEMMA QueueAppend ==
  ASSUME NEW S, NEW q \in Seq(S), NEW e \in S
  PROVE  /\ Append(q, e) \in Seq(S) /\ Len(Append(q, e)) = Len(q) + 1
         /\ Range(Append(q, e)) = Range(q) \cup {e}
         /\ IsInjective(q) /\ e \notin Range(q) => IsInjective(Append(q, e))
<1> DEFINE a == Append(q, e)
<1>1. /\ a \in Seq(S) /\ Len(a) = Len(q) + 1 /\ DOMAIN a = 1 .. Len(q) + 1
      /\ \A i \in 1 .. Len(q) : a[i] = q[i]
      /\ a[Len(q) + 1] = e
      /\ DOMAIN q = 1 .. Len(q) /\ Len(q) \in Nat
  OBVIOUS
<1> HIDE DEF a
<1>2. Range(a) \subseteq Range(q) \cup {e}
  BY <1>1 DEF Range
<1>3. Range(q) \cup {e} \subseteq Range(a)
  BY <1>1 DEF Range
<1>4. ASSUME IsInjective(q), e \notin Range(q)
      PROVE  IsInjective(a)
  BY <1>1, <1>4 DEF Range, IsInjective
<1> QED BY <1>1, <1>2, <1>3, <1>4 DEF a

(* Popping a sequence takes its head out of the range.                      *)
LEMMA QueueTail ==
  ASSUME NEW S, NEW q \in Seq(S), q # <<>>
  PROVE  /\ Tail(q) \in Seq(S) /\ Len(Tail(q)) = Len(q) - 1
         /\ Head(q) \in S
         /\ Range(q) = Range(Tail(q)) \cup {Head(q)}
         /\ IsInjective(q) => IsInjective(Tail(q)) /\ Head(q) \notin Range(Tail(q))
<1> DEFINE t == Tail(q)
<1>1. /\ t \in Seq(S) /\ Len(t) = Len(q) - 1 /\ DOMAIN t = 1 .. Len(q) - 1
      /\ \A i \in 1 .. Len(q) - 1 : t[i] = q[i + 1]
      /\ Head(q) = q[1] /\ Head(q) \in S
      /\ DOMAIN q = 1 .. Len(q) /\ Len(q) \in Nat \ {0}
  OBVIOUS
<1> HIDE DEF t
<1>2. Head(q) \in Range(q) /\ Range(t) \subseteq Range(q)
  <2>1. Head(q) \in Range(q)
    BY <1>1, 1 \in DOMAIN q DEF Range
  <2>2. ASSUME NEW i \in DOMAIN t
        PROVE  t[i] \in Range(q)
    BY <1>1, <2>2, i + 1 \in DOMAIN q DEF Range
  <2> QED BY <2>1, <2>2 DEF Range
<1>3. ASSUME NEW x \in Range(q)
      PROVE  x \in Range(t) \cup {Head(q)}
  <2>1. PICK i \in 1 .. Len(q) : x = q[i]
    BY <1>1 DEF Range
  <2>2. CASE i = 1
    BY <1>1, <2>1, <2>2
  <2>3. CASE i # 1
    BY <1>1, <2>1, <2>3, i - 1 \in 1 .. Len(q) - 1, t[i - 1] = x DEF Range
  <2> QED BY <2>2, <2>3
<1>4. ASSUME IsInjective(q)
      PROVE  IsInjective(t) /\ Head(q) \notin Range(t)
  <2>1. IsInjective(t)
    BY <1>1, <1>4 DEF IsInjective
  <2>2. Head(q) \notin Range(t)
    BY <1>1, <1>4 DEF Range, IsInjective
  <2> QED BY <2>1, <2>2
<1> QED BY <1>1, <1>2, <1>3, <1>4 DEF t

(* The scheduler s2p_sched_create makes satisfies the invariant. *)
LEMMA InitIInv == Init => IInv
<1> SUFFICES ASSUME Init PROVE IInv
  OBVIOUS
<1> USE DEF Init
<1>1. TypeOK
  <2>1. queue \in Seq(Req) /\ Len(queue) <= QueueDepth
    BY SchedConstants
  <2>2. /\ slot \in [Slots -> Req \cup {None}]
        /\ chunks \in [Slots -> 0 .. MaxChunks] /\ frames \in [Slots -> 0 .. MaxFrames]
        /\ rr \in Slots /\ starts \in 0 .. MaxStarts
    BY SchedConstants DEF Slots
  <2>3. phase \in [Slots -> {"idle", "prefilling", "fresh", "steady"}]
    OBVIOUS
  <2>4. client \in [Req -> ClientStates] /\ wpc \in WorkerPCs /\ stage \in Stages
    BY DEF WorkerPCs, Stages, ClientStates
  <2>5. running \in BOOLEAN /\ stop \in BOOLEAN
    OBVIOUS
  <2>6. /\ nActive \in Int /\ todo \subseteq Slots /\ wslot \in Slots \cup {NoSlot}
        /\ wreq \in Req \cup {None} /\ ret \in {"retire", "free", "frame", "tail"}
        /\ boss \in {"idle", "creating", "joining"}
    OBVIOUS
  <2> QED
    BY <2>1, <2>2, <2>3, <2>4, <2>5, <2>6
    DEF TypeOK, MemoryType, OutcomeType, WorkerType, ControlType
<1>2. WorkerPlace /\ TodoPlace /\ CallbackPlace
  BY DEF WorkerPlace, TodoPlace, CallbackPlace
<1>3. SlotProgress
  BY SchedConstants DEF SlotProgress, Joining, Occupied
<1>4. Ownership
  <2>1. IsInjective(queue) /\ Queued = {} /\ Seated = {} /\ Occupied = {}
    BY DEF IsInjective, Occupied, Queued, Seated, Range
  <2>2. InHand = {} /\ Accepted = {}
    BY DEF InHand, Accepted
  <2> QED BY <2>1, <2>2 DEF Ownership
<1>5. CancelMarks /\ OverMarks /\ BossPlace
  BY DEF CancelMarks, OverMarks, QuietAfterCancelOK, BossPlace
<1> QED
  BY <1>1, <1>2, <1>3, <1>4, <1>5 DEF IInv

-----------------------------------------------------------------------------
(* A request whose callback runs is the one the worker serves, and is in    *)
(* its slot or in the worker's hands: neither queued nor freed.             *)
LEMMA BusyPlace ==
  ASSUME IInv, NEW r \in inCb
  PROVE  r = wreq /\ wpc = "callback" /\ r \notin Queued /\ r \notin freed
<1> USE DEF IInv
<1>1. r = wreq /\ wpc = "callback" /\ wreq # None
  BY DEF CallbackPlace, WorkerPlace
<1>2. CASE ret = "free"
  BY <1>1, <1>2 DEF Ownership, InHand
<1>3. CASE ret # "free"
  <2>1. wslot \in Occupied /\ slot[wslot] = wreq
    BY <1>1, <1>3 DEF WorkerPlace, Occupied
  <2>2. wreq \in Seated
    BY <2>1 DEF Seated, Range, Occupied, TypeOK, MemoryType
  <2> QED BY <1>1, <2>2 DEF Ownership
<1> QED BY <1>1, <1>2, <1>3

(* Filling an empty slot seats its request. *)
LEMMA SeatTaken ==
  ASSUME TypeOK, NEW i \in Slots, NEW r \in Req, slot[i] = None,
         slot' = [slot EXCEPT ![i] = r]
  PROVE  /\ Occupied' = Occupied \cup {i} /\ Seated' = Seated \cup {r}
         /\ \A j \in Slots : slot'[j] = IF j = i THEN r ELSE slot[j]
<1> USE SchedConstants DEF TypeOK, MemoryType
<1>1. /\ DOMAIN slot = Slots /\ DOMAIN slot' = Slots
      /\ \A j \in Slots : slot'[j] = IF j = i THEN r ELSE slot[j]
  OBVIOUS
<1>2. Occupied' = Occupied \cup {i}
  BY <1>1 DEF Occupied
<1>3. Seated' = Seated \cup {r}
  BY <1>1 DEF Seated, Range
<1> QED BY <1>1, <1>2, <1>3

(* Emptying a slot unseats its request. *)
LEMMA SeatLeft ==
  ASSUME TypeOK, Ownership, NEW i \in Slots, slot[i] # None,
         slot' = [slot EXCEPT ![i] = None]
  PROVE  /\ Occupied' = Occupied \ {i} /\ Seated' = Seated \ {slot[i]}
         /\ \A j \in Slots : slot'[j] = IF j = i THEN None ELSE slot[j]
<1> USE DEF TypeOK, MemoryType
<1>1. /\ DOMAIN slot = Slots /\ DOMAIN slot' = Slots
      /\ \A j \in Slots : slot'[j] = IF j = i THEN None ELSE slot[j]
  OBVIOUS
<1>2. Occupied' = Occupied \ {i}
  BY <1>1 DEF Occupied
<1>3. \A j \in Slots : slot[j] = slot[i] => j = i
  BY DEF Ownership, Occupied
<1>4. Seated' = Seated \ {slot[i]}
  BY <1>1, <1>3 DEF Seated, Range
<1> QED BY <1>1, <1>2, <1>4

(* A seated request has a slot, and a slot's request is seated. *)
LEMMA SeatedSlot ==
  ASSUME TypeOK
  PROVE  /\ \A i \in Slots : slot[i] # None => slot[i] \in Seated /\ i \in Occupied
         /\ Seated \subseteq Req
  BY DEF TypeOK, MemoryType, Seated, Range, Occupied

(* An accepted request enters the ring and no other place. *)
LEMMA SubmitInv ==
  ASSUME NEW r \in Req, IInv, Submit(r)
  PROVE  IInv'
<1> USE DEF IInv, memory, outcome, worker, control, Submit, Broadcast
<1>1. TypeOK'
  <2>1. WorkerType' /\ ControlType'
    BY DEF TypeOK, WorkerType, ControlType
  <2>2. MemoryType'
    <3>1. CASE running /\ ~stop /\ Len(queue) < QueueDepth
      <4>1. Append(queue, r) \in Seq(Req) /\ Len(Append(queue, r)) = Len(queue) + 1
        BY QueueAppend DEF TypeOK, MemoryType
      <4>2. Len(queue) \in Nat /\ QueueDepth \in Nat
        BY SchedConstants DEF TypeOK, MemoryType
      <4>3. queue' = Append(queue, r)
        BY <3>1
      <4>4. queue' \in Seq(Req) /\ Len(queue') <= QueueDepth
        BY <3>1, <4>1, <4>2, <4>3
      <4> QED BY <4>4 DEF TypeOK, MemoryType
    <3>2. CASE ~(running /\ ~stop /\ Len(queue) < QueueDepth)
      BY <3>2 DEF TypeOK, MemoryType
    <3> QED BY <3>1, <3>2
  <2>3. OutcomeType'
    BY SchedConstants DEF TypeOK, MemoryType, OutcomeType, WorkerType, Slots,
         NoSlot, ClientStates, WorkerPlace
  <2> QED BY <2>1, <2>2, <2>3 DEF TypeOK
<1>2. WorkerPlace' /\ TodoPlace' /\ SlotProgress' /\ CallbackPlace' /\ OverMarks' /\ BossPlace'
  BY DEF WorkerPlace, TodoPlace, Occupied, SlotProgress, Joining,
       CallbackPlace, OverMarks, BossPlace
<1>3. Ownership'
  <2>1. CASE running /\ ~stop /\ Len(queue) < QueueDepth
    <3>1. Accepted' = Accepted \cup {r} /\ r \notin Accepted
      BY <2>1 DEF Accepted, TypeOK, OutcomeType, ClientStates
    <3>2. r \notin Queued \cup Seated \cup InHand \cup freed
      BY <3>1 DEF Ownership
    <3>3. IsInjective(queue') /\ Queued' = Queued \cup {r}
      <4>1. queue \in Seq(Req) /\ IsInjective(queue) /\ r \notin Range(queue)
        BY <3>2 DEF TypeOK, MemoryType, Ownership, Queued
      <4>2. queue' = Append(queue, r)
        BY <2>1
      <4> QED BY <4>1, <4>2, QueueAppend DEF Queued
    <3>4. Seated' = Seated /\ Occupied' = Occupied /\ InHand' = InHand
      BY DEF Seated, Occupied, InHand
    <3> QED
      BY <3>1, <3>2, <3>3, <3>4 DEF Ownership
  <2>2. CASE ~(running /\ ~stop /\ Len(queue) < QueueDepth)
    <3>1. Accepted' = Accepted
      BY <2>2 DEF Accepted, TypeOK, OutcomeType, ClientStates
    <3> QED
      BY <2>2, <3>1 DEF Ownership, Queued, Seated, Occupied, InHand
  <2> QED BY <2>1, <2>2
<1>4. CancelMarks'
  BY DEF TypeOK, MemoryType, OutcomeType, WorkerType, WorkerPlace, Ownership,
       CallbackPlace, CancelMarks, QuietAfterCancelOK, Seated, Queued, InHand,
       Accepted, Occupied
<1> QED
  BY <1>1, <1>2, <1>3, <1>4

(* A cancel marks requests; where they are does not change. *)
LEMMA CancelInv ==
  ASSUME NEW r \in Req, IInv, Cancel(r)
  PROVE  IInv'
<1> USE DEF IInv, memory, outcome, worker, control, Cancel
<1>1. TypeOK'
  <2>1. MemoryType' /\ WorkerType' /\ ControlType'
    BY DEF TypeOK, MemoryType, WorkerType, ControlType
  <2>2. OutcomeType'
    BY SchedConstants DEF TypeOK, MemoryType, OutcomeType, WorkerType, Slots,
         NoSlot, ClientStates, WorkerPlace
  <2> QED BY <2>1, <2>2 DEF TypeOK
<1>2. WorkerPlace' /\ TodoPlace' /\ SlotProgress' /\ CallbackPlace' /\ OverMarks' /\ BossPlace'
  BY DEF WorkerPlace, TodoPlace, Occupied, SlotProgress, Joining,
       CallbackPlace, OverMarks, BossPlace
<1>3. Ownership'
  <2>1. InHand' = InHand
    BY DEF InHand, WorkerPlace
  <2>2. Accepted' = Accepted
    BY DEF Accepted, TypeOK, MemoryType, OutcomeType, WorkerType, ClientStates
  <2> QED BY <2>1, <2>2 DEF Ownership, Queued, Seated, Occupied
<1>4. CancelMarks'
  <2>1. r \in inCb => r \notin Queued
    BY BusyPlace
  <2>2. client \in [Req -> ClientStates] /\ inCb \subseteq Req
    BY DEF TypeOK, OutcomeType
  <2>3. QuietAfterCancelOK'
    BY <2>1, <2>2 DEF CancelMarks, QuietAfterCancelOK
  <2>4. Seated' = Seated
    BY DEF Seated
  <2> QED
    BY <2>2, <2>3, <2>4 DEF CancelMarks
<1> QED
  BY <1>1, <1>2, <1>3, <1>4

(* A canceller goes back to sleep while its callback runs. *)
LEMMA CancelWakeInv ==
  ASSUME NEW r \in Req, IInv, CancelWake(r)
  PROVE  IInv'
<1> USE DEF IInv, memory, outcome, worker, control, CancelWake
<1>1. TypeOK'
  <2>1. MemoryType' /\ WorkerType' /\ ControlType'
    BY DEF TypeOK, MemoryType, WorkerType, ControlType
  <2>2. OutcomeType'
    BY SchedConstants DEF TypeOK, MemoryType, OutcomeType, WorkerType, Slots,
         NoSlot, ClientStates, WorkerPlace
  <2> QED BY <2>1, <2>2 DEF TypeOK
<1>2. WorkerPlace' /\ TodoPlace' /\ SlotProgress' /\ CallbackPlace' /\ OverMarks' /\ BossPlace'
  BY DEF WorkerPlace, TodoPlace, Occupied, SlotProgress, Joining,
       CallbackPlace, OverMarks, BossPlace
<1>3. Ownership'
  <2>1. InHand' = InHand
    BY DEF InHand, WorkerPlace
  <2>2. Accepted' = Accepted
    BY DEF Accepted, TypeOK, MemoryType, OutcomeType, WorkerType, ClientStates
  <2> QED BY <2>1, <2>2 DEF Ownership, Queued, Seated, Occupied
<1>4. CancelMarks'
  <2>1. r \in inCb => r \in Seated
    BY BusyPlace DEF CancelMarks
  <2>2. client \in [Req -> ClientStates] /\ inCb \subseteq Req
    BY DEF TypeOK, OutcomeType
  <2>3. QuietAfterCancelOK'
    BY <2>1, <2>2 DEF CancelMarks, QuietAfterCancelOK
  <2>4. Seated' = Seated
    BY DEF Seated
  <2> QED
    BY <2>2, <2>3, <2>4 DEF CancelMarks
<1> QED
  BY <1>1, <1>2, <1>3, <1>4

(* Starting touches the flags of the worker's owner only. *)
LEMMA StartInv ==
  ASSUME IInv, Start
  PROVE  IInv'
<1> USE DEF IInv, memory, outcome, worker, control, Start
<1>1. TypeOK'
  <2>1. MemoryType' /\ OutcomeType' /\ WorkerType'
    BY DEF TypeOK, MemoryType, OutcomeType, WorkerType
  <2>2. ControlType'
    <3>1. starts' \in 0 .. MaxStarts
      BY SchedConstants DEF TypeOK, ControlType
    <3> QED BY <3>1 DEF TypeOK, ControlType
  <2> QED BY <2>1, <2>2 DEF TypeOK
<1>2. WorkerPlace' /\ TodoPlace' /\ SlotProgress' /\ Ownership' /\ CallbackPlace' /\ CancelMarks' /\ OverMarks'
  BY DEF WorkerPlace, TodoPlace, Occupied, SlotProgress, Joining, Ownership,
       Queued, Seated, InHand, Accepted, CallbackPlace, CancelMarks,
       QuietAfterCancelOK, OverMarks
<1>3. BossPlace'
  BY DEF BossPlace
<1> QED
  BY <1>1, <1>2, <1>3

(* The new worker starts with nothing in hand. *)
LEMMA CreateWorkerInv ==
  ASSUME IInv, CreateWorker
  PROVE  IInv'
<1> USE DEF IInv, memory, outcome, worker, control, CreateWorker
<1>1. TypeOK'
  <2>1. MemoryType' /\ OutcomeType'
    BY DEF TypeOK, MemoryType, OutcomeType
  <2>2. WorkerType'
    BY SchedConstants DEF TypeOK, MemoryType, OutcomeType, WorkerType, Slots,
         NoSlot, Occupied, WorkerPCs, Stages, WorkerPlace
  <2>3. ControlType'
    BY SchedConstants DEF TypeOK, MemoryType, OutcomeType, WorkerType,
         ControlType
  <2> QED BY <2>1, <2>2, <2>3 DEF TypeOK
<1>2. SlotProgress' /\ CancelMarks'
  BY DEF SlotProgress, Joining, Occupied, CancelMarks, QuietAfterCancelOK,
       Seated
<1>3. WorkerPlace'
  BY DEF WorkerPlace, BossPlace
<1>4. TodoPlace'
  BY DEF TodoPlace, BossPlace, Occupied
<1>5. Ownership'
  <2>1. InHand' = InHand
    BY DEF InHand, BossPlace
  <2> QED
    BY <2>1 DEF Ownership, Queued, Seated, Occupied, Accepted
<1>6. CallbackPlace'
  BY DEF CallbackPlace, BossPlace
<1>7. OverMarks'
  BY DEF OverMarks, BossPlace
<1>8. BossPlace'
  <2>1. wpc = "off"
    BY DEF BossPlace
  <2>2. CASE wpc' = "relock" /\ running' = running
    BY <2>2 DEF BossPlace
  <2>3. CASE wpc' = wpc
    BY <2>1, <2>3 DEF BossPlace
  <2> QED BY <2>2, <2>3
<1> QED
  BY <1>1, <1>2, <1>3, <1>4, <1>5, <1>6, <1>7, <1>8

(* Stopping raises a flag and wakes every sleeper. *)
LEMMA StopInv ==
  ASSUME IInv, Stop
  PROVE  IInv'
<1> USE DEF IInv, memory, outcome, worker, control, Stop, Broadcast
<1>1. TypeOK'
  <2>1. MemoryType' /\ WorkerType'
    BY DEF TypeOK, MemoryType, WorkerType
  <2>2. OutcomeType'
    BY SchedConstants DEF TypeOK, MemoryType, OutcomeType, WorkerType, Slots,
         NoSlot, ClientStates, WorkerPlace
  <2>3. ControlType'
    BY SchedConstants DEF TypeOK, MemoryType, OutcomeType, WorkerType,
         ControlType
  <2> QED BY <2>1, <2>2, <2>3 DEF TypeOK
<1>2. WorkerPlace' /\ TodoPlace' /\ SlotProgress' /\ Ownership' /\ CallbackPlace' /\ CancelMarks' /\ OverMarks'
  BY DEF WorkerPlace, TodoPlace, Occupied, SlotProgress, Joining, Ownership,
       Queued, Seated, InHand, Accepted, CallbackPlace, CancelMarks,
       QuietAfterCancelOK, OverMarks
<1>3. BossPlace'
  BY DEF BossPlace
<1> QED
  BY <1>1, <1>2, <1>3

(* The owner sees the worker gone. *)
LEMMA JoinInv ==
  ASSUME IInv, Join
  PROVE  IInv'
<1> USE DEF IInv, memory, outcome, worker, control, Join
<1>1. TypeOK'
  <2>1. MemoryType' /\ OutcomeType' /\ WorkerType'
    BY DEF TypeOK, MemoryType, OutcomeType, WorkerType
  <2>2. ControlType'
    BY SchedConstants DEF TypeOK, MemoryType, OutcomeType, WorkerType,
         ControlType
  <2> QED BY <2>1, <2>2 DEF TypeOK
<1>2. WorkerPlace' /\ TodoPlace' /\ SlotProgress' /\ Ownership' /\ CallbackPlace' /\ CancelMarks' /\ OverMarks'
  BY DEF WorkerPlace, TodoPlace, Occupied, SlotProgress, Joining, Ownership,
       Queued, Seated, InHand, Accepted, CallbackPlace, CancelMarks,
       QuietAfterCancelOK, OverMarks
<1>3. BossPlace'
  BY DEF BossPlace
<1> QED
  BY <1>1, <1>2, <1>3

(* deliver() marks the callback of the served request, or skips it. *)
LEMMA DeliverMarkInv ==
  ASSUME IInv, DeliverMark
  PROVE  IInv'
<1> USE DEF IInv, memory, outcome, worker, control, DeliverMark, Serve, NextSlot, AfterDeliver
<1>1. TypeOK'
  <2>1. MemoryType' /\ ControlType'
    BY DEF TypeOK, MemoryType, ControlType
  <2>2. OutcomeType'
    BY SchedConstants DEF TypeOK, MemoryType, OutcomeType, WorkerType, Slots,
         NoSlot, ClientStates, WorkerPlace
  <2>3. WorkerType'
    BY SchedConstants DEF TypeOK, MemoryType, OutcomeType, WorkerType, Slots,
         NoSlot, Occupied, WorkerPCs, Stages, WorkerPlace
  <2> QED BY <2>1, <2>2, <2>3 DEF TypeOK
<1>2. WorkerPlace'
  BY SchedConstants DEF TypeOK, MemoryType, OutcomeType, WorkerType,
       WorkerPlace, TodoPlace, Occupied, Slots, NoSlot
<1>3. TodoPlace'
  BY SchedConstants DEF TypeOK, MemoryType, OutcomeType, WorkerType,
       WorkerPlace, TodoPlace, Occupied, Slots, NoSlot
<1>4. SlotProgress'
  BY SchedConstants DEF TypeOK, MemoryType, OutcomeType, WorkerType,
       WorkerPlace, TodoPlace, SlotProgress, Joining, Occupied, Slots, NoSlot
<1>5. Ownership'
  <2>1. InHand' = InHand
    BY DEF InHand, WorkerPlace
  <2>2. Accepted' = Accepted
    BY DEF Accepted
  <2> QED BY <2>1, <2>2 DEF Ownership, Queued, Seated, Occupied
<1>6. CallbackPlace'
  BY DEF CallbackPlace
<1>7. CancelMarks'
  BY DEF TypeOK, MemoryType, OutcomeType, WorkerType, WorkerPlace, Ownership,
       CallbackPlace, CancelMarks, QuietAfterCancelOK, Seated, Queued, InHand,
       Accepted, Occupied
<1>8. OverMarks'
  BY DEF TypeOK, MemoryType, OutcomeType, WorkerType, WorkerPlace, OverMarks,
       CallbackPlace, Ownership, InHand
<1>9. BossPlace'
  BY DEF BossPlace
<1> QED
  BY <1>1, <1>2, <1>3, <1>4, <1>5, <1>6, <1>7, <1>8, <1>9

(* A callback that ends its stream leaves it on the way out. *)
LEMMA CallbackReturnsInv ==
  ASSUME NEW rc \in {0, 1}, IInv, CallbackReturns(rc)
  PROVE  IInv'
<1> USE DEF IInv, memory, outcome, worker, control, CallbackReturns, Serve, NextSlot, AfterDeliver, Broadcast, Final
<1>1. TypeOK'
  <2>1. MemoryType' /\ ControlType'
    BY DEF TypeOK, MemoryType, ControlType
  <2>2. OutcomeType'
    BY SchedConstants DEF TypeOK, MemoryType, OutcomeType, WorkerType, Slots,
         NoSlot, ClientStates, WorkerPlace
  <2>3. WorkerType'
    BY SchedConstants DEF TypeOK, MemoryType, OutcomeType, WorkerType, Slots,
         NoSlot, Occupied, WorkerPCs, Stages, WorkerPlace
  <2> QED BY <2>1, <2>2, <2>3 DEF TypeOK
<1>2. WorkerPlace'
  BY SchedConstants DEF TypeOK, MemoryType, OutcomeType, WorkerType,
       WorkerPlace, TodoPlace, Occupied, Slots, NoSlot
<1>3. TodoPlace'
  BY SchedConstants DEF TypeOK, MemoryType, OutcomeType, WorkerType,
       WorkerPlace, TodoPlace, Occupied, Slots, NoSlot
<1>4. SlotProgress'
  BY SchedConstants DEF TypeOK, MemoryType, OutcomeType, WorkerType,
       WorkerPlace, TodoPlace, SlotProgress, Joining, Occupied, Slots, NoSlot
<1>5. Ownership'
  <2>1. InHand' = InHand
    BY DEF InHand, WorkerPlace
  <2>2. Accepted' = Accepted
    BY DEF Accepted
  <2> QED BY <2>1, <2>2 DEF Ownership, Queued, Seated, Occupied
<1>6. CallbackPlace'
  BY DEF CallbackPlace
<1>7. CancelMarks'
  BY DEF TypeOK, MemoryType, OutcomeType, WorkerType, WorkerPlace, Ownership,
       CallbackPlace, CancelMarks, QuietAfterCancelOK, Seated, Queued, InHand,
       Accepted, Occupied
<1>8. OverMarks'
  BY DEF TypeOK, MemoryType, OutcomeType, WorkerType, WorkerPlace, OverMarks,
       CallbackPlace, Ownership, InHand
<1>9. BossPlace'
  BY DEF BossPlace
<1> QED
  BY <1>1, <1>2, <1>3, <1>4, <1>5, <1>6, <1>7, <1>8, <1>9

(* retire() empties the served slot and frees its request. *)
LEMMA RetireInv ==
  ASSUME IInv, Retire
  PROVE  IInv'
<1> USE DEF IInv, memory, outcome, worker, control, Retire, Serve, NextSlot, Broadcast
<1>1. TypeOK'
  <2>1. ControlType'
    BY DEF TypeOK, ControlType
  <2>2. MemoryType'
    BY SchedConstants DEF TypeOK, MemoryType, OutcomeType, WorkerType, Slots,
         NoSlot, Occupied, WorkerPlace, TodoPlace, SlotProgress, Joining
  <2>3. OutcomeType'
    BY SchedConstants DEF TypeOK, MemoryType, OutcomeType, WorkerType, Slots,
         NoSlot, ClientStates, WorkerPlace
  <2>4. WorkerType'
    BY SchedConstants DEF TypeOK, MemoryType, OutcomeType, WorkerType, Slots,
         NoSlot, Occupied, WorkerPCs, Stages, WorkerPlace
  <2> QED BY <2>1, <2>2, <2>3, <2>4 DEF TypeOK
<1>2. WorkerPlace'
  BY SchedConstants DEF TypeOK, MemoryType, OutcomeType, WorkerType,
       WorkerPlace, TodoPlace, Occupied, Slots, NoSlot
<1>3. TodoPlace'
  BY SchedConstants DEF TypeOK, MemoryType, OutcomeType, WorkerType,
       WorkerPlace, TodoPlace, Occupied, Slots, NoSlot
<1>4. SlotProgress'
  BY SchedConstants DEF TypeOK, MemoryType, OutcomeType, WorkerType,
       WorkerPlace, TodoPlace, SlotProgress, Joining, Occupied, Slots, NoSlot
<1>5. Ownership'
  <2>1. wslot \in Slots /\ slot[wslot] = wreq /\ wreq # None /\ wreq \in Req
    BY DEF WorkerPlace, TypeOK, WorkerType
  <2>2. /\ Occupied' = Occupied \ {wslot} /\ Seated' = Seated \ {wreq}
        /\ \A j \in Slots : slot'[j] = IF j = wslot THEN None ELSE slot[j]
    BY <2>1, SeatLeft
  <2>3. wreq \in Seated
    BY <2>1, SeatedSlot
  <2>4. InHand' = {} /\ InHand = {} /\ Accepted' = Accepted /\ Queued' = Queued
    BY DEF InHand, Accepted, Queued
  <2>5. \A i, j \in Occupied' : slot'[i] = slot'[j] => i = j
    BY <2>2 DEF Ownership, Occupied
  <2>6. wreq \in Accepted /\ wreq \notin freed /\ wreq \notin Queued
    BY <2>3 DEF Ownership
  <2> QED
    BY <2>2, <2>4, <2>5, <2>6 DEF Ownership
<1>6. CallbackPlace'
  BY DEF CallbackPlace
<1>7. CancelMarks'
  <2>1. wslot \in Slots /\ slot[wslot] = wreq /\ wreq # None
    BY DEF WorkerPlace
  <2>2. Seated' = Seated \ {wreq}
    BY <2>1, SeatLeft
  <2> QED
    BY <2>2 DEF CancelMarks, QuietAfterCancelOK
<1>8. OverMarks'
  BY DEF TypeOK, MemoryType, OutcomeType, WorkerType, WorkerPlace, OverMarks,
       CallbackPlace, Ownership, InHand
<1>9. BossPlace'
  BY DEF BossPlace
<1> QED
  BY <1>1, <1>2, <1>3, <1>4, <1>5, <1>6, <1>7, <1>8, <1>9

(* The end of a stream keeps serving its slot: the last chunk. *)
LEMMA FinishCollectInv ==
  ASSUME IInv, FinishCollect
  PROVE  IInv'
<1> USE DEF IInv, memory, outcome, worker, control, FinishCollect, Serve, Deliver
<1>1. TypeOK'
  <2>1. MemoryType' /\ OutcomeType' /\ ControlType'
    BY DEF TypeOK, MemoryType, OutcomeType, ControlType
  <2>2. WorkerType'
    BY SchedConstants DEF TypeOK, MemoryType, OutcomeType, WorkerType, Slots,
         NoSlot, Occupied, WorkerPCs, Stages, WorkerPlace
  <2> QED BY <2>1, <2>2 DEF TypeOK
<1>2. WorkerPlace'
  BY SchedConstants DEF TypeOK, MemoryType, OutcomeType, WorkerType,
       WorkerPlace, TodoPlace, Occupied, Slots, NoSlot
<1>3. TodoPlace'
  BY SchedConstants DEF TypeOK, MemoryType, OutcomeType, WorkerType,
       WorkerPlace, TodoPlace, Occupied, Slots, NoSlot
<1>4. SlotProgress'
  BY SchedConstants DEF TypeOK, MemoryType, OutcomeType, WorkerType,
       WorkerPlace, TodoPlace, SlotProgress, Joining, Occupied, Slots, NoSlot
<1>5. Ownership'
  <2>1. InHand' = InHand
    BY DEF InHand, WorkerPlace
  <2>2. Accepted' = Accepted
    BY DEF Accepted
  <2> QED BY <2>1, <2>2 DEF Ownership, Queued, Seated, Occupied
<1>6. CallbackPlace'
  BY DEF CallbackPlace
<1>7. CancelMarks'
  BY DEF TypeOK, MemoryType, OutcomeType, WorkerType, WorkerPlace, Ownership,
       CallbackPlace, CancelMarks, QuietAfterCancelOK, Seated, Queued, InHand,
       Accepted, Occupied
<1>8. OverMarks'
  BY DEF TypeOK, MemoryType, OutcomeType, WorkerType, WorkerPlace, OverMarks,
       CallbackPlace, Ownership, InHand
<1>9. BossPlace'
  BY DEF BossPlace
<1> QED
  BY <1>1, <1>2, <1>3, <1>4, <1>5, <1>6, <1>7, <1>8, <1>9

(* The end of a stream keeps serving its slot: the tail. *)
LEMMA FinishTailInv ==
  ASSUME IInv, FinishTail
  PROVE  IInv'
<1> USE DEF IInv, memory, outcome, worker, control, FinishTail, Serve, Deliver
<1>1. TypeOK'
  <2>1. MemoryType' /\ OutcomeType' /\ ControlType'
    BY DEF TypeOK, MemoryType, OutcomeType, ControlType
  <2>2. WorkerType'
    BY SchedConstants DEF TypeOK, MemoryType, OutcomeType, WorkerType, Slots,
         NoSlot, Occupied, WorkerPCs, Stages, WorkerPlace
  <2> QED BY <2>1, <2>2 DEF TypeOK
<1>2. WorkerPlace'
  BY SchedConstants DEF TypeOK, MemoryType, OutcomeType, WorkerType,
       WorkerPlace, TodoPlace, Occupied, Slots, NoSlot
<1>3. TodoPlace'
  BY SchedConstants DEF TypeOK, MemoryType, OutcomeType, WorkerType,
       WorkerPlace, TodoPlace, Occupied, Slots, NoSlot
<1>4. SlotProgress'
  BY SchedConstants DEF TypeOK, MemoryType, OutcomeType, WorkerType,
       WorkerPlace, TodoPlace, SlotProgress, Joining, Occupied, Slots, NoSlot
<1>5. Ownership'
  <2>1. InHand' = InHand
    BY DEF InHand, WorkerPlace
  <2>2. Accepted' = Accepted
    BY DEF Accepted
  <2> QED BY <2>1, <2>2 DEF Ownership, Queued, Seated, Occupied
<1>6. CallbackPlace'
  BY DEF CallbackPlace
<1>7. CancelMarks'
  BY DEF TypeOK, MemoryType, OutcomeType, WorkerType, WorkerPlace, Ownership,
       CallbackPlace, CancelMarks, QuietAfterCancelOK, Seated, Queued, InHand,
       Accepted, Occupied
<1>8. OverMarks'
  BY DEF TypeOK, MemoryType, OutcomeType, WorkerType, WorkerPlace, OverMarks,
       CallbackPlace, Ownership, InHand
<1>9. BossPlace'
  BY DEF BossPlace
<1> QED
  BY <1>1, <1>2, <1>3, <1>4, <1>5, <1>6, <1>7, <1>8, <1>9

(* Back under the lock the worker serves nothing. *)
LEMMA WorkerLockInv ==
  ASSUME IInv, WorkerLock
  PROVE  IInv'
<1> USE DEF IInv, memory, outcome, worker, control, WorkerLock
<1>1. TypeOK'
  <2>1. MemoryType' /\ OutcomeType' /\ ControlType'
    BY DEF TypeOK, MemoryType, OutcomeType, ControlType
  <2>2. WorkerType'
    BY SchedConstants DEF TypeOK, MemoryType, OutcomeType, WorkerType, Slots,
         NoSlot, Occupied, WorkerPCs, Stages, WorkerPlace
  <2> QED BY <2>1, <2>2 DEF TypeOK
<1>2. CancelMarks' /\ SlotProgress'
  BY DEF CancelMarks, QuietAfterCancelOK, Seated, SlotProgress, Joining,
       Occupied
<1>3. WorkerPlace'
  BY SchedConstants DEF TypeOK, MemoryType, OutcomeType, WorkerType,
       WorkerPlace, TodoPlace, Occupied, Slots, NoSlot
<1>4. TodoPlace'
  BY SchedConstants DEF TypeOK, MemoryType, OutcomeType, WorkerType,
       WorkerPlace, TodoPlace, Occupied, Slots, NoSlot
<1>5. Ownership'
  <2>1. InHand' = InHand
    BY DEF InHand, WorkerPlace
  <2>2. Accepted' = Accepted
    BY DEF Accepted
  <2> QED BY <2>1, <2>2 DEF Ownership, Queued, Seated, Occupied
<1>6. CallbackPlace'
  BY DEF CallbackPlace
<1>7. OverMarks'
  BY DEF TypeOK, MemoryType, OutcomeType, WorkerType, WorkerPlace, OverMarks,
       CallbackPlace, Ownership, InHand
<1>8. BossPlace'
  BY DEF BossPlace
<1> QED
  BY <1>1, <1>2, <1>3, <1>4, <1>5, <1>6, <1>7, <1>8

(* On stop the worker sets out to visit every occupied slot. *)
LEMMA LoopHeadInv ==
  ASSUME IInv, LoopHead
  PROVE  IInv'
<1> USE DEF IInv, memory, outcome, worker, control, LoopHead
<1>1. TypeOK'
  <2>1. MemoryType' /\ OutcomeType' /\ ControlType'
    BY DEF TypeOK, MemoryType, OutcomeType, ControlType
  <2>2. WorkerType'
    BY SchedConstants DEF TypeOK, MemoryType, OutcomeType, WorkerType, Slots,
         NoSlot, Occupied, WorkerPCs, Stages, WorkerPlace
  <2> QED BY <2>1, <2>2 DEF TypeOK
<1>2. CancelMarks' /\ SlotProgress'
  BY DEF CancelMarks, QuietAfterCancelOK, Seated, SlotProgress, Joining,
       Occupied
<1>3. WorkerPlace'
  BY SchedConstants DEF TypeOK, MemoryType, OutcomeType, WorkerType,
       WorkerPlace, TodoPlace, Occupied, Slots, NoSlot
<1>4. TodoPlace'
  <2>1. todo = {} /\ wslot = NoSlot
    BY DEF TodoPlace, WorkerPlace
  <2>2. Occupied' = Occupied /\ NoSlot \notin Occupied
    BY DEF Occupied, Slots, NoSlot
  <2>3. CASE stop
    BY <2>1, <2>2, <2>3 DEF TodoPlace
  <2>4. CASE ~stop
    BY <2>1, <2>2, <2>4 DEF TodoPlace
  <2> QED BY <2>3, <2>4
<1>5. Ownership'
  <2>1. InHand' = InHand
    BY DEF InHand, WorkerPlace
  <2>2. Accepted' = Accepted
    BY DEF Accepted
  <2> QED BY <2>1, <2>2 DEF Ownership, Queued, Seated, Occupied
<1>6. CallbackPlace'
  BY DEF CallbackPlace
<1>7. OverMarks'
  BY DEF TypeOK, MemoryType, OutcomeType, WorkerType, WorkerPlace, OverMarks,
       CallbackPlace, Ownership, InHand
<1>8. BossPlace'
  BY DEF BossPlace
<1> QED
  BY <1>1, <1>2, <1>3, <1>4, <1>5, <1>6, <1>7, <1>8

(* A popped request goes from the ring to the worker's hands, or is freed. *)
LEMMA AdmitPopInv ==
  ASSUME IInv, AdmitPop
  PROVE  IInv'
<1> USE DEF IInv, memory, outcome, worker, control, AdmitPop, Serve, IsFirstFree
<1>1. TypeOK'
  <2>1. ControlType'
    BY DEF TypeOK, ControlType
  <2>2. MemoryType'
    <3>1. Tail(queue) \in Seq(Req) /\ Len(Tail(queue)) = Len(queue) - 1
      BY QueueTail DEF TypeOK, MemoryType
    <3>2. Len(queue) \in Nat /\ QueueDepth \in Nat /\ queue' = Tail(queue)
      BY SchedConstants DEF TypeOK, MemoryType
    <3>3. queue' \in Seq(Req) /\ Len(queue') <= QueueDepth
      BY <3>1, <3>2 DEF TypeOK, MemoryType
    <3> QED BY <3>3 DEF TypeOK, MemoryType
  <2>3. OutcomeType'
    <3>1. Head(queue) \in Req
      BY QueueTail DEF TypeOK, MemoryType
    <3> QED BY <3>1 DEF TypeOK, OutcomeType
  <2>4. WorkerType'
    <3>1. Head(queue) \in Req
      BY QueueTail DEF TypeOK, MemoryType
    <3>2. CASE UNCHANGED <<wpc, wslot, wreq>>
      BY <3>2 DEF TypeOK, WorkerType
    <3>3. CASE \E i \in Slots : IsFirstFree(i) /\ Serve("start", i, Head(queue))
      BY <3>1, <3>3 DEF TypeOK, WorkerType, WorkerPCs
    <3> QED BY <3>2, <3>3
  <2> QED BY <2>1, <2>2, <2>3, <2>4 DEF TypeOK
<1>2. WorkerPlace'
  <2>1. Head(queue) \in Req /\ Head(queue) # None
    BY QueueTail, SchedConstants DEF TypeOK, MemoryType
  <2>2. CASE UNCHANGED <<wpc, wslot, wreq>>
    BY <2>2 DEF WorkerPlace
  <2>3. CASE \E i \in Slots : IsFirstFree(i) /\ Serve("start", i, Head(queue))
    BY <2>1, <2>3 DEF WorkerPlace
  <2> QED BY <2>2, <2>3
<1>3. TodoPlace'
  <2>1. todo = {}
    BY DEF TodoPlace
  <2> QED BY <2>1 DEF TodoPlace
<1>4. SlotProgress'
  <2>1. wslot = NoSlot /\ NoSlot \notin Slots
    BY DEF WorkerPlace, NoSlot, Slots
  <2> QED BY <2>1 DEF SlotProgress, Joining, Occupied
<1>5. Ownership'
  <2> DEFINE h == Head(queue)
  <2>1. /\ h \in Queued /\ Queued = Queued' \cup {h} /\ h \notin Queued'
        /\ IsInjective(queue')
    <3>1. queue \in Seq(Req) /\ IsInjective(queue) /\ queue # <<>> /\ queue' = Tail(queue)
      BY DEF TypeOK, MemoryType, Ownership
    <3>2. /\ Range(queue) = Range(Tail(queue)) \cup {h} /\ IsInjective(Tail(queue))
          /\ h \notin Range(Tail(queue))
      BY <3>1, QueueTail
    <3> QED BY <3>1, <3>2 DEF Queued
  <2> HIDE DEF h
  <2>2. Seated' = Seated /\ Occupied' = Occupied /\ Accepted' = Accepted /\ InHand = {}
    BY DEF Seated, Occupied, Accepted, InHand
  <2>3. h \in Accepted /\ h \notin freed /\ h \notin Seated
    BY <2>1 DEF Ownership
  <2>4. CASE freed' = freed \cup {h} /\ UNCHANGED <<wpc, wslot, wreq>>
    <3>1. InHand' = {}
      BY <2>4 DEF InHand
    <3> QED BY <2>1, <2>2, <2>3, <2>4, <3>1 DEF Ownership
  <2>5. CASE wpc' = "start" /\ wreq' = h /\ UNCHANGED freed
    <3>1. InHand' = {h}
      BY <2>5 DEF InHand
    <3> QED BY <2>1, <2>2, <2>3, <2>5, <3>1 DEF Ownership
  <2> QED BY <2>4, <2>5 DEF h
<1>6. CallbackPlace'
  BY DEF CallbackPlace
<1>7. CancelMarks'
  <2>1. Seated' = Seated /\ freed \subseteq freed'
    BY DEF Seated
  <2> QED BY <2>1 DEF CancelMarks, QuietAfterCancelOK
<1>8. OverMarks'
  <2>1. over \ freed = {}
    BY DEF OverMarks
  <2> QED BY <2>1 DEF OverMarks
<1>9. BossPlace'
  BY DEF BossPlace
<1> QED
  BY <1>1, <1>2, <1>3, <1>4, <1>5, <1>6, <1>7, <1>8, <1>9

(* Leaving admission moves no request. *)
LEMMA AdmitDoneInv ==
  ASSUME IInv, AdmitDone
  PROVE  IInv'
<1> USE DEF IInv, memory, outcome, worker, control, AdmitDone
<1>1. TypeOK'
  <2>1. MemoryType' /\ ControlType'
    BY DEF TypeOK, MemoryType, ControlType
  <2>2. OutcomeType'
    BY SchedConstants DEF TypeOK, MemoryType, OutcomeType, WorkerType, Slots,
         NoSlot, ClientStates, WorkerPlace
  <2>3. WorkerType'
    BY SchedConstants DEF TypeOK, MemoryType, OutcomeType, WorkerType, Slots,
         NoSlot, Occupied, WorkerPCs, Stages, WorkerPlace
  <2> QED BY <2>1, <2>2, <2>3 DEF TypeOK
<1>2. CancelMarks' /\ SlotProgress'
  BY DEF CancelMarks, QuietAfterCancelOK, Seated, SlotProgress, Joining,
       Occupied
<1>3. WorkerPlace'
  BY SchedConstants DEF TypeOK, MemoryType, OutcomeType, WorkerType,
       WorkerPlace, TodoPlace, Occupied, Slots, NoSlot
<1>4. TodoPlace'
  BY SchedConstants DEF TypeOK, MemoryType, OutcomeType, WorkerType,
       WorkerPlace, TodoPlace, Occupied, Slots, NoSlot
<1>5. Ownership'
  <2>1. InHand' = InHand
    BY DEF InHand, WorkerPlace
  <2>2. Accepted' = Accepted
    BY DEF Accepted
  <2> QED BY <2>1, <2>2 DEF Ownership, Queued, Seated, Occupied
<1>6. CallbackPlace'
  BY DEF CallbackPlace
<1>7. OverMarks'
  BY DEF TypeOK, MemoryType, OutcomeType, WorkerType, WorkerPlace, OverMarks,
       CallbackPlace, Ownership, InHand
<1>8. BossPlace'
  BY DEF BossPlace
<1> QED
  BY <1>1, <1>2, <1>3, <1>4, <1>5, <1>6, <1>7, <1>8

(* Waking moves no request. *)
LEMMA WorkerWakeInv ==
  ASSUME IInv, WorkerWake
  PROVE  IInv'
<1> USE DEF IInv, memory, outcome, worker, control, WorkerWake
<1>1. TypeOK'
  <2>1. MemoryType' /\ OutcomeType' /\ ControlType'
    BY DEF TypeOK, MemoryType, OutcomeType, ControlType
  <2>2. WorkerType'
    BY SchedConstants DEF TypeOK, MemoryType, OutcomeType, WorkerType, Slots,
         NoSlot, Occupied, WorkerPCs, Stages, WorkerPlace
  <2> QED BY <2>1, <2>2 DEF TypeOK
<1>2. CancelMarks' /\ SlotProgress'
  BY DEF CancelMarks, QuietAfterCancelOK, Seated, SlotProgress, Joining,
       Occupied
<1>3. WorkerPlace'
  BY SchedConstants DEF TypeOK, MemoryType, OutcomeType, WorkerType,
       WorkerPlace, TodoPlace, Occupied, Slots, NoSlot
<1>4. TodoPlace'
  BY SchedConstants DEF TypeOK, MemoryType, OutcomeType, WorkerType,
       WorkerPlace, TodoPlace, Occupied, Slots, NoSlot
<1>5. Ownership'
  <2>1. InHand' = InHand
    BY DEF InHand, WorkerPlace
  <2>2. Accepted' = Accepted
    BY DEF Accepted
  <2> QED BY <2>1, <2>2 DEF Ownership, Queued, Seated, Occupied
<1>6. CallbackPlace'
  BY DEF CallbackPlace
<1>7. OverMarks'
  BY DEF TypeOK, MemoryType, OutcomeType, WorkerType, WorkerPlace, OverMarks,
       CallbackPlace, Ownership, InHand
<1>8. BossPlace'
  BY DEF BossPlace
<1> QED
  BY <1>1, <1>2, <1>3, <1>4, <1>5, <1>6, <1>7, <1>8

(* start_request() seats the request in its hands, or fails with it in hand. *)
LEMMA StartRequestInv ==
  ASSUME IInv, StartRequest
  PROVE  IInv'
<1> USE DEF IInv, memory, outcome, worker, control, StartRequest, Serve, Deliver
<1>1. TypeOK'
  <2>1. OutcomeType' /\ ControlType'
    BY DEF TypeOK, OutcomeType, ControlType
  <2>2. MemoryType'
    <3>1. wreq \in Req /\ wslot \in Slots
      BY DEF WorkerPlace, TypeOK, WorkerType
    <3>2. slot' \in [Slots -> Req \cup {None}] /\ chunks' \in [Slots -> 0 .. MaxChunks]
      <4>1. CASE \E n \in 1 .. MaxChunks : chunks' = [chunks EXCEPT ![wslot] = n]
        <5>1. PICK n \in 1 .. MaxChunks : chunks' = [chunks EXCEPT ![wslot] = n]
          BY <4>1
        <5>2. n \in 0 .. MaxChunks
          BY SchedConstants
        <5> QED BY <3>1, <5>1, <5>2 DEF TypeOK, MemoryType
      <4>2. CASE UNCHANGED <<slot, chunks>>
        BY <4>2 DEF TypeOK, MemoryType
      <4> QED BY <4>1, <4>2
    <3>3. phase' \in [Slots -> {"idle", "prefilling", "fresh", "steady"}]
      BY DEF TypeOK, MemoryType
    <3> QED BY <3>2, <3>3 DEF TypeOK, MemoryType
  <2>3. WorkerType'
    BY SchedConstants DEF TypeOK, MemoryType, OutcomeType, WorkerType, Slots,
         NoSlot, Occupied, WorkerPCs, Stages, WorkerPlace
  <2> QED BY <2>1, <2>2, <2>3 DEF TypeOK
<1>2. WorkerPlace'
  <2>1. wreq # None /\ wslot \in Slots
    BY DEF WorkerPlace
  <2> QED BY <2>1 DEF WorkerPlace
<1>3. TodoPlace'
  <2>1. todo = {}
    BY DEF TodoPlace
  <2> QED BY <2>1 DEF TodoPlace
<1>4. SlotProgress'
  <2>1. /\ wslot \in Slots /\ slot[wslot] = None /\ wslot' = NoSlot /\ frames[wslot] = 0
        /\ wreq # None
    BY DEF WorkerPlace, SlotProgress
  <2>2. \A i \in Slots : frames'[i] < MaxFrames
    BY <2>1, SchedConstants DEF SlotProgress
  <2>3. CASE ~(slot' = slot)
    <3>1. /\ slot' = [slot EXCEPT ![wslot] = wreq]
          /\ \E n \in 1 .. MaxChunks : chunks' = [chunks EXCEPT ![wslot] = n]
          /\ phase' = [phase EXCEPT ![wslot] = "prefilling"]
      BY <2>3
    <3>2. PICK n \in 1 .. MaxChunks : chunks' = [chunks EXCEPT ![wslot] = n]
      BY <3>1
    <3>3. \A i \in Slots : slot'[i] = IF i = wslot THEN wreq ELSE slot[i]
      BY <2>1, <3>1 DEF TypeOK, MemoryType
    <3>4. ASSUME NEW i \in Joining'
          PROVE  chunks'[i] >= 1
      <4>1. i \in Slots /\ slot'[i] # None /\ phase'[i] = "prefilling"
        BY DEF Joining, Occupied
      <4>2. CASE i = wslot
        <5>1. chunks'[i] = n
          BY <3>2, <4>1, <4>2 DEF TypeOK, MemoryType
        <5> QED BY <5>1
      <4>3. CASE i # wslot
        <5>1. chunks'[i] = chunks[i] /\ phase'[i] = phase[i] /\ slot'[i] = slot[i]
          BY <3>1, <3>2, <3>3, <4>1, <4>3 DEF TypeOK, MemoryType
        <5> QED BY <4>1, <5>1 DEF Joining, Occupied, SlotProgress
      <4> QED BY <4>2, <4>3
    <3>5. \A i \in Slots : slot'[i] = None => frames'[i] = 0
      BY <2>1, <3>3 DEF SlotProgress
    <3> QED BY <2>2, <3>4, <3>5 DEF SlotProgress
  <2>4. CASE slot' = slot
    <3>1. UNCHANGED chunks /\ (phase' = phase \/ phase' = [phase EXCEPT ![wslot] = "prefilling"])
      BY <2>1, <2>4 DEF TypeOK, MemoryType
    <3>2. \A i \in Slots \ {wslot} : phase'[i] = phase[i]
      BY <3>1 DEF TypeOK, MemoryType
    <3>3. Joining' \subseteq Joining
      BY <2>1, <2>4, <3>2 DEF Joining, Occupied
    <3> QED BY <2>2, <2>4, <3>1, <3>3 DEF SlotProgress
  <2> QED BY <2>3, <2>4
<1>5. Ownership'
  <2>1. /\ wslot \in Slots /\ slot[wslot] = None /\ wreq \in Req
        /\ InHand = {wreq} /\ wreq # None
    BY DEF WorkerPlace, InHand, TypeOK, WorkerType
  <2>2. Queued' = Queued /\ Accepted' = Accepted /\ freed' = freed
    BY DEF Queued, Accepted
  <2>3. CASE slot' = [slot EXCEPT ![wslot] = wreq] /\ wpc' = "started"
    <3>1. /\ Occupied' = Occupied \cup {wslot} /\ Seated' = Seated \cup {wreq}
          /\ \A j \in Slots : slot'[j] = IF j = wslot THEN wreq ELSE slot[j]
      BY <2>1, <2>3, SeatTaken
    <3>2. InHand' = {}
      BY <2>3 DEF InHand
    <3>3. \A i \in Occupied : slot[i] # wreq
      BY <2>1, SeatedSlot DEF Ownership, Occupied
    <3>4. \A i, j \in Occupied' : slot'[i] = slot'[j] => i = j
      BY <2>1, <3>1, <3>3 DEF Ownership, Occupied
    <3> QED BY <2>1, <2>2, <3>1, <3>2, <3>4 DEF Ownership
  <2>4. CASE slot' = slot /\ wpc' = "deliver" /\ ret' = "free" /\ wreq' = wreq
    <3>1. InHand' = InHand /\ Seated' = Seated /\ Occupied' = Occupied
      BY <2>1, <2>4 DEF InHand, Seated, Occupied
    <3> QED BY <2>2, <2>4, <3>1 DEF Ownership
  <2> QED BY <2>3, <2>4
<1>6. CallbackPlace'
  BY DEF CallbackPlace
<1>7. CancelMarks'
  <2>1. Seated \subseteq Seated'
    <3>1. CASE slot' = slot
      BY <3>1 DEF Seated
    <3>2. CASE slot' = [slot EXCEPT ![wslot] = wreq]
      <4>1. wslot \in Slots /\ slot[wslot] = None /\ wreq # None /\ wreq \in Req
        BY DEF WorkerPlace, TypeOK, WorkerType
      <4> QED BY <3>2, <4>1, SeatTaken
    <3> QED BY <3>1, <3>2
  <2> QED BY <2>1 DEF CancelMarks, QuietAfterCancelOK
<1>8. OverMarks'
  <2>1. over \ freed = {}
    BY DEF OverMarks
  <2> QED BY <2>1 DEF OverMarks
<1>9. BossPlace'
  BY DEF BossPlace
<1> QED
  BY <1>1, <1>2, <1>3, <1>4, <1>5, <1>6, <1>7, <1>8, <1>9

(* n_active follows; requests stay where they are. *)
LEMMA StartedLockInv ==
  ASSUME IInv, StartedLock
  PROVE  IInv'
<1> USE DEF IInv, memory, outcome, worker, control, StartedLock
<1>1. TypeOK'
  <2>1. OutcomeType' /\ ControlType'
    BY DEF TypeOK, OutcomeType, ControlType
  <2>2. MemoryType'
    BY SchedConstants DEF TypeOK, MemoryType, OutcomeType, WorkerType, Slots,
         NoSlot, Occupied, WorkerPlace, TodoPlace, SlotProgress, Joining
  <2>3. WorkerType'
    BY SchedConstants DEF TypeOK, MemoryType, OutcomeType, WorkerType, Slots,
         NoSlot, Occupied, WorkerPCs, Stages, WorkerPlace
  <2> QED BY <2>1, <2>2, <2>3 DEF TypeOK
<1>2. CancelMarks'
  BY DEF CancelMarks, QuietAfterCancelOK, Seated
<1>3. WorkerPlace'
  BY SchedConstants DEF TypeOK, MemoryType, OutcomeType, WorkerType,
       WorkerPlace, TodoPlace, Occupied, Slots, NoSlot
<1>4. TodoPlace'
  BY SchedConstants DEF TypeOK, MemoryType, OutcomeType, WorkerType,
       WorkerPlace, TodoPlace, Occupied, Slots, NoSlot
<1>5. SlotProgress'
  BY SchedConstants DEF TypeOK, MemoryType, OutcomeType, WorkerType,
       WorkerPlace, TodoPlace, SlotProgress, Joining, Occupied, Slots, NoSlot
<1>6. Ownership'
  <2>1. InHand' = InHand
    BY DEF InHand, WorkerPlace
  <2>2. Accepted' = Accepted
    BY DEF Accepted
  <2> QED BY <2>1, <2>2 DEF Ownership, Queued, Seated, Occupied
<1>7. CallbackPlace'
  BY DEF CallbackPlace
<1>8. OverMarks'
  BY DEF TypeOK, MemoryType, OutcomeType, WorkerType, WorkerPlace, OverMarks,
       CallbackPlace, Ownership, InHand
<1>9. BossPlace'
  BY DEF BossPlace
<1> QED
  BY <1>1, <1>2, <1>3, <1>4, <1>5, <1>6, <1>7, <1>8, <1>9

(* The request in hand is freed. *)
LEMMA FreeRequestInv ==
  ASSUME IInv, FreeRequest
  PROVE  IInv'
<1> USE DEF IInv, memory, outcome, worker, control, FreeRequest, Serve
<1>1. TypeOK'
  <2>1. MemoryType' /\ ControlType'
    BY DEF TypeOK, MemoryType, ControlType
  <2>2. OutcomeType'
    BY SchedConstants DEF TypeOK, MemoryType, OutcomeType, WorkerType, Slots,
         NoSlot, ClientStates, WorkerPlace
  <2>3. WorkerType'
    BY SchedConstants DEF TypeOK, MemoryType, OutcomeType, WorkerType, Slots,
         NoSlot, Occupied, WorkerPCs, Stages, WorkerPlace
  <2> QED BY <2>1, <2>2, <2>3 DEF TypeOK
<1>2. WorkerPlace'
  BY SchedConstants DEF TypeOK, MemoryType, OutcomeType, WorkerType,
       WorkerPlace, TodoPlace, Occupied, Slots, NoSlot
<1>3. TodoPlace'
  BY SchedConstants DEF TypeOK, MemoryType, OutcomeType, WorkerType,
       WorkerPlace, TodoPlace, Occupied, Slots, NoSlot
<1>4. SlotProgress'
  BY SchedConstants DEF TypeOK, MemoryType, OutcomeType, WorkerType,
       WorkerPlace, TodoPlace, SlotProgress, Joining, Occupied, Slots, NoSlot
<1>5. Ownership'
  <2>1. InHand = {wreq} /\ InHand' = {}
    BY DEF InHand, WorkerPlace
  <2>2. Queued' = Queued /\ Seated' = Seated /\ Occupied' = Occupied /\ Accepted' = Accepted
    BY DEF Queued, Seated, Occupied, Accepted
  <2>3. wreq \in Accepted
    BY <2>1 DEF Ownership
  <2> QED BY <2>1, <2>2, <2>3 DEF Ownership
<1>6. CallbackPlace'
  BY DEF CallbackPlace
<1>7. CancelMarks'
  BY DEF TypeOK, MemoryType, OutcomeType, WorkerType, WorkerPlace, Ownership,
       CallbackPlace, CancelMarks, QuietAfterCancelOK, Seated, Queued, InHand,
       Accepted, Occupied
<1>8. OverMarks'
  BY DEF TypeOK, MemoryType, OutcomeType, WorkerType, WorkerPlace, OverMarks,
       CallbackPlace, Ownership, InHand
<1>9. BossPlace'
  BY DEF BossPlace
<1> QED
  BY <1>1, <1>2, <1>3, <1>4, <1>5, <1>6, <1>7, <1>8, <1>9

(* The prefill cursor stays on a slot. *)
LEMMA NextCursor ==
  ASSUME TypeOK, PrefillChunk
  PROVE  rr' \in Slots
<1>1. CASE rr' = rr
  BY <1>1 DEF TypeOK, WorkerType
<1>2. CASE \E i \in Slots : rr' = (i % MaxSessions) + 1
  <2>1. PICK i \in Slots : rr' = (i % MaxSessions) + 1
    BY <1>2
  <2>2. MaxSessions \in Nat /\ MaxSessions > 0 /\ i \in Int
    BY SchedConstants DEF Slots
  <2>3. i % MaxSessions \in 0 .. MaxSessions - 1
    BY <2>2
  <2> QED BY <2>1, <2>2, <2>3 DEF Slots
<1> QED BY <1>1, <1>2 DEF PrefillChunk

(* A joining session that stays joining has chunks left. *)
LEMMA PrefillChunkInv ==
  ASSUME IInv, PrefillChunk
  PROVE  IInv'
<1> USE DEF IInv, memory, outcome, worker, control, PrefillChunk, Serve, NextSlot, Deliver, IsTurn
<1>1. TypeOK'
  <2>1. OutcomeType' /\ ControlType'
    BY DEF TypeOK, OutcomeType, ControlType
  <2>2. MemoryType'
    <3>1. CASE UNCHANGED <<phase, chunks>>
      BY <3>1 DEF TypeOK, MemoryType
    <3>2. CASE \E i \in Joining :
            /\ chunks' = [chunks EXCEPT ![i] = @ - 1]
            /\ phase' = [phase EXCEPT ![i] = IF chunks[i] = 1 THEN "fresh" ELSE @]
      <4>1. PICK i \in Joining :
              /\ chunks' = [chunks EXCEPT ![i] = @ - 1]
              /\ phase' = [phase EXCEPT ![i] = IF chunks[i] = 1 THEN "fresh" ELSE @]
        BY <3>2
      <4>2. i \in Slots /\ chunks[i] \in 0 .. MaxChunks /\ chunks[i] >= 1
        BY DEF Joining, Occupied, SlotProgress, TypeOK, MemoryType
      <4>3. chunks[i] - 1 \in 0 .. MaxChunks
        BY <4>2, SchedConstants
      <4>4. chunks' \in [Slots -> 0 .. MaxChunks]
        BY <4>1, <4>2, <4>3 DEF TypeOK, MemoryType
      <4>5. phase' \in [Slots -> {"idle", "prefilling", "fresh", "steady"}]
        BY <4>1, <4>2 DEF TypeOK, MemoryType
      <4> QED BY <4>4, <4>5 DEF TypeOK, MemoryType
    <3> QED BY <3>1, <3>2
  <2>3. WorkerType'
    <3>1. CASE wpc' = "loop" /\ wslot' = NoSlot /\ wreq' = None /\ ret' = ret
      BY <3>1, NextCursor DEF TypeOK, WorkerType, WorkerPCs, Stages
    <3>2. CASE \E i \in Joining : Deliver("retire", i, slot[i])
      <4>1. PICK i \in Joining : Deliver("retire", i, slot[i])
        BY <3>2
      <4>2. i \in Slots /\ slot[i] \in Req
        BY DEF Joining, Occupied, TypeOK, MemoryType
      <4> QED BY <4>1, <4>2, NextCursor DEF TypeOK, WorkerType, WorkerPCs,
           Stages
    <3> QED BY <3>1, <3>2
  <2> QED BY <2>1, <2>2, <2>3 DEF TypeOK
<1>2. WorkerPlace'
  <2>1. CASE wpc' = "loop" /\ wslot' = NoSlot
    BY <2>1 DEF WorkerPlace
  <2>2. CASE \E i \in Joining : Deliver("retire", i, slot[i])
    <3>1. PICK i \in Joining : Deliver("retire", i, slot[i])
      BY <2>2
    <3>2. i \in Slots /\ slot[i] # None /\ slot' = slot
      BY DEF Joining, Occupied
    <3> QED BY <3>1, <3>2 DEF WorkerPlace
  <2> QED BY <2>1, <2>2
<1>3. TodoPlace'
  <2>1. todo = {} /\ todo' = {}
    BY DEF TodoPlace
  <2> QED BY <2>1 DEF TodoPlace
<1>4. SlotProgress'
  <2>1. wslot = NoSlot /\ NoSlot \notin Slots
    BY DEF WorkerPlace, NoSlot, Slots
  <2>2. \A j \in Slots : frames'[j] < MaxFrames
    BY <2>1 DEF SlotProgress
  <2>3. \A j \in Slots : slot'[j] = None => frames'[j] = 0
    BY DEF SlotProgress
  <2>4. \A j \in Joining' : chunks'[j] >= 1
    <3>1. CASE UNCHANGED <<phase, chunks>>
      BY <3>1 DEF Joining, Occupied, SlotProgress
    <3>2. CASE \E i \in Joining :
            /\ chunks' = [chunks EXCEPT ![i] = @ - 1]
            /\ phase' = [phase EXCEPT ![i] = IF chunks[i] = 1 THEN "fresh" ELSE @]
      <4>1. PICK i \in Joining :
              /\ chunks' = [chunks EXCEPT ![i] = @ - 1]
              /\ phase' = [phase EXCEPT ![i] = IF chunks[i] = 1 THEN "fresh" ELSE @]
        BY <3>2
      <4>2. i \in Slots /\ chunks[i] \in 0 .. MaxChunks /\ chunks[i] >= 1
        BY DEF Joining, Occupied, SlotProgress, TypeOK, MemoryType
      <4>3. /\ chunks'[i] = chunks[i] - 1
            /\ \A j \in Slots \ {i} : chunks'[j] = chunks[j] /\ phase'[j] = phase[j]
        BY <4>1, <4>2 DEF TypeOK, MemoryType
      <4>4. chunks[i] = 1 => phase'[i] = "fresh"
        BY <4>1, <4>2 DEF TypeOK, MemoryType
      <4> HIDE DEF PrefillChunk
      <4>5. ASSUME NEW j \in Joining'
            PROVE  chunks'[j] >= 1
        <5>1. j \in Slots /\ phase'[j] = "prefilling" /\ slot'[j] # None /\ slot' = slot
          BY DEF Joining, Occupied, PrefillChunk
        <5>2. CASE j = i
          <6>1. chunks[i] # 1
            BY <4>4, <5>1, <5>2
          <6> QED BY <4>2, <4>3, <5>2, <6>1
        <5>3. CASE j # i
          <6>1. j \in Joining /\ chunks'[j] = chunks[j]
            BY <4>3, <5>1, <5>3 DEF Joining, Occupied
          <6> QED BY <6>1 DEF SlotProgress
        <5> QED BY <5>2, <5>3
      <4> QED BY <4>5
    <3> QED BY <3>1, <3>2
  <2> QED BY <2>2, <2>3, <2>4 DEF SlotProgress
<1>5. Ownership'
  <2>1. InHand' = InHand
    BY DEF InHand, WorkerPlace
  <2>2. Accepted' = Accepted
    BY DEF Accepted
  <2> QED BY <2>1, <2>2 DEF Ownership, Queued, Seated, Occupied
<1>6. CallbackPlace'
  BY DEF CallbackPlace
<1>7. CancelMarks'
  BY DEF TypeOK, MemoryType, OutcomeType, WorkerType, WorkerPlace, Ownership,
       CallbackPlace, CancelMarks, QuietAfterCancelOK, Seated, Queued, InHand,
       Accepted, Occupied
<1>8. OverMarks'
  BY DEF TypeOK, MemoryType, OutcomeType, WorkerType, WorkerPlace, OverMarks,
       CallbackPlace, Ownership, InHand
<1>9. BossPlace'
  BY DEF BossPlace
<1> QED
  BY <1>1, <1>2, <1>3, <1>4, <1>5, <1>6, <1>7, <1>8, <1>9

(* The frame cap holds in every slot but the one being served. *)
LEMMA FrameCounted ==
  ASSUME IInv, NEW i \in Slots, i # wslot, slot[i] # None, HandleFrame(i),
         wslot = NoSlot, slot' = slot
  PROVE  /\ frames' \in [Slots -> 0 .. MaxFrames]
         /\ \A j \in Slots \ {wslot'} : frames'[j] < MaxFrames
         /\ \A j \in Slots : slot'[j] = None => frames'[j] = 0
<1>1. \A j \in Slots : frames[j] \in 0 .. MaxFrames /\ frames[j] < MaxFrames
  BY DEF IInv, SlotProgress, TypeOK, MemoryType, Slots, NoSlot
<1>2. CASE frames' = frames
  BY <1>1, <1>2 DEF IInv, SlotProgress, TypeOK, MemoryType
<1>3. CASE /\ frames' = [frames EXCEPT ![i] = @ + 1]
           /\ wslot' = i \/ (wslot' = NoSlot /\ frames[i] + 1 < MaxFrames)
  <2>1. frames[i] + 1 \in 0 .. MaxFrames
    BY <1>1, SchedConstants
  <2>2. frames' \in [Slots -> 0 .. MaxFrames]
    BY <1>3, <2>1 DEF IInv, TypeOK, MemoryType
  <2>3. frames'[i] = frames[i] + 1 /\ \A j \in Slots \ {i} : frames'[j] = frames[j]
    BY <1>3 DEF IInv, TypeOK, MemoryType
  <2>4. \A j \in Slots \ {wslot'} : frames'[j] < MaxFrames
    BY <1>1, <1>3, <2>3
  <2>5. \A j \in Slots : slot'[j] = None => frames'[j] = 0
    BY <2>3 DEF IInv, SlotProgress
  <2> QED BY <2>2, <2>4, <2>5
<1> QED BY <1>2, <1>3 DEF HandleFrame, Deliver, Serve, NextSlot

(* A first frame makes its session steady. *)
LEMMA FirstFrameInv ==
  ASSUME NEW i \in Slots, IInv, FirstFrame(i)
  PROVE  IInv'
<1> USE DEF IInv, memory, outcome, worker, control, FirstFrame, Serve, NextSlot, Deliver, IsNext, HandleFrame
<1>1. TypeOK'
  <2>1. OutcomeType' /\ ControlType'
    BY DEF TypeOK, OutcomeType, ControlType
  <2>2. MemoryType'
    <3>1. i \in todo /\ i \in Slots /\ i # wslot /\ slot[i] # None /\ wslot = NoSlot
      BY DEF TodoPlace, Occupied, WorkerPlace
    <3>2. frames' \in [Slots -> 0 .. MaxFrames]
      <4>1. CASE frames' = frames
        BY <4>1 DEF TypeOK, MemoryType
      <4>2. CASE HandleFrame(i)
        BY <3>1, <4>2, FrameCounted
      <4> QED BY <4>1, <4>2
    <3>3. phase' \in [Slots -> {"idle", "prefilling", "fresh", "steady"}]
      BY DEF TypeOK, MemoryType
    <3> QED BY <3>2, <3>3 DEF TypeOK, MemoryType
  <2>3. WorkerType'
    <3>1. slot[i] \in Req
      BY DEF TodoPlace, Occupied, TypeOK, MemoryType
    <3> QED BY <3>1 DEF TypeOK, WorkerType, WorkerPCs, Stages, HandleFrame
  <2> QED BY <2>1, <2>2, <2>3 DEF TypeOK
<1>2. WorkerPlace'
  <2>1. slot[i] # None /\ slot' = slot
    BY DEF TodoPlace, Occupied
  <2> QED BY <2>1 DEF WorkerPlace, HandleFrame
<1>3. TodoPlace'
  <2>1. todo \subseteq Occupied /\ Occupied' = Occupied /\ wslot' \in {i, NoSlot}
    BY DEF TodoPlace, Occupied, HandleFrame
  <2>2. NoSlot \notin Occupied
    BY DEF Occupied, Slots, NoSlot
  <2>3. wpc' \in {"loop", "deliver", "finish", "retire"} /\ (wpc' = "deliver" => ret' # "free")
    BY DEF HandleFrame
  <2> QED BY <2>1, <2>2, <2>3 DEF TodoPlace
<1>4. SlotProgress'
  <2>1. i \in todo /\ i \in Slots /\ i # wslot /\ slot[i] # None /\ wslot = NoSlot
    BY DEF TodoPlace, Occupied, WorkerPlace
  <2>2. /\ \A j \in Slots \ {wslot'} : frames'[j] < MaxFrames
        /\ \A j \in Slots : slot'[j] = None => frames'[j] = 0
    <3>1. CASE HandleFrame(i)
      BY <2>1, <3>1, FrameCounted
    <3>2. CASE frames' = frames
      BY <2>1, <3>2 DEF SlotProgress, NoSlot, Slots
    <3> QED BY <3>1, <3>2
  <2>3. \A j \in Joining' : chunks'[j] >= 1
    <3>1. phase'[i] = "steady" /\ \A j \in Slots \ {i} : phase'[j] = phase[j]
      BY <2>1 DEF TypeOK, MemoryType
    <3>2. Joining' \subseteq Joining
      BY <3>1 DEF Joining, Occupied
    <3> QED BY <3>2 DEF SlotProgress
  <2> QED BY <2>2, <2>3 DEF SlotProgress
<1>5. Ownership'
  <2>1. InHand = {} /\ InHand' = {}
    BY DEF InHand, HandleFrame
  <2>2. Accepted' = Accepted
    BY DEF Accepted
  <2> QED BY <2>1, <2>2 DEF Ownership, Queued, Seated, Occupied
<1>6. CallbackPlace'
  BY DEF CallbackPlace
<1>7. CancelMarks'
  BY DEF TypeOK, MemoryType, OutcomeType, WorkerType, WorkerPlace, Ownership,
       CallbackPlace, CancelMarks, QuietAfterCancelOK, Seated, Queued, InHand,
       Accepted, Occupied
<1>8. OverMarks'
  <2>1. over \ freed = {}
    BY DEF OverMarks
  <2> QED BY <2>1 DEF OverMarks
<1>9. BossPlace'
  BY DEF BossPlace
<1> QED
  BY <1>1, <1>2, <1>3, <1>4, <1>5, <1>6, <1>7, <1>8, <1>9

(* A lockstep frame serves its slot. *)
LEMMA StepFrameInv ==
  ASSUME NEW i \in Slots, IInv, StepFrame(i)
  PROVE  IInv'
<1> USE DEF IInv, memory, outcome, worker, control, StepFrame, Serve, NextSlot, Deliver, IsNext, HandleFrame
<1>1. TypeOK'
  <2>1. OutcomeType' /\ ControlType'
    BY DEF TypeOK, OutcomeType, ControlType
  <2>2. MemoryType'
    <3>1. i \in todo /\ i \in Slots /\ i # wslot /\ slot[i] # None /\ wslot = NoSlot
      BY DEF TodoPlace, Occupied, WorkerPlace
    <3>2. frames' \in [Slots -> 0 .. MaxFrames]
      <4>1. CASE frames' = frames
        BY <4>1 DEF TypeOK, MemoryType
      <4>2. CASE HandleFrame(i)
        BY <3>1, <4>2, FrameCounted
      <4> QED BY <4>1, <4>2
    <3> QED BY <3>2 DEF TypeOK, MemoryType
  <2>3. WorkerType'
    <3>1. slot[i] \in Req
      BY DEF TodoPlace, Occupied, TypeOK, MemoryType
    <3> QED BY <3>1 DEF TypeOK, WorkerType, WorkerPCs, Stages, HandleFrame
  <2> QED BY <2>1, <2>2, <2>3 DEF TypeOK
<1>2. WorkerPlace'
  <2>1. slot[i] # None /\ slot' = slot
    BY DEF TodoPlace, Occupied
  <2> QED BY <2>1 DEF WorkerPlace, HandleFrame
<1>3. TodoPlace'
  <2>1. todo \subseteq Occupied /\ Occupied' = Occupied /\ wslot' \in {i, NoSlot}
    BY DEF TodoPlace, Occupied, HandleFrame
  <2>2. NoSlot \notin Occupied
    BY DEF Occupied, Slots, NoSlot
  <2>3. wpc' \in {"loop", "deliver", "finish", "retire"} /\ (wpc' = "deliver" => ret' # "free")
    BY DEF HandleFrame
  <2> QED BY <2>1, <2>2, <2>3 DEF TodoPlace
<1>4. SlotProgress'
  <2>1. i \in todo /\ i \in Slots /\ i # wslot /\ slot[i] # None /\ wslot = NoSlot
    BY DEF TodoPlace, Occupied, WorkerPlace
  <2>2. /\ \A j \in Slots \ {wslot'} : frames'[j] < MaxFrames
        /\ \A j \in Slots : slot'[j] = None => frames'[j] = 0
    <3>1. CASE HandleFrame(i)
      BY <2>1, <3>1, FrameCounted
    <3>2. CASE frames' = frames
      BY <2>1, <3>2 DEF SlotProgress, NoSlot, Slots
    <3> QED BY <3>1, <3>2
  <2>3. \A j \in Joining' : chunks'[j] >= 1
    BY DEF Joining, Occupied, SlotProgress
  <2> QED BY <2>2, <2>3 DEF SlotProgress
<1>5. Ownership'
  <2>1. InHand = {} /\ InHand' = {}
    BY DEF InHand, HandleFrame
  <2>2. Accepted' = Accepted
    BY DEF Accepted
  <2> QED BY <2>1, <2>2 DEF Ownership, Queued, Seated, Occupied
<1>6. CallbackPlace'
  BY DEF CallbackPlace
<1>7. CancelMarks'
  BY DEF TypeOK, MemoryType, OutcomeType, WorkerType, WorkerPlace, Ownership,
       CallbackPlace, CancelMarks, QuietAfterCancelOK, Seated, Queued, InHand,
       Accepted, Occupied
<1>8. OverMarks'
  <2>1. over \ freed = {}
    BY DEF OverMarks
  <2> QED BY <2>1 DEF OverMarks
<1>9. BossPlace'
  BY DEF BossPlace
<1> QED
  BY <1>1, <1>2, <1>3, <1>4, <1>5, <1>6, <1>7, <1>8, <1>9

(* A session that is closed out is served to the end. *)
LEMMA CloseOutInv ==
  ASSUME NEW i \in Slots, IInv, CloseOut(i)
  PROVE  IInv'
<1> USE DEF IInv, memory, outcome, worker, control, CloseOut, Serve, Deliver, IsNext
<1>1. TypeOK'
  <2>1. MemoryType' /\ OutcomeType' /\ ControlType'
    BY DEF TypeOK, MemoryType, OutcomeType, ControlType
  <2>2. WorkerType'
    BY SchedConstants DEF TypeOK, MemoryType, OutcomeType, WorkerType, Slots,
         NoSlot, Occupied, WorkerPCs, Stages, WorkerPlace
  <2> QED BY <2>1, <2>2 DEF TypeOK
<1>2. WorkerPlace'
  BY SchedConstants DEF TypeOK, MemoryType, OutcomeType, WorkerType,
       WorkerPlace, TodoPlace, Occupied, Slots, NoSlot
<1>3. TodoPlace'
  BY SchedConstants DEF TypeOK, MemoryType, OutcomeType, WorkerType,
       WorkerPlace, TodoPlace, Occupied, Slots, NoSlot
<1>4. SlotProgress'
  BY SchedConstants DEF TypeOK, MemoryType, OutcomeType, WorkerType,
       WorkerPlace, TodoPlace, SlotProgress, Joining, Occupied, Slots, NoSlot
<1>5. Ownership'
  <2>1. InHand' = InHand
    BY DEF InHand, WorkerPlace
  <2>2. Accepted' = Accepted
    BY DEF Accepted
  <2> QED BY <2>1, <2>2 DEF Ownership, Queued, Seated, Occupied
<1>6. CallbackPlace'
  BY DEF CallbackPlace
<1>7. CancelMarks'
  BY DEF TypeOK, MemoryType, OutcomeType, WorkerType, WorkerPlace, Ownership,
       CallbackPlace, CancelMarks, QuietAfterCancelOK, Seated, Queued, InHand,
       Accepted, Occupied
<1>8. OverMarks'
  BY DEF TypeOK, MemoryType, OutcomeType, WorkerType, WorkerPlace, OverMarks,
       CallbackPlace, Ownership, InHand
<1>9. BossPlace'
  BY DEF BossPlace
<1> QED
  BY <1>1, <1>2, <1>3, <1>4, <1>5, <1>6, <1>7, <1>8, <1>9

(* The next loop visits occupied slots only. *)
LEMMA LoopDoneInv ==
  ASSUME IInv, LoopDone
  PROVE  IInv'
<1> USE DEF IInv, memory, outcome, worker, control, LoopDone, Fresh
<1>1. TypeOK'
  <2>1. MemoryType' /\ OutcomeType' /\ ControlType'
    BY DEF TypeOK, MemoryType, OutcomeType, ControlType
  <2>2. WorkerType'
    BY SchedConstants DEF TypeOK, MemoryType, OutcomeType, WorkerType, Slots,
         NoSlot, Occupied, WorkerPCs, Stages, WorkerPlace
  <2> QED BY <2>1, <2>2 DEF TypeOK
<1>2. CancelMarks' /\ SlotProgress'
  BY DEF CancelMarks, QuietAfterCancelOK, Seated, SlotProgress, Joining,
       Occupied
<1>3. WorkerPlace'
  BY SchedConstants DEF TypeOK, MemoryType, OutcomeType, WorkerType,
       WorkerPlace, TodoPlace, Occupied, Slots, NoSlot
<1>4. TodoPlace'
  BY SchedConstants DEF TypeOK, MemoryType, OutcomeType, WorkerType,
       WorkerPlace, TodoPlace, Occupied, Slots, NoSlot
<1>5. Ownership'
  <2>1. InHand' = InHand
    BY DEF InHand, WorkerPlace
  <2>2. Accepted' = Accepted
    BY DEF Accepted
  <2> QED BY <2>1, <2>2 DEF Ownership, Queued, Seated, Occupied
<1>6. CallbackPlace'
  BY DEF CallbackPlace
<1>7. OverMarks'
  BY DEF TypeOK, MemoryType, OutcomeType, WorkerType, WorkerPlace, OverMarks,
       CallbackPlace, Ownership, InHand
<1>8. BossPlace'
  BY DEF BossPlace
<1> QED
  BY <1>1, <1>2, <1>3, <1>4, <1>5, <1>6, <1>7, <1>8

(* The lockstep loop visits the steady slots. *)
LEMMA BatchDecodeInv ==
  ASSUME IInv, BatchDecode
  PROVE  IInv'
<1> USE DEF IInv, memory, outcome, worker, control, BatchDecode, Steady
<1>1. TypeOK'
  <2>1. MemoryType' /\ OutcomeType' /\ ControlType'
    BY DEF TypeOK, MemoryType, OutcomeType, ControlType
  <2>2. WorkerType'
    BY SchedConstants DEF TypeOK, MemoryType, OutcomeType, WorkerType, Slots,
         NoSlot, Occupied, WorkerPCs, Stages, WorkerPlace
  <2> QED BY <2>1, <2>2 DEF TypeOK
<1>2. CancelMarks' /\ SlotProgress'
  BY DEF CancelMarks, QuietAfterCancelOK, Seated, SlotProgress, Joining,
       Occupied
<1>3. WorkerPlace'
  BY SchedConstants DEF TypeOK, MemoryType, OutcomeType, WorkerType,
       WorkerPlace, TodoPlace, Occupied, Slots, NoSlot
<1>4. TodoPlace'
  BY SchedConstants DEF TypeOK, MemoryType, OutcomeType, WorkerType,
       WorkerPlace, TodoPlace, Occupied, Slots, NoSlot
<1>5. Ownership'
  <2>1. InHand' = InHand
    BY DEF InHand, WorkerPlace
  <2>2. Accepted' = Accepted
    BY DEF Accepted
  <2> QED BY <2>1, <2>2 DEF Ownership, Queued, Seated, Occupied
<1>6. CallbackPlace'
  BY DEF CallbackPlace
<1>7. OverMarks'
  BY DEF TypeOK, MemoryType, OutcomeType, WorkerType, WorkerPlace, OverMarks,
       CallbackPlace, Ownership, InHand
<1>8. BossPlace'
  BY DEF BossPlace
<1> QED
  BY <1>1, <1>2, <1>3, <1>4, <1>5, <1>6, <1>7, <1>8

(* A failed push visits the slots that survived the frames. *)
LEMMA BatchPushInv ==
  ASSUME IInv, BatchPush
  PROVE  IInv'
<1> USE DEF IInv, memory, outcome, worker, control, BatchPush, Steady
<1>1. TypeOK'
  <2>1. MemoryType' /\ OutcomeType' /\ ControlType'
    BY DEF TypeOK, MemoryType, OutcomeType, ControlType
  <2>2. WorkerType'
    BY SchedConstants DEF TypeOK, MemoryType, OutcomeType, WorkerType, Slots,
         NoSlot, Occupied, WorkerPCs, Stages, WorkerPlace
  <2> QED BY <2>1, <2>2 DEF TypeOK
<1>2. CancelMarks' /\ SlotProgress'
  BY DEF CancelMarks, QuietAfterCancelOK, Seated, SlotProgress, Joining,
       Occupied
<1>3. WorkerPlace'
  BY SchedConstants DEF TypeOK, MemoryType, OutcomeType, WorkerType,
       WorkerPlace, TodoPlace, Occupied, Slots, NoSlot
<1>4. TodoPlace'
  <2>1. todo = {} /\ wslot = NoSlot
    BY DEF TodoPlace, WorkerPlace
  <2>2. Occupied' = Occupied /\ NoSlot \notin Occupied
    BY DEF Occupied, Slots, NoSlot
  <2>3. CASE wpc' = "relock" /\ todo' = todo
    BY <2>1, <2>2, <2>3 DEF TodoPlace
  <2>4. CASE wpc' = "loop" /\ todo' = Steady
    BY <2>1, <2>2, <2>4 DEF TodoPlace
  <2> QED BY <2>3, <2>4
<1>5. Ownership'
  <2>1. InHand' = InHand
    BY DEF InHand, WorkerPlace
  <2>2. Accepted' = Accepted
    BY DEF Accepted
  <2> QED BY <2>1, <2>2 DEF Ownership, Queued, Seated, Occupied
<1>6. CallbackPlace'
  BY DEF CallbackPlace
<1>7. OverMarks'
  BY DEF TypeOK, MemoryType, OutcomeType, WorkerType, WorkerPlace, OverMarks,
       CallbackPlace, Ownership, InHand
<1>8. BossPlace'
  BY DEF BossPlace
<1> QED
  BY <1>1, <1>2, <1>3, <1>4, <1>5, <1>6, <1>7, <1>8

(* A drained request goes from the ring to the worker's hands, or is freed. *)
LEMMA DrainPopInv ==
  ASSUME IInv, DrainPop
  PROVE  IInv'
<1> USE DEF IInv, memory, outcome, worker, control, DrainPop, Serve, Deliver
<1>1. TypeOK'
  <2>1. ControlType'
    BY DEF TypeOK, ControlType
  <2>2. MemoryType'
    <3>1. CASE queue = <<>>
      BY <3>1 DEF TypeOK, MemoryType
    <3>2. CASE queue # <<>>
      <4>1. Tail(queue) \in Seq(Req) /\ Len(Tail(queue)) = Len(queue) - 1
        BY <3>2, QueueTail DEF TypeOK, MemoryType
      <4>2. Len(queue) \in Nat /\ QueueDepth \in Nat /\ queue' = Tail(queue)
        BY <3>2, SchedConstants DEF TypeOK, MemoryType
      <4>3. queue' \in Seq(Req) /\ Len(queue') <= QueueDepth
        BY <4>1, <4>2 DEF TypeOK, MemoryType
      <4> QED BY <4>3 DEF TypeOK, MemoryType
    <3> QED BY <3>1, <3>2
  <2>3. OutcomeType'
    <3>1. CASE queue = <<>>
      BY <3>1 DEF TypeOK, OutcomeType
    <3>2. CASE queue # <<>>
      <4>1. Head(queue) \in Req
        BY <3>2, QueueTail DEF TypeOK, MemoryType
      <4> QED BY <3>2, <4>1 DEF TypeOK, OutcomeType
    <3> QED BY <3>1, <3>2
  <2>4. WorkerType'
    <3>1. CASE queue = <<>>
      BY <3>1 DEF TypeOK, WorkerType, WorkerPCs
    <3>2. CASE queue # <<>>
      <4>1. Head(queue) \in Req
        BY <3>2, QueueTail DEF TypeOK, MemoryType
      <4> QED BY <3>2, <4>1 DEF TypeOK, WorkerType, WorkerPCs
    <3> QED BY <3>1, <3>2
  <2> QED BY <2>1, <2>2, <2>3, <2>4 DEF TypeOK
<1>2. WorkerPlace'
  <2>1. CASE queue = <<>>
    BY <2>1 DEF WorkerPlace
  <2>2. CASE queue # <<>>
    <3>1. Head(queue) \in Req /\ Head(queue) # None
      BY <2>2, QueueTail, SchedConstants DEF TypeOK, MemoryType
    <3> QED BY <2>2, <3>1 DEF WorkerPlace
  <2> QED BY <2>1, <2>2
<1>3. TodoPlace'
  <2>1. todo = {}
    BY DEF TodoPlace
  <2> QED BY <2>1 DEF TodoPlace
<1>4. SlotProgress'
  <2>1. wslot = NoSlot /\ NoSlot \notin Slots
    BY DEF WorkerPlace, NoSlot, Slots
  <2> QED BY <2>1 DEF SlotProgress, Joining, Occupied
<1>5. Ownership'
  <2>1. Seated' = Seated /\ Occupied' = Occupied /\ Accepted' = Accepted /\ InHand = {}
    BY DEF Seated, Occupied, Accepted, InHand
  <2>2. CASE queue = <<>>
    <3>1. InHand' = {} /\ Queued' = Queued
      BY <2>2 DEF InHand, Queued
    <3> QED BY <2>1, <2>2, <3>1 DEF Ownership
  <2>3. CASE queue # <<>>
    <3> DEFINE h == Head(queue)
    <3>1. /\ h \in Queued /\ Queued = Queued' \cup {h} /\ h \notin Queued'
          /\ IsInjective(queue')
      <4>1. queue \in Seq(Req) /\ IsInjective(queue) /\ queue' = Tail(queue)
        BY <2>3 DEF TypeOK, MemoryType, Ownership
      <4>2. /\ Range(queue) = Range(Tail(queue)) \cup {h} /\ IsInjective(Tail(queue))
            /\ h \notin Range(Tail(queue))
        BY <2>3, <4>1, QueueTail
      <4> QED BY <4>1, <4>2 DEF Queued
    <3> HIDE DEF h
    <3>2. h \in Accepted /\ h \notin freed /\ h \notin Seated
      BY <2>1, <3>1 DEF Ownership
    <3>3. CASE freed' = freed \cup {h} /\ UNCHANGED <<wpc, wslot, wreq>>
      <4>1. InHand' = {}
        BY <3>3 DEF InHand
      <4> QED BY <2>1, <3>1, <3>2, <3>3, <4>1 DEF Ownership
    <3>4. CASE wpc' = "deliver" /\ ret' = "free" /\ wreq' = h /\ UNCHANGED freed
      <4>1. InHand' = {h}
        BY <3>4 DEF InHand
      <4> QED BY <2>1, <3>1, <3>2, <3>4, <4>1 DEF Ownership
    <3> QED BY <2>3, <3>3, <3>4 DEF h
  <2> QED BY <2>2, <2>3
<1>6. CallbackPlace'
  BY DEF CallbackPlace
<1>7. CancelMarks'
  <2>1. Seated' = Seated /\ freed \subseteq freed'
    BY DEF Seated
  <2> QED BY <2>1 DEF CancelMarks, QuietAfterCancelOK
<1>8. OverMarks'
  <2>1. over \ freed = {}
    BY DEF OverMarks
  <2> QED BY <2>1 DEF OverMarks
<1>9. BossPlace'
  BY DEF BossPlace
<1> QED
  BY <1>1, <1>2, <1>3, <1>4, <1>5, <1>6, <1>7, <1>8, <1>9

-----------------------------------------------------------------------------
(* The invariant survives a step that changes nothing. *)
LEMMA StutterIInv ==
  ASSUME IInv, UNCHANGED vars
  PROVE  IInv'
<1> USE DEF IInv, vars, memory, outcome, worker, control
<1>1. TypeOK'
  BY DEF TypeOK, MemoryType, OutcomeType, WorkerType, ControlType
<1>2. WorkerPlace' /\ TodoPlace' /\ SlotProgress' /\ CallbackPlace'
  BY DEF WorkerPlace, TodoPlace, SlotProgress, CallbackPlace, Occupied, Joining
<1>3. Ownership'
  BY DEF Ownership, Queued, Seated, Occupied, InHand, Accepted
<1>4. CancelMarks' /\ OverMarks' /\ BossPlace'
  BY DEF CancelMarks, OverMarks, BossPlace, QuietAfterCancelOK, Seated
<1> QED
  BY <1>1, <1>2, <1>3, <1>4

(* Every step of the scheduler and its callers preserves the invariant. *)
LEMMA NextIInv == IInv /\ [Next]_vars => IInv'
<1> SUFFICES ASSUME IInv, [Next]_vars PROVE IInv'
  OBVIOUS
<1>1. ASSUME NEW r \in Req, Submit(r) PROVE IInv'
  BY <1>1, SubmitInv
<1>2. ASSUME NEW r \in Req, Cancel(r) PROVE IInv'
  BY <1>2, CancelInv
<1>3. ASSUME NEW r \in Req, CancelWake(r) PROVE IInv'
  BY <1>3, CancelWakeInv
<1>4. CASE Start
  BY <1>4, StartInv
<1>5. CASE CreateWorker
  BY <1>5, CreateWorkerInv
<1>6. CASE Stop
  BY <1>6, StopInv
<1>7. CASE Join
  BY <1>7, JoinInv
<1>8. CASE DeliverMark
  BY <1>8, DeliverMarkInv
<1>9. ASSUME NEW rc \in {0, 1}, CallbackReturns(rc) PROVE IInv'
  BY <1>9, CallbackReturnsInv
<1>10. CASE Retire
  BY <1>10, RetireInv
<1>11. CASE FinishCollect
  BY <1>11, FinishCollectInv
<1>12. CASE FinishTail
  BY <1>12, FinishTailInv
<1>13. CASE WorkerLock
  BY <1>13, WorkerLockInv
<1>14. CASE LoopHead
  BY <1>14, LoopHeadInv
<1>15. CASE AdmitPop
  BY <1>15, AdmitPopInv
<1>16. CASE AdmitDone
  BY <1>16, AdmitDoneInv
<1>17. CASE WorkerWake
  BY <1>17, WorkerWakeInv
<1>18. CASE StartRequest
  BY <1>18, StartRequestInv
<1>19. CASE StartedLock
  BY <1>19, StartedLockInv
<1>20. CASE FreeRequest
  BY <1>20, FreeRequestInv
<1>21. CASE PrefillChunk
  BY <1>21, PrefillChunkInv
<1>22. ASSUME NEW i \in Slots, FirstFrame(i) PROVE IInv'
  BY <1>22, FirstFrameInv
<1>23. ASSUME NEW i \in Slots, StepFrame(i) PROVE IInv'
  BY <1>23, StepFrameInv
<1>24. ASSUME NEW i \in Slots, CloseOut(i) PROVE IInv'
  BY <1>24, CloseOutInv
<1>25. CASE LoopDone
  BY <1>25, LoopDoneInv
<1>26. CASE BatchDecode
  BY <1>26, BatchDecodeInv
<1>27. CASE BatchPush
  BY <1>27, BatchPushInv
<1>28. CASE DrainPop
  BY <1>28, DrainPopInv
<1>29. CASE UNCHANGED vars
  BY <1>29, StutterIInv
<1> QED
  BY <1>1, <1>2, <1>3, <1>4, <1>5, <1>6, <1>7, <1>8, <1>9, <1>10, <1>11,
     <1>12, <1>13, <1>14, <1>15, <1>16, <1>17, <1>18, <1>19, <1>20, <1>21,
     <1>22, <1>23, <1>24, <1>25, <1>26, <1>27, <1>28, <1>29
  DEF Next, WorkerStep

-----------------------------------------------------------------------------
(* Every behaviour of the scheduler stays inside the inductive invariant:   *)
(* where a request is, what the worker is serving, which callback runs and  *)
(* what a cancel has marked fit together at every step.                     *)
THEOREM Invariance == Spec => []IInv
<1>1. Init => IInv
  BY InitIInv
<1>2. IInv /\ [Next]_vars => IInv'
  BY NextIInv
<1> QED
  BY <1>1, <1>2, PTL DEF Spec

(* The ring never holds more than queue_depth requests, a slot counter      *)
(* never passes its bound, and every variable keeps its type, for any       *)
(* number of requests, slots, queue depth, frame cap and set of faults.     *)
THEOREM TypeCorrect == Spec => []TypeOK
<1>1. IInv => TypeOK
  BY DEF IInv
<1> QED
  BY <1>1, Invariance, PTL

(* Every accepted request that was not freed is in exactly one place: once  *)
(* in the ring, in one slot, or in the worker's hands.  scheduler.c never   *)
(* loses a request, frees one twice, or touches one it has freed.           *)
THEOREM OwnershipHolds == Spec => []Ownership
<1>1. IInv => Ownership
  BY DEF IInv
<1> QED
  BY <1>1, Invariance, PTL

(* When s2p_sched_cancel has returned S2P_OK, the callback of that request  *)
(* is not running, whatever the worker and the other callers do.            *)
THEOREM CancelIsQuiet == Spec => []QuietAfterCancelOK
<1>1. IInv => QuietAfterCancelOK
  BY DEF IInv, CancelMarks
<1> QED
  BY <1>1, Invariance, PTL

(* No callback runs for a stream whose callback already saw final=1 or      *)
(* returned nonzero: the worker is then on its way to free the request, on  *)
(* every one of the paths that end a stream.                                *)
THEOREM NothingAfterOver == Spec => []NoCallbackAfterOver
<1>1. IInv => NoCallbackAfterOver
  <2> SUFFICES ASSUME IInv, NEW r \in inCb, r \in over
               PROVE  FALSE
    BY DEF NoCallbackAfterOver
  <2>1. wpc = "callback" /\ r \notin freed
    BY BusyPlace
  <2>2. wpc \in {"retire", "free"}
    BY <2>1 DEF IInv, OverMarks
  <2> QED BY <2>1, <2>2
<1> QED
  BY <1>1, Invariance, PTL

-----------------------------------------------------------------------------
(* The slots, for every number of them.  n_active counts the occupied ones, *)
(* which the admission loop of worker_main relies on to find a free one;    *)
(* and s2p_sched_stop leaves no request behind in slot or ring, for every   *)
(* number of requests and restarts, provided the worker's thread is made    *)
(* and gets its scratch memory.  StopPlace of Sched is inductive on top of  *)
(* IInv.                                                                    *)

(* The slots are finite in number, and so are the occupied ones.            *)
LEMMA SlotsFinite ==
  /\ IsFiniteSet(Slots) /\ Cardinality(Slots) = MaxSessions
  /\ IsFiniteSet(Occupied) /\ Cardinality(Occupied) \in Nat
  /\ Cardinality(Occupied) = MaxSessions => Occupied = Slots
<1>1. IsFiniteSet(Slots) /\ Cardinality(Slots) = MaxSessions
  BY FS_Interval, SchedConstants DEF Slots
<1>2. Occupied \in SUBSET Slots
  BY DEF Occupied
<1>3. /\ IsFiniteSet(Occupied)
      /\ Cardinality(Slots) = Cardinality(Occupied) => Slots = Occupied
  BY <1>1, <1>2, FS_Subset
<1>4. Cardinality(Occupied) \in Nat
  BY <1>3, FS_CardinalityType
<1> QED BY <1>1, <1>3, <1>4

(* A step that takes and leaves no slot, and is not between start_request's *)
(* store and the count, keeps the count right.                              *)
Calm ==
  /\ slot' = slot /\ nActive' = nActive
  /\ wpc # "started" /\ wpc' # "started"

LEMMA CalmCount ==
  ASSUME SlotsCounted, Calm
  PROVE  SlotsCounted'
<1>1. Occupied' = Occupied
  BY DEF Occupied, Calm
<1> QED BY <1>1 DEF SlotsCounted, Calm

(* The calls of other threads leave slots, count and worker alone.          *)
LEMMA ClientCount ==
  ASSUME SlotsCounted,
         \/ \E r \in Req : Submit(r) \/ Cancel(r) \/ CancelWake(r)
         \/ Start \/ Stop \/ Join \/ UNCHANGED vars
  PROVE  SlotsCounted'
<1>1. slot' = slot /\ nActive' = nActive /\ wpc' = wpc
  BY DEF Submit, Cancel, CancelWake, Start, Stop, Join, memory, worker, vars
<1>2. Occupied' = Occupied
  BY <1>1 DEF Occupied
<1> QED BY <1>1, <1>2 DEF SlotsCounted

(* The thread is made while there is none.                                  *)
LEMMA CreateWorkerCount ==
  ASSUME IInv, SlotsCounted, CreateWorker
  PROVE  SlotsCounted'
<1>1. wpc = "off"
  BY DEF IInv, BossPlace, CreateWorker
<1>2. Calm
  BY <1>1 DEF Calm, CreateWorker, memory
<1> QED BY <1>2, CalmCount

(* The subroutines, but for retire, and the loops of worker_main.           *)
LEMMA WorkerCount ==
  ASSUME SlotsCounted,
         \/ WorkerLock \/ LoopHead \/ AdmitPop \/ AdmitDone \/ WorkerWake
         \/ FreeRequest \/ PrefillChunk \/ LoopDone \/ BatchDecode \/ BatchPush
         \/ \E i \in Slots : FirstFrame(i) \/ StepFrame(i) \/ CloseOut(i)
         \/ DeliverMark \/ (\E rc \in {0, 1} : CallbackReturns(rc))
         \/ FinishCollect \/ FinishTail \/ DrainPop
  PROVE  SlotsCounted'
<1> USE DEF Calm, Serve, NextSlot, Deliver, memory
<1>1. CASE WorkerLock \/ LoopHead \/ AdmitPop \/ AdmitDone \/ WorkerWake
  <2>1. Calm
    BY <1>1 DEF WorkerLock, LoopHead, AdmitPop, AdmitDone, WorkerWake
  <2> QED BY <2>1, CalmCount
<1>2. CASE FreeRequest \/ PrefillChunk \/ LoopDone \/ BatchDecode \/ BatchPush
  <2>1. Calm
    BY <1>2 DEF FreeRequest, PrefillChunk, LoopDone, BatchDecode, BatchPush
  <2> QED BY <2>1, CalmCount
<1>3. ASSUME NEW i \in Slots, FirstFrame(i) \/ StepFrame(i) \/ CloseOut(i)
      PROVE  SlotsCounted'
  <2>1. Calm
    BY <1>3 DEF FirstFrame, StepFrame, CloseOut, HandleFrame, IsNext
  <2> QED BY <2>1, CalmCount
<1>4. CASE DeliverMark \/ \E rc \in {0, 1} : CallbackReturns(rc)
  <2>1. Calm
    BY <1>4 DEF DeliverMark, CallbackReturns, AfterDeliver
  <2> QED BY <2>1, CalmCount
<1>5. CASE FinishCollect \/ FinishTail \/ DrainPop
  <2>1. Calm
    BY <1>5 DEF FinishCollect, FinishTail, DrainPop
  <2> QED BY <2>1, CalmCount
<1> QED
  BY <1>1, <1>2, <1>3, <1>4, <1>5

(* start_request takes a free slot, or none when it fails.                  *)
LEMMA StartRequestCount ==
  ASSUME IInv, SlotsCounted, StartRequest
  PROVE  SlotsCounted'
<1>1. wpc = "start" /\ wslot \in Slots /\ slot[wslot] = None /\ wreq # None
  BY DEF IInv, WorkerPlace, StartRequest
<1>2. slot \in [Slots -> Req \cup {None}] /\ nActive \in Int
  BY DEF IInv, TypeOK, MemoryType
<1>3. CASE slot' = [slot EXCEPT ![wslot] = wreq] /\ wpc' = "started"
  <2>1. Occupied' = Occupied \cup {wslot} /\ wslot \notin Occupied
    BY <1>1, <1>2, <1>3 DEF Occupied
  <2>2. Cardinality(Occupied') = Cardinality(Occupied) + 1
    BY <2>1, SlotsFinite, FS_AddElement
  <2>3. nActive' = nActive
    BY DEF StartRequest
  <2> QED BY <1>1, <1>3, <2>2, <2>3, <1>2 DEF SlotsCounted
<1>4. CASE slot' = slot /\ wpc' = "deliver"
  <2>1. Calm
    BY <1>1, <1>4 DEF Calm, StartRequest
  <2> QED BY <2>1, CalmCount
<1> QED
  BY <1>3, <1>4 DEF StartRequest, Serve, Deliver

(* The increment under the lock makes up for the store without it.          *)
LEMMA StartedLockCount ==
  ASSUME IInv, SlotsCounted, StartedLock
  PROVE  SlotsCounted'
<1>1. Occupied' = Occupied
  BY DEF Occupied, StartedLock
<1>2. nActive \in Int
  BY DEF IInv, TypeOK, MemoryType
<1> QED BY <1>1, <1>2 DEF SlotsCounted, StartedLock

(* retire leaves a slot that was occupied.                                  *)
LEMMA RetireCount ==
  ASSUME IInv, SlotsCounted, Retire
  PROVE  SlotsCounted'
<1>1. wpc = "retire" /\ wslot \in Slots /\ slot[wslot] # None
  BY DEF IInv, WorkerPlace, Retire
<1>2. slot \in [Slots -> Req \cup {None}] /\ nActive \in Int
  BY DEF IInv, TypeOK, MemoryType
<1>3. Occupied' = Occupied \ {wslot} /\ wslot \in Occupied
  BY <1>1, <1>2 DEF Occupied, Retire
<1>4. Cardinality(Occupied') = Cardinality(Occupied) - 1
  BY <1>3, SlotsFinite, FS_RemoveElement
<1>5. wpc' = "loop" /\ nActive' = nActive - 1
  BY DEF Retire, NextSlot, Serve
<1> QED BY <1>1, <1>2, <1>4, <1>5 DEF SlotsCounted

(* n_active is the number of occupied slots in every reachable state, but   *)
(* for the instant between start_request's store and its increment.         *)
THEOREM CountIsRight == Spec => []SlotsCounted
<1>1. Init => SlotsCounted
  <2> SUFFICES ASSUME Init PROVE SlotsCounted
    OBVIOUS
  <2>1. Occupied = {}
    BY DEF Init, Occupied
  <2> QED BY <2>1, FS_EmptySet DEF SlotsCounted, Init
<1>2. IInv /\ SlotsCounted /\ [Next]_vars => SlotsCounted'
  BY ClientCount, CreateWorkerCount, WorkerCount, StartRequestCount, StartedLockCount,
     RetireCount
  DEF Next, WorkerStep
<1> QED
  BY <1>1, <1>2, Invariance, PTL DEF Spec

(* Fewer sessions than slots leave a slot free.                             *)
LEMMA CountFindsSlot == IInv /\ SlotsCounted => AdmissionFindsSlot
<1> SUFFICES ASSUME IInv, SlotsCounted, wpc = "admit", nActive < MaxSessions, Occupied = Slots
             PROVE  FALSE
  BY DEF AdmissionFindsSlot
<1>1. Cardinality(Occupied) = nActive
  BY DEF SlotsCounted, IInv, TypeOK, MemoryType
<1> QED BY <1>1, SlotsFinite, SchedConstants

(* The guard of the admission loop that scheduler.c calls an invariant      *)
(* guard that "cannot happen", and that would free a request without a      *)
(* callback, indeed cannot.                                                 *)
THEOREM AdmissionGuardIsDead == Spec => []AdmissionFindsSlot
BY CountFindsSlot, CountIsRight, Invariance, PTL

-----------------------------------------------------------------------------
(* Stop.                                                                    *)

(* pthread_create and the worker's first allocations succeed.               *)
WorkerStarts == "thread" \notin Faults /\ "worker" \notin Faults

(* A step that changes no slot's request leaves the same slots occupied.    *)
LEMMA SameSlots == ASSUME slot' = slot PROVE Occupied' = Occupied
BY DEF Occupied

(* The threads that submit and cancel. *)
LEMMA StopClients ==
  ASSUME IInv, StopPlace, \/ \E r \in Req : Submit(r) \/ Cancel(r) \/ CancelWake(r)
                          \/ UNCHANGED vars
  PROVE  StopPlace'
<1>1. Occupied' = Occupied
  BY SameSlots DEF Submit, Cancel, CancelWake, memory, vars
<1>2. /\ UNCHANGED <<stop, running, boss, wpc, stage, ret, wslot, todo>>
      /\ queue' = queue \/ (running /\ ~stop)
  BY DEF Submit, Cancel, CancelWake, memory, worker, control, vars
<1> QED BY <1>1, <1>2 DEF StopPlace

(* The thread that starts and stops the worker. *)
LEMMA StopBoss ==
  ASSUME IInv, StopPlace, WorkerStarts, Start \/ CreateWorker \/ Stop \/ Join
  PROVE  StopPlace'
<1>1. Occupied' = Occupied /\ queue' = queue
  BY SameSlots DEF Start, CreateWorker, Stop, Join, memory
<1>2. /\ running \in BOOLEAN /\ stop \in BOOLEAN
      /\ boss = "creating" => running /\ wpc = "off"
      /\ ~running => wpc = "off"
  BY DEF IInv, TypeOK, ControlType, BossPlace
<1>3. CASE Start
  BY <1>1, <1>2, <1>3 DEF Start, StopPlace, worker
<1>4. CASE CreateWorker
  BY <1>1, <1>2, <1>4 DEF CreateWorker, StopPlace, WorkerStarts, Fault
<1>5. CASE Stop
  BY <1>1, <1>2, <1>5 DEF Stop, StopPlace, worker
<1>6. CASE Join
  BY <1>1, <1>2, <1>6 DEF Join, StopPlace, worker
<1> QED BY <1>3, <1>4, <1>5, <1>6

(* The outer loop, admission and the drain. *)
LEMMA StopLoops ==
  ASSUME IInv, StopPlace,
         \/ WorkerLock \/ LoopHead \/ AdmitPop \/ AdmitDone \/ WorkerWake
         \/ StartedLock \/ FreeRequest \/ LoopDone \/ BatchDecode \/ BatchPush
         \/ DrainPop
  PROVE  StopPlace'
<1>1. Occupied' = Occupied
  BY SameSlots
  DEF WorkerLock, LoopHead, AdmitPop, AdmitDone, WorkerWake, StartedLock, FreeRequest,
      LoopDone, BatchDecode, BatchPush, DrainPop, memory
<1>2. wpc # "off" /\ running /\ UNCHANGED <<running, stop, boss>>
  BY DEF IInv, BossPlace, WorkerLock, LoopHead, AdmitPop, AdmitDone, WorkerWake,
      StartedLock, FreeRequest, LoopDone, BatchDecode, BatchPush, DrainPop, control
<1>3. CASE WorkerLock \/ LoopHead
  BY <1>1, <1>2, <1>3 DEF WorkerLock, LoopHead, memory, StopPlace
<1>4. CASE AdmitPop \/ AdmitDone \/ WorkerWake
  BY <1>1, <1>2, <1>4 DEF AdmitPop, AdmitDone, WorkerWake, Serve, memory, StopPlace
<1>5. CASE StartedLock \/ FreeRequest
  BY <1>1, <1>2, <1>5 DEF StartedLock, FreeRequest, Serve, memory, StopPlace
<1>6. CASE LoopDone
  <2>1. wslot = NoSlot /\ NoSlot \notin Slots /\ Occupied \subseteq Slots
    BY <1>6 DEF LoopDone, IInv, WorkerPlace, NoSlot, Slots, Occupied
  <2> QED
    BY <1>1, <1>2, <1>6, <2>1 DEF LoopDone, memory, StopPlace
<1>7. CASE BatchDecode \/ BatchPush
  BY <1>1, <1>2, <1>7 DEF BatchDecode, BatchPush, memory, StopPlace
<1>8. CASE DrainPop
  BY <1>1, <1>2, <1>8 DEF DrainPop, Deliver, Serve, StopPlace
<1> QED BY <1>3, <1>4, <1>5, <1>6, <1>7, <1>8

(* Serving one slot. *)
LEMMA StopServes ==
  ASSUME IInv, StopPlace,
         \/ PrefillChunk
         \/ \E i \in Slots : FirstFrame(i) \/ StepFrame(i) \/ CloseOut(i)
         \/ DeliverMark \/ (\E rc \in {0, 1} : CallbackReturns(rc))
         \/ FinishCollect \/ FinishTail
  PROVE  StopPlace'
<1>1. Occupied' = Occupied /\ queue' = queue
  BY SameSlots
  DEF PrefillChunk, FirstFrame, StepFrame, CloseOut, DeliverMark, CallbackReturns,
      FinishCollect, FinishTail, memory
<1>2. wpc # "off" /\ running /\ UNCHANGED <<running, stop, boss>>
  BY DEF IInv, BossPlace, PrefillChunk, FirstFrame, StepFrame, CloseOut, IsNext,
      DeliverMark, CallbackReturns, FinishCollect, FinishTail, control
<1> USE DEF Serve, NextSlot, Deliver
<1>3. CASE PrefillChunk
  BY <1>1, <1>2, <1>3 DEF PrefillChunk, StopPlace
<1>4. ASSUME NEW i \in Slots, FirstFrame(i) \/ StepFrame(i)
      PROVE  StopPlace'
  <2>1. stage' = stage /\ stage \notin {"stop", "drain", "admit"}
    BY <1>4 DEF FirstFrame, StepFrame
  <2>2. /\ wpc' \in {"loop", "deliver", "finish", "retire"}
        /\ wpc' = "deliver" => ret' # "free"
    BY <1>4 DEF FirstFrame, StepFrame, HandleFrame
  <2>3. wpc = "loop"
    BY <1>4 DEF FirstFrame, StepFrame, IsNext
  <2> QED BY <1>1, <1>2, <2>1, <2>2, <2>3 DEF StopPlace
<1>5. ASSUME NEW i \in Slots, CloseOut(i)
      PROVE  StopPlace'
  <2>1. wslot = NoSlot /\ Occupied \subseteq Slots /\ NoSlot \notin Slots
    BY <1>5 DEF CloseOut, IsNext, IInv, WorkerPlace, NoSlot, Slots, Occupied
  <2> QED BY <1>1, <1>2, <1>5, <2>1 DEF CloseOut, IsNext, StopPlace
<1>6. CASE DeliverMark
  BY <1>1, <1>2, <1>6 DEF DeliverMark, AfterDeliver, IInv, WorkerPlace, StopPlace
<1>7. ASSUME NEW rc \in {0, 1}, CallbackReturns(rc)
      PROVE  StopPlace'
  BY <1>1, <1>2, <1>7 DEF CallbackReturns, AfterDeliver, IInv, WorkerPlace, StopPlace
<1>8. CASE FinishCollect \/ FinishTail
  BY <1>1, <1>2, <1>8 DEF FinishCollect, FinishTail, StopPlace
<1> QED BY <1>3, <1>4, <1>5, <1>6, <1>7, <1>8

(* start_request runs in the admission loop only. *)
LEMMA StopStartRequest ==
  ASSUME IInv, StopPlace, StartRequest
  PROVE  StopPlace'
<1>1. wpc = "start" /\ stage = "admit" /\ running
  BY DEF StartRequest, StopPlace, IInv, BossPlace
<1>2. /\ stage' = stage /\ wpc' \in {"started", "deliver"}
      /\ UNCHANGED <<running, stop, boss, queue>>
  BY DEF StartRequest, Serve, Deliver, control
<1> QED BY <1>1, <1>2 DEF StopPlace

(* retire empties the slot it serves. *)
LEMMA StopRetire ==
  ASSUME IInv, StopPlace, Retire
  PROVE  StopPlace'
<1>1. wpc = "retire" /\ running /\ wslot \in Slots
  BY DEF Retire, IInv, BossPlace, WorkerPlace
<1>2. Occupied' = Occupied \ {wslot}
  BY <1>1 DEF Retire, Occupied, IInv, TypeOK, MemoryType
<1>3. /\ wpc' = "loop" /\ wslot' = NoSlot /\ todo' = todo /\ stage' = stage
      /\ UNCHANGED <<running, stop, boss, queue>>
  BY DEF Retire, NextSlot, Serve, control
<1> QED BY <1>1, <1>2, <1>3 DEF StopPlace

(* When s2p_sched_stop has joined the worker the ring and the slots are     *)
(* empty and no callback runs: s2p_sched_destroy may free them.             *)
THEOREM StopLeavesNothing ==
  ASSUME WorkerStarts
  PROVE  Spec => []StopDrains
<1>1. Init => StopPlace
  BY DEF Init, StopPlace, Occupied
<1>2. IInv /\ StopPlace /\ [Next]_vars => StopPlace'
  BY StopClients, StopBoss, StopLoops, StopServes, StopStartRequest, StopRetire
  DEF Next, WorkerStep
<1>3. IInv /\ StopPlace => StopDrains
  BY DEF IInv, BossPlace, CallbackPlace, StopPlace, StopDrains
<1> QED
  BY <1>1, <1>2, <1>3, Invariance, PTL DEF Spec

=============================================================================
