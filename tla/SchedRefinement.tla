--------------------------- MODULE SchedRefinement ---------------------------
(* The scheduler implements CallbackContract, for every value of the        *)
(* constants, provided deliver_chunk can allocate its buffer: each step of  *)
(* Sched is a step of the contract or leaves the contract's state alone.    *)
EXTENDS SchedProofs

(* The allocation in deliver_chunk succeeds. *)
ChunksAllocated == "oom" \notin Faults

(* The state of the contract, as the scheduler implements it. *)
View == [r \in Req |-> ClientView(r)]

-----------------------------------------------------------------------------
(* A request is freed only at its end.                                      *)

LEMMA EndClients ==
  ASSUME IInv, EndPlace,
         \/ \E r \in Req : Submit(r) \/ Cancel(r) \/ CancelWake(r)
         \/ Start \/ Stop \/ Join \/ UNCHANGED vars
  PROVE  EndPlace'
<1>1. UNCHANGED <<wpc, wreq, over, inCb>> /\ cancelled \subseteq cancelled'
  BY DEF Submit, Cancel, CancelWake, Start, Stop, Join, outcome, worker, vars
<1> QED BY <1>1 DEF EndPlace

LEMMA EndWorker ==
  ASSUME IInv, EndPlace, ChunksAllocated, CreateWorker \/ WorkerStep
  PROVE  EndPlace'
<1> USE DEF EndPlace, Serve, NextSlot, Deliver, outcome
<1>1. CASE CreateWorker
  BY <1>1 DEF CreateWorker, IInv, BossPlace
<1>2. CASE WorkerLock \/ LoopHead \/ AdmitPop \/ AdmitDone \/ WorkerWake
  BY <1>2 DEF WorkerLock, LoopHead, AdmitPop, AdmitDone, WorkerWake
<1>3. CASE StartRequest \/ StartedLock \/ FreeRequest \/ PrefillChunk
  BY <1>3 DEF StartRequest, StartedLock, FreeRequest, PrefillChunk
<1>4. CASE LoopDone \/ BatchDecode \/ BatchPush \/ DrainPop
  BY <1>4 DEF LoopDone, BatchDecode, BatchPush, DrainPop
<1>5. ASSUME NEW i \in Slots, FirstFrame(i) \/ StepFrame(i) \/ CloseOut(i)
      PROVE  EndPlace'
  BY <1>5 DEF FirstFrame, StepFrame, CloseOut, HandleFrame, ChunksAllocated, Fault
<1>6. CASE DeliverMark
  BY <1>6 DEF DeliverMark, AfterDeliver, IInv, TypeOK, WorkerType
<1>7. ASSUME NEW rc \in {0, 1}, CallbackReturns(rc)
      PROVE  EndPlace'
  BY <1>7 DEF CallbackReturns, AfterDeliver, Final
<1>8. CASE FinishCollect \/ FinishTail \/ Retire
  BY <1>8 DEF FinishCollect, FinishTail, Retire, ChunksAllocated, Fault
<1> QED
  BY <1>1, <1>2, <1>3, <1>4, <1>5, <1>6, <1>7, <1>8 DEF WorkerStep

-----------------------------------------------------------------------------
(* Each step of Sched as a step of the contract.                            *)

(* A step that leaves the callers and the outcome alone shows nothing. *)
LEMMA Hidden ==
  ASSUME UNCHANGED <<outcome, client>>
  PROVE  UNCHANGED Contract!vars
<1>1. /\ UNCHANGED <<inCb, over, cancelled>> /\ Acked' = Acked
      /\ \A r \in Req : ClientView(r)' = ClientView(r)
  BY DEF outcome, Acked, ClientView, Accepted
<1> QED BY <1>1 DEF Contract!vars

(* req_free of an accepted request whose stream is over or cancelled. *)
LEMMA Freed ==
  ASSUME NEW r \in Accepted \ freed, r \in over \cup cancelled, r \notin inCb,
         freed' = freed \cup {r}, UNCHANGED <<cancelled, inCb, over, client>>
  PROVE  Contract!Release(r)
<1>1. r \in Req /\ ClientView(r) = "open" /\ ClientView(r)' = "released"
  BY DEF Accepted, ClientView
<1>2. \A q \in Req \ {r} : ClientView(q)' = ClientView(q)
  BY DEF ClientView, Accepted
<1>3. View' = [View EXCEPT ![r] = "released"]
  BY <1>1, <1>2 DEF View
<1>4. Acked' = Acked
  BY DEF Acked
<1> QED BY <1>1, <1>3, <1>4 DEF Contract!Release, View

LEMMA SubmitStep ==
  ASSUME IInv, NEW r \in Req, Submit(r)
  PROVE  [Contract!Next]_(Contract!vars)
<1>1. client \in [Req -> ClientStates] /\ client[r] = "out"
  BY DEF IInv, TypeOK, OutcomeType, Submit
<1>2. UNCHANGED <<inCb, over, cancelled, freed>>
  BY DEF Submit, outcome
<1>3. r \notin Accepted /\ r \notin freed /\ r \notin Acked
  BY <1>1 DEF Accepted, Acked, IInv, Ownership
<1>4. CASE client' = [client EXCEPT ![r] = "in"]
  <2>1. /\ ClientView(r) = "new" /\ ClientView(r)' = "open"
        /\ \A q \in Req \ {r} : ClientView(q)' = ClientView(q)
    BY <1>1, <1>2, <1>3, <1>4 DEF ClientView, Accepted
  <2>2. View' = [View EXCEPT ![r] = "open"]
    BY <2>1 DEF View
  <2>3. Acked' = Acked
    BY <1>1, <1>4 DEF Acked
  <2> QED BY <1>2, <2>1, <2>2, <2>3 DEF Contract!Accept, Contract!Next, View
<1>5. CASE client' = [client EXCEPT ![r] = "rejected"]
  <2>1. Acked' = Acked /\ \A q \in Req : ClientView(q)' = ClientView(q)
    BY <1>1, <1>2, <1>3, <1>5 DEF ClientView, Accepted, Acked
  <2> QED BY <1>2, <2>1 DEF Contract!vars
<1> QED BY <1>4, <1>5 DEF Submit

(* A canceller changes its own standing only. *)
LEMMA Asked ==
  ASSUME IInv, NEW r \in Accepted, NEW x \in {"waiting", "ok", "invalid"},
         client' = [client EXCEPT ![r] = x], freed' = freed
  PROVE  /\ View' = View /\ View[r] # "new"
         /\ x = "ok" => Acked' = Acked \cup {r}
         /\ x # "ok" => Acked' = Acked \ {r}
<1>1. client \in [Req -> ClientStates] /\ r \in Req
  BY DEF IInv, TypeOK, OutcomeType, Accepted
<1>2. \A q \in Req : ClientView(q)' = ClientView(q)
  BY <1>1 DEF ClientView, Accepted
<1>3. x = "ok" => Acked' = Acked \cup {r}
  BY <1>1 DEF Acked
<1>4. x # "ok" => Acked' = Acked \ {r}
  BY <1>1 DEF Acked
<1> QED BY <1>1, <1>2, <1>3, <1>4 DEF View, ClientView

LEMMA CancelStep ==
  ASSUME IInv, NEW r \in Req, Cancel(r)
  PROVE  [Contract!Next]_(Contract!vars)
<1>1. r \in Accepted /\ r \notin Acked /\ client[r] = "in"
  BY DEF Cancel, Accepted, Acked
<1>2. UNCHANGED <<inCb, over, freed>>
  BY DEF Cancel
<1>3. CASE client' = [client EXCEPT ![r] = "ok"] /\ r \notin inCb
           /\ cancelled' = cancelled \cup {r}
  <2>1. View' = View /\ View[r] # "new" /\ Acked' = Acked \cup {r}
    BY <1>1, <1>2, <1>3, Asked
  <2> QED BY <1>2, <1>3, <2>1 DEF Contract!Ask, Contract!Next, View
<1>4. CASE client' = [client EXCEPT ![r] = "waiting"] /\ cancelled' = cancelled \cup {r}
  <2>1. View' = View /\ View[r] # "new" /\ Acked' = Acked \ {r}
    BY <1>1, <1>2, <1>4, "waiting" # "ok", Asked
  <2>2. Acked' = Acked
    BY <1>1, <2>1
  <2> QED BY <1>2, <1>4, <2>1, <2>2 DEF Contract!Ask, Contract!Next, View
<1>5. CASE client' = [client EXCEPT ![r] = "invalid"] /\ cancelled' = cancelled
  <2>1. View' = View /\ Acked' = Acked \ {r}
    BY <1>1, <1>2, <1>5, "invalid" # "ok", Asked
  <2>2. Acked' = Acked
    BY <1>1, <2>1
  <2> QED BY <1>2, <1>5, <2>1, <2>2 DEF Contract!vars, View
<1>6. r \in Queued => r \notin inCb
  BY BusyPlace
<1> QED BY <1>3, <1>4, <1>5, <1>6 DEF Cancel

LEMMA CancelWakeStep ==
  ASSUME IInv, NEW r \in Req, CancelWake(r)
  PROVE  [Contract!Next]_(Contract!vars)
<1>1. r \in Accepted /\ r \in cancelled /\ r \in Seated \cup freed
  BY DEF CancelWake, Accepted, IInv, CancelMarks
<1>2. UNCHANGED outcome
  BY DEF CancelWake
<1>3. CASE client' = client
  BY <1>2, <1>3, Hidden
<1>4. CASE client' = [client EXCEPT ![r] = "ok"] /\ r \notin inCb \cap Seated
  <2>1. View' = View /\ Acked' = Acked \cup {r}
    BY <1>1, <1>2, <1>4, Asked DEF outcome
  <2>2. r \notin inCb
    BY <1>1, <1>4, BusyPlace
  <2> QED BY <1>1, <1>2, <2>1, <2>2 DEF Contract!Acknowledge, Contract!Next, View, outcome
<1> QED BY <1>3, <1>4 DEF CancelWake

(* The oldest request of the ring is accepted, not freed, and has no        *)
(* callback running.                                                        *)
LEMMA HeadOfQueue ==
  ASSUME IInv, queue # <<>>
  PROVE  Head(queue) \in Accepted \ freed /\ Head(queue) \notin inCb
<1>1. Head(queue) \in Queued
  BY QueueTail DEF IInv, TypeOK, MemoryType, Queued
<1> QED BY <1>1, BusyPlace DEF IInv, Ownership

LEMMA FreeStep ==
  ASSUME IInv, EndPlace, AdmissionFindsSlot,
         AdmitPop \/ DrainPop \/ Retire \/ FreeRequest
  PROVE  [Contract!Next]_(Contract!vars)
<1>1. UNCHANGED <<cancelled, inCb, over, client>>
  BY DEF AdmitPop, DrainPop, Retire, FreeRequest
<1>2. CASE freed' = freed
  BY <1>1, <1>2, Hidden DEF outcome
<1>3. ASSUME NEW r \in Accepted \ freed, r \in over \cup cancelled, r \notin inCb,
             freed' = freed \cup {r}
      PROVE  [Contract!Next]_(Contract!vars)
  <2>1. Contract!Release(r)
    BY <1>1, <1>3, Freed
  <2> QED BY <2>1 DEF Contract!Next, Accepted
<1>4. CASE AdmitPop \/ DrainPop
  <2>1. freed' = freed \/ (/\ queue # <<>> /\ Head(queue) \in cancelled
                          /\ freed' = freed \cup {Head(queue)})
    BY <1>4 DEF AdmitPop, DrainPop, AdmissionFindsSlot
  <2> QED BY <1>2, <1>3, <2>1, HeadOfQueue
<1>5. CASE Retire \/ FreeRequest
  <2>1. /\ wpc \in {"retire", "free"} /\ freed' = freed \cup {wreq}
        /\ wreq \in over \cup cancelled
    BY <1>5 DEF Retire, FreeRequest, EndPlace
  <2>2. wreq \in Accepted \ freed
    <3>1. CASE wpc = "retire"
      <4>1. wreq \in Seated
        BY <3>1, SeatedSlot DEF IInv, WorkerPlace
      <4> QED BY <4>1 DEF IInv, Ownership
    <3>2. CASE wpc = "free"
      <4>1. wreq \in InHand
        BY <3>2 DEF IInv, WorkerPlace, InHand
      <4> QED BY <4>1 DEF IInv, Ownership
    <3> QED BY <2>1, <3>1, <3>2
  <2>3. wreq \notin inCb
    BY <2>1 DEF IInv, CallbackPlace
  <2> QED BY <1>3, <2>1, <2>2, <2>3
<1> QED BY <1>4, <1>5

(* The request the worker delivers to is accepted and not freed. *)
LEMMA Delivering ==
  ASSUME IInv, wpc \in {"deliver", "callback"}
  PROVE  wreq \in Accepted \ freed
<1>1. CASE ret = "free"
  BY <1>1 DEF IInv, Ownership, InHand
<1>2. CASE ret # "free"
  <2>1. wreq \in Seated
    BY <1>2, SeatedSlot DEF IInv, WorkerPlace
  <2> QED BY <2>1 DEF IInv, Ownership
<1> QED BY <1>1, <1>2

LEMMA DeliverMarkStep ==
  ASSUME IInv, DeliverMark
  PROVE  [Contract!Next]_(Contract!vars)
<1>1. UNCHANGED <<cancelled, over, freed, client>> /\ wpc = "deliver"
  BY DEF DeliverMark
<1>2. CASE inCb' = inCb
  BY <1>1, <1>2, Hidden DEF outcome
<1>3. CASE wreq \notin cancelled /\ inCb' = inCb \cup {wreq}
  <2>1. wreq \in Accepted \ freed
    BY <1>1, Delivering
  <2>2. inCb = {} /\ wreq \notin over
    BY <1>1, <2>1 DEF IInv, CallbackPlace, OverMarks
  <2>3. wreq \notin Acked
    BY <1>3 DEF Acked, IInv, CancelMarks
  <2>4. View' = View /\ Acked' = Acked /\ View[wreq] = "open" /\ wreq \in Req
    BY <1>1, <2>1 DEF View, Acked, ClientView, Accepted
  <2>5. Contract!Invoke(wreq)
    BY <1>1, <1>3, <2>2, <2>3, <2>4 DEF Contract!Invoke, View
  <2> QED BY <2>4, <2>5 DEF Contract!Next
<1> QED BY <1>2, <1>3 DEF DeliverMark

LEMMA CallbackReturnsStep ==
  ASSUME IInv, EndPlace, NEW rc \in {0, 1}, CallbackReturns(rc)
  PROVE  [Contract!Next]_(Contract!vars)
<1>1. /\ UNCHANGED <<cancelled, freed, client>> /\ wpc = "callback"
      /\ inCb' = inCb \ {wreq} /\ over' \in {over, over \cup {wreq}}
  BY DEF CallbackReturns
<1>2. wreq \in inCb /\ wreq \in Req
  BY <1>1, Delivering DEF EndPlace, Accepted
<1>3. View' = View /\ Acked' = Acked
  BY <1>1 DEF View, Acked, ClientView, Accepted
<1>4. Contract!Return(wreq)
  BY <1>1, <1>2, <1>3 DEF Contract!Return, View
<1> QED BY <1>2, <1>4 DEF Contract!Next

-----------------------------------------------------------------------------
(* Whatever the scheduler does, its callers see the contract: a request is  *)
(* accepted once, callbacks never overlap, none runs after the end of the   *)
(* stream or an acknowledged cancel, and a request is released only at its  *)
(* end and never under its callback.                                        *)
THEOREM SchedImplementsContract ==
  ASSUME ChunksAllocated
  PROVE  Spec => ContractSafety
<1>1. Init => EndPlace
  BY DEF Init, EndPlace
<1>2. IInv /\ EndPlace /\ [Next]_vars => EndPlace'
  BY EndClients, EndWorker DEF Next
<1>3. Init => Contract!Init
  BY DEF Init, Contract!Init, ClientView, Accepted, Acked
<1>4. IInv /\ SlotsCounted /\ EndPlace /\ [Next]_vars => [Contract!Next]_(Contract!vars)
  <2> SUFFICES ASSUME IInv, SlotsCounted, EndPlace, [Next]_vars
               PROVE  [Contract!Next]_(Contract!vars)
    OBVIOUS
  <2>1. AdmissionFindsSlot
    BY CountFindsSlot
  <2>2. CASE UNCHANGED <<outcome, client>>
    BY <2>2, Hidden
  <2>3. ASSUME NEW r \in Req, Submit(r) \/ Cancel(r) \/ CancelWake(r)
        PROVE  [Contract!Next]_(Contract!vars)
    BY <2>3, SubmitStep, CancelStep, CancelWakeStep
  <2>4. CASE AdmitPop \/ DrainPop \/ Retire \/ FreeRequest
    BY <2>1, <2>4, FreeStep
  <2>5. CASE DeliverMark
    BY <2>5, DeliverMarkStep
  <2>6. ASSUME NEW rc \in {0, 1}, CallbackReturns(rc)
        PROVE  [Contract!Next]_(Contract!vars)
    BY <2>6, CallbackReturnsStep
  <2>7. CASE Start \/ CreateWorker \/ Stop \/ Join \/ UNCHANGED vars
    <3>1. UNCHANGED <<outcome, client>>
      BY <2>7 DEF Start, CreateWorker, Stop, Join, vars
    <3> QED BY <3>1, <2>2
  <2>8. CASE WorkerLock \/ LoopHead \/ AdmitDone \/ WorkerWake \/ StartRequest
             \/ StartedLock \/ PrefillChunk \/ LoopDone \/ BatchDecode \/ BatchPush
             \/ FinishCollect \/ FinishTail
    <3>1. UNCHANGED <<outcome, client>>
      BY <2>8 DEF WorkerLock, LoopHead, AdmitDone, WorkerWake, StartRequest, StartedLock,
         PrefillChunk, LoopDone, BatchDecode, BatchPush, FinishCollect, FinishTail
    <3> QED BY <3>1, <2>2
  <2>9. ASSUME NEW i \in Slots, FirstFrame(i) \/ StepFrame(i) \/ CloseOut(i)
        PROVE  [Contract!Next]_(Contract!vars)
    <3>1. UNCHANGED <<outcome, client>>
      BY <2>9 DEF FirstFrame, StepFrame, CloseOut
    <3> QED BY <3>1, <2>2
  <2> QED
    BY <2>3, <2>4, <2>5, <2>6, <2>7, <2>8, <2>9 DEF Next, WorkerStep
<1> QED
  BY <1>1, <1>2, <1>3, <1>4, Invariance, CountIsRight, PTL
  DEF Spec, ContractSafety, Contract!Spec
=============================================================================
