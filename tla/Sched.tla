------------------------------- MODULE Sched --------------------------------
(* The request scheduler, src/sched/scheduler.c: one worker thread that     *)
(* admits queued requests into session slots, prefills them in chunks,      *)
(* steps all decoding sessions in lockstep and runs the audio callbacks,    *)
(* against threads that submit, cancel, start and stop.                     *)
(*                                                                          *)
(* One action per critical section of s->mu, and per stretch of code the    *)
(* worker runs without it.  Threads asleep in pthread_cond_wait(&s->cv) are *)
(* members of waiting until somebody broadcasts.  The GPU work is abstract: *)
(* a decode ends a stream or yields a frame, a DAC step yields a chunk or   *)
(* nothing, and either may fail when Faults says so.                        *)
EXTENDS Integers, Sequences, FiniteSets, Functions

CONSTANTS
  Req,          \* request records: each is submitted at most once
  None,         \* a NULL request pointer
  Worker,       \* the worker thread's name in the set waiting
  MaxSessions,  \* s->max_sessions, the number of session slots
  QueueDepth,   \* s->queue_depth, the size of the ring of pending requests
  MaxFrames,    \* SCHED_MAX_FRAMES, the per-request frame cap
  MaxChunks,    \* the most prefill chunks a prompt is cut into
  MaxStarts,    \* bound on calls of s2p_sched_start
  Faults        \* what may fail: a subset of FaultKinds

FaultKinds == {"start", "prefill", "decode", "dac", "oom", "thread", "worker"}

ASSUME SchedConstants ==
  /\ None \notin Req /\ Worker \notin Req
  /\ MaxSessions \in Nat \ {0} /\ QueueDepth \in Nat \ {0}
  /\ MaxFrames \in Nat \ {0} /\ MaxChunks \in Nat \ {0} /\ MaxStarts \in Nat
  /\ Faults \subseteq FaultKinds

Slots  == 1 .. MaxSessions
NoSlot == 0

VARIABLES
  queue,      \* the ring: pending requests, oldest first
  slot,       \* slot[i]: active[i].req
  phase,      \* phase[i]: "idle", "prefilling", "fresh" or "steady"
  chunks,     \* chunks[i]: prefill chunks of slot i still to run
  frames,     \* frames[i]: frames decoded so far for slot i
  nActive,    \* s->n_active
  cancelled,  \* the requests whose cancelled flag is set
  inCb,       \* the requests whose in_cb flag is set: their callback runs
  over,       \* the requests whose callback saw final=1 or returned nonzero
  freed,      \* the requests passed to req_free
  client,     \* client[r]: where the thread that owns r stands
  waiting,    \* the threads asleep on s->cv: Worker, or r for r's canceller
  wpc,        \* the worker's program counter
  stage,      \* the loop of worker_main it is in
  todo,       \* the slots this loop has still to visit
  wslot,      \* the slot the worker is serving, NoSlot between two
  wreq,       \* the request the worker is serving, None between two
  ret,        \* what the worker does when deliver() returns
  rr,         \* the round-robin cursor of the prefill scan
  running, stop,  \* s->running, s->stop
  boss,       \* the thread that starts and stops the worker
  starts      \* how often s2p_sched_start ran

memory == <<queue, slot, phase, chunks, frames, nActive>>
outcome == <<cancelled, inCb, over, freed>>
worker == <<wpc, stage, todo, wslot, wreq, ret, rr>>
control == <<running, stop, boss, starts>>
vars == <<memory, outcome, client, waiting, worker, control>>

ClientStates == {"out", "rejected", "in", "waiting", "ok", "invalid"}
Stages == {"admit", "prefill", "first", "step", "fail", "stop", "drain"}
WorkerPCs == {"off", "relock", "head", "admit", "wait", "start", "started",
              "prefill", "batch", "push", "loop", "deliver", "callback",
              "finish", "tail", "retire", "free", "drain"}

MemoryType ==
  /\ queue \in Seq(Req) /\ Len(queue) <= QueueDepth
  /\ slot \in [Slots -> Req \cup {None}]
  /\ phase \in [Slots -> {"idle", "prefilling", "fresh", "steady"}]
  /\ chunks \in [Slots -> 0 .. MaxChunks]
  /\ frames \in [Slots -> 0 .. MaxFrames]
  /\ nActive \in Int

OutcomeType ==
  /\ cancelled \subseteq Req /\ inCb \subseteq Req
  /\ over \subseteq Req /\ freed \subseteq Req
  /\ client \in [Req -> ClientStates]
  /\ waiting \subseteq Req \cup {Worker}

WorkerType ==
  /\ wpc \in WorkerPCs /\ stage \in Stages
  /\ todo \subseteq Slots
  /\ wslot \in Slots \cup {NoSlot} /\ wreq \in Req \cup {None}
  /\ ret \in {"retire", "free", "frame", "tail"}
  /\ rr \in Slots

ControlType ==
  /\ running \in BOOLEAN /\ stop \in BOOLEAN
  /\ boss \in {"idle", "creating", "joining"}
  /\ starts \in 0 .. MaxStarts

TypeOK == MemoryType /\ OutcomeType /\ WorkerType /\ ControlType

Init ==
  /\ queue = <<>> /\ nActive = 0
  /\ slot = [i \in Slots |-> None]
  /\ phase = [i \in Slots |-> "idle"]
  /\ chunks = [i \in Slots |-> 0] /\ frames = [i \in Slots |-> 0]
  /\ cancelled = {} /\ inCb = {} /\ over = {} /\ freed = {}
  /\ client = [r \in Req |-> "out"]
  /\ waiting = {}
  /\ wpc = "off" /\ stage = "admit" /\ todo = {}
  /\ wslot = NoSlot /\ wreq = None /\ ret = "retire" /\ rr = 1
  /\ running = FALSE /\ stop = FALSE /\ boss = "idle" /\ starts = 0

-----------------------------------------------------------------------------
(* The worker keeps s->mu from the test of the outer loop through the       *)
(* admission loop; every other critical section is one action.              *)
MutexFree == wpc \notin {"head", "admit"}
(* Faulty variant: the wake-up is forgotten. *)
Broadcast_None == UNCHANGED waiting
Broadcast == waiting' = {}

Occupied == {i \in Slots : slot[i] # None}
Steady   == {i \in Occupied : phase[i] = "steady"}
Fresh    == {i \in Occupied : phase[i] = "fresh"}
Joining  == {i \in Occupied : phase[i] = "prefilling"}
Queued   == Range(queue)
Seated   == Range(slot) \ {None}

Fault(kind) == kind \in Faults

-----------------------------------------------------------------------------
(* The public API, called by any thread.                                    *)

(* Faulty variant: the ring is tested with > instead of >=. *)
Submit_OffByOne(r) ==
  /\ MutexFree
  /\ client[r] = "out" /\ running /\ ~stop /\ Len(queue) <= QueueDepth
  /\ queue' = Append(queue, r)
  /\ client' = [client EXCEPT ![r] = "in"]
  /\ Broadcast
  /\ UNCHANGED <<slot, phase, chunks, frames, nActive, outcome, worker, control>>

(* Faulty variant: the request is queued and nobody is woken. *)
Submit_NoWake(r) ==
  /\ MutexFree
  /\ client[r] = "out" /\ running /\ ~stop /\ Len(queue) < QueueDepth
  /\ queue' = Append(queue, r)
  /\ client' = [client EXCEPT ![r] = "in"]
  /\ UNCHANGED <<slot, phase, chunks, frames, nActive, outcome, waiting, worker, control>>

Submit(r) ==
  /\ MutexFree
  /\ client[r] = "out"
  /\ IF running /\ ~stop /\ Len(queue) < QueueDepth
       THEN /\ queue' = Append(queue, r)
            /\ client' = [client EXCEPT ![r] = "in"]
            /\ Broadcast
       ELSE /\ client' = [client EXCEPT ![r] = "rejected"]
            /\ UNCHANGED <<queue, waiting>>
  /\ UNCHANGED <<slot, phase, chunks, frames, nActive, outcome, worker, control>>

(* Faulty variant: cancel of an active request does not wait for in_cb. *)
Cancel_NoWait(r) ==
  /\ MutexFree
  /\ client[r] = "in" /\ r \in Queued \cup Seated
  /\ cancelled' = cancelled \cup {r}
  /\ client' = [client EXCEPT ![r] = "ok"]
  /\ UNCHANGED <<memory, inCb, over, freed, waiting, worker, control>>

(* The scan of the ring, then of the slots.  A request that is in neither   *)
(* is reported S2P_ERR_INVALID and nothing is marked.                       *)
Cancel(r) ==
  /\ MutexFree
  /\ client[r] = "in"
  /\ \/ /\ r \in Queued
        /\ cancelled' = cancelled \cup {r}
        /\ client' = [client EXCEPT ![r] = "ok"]
        /\ UNCHANGED waiting
     \/ /\ r \notin Queued
        /\ r \in Seated
        /\ cancelled' = cancelled \cup {r}
        /\ IF r \in inCb
             THEN /\ client' = [client EXCEPT ![r] = "waiting"]
                  /\ waiting' = waiting \cup {r}
             ELSE /\ client' = [client EXCEPT ![r] = "ok"]
                  /\ UNCHANGED waiting
     \/ /\ r \notin Queued \cup Seated
        /\ client' = [client EXCEPT ![r] = "invalid"]
        /\ UNCHANGED <<cancelled, waiting>>
  /\ UNCHANGED <<memory, inCb, over, freed, worker, control>>

(* The canceller wakes with the lock and tests its condition again.         *)
CancelWake(r) ==
  /\ MutexFree
  /\ client[r] = "waiting" /\ r \notin waiting
  /\ IF r \in inCb \cap Seated
       THEN /\ waiting' = waiting \cup {r}
            /\ UNCHANGED client
       ELSE /\ client' = [client EXCEPT ![r] = "ok"]
            /\ UNCHANGED waiting
  /\ UNCHANGED <<memory, outcome, worker, control>>

Start ==
  /\ MutexFree
  /\ boss = "idle" /\ ~running /\ starts < MaxStarts
  /\ stop' = FALSE /\ running' = TRUE
  /\ boss' = "creating" /\ starts' = starts + 1
  /\ UNCHANGED <<memory, outcome, client, waiting, worker>>

(* pthread_create may fail; the thread it makes gives up at once when its   *)
(* scratch arrays cannot be allocated.                                      *)
CreateWorker ==
  /\ boss = "creating"
  /\ boss' = "idle"
  /\ \/ /\ wpc' = "relock"
        /\ UNCHANGED running
     \/ /\ Fault("worker")
        /\ UNCHANGED <<wpc, running>>
     \/ /\ Fault("thread")
        /\ running' = FALSE
        /\ UNCHANGED wpc
  /\ UNCHANGED <<memory, outcome, client, waiting, stage, todo, wslot, wreq, ret, rr,
                 stop, starts>>

(* Faulty variant: stop sets its flag and does not wake the worker. *)
Stop_NoWake ==
  /\ MutexFree
  /\ boss = "idle" /\ running
  /\ stop' = TRUE /\ boss' = "joining"
  /\ UNCHANGED <<memory, outcome, client, waiting, worker, running, starts>>

Stop ==
  /\ MutexFree
  /\ boss = "idle" /\ running
  /\ stop' = TRUE /\ boss' = "joining"
  /\ Broadcast
  /\ UNCHANGED <<memory, outcome, client, worker, running, starts>>

Join ==
  /\ boss = "joining" /\ wpc = "off"
  /\ running' = FALSE /\ boss' = "idle"
  /\ UNCHANGED <<memory, outcome, client, waiting, worker, stop, starts>>

-----------------------------------------------------------------------------
(* deliver(), retire(), finish_stream(): the worker's subroutines.          *)

(* Jump to pc to serve slot i, whose request is r. *)
Serve(pc, i, r) == wpc' = pc /\ wslot' = i /\ wreq' = r
(* Done with this slot: back to the loop over todo. *)
NextSlot == Serve("loop", NoSlot, None)
(* Call deliver() and go on with what k names. *)
Deliver(k, i, r) == Serve("deliver", i, r) /\ ret' = k

(* final=1 is passed by every call that ends a stream. *)
Final == ret \in {"retire", "free"}

(* Where the worker goes when deliver() has returned, ok meaning zero. *)
AfterDeliver(ok) ==
  \/ ret = "free" /\ Serve("free", wslot, wreq)
  \/ ret = "retire" /\ Serve("retire", wslot, wreq)
  \/ ret \in {"frame", "tail"} /\ ~ok /\ Serve("retire", wslot, wreq)
  \/ ret = "tail" /\ ok /\ Serve("tail", wslot, wreq)
  \/ ret = "frame" /\ ok /\ frames[wslot] >= MaxFrames /\ Serve("finish", wslot, wreq)
  \/ ret = "frame" /\ ok /\ frames[wslot] < MaxFrames /\ NextSlot

(* Faulty variant: the cancelled flag is not read before the callback. *)
DeliverMark_Unchecked ==
  /\ wpc = "deliver"
  /\ inCb' = inCb \cup {wreq}
  /\ Serve("callback", wslot, wreq)
  /\ UNCHANGED <<memory, cancelled, over, freed, client, waiting, stage, todo,
                 ret, rr, control>>

DeliverMark ==
  /\ wpc = "deliver"
  /\ IF wreq \in cancelled
       THEN AfterDeliver(FALSE) /\ UNCHANGED inCb
       ELSE /\ inCb' = inCb \cup {wreq}
            /\ Serve("callback", wslot, wreq)
  /\ UNCHANGED <<memory, cancelled, over, freed, client, waiting, stage, todo,
                 ret, rr, control>>

(* Faulty variant: the callback's "client gone" is not acted upon. *)
CallbackReturns_Unread(rc) ==
  /\ wpc = "callback"
  /\ inCb' = inCb \ {wreq}
  /\ over' = IF Final \/ rc # 0 THEN over \cup {wreq} ELSE over
  /\ Broadcast
  /\ AfterDeliver(wreq \notin cancelled)
  /\ UNCHANGED <<memory, cancelled, freed, client, stage, todo, ret, rr, control>>

(* The callback returns rc; the worker takes the lock, clears in_cb, wakes  *)
(* the cancellers and looks at the cancelled flag once more.                *)
CallbackReturns(rc) ==
  /\ wpc = "callback"
  /\ inCb' = inCb \ {wreq}
  /\ over' = IF Final \/ rc # 0 THEN over \cup {wreq} ELSE over
  /\ Broadcast
  /\ AfterDeliver(rc = 0 /\ wreq \notin cancelled)
  /\ UNCHANGED <<memory, cancelled, freed, client, stage, todo, ret, rr, control>>

Retire ==
  /\ wpc = "retire"
  /\ freed' = freed \cup {wreq}
  /\ slot' = [slot EXCEPT ![wslot] = None]
  /\ phase' = [phase EXCEPT ![wslot] = "idle"]
  /\ chunks' = [chunks EXCEPT ![wslot] = 0]
  /\ frames' = [frames EXCEPT ![wslot] = 0]
  /\ nActive' = nActive - 1
  /\ Broadcast
  /\ NextSlot
  /\ UNCHANGED <<queue, cancelled, inCb, over, client, stage, todo, ret, rr, control>>

(* Collect the chunk still in the pipeline, deliver it, then the tail. *)
FinishCollect ==
  /\ wpc = "finish"
  /\ \/ Deliver("tail", wslot, wreq)
     \/ Serve("tail", wslot, wreq) /\ UNCHANGED ret
     \/ Fault("oom") /\ Serve("retire", wslot, wreq) /\ UNCHANGED ret
  /\ UNCHANGED <<memory, outcome, client, waiting, stage, todo, rr, control>>

(* dac_stream_finish may fail: the final callback then carries no samples. *)
FinishTail ==
  /\ wpc = "tail"
  /\ \/ Deliver("retire", wslot, wreq)
     \/ Fault("oom") /\ Serve("retire", wslot, wreq) /\ UNCHANGED ret
  /\ UNCHANGED <<memory, outcome, client, waiting, stage, todo, rr, control>>

-----------------------------------------------------------------------------
(* worker_main: the outer loop and admission.                               *)

WorkerLock ==
  /\ wpc = "relock"
  /\ wpc' = "head" /\ stage' = "admit"
  /\ UNCHANGED <<memory, outcome, client, waiting, todo, wslot, wreq, ret, rr, control>>

(* while (!s->stop): on stop, every occupied slot is closed out first. *)
LoopHead ==
  /\ wpc = "head"
  /\ IF stop
       THEN wpc' = "loop" /\ stage' = "stop" /\ todo' = Occupied
       ELSE wpc' = "admit" /\ UNCHANGED <<stage, todo>>
  /\ UNCHANGED <<memory, outcome, client, waiting, wslot, wreq, ret, rr, control>>

IsFirstFree(i) == slot[i] = None /\ \A j \in 1 .. i - 1 : slot[j] # None

(* Faulty variant: a cancelled request is freed and started all the same. *)
AdmitPop_NoContinue ==
  /\ wpc = "admit" /\ queue # <<>> /\ nActive < MaxSessions
  /\ queue' = Tail(queue)
  /\ freed' = IF Head(queue) \in cancelled THEN freed \cup {Head(queue)} ELSE freed
  /\ \E i \in Slots : IsFirstFree(i) /\ Serve("start", i, Head(queue))
  /\ UNCHANGED <<slot, phase, chunks, frames, nActive, cancelled, inCb, over,
                 client, waiting, stage, todo, ret, rr, control>>

(* Pop the oldest request: a cancelled one is freed, any other leaves the   *)
(* ring and is, until start_request stores it in its slot, in no list.      *)
AdmitPop ==
  /\ wpc = "admit" /\ queue # <<>> /\ nActive < MaxSessions
  /\ queue' = Tail(queue)
  /\ \/ /\ Head(queue) \in cancelled \/ Occupied = Slots
        /\ freed' = freed \cup {Head(queue)}
        /\ UNCHANGED <<wpc, wslot, wreq>>
     \/ /\ Head(queue) \notin cancelled
        /\ \E i \in Slots : IsFirstFree(i) /\ Serve("start", i, Head(queue))
        /\ UNCHANGED freed
  /\ UNCHANGED <<slot, phase, chunks, frames, nActive, cancelled, inCb, over,
                 client, waiting, stage, todo, ret, rr, control>>

(* Nothing to admit: sleep if there is no session either, else tick. *)
AdmitDone ==
  /\ wpc = "admit" /\ (queue = <<>> \/ nActive >= MaxSessions)
  /\ IF nActive > 0
       THEN wpc' = "prefill" /\ UNCHANGED waiting
       ELSE IF queue = <<>> /\ ~stop
         THEN wpc' = "wait" /\ waiting' = waiting \cup {Worker}
         ELSE wpc' = "head" /\ UNCHANGED waiting
  /\ UNCHANGED <<memory, outcome, client, stage, todo, wslot, wreq, ret, rr, control>>

WorkerWake ==
  /\ wpc = "wait" /\ Worker \notin waiting
  /\ wpc' = "head"
  /\ UNCHANGED <<memory, outcome, client, waiting, stage, todo, wslot, wreq, ret, rr, control>>

(* start_request: encode, build the prompt, make session and DAC stream.    *)
(* slot->req is stored without the lock; n_active follows under it.  A      *)
(* failure after the prefill plan was stored leaves its flags in the slot.  *)
StartRequest ==
  /\ wpc = "start"
  /\ \/ /\ slot' = [slot EXCEPT ![wslot] = wreq]
        /\ phase' = [phase EXCEPT ![wslot] = "prefilling"]
        /\ \E n \in 1 .. MaxChunks : chunks' = [chunks EXCEPT ![wslot] = n]
        /\ Serve("started", NoSlot, None)
        /\ UNCHANGED ret
     \/ /\ Fault("start")
        /\ \/ UNCHANGED phase
           \/ phase' = [phase EXCEPT ![wslot] = "prefilling"]
        /\ Deliver("free", NoSlot, wreq)
        /\ UNCHANGED <<slot, chunks>>
  /\ UNCHANGED <<queue, frames, nActive, outcome, client, waiting, stage, todo, rr, control>>

StartedLock ==
  /\ wpc = "started"
  /\ nActive' = nActive + 1
  /\ wpc' = "admit"
  /\ UNCHANGED <<queue, slot, phase, chunks, frames, outcome, client, waiting,
                 stage, todo, wslot, wreq, ret, rr, control>>

(* Faulty variant: a request that failed to start is counted as active. *)
FreeRequest_Counted ==
  /\ wpc = "free"
  /\ freed' = freed \cup {wreq}
  /\ nActive' = nActive + 1
  /\ Serve(IF stage = "drain" THEN "drain" ELSE "admit", NoSlot, None)
  /\ UNCHANGED <<queue, slot, phase, chunks, frames, cancelled, inCb, over,
                 client, waiting, stage, todo, ret, rr, control>>

(* req_free of a request that never reached a slot. *)
FreeRequest ==
  /\ wpc = "free"
  /\ freed' = freed \cup {wreq}
  /\ Serve(IF stage = "drain" THEN "drain" ELSE "admit", NoSlot, None)
  /\ UNCHANGED <<memory, cancelled, inCb, over, client, waiting, stage, todo,
                 ret, rr, control>>

-----------------------------------------------------------------------------
(* worker_main: one tick, without the lock.                                 *)

(* i is the first joining slot at or after the cursor. *)
IsTurn(i) ==
  /\ i \in Joining
  /\ \A j \in Joining : (i - rr) % MaxSessions <= (j - rr) % MaxSessions

(* One prefill chunk of one joining session per tick; the last one makes    *)
(* the session fresh.                                                       *)
PrefillChunk ==
  /\ wpc = "prefill"
  /\ stage' = "prefill"
  /\ \/ /\ Joining = {}
        /\ NextSlot
        /\ UNCHANGED <<phase, chunks, ret, rr>>
     \/ \E i \in Slots :
          /\ IsTurn(i)
          /\ rr' = (i % MaxSessions) + 1
          /\ \/ /\ chunks' = [chunks EXCEPT ![i] = @ - 1]
                /\ phase' = [phase EXCEPT ![i] = IF chunks[i] = 1 THEN "fresh" ELSE @]
                /\ NextSlot
                /\ UNCHANGED ret
             \/ /\ Fault("prefill")
                /\ Deliver("retire", i, slot[i])
                /\ UNCHANGED <<phase, chunks>>
  /\ UNCHANGED <<queue, slot, frames, nActive, outcome, client, waiting, todo, control>>

(* handle_frame of slot i: end of stream, cancelled, a chunk to deliver,    *)
(* no chunk yet, or an error that closes the stream.                        *)
HandleFrame(i) ==
  \/ /\ Serve("finish", i, slot[i])
     /\ UNCHANGED <<frames, ret>>
  \/ /\ slot[i] \in cancelled
     /\ Serve("retire", i, slot[i])
     /\ UNCHANGED <<frames, ret>>
  \/ /\ slot[i] \notin cancelled
     /\ frames' = [frames EXCEPT ![i] = @ + 1]
     /\ \/ Deliver("frame", i, slot[i])
        \/ frames[i] + 1 >= MaxFrames /\ Serve("finish", i, slot[i]) /\ UNCHANGED ret
        \/ frames[i] + 1 < MaxFrames /\ NextSlot /\ UNCHANGED ret
        \/ Fault("dac") /\ Deliver("retire", i, slot[i])
        \/ Fault("oom") /\ Serve("retire", i, slot[i]) /\ UNCHANGED ret

IsNext(i) == wpc = "loop" /\ i \in todo /\ \A j \in todo : i <= j

(* Priority first frame: a fresh session steps alone. *)
FirstFrame(i) ==
  /\ IsNext(i) /\ stage = "first"
  /\ todo' = todo \ {i}
  /\ phase' = [phase EXCEPT ![i] = "steady"]
  /\ \/ HandleFrame(i)
     \/ Fault("decode") /\ Deliver("retire", i, slot[i]) /\ UNCHANGED frames
  /\ UNCHANGED <<queue, slot, chunks, nActive, outcome, client, waiting, stage, rr, control>>

(* Lockstep: the frame that the batched decode gave to slot i. *)
StepFrame(i) ==
  /\ IsNext(i) /\ stage = "step"
  /\ todo' = todo \ {i}
  /\ HandleFrame(i)
  /\ UNCHANGED <<queue, slot, phase, chunks, nActive, outcome, client, waiting,
                 stage, rr, control>>

(* A batch that failed, or shutdown: every session gets its final callback. *)
CloseOut(i) ==
  /\ IsNext(i) /\ stage \in {"fail", "stop"}
  /\ todo' = todo \ {i}
  /\ Deliver("retire", i, slot[i])
  /\ UNCHANGED <<memory, outcome, client, waiting, stage, rr, control>>

(* todo is empty: on to the next part of worker_main. *)
LoopDone ==
  /\ wpc = "loop" /\ todo = {}
  /\ \/ stage = "prefill" /\ stage' = "first" /\ todo' = Fresh /\ UNCHANGED wpc
     \/ stage = "first" /\ wpc' = "batch" /\ UNCHANGED <<stage, todo>>
     \/ stage = "step" /\ wpc' = "push" /\ UNCHANGED <<stage, todo>>
     \/ stage = "fail" /\ wpc' = "relock" /\ UNCHANGED <<stage, todo>>
     \/ stage = "stop" /\ stage' = "drain" /\ wpc' = "drain" /\ UNCHANGED todo
  /\ UNCHANGED <<memory, outcome, client, waiting, wslot, wreq, ret, rr, control>>

(* One batched decode over the primed sessions; it fails for all or none. *)
BatchDecode ==
  /\ wpc = "batch"
  /\ todo' = Steady
  /\ IF Steady = {} THEN wpc' = "relock" /\ UNCHANGED stage
     ELSE /\ wpc' = "loop"
          /\ \/ stage' = "step"
             \/ Fault("decode") /\ stage' = "fail"
  /\ UNCHANGED <<memory, outcome, client, waiting, wslot, wreq, ret, rr, control>>

(* One batched DAC push over the slots that survived this tick's frames.    *)
(* (With S2P_DAC_BATCH=0 each frame is pushed in handle_frame, whose DAC    *)
(* failure closes that one stream: the behaviours are among these.)         *)
BatchPush ==
  /\ wpc = "push"
  /\ \/ wpc' = "relock" /\ UNCHANGED <<stage, todo>>
     \/ /\ Fault("dac") /\ Steady # {}
        /\ wpc' = "loop" /\ stage' = "fail" /\ todo' = Steady
  /\ UNCHANGED <<memory, outcome, client, waiting, wslot, wreq, ret, rr, control>>

(* Faulty variant: the worker exits with requests left in the ring. *)
DrainPop_Skipped ==
  /\ wpc = "drain"
  /\ wpc' = "off"
  /\ UNCHANGED <<memory, outcome, client, waiting, stage, todo, wslot, wreq, ret,
                 rr, control>>

(* Shutdown: the requests still in the ring get their final callback. *)
DrainPop ==
  /\ wpc = "drain"
  /\ IF queue = <<>>
       THEN /\ wpc' = "off"
            /\ UNCHANGED <<queue, freed, wslot, wreq, ret>>
       ELSE /\ queue' = Tail(queue)
            /\ IF Head(queue) \in cancelled
                 THEN freed' = freed \cup {Head(queue)} /\ UNCHANGED <<wpc, wslot, wreq, ret>>
                 ELSE Deliver("free", NoSlot, Head(queue)) /\ UNCHANGED freed
  /\ UNCHANGED <<slot, phase, chunks, frames, nActive, cancelled, inCb, over,
                 client, waiting, stage, todo, rr, control>>

-----------------------------------------------------------------------------
WorkerStep ==
  \/ WorkerLock \/ LoopHead \/ AdmitPop \/ AdmitDone \/ WorkerWake
  \/ StartRequest \/ StartedLock \/ FreeRequest
  \/ PrefillChunk \/ LoopDone \/ BatchDecode \/ BatchPush
  \/ \E i \in Slots : FirstFrame(i) \/ StepFrame(i) \/ CloseOut(i)
  \/ DeliverMark \/ (\E rc \in {0, 1} : CallbackReturns(rc))
  \/ FinishCollect \/ FinishTail \/ Retire \/ DrainPop

Next ==
  \/ \E r \in Req : Submit(r) \/ Cancel(r) \/ CancelWake(r)
  \/ Start \/ CreateWorker \/ Stop \/ Join
  \/ WorkerStep

(* The worker thread keeps being scheduled (its GPU calls and callbacks     *)
(* return: the HTTP callback writes under a send budget), a thread that     *)
(* s->cv woke runs, and so does the thread inside start or stop.  Nothing   *)
(* obliges anybody to submit, cancel, start or stop.                        *)
Fairness ==
  /\ WF_vars(WorkerStep)
  /\ \A r \in Req : WF_vars(CancelWake(r))
  /\ WF_vars(CreateWorker) /\ WF_vars(Join)

Spec == Init /\ [][Next]_vars /\ Fairness

-----------------------------------------------------------------------------
(* Properties.                                                              *)

Accepted == {r \in Req : client[r] \notin {"out", "rejected"}}
InHand   == IF wpc = "start" \/ (ret = "free" /\ wpc \in {"deliver", "callback", "free"})
              THEN {wreq} ELSE {}

(* Every accepted request that has not been freed is in exactly one place:  *)
(* once in the ring, in one slot, or in the worker's hands between the two. *)
(* So no request is lost, leaked, freed twice or used after req_free.       *)
Ownership ==
  /\ IsInjective(queue)
  /\ \A i, j \in Occupied : slot[i] = slot[j] => i = j
  /\ Queued \cap Seated = {}
  /\ InHand \cap (Queued \cup Seated) = {}
  /\ freed \subseteq Accepted
  /\ Accepted \ freed = Queued \cup Seated \cup InHand

(* n_active, which the admission loop trusts to promise a free slot, counts *)
(* the occupied slots, but for the instant between start_request's unlocked *)
(* store of slot->req and the increment under the lock.                     *)
SlotsCounted ==
  Cardinality(Occupied) = nActive + (IF wpc = "started" THEN 1 ELSE 0)

(* The admission loop, which trusts n_active, finds a free slot whenever it *)
(* pops: its guard against finding none never frees a request unanswered.   *)
AdmissionFindsSlot == wpc = "admit" /\ nActive < MaxSessions => Occupied # Slots

(* The cancellation contract as far as the code keeps it: once cancel has   *)
(* returned S2P_OK the request's callback is not running; with the contract *)
(* of CallbackContract, it never runs again.                                *)
QuietAfterCancelOK == \A r \in inCb : client[r] # "ok"

(* A stream that is over, by a final chunk or by a callback that returned   *)
(* nonzero, gets no further callback, whichever of the error, end, cap,     *)
(* shutdown and client-gone paths ended it.                                 *)
NoCallbackAfterOver == inCb \cap over = {}

(* What src/sched/scheduler.c:16-17 promises of every return of cancel.     *)
QuietAfterCancel == \A r \in inCb : client[r] \notin {"ok", "invalid"}

(* When stop() has joined the worker, the ring and the slots are empty, as  *)
(* s2p_sched_destroy relies on when it frees them.                          *)
StopDrains ==
  boss = "idle" /\ ~running => queue = <<>> /\ Occupied = {} /\ inCb = {}

(* The scheduler implements the contract it offers its callers. *)
ClientView(r) == IF r \in freed THEN "released"
                 ELSE IF r \in Accepted THEN "open" ELSE "new"
Acked == {r \in Req : client[r] = "ok"}
Contract == INSTANCE CallbackContract WITH
  phase <- [r \in Req |-> ClientView(r)], busy <- inCb, over <- over,
  asked <- cancelled, acked <- Acked
ContractSafety == Contract!Spec

(* Every accepted request is released: its stream is closed or its cancel   *)
(* honoured, whatever the other streams do, also across a stop.             *)
EveryRequestEnds == \A r \in Req : client[r] = "in" ~> r \in freed

(* A cancel that waits out a running callback returns, and so does stop.    *)
CancelReturns == \A r \in Req : client[r] = "waiting" ~> client[r] = "ok"
StopReturns == boss = "joining" ~> boss = "idle"

-----------------------------------------------------------------------------
(* The inductive invariant behind the safety properties.                    *)

(* What wslot and wreq mean at each program counter of the worker. *)
WorkerPlace ==
  /\ wpc \in {"finish", "tail", "retire"} =>
       wslot \in Slots /\ wreq # None /\ slot[wslot] = wreq
  /\ wpc \in {"deliver", "callback"} =>
       /\ wreq # None
       /\ IF ret = "free" THEN wslot = NoSlot ELSE wslot \in Slots /\ slot[wslot] = wreq
  /\ wpc = "free" => wreq # None /\ wslot = NoSlot /\ ret = "free"
  /\ wpc = "start" => wreq # None /\ wslot \in Slots /\ slot[wslot] = None
  /\ wpc \notin {"finish", "tail", "retire", "deliver", "callback", "start"} =>
       wslot = NoSlot

(* The slots a loop has still to visit are occupied, and nothing but a loop *)
(* has slots to visit.                                                      *)
TodoPlace ==
  /\ todo \subseteq Occupied \ {wslot}
  /\ wpc \notin {"loop", "deliver", "callback", "finish", "tail", "retire"} => todo = {}
  /\ wpc \in {"deliver", "callback"} /\ ret = "free" => todo = {}

(* A joining session has chunks left, and only the slot being served may    *)
(* have reached the frame cap.                                              *)
SlotProgress ==
  /\ \A i \in Joining : chunks[i] >= 1
  /\ \A i \in Slots \ {wslot} : frames[i] < MaxFrames
  /\ \A i \in Slots : slot[i] = None => frames[i] = 0

(* The callback that runs belongs to the request the worker is serving. *)
CallbackPlace == inCb # {} => wpc = "callback" /\ inCb = {wreq}

(* There is no worker while one is being created, nor after a join. *)
BossPlace ==
  /\ boss = "creating" => running /\ wpc = "off"
  /\ ~running => wpc = "off"

CancelMarks ==
  /\ \A r \in Req : client[r] \in {"ok", "waiting"} => r \in cancelled
  /\ \A r \in Req : client[r] = "waiting" => r \in Seated \cup freed
  /\ QuietAfterCancelOK

(* A stream that is over is on its way to be freed. *)
OverMarks ==
  \A r \in over \ freed : wreq = r /\ wpc \in {"retire", "free"}

IInv ==
  /\ TypeOK /\ WorkerPlace /\ TodoPlace /\ SlotProgress
  /\ Ownership /\ CallbackPlace /\ CancelMarks /\ OverMarks
  /\ BossPlace

(* What stop relies on, when the worker's thread is made and lives: while   *)
(* it is being joined nothing is submitted, the shutdown loop visits every  *)
(* slot, and the drain starts with none occupied.                           *)
StopPlace ==
  /\ stop => boss = "joining" \/ ~running
  /\ boss = "joining" => stop /\ running
  /\ wpc = "off" /\ boss = "idle" => ~running
  /\ ~running \/ (wpc = "off" /\ boss = "joining") => queue = <<>> /\ Occupied = {}
  /\ wpc \in {"head", "admit", "wait", "start", "started"} => stage = "admit"
  /\ wpc \in {"finish", "tail"} => stage \notin {"stop", "drain"}
  /\ stage = "stop" /\ wpc \in {"loop", "deliver", "callback", "retire"} =>
       stop /\ Occupied \subseteq todo \cup {wslot}
  /\ stage = "stop" /\ wpc \in {"deliver", "callback"} => ret = "retire"
  /\ stage = "drain" => wpc \notin {"loop", "retire"}
  /\ stage = "drain" /\ wpc \in {"drain", "deliver", "callback", "free"} =>
       stop /\ Occupied = {} /\ (wpc \in {"deliver", "callback"} => ret = "free")
  /\ wpc = "drain" => stage = "drain"
  /\ wpc = "free" \/ (wpc \in {"deliver", "callback"} /\ ret = "free") =>
       stage \in {"admit", "drain"}

(* What the contract relies on, when deliver_chunk can allocate: a request  *)
(* is freed only when its stream is over or it was cancelled.               *)
EndPlace ==
  /\ wpc \in {"retire", "free"} => wreq \in over \cup cancelled
  /\ wpc = "callback" => wreq \in inCb
=============================================================================
