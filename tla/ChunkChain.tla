----------------------------- MODULE ChunkChain ------------------------------
(* The long-form chunk chain of one connection, src/http/http.c: the poll   *)
(* loop submits the chunks of a text to the scheduler, a window of them at  *)
(* a time; the scheduler's worker calls tts_chunk_cb, which streams the     *)
(* chunk whose turn it is, buffers the others, and arms regenerations that  *)
(* the poll loop resubmits; a disconnect cancels what was submitted.        *)
(*                                                                          *)
(* Two threads.  Each atomic the poll loop reads (finished, retry,          *)
(* in_flight, first_audio) is read in a step of its own, and the callback   *)
(* is cut where it writes one.  Audio is a sequence of pieces, named by the *)
(* chunk, the scheduler request that made it, and its number in that take.  *)
(* The scheduler is what http.c uses of it: requests start in order, their  *)
(* callbacks never overlap, and cancel misses a request in start_request.   *)
EXTENDS Integers, Sequences, FiniteSets

CONSTANTS
  N,         \* c->n_chunks
  Parallel,  \* c->parallel
  Retries,   \* GUARD_RETRIES
  Cap,       \* cap_samples of every chunk, in pieces
  MinPieces, \* GUARD_EMPTY_S, in pieces: a shorter take counts as empty
  Guarded,   \* the chunks whose text has GUARD_EMPTY_MIN_BYTES
  Empties,   \* the chunks whose takes may end early, or fail
  Overruns,  \* the chunks whose takes may overrun the cap
  MaxReq,    \* bound on the scheduler requests of this connection
  MaxFull,   \* bound on how often the scheduler's queue is found full
  Faults     \* a subset of FaultKinds

(* full, retryfull: the scheduler's queue is full for the next chunk, for a   *)
(* regeneration; submit: submit fails otherwise; send: the socket fails;    *)
(* oom: an allocation of the buffers behind the callback fails.             *)
FaultKinds == {"full", "retryfull", "submit", "send", "oom"}

ASSUME ChainConstants ==
  /\ N \in Nat /\ N > 1 /\ Parallel \in Nat \ {0} /\ Retries \in Nat
  /\ MinPieces \in Nat \ {0} /\ Cap \in Nat /\ Cap >= MinPieces
  /\ Guarded \cup Empties \cup Overruns \subseteq 0 .. N - 1
  /\ MaxReq \in Nat \ {0} /\ MaxFull \in Nat
  /\ Faults \subseteq FaultKinds

Chunk == 0 .. N - 1
ReqId == 1 .. MaxReq
NoReq == 0

VARIABLES
  st,          \* c->st: "route" until route_tts returns, "streaming", "free"
  nextSubmit,  \* c->next_submit
  emit,        \* c->emit_chunk
  inFlight,    \* c->in_flight
  firstAudio,  \* c->first_audio
  finished,    \* c->finished
  retry,       \* the chunks whose slot's retry flag is set
  done,        \* the chunks whose slot's done flag is set
  retries,     \* retries[k]: regenerations left
  reqId,       \* reqId[k]: slots[k].req_id, NoReq while not submitted
  pend,        \* pend[k]: slots[k].pend
  samples,     \* samples[k]: slots[k].samples
  wire,        \* the audio the response carries, in order
  broken,      \* a write of the response failed
  buffered,    \* c->buffered: "stream": false
  ofChunk,     \* ofChunk[r]: the chunk of scheduler request r
  rst,         \* rst[r]: "none", "queued", "starting", "active" or "over"
  made,        \* made[r]: the pieces request r has produced
  cancelled,   \* the requests whose cancel found them
  missed,      \* the requests still alive that a reset of c left uncancelled
  wpc,         \* the worker: where it is in the callback
  wreq,        \* the request it serves
  wn, wfinal,  \* the callback's arguments: a piece or not; final
  wcut, wrc,   \* cut, and the callback's return value
  ppc,         \* the poll loop's program counter
  cur,         \* the slot its loop has come to
  fulls        \* how often the scheduler's queue was found full

conn == <<st, nextSubmit, finished>>
counts == <<inFlight, firstAudio>>
slots == <<retry, done, retries, pend, samples>>
out == <<emit, wire, broken, buffered>>
sched == <<ofChunk, rst, made, cancelled>>
worker == <<wpc, wreq, wn, wfinal, wcut, wrc>>
poll == <<ppc, cur, fulls>>
vars == <<conn, counts, slots, reqId, out, sched, missed, worker, poll>>

Piece == Chunk \X ReqId \X Nat
InCallback == {"audio", "close", "retry", "advance"}

ConnType ==
  /\ st \in {"route", "streaming", "free"} /\ finished \in BOOLEAN
  /\ nextSubmit \in 0 .. N /\ inFlight \in Int /\ firstAudio \in BOOLEAN

SlotsType ==
  /\ retry \subseteq Chunk /\ done \subseteq Chunk
  /\ retries \in [Chunk -> 0 .. Retries]
  /\ reqId \in [Chunk -> ReqId \cup {NoReq}]
  /\ pend \in [Chunk -> Seq(Piece)] /\ samples \in [Chunk -> 0 .. Cap]

OutType ==
  /\ emit \in Chunk /\ wire \in Seq(Piece)
  /\ broken \in BOOLEAN /\ buffered \in BOOLEAN

SchedType ==
  /\ ofChunk \in [ReqId -> Chunk]
  /\ rst \in [ReqId -> {"none", "queued", "starting", "active", "over"}]
  /\ made \in [ReqId -> 0 .. Cap + 1]
  /\ cancelled \subseteq ReqId /\ missed \subseteq ReqId

WorkerType ==
  /\ wpc \in {"idle", "start", "end"} \cup InCallback
  /\ wreq \in ReqId \cup {NoReq}
  /\ wn \in {0, 1} /\ wfinal \in BOOLEAN /\ wcut \in BOOLEAN /\ wrc \in {0, 1}

PollType ==
  /\ ppc \in {"poll", "retry", "window", "cancel", "wait"}
  /\ cur \in 0 .. N /\ fulls \in 0 .. MaxFull

TypeOK == ConnType /\ SlotsType /\ OutType /\ SchedType /\ WorkerType /\ PollType

(* route_tts has built the chain and is about to submit its first chunks. *)
Init ==
  /\ st = "route" /\ nextSubmit = 0 /\ finished = FALSE
  /\ inFlight = 0 /\ firstAudio = FALSE
  /\ retry = {} /\ done = {} /\ retries = [k \in Chunk |-> Retries]
  /\ reqId = [k \in Chunk |-> NoReq]
  /\ pend = [k \in Chunk |-> <<>>] /\ samples = [k \in Chunk |-> 0]
  /\ emit = 0 /\ wire = <<>> /\ broken = FALSE /\ buffered \in BOOLEAN
  /\ ofChunk = [r \in ReqId |-> 0] /\ rst = [r \in ReqId |-> "none"]
  /\ made = [r \in ReqId |-> 0] /\ cancelled = {} /\ missed = {}
  /\ wpc = "idle" /\ wreq = NoReq /\ wn = 0 /\ wfinal = FALSE
  /\ wcut = FALSE /\ wrc = 0
  /\ ppc = "retry" /\ cur = 0 /\ fulls = 0

Fault(kind) == kind \in Faults
Alive == {r \in ReqId : rst[r] \in {"queued", "starting", "active"}}

-----------------------------------------------------------------------------
(* The poll loop.                                                           *)

(* The scheduler numbers its requests in the order it accepts them. *)
NextReq(r) == rst[r] = "none" /\ \A q \in ReqId : rst[q] = "none" => r <= q

(* s2p_sched_submit accepts chunk k: submit_chunk clears retry, counts the  *)
(* request, remembers its id and moves next_submit behind k.                *)
Accepted(k) ==
  /\ \E r \in ReqId :
       /\ NextReq(r)
       /\ rst' = [rst EXCEPT ![r] = "queued"]
       /\ ofChunk' = [ofChunk EXCEPT ![r] = k]
       /\ reqId' = [reqId EXCEPT ![k] = r]
  /\ retry' = retry \ {k}
  /\ inFlight' = inFlight + 1
  /\ nextSubmit' = k + 1
  /\ UNCHANGED <<fulls, made, cancelled>>

(* It does not: only the retry flag stays cleared. *)
Refused(k, why) ==
  /\ Fault(why)
  /\ retry' = retry \ {k}
  /\ IF why \in {"full", "retryfull"} THEN fulls < MaxFull /\ fulls' = fulls + 1 ELSE UNCHANGED fulls
  /\ UNCHANGED <<rst, ofChunk, reqId, inFlight, nextSubmit, made, cancelled>>

(* chain_submit_ready returned S2P_OK: route_tts goes to C_STREAMING, the   *)
(* poll loop to poll().                                                     *)
SubmitReady == st' = "streaming" /\ ppc' = "poll" /\ cur' = 0 /\ UNCHANGED missed

(* It failed: route_tts resets the connection; the poll loop cancels first. *)
SubmitFailed ==
  \/ /\ st = "route"
     /\ st' = "free" /\ ppc' = "poll" /\ cur' = 0
     /\ missed' = missed \cup Alive
  \/ /\ st = "streaming"
     /\ ppc' = "cancel" /\ cur' = 0
     /\ UNCHANGED <<st, missed>>

(* The first loop of chain_submit_ready: one retry flag. *)
RetryScan ==
  /\ ppc = "retry"
  /\ \/ /\ cur = N
        /\ ppc' = "window" /\ cur' = 0
        /\ UNCHANGED <<st, missed, retry, rst, ofChunk, reqId, inFlight, nextSubmit,
                       made, cancelled, fulls>>
     \/ /\ cur < N /\ cur \notin retry
        /\ cur' = cur + 1
        /\ UNCHANGED <<ppc, st, missed, retry, rst, ofChunk, reqId, inFlight,
                       nextSubmit, made, cancelled, fulls>>
     \/ /\ cur \in retry /\ Accepted(cur)
        /\ cur' = cur + 1
        /\ UNCHANGED <<ppc, st, missed>>
     \/ cur \in retry /\ Refused(cur, "retryfull") /\ SubmitReady
     \/ cur \in retry /\ Refused(cur, "submit") /\ SubmitFailed
  /\ UNCHANGED <<finished, firstAudio, done, retries, pend, samples, out, worker>>

(* Faulty variant: the window is not tested. *)
MayGenerate_NoWindow ==
  /\ nextSubmit < N
  /\ nextSubmit = 0 \/ Parallel = 1 \/ firstAudio

(* The second loop: the next chunk, if the window and the first chunk's     *)
(* first audio allow it.                                                    *)
MayGenerate ==
  /\ nextSubmit < N /\ inFlight < Parallel
  /\ nextSubmit = 0 \/ Parallel = 1 \/ firstAudio

SubmitWindow ==
  /\ ppc = "window"
  /\ \/ /\ ~MayGenerate
        /\ SubmitReady
        /\ UNCHANGED <<retry, rst, ofChunk, reqId, inFlight, nextSubmit, made,
                       cancelled, fulls>>
     \/ /\ MayGenerate /\ Accepted(nextSubmit)
        /\ UNCHANGED <<ppc, cur, st, missed>>
     \/ MayGenerate /\ nextSubmit > 0 /\ Refused(nextSubmit, "full") /\ SubmitReady
     \/ MayGenerate /\ nextSubmit = 0 /\ Refused(nextSubmit, "full") /\ SubmitFailed
     \/ MayGenerate /\ Refused(nextSubmit, "submit") /\ SubmitFailed
  /\ UNCHANGED <<finished, firstAudio, done, retries, pend, samples, out, worker>>

(* One turn of s2p_server_run for this connection: a finished one is reset  *)
(* without a cancel, else the chain is looked after if there is a reason.   *)
PollTurn ==
  /\ st = "streaming" /\ ppc = "poll"
  /\ \/ /\ finished
        /\ st' = "free"
        /\ missed' = IF broken THEN missed \cup Alive ELSE missed
        /\ UNCHANGED <<ppc, cur>>
     \/ /\ ~finished
        /\ nextSubmit < N \/ retry # {}
        /\ ppc' = "retry" /\ cur' = 0
        /\ UNCHANGED <<st, missed>>
  /\ UNCHANGED <<nextSubmit, finished, counts, slots, reqId, out, sched, worker, fulls>>

(* recv() says the client is gone, or the server shuts down. *)
Hangup ==
  /\ st = "streaming" /\ ppc = "poll"
  /\ ppc' = "cancel" /\ cur' = 0
  /\ UNCHANGED <<conn, counts, slots, reqId, out, sched, missed, worker, fulls>>

Serving(r) == wreq = r /\ wpc \in InCallback \cup {"end"}

(* Faulty variant: cancel of a running callback returns at once. *)
CancelChunk_NoWait ==
  /\ ppc = "cancel" /\ cur < N
  /\ LET r == reqId[cur] IN
       /\ cur' = cur + 1
       /\ cancelled' = IF r # NoReq /\ r \in Alive THEN cancelled \cup {r} ELSE cancelled
  /\ UNCHANGED <<ppc, conn, counts, slots, reqId, out, ofChunk, rst, made, missed,
                 worker, fulls>>

(* conn_cancel_all: cancel marks a queued or an active request and waits    *)
(* out its callback; one in start_request it does not find.                 *)
CancelChunk ==
  /\ ppc = "cancel" /\ cur < N
  /\ \/ /\ reqId[cur] = NoReq \/ reqId[cur] \notin Alive
        /\ cur' = cur + 1
        /\ UNCHANGED <<ppc, cancelled, missed>>
     \/ /\ reqId[cur] # NoReq /\ rst[reqId[cur]] = "starting"
        /\ missed' = missed \cup {reqId[cur]}
        /\ cur' = cur + 1
        /\ UNCHANGED <<ppc, cancelled>>
     \/ /\ reqId[cur] # NoReq /\ rst[reqId[cur]] \in {"queued", "active"}
        /\ cancelled' = cancelled \cup {reqId[cur]}
        /\ IF Serving(reqId[cur]) THEN ppc' = "wait" /\ UNCHANGED cur
                                  ELSE cur' = cur + 1 /\ UNCHANGED ppc
        /\ UNCHANGED missed
  /\ UNCHANGED <<conn, counts, slots, reqId, out, ofChunk, rst, made, worker, fulls>>

CancelWaited ==
  /\ ppc = "wait" /\ ~Serving(reqId[cur])
  /\ ppc' = "cancel" /\ cur' = cur + 1
  /\ UNCHANGED <<conn, counts, slots, reqId, out, sched, missed, worker, fulls>>

(* The error response, if any, and conn_reset. *)
CancelDone ==
  /\ ppc = "cancel" /\ cur = N
  /\ st' = "free" /\ ppc' = "poll" /\ cur' = 0
  /\ UNCHANGED <<nextSubmit, finished, counts, slots, reqId, out, sched, missed,
                 worker, fulls>>

-----------------------------------------------------------------------------
(* The scheduler's worker between callbacks.                                *)

(* Requests leave the ring in order; a cancelled one is freed. *)
Pop(r) ==
  /\ wpc = "idle" /\ rst[r] = "queued" /\ \A q \in ReqId : rst[q] = "queued" => r <= q
  /\ IF r \in cancelled
       THEN rst' = [rst EXCEPT ![r] = "over"] /\ UNCHANGED <<wpc, wreq>>
       ELSE /\ rst' = [rst EXCEPT ![r] = "starting"]
            /\ wpc' = "start" /\ wreq' = r
  /\ UNCHANGED <<conn, counts, slots, reqId, out, ofChunk, made, cancelled, missed,
                 wn, wfinal, wcut, wrc, poll>>

Call(r, n, final) ==
  /\ wpc' = "audio" /\ wreq' = r /\ wn' = n /\ wfinal' = final
  /\ wcut' = FALSE /\ wrc' = 0
  /\ made' = [made EXCEPT ![r] = @ + n]

(* start_request: the session is active, or a final callback says it is not. *)
StartRequest ==
  /\ wpc = "start"
  /\ \/ /\ rst' = [rst EXCEPT ![wreq] = "active"]
        /\ wpc' = "idle" /\ wreq' = NoReq
        /\ UNCHANGED <<made, wn, wfinal, wcut, wrc>>
     \/ /\ ofChunk[wreq] \in Empties
        /\ Call(wreq, 0, TRUE)
        /\ UNCHANGED rst
  /\ UNCHANGED <<conn, counts, slots, reqId, out, ofChunk, cancelled, missed, poll>>

(* A session delivers a piece, or its final callback with or without one; a *)
(* cancelled session is retired instead.                                    *)
Deliver(r, n, final) ==
  /\ wpc = "idle" /\ rst[r] = "active" /\ r \notin cancelled
  /\ n = 1 \/ final
  /\ made[r] + n <= IF ofChunk[r] \in Overruns THEN Cap + 1 ELSE Cap
  /\ final /\ ofChunk[r] \notin Empties => made[r] + n >= MinPieces
  /\ Call(r, n, final)
  /\ UNCHANGED <<conn, counts, slots, reqId, out, ofChunk, rst, cancelled, missed, poll>>

Retire(r) ==
  /\ wpc = "idle" /\ rst[r] = "active" /\ r \in cancelled
  /\ rst' = [rst EXCEPT ![r] = "over"]
  /\ UNCHANGED <<conn, counts, slots, reqId, out, ofChunk, made, cancelled, missed,
                 worker, poll>>

-----------------------------------------------------------------------------
(* tts_chunk_cb, on the worker's thread, while the connection is not reset. *)

Mine == ofChunk[wreq]          \* sl->idx
Live == Mine = emit
Over == wn = 1 /\ samples[Mine] = Cap

(* conn_emit of some pieces: a failed write loses them and all that follow. *)
Sent(pieces) ==
  /\ wire' = IF broken THEN wire ELSE wire \o pieces
  /\ UNCHANGED broken
SendFails ==
  /\ broken' = TRUE
  /\ UNCHANGED wire
  /\ \/ ~buffered /\ Fault("send") /\ UNCHANGED finished
     \/ buffered /\ Fault("oom") /\ finished' = TRUE  \* answered 500

(* Faulty variant: the audio of the take that failed stays in the slot. *)
Regenerate_KeepPend(rc) ==
  /\ samples' = [samples EXCEPT ![Mine] = 0]
  /\ retries' = [retries EXCEPT ![Mine] = @ - 1]
  /\ inFlight' = inFlight - 1
  /\ wpc' = "retry" /\ wrc' = rc
  /\ UNCHANGED <<retry, done, pend>>

(* chunk_regenerate up to the decrement of in_flight; SetRetry is its last  *)
(* line.                                                                    *)
Regenerate(rc) ==
  /\ pend' = [pend EXCEPT ![Mine] = <<>>]
  /\ samples' = [samples EXCEPT ![Mine] = 0]
  /\ retries' = [retries EXCEPT ![Mine] = @ - 1]
  /\ inFlight' = inFlight - 1
  /\ wpc' = "retry" /\ wrc' = rc
  /\ UNCHANGED <<retry, done>>

(* Faulty variant: regenerated without end. *)
CutOrRetry_Always == IF ~Live THEN "retry" ELSE "cut"

(* What becomes of a take that overruns its cap. *)
CutOrRetry == IF ~Live /\ retries[Mine] > 0 THEN "retry" ELSE "cut"

CbOverrun ==
  /\ wpc = "audio" /\ st # "free" /\ Over /\ CutOrRetry = "retry"
  /\ Regenerate(1)
  /\ UNCHANGED <<conn, firstAudio, reqId, out, sched, missed, wreq, wn, wfinal, wcut, poll>>

(* The audio of the callback: to the wire if live, else to the slot. *)
CbAudio ==
  /\ wpc = "audio" /\ st # "free" /\ ~(Over /\ CutOrRetry = "retry")
  /\ wcut' = Over
  /\ \/ /\ wn = 0 \/ Over
        /\ wpc' = "close"
        /\ UNCHANGED <<firstAudio, pend, samples, wire, broken, finished, wrc>>
     \/ /\ wn = 1 /\ ~Over
        /\ firstAudio' = (firstAudio \/ Mine = 0)
        /\ \/ /\ Live /\ Sent(<< <<Mine, wreq, made[wreq]>> >>)
              /\ samples' = [samples EXCEPT ![Mine] = @ + 1]
              /\ wpc' = IF wfinal THEN "close" ELSE "end"
              /\ UNCHANGED <<pend, finished, wrc>>
           \/ /\ ~Live
              /\ pend' = [pend EXCEPT ![Mine] = Append(@, <<Mine, wreq, made[wreq]>>)]
              /\ samples' = [samples EXCEPT ![Mine] = @ + 1]
              /\ wpc' = IF wfinal THEN "close" ELSE "end"
              /\ UNCHANGED <<wire, broken, finished, wrc>>
           \/ /\ Live /\ SendFails
              /\ wpc' = "end" /\ wrc' = 1
              /\ UNCHANGED <<pend, samples>>
           \/ /\ ~Live /\ Fault("oom")
              /\ wpc' = "end" /\ wrc' = 1
              /\ UNCHANGED <<pend, samples, wire, broken, finished>>
  /\ UNCHANGED <<st, nextSubmit, inFlight, retry, done, retries, reqId, emit, buffered,
                 sched, missed, wreq, wn, wfinal, poll>>

(* Faulty variant: a live chunk of which the listener heard a bit counts too. *)
CameBackEmpty_Heard ==
  /\ wfinal /\ ~wcut /\ retries[Mine] > 0
  /\ samples[Mine] < MinPieces /\ Mine \in Guarded

(* Too little audio came out of a chunk that has text. *)
CameBackEmpty ==
  /\ wfinal /\ ~wcut /\ retries[Mine] > 0
  /\ samples[Mine] < MinPieces /\ Mine \in Guarded
  /\ ~Live \/ samples[Mine] = 0

(* Faulty variant: the window is not opened for the next chunk. *)
CbClose_NoCount ==
  /\ wpc = "close" /\ st # "free"
  /\ \/ CameBackEmpty /\ Regenerate(0)
     \/ /\ ~CameBackEmpty
        /\ done' = done \cup {Mine}
        /\ wpc' = IF Live THEN "advance" ELSE "end"
        /\ wrc' = IF wcut THEN 1 ELSE 0
        /\ UNCHANGED <<inFlight, retry, retries, pend, samples>>
  /\ UNCHANGED <<conn, firstAudio, reqId, out, sched, missed, wreq, wn, wfinal, wcut, poll>>

(* The end of a take: regenerate it, or mark the chunk done and, if it was  *)
(* live, hand the wire on.                                                  *)
CbClose ==
  /\ wpc = "close" /\ st # "free"
  /\ \/ CameBackEmpty /\ Regenerate(0)
     \/ /\ ~CameBackEmpty
        /\ done' = done \cup {Mine}
        /\ inFlight' = inFlight - 1
        /\ wpc' = IF Live THEN "advance" ELSE "end"
        /\ wrc' = IF wcut THEN 1 ELSE 0
        /\ UNCHANGED <<retry, retries, pend, samples>>
  /\ UNCHANGED <<conn, firstAudio, reqId, out, sched, missed, wreq, wn, wfinal, wcut, poll>>

SetRetry ==
  /\ wpc = "retry" /\ st # "free"
  /\ retry' = retry \cup {Mine}
  /\ wpc' = "end"
  /\ UNCHANGED <<conn, counts, done, retries, pend, samples, reqId, out, sched, missed,
                 wreq, wn, wfinal, wcut, wrc, poll>>

(* Faulty variant: the audio of a chunk that is already done is passed over. *)
Flush_Live(k) == IF k \in done THEN <<>> ELSE pend[k]

(* What a chunk has buffered goes out when its turn comes. *)
Flush(k) == pend[k]

(* Faulty variant: off by one. *)
LastTurn_Early == emit + 2 >= N

LastTurn == emit + 1 >= N

(* One turn of the loop in chain_advance: behind the last chunk the response *)
(* is closed, else the wire goes to the next chunk, and on to the one behind *)
(* it if that is done too.  Only the worker reads emit_chunk.               *)
CbAdvance ==
  /\ wpc = "advance" /\ st # "free"
  /\ \/ /\ LastTurn
        /\ finished' = TRUE /\ wpc' = "end"
        /\ UNCHANGED <<emit, pend, wire, broken, wrc>>
     \/ /\ ~LastTurn /\ Sent(Flush(emit + 1))
        /\ emit' = emit + 1
        /\ pend' = [pend EXCEPT ![emit + 1] = <<>>]
        /\ wpc' = IF emit + 1 \in done THEN "advance" ELSE "end"
        /\ UNCHANGED <<finished, wrc>>
     \/ /\ SendFails
        /\ emit' \in {emit, emit + 1} \cap Chunk
        /\ wpc' = "end" /\ wrc' = 1
        /\ UNCHANGED pend
  /\ UNCHANGED <<st, nextSubmit, counts, retry, done, retries, samples, reqId, buffered,
                 sched, missed, wreq, wn, wfinal, wcut, poll>>

(* The connection is gone under the callback: undefined from here on, and   *)
(* the model ends the callback without a further effect.                    *)
CbGone ==
  /\ wpc \in InCallback /\ st = "free"
  /\ wpc' = "end" /\ wrc' = 1
  /\ UNCHANGED <<conn, counts, slots, reqId, out, sched, missed, wreq, wn, wfinal,
                 wcut, poll>>

(* Back in deliver(): the stream goes on only after a callback that was not *)
(* final, returned zero and was not cancelled.                              *)
CbReturn ==
  /\ wpc = "end"
  /\ wpc' = "idle" /\ wreq' = NoReq
  /\ rst' = IF wfinal \/ wrc # 0 THEN [rst EXCEPT ![wreq] = "over"] ELSE rst
  /\ UNCHANGED <<conn, counts, slots, reqId, out, ofChunk, made, cancelled, missed,
                 wn, wfinal, wcut, wrc, poll>>

-----------------------------------------------------------------------------
PollLoop == RetryScan \/ SubmitWindow \/ PollTurn \/ CancelChunk \/ CancelWaited \/ CancelDone

WorkerStep ==
  \/ \E r \in ReqId : Pop(r) \/ Retire(r)
  \/ \E r \in ReqId, n \in {0, 1}, final \in BOOLEAN : Deliver(r, n, final)
  \/ StartRequest
  \/ CbOverrun \/ CbAudio \/ CbClose \/ SetRetry \/ CbAdvance \/ CbGone \/ CbReturn

Next == PollLoop \/ Hangup \/ WorkerStep

(* The poll loop wakes at least every 200 ms and the worker keeps serving   *)
(* its sessions; nothing obliges a client to leave.                         *)
Fairness == WF_vars(PollLoop) /\ WF_vars(WorkerStep)

Spec == Init /\ [][Next]_vars /\ Fairness

-----------------------------------------------------------------------------
(* Properties.                                                              *)

(* What the listener may hear next: more of the same take, or a later chunk *)
(* from its beginning.                                                      *)
Follows(p, q) ==
  \/ q[1] = p[1] /\ q[2] = p[2] /\ q[3] = p[3] + 1
  \/ q[1] > p[1] /\ q[3] = 1

(* docs/API.md: wire order is unchanged by the parallel chunks.  The audio  *)
(* of the response is in the order of the chunks, and that of each chunk is *)
(* one take from its beginning, without a gap, whichever chunk was          *)
(* generated first, regenerated, or cut.                                    *)
WireInOrder ==
  /\ wire # <<>> => wire[1][3] = 1
  /\ \A i \in 1 .. Len(wire) - 1 : Follows(wire[i], wire[i + 1])

(* Where chunk k is on the wire. *)
Heard(k) == {i \in DOMAIN wire : wire[i][1] = k}

(* Nothing is lost or played twice between the slots and the wire: what the *)
(* callback counted for a chunk is on the wire if it had its turn, and in   *)
(* its slot if it has not.                                                  *)
Accounted ==
  ~broken => \A k \in Chunk :
    IF k <= emit THEN Cardinality(Heard(k)) = samples[k] /\ pend[k] = <<>>
                 ELSE Len(pend[k]) = samples[k] /\ Heard(k) = {}

(* A take the listener heard any of is never thrown away for another. *)
RegeneratedUnheard ==
  \A k \in Chunk : k \in retry \/ (wpc = "retry" /\ Mine = k) => Heard(k) = {}

(* The callback that ends request r is past its decrement of in_flight. *)
Ending(r) == wreq = r /\ wpc \in {"retry", "advance", "end"} /\ (wfinal \/ wrc # 0)

(* The requests still generating audio. *)
Generating == {r \in Alive : ~Ending(r)}

(* Up to chunk_parallel chunks of a request are generated at once. *)
WindowKept == Cardinality(Generating) <= Parallel

(* Only the poll loop resets a connection, and only when no callback can    *)
(* touch it: cancel waits a running one out.  The requests in missed are    *)
(* the ones conn_reset leaves behind: those cancel found in neither list    *)
(* because start_request held them, and those nobody cancelled because      *)
(* route_tts failed or a buffered response ran out of memory.               *)
ConnAlive == wpc \in InCallback /\ st = "free" => wreq \in missed

(* The finished flag is the last touch of the connection by the worker: all *)
(* chunks are done then, and no request of it is left to call back.         *)
FinishIsLast ==
  finished /\ ~broken => done = Chunk /\ \A r \in Alive : wreq = r /\ wpc = "end"

(* The connection of a long-form request comes to an end. *)
ChainEnds == <>(st = "free")
-----------------------------------------------------------------------------
(* The inductive invariant behind the properties.                           *)

(* A chunk to be regenerated is the last one submitted.  What follows rests *)
(* on it; the code does not see to it: submit_chunk moves next_submit back  *)
(* behind any chunk that is submitted again.                                *)
RegenIsNewest ==
  \A k \in Chunk : k \in retry \/ (wpc = "retry" /\ Mine = k) => nextSubmit = k + 1

(* What the worker serves at each program counter. *)
WorkerPlace ==
  /\ wpc = "idle" <=> wreq = NoReq
  /\ wpc = "start" => rst[wreq] = "starting"
  /\ wpc \in InCallback \cup {"end"} => rst[wreq] \in {"starting", "active"}
  /\ \A r \in ReqId : rst[r] = "starting" =>
       r \notin cancelled /\ wreq = r /\ (wpc = "start" \/ wfinal)
  /\ wpc = "audio" => (wn = 1 \/ wfinal) /\ wrc = 0 /\ ~wcut
  /\ wpc = "close" => (wfinal \/ wcut) /\ wrc = 0
  /\ wpc \in {"retry", "advance"} => wfinal \/ wrc = 1

(* Where the poll loop is, in the life of the connection. *)
PollPlace ==
  /\ st = "free" => ppc = "poll"
  /\ st = "route" => ppc \in {"retry", "window"}
  /\ ppc = "wait" => cur < N /\ reqId[cur] \in cancelled

(* A slot knows the request that generates its chunk, and nothing generates *)
(* a chunk that is done or waits to be submitted again.                     *)
SlotsOwn ==
  /\ \A k \in Chunk : reqId[k] # NoReq => ofChunk[reqId[k]] = k /\ rst[reqId[k]] # "none"
  /\ \A k \in Chunk : k >= nextSubmit => reqId[k] = NoReq
  /\ \A k \in Chunk : reqId[k] = NoReq => k \notin retry \cup done /\ samples[k] = 0
  /\ \A r \in Generating : reqId[ofChunk[r]] = r /\ ofChunk[r] \notin retry \cup done
  /\ \A r \in Alive : r \in Generating \/ wpc = "end" \/ reqId[ofChunk[r]] = r
  /\ \A k \in retry : k \notin done /\ samples[k] = 0
  /\ wpc = "retry" => Mine \notin retry \cup done /\ samples[Mine] = 0

(* in_flight counts the requests that generate, and leaves room for the     *)
(* regeneration that waits.                                                 *)
Counted ==
  /\ Cardinality(Generating) <= inFlight /\ inFlight <= Parallel
  /\ retry # {} \/ wpc = "retry" => inFlight < Parallel

(* The wire has passed the chunks that are done. *)
EmitPlace ==
  /\ \A k \in Chunk : k < emit => k \in done
  /\ wpc = "advance" => emit \in done /\ Mine \in done

(* samples counts the pieces of the current take. *)
TakeCounted ==
  /\ \A r \in ReqId : rst[r] \in {"none", "queued"} => made[r] = 0
  /\ wpc = "start" => made[wreq] = 0
  /\ \A r \in Generating :
       \/ wreq = r /\ wpc = "close" /\ wcut
       \/ made[r] = samples[ofChunk[r]] + (IF wreq = r /\ wpc = "audio" THEN wn ELSE 0)

(* A chunk whose turn has not come has its take, so far, in the slot. *)
Buffered ==
  \A k \in Chunk : k > emit =>
    /\ Len(pend[k]) = samples[k]
    /\ \A i \in DOMAIN pend[k] : pend[k][i] = <<k, reqId[k], i>>

(* The wire ends where the take of the live chunk is. *)
WireTail ==
  /\ \A i \in DOMAIN wire : wire[i][1] <= emit
  /\ \A k \in Chunk : samples[k] = 0 => Heard(k) = {}
  /\ ~broken /\ samples[emit] > 0 =>
       wire # <<>> /\ wire[Len(wire)] = <<emit, reqId[emit], samples[emit]>>

(* A request that can no longer call back. *)
Silenced(r) == r \in missed \/ (r \in cancelled /\ ~(wreq = r /\ wpc \in InCallback))

(* conn_cancel_all silences the requests of the slots it has passed, and a  *)
(* reset connection has no other.                                           *)
Swept ==
  /\ ppc \in {"cancel", "wait"} =>
       \A k \in Chunk : k < cur /\ reqId[k] \in Alive => Silenced(reqId[k])
  /\ st = "free" => \A r \in Alive : Silenced(r) \/ (wpc = "end" /\ Ending(r))

(* After the last touch no request is left but the one that made it. *)
FinishPlace ==
  finished /\ ~broken => done = Chunk /\ wpc # "advance"

IInv ==
  /\ TypeOK /\ WorkerPlace /\ PollPlace /\ SlotsOwn /\ Counted /\ EmitPlace
  /\ TakeCounted /\ Buffered /\ WireTail /\ WireInOrder /\ Accounted
  /\ Swept /\ FinishPlace

(* Texts of which only the first and the last chunk can be generated again: *)
(* the first before its first audio, when the others wait for it unless     *)
(* chunks are generated one at a time; the last when no chunk is behind it. *)
EndsOnly ==
  /\ Overruns \subseteq {0, N - 1}
  /\ Guarded \subseteq IF Parallel > 1 THEN {0, N - 1} ELSE {N - 1}

(* How such a text keeps RegenIsNewest. *)
EndsAreNewest ==
  /\ \A r \in ReqId : made[r] > Cap => ofChunk[r] \in Overruns
  /\ Parallel > 1 /\ ~firstAudio => nextSubmit <= 1
  /\ firstAudio => nextSubmit > 0
  /\ firstAudio => \A r \in Generating : ofChunk[r] = 0 => samples[0] > 0
  /\ \A k \in Chunk : k \in retry \/ (wpc = "retry" /\ Mine = k) =>
       /\ nextSubmit > k
       /\ k = N - 1 \/ (k = 0 /\ Parallel > 1 /\ ~firstAudio)
=============================================================================
