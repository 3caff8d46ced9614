-------------------------- MODULE ChunkChainProofs --------------------------
(* Proofs about the long-form chunk chain, for every number of chunks,      *)
(* every window, cap and number of regenerations, and every set of faults.  *)
(* TypeOK holds of every run.  The other properties rest on the inductive   *)
(* invariant IInv of ChunkChain, which the poll loop keeps as long as it    *)
(* submits again no chunk but the newest (RegenIsNewest): submit_chunk      *)
(* moves next_submit back otherwise.  One lemma an action, then the steps   *)
(* together; the last part shows for which texts RegenIsNewest holds.       *)
EXTENDS ChunkChain, FiniteSetTheorems, TLAPS

-----------------------------------------------------------------------------
(* Types.                                                                   *)

(* What the types need of the program counters: whose request is served,    *)
(* and that conn_cancel_all waits at a slot it has.                         *)
Place ==
  /\ wpc = "idle" <=> wreq = NoReq
  /\ ppc = "wait" => cur < N
Types == TypeOK /\ Place

(* What route_tts has set up is well-typed. *)
LEMMA InitTypes == Init => Types
<1> SUFFICES ASSUME Init PROVE Types
  OBVIOUS
<1> USE ChainConstants DEF Init, Chunk, ReqId, NoReq
<1>1. ConnType
  <2>1. st \in {"route", "streaming", "free"} /\ nextSubmit \in 0 .. N /\ inFlight \in Int
    OBVIOUS
  <2>2. finished \in BOOLEAN /\ firstAudio \in BOOLEAN
    OBVIOUS
  <2> QED BY <2>1, <2>2 DEF ConnType
<1>2. SlotsType
  BY DEF SlotsType
<1>3. OutType
  <2>1. emit \in Chunk /\ wire \in Seq(Piece)
    OBVIOUS
  <2>2. broken \in BOOLEAN /\ buffered \in BOOLEAN
    OBVIOUS
  <2> QED BY <2>1, <2>2 DEF OutType
<1>4. SchedType
  BY DEF SchedType
<1>5. WorkerType
  BY DEF WorkerType
<1>6. PollType
  BY DEF PollType
<1>7. Place
  BY DEF Place
<1> QED BY <1>1, <1>2, <1>3, <1>4, <1>5, <1>6, <1>7 DEF Types, TypeOK

(* What a submission does, whether the scheduler takes the chunk or not. *)
LEMMA AcceptedTypes ==
  ASSUME Types, NEW k \in Chunk, Accepted(k)
  PROVE  /\ nextSubmit' \in 0 .. N /\ inFlight' \in Int
         /\ retry' \subseteq Chunk /\ reqId' \in [Chunk -> ReqId \cup {NoReq}]
         /\ ofChunk' \in [ReqId -> Chunk]
         /\ rst' \in [ReqId -> {"none", "queued", "starting", "active", "over"}]
         /\ UNCHANGED <<fulls, made, cancelled>>
<1> USE ChainConstants DEF Types, TypeOK, Accepted
<1>1. nextSubmit' \in 0 .. N /\ inFlight' \in Int
  BY DEF ConnType, Chunk
<1>2. retry' \subseteq Chunk
  BY DEF SlotsType
<1>3. PICK r \in ReqId : /\ rst' = [rst EXCEPT ![r] = "queued"]
                        /\ ofChunk' = [ofChunk EXCEPT ![r] = k]
                        /\ reqId' = [reqId EXCEPT ![k] = r]
  OBVIOUS
<1>4. reqId' \in [Chunk -> ReqId \cup {NoReq}]
  BY <1>3 DEF SlotsType
<1>5. ofChunk' \in [ReqId -> Chunk]
  BY <1>3 DEF SchedType
<1>6. rst' \in [ReqId -> {"none", "queued", "starting", "active", "over"}]
  BY <1>3 DEF SchedType
<1> QED BY <1>1, <1>2, <1>4, <1>5, <1>6

(* A refusal clears the retry flag only. *)
LEMMA RefusedTypes ==
  ASSUME Types, NEW k \in Chunk, NEW why, Refused(k, why)
  PROVE  /\ retry' \subseteq Chunk /\ fulls' \in 0 .. MaxFull
         /\ UNCHANGED <<rst, ofChunk, reqId, inFlight, nextSubmit, made, cancelled>>
BY ChainConstants DEF Types, TypeOK, SlotsType, PollType, Refused

(* chain_submit_ready returns, to the poll loop or to a reset. *)
LEMMA SubmitEnds ==
  ASSUME Types, SubmitReady \/ SubmitFailed
  PROVE  /\ st' \in {"route", "streaming", "free"} /\ ppc' \in {"poll", "cancel"}
         /\ cur' \in 0 .. N /\ missed' \subseteq ReqId
BY ChainConstants DEF Types, TypeOK, ConnType, SchedType, SubmitReady, SubmitFailed, Alive

(* The steps of the poll loop, one by one. *)
LEMMA TypesRetryScan ==
  ASSUME Types, RetryScan
  PROVE  Types'
<1> USE ChainConstants DEF Types, TypeOK
<1>1. ppc = "retry" /\ UNCHANGED <<finished, firstAudio, done, retries, pend, samples, out, worker>>
  BY DEF RetryScan
<1>2. /\ nextSubmit' \in 0 .. N /\ inFlight' \in Int
      /\ retry' \subseteq Chunk /\ reqId' \in [Chunk -> ReqId \cup {NoReq}]
      /\ ofChunk' \in [ReqId -> Chunk]
      /\ rst' \in [ReqId -> {"none", "queued", "starting", "active", "over"}]
      /\ made' = made /\ cancelled' = cancelled
      /\ fulls' \in 0 .. MaxFull
      /\ st' \in {"route", "streaming", "free"}
      /\ ppc' \in {"retry", "window", "poll", "cancel"}
      /\ cur' \in 0 .. N /\ missed' \subseteq ReqId
  <2>1. CASE cur = N
    <3>1. cur \notin retry
      BY <2>1 DEF SlotsType, Chunk
    <3>2. /\ ppc' = "window" /\ cur' = 0
          /\ UNCHANGED <<st, missed, retry, rst, ofChunk, reqId, inFlight, nextSubmit,
                         made, cancelled, fulls>>
      BY <2>1, <3>1 DEF RetryScan
    <3> QED BY <3>2 DEF ConnType, SlotsType, SchedType, PollType
  <2>2. CASE cur < N /\ cur \notin retry
    BY <1>1, <2>2 DEF RetryScan, ConnType, SlotsType, SchedType, PollType
  <2>3. CASE cur \in retry /\ Accepted(cur)
    <3>1. cur \in Chunk /\ cur + 1 \in 0 .. N
      BY <2>3 DEF SlotsType, Chunk
    <3>2. ppc' = ppc /\ st' = st /\ missed' = missed /\ cur' = cur + 1
      BY <2>3, <3>1 DEF RetryScan, Accepted, Refused, Chunk
    <3> QED BY <1>1, <2>3, <3>1, <3>2, AcceptedTypes DEF ConnType, SchedType, PollType
  <2>4. ASSUME NEW why, cur \in retry, Refused(cur, why), SubmitReady \/ SubmitFailed
        PROVE  /\ nextSubmit' \in 0 .. N /\ inFlight' \in Int
               /\ retry' \subseteq Chunk /\ reqId' \in [Chunk -> ReqId \cup {NoReq}]
               /\ ofChunk' \in [ReqId -> Chunk]
               /\ rst' \in [ReqId -> {"none", "queued", "starting", "active", "over"}]
               /\ made' = made /\ cancelled' = cancelled
               /\ fulls' \in 0 .. MaxFull
               /\ st' \in {"route", "streaming", "free"}
               /\ ppc' \in {"retry", "window", "poll", "cancel"}
               /\ cur' \in 0 .. N /\ missed' \subseteq ReqId
    <3>1. cur \in Chunk
      BY <2>4 DEF SlotsType
    <3> QED BY <2>4, <3>1, RefusedTypes, SubmitEnds DEF ConnType, SlotsType, SchedType
  <2> QED BY <2>1, <2>2, <2>3, <2>4 DEF RetryScan, SlotsType, Chunk
<1>3. ConnType'
  BY <1>1, <1>2 DEF ConnType
<1>4. SlotsType'
  BY <1>1, <1>2 DEF SlotsType
<1>5. OutType'
  BY <1>1, <1>2 DEF OutType, out
<1>6. SchedType'
  BY <1>1, <1>2 DEF SchedType
<1>7. WorkerType'
  BY <1>1, <1>2 DEF WorkerType, worker
<1>8. PollType'
  BY <1>1, <1>2 DEF PollType
<1>9. Place'
  BY <1>1, <1>2 DEF Place, worker
<1> QED BY <1>3, <1>4, <1>5, <1>6, <1>7, <1>8, <1>9

LEMMA TypesSubmitWindow ==
  ASSUME Types, SubmitWindow
  PROVE  Types'
<1> USE ChainConstants DEF Types, TypeOK
<1>1. ppc = "window" /\ UNCHANGED <<finished, firstAudio, done, retries, pend, samples, out, worker>>
  BY DEF SubmitWindow
<1>2. /\ nextSubmit' \in 0 .. N /\ inFlight' \in Int
      /\ retry' \subseteq Chunk /\ reqId' \in [Chunk -> ReqId \cup {NoReq}]
      /\ ofChunk' \in [ReqId -> Chunk]
      /\ rst' \in [ReqId -> {"none", "queued", "starting", "active", "over"}]
      /\ made' = made /\ cancelled' = cancelled
      /\ fulls' \in 0 .. MaxFull
      /\ st' \in {"route", "streaming", "free"}
      /\ ppc' \in {"retry", "window", "poll", "cancel"}
      /\ cur' \in 0 .. N /\ missed' \subseteq ReqId
  <2>1. MayGenerate => nextSubmit \in Chunk
    BY DEF MayGenerate, ConnType, Chunk
  <2>2. CASE ~MayGenerate
    BY <1>1, <2>2, SubmitEnds DEF SubmitWindow, ConnType, SlotsType, SchedType, PollType
  <2>3. CASE MayGenerate /\ Accepted(nextSubmit) /\ UNCHANGED <<ppc, cur, st, missed>>
    BY <1>1, <2>1, <2>3, AcceptedTypes DEF ConnType, SchedType, PollType
  <2>4. CASE \E why : MayGenerate /\ Refused(nextSubmit, why) /\ (SubmitReady \/ SubmitFailed)
    BY <2>1, <2>4, RefusedTypes, SubmitEnds DEF ConnType, SlotsType, SchedType
  <2> QED BY <2>2, <2>3, <2>4 DEF SubmitWindow
<1>3. ConnType'
  BY <1>1, <1>2 DEF ConnType
<1>4. SlotsType'
  BY <1>1, <1>2 DEF SlotsType
<1>5. OutType'
  BY <1>1, <1>2 DEF OutType, out
<1>6. SchedType'
  BY <1>1, <1>2 DEF SchedType
<1>7. WorkerType'
  BY <1>1, <1>2 DEF WorkerType, worker
<1>8. PollType'
  BY <1>1, <1>2 DEF PollType
<1>9. Place'
  BY <1>1, <1>2 DEF Place, worker
<1> QED BY <1>3, <1>4, <1>5, <1>6, <1>7, <1>8, <1>9

LEMMA TypesPollTurn ==
  ASSUME Types, PollTurn
  PROVE  Types'
<1> USE ChainConstants DEF Types, TypeOK, PollTurn, Alive, conn, counts, slots, out, sched, worker
<1>1. ConnType'
  BY DEF ConnType
<1>2. SlotsType'
  BY DEF SlotsType
<1>3. OutType'
  BY DEF OutType
<1>4. SchedType'
  BY DEF SchedType
<1>5. WorkerType'
  BY DEF WorkerType
<1>6. PollType'
  BY DEF PollType
<1>7. Place'
  BY DEF Place
<1> QED BY <1>1, <1>2, <1>3, <1>4, <1>5, <1>6, <1>7

LEMMA TypesHangup ==
  ASSUME Types, Hangup
  PROVE  Types'
<1> USE ChainConstants DEF Types, TypeOK, Hangup, conn, counts, slots, out, sched, worker
<1>1. ConnType'
  BY DEF ConnType
<1>2. SlotsType'
  BY DEF SlotsType
<1>3. OutType'
  BY DEF OutType
<1>4. SchedType'
  BY DEF SchedType
<1>5. WorkerType'
  BY DEF WorkerType
<1>6. PollType'
  BY DEF PollType
<1>7. Place'
  BY DEF Place
<1> QED BY <1>1, <1>2, <1>3, <1>4, <1>5, <1>6, <1>7

LEMMA TypesCancelChunk ==
  ASSUME Types, CancelChunk
  PROVE  Types'
<1> USE ChainConstants DEF Types, TypeOK, CancelChunk, conn, counts, slots, out, worker
<1>0. reqId[cur] \in ReqId \cup {NoReq} /\ (reqId[cur] \notin Alive \/ reqId[cur] \in ReqId)
  BY DEF SlotsType, PollType, Chunk, Alive
<1>1. ConnType'
  BY DEF ConnType
<1>2. SlotsType'
  BY DEF SlotsType
<1>3. OutType'
  BY DEF OutType
<1>4. SchedType'
  BY <1>0 DEF SchedType
<1>5. WorkerType'
  BY DEF WorkerType
<1>6. PollType'
  BY DEF PollType
<1>7. Place'
  BY DEF Place
<1> QED BY <1>1, <1>2, <1>3, <1>4, <1>5, <1>6, <1>7

LEMMA TypesCancelEnd ==
  ASSUME Types, CancelWaited \/ CancelDone
  PROVE  Types'
<1> USE ChainConstants DEF Types, TypeOK, CancelWaited, CancelDone, conn, counts, slots, out, sched, worker
<1>1. ConnType'
  BY DEF ConnType
<1>2. SlotsType'
  BY DEF SlotsType
<1>3. OutType'
  BY DEF OutType
<1>4. SchedType'
  BY DEF SchedType
<1>5. WorkerType'
  BY DEF WorkerType
<1>6. PollType'
  BY DEF PollType, Place
<1>7. Place'
  BY DEF Place
<1> QED BY <1>1, <1>2, <1>3, <1>4, <1>5, <1>6, <1>7

(* The steps of the worker, one by one. *)
LEMMA TypesPop ==
  ASSUME Types, NEW r \in ReqId, Pop(r) \/ Retire(r)
  PROVE  Types'
<1> USE ChainConstants DEF Types, TypeOK, Pop, Retire, conn, counts, slots, out, worker, poll
<1>1. ConnType'
  BY DEF ConnType
<1>2. SlotsType'
  BY DEF SlotsType
<1>3. OutType'
  BY DEF OutType
<1>4. SchedType'
  BY DEF SchedType
<1>5. WorkerType'
  BY DEF WorkerType
<1>6. PollType'
  BY DEF PollType
<1>7. Place'
  BY DEF Place, ReqId, NoReq
<1> QED BY <1>1, <1>2, <1>3, <1>4, <1>5, <1>6, <1>7

LEMMA TypesStartRequest ==
  ASSUME Types, StartRequest
  PROVE  Types'
<1> USE ChainConstants DEF Types, TypeOK, StartRequest, Call, conn, counts, slots, out, poll
<1>0. wreq \in ReqId /\ made[wreq] + 0 = made[wreq] /\ wreq # NoReq
  BY DEF Place, WorkerType, SchedType, ReqId, NoReq
<1>1. ConnType'
  BY DEF ConnType
<1>2. SlotsType'
  BY DEF SlotsType
<1>3. OutType'
  BY DEF OutType
<1>4. SchedType'
  BY <1>0 DEF SchedType
<1>5. WorkerType'
  BY <1>0 DEF WorkerType, InCallback
<1>6. PollType'
  BY DEF PollType
<1>7. Place'
  BY <1>0 DEF Place
<1> QED BY <1>1, <1>2, <1>3, <1>4, <1>5, <1>6, <1>7

LEMMA TypesDeliver ==
  ASSUME Types, NEW r \in ReqId, NEW n \in {0, 1}, NEW final \in BOOLEAN, Deliver(r, n, final)
  PROVE  Types'
<1> USE ChainConstants DEF Types, TypeOK, Deliver, Call, conn, counts, slots, out, poll
<1>0. made[r] + n \in 0 .. Cap + 1 /\ r # NoReq
  BY DEF SchedType, ReqId, NoReq
<1>1. ConnType'
  BY DEF ConnType
<1>2. SlotsType'
  BY DEF SlotsType
<1>3. OutType'
  BY DEF OutType
<1>4. SchedType'
  BY <1>0 DEF SchedType
<1>5. WorkerType'
  BY <1>0 DEF WorkerType, InCallback
<1>6. PollType'
  BY DEF PollType
<1>7. Place'
  BY <1>0 DEF Place
<1> QED BY <1>1, <1>2, <1>3, <1>4, <1>5, <1>6, <1>7

LEMMA TypesCbReturn ==
  ASSUME Types, CbReturn
  PROVE  Types'
<1> USE ChainConstants DEF Types, TypeOK, CbReturn, conn, counts, slots, out, poll
<1>1. ConnType'
  BY DEF ConnType
<1>2. SlotsType'
  BY DEF SlotsType
<1>3. OutType'
  BY DEF OutType
<1>4. SchedType'
  BY DEF SchedType
<1>5. WorkerType'
  BY DEF WorkerType
<1>6. PollType'
  BY DEF PollType
<1>7. Place'
  BY DEF Place
<1> QED BY <1>1, <1>2, <1>3, <1>4, <1>5, <1>6, <1>7

LEMMA TypesCbGone ==
  ASSUME Types, CbGone
  PROVE  Types'
<1> USE ChainConstants DEF Types, TypeOK, CbGone, conn, counts, slots, out, sched, poll
<1>1. ConnType'
  BY DEF ConnType
<1>2. SlotsType'
  BY DEF SlotsType
<1>3. OutType'
  BY DEF OutType
<1>4. SchedType'
  BY DEF SchedType
<1>5. WorkerType'
  BY DEF WorkerType
<1>6. PollType'
  BY DEF PollType
<1>7. Place'
  BY DEF Place, InCallback
<1> QED BY <1>1, <1>2, <1>3, <1>4, <1>5, <1>6, <1>7

(* The arguments of a call are chunks, requests and pieces. *)
LEMMA Served ==
  ASSUME Types, wpc # "idle"
  PROVE  wreq \in ReqId /\ Mine \in Chunk /\ <<Mine, wreq, made[wreq]>> \in Piece
<1>1. wreq \in ReqId
  BY DEF Types, TypeOK, WorkerType, Place
<1>2. Mine \in Chunk /\ made[wreq] \in Nat
  BY <1>1, ChainConstants DEF Types, TypeOK, SchedType, Mine
<1> QED BY <1>1, <1>2 DEF Piece

(* The wire and the slots stay sequences of pieces. *)
LEMMA ConcatSeq ==
  ASSUME NEW S, NEW s \in Seq(S), NEW t \in Seq(S)
  PROVE  s \o t \in Seq(S)
OBVIOUS

(* A write adds the pieces to the wire, or nothing. *)
LEMMA SentOrNot ==
  ASSUME NEW s, SendFails \/ Sent(s) \/ UNCHANGED <<wire, broken>>
  PROVE  (wire' = wire \/ wire' = wire \o s) /\ broken' \in {broken, TRUE}
<1>1. CASE SendFails
  BY <1>1 DEF SendFails
<1>2. CASE Sent(s)
  BY <1>2 DEF Sent
<1>3. CASE UNCHANGED <<wire, broken>>
  BY <1>3
<1> QED BY <1>1, <1>2, <1>3

LEMMA RegenerateTypes ==
  ASSUME Types, NEW rc \in {0, 1}, Regenerate(rc), wpc # "idle", retries[Mine] > 0
  PROVE  /\ pend' \in [Chunk -> Seq(Piece)] /\ samples' \in [Chunk -> 0 .. Cap]
         /\ retries' \in [Chunk -> 0 .. Retries] /\ inFlight' \in Int
         /\ wpc' = "retry" /\ wrc' = rc /\ UNCHANGED <<retry, done>>
<1> USE ChainConstants, Served DEF Types, TypeOK, Regenerate
<1>1. pend' \in [Chunk -> Seq(Piece)]
  BY DEF SlotsType
<1>2. samples' \in [Chunk -> 0 .. Cap]
  BY DEF SlotsType
<1>3. retries' \in [Chunk -> 0 .. Retries]
  BY DEF SlotsType
<1>4. inFlight' \in Int
  BY DEF ConnType
<1> QED BY <1>1, <1>2, <1>3, <1>4

LEMMA TypesCbOverrun ==
  ASSUME Types, CbOverrun
  PROVE  Types'
<1> USE ChainConstants DEF Types, TypeOK, CbOverrun, conn, out, sched, poll
<1>8. wpc # "idle" /\ wreq # NoReq
  BY DEF CbOverrun, InCallback, Place
<1>9. retries[Mine] > 0 /\ Regenerate(1)
  BY DEF CutOrRetry
<1>1. ConnType'
  BY <1>8, <1>9, RegenerateTypes DEF ConnType
<1>2. SlotsType'
  BY <1>8, <1>9, RegenerateTypes DEF SlotsType
<1>3. OutType'
  BY DEF OutType
<1>4. SchedType'
  BY DEF SchedType
<1>5. WorkerType'
  BY <1>8, <1>9, RegenerateTypes DEF WorkerType, InCallback
<1>6. PollType'
  BY DEF PollType
<1>7. Place'
  BY <1>8, <1>9, RegenerateTypes DEF Place
<1> QED BY <1>1, <1>2, <1>3, <1>4, <1>5, <1>6, <1>7

LEMMA TypesCbAudio ==
  ASSUME Types, CbAudio
  PROVE  Types'
<1> USE ChainConstants DEF Types, TypeOK, CbAudio, sched, poll
<1>8. wpc # "idle" /\ wreq # NoReq
  BY DEF CbAudio, InCallback, Place
<1>9. Mine \in Chunk /\ <<Mine, wreq, made[wreq]>> \in Piece /\ wreq \in ReqId
  BY <1>8, Served
<1>10. wn = 1 /\ ~Over => samples[Mine] + 1 \in 0 .. Cap
  BY <1>9 DEF Over, SlotsType
<1>11. samples' \in [Chunk -> 0 .. Cap]
  BY <1>9, <1>10 DEF SlotsType
<1>12. pend' \in [Chunk -> Seq(Piece)]
  <2> DEFINE p == <<Mine, wreq, made[wreq]>>
  <2>1. pend \in [Chunk -> Seq(Piece)] /\ p \in Piece
    BY <1>9 DEF SlotsType
  <2>2. pend' = pend \/ pend' = [pend EXCEPT ![Mine] = Append(pend[Mine], p)]
    OBVIOUS
  <2> HIDE DEF p
  <2>3. Append(pend[Mine], p) \in Seq(Piece)
    BY <1>9, <2>1
  <2> QED BY <1>9, <2>1, <2>2, <2>3
<1>13. wpc' \in {"close", "end"} /\ wrc' \in {0, 1} /\ wcut' \in BOOLEAN
  BY DEF WorkerType, Over
<1>1. ConnType'
  BY DEF ConnType, Sent, SendFails
<1>2. SlotsType'
  BY <1>11, <1>12 DEF SlotsType
<1>3. OutType'
  <2> DEFINE s == << <<Mine, wreq, made[wreq]>> >>
  <2>1. s \in Seq(Piece)
    BY <1>9
  <2>2. emit' = emit /\ buffered' = buffered
    OBVIOUS
  <2>4. SendFails \/ Sent(s) \/ UNCHANGED <<wire, broken>>
    OBVIOUS
  <2> HIDE DEF s, CbAudio, Types, TypeOK
  <2>3. (wire' = wire \/ wire' = wire \o s) /\ broken' \in {broken, TRUE}
    BY <2>4, SentOrNot
  <2>5. wire' \in Seq(Piece)
    BY <2>1, <2>3, ConcatSeq DEF Types, TypeOK, OutType
  <2> QED BY <2>2, <2>3, <2>5 DEF Types, TypeOK, OutType
<1>4. SchedType'
  BY DEF SchedType
<1>5. WorkerType'
  BY <1>13 DEF WorkerType, InCallback
<1>6. PollType'
  BY DEF PollType
<1>7. Place'
  BY <1>8, <1>13 DEF Place
<1> QED BY <1>1, <1>2, <1>3, <1>4, <1>5, <1>6, <1>7

LEMMA TypesCbClose ==
  ASSUME Types, CbClose
  PROVE  Types'
<1> USE ChainConstants DEF Types, TypeOK, CbClose, conn, out, sched, poll
<1>8. wpc # "idle" /\ wreq # NoReq
  BY DEF CbClose, InCallback, Place
<1>9. CameBackEmpty => retries[Mine] > 0
  BY DEF CameBackEmpty
<1>10. Mine \in Chunk
  BY <1>8, Served
<1>11. wpc' \in {"retry", "advance", "end"} /\ wrc' \in {0, 1}
  BY <1>8, <1>9, RegenerateTypes
<1>1. ConnType'
  BY <1>8, <1>9, RegenerateTypes DEF ConnType
<1>2. SlotsType'
  BY <1>8, <1>9, <1>10, RegenerateTypes DEF SlotsType
<1>3. OutType'
  BY DEF OutType
<1>4. SchedType'
  BY DEF SchedType
<1>5. WorkerType'
  BY <1>11 DEF WorkerType, InCallback
<1>6. PollType'
  BY DEF PollType
<1>7. Place'
  BY <1>8, <1>11 DEF Place
<1> QED BY <1>1, <1>2, <1>3, <1>4, <1>5, <1>6, <1>7

LEMMA TypesSetRetry ==
  ASSUME Types, SetRetry
  PROVE  Types'
<1> USE ChainConstants DEF Types, TypeOK, SetRetry, conn, counts, out, sched, poll
<1>8. wpc # "idle" /\ wreq # NoReq
  BY DEF SetRetry, InCallback, Place
<1>1. ConnType'
  BY DEF ConnType
<1>2. SlotsType'
  BY <1>8, Served DEF SlotsType
<1>3. OutType'
  BY DEF OutType
<1>4. SchedType'
  BY DEF SchedType
<1>5. WorkerType'
  BY DEF WorkerType
<1>6. PollType'
  BY DEF PollType
<1>7. Place'
  BY <1>8 DEF Place
<1> QED BY <1>1, <1>2, <1>3, <1>4, <1>5, <1>6, <1>7

LEMMA TypesCbAdvance ==
  ASSUME Types, CbAdvance
  PROVE  Types'
<1> USE ChainConstants DEF Types, TypeOK, CbAdvance, counts, sched, poll
<1>8. wpc # "idle" /\ wreq # NoReq
  BY DEF CbAdvance, InCallback, Place
<1>9. emit \in Chunk /\ (~LastTurn => emit + 1 \in Chunk)
  BY DEF OutType, LastTurn, Chunk
<1>10. wpc' \in {"advance", "end"} /\ wrc' \in {0, 1}
  BY DEF WorkerType
<1>1. ConnType'
  BY DEF ConnType, SendFails
<1>2. SlotsType'
  <2>1. pend \in [Chunk -> Seq(Piece)] /\ <<>> \in Seq(Piece)
    BY DEF SlotsType
  <2>2. \/ pend' = pend
        \/ emit + 1 \in Chunk /\ pend' = [pend EXCEPT ![emit + 1] = <<>>]
    BY <1>9
  <2>3. pend' \in [Chunk -> Seq(Piece)]
    BY <2>1, <2>2
  <2> QED BY <2>3 DEF SlotsType
<1>3. OutType'
  <2>1. emit' \in Chunk
    BY <1>9
  <2>2. UNCHANGED <<wire, broken>> \/ SendFails \/ (~LastTurn /\ Sent(pend[emit + 1]))
    BY DEF Flush
  <2> DEFINE s == IF LastTurn THEN <<>> ELSE pend[emit + 1]
  <2>3. s \in Seq(Piece) /\ wire \in Seq(Piece)
    BY <1>9 DEF SlotsType, OutType
  <2>4. SendFails \/ Sent(s) \/ UNCHANGED <<wire, broken>>
    BY <2>2
  <2> HIDE DEF s
  <2>5. (wire' = wire \/ wire' = wire \o s) /\ broken' \in {broken, TRUE}
    BY <2>4, SentOrNot
  <2>6. wire' \in Seq(Piece)
    BY <2>3, <2>5, ConcatSeq
  <2>7. broken' \in BOOLEAN /\ buffered' \in BOOLEAN
    BY <2>5 DEF OutType
  <2> QED BY <2>1, <2>6, <2>7 DEF OutType
<1>4. SchedType'
  BY DEF SchedType
<1>5. WorkerType'
  BY <1>10 DEF WorkerType, InCallback
<1>6. PollType'
  BY DEF PollType
<1>7. Place'
  BY <1>8, <1>10 DEF Place
<1> QED BY <1>1, <1>2, <1>3, <1>4, <1>5, <1>6, <1>7

(* Every step keeps the types. *)
LEMMA NextTypes == Types /\ [Next]_vars => Types'
<1> SUFFICES ASSUME Types, [Next]_vars PROVE Types'
  OBVIOUS
<1>1. CASE UNCHANGED vars
  <2> USE <1>1 DEF vars, conn, counts, slots, out, sched, worker, poll, Types, TypeOK
  <2>1. ConnType'
    BY DEF ConnType
  <2>2. SlotsType'
    BY DEF SlotsType
  <2>3. OutType'
    BY DEF OutType
  <2>4. SchedType'
    BY DEF SchedType
  <2>5. WorkerType'
    BY DEF WorkerType
  <2>6. PollType'
    BY DEF PollType
  <2>7. Place'
    BY DEF Place
  <2> QED BY <2>1, <2>2, <2>3, <2>4, <2>5, <2>6, <2>7
<1>2. CASE PollLoop \/ Hangup
  BY <1>2, TypesRetryScan, TypesSubmitWindow, TypesPollTurn, TypesHangup,
     TypesCancelChunk, TypesCancelEnd DEF PollLoop
<1>3. CASE WorkerStep
  BY <1>3, TypesPop, TypesStartRequest, TypesDeliver, TypesCbOverrun, TypesCbAudio,
     TypesCbClose, TypesSetRetry, TypesCbAdvance, TypesCbGone, TypesCbReturn
  DEF WorkerStep
<1> QED BY <1>1, <1>2, <1>3 DEF Next

(* Every variable of the chain keeps its type: the window never passes the  *)
(* last chunk, the wire never leaves the chunks, no chunk has more audio    *)
(* than its cap, and no regeneration is charged that is not left.           *)
THEOREM TypeCorrect == Spec => []TypeOK
<1>1. Types => TypeOK
  BY DEF Types
<1> QED BY <1>1, InitTypes, NextTypes, PTL DEF Spec

-----------------------------------------------------------------------------
(* The inductive invariant: what the steps have in common.                  *)

(* The inductive invariant has what the type lemmas ask for. *)
LEMMA IInvTypes == IInv => Types
BY DEF IInv, Types, WorkerPlace, PollPlace, Place

(* Only finitely many requests generate, and fewer of them count less. *)
LEMMA GeneratingFinite ==
  /\ IsFiniteSet(Generating) /\ Cardinality(Generating) \in Nat
  /\ \A S \in SUBSET Generating : Cardinality(S) <= Cardinality(Generating)
<1>1. IsFiniteSet(1 .. MaxReq)
  BY ChainConstants, FS_Interval
<1>2. Generating \in SUBSET (1 .. MaxReq)
  BY DEF Generating, Alive, ReqId
<1>3. IsFiniteSet(Generating)
  BY <1>1, <1>2, FS_Subset
<1> QED BY <1>3, FS_Subset, FS_CardinalityType

(* A request that has stopped generating is counted no more. *)
LEMMA OneFewer ==
  ASSUME NEW r \in Generating
  PROVE  Cardinality(Generating \ {r}) = Cardinality(Generating) - 1
BY GeneratingFinite, FS_RemoveElement

(* While the connection is looked after no request of it is in limbo: in    *)
(* the first stages of the callback the request served is the one of its    *)
(* slot, and it is not behind the wire.                                     *)
LEMMA Speaking ==
  ASSUME IInv, wpc \in {"audio", "close"}
  PROVE  /\ wreq \in Generating /\ wreq \in ReqId /\ Mine \in Chunk
         /\ Mine \notin retry \cup done /\ reqId[Mine] = wreq /\ Mine >= emit
         /\ Alive = Generating
<1>1. wreq \in ReqId /\ Mine \in Chunk
  BY IInvTypes, Served
<1>2. wreq \in Alive /\ Alive = Generating
  BY <1>1 DEF IInv, WorkerPlace, InCallback, Alive, Generating, Ending
<1>3. Mine \notin retry \cup done /\ reqId[Mine] = wreq
  BY <1>2 DEF IInv, SlotsOwn, Mine
<1>4. Mine >= emit
  BY <1>1, <1>3 DEF IInv, EmitPlace, TypeOK, OutType, Chunk
<1> QED BY <1>1, <1>2, <1>3, <1>4

-----------------------------------------------------------------------------
(* The poll loop.                                                           *)

(* A step of the poll loop that submits nothing leaves the chunks alone. *)
LEMMA PollKeeps ==
  ASSUME IInv, retry' \subseteq retry,
         UNCHANGED <<nextSubmit, finished, counts, done, retries, pend, samples, reqId,
                     out, ofChunk, rst, made, worker>>
  PROVE  /\ SlotsOwn' /\ Counted' /\ EmitPlace' /\ TakeCounted' /\ Buffered'
         /\ WireTail' /\ WireInOrder' /\ Accounted' /\ FinishPlace'
         /\ Alive' = Alive /\ Generating' = Generating
<1> USE DEF IInv, counts, out, worker
<1>1. Alive' = Alive /\ Generating' = Generating /\ Mine' = Mine
  BY DEF Alive, Generating, Ending, Mine
<1>2. SlotsOwn'
  BY <1>1 DEF SlotsOwn
<1>3. Counted'
  BY <1>1 DEF Counted
<1>4. EmitPlace'
  BY <1>1 DEF EmitPlace
<1>5. TakeCounted'
  BY <1>1 DEF TakeCounted
<1>6. Buffered'
  BY DEF Buffered
<1>7. WireTail'
  BY DEF WireTail, Heard
<1>8. WireInOrder'
  BY DEF WireInOrder
<1>9. Accounted'
  BY DEF Accounted, Heard
<1>10. FinishPlace'
  BY DEF FinishPlace
<1> QED BY <1>1, <1>2, <1>3, <1>4, <1>5, <1>6, <1>7, <1>8, <1>9, <1>10

(* A chunk the scheduler accepts is new, or the one that waits for its      *)
(* regeneration; nothing generates it, and nothing else waits.              *)
LEMMA AcceptedChunk ==
  ASSUME IInv, RegenIsNewest, RegenIsNewest', NEW k \in Chunk, Accepted(k),
         k \in retry \/ (k = nextSubmit /\ MayGenerate),
         UNCHANGED worker
  PROVE  /\ retry' = {} /\ wpc # "retry" /\ k \notin done /\ samples[k] = 0
         /\ inFlight < Parallel /\ nextSubmit' = k + 1
         /\ \A j \in Chunk : j > k => j >= nextSubmit
         /\ \A q \in Generating : ofChunk[q] # k
<1> USE DEF IInv, worker
<1>1. /\ retry' = retry \ {k} /\ nextSubmit' = k + 1 /\ retry \subseteq Chunk
      /\ Chunk \subseteq Int /\ nextSubmit \in Int
  BY ChainConstants DEF Accepted, TypeOK, SlotsType, ConnType, Chunk
<1>3. k \notin retry => reqId[k] = NoReq
  BY <1>1 DEF SlotsOwn
<1>2. k \notin done /\ samples[k] = 0 /\ (k \in retry => nextSubmit = k + 1)
  BY <1>3 DEF SlotsOwn, RegenIsNewest
<1>4. \A q \in Generating : ofChunk[q] # k
  BY <1>3 DEF SlotsOwn, Generating, Alive, ReqId, NoReq
<1>5. retry' = {}
  BY <1>1, <1>2, <1>3 DEF RegenIsNewest
<1>6. wpc # "retry"
  <2> SUFFICES ASSUME wpc = "retry" PROVE FALSE
    OBVIOUS
  <2>1. wreq \in ReqId /\ Mine \in Chunk
    BY IInvTypes, Served
  <2>2. nextSubmit = Mine + 1 /\ Mine \notin retry
    BY <2>1 DEF RegenIsNewest, SlotsOwn
  <2>3. rst[wreq] # "none"
    BY DEF WorkerPlace, InCallback
  <2>4. k # Mine
    <3>1. wreq \in Alive /\ wreq \notin Generating
      BY <2>1 DEF WorkerPlace, InCallback, Alive, Generating, Ending
    <3>2. reqId[Mine] = wreq
      BY <3>1 DEF SlotsOwn, Mine
    <3> QED BY <2>1, <2>2, <3>2, <1>3 DEF ReqId, NoReq
  <2>5. Mine' = Mine
    BY <2>1, <2>3 DEF Accepted, NextReq, Mine, TypeOK, SchedType
  <2>6. nextSubmit' = Mine + 1
    BY <2>1, <2>5 DEF RegenIsNewest
  <2> QED BY <1>1, <2>1, <2>4, <2>6
<1>7. inFlight < Parallel
  BY DEF Counted, MayGenerate
<1>8. \A j \in Chunk : j > k => j >= nextSubmit
  BY <1>1, <1>2
<1> QED BY <1>1, <1>2, <1>4, <1>5, <1>6, <1>7, <1>8

(* An accepted chunk. *)
LEMMA AcceptKeeps ==
  ASSUME IInv, RegenIsNewest, RegenIsNewest', NEW k \in Chunk, Accepted(k),
         k \in retry \/ (k = nextSubmit /\ MayGenerate),
         UNCHANGED <<finished, firstAudio, done, retries, pend, samples, out, worker>>
  PROVE  /\ SlotsOwn' /\ Counted' /\ EmitPlace' /\ TakeCounted' /\ Buffered'
         /\ WireTail' /\ WireInOrder' /\ Accounted' /\ FinishPlace' /\ WorkerPlace'
<1> USE DEF IInv, out
<1>1. /\ retry' = {} /\ wpc # "retry" /\ k \notin done /\ samples[k] = 0
      /\ inFlight < Parallel /\ nextSubmit' = k + 1
      /\ \A j \in Chunk : j > k => j >= nextSubmit
      /\ \A q \in Generating : ofChunk[q] # k
  BY AcceptedChunk
<1>2. PICK r \in ReqId :
        /\ rst[r] = "none" /\ rst' = [rst EXCEPT ![r] = "queued"]
        /\ ofChunk' = [ofChunk EXCEPT ![r] = k]
        /\ reqId' = [reqId EXCEPT ![k] = r]
        /\ inFlight' = inFlight + 1 /\ UNCHANGED <<made, cancelled>>
  BY DEF Accepted, NextReq
<1>3. wreq # r /\ r \notin Generating /\ r # NoReq
  BY <1>2 DEF WorkerPlace, InCallback, Generating, Alive, ReqId, NoReq, TypeOK, WorkerType
<1>4. /\ rst'[r] = "queued" /\ \A q \in ReqId \ {r} : rst'[q] = rst[q]
      /\ ofChunk'[r] = k /\ \A q \in ReqId \ {r} : ofChunk'[q] = ofChunk[q]
  BY <1>2 DEF TypeOK, SchedType
<1>5. reqId'[k] = r /\ \A j \in Chunk \ {k} : reqId'[j] = reqId[j]
  BY <1>2 DEF TypeOK, SlotsType
<1>6. Alive' = Alive \cup {r} /\ Generating' = Generating \cup {r}
  BY <1>3, <1>4 DEF Alive, Generating, Ending, worker
<1>7. wpc # "idle" => wreq \in ReqId \ {r} /\ Mine' = Mine
  BY <1>3, <1>4, IInvTypes, Served DEF Mine, worker
<1>8. WorkerPlace'
  BY <1>2, <1>3, <1>4, <1>7 DEF WorkerPlace, InCallback, worker
<1>9. SlotsOwn'
  <2>1. (\A j \in Chunk : reqId[j] # NoReq => ofChunk[reqId[j]] = j /\ rst[reqId[j]] # "none")'
    BY <1>2, <1>4, <1>5 DEF SlotsOwn, TypeOK, SlotsType
  <2>2. (\A j \in Chunk : j >= nextSubmit => reqId[j] = NoReq)'
    BY <1>1, <1>5, ChainConstants DEF SlotsOwn, Chunk
  <2>3. (\A j \in Chunk : reqId[j] = NoReq => j \notin retry \cup done /\ samples[j] = 0)'
    BY <1>1, <1>3, <1>5 DEF SlotsOwn
  <2>4. \A q \in Generating : q \in ReqId \ {r} /\ ofChunk[q] \in Chunk
    BY <1>3 DEF Generating, Alive, TypeOK, SchedType
  <2>5. (\A q \in Generating : reqId[ofChunk[q]] = q /\ ofChunk[q] \notin retry \cup done)'
    BY <1>1, <1>4, <1>5, <1>6, <2>4 DEF SlotsOwn
  <2>6. (\A q \in Alive : q \in Generating \/ wpc = "end" \/ reqId[ofChunk[q]] = q)'
    <3> SUFFICES ASSUME NEW q \in Alive, q \notin Generating, q # r, wpc # "end"
                 PROVE  reqId'[ofChunk'[q]] = q
      BY <1>4, <1>5, <1>6 DEF worker
    <3>1. q \in ReqId /\ wreq = q /\ wpc = "advance" /\ reqId[ofChunk[q]] = q
      BY <1>1 DEF SlotsOwn, Generating, Alive, Ending
    <3>2. Mine \in done /\ Mine = ofChunk[q]
      BY <3>1 DEF EmitPlace, Mine
    <3>3. Mine \in Chunk
      BY <3>1, IInvTypes, Served
    <3> QED BY <1>1, <1>4, <1>5, <3>1, <3>2, <3>3
  <2>7. (\A j \in retry : j \notin done /\ samples[j] = 0)'
    BY <1>1
  <2>8. (wpc = "retry" => Mine \notin retry \cup done /\ samples[Mine] = 0)'
    BY <1>1 DEF worker
  <2> QED BY <2>1, <2>2, <2>3, <2>5, <2>6, <2>7, <2>8 DEF SlotsOwn
<1>10. Counted'
  <2>1. Cardinality(Generating') = Cardinality(Generating) + 1
    BY <1>3, <1>6, GeneratingFinite, FS_AddElement
  <2> QED BY <1>1, <1>2, <2>1, GeneratingFinite, ChainConstants
          DEF Counted, worker, TypeOK, ConnType
<1>11. EmitPlace'
  BY <1>7 DEF EmitPlace, worker
<1>12. TakeCounted'
  <2>1. (\A q \in ReqId : rst[q] \in {"none", "queued"} => made[q] = 0)'
    BY <1>2, <1>4 DEF TakeCounted
  <2>2. (wpc = "start" => made[wreq] = 0)'
    BY <1>2 DEF TakeCounted, worker
  <2>3. ASSUME NEW q \in Generating'
        PROVE  \/ wreq = q /\ wpc = "close" /\ wcut
               \/ made[q] = samples[ofChunk'[q]] + (IF wreq = q /\ wpc = "audio" THEN wn ELSE 0)
    <3>1. CASE q = r
      BY <1>1, <1>2, <1>3, <1>4, <3>1 DEF TakeCounted
    <3>2. CASE q # r
      <4>1. q \in Generating /\ q \in ReqId \ {r}
        BY <1>6, <3>2, <2>3 DEF Generating, Alive
      <4> QED BY <1>4, <4>1 DEF TakeCounted
    <3> QED BY <3>1, <3>2
  <2> QED BY <1>2, <2>1, <2>2, <2>3 DEF TakeCounted, worker
<1>13. Buffered'
  <2> SUFFICES ASSUME NEW j \in Chunk, j > emit
               PROVE  /\ Len(pend[j]) = samples[j]
                      /\ \A i \in DOMAIN pend[j] : pend[j][i] = <<j, reqId'[j], i>>
    BY DEF Buffered
  <2>1. /\ Len(pend[j]) = samples[j]
        /\ \A i \in DOMAIN pend[j] : pend[j][i] = <<j, reqId[j], i>>
    BY DEF Buffered
  <2>2. CASE j # k
    BY <1>5, <2>1, <2>2
  <2>3. CASE j = k
    <3>1. pend[j] \in Seq(Piece)
      BY DEF TypeOK, SlotsType
    <3>2. DOMAIN pend[j] = {}
      BY <1>1, <2>1, <2>3, <3>1
    <3> QED BY <2>1, <3>2
  <2> QED BY <2>2, <2>3
<1>14. WireTail'
  <2>1. samples[emit] > 0 => emit # k /\ reqId'[emit] = reqId[emit]
    BY <1>1, <1>5 DEF TypeOK, OutType
  <2> QED BY <2>1 DEF WireTail, Heard
<1>15. WireInOrder'
  BY DEF WireInOrder
<1>16. Accounted'
  BY DEF Accounted, Heard
<1>17. FinishPlace'
  BY DEF FinishPlace, worker
<1> QED BY <1>8, <1>9, <1>10, <1>11, <1>12, <1>13, <1>14, <1>15, <1>16, <1>17

(* What a failed or finished submission leaves. *)
LEMMA SubmitEndsInv ==
  ASSUME IInv, ppc \in {"retry", "window"}, SubmitReady \/ SubmitFailed,
         retry' \subseteq retry,
         UNCHANGED <<nextSubmit, finished, counts, done, retries, pend, samples, reqId,
                     out, ofChunk, rst, made, cancelled, worker>>
  PROVE  PollPlace' /\ Swept' /\ WorkerPlace'
<1> USE DEF IInv
<1>1. Alive' = Alive /\ st # "free"
  BY DEF Alive, PollPlace
<1>2. WorkerPlace'
  BY DEF WorkerPlace, worker
<1>3. PollPlace'
  BY DEF PollPlace, SubmitReady, SubmitFailed
<1>4. Swept'
  <2>1. cur' = 0 /\ Chunk \subseteq Nat
    BY ChainConstants DEF SubmitReady, SubmitFailed, Chunk
  <2>2. ppc' \in {"cancel", "wait"} => \A k \in Chunk : ~(k < cur')
    BY <2>1
  <2>3. st' = "free" => missed' = missed \cup Alive
    BY <1>1 DEF SubmitReady, SubmitFailed
  <2> QED BY <1>1, <2>2, <2>3 DEF Swept, Silenced
<1> QED BY <1>2, <1>3, <1>4

(* The loop over the retry flags. *)
LEMMA RetryScanInv ==
  ASSUME IInv, RegenIsNewest, RegenIsNewest', RetryScan
  PROVE  IInv'
<1> USE DEF IInv
<1>1. TypeOK'
  BY IInvTypes, TypesRetryScan DEF Types
<1>2. /\ ppc = "retry" /\ st # "free"
      /\ UNCHANGED <<finished, firstAudio, done, retries, pend, samples, out, worker>>
  BY DEF RetryScan, PollPlace
<1>3. CASE cur \in retry /\ Accepted(cur) /\ UNCHANGED <<ppc, st, missed>>
  <2>1. cur \in Chunk
    BY <1>3 DEF TypeOK, SlotsType
  <2>2. PollPlace' /\ Swept'
    BY <1>2, <1>3 DEF PollPlace, Swept
  <2> QED BY <1>1, <1>2, <1>3, <2>1, <2>2, AcceptKeeps
<1>4. CASE \E why : cur \in retry /\ Refused(cur, why) /\ (SubmitReady \/ SubmitFailed)
  <2>1. /\ retry' \subseteq retry
        /\ UNCHANGED <<nextSubmit, counts, reqId, ofChunk, rst, made, cancelled>>
    BY <1>2, <1>4 DEF Refused, counts
  <2> QED BY <1>1, <1>2, <1>4, <2>1, PollKeeps, SubmitEndsInv
<1>5. CASE UNCHANGED <<st, missed, retry, rst, ofChunk, reqId, inFlight, nextSubmit,
                       made, cancelled, fulls>> /\ ppc' \in {"retry", "window"}
  <2>1. PollPlace' /\ Swept' /\ WorkerPlace'
    BY <1>2, <1>5 DEF PollPlace, Swept, WorkerPlace, worker
  <2> QED BY <1>1, <1>2, <1>5, <2>1, PollKeeps DEF counts
<1> QED BY <1>2, <1>3, <1>4, <1>5 DEF RetryScan

(* The loop over the window. *)
LEMMA SubmitWindowInv ==
  ASSUME IInv, RegenIsNewest, RegenIsNewest', SubmitWindow
  PROVE  IInv'
<1> USE DEF IInv
<1>1. TypeOK'
  BY IInvTypes, TypesSubmitWindow DEF Types
<1>2. /\ ppc = "window" /\ st # "free"
      /\ UNCHANGED <<finished, firstAudio, done, retries, pend, samples, out, worker>>
  BY DEF SubmitWindow, PollPlace
<1>3. CASE MayGenerate /\ Accepted(nextSubmit) /\ UNCHANGED <<ppc, cur, st, missed>>
  <2>1. nextSubmit \in Chunk
    BY <1>3, ChainConstants DEF MayGenerate, TypeOK, ConnType, Chunk
  <2>2. PollPlace' /\ Swept'
    BY <1>2, <1>3 DEF PollPlace, Swept
  <2> QED BY <1>1, <1>2, <1>3, <2>1, <2>2, AcceptKeeps
<1>4. CASE \E why : Refused(nextSubmit, why) /\ (SubmitReady \/ SubmitFailed)
  <2>1. /\ retry' \subseteq retry
        /\ UNCHANGED <<nextSubmit, counts, reqId, ofChunk, rst, made, cancelled>>
    BY <1>2, <1>4 DEF Refused, counts
  <2> QED BY <1>1, <1>2, <1>4, <2>1, PollKeeps, SubmitEndsInv
<1>5. CASE SubmitReady /\ UNCHANGED <<retry, rst, ofChunk, reqId, inFlight, nextSubmit,
                                      made, cancelled, fulls>>
  BY <1>1, <1>2, <1>5, PollKeeps, SubmitEndsInv DEF counts
<1> QED BY <1>2, <1>3, <1>4, <1>5 DEF SubmitWindow

(* A turn of the poll loop.  A reset behind the last touch of the worker    *)
(* leaves no request behind.                                                *)
LEMMA PollTurnInv ==
  ASSUME IInv, PollTurn
  PROVE  IInv'
<1> USE DEF IInv
<1>1. TypeOK'
  BY IInvTypes, TypesPollTurn DEF Types
<1>2. /\ retry' = retry
      /\ UNCHANGED <<nextSubmit, finished, counts, done, retries, pend, samples, reqId,
                     out, ofChunk, rst, made, cancelled, worker>>
  BY DEF PollTurn, slots, sched
<1>3. Alive' = Alive /\ Generating' = Generating
  BY <1>2, PollKeeps
<1>4. WorkerPlace'
  BY <1>2 DEF WorkerPlace, worker
<1>5. PollPlace'
  BY DEF PollTurn, PollPlace
<1>6. Swept'
  <2>1. CASE ~finished
    BY <2>1 DEF PollTurn, Swept
  <2>2. CASE finished /\ broken
    BY <1>3, <2>2 DEF PollTurn, Swept, Silenced
  <2>3. CASE finished /\ ~broken
    <3>1. done = Chunk /\ wpc # "advance"
      BY <2>3 DEF FinishPlace
    <3>2. Generating = {}
      BY <3>1 DEF SlotsOwn, Generating, Alive, TypeOK, SchedType
    <3>3. wpc # "retry"
      BY <3>1, IInvTypes, Served DEF SlotsOwn
    <3>4. \A r \in Alive : wpc = "end" /\ Ending(r)
      BY <3>1, <3>2, <3>3 DEF Generating, Ending
    <3>5. \A r \in Alive' : wpc' = "end" /\ Ending(r)'
      BY <1>2, <1>3, <3>4 DEF Ending, worker
    <3>6. ppc' = "poll"
      BY <2>3 DEF PollTurn
    <3> QED BY <3>5, <3>6 DEF Swept
  <2> QED BY <2>1, <2>2, <2>3
<1> QED BY <1>1, <1>2, <1>4, <1>5, <1>6, PollKeeps

(* A client that leaves, or a shutdown, starts conn_cancel_all. *)
LEMMA HangupInv ==
  ASSUME IInv, Hangup
  PROVE  IInv'
<1> USE DEF IInv
<1>1. TypeOK'
  BY IInvTypes, TypesHangup DEF Types
<1>2. /\ retry' = retry
      /\ UNCHANGED <<nextSubmit, finished, counts, done, retries, pend, samples, reqId,
                     out, ofChunk, rst, made, cancelled, worker>>
  BY DEF Hangup, conn, slots, sched
<1>3. WorkerPlace'
  BY <1>2 DEF WorkerPlace, worker
<1>4. PollPlace'
  BY DEF Hangup, PollPlace, conn
<1>5. Swept'
  BY ChainConstants DEF Hangup, Swept, conn, Chunk
<1> QED BY <1>1, <1>2, <1>3, <1>4, <1>5, PollKeeps

(* conn_cancel_all silences the request of a slot before it goes on. *)
LEMMA CancelChunkInv ==
  ASSUME IInv, CancelChunk
  PROVE  IInv'
<1> USE DEF IInv
<1>1. TypeOK'
  BY IInvTypes, TypesCancelChunk DEF Types
<1>2. /\ retry' = retry /\ ppc = "cancel" /\ cur < N /\ cur \in Chunk
      /\ st' = st /\ st \notin {"free", "route"}
      /\ UNCHANGED <<nextSubmit, finished, counts, done, retries, pend, samples, reqId,
                     out, ofChunk, rst, made, worker>>
  BY ChainConstants DEF CancelChunk, conn, slots, PollPlace, TypeOK, PollType, Chunk
<1>3. Alive' = Alive
  BY <1>2, PollKeeps
<1>4. \A r \in ReqId : r \in cancelled' => r \in cancelled \/ rst[r] # "starting"
  BY DEF CancelChunk
<1>5. WorkerPlace'
  BY <1>2, <1>4 DEF WorkerPlace, worker
<1>6. PollPlace'
  BY <1>2 DEF CancelChunk, PollPlace
<1>7. cancelled \subseteq cancelled' /\ missed \subseteq missed'
  BY DEF CancelChunk
<1>8. \A r : Silenced(r) => Silenced(r)'
  BY <1>2, <1>7 DEF Silenced, worker
<1>9. ASSUME NEW r \in Alive, r = reqId[cur], cur' = cur + 1
      PROVE  Silenced(r)'
  <2>1. r # NoReq /\ cur' # cur
    BY <1>2, <1>9, ChainConstants DEF Alive, ReqId, NoReq, TypeOK, PollType
  <2>2. CASE missed' = missed \cup {r}
    BY <1>2, <2>2 DEF Silenced
  <2>3. CASE cancelled' = cancelled \cup {r} /\ ~Serving(r)
    BY <1>2, <2>3 DEF Silenced, Serving, worker
  <2> QED BY <1>9, <2>1, <2>2, <2>3 DEF CancelChunk
<1>10. cur' = cur \/ cur' = cur + 1
  BY DEF CancelChunk
<1>11. Swept'
  <2>1. \A k \in Chunk : k < cur' => k < cur \/ (k = cur /\ cur' = cur + 1)
    BY <1>10, ChainConstants DEF Chunk, TypeOK, PollType
  <2>2. ASSUME NEW k \in Chunk, k < cur', reqId[k] \in Alive
        PROVE  Silenced(reqId[k])'
    <3>1. \A r : r = reqId[k] => (Silenced(r)' <=> Silenced(reqId[k])')
      BY <1>2 DEF Silenced
    <3>2. CASE k < cur
      BY <1>2, <1>8, <2>2, <3>1, <3>2 DEF Swept
    <3>3. CASE k = cur /\ cur' = cur + 1
      BY <1>9, <2>2, <3>1, <3>3
    <3> QED BY <2>1, <2>2, <3>2, <3>3
  <2>3. \A k \in Chunk : reqId'[k] = reqId[k]
    BY <1>2
  <2> QED BY <1>2, <1>3, <2>2, <2>3 DEF Swept
<1> QED BY <1>1, <1>2, <1>5, <1>6, <1>11, PollKeeps

(* A running callback is waited out. *)
LEMMA CancelWaitedInv ==
  ASSUME IInv, CancelWaited
  PROVE  IInv'
<1> USE DEF IInv
<1>1. TypeOK'
  BY IInvTypes, TypesCancelEnd DEF Types
<1>2. /\ retry' = retry /\ ppc = "wait" /\ cur < N /\ reqId[cur] \in cancelled
      /\ st' = st /\ st \notin {"free", "route"} /\ cur' = cur + 1
      /\ UNCHANGED <<nextSubmit, finished, counts, done, retries, pend, samples, reqId,
                     out, ofChunk, rst, made, cancelled, missed, worker>>
  BY DEF CancelWaited, conn, slots, sched, PollPlace
<1>3. Alive' = Alive
  BY <1>2, PollKeeps
<1>4. WorkerPlace'
  BY <1>2 DEF WorkerPlace, worker
<1>5. PollPlace'
  BY <1>2 DEF CancelWaited, PollPlace
<1>6. Silenced(reqId[cur])
  BY <1>2 DEF CancelWaited, Serving, Silenced
<1>7. \A r : Silenced(r) => Silenced(r)'
  BY <1>2 DEF Silenced, worker
<1>8. Swept'
  BY <1>2, <1>3, <1>6, <1>7, ChainConstants DEF Swept, Chunk, TypeOK, PollType
<1> QED BY <1>1, <1>2, <1>4, <1>5, <1>8, PollKeeps

(* All slots are silenced when conn_cancel_all is through. *)
LEMMA CancelDoneInv ==
  ASSUME IInv, CancelDone
  PROVE  IInv'
<1> USE DEF IInv
<1>1. TypeOK'
  BY IInvTypes, TypesCancelEnd DEF Types
<1>2. /\ retry' = retry /\ ppc = "cancel" /\ cur = N /\ ppc' = "poll" /\ st' = "free"
      /\ UNCHANGED <<nextSubmit, finished, counts, done, retries, pend, samples, reqId,
                     out, ofChunk, rst, made, cancelled, missed, worker>>
  BY DEF CancelDone, slots, sched
<1>3. Alive' = Alive
  BY <1>2, PollKeeps
<1>4. WorkerPlace'
  BY <1>2 DEF WorkerPlace, worker
<1>5. PollPlace'
  BY <1>2 DEF PollPlace
<1>6. ASSUME NEW r \in Alive
      PROVE  Silenced(r) \/ (wpc = "end" /\ Ending(r))
  <2>1. ofChunk[r] \in Chunk /\ ofChunk[r] < cur
    BY <1>2, ChainConstants DEF Alive, TypeOK, SchedType, Chunk
  <2>2. reqId[ofChunk[r]] = r => Silenced(r)
    BY <1>2, <2>1 DEF Swept
  <2>3. reqId[ofChunk[r]] # r => wpc = "end" /\ Ending(r)
    BY <2>1 DEF SlotsOwn, Generating
  <2> QED BY <2>2, <2>3
<1>7. Swept'
  BY <1>2, <1>3, <1>6 DEF Swept, Silenced, Ending, worker
<1> QED BY <1>1, <1>2, <1>4, <1>5, <1>7, PollKeeps

-----------------------------------------------------------------------------
(* The worker, between callbacks.                                           *)

(* A step of the worker that makes no audio and ends no chunk. *)
LEMMA WorkerKeeps ==
  ASSUME IInv, wpc' \notin {"retry", "advance"},
         Generating' \subseteq Generating, Alive' \subseteq Alive,
         \A r \in Alive' : r \in Generating' \/ wpc' = "end",
         \A r \in ReqId : rst[r] # "none" => rst'[r] # "none",
         UNCHANGED <<nextSubmit, inFlight, slots, reqId, emit, wire, ofChunk>>,
         broken' \/ UNCHANGED <<broken, finished>>
  PROVE  /\ SlotsOwn' /\ Counted' /\ EmitPlace' /\ Buffered' /\ WireTail'
         /\ WireInOrder' /\ Accounted' /\ FinishPlace'
<1> USE DEF IInv, slots
<1>1. SlotsOwn'
  <2>1. (\A j \in Chunk : reqId[j] # NoReq => ofChunk[reqId[j]] = j /\ rst[reqId[j]] # "none")'
    BY DEF SlotsOwn, TypeOK, SlotsType
  <2> QED BY <2>1 DEF SlotsOwn
<1>2. Counted'
  <2>1. Cardinality(Generating') <= Cardinality(Generating) /\ Cardinality(Generating') \in Nat
    BY GeneratingFinite, FS_Subset, FS_CardinalityType
  <2> QED BY <2>1, GeneratingFinite, ChainConstants DEF Counted, TypeOK, ConnType
<1>3. EmitPlace'
  BY DEF EmitPlace
<1>4. Buffered'
  BY DEF Buffered
<1>5. WireTail'
  BY DEF WireTail, Heard
<1>6. WireInOrder'
  BY DEF WireInOrder
<1>7. Accounted'
  BY DEF Accounted, Heard
<1>8. FinishPlace'
  BY DEF FinishPlace
<1> QED BY <1>1, <1>2, <1>3, <1>4, <1>5, <1>6, <1>7, <1>8

(* Outside a callback everything that is alive generates. *)
LEMMA Between ==
  ASSUME Types, wpc \in {"idle", "start"}
  PROVE  Generating = Alive
BY DEF Types, TypeOK, Place, Generating, Alive, Ending, ReqId, NoReq

(* The worker takes a request from the queue. *)
LEMMA PopInv ==
  ASSUME IInv, NEW r \in ReqId, Pop(r)
  PROVE  IInv'
<1> USE DEF IInv
<1>1. TypeOK' /\ Types' /\ Types
  BY IInvTypes, TypesPop DEF Types
<1>2. /\ wpc = "idle" /\ rst[r] = "queued" /\ wreq = NoReq /\ r # NoReq
      /\ UNCHANGED <<conn, counts, slots, reqId, out, ofChunk, made, cancelled, missed,
                     wn, wfinal, wcut, wrc, poll>>
  BY DEF Pop, WorkerPlace, ReqId, NoReq
<1>3. \/ /\ r \in cancelled /\ rst' = [rst EXCEPT ![r] = "over"]
         /\ wpc' = "idle" /\ wreq' = NoReq
      \/ /\ r \notin cancelled /\ rst' = [rst EXCEPT ![r] = "starting"]
         /\ wpc' = "start" /\ wreq' = r
  BY <1>2 DEF Pop
<1>4. \A q \in ReqId \ {r} : rst'[q] = rst[q]
  BY <1>3 DEF TypeOK, SchedType
<1>5. rst'[r] = IF wpc' = "start" THEN "starting" ELSE "over"
  BY <1>3 DEF TypeOK, SchedType
<1>6. Alive' \subseteq Alive /\ Generating = Alive /\ Generating' = Alive'
  <2>1. Generating = Alive /\ Generating' = Alive'
    BY <1>1, <1>2, <1>3, Between DEF Generating, Ending
  <2>2. Alive' \subseteq Alive
    BY <1>2, <1>4 DEF Alive
  <2> QED BY <2>1, <2>2
<1>7. /\ SlotsOwn' /\ Counted' /\ EmitPlace' /\ Buffered' /\ WireTail'
      /\ WireInOrder' /\ Accounted' /\ FinishPlace'
  BY <1>2, <1>3, <1>4, <1>5, <1>6, WorkerKeeps DEF conn, counts, out
<1>8. \A q \in ReqId : rst[q] # "starting"
  BY <1>2 DEF WorkerPlace, ReqId, NoReq
<1>9. WorkerPlace'
  BY <1>2, <1>3, <1>4, <1>5, <1>8 DEF WorkerPlace, InCallback
<1>10. PollPlace'
  BY <1>2 DEF PollPlace, conn, poll
<1>11. TakeCounted'
  <2>1. (\A q \in ReqId : rst[q] \in {"none", "queued"} => made[q] = 0)'
    BY <1>2, <1>4, <1>5 DEF TakeCounted
  <2>2. (wpc = "start" => made[wreq] = 0)'
    BY <1>2, <1>3 DEF TakeCounted
  <2>3. ASSUME NEW q \in Generating'
        PROVE  made'[q] = samples'[ofChunk'[q]] + 0
    BY <1>2, <1>6 DEF TakeCounted, slots
  <2>4. wpc' \notin {"audio", "close"}
    BY <1>3
  <2> QED BY <2>1, <2>2, <2>3, <2>4 DEF TakeCounted
<1>12. Swept'
  <2>1. \A q \in Alive : Silenced(q) => Silenced(q)'
    BY <1>2, <1>3 DEF Silenced, InCallback
  <2>2. \A k \in Chunk : reqId'[k] = reqId[k]
    BY <1>2
  <2>3. ppc' = ppc /\ cur' = cur /\ st' = st
    BY <1>2 DEF poll, conn
  <2>4. (ppc \in {"cancel", "wait"} =>
          \A k \in Chunk : k < cur /\ reqId[k] \in Alive => Silenced(reqId[k]))'
    BY <1>2, <1>6, <2>1, <2>3 DEF Swept, Silenced
  <2>5. st = "free" => \A q \in Alive : Silenced(q)
    BY <1>2 DEF Swept
  <2> QED BY <1>6, <2>1, <2>3, <2>4, <2>5 DEF Swept
<1> QED BY <1>1, <1>7, <1>9, <1>10, <1>11, <1>12

(* The worker retires a cancelled session. *)
LEMMA RetireInv ==
  ASSUME IInv, NEW r \in ReqId, Retire(r)
  PROVE  IInv'
<1> USE DEF IInv
<1>1. TypeOK' /\ Types' /\ Types
  BY IInvTypes, TypesPop DEF Types
<1>2. /\ wpc = "idle" /\ rst[r] = "active" /\ rst' = [rst EXCEPT ![r] = "over"]
      /\ UNCHANGED <<conn, counts, slots, reqId, out, ofChunk, made, cancelled, missed,
                     worker, poll>>
  BY DEF Retire
<1>3. rst'[r] = "over" /\ \A q \in ReqId \ {r} : rst'[q] = rst[q]
  BY <1>2 DEF TypeOK, SchedType
<1>4. Alive' \subseteq Alive /\ Generating = Alive /\ Generating' = Alive'
  <2>1. Generating = Alive /\ Generating' = Alive'
    BY <1>1, <1>2, Between DEF worker, Generating, Ending
  <2>2. Alive' \subseteq Alive
    BY <1>2, <1>3 DEF Alive
  <2> QED BY <2>1, <2>2
<1>5. wpc' = "idle"
  BY <1>2 DEF worker
<1>6. /\ SlotsOwn' /\ Counted' /\ EmitPlace' /\ Buffered' /\ WireTail'
      /\ WireInOrder' /\ Accounted' /\ FinishPlace'
  BY <1>2, <1>3, <1>4, <1>5, WorkerKeeps DEF conn, counts, out
<1>7. WorkerPlace'
  BY <1>2, <1>3 DEF WorkerPlace, InCallback, worker
<1>8. PollPlace'
  BY <1>2 DEF PollPlace, conn, poll
<1>9. TakeCounted'
  <2>1. (\A q \in ReqId : rst[q] \in {"none", "queued"} => made[q] = 0)'
    BY <1>2, <1>3 DEF TakeCounted
  <2>2. ASSUME NEW q \in Generating'
        PROVE  made'[q] = samples'[ofChunk'[q]] + 0
    BY <1>2, <1>4 DEF TakeCounted, slots
  <2> QED BY <1>5, <2>1, <2>2 DEF TakeCounted
<1>10. Swept'
  <2>1. \A q : Silenced(q) => Silenced(q)'
    BY <1>2 DEF Silenced, worker
  <2>2. ppc' = ppc /\ cur' = cur /\ st' = st /\ reqId' = reqId
    BY <1>2 DEF poll, conn
  <2>3. st = "free" => \A q \in Alive : Silenced(q)
    BY <1>2 DEF Swept
  <2>4. (ppc \in {"cancel", "wait"} =>
          \A k \in Chunk : k < cur /\ reqId[k] \in Alive => Silenced(reqId[k]))'
    BY <1>4, <2>1, <2>2 DEF Swept, Silenced
  <2> QED BY <1>4, <2>1, <2>2, <2>3, <2>4 DEF Swept
<1> QED BY <1>1, <1>6, <1>7, <1>8, <1>9, <1>10

(* A request that a callback is made for is not silenced, unless the reset  *)
(* left it behind.                                                          *)
LEMMA CallSwept ==
  ASSUME IInv, wpc \in {"idle", "start"}, NEW r \in ReqId, r \notin cancelled,
         Alive' \subseteq Alive, wreq' = r,
         UNCHANGED <<conn, reqId, cancelled, missed, poll>>
  PROVE  Swept'
<1> USE DEF IInv
<1>1. \A q \in Alive : Silenced(q) => Silenced(q)'
  BY DEF Silenced
<1>2. ppc' = ppc /\ cur' = cur /\ st' = st /\ reqId' = reqId
  BY DEF poll, conn
<1>3. st = "free" => \A q \in Alive : Silenced(q)
  BY DEF Swept
<1>4. (ppc \in {"cancel", "wait"} =>
        \A k \in Chunk : k < cur /\ reqId[k] \in Alive => Silenced(reqId[k]))'
  BY <1>1, <1>2 DEF Swept, Silenced
<1> QED BY <1>1, <1>2, <1>3, <1>4 DEF Swept

(* start_request admits the request, or fails it with a final callback. *)
LEMMA StartRequestInv ==
  ASSUME IInv, StartRequest
  PROVE  IInv'
<1> USE DEF IInv
<1>1. TypeOK' /\ Types' /\ Types
  BY IInvTypes, TypesStartRequest DEF Types
<1>2. /\ wpc = "start" /\ rst[wreq] = "starting" /\ wreq \in ReqId /\ wreq # NoReq
      /\ wreq \notin cancelled
      /\ UNCHANGED <<conn, counts, slots, reqId, out, ofChunk, cancelled, missed, poll>>
  BY DEF StartRequest, WorkerPlace, TypeOK, WorkerType
<1>3. \/ /\ rst' = [rst EXCEPT ![wreq] = "active"]
         /\ wpc' = "idle" /\ wreq' = NoReq /\ UNCHANGED <<made, wn, wfinal, wcut, wrc>>
      \/ /\ rst' = rst /\ wpc' = "audio" /\ wreq' = wreq /\ wn' = 0 /\ wfinal' = TRUE
         /\ wcut' = FALSE /\ wrc' = 0 /\ made' = made
  <2>1. made \in [ReqId -> 0 .. Cap + 1] /\ [made EXCEPT ![wreq] = @ + 0] = made
    BY <1>2, ChainConstants DEF TypeOK, SchedType
  <2> QED BY <2>1 DEF StartRequest, Call
<1>4. \A q \in ReqId : rst'[q] = rst[q] \/ (q = wreq /\ rst'[q] = "active")
  BY <1>2, <1>3 DEF TypeOK, SchedType
<1>5. Alive' = Alive /\ Generating = Alive /\ Generating' = Alive'
  <2>1. Generating = Alive
    BY <1>1, <1>2, Between
  <2>2. Alive' = Alive
    BY <1>2, <1>4 DEF Alive
  <2>3. Generating' = Alive'
    BY <1>3 DEF Generating, Ending, Alive, ReqId, NoReq
  <2> QED BY <2>1, <2>2, <2>3
<1>6. made' = made
  BY <1>3
<1>7. /\ SlotsOwn' /\ Counted' /\ EmitPlace' /\ Buffered' /\ WireTail'
      /\ WireInOrder' /\ Accounted' /\ FinishPlace'
  BY <1>2, <1>3, <1>4, <1>5, WorkerKeeps DEF conn, counts, out
<1>8. WorkerPlace'
  <2>1. CASE wpc' = "idle"
    <3>1. rst'[wreq] = "active" /\ \A q \in ReqId : rst'[q] # "starting"
      BY <1>2, <1>3, <1>4, <2>1 DEF WorkerPlace, TypeOK, SchedType
    <3> QED BY <1>2, <1>3, <2>1, <3>1 DEF WorkerPlace, InCallback
  <2>2. CASE wpc' = "audio"
    BY <1>2, <1>3, <2>2 DEF WorkerPlace, InCallback
  <2> QED BY <1>3, <2>1, <2>2
<1>9. PollPlace'
  BY <1>2 DEF PollPlace, conn, poll
<1>10. TakeCounted'
  <2>1. (\A q \in ReqId : rst[q] \in {"none", "queued"} => made[q] = 0)'
    BY <1>2, <1>4, <1>6 DEF TakeCounted
  <2>2. ASSUME NEW q \in Generating'
        PROVE  made'[q] = samples'[ofChunk'[q]] + 0
    BY <1>2, <1>5, <1>6 DEF TakeCounted, slots
  <2>3. wpc' \notin {"start", "close"} /\ (wpc' = "audio" => wn' = 0)
    BY <1>3
  <2> QED BY <2>1, <2>2, <2>3 DEF TakeCounted
<1>11. Swept'
  <2>1. CASE wreq' = wreq
    BY <1>2, <1>5, <2>1, CallSwept
  <2>2. CASE wpc' = "idle"
    <3>1. \A q \in Alive : Silenced(q) => Silenced(q)'
      BY <1>2, <2>2 DEF Silenced, InCallback
    <3>2. ppc' = ppc /\ cur' = cur /\ st' = st /\ reqId' = reqId
      BY <1>2 DEF poll, conn
    <3>3. st = "free" => \A q \in Alive : Silenced(q)
      BY <1>2 DEF Swept
    <3>4. (ppc \in {"cancel", "wait"} =>
            \A k \in Chunk : k < cur /\ reqId[k] \in Alive => Silenced(reqId[k]))'
      BY <1>5, <3>1, <3>2 DEF Swept, Silenced
    <3> QED BY <1>5, <3>1, <3>2, <3>3, <3>4 DEF Swept
  <2> QED BY <1>3, <2>1, <2>2
<1> QED BY <1>1, <1>7, <1>8, <1>9, <1>10, <1>11

(* The worker calls back with audio, or with the end of a take. *)
LEMMA DeliverInv ==
  ASSUME IInv, NEW r \in ReqId, NEW n \in {0, 1}, NEW final \in BOOLEAN, Deliver(r, n, final)
  PROVE  IInv'
<1> USE DEF IInv
<1>1. TypeOK' /\ Types' /\ Types
  BY IInvTypes, TypesDeliver DEF Types
<1>2. /\ wpc = "idle" /\ rst[r] = "active" /\ r \notin cancelled /\ (n = 1 \/ final)
      /\ wpc' = "audio" /\ wreq' = r /\ wn' = n /\ wfinal' = final
      /\ wcut' = FALSE /\ wrc' = 0 /\ made' = [made EXCEPT ![r] = @ + n]
      /\ UNCHANGED <<conn, counts, slots, reqId, out, ofChunk, rst, cancelled, missed, poll>>
  BY DEF Deliver, Call
<1>3. r # NoReq /\ wreq = NoReq
  BY <1>2 DEF WorkerPlace, ReqId, NoReq
<1>4. Alive' = Alive /\ Generating = Alive /\ Generating' = Alive'
  <2>1. Generating = Alive
    BY <1>1, <1>2, Between
  <2>2. Alive' = Alive
    BY <1>2 DEF Alive
  <2>3. Generating' = Alive'
    BY <1>2 DEF Generating, Ending
  <2> QED BY <2>1, <2>2, <2>3
<1>5. /\ SlotsOwn' /\ Counted' /\ EmitPlace' /\ Buffered' /\ WireTail'
      /\ WireInOrder' /\ Accounted' /\ FinishPlace'
  BY <1>2, <1>4, WorkerKeeps DEF conn, counts, out
<1>6. WorkerPlace'
  <2>1. \A q \in ReqId : rst[q] # "starting"
    BY <1>2, <1>3 DEF WorkerPlace, ReqId, NoReq
  <2> QED BY <1>2, <1>3, <2>1 DEF WorkerPlace, InCallback
<1>7. PollPlace'
  BY <1>2 DEF PollPlace, conn, poll
<1>8. TakeCounted'
  <2>1. made'[r] = made[r] + n /\ \A q \in ReqId \ {r} : made'[q] = made[q]
    BY <1>2 DEF TypeOK, SchedType
  <2>2. (\A q \in ReqId : rst[q] \in {"none", "queued"} => made[q] = 0)'
    BY <1>2, <2>1 DEF TakeCounted
  <2>3. ASSUME NEW q \in Generating'
        PROVE  made'[q] = samples'[ofChunk'[q]] + (IF wreq' = q /\ wpc' = "audio" THEN wn' ELSE 0)
    <3>1. q \in ReqId /\ made[q] = samples[ofChunk[q]] + 0 /\ samples[ofChunk[q]] \in Int
      BY <1>2, <1>4, ChainConstants
      DEF TakeCounted, Generating, Alive, TypeOK, SlotsType, SchedType
    <3>2. samples'[ofChunk'[q]] = samples[ofChunk[q]]
      BY <1>2 DEF slots
    <3>3. CASE q = r
      BY <1>2, <2>1, <3>1, <3>2, <3>3
    <3>4. CASE q # r
      BY <1>2, <2>1, <3>1, <3>2, <3>4
    <3> QED BY <3>3, <3>4
  <2> QED BY <1>2, <2>2, <2>3 DEF TakeCounted
<1>9. Swept'
  BY <1>2, <1>4, CallSwept
<1> QED BY <1>1, <1>5, <1>6, <1>7, <1>8, <1>9

(* The callback of a connection that is gone. *)
LEMMA CbGoneInv ==
  ASSUME IInv, CbGone
  PROVE  IInv'
<1> USE DEF IInv
<1>1. TypeOK'
  BY IInvTypes, TypesCbGone DEF Types
<1>2. /\ wpc \in InCallback /\ st = "free" /\ wpc' = "end" /\ wrc' = 1
      /\ UNCHANGED <<conn, counts, slots, reqId, out, sched, missed, wreq, wn, wfinal,
                     wcut, poll>>
  BY DEF CbGone
<1>3. Alive' = Alive /\ Generating' \subseteq Generating
  BY <1>2 DEF Alive, Generating, Ending, sched
<1>4. /\ SlotsOwn' /\ Counted' /\ EmitPlace' /\ Buffered' /\ WireTail'
      /\ WireInOrder' /\ Accounted' /\ FinishPlace'
  BY <1>2, <1>3, WorkerKeeps DEF conn, counts, out, sched
<1>5. WorkerPlace'
  BY <1>2 DEF WorkerPlace, InCallback, sched
<1>6. PollPlace'
  BY <1>2 DEF PollPlace, conn, poll, sched
<1>7. TakeCounted'
  <2>1. (\A q \in ReqId : rst[q] \in {"none", "queued"} => made[q] = 0)'
    BY <1>2 DEF TakeCounted, sched
  <2>2. ASSUME NEW q \in Generating'
        PROVE  made'[q] = samples'[ofChunk'[q]] + 0
    <3>1. q \in Generating /\ wreq # q
      BY <1>2, <1>3, <2>2 DEF Generating, Ending
    <3> QED BY <1>2, <3>1 DEF TakeCounted, slots, sched
  <2> QED BY <1>2, <2>1, <2>2 DEF TakeCounted
<1>8. Swept'
  <2>1. \A q : Silenced(q) => Silenced(q)'
    BY <1>2 DEF Silenced, InCallback, sched
  <2>2. ppc' = ppc /\ cur' = cur /\ st' = st /\ reqId' = reqId
    BY <1>2 DEF poll, conn
  <2>3. (ppc \in {"cancel", "wait"} =>
          \A k \in Chunk : k < cur /\ reqId[k] \in Alive => Silenced(reqId[k]))'
    BY <1>3, <2>1, <2>2 DEF Swept, Silenced
  <2>4. \A q \in Alive : Silenced(q)
    BY <1>2 DEF Swept, InCallback
  <2> QED BY <1>3, <2>1, <2>2, <2>3, <2>4 DEF Swept
<1> QED BY <1>1, <1>4, <1>5, <1>6, <1>7, <1>8

(* Back from the callback: a request that ended is not alive any more. *)
LEMMA CbReturnInv ==
  ASSUME IInv, CbReturn
  PROVE  IInv'
<1> USE DEF IInv
<1>1. TypeOK' /\ Types' /\ Types
  BY IInvTypes, TypesCbReturn DEF Types
<1>2. /\ wpc = "end" /\ wpc' = "idle" /\ wreq' = NoReq /\ wreq \in ReqId
      /\ rst[wreq] \in {"starting", "active"} /\ (rst[wreq] = "starting" => wfinal)
      /\ UNCHANGED <<conn, counts, slots, reqId, out, ofChunk, made, cancelled, missed,
                     wn, wfinal, wcut, wrc, poll>>
  BY IInvTypes, Served DEF CbReturn, WorkerPlace, InCallback
<1>3. rst' = IF wfinal \/ wrc # 0 THEN [rst EXCEPT ![wreq] = "over"] ELSE rst
  BY DEF CbReturn
<1>4. /\ \A q \in ReqId \ {wreq} : rst'[q] = rst[q]
      /\ rst'[wreq] = IF wfinal \/ wrc # 0 THEN "over" ELSE rst[wreq]
  BY <1>2, <1>3 DEF TypeOK, SchedType
<1>5. Alive' = Generating /\ Generating' = Alive' /\ Generating \subseteq Alive
  <2>1. Generating' = Alive'
    BY <1>2 DEF Generating, Ending
  <2>2. Alive' = Generating
    BY <1>2, <1>4 DEF Alive, Generating, Ending
  <2> QED BY <2>1, <2>2 DEF Generating
<1>6. /\ SlotsOwn' /\ Counted' /\ EmitPlace' /\ Buffered' /\ WireTail'
      /\ WireInOrder' /\ Accounted' /\ FinishPlace'
  <2>1. \A q \in ReqId : rst[q] # "none" => rst'[q] # "none"
    BY <1>2, <1>4
  <2> QED BY <1>2, <1>5, <2>1, WorkerKeeps DEF conn, counts, out
<1>7. WorkerPlace'
  <2>1. \A q \in ReqId : rst'[q] # "starting"
    BY <1>2, <1>4 DEF WorkerPlace
  <2> QED BY <1>2, <2>1 DEF WorkerPlace, InCallback
<1>8. PollPlace'
  BY <1>2 DEF PollPlace, conn, poll
<1>9. TakeCounted'
  <2>1. (\A q \in ReqId : rst[q] \in {"none", "queued"} => made[q] = 0)'
    BY <1>2, <1>4 DEF TakeCounted
  <2>2. ASSUME NEW q \in Generating'
        PROVE  made'[q] = samples'[ofChunk'[q]] + 0
    BY <1>2, <1>5 DEF TakeCounted, slots
  <2> QED BY <1>2, <2>1, <2>2 DEF TakeCounted
<1>10. Swept'
  <2>1. \A q : Silenced(q) => Silenced(q)'
    BY <1>2 DEF Silenced, InCallback
  <2>2. ppc' = ppc /\ cur' = cur /\ st' = st /\ reqId' = reqId
    BY <1>2 DEF poll, conn
  <2>3. st = "free" => \A q \in Generating : Silenced(q)
    BY DEF Swept, Generating
  <2>4. (ppc \in {"cancel", "wait"} =>
          \A k \in Chunk : k < cur /\ reqId[k] \in Alive => Silenced(reqId[k]))'
    BY <1>5, <2>1, <2>2 DEF Swept, Silenced
  <2> QED BY <1>5, <2>1, <2>2, <2>3, <2>4 DEF Swept
<1> QED BY <1>1, <1>6, <1>7, <1>8, <1>9, <1>10

-----------------------------------------------------------------------------
(* What the wire takes.                                                     *)

(* Pieces are numbered by their chunk first. *)
LEMMA PieceOfChunk ==
  ASSUME wire \in Seq(Piece)
  PROVE  \A i \in DOMAIN wire : wire[i][1] \in Int
<1>1. \A p \in Piece : p[1] \in Int
  BY ChainConstants DEF Piece, Chunk
<1> QED BY <1>1

(* What may follow a piece: the next of its take, or the first of a later   *)
(* chunk.                                                                   *)
LEMMA SameTake ==
  ASSUME NEW p, NEW q, NEW k, NEW r, NEW a, NEW b, p = <<k, r, a>>, q = <<k, r, b>>, b = a + 1
  PROVE  Follows(p, q)
BY DEF Follows

LEMMA MoreOfTake ==
  ASSUME NEW p, NEW q, NEW k, NEW r, NEW a, p = <<k, r, a>>, q = <<k, r, a + 1>>
  PROVE  Follows(p, q)
BY DEF Follows

(* Two cases, where a length is nothing or something. *)
LEMMA NatCases == ASSUME NEW n \in Nat PROVE n = 0 \/ n > 0
OBVIOUS

(* The number of a piece is its third part. *)
LEMMA FirstOfTake ==
  ASSUME NEW p, NEW k, NEW r, p = <<k, r, 1>>
  PROVE  p[3] = 1
OBVIOUS

LEMMA NextTake ==
  ASSUME NEW p, NEW q, NEW k \in Int, NEW r, p[1] \in Int, p[1] < k, q = <<k, r, 1>>
  PROVE  Follows(p, q)
<1>1. q[1] = k /\ q[3] = 1
  OBVIOUS
<1>2. q[1] > p[1]
  BY <1>1
<1> QED BY <1>1, <1>2 DEF Follows

(* A place behind the first L of L + M. *)
LEMMA Places ==
  ASSUME NEW L \in Nat, NEW M \in Nat, NEW m \in Nat, NEW i \in 1 .. (L + M) - 1
  PROVE  /\ i < L => i \in 1 .. L - 1 /\ i \in 1 .. L /\ i + 1 \in 1 .. L
         /\ i = L => i \in 1 .. L /\ i + 1 \in L + 1 .. L + M /\ m + ((i + 1) - L) = m + 1
         /\ i > L => /\ i \in L + 1 .. L + M /\ i + 1 \in L + 1 .. L + M
                     /\ m + ((i + 1) - L) = m + (i - L) + 1
OBVIOUS

(* More of take r of chunk k goes out, behind its first m pieces. *)
Carries(s, k, r, m) ==
  /\ \A i \in DOMAIN s : s[i] = <<k, r, m + i>>
  /\ m = 0 => \A i \in DOMAIN wire : wire[i][1] < k
  /\ m > 0 => wire # <<>> /\ wire[Len(wire)] = <<k, r, m>>
  /\ wire' = wire \o s

(* The wire stays in order, and the chunk has that many pieces more. *)
LEMMA WireGrows ==
  ASSUME wire \in Seq(Piece), WireInOrder, NEW s \in Seq(Piece),
         NEW k \in Int, NEW r, NEW m \in Nat, Carries(s, k, r, m)
  PROVE  /\ WireInOrder'
         /\ \A j : j # k => Heard(j)' = Heard(j)
         /\ Cardinality(Heard(k)') = Cardinality(Heard(k)) + Len(s)
         /\ \A i \in DOMAIN wire' : (i \in DOMAIN wire /\ wire'[i] = wire[i]) \/ wire'[i][1] = k
         /\ Len(s) = 0 => Heard(k)' = Heard(k)
         /\ Len(s) > 0 => wire' # <<>> /\ wire'[Len(wire')] = <<k, r, m + Len(s)>>
<1>s. \A i \in DOMAIN s : s[i] = <<k, r, m + i>>
  BY DEF Carries
<1>f. m = 0 => \A i \in DOMAIN wire : wire[i][1] < k
  BY DEF Carries
<1>l. m > 0 => wire # <<>> /\ wire[Len(wire)] = <<k, r, m>>
  BY DEF Carries
<1>w. wire' = wire \o s
  BY DEF Carries
<1> DEFINE L == Len(wire)
           M == Len(s)
           new == L + 1 .. L + M
<1>1. /\ L \in Nat /\ M \in Nat /\ Len(wire') = L + M
      /\ DOMAIN wire = 1 .. L /\ DOMAIN s = 1 .. M /\ DOMAIN wire' = 1 .. L + M
  BY <1>w
<1>2. \A i \in 1 .. L : wire'[i] = wire[i]
  BY <1>w, <1>1
<1>3. \A i \in new : wire'[i] = <<k, r, m + (i - L)>>
  <2> TAKE i \in new
  <2>1. i - L \in DOMAIN s /\ wire'[i] = s[i - L]
    BY <1>w, <1>1
  <2> QED BY <1>s, <2>1
<1>4. /\ wire = <<>> <=> L = 0
      /\ wire' = <<>> <=> L + M = 0
  BY <1>1
<1>5. \A i \in 1 .. L + M : i \in 1 .. L \/ i \in new
  BY <1>1
<1>6. IsFiniteSet(new) /\ Cardinality(new) = M
  <2>1. L + 1 \in Int /\ L + M \in Int /\ (L + M) - (L + 1) + 1 = M /\ (L + 1 > L + M => M = 0)
    BY <1>1
  <2> QED BY <2>1, FS_Interval
<1>7. \A i \in new : i \in 1 .. L + M /\ i \notin 1 .. L
  BY <1>1
<1>8. M > 0 => L + M \in new /\ m + ((L + M) - L) = m + M
  BY <1>1
<1>15. M > 0 /\ L = 0 => 1 \in new /\ (m = 0 => m + (1 - L) = 1)
  BY <1>1
<1>16. m > 0 => wire[L] = <<k, r, m>>
  BY <1>l
<1>9. Len(wire) = L /\ Len(s) = M
  OBVIOUS
<1> HIDE DEF L, M, new
<1>10. \A i \in DOMAIN wire' : (i \in DOMAIN wire /\ wire'[i] = wire[i]) \/ wire'[i][1] = k
  BY <1>1, <1>2, <1>3, <1>5
<1>11. ASSUME NEW j, j # k PROVE Heard(j)' = Heard(j)
  <2>1. \A i \in DOMAIN wire' : wire'[i][1] = j => i \in DOMAIN wire /\ wire[i][1] = j
    BY <1>10, <1>11
  <2>2. \A i \in DOMAIN wire : i \in DOMAIN wire' /\ wire'[i] = wire[i]
    BY <1>1, <1>2
  <2> QED BY <2>1, <2>2 DEF Heard
<1>12. /\ Cardinality(Heard(k)') = Cardinality(Heard(k)) + M
       /\ M = 0 => Heard(k)' = Heard(k)
  <2>0. IsFiniteSet(1 .. L)
    BY <1>1, FS_Interval
  <2>1. Heard(k) \in SUBSET (1 .. L)
    BY <1>1 DEF Heard
  <2>2. IsFiniteSet(Heard(k)) /\ Cardinality(Heard(k)) \in Nat
    BY <2>0, <2>1, FS_Subset, FS_CardinalityType
  <2>3. Heard(k)' = Heard(k) \cup new
    <3>1. \A i \in new : i \in DOMAIN wire' /\ wire'[i][1] = k
      BY <1>1, <1>3, <1>7
    <3>2. \A i \in DOMAIN wire' : i \in DOMAIN wire \/ i \in new
      BY <1>1, <1>5
    <3>3. \A i \in DOMAIN wire : i \in DOMAIN wire' /\ wire'[i] = wire[i]
      BY <1>1, <1>2
    <3> QED BY <3>1, <3>2, <3>3 DEF Heard
  <2>4. Heard(k) \cap new = {}
    BY <1>7, <2>1
  <2>5. Cardinality(Heard(k) \cap new) = 0
    BY <2>4, FS_EmptySet
  <2>6. Cardinality(Heard(k) \cup new) = Cardinality(Heard(k)) + M - Cardinality(Heard(k) \cap new)
    BY <2>2, <1>6, FS_Union
  <2>7. M = 0 => new = {}
    BY <1>6, FS_EmptySet
  <2> QED BY <1>1, <2>2, <2>3, <2>5, <2>6, <2>7
<1>13. M > 0 => wire' # <<>> /\ wire'[Len(wire')] = <<k, r, m + M>>
  <2> SUFFICES ASSUME M > 0
               PROVE  wire' # <<>> /\ wire'[Len(wire')] = <<k, r, m + M>>
    OBVIOUS
  <2>1. wire'[L + M] = <<k, r, m + ((L + M) - L)>>
    BY <1>3, <1>8
  <2>2. wire' # <<>> /\ Len(wire') = L + M
    BY <1>1, <1>4
  <2> QED BY <1>8, <2>1, <2>2
<1>14. WireInOrder'
  <2>1. ASSUME wire' # <<>> PROVE wire'[1][3] = 1
    <3>1. CASE L > 0
      <4>1. wire'[1] = wire[1]
        BY <1>1, <1>2, <3>1
      <4> QED BY <1>1, <1>4, <3>1, <4>1 DEF WireInOrder
    <3>2. CASE L = 0
      <4>1. m = 0 /\ M > 0
        BY <1>l, <1>1, <1>4, <2>1, <3>2
      <4>2. wire'[1] = <<k, r, m + (1 - L)>>
        BY <1>3, <1>15, <3>2, <4>1
      <4>3. m + (1 - L) = 1
        BY <1>15, <3>2, <4>1
      <4>4. wire'[1] = <<k, r, 1>>
        BY <4>2, <4>3
      <4> QED BY <4>4, FirstOfTake
    <3> QED BY <1>1, <3>1, <3>2, NatCases, Zenon
  <2>2. ASSUME NEW i \in 1 .. (L + M) - 1 PROVE Follows(wire'[i], wire'[i + 1])
    <3>0. /\ i < L => i \in 1 .. L - 1 /\ i \in 1 .. L /\ i + 1 \in 1 .. L
          /\ i = L => i \in 1 .. L /\ i + 1 \in new /\ m + ((i + 1) - L) = m + 1
          /\ i > L => i \in new /\ i + 1 \in new /\ m + ((i + 1) - L) = m + (i - L) + 1
      BY <1>1, Places DEF new
    <3>1. CASE i < L
      <4>1. wire'[i] = wire[i] /\ wire'[i + 1] = wire[i + 1]
        BY <1>2, <3>0, <3>1
      <4> QED BY <1>9, <3>0, <3>1, <4>1 DEF WireInOrder
    <3>2. CASE i = L
      <4>1. wire'[i] = wire[i] /\ wire'[i + 1] = <<k, r, m + ((i + 1) - L)>>
        BY <1>2, <1>3, <3>0, <3>2
      <4>2. wire'[i + 1] = <<k, r, m + 1>>
        BY <3>0, <3>2, <4>1
      <4>3. CASE m = 0
        <5>1. wire[i][1] < k
          BY <1>f, <1>1, <3>0, <3>2, <4>3
        <5>2. wire[i][1] \in Int
          BY <1>1, <3>0, <3>2, PieceOfChunk
        <5>3. wire'[i + 1] = <<k, r, 1>>
          BY <4>2, <4>3
        <5>4. wire'[i][1] \in Int /\ wire'[i][1] < k
          BY <4>1, <5>1, <5>2
        <5> QED BY <5>3, <5>4, NextTake
      <4>4. CASE m > 0
        <5>1. wire'[i] = <<k, r, m>>
          BY <1>16, <3>2, <4>1, <4>4
        <5> QED BY <4>2, <5>1, MoreOfTake, Zenon
      <4> QED BY <4>3, <4>4, NatCases, Zenon
    <3>3. CASE i > L
      <4>1. /\ wire'[i] = <<k, r, m + (i - L)>>
            /\ wire'[i + 1] = <<k, r, m + ((i + 1) - L)>>
        BY <1>3, <3>0, <3>3
      <4>2. m + ((i + 1) - L) = m + (i - L) + 1
        BY <3>0, <3>3
      <4> QED BY <4>1, <4>2, SameTake
    <3> QED BY <1>1, <3>1, <3>2, <3>3
  <2> QED BY <1>1, <2>1, <2>2 DEF WireInOrder
<1> QED BY <1>9, <1>10, <1>11, <1>12, <1>13, <1>14

-----------------------------------------------------------------------------
(* The callback, while the connection is there.                             *)

(* A step inside the callback leaves to the poll loop what is its own. *)
LEMMA CallbackSwept ==
  ASSUME IInv, wpc \in InCallback, st # "free",
         UNCHANGED <<st, reqId, sched, missed, poll, wreq>>
  PROVE  Swept' /\ PollPlace' /\ Alive' = Alive
<1> USE DEF IInv, sched, poll
<1>1. Alive' = Alive
  BY DEF Alive
<1>2. \A q : Silenced(q) => Silenced(q)'
  BY DEF Silenced
<1>3. (ppc \in {"cancel", "wait"} =>
        \A k \in Chunk : k < cur /\ reqId[k] \in Alive => Silenced(reqId[k]))'
  BY <1>1, <1>2 DEF Swept, Silenced
<1>4. Swept'
  BY <1>3 DEF Swept
<1>5. PollPlace'
  BY DEF PollPlace
<1> QED BY <1>1, <1>4, <1>5

(* The chunk the callback is about, and the others. *)
LEMMA OtherChunks ==
  ASSUME IInv, wpc \in {"audio", "close"}
  PROVE  \A q \in Generating \ {wreq} : q \in ReqId /\ ofChunk[q] \in Chunk \ {Mine}
<1> SUFFICES ASSUME NEW q \in Generating \ {wreq}
             PROVE  q \in ReqId /\ ofChunk[q] \in Chunk \ {Mine}
  OBVIOUS
<1>1. q \in ReqId /\ ofChunk[q] \in Chunk
  BY DEF IInv, TypeOK, SchedType, Generating, Alive
<1>2. reqId[ofChunk[q]] = q /\ reqId[Mine] = wreq
  BY Speaking DEF IInv, SlotsOwn
<1> QED BY <1>1, <1>2

(* chunk_regenerate, for either reason: nothing of the take is on the wire. *)
LEMMA RegenerateInv ==
  ASSUME IInv, TypeOK', wpc \in {"audio", "close"}, st # "free",
         NEW rc \in {0, 1}, rc = 1 \/ wfinal, Mine # emit \/ samples[Mine] = 0,
         Regenerate(rc),
         UNCHANGED <<conn, firstAudio, reqId, out, sched, missed, wreq, wn, wfinal, wcut, poll>>
  PROVE  IInv'
<1> USE DEF IInv, conn, out, sched
<1>1. /\ wreq \in Generating /\ wreq \in ReqId /\ Mine \in Chunk
      /\ Mine \notin retry \cup done /\ reqId[Mine] = wreq /\ Mine >= emit
      /\ Alive = Generating
  BY Speaking
<1>2. Swept' /\ PollPlace' /\ Alive' = Alive
  BY CallbackSwept DEF InCallback
<1>3. /\ wpc' = "retry" /\ wrc' = rc /\ inFlight' = inFlight - 1
      /\ UNCHANGED <<retry, done>>
      /\ samples'[Mine] = 0 /\ pend'[Mine] = <<>>
      /\ \A k \in Chunk \ {Mine} : samples'[k] = samples[k] /\ pend'[k] = pend[k]
  BY <1>1 DEF Regenerate, TypeOK, SlotsType
<1>4. Mine' = Mine
  BY DEF Mine
<1>5. Generating' = Generating \ {wreq}
  BY <1>1, <1>2, <1>3 DEF Generating, Ending
<1>6. WorkerPlace'
  BY <1>1, <1>3 DEF WorkerPlace, InCallback
<1>7. SlotsOwn'
  <2>1. (\A k \in Chunk : reqId[k] # NoReq => ofChunk[reqId[k]] = k /\ rst[reqId[k]] # "none")'
    BY DEF SlotsOwn
  <2>2. (\A k \in Chunk : reqId[k] = NoReq => k \notin retry \cup done /\ samples[k] = 0)'
    BY <1>3 DEF SlotsOwn
  <2>3. (\A q \in Generating : reqId[ofChunk[q]] = q /\ ofChunk[q] \notin retry \cup done)'
    BY <1>3, <1>5 DEF SlotsOwn
  <2>4. (\A q \in Alive : q \in Generating \/ wpc = "end" \/ reqId[ofChunk[q]] = q)'
    BY <1>1, <1>2, <1>5 DEF Mine
  <2>5. (\A k \in retry : k \notin done /\ samples[k] = 0)'
    BY <1>1, <1>3 DEF SlotsOwn, TypeOK, SlotsType
  <2>6. (wpc = "retry" => Mine \notin retry \cup done /\ samples[Mine] = 0)'
    BY <1>1, <1>3, <1>4
  <2> QED BY <2>1, <2>2, <2>3, <2>4, <2>5, <2>6 DEF SlotsOwn
<1>8. Counted'
  <2>1. Cardinality(Generating') = Cardinality(Generating) - 1
    BY <1>1, <1>5, OneFewer
  <2> QED BY <1>3, <2>1, GeneratingFinite, ChainConstants DEF Counted, TypeOK, ConnType
<1>9. EmitPlace'
  BY <1>3 DEF EmitPlace
<1>10. TakeCounted'
  <2>1. (\A q \in ReqId : rst[q] \in {"none", "queued"} => made[q] = 0)'
    BY DEF TakeCounted
  <2>2. ASSUME NEW q \in Generating'
        PROVE  made'[q] = samples'[ofChunk'[q]] + 0
    <3>1. q \in Generating \ {wreq} /\ ofChunk[q] \in Chunk \ {Mine}
      BY <1>5, OtherChunks
    <3>2. made[q] = samples[ofChunk[q]] + 0
      BY <3>1 DEF TakeCounted
    <3> QED BY <1>3, <3>1, <3>2
  <2> QED BY <1>3, <2>1, <2>2 DEF TakeCounted
<1>11. Buffered'
  BY <1>1, <1>3 DEF Buffered
<1>12. Heard(Mine) = {}
  BY <1>1 DEF WireTail, Heard, TypeOK, OutType, Chunk
<1>13. WireTail'
  <2>1. (\A k \in Chunk : samples[k] = 0 => Heard(k) = {})'
    BY <1>3, <1>12 DEF WireTail, Heard
  <2>2. (~broken /\ samples[emit] > 0 =>
           wire # <<>> /\ wire[Len(wire)] = <<emit, reqId[emit], samples[emit]>>)'
    BY <1>3 DEF WireTail, TypeOK, OutType
  <2> QED BY <2>1, <2>2 DEF WireTail
<1>14. WireInOrder'
  BY DEF WireInOrder
<1>15. Accounted'
  <2> SUFFICES ASSUME ~broken, NEW k \in Chunk
               PROVE  IF k <= emit THEN Cardinality(Heard(k)) = samples'[k] /\ pend'[k] = <<>>
                                   ELSE Len(pend'[k]) = samples'[k] /\ Heard(k) = {}
    BY DEF Accounted, Heard
  <2>1. CASE k = Mine
    BY <1>3, <1>12, <2>1, FS_EmptySet
  <2>2. CASE k # Mine
    BY <1>3, <2>2 DEF Accounted
  <2> QED BY <2>1, <2>2
<1>16. FinishPlace'
  BY <1>1, <1>3 DEF FinishPlace
<1> QED BY <1>2, <1>6, <1>7, <1>8, <1>9, <1>10, <1>11, <1>13, <1>14, <1>15, <1>16

(* A take that overruns its cap is regenerated when it is not live. *)
LEMMA CbOverrunInv ==
  ASSUME IInv, CbOverrun
  PROVE  IInv'
<1>1. TypeOK'
  BY IInvTypes, TypesCbOverrun DEF Types
<1>2. Mine # emit
  BY DEF CbOverrun, CutOrRetry, Live
<1> QED BY <1>1, <1>2, RegenerateInv DEF CbOverrun

(* A take that ends, and is not regenerated, makes its chunk done. *)
LEMMA ChunkDoneInv ==
  ASSUME IInv, CbClose, ~CameBackEmpty
  PROVE  IInv'
<1> USE DEF IInv, conn, out, sched
<1>1. TypeOK'
  BY IInvTypes, TypesCbClose DEF Types
<1>2. /\ wpc = "close" /\ st # "free"
      /\ done' = done \cup {Mine} /\ inFlight' = inFlight - 1
      /\ wpc' = IF Mine = emit THEN "advance" ELSE "end"
      /\ wrc' = IF wcut THEN 1 ELSE 0
      /\ UNCHANGED <<retry, retries, pend, samples>>
      /\ UNCHANGED <<conn, firstAudio, reqId, out, sched, missed, wreq, wn, wfinal, wcut, poll>>
  BY DEF CbClose, Live
<1> HIDE DEF conn, out, sched
<1>3. /\ wreq \in Generating /\ wreq \in ReqId /\ Mine \in Chunk
      /\ Mine \notin retry \cup done /\ reqId[Mine] = wreq /\ Mine >= emit
      /\ Alive = Generating
  BY <1>2, Speaking
<1>4. Swept' /\ PollPlace' /\ Alive' = Alive
  BY <1>2, CallbackSwept DEF InCallback, conn
<1> USE DEF conn, out, sched
<1>5. Mine' = Mine
  BY <1>2 DEF Mine
<1>6. wfinal \/ wrc' # 0
  BY <1>2 DEF WorkerPlace
<1>7. Generating' = Generating \ {wreq}
  BY <1>2, <1>3, <1>4, <1>6 DEF Generating, Ending
<1>8. WorkerPlace'
  BY <1>2, <1>3, <1>6 DEF WorkerPlace, InCallback
<1>9. \A q \in Generating \ {wreq} : q \in ReqId /\ ofChunk[q] \in Chunk \ {Mine}
  BY <1>2, OtherChunks
<1>10. SlotsOwn'
  <2>1. (\A k \in Chunk : reqId[k] # NoReq => ofChunk[reqId[k]] = k /\ rst[reqId[k]] # "none")'
    BY <1>2 DEF SlotsOwn
  <2>2. (\A k \in Chunk : reqId[k] = NoReq => k \notin retry \cup done /\ samples[k] = 0)'
    BY <1>2, <1>3 DEF SlotsOwn, ReqId, NoReq
  <2>3. (\A q \in Generating : reqId[ofChunk[q]] = q /\ ofChunk[q] \notin retry \cup done)'
    BY <1>2, <1>7, <1>9 DEF SlotsOwn
  <2>4. (\A q \in Alive : q \in Generating \/ wpc = "end" \/ reqId[ofChunk[q]] = q)'
    BY <1>2, <1>3, <1>4, <1>7 DEF Mine
  <2>5. (\A k \in retry : k \notin done /\ samples[k] = 0)'
    BY <1>2, <1>3 DEF SlotsOwn
  <2> QED BY <1>2, <2>1, <2>2, <2>3, <2>4, <2>5 DEF SlotsOwn
<1>11. Counted'
  <2>1. Cardinality(Generating') = Cardinality(Generating) - 1
    BY <1>3, <1>7, OneFewer
  <2> QED BY <1>2, <2>1, GeneratingFinite, ChainConstants DEF Counted, TypeOK, ConnType
<1>12. EmitPlace'
  BY <1>2, <1>5 DEF EmitPlace
<1>13. TakeCounted'
  <2>1. (\A q \in ReqId : rst[q] \in {"none", "queued"} => made[q] = 0)'
    BY <1>2 DEF TakeCounted
  <2>2. ASSUME NEW q \in Generating'
        PROVE  made'[q] = samples'[ofChunk'[q]] + 0
    <3>1. q \in Generating \ {wreq}
      BY <1>7
    <3> QED BY <1>2, <3>1 DEF TakeCounted
  <2> QED BY <1>2, <2>1, <2>2 DEF TakeCounted
<1>14. Buffered'
  BY <1>2 DEF Buffered
<1>15. WireTail'
  BY <1>2 DEF WireTail, Heard
<1>16. WireInOrder'
  BY <1>2 DEF WireInOrder
<1>17. Accounted'
  BY <1>2 DEF Accounted, Heard
<1>18. FinishPlace'
  BY <1>2, <1>3 DEF FinishPlace
<1> QED BY <1>1, <1>4, <1>8, <1>10, <1>11, <1>12, <1>13, <1>14, <1>15, <1>16, <1>17, <1>18

(* The end of a take. *)
LEMMA CbCloseInv ==
  ASSUME IInv, CbClose
  PROVE  IInv'
<1>1. CASE ~CameBackEmpty
  BY <1>1, ChunkDoneInv
<1>2. CASE CameBackEmpty
  <2>1. TypeOK'
    BY IInvTypes, TypesCbClose DEF Types
  <2>2. wfinal /\ (Mine # emit \/ samples[Mine] = 0) /\ Regenerate(0)
    BY <1>2 DEF CbClose, CameBackEmpty, Live
  <2> QED BY <2>1, <2>2, RegenerateInv DEF CbClose
<1> QED BY <1>1, <1>2

(* chunk_regenerate's last line.  The window has room for the chunk it      *)
(* leaves to the poll loop.                                                 *)
LEMMA SetRetryInv ==
  ASSUME IInv, SetRetry
  PROVE  IInv'
<1> USE DEF IInv
<1>1. TypeOK'
  BY IInvTypes, TypesSetRetry DEF Types
<1>2. /\ wpc = "retry" /\ st # "free" /\ retry' = retry \cup {Mine} /\ wpc' = "end"
      /\ UNCHANGED <<conn, counts, done, retries, pend, samples, reqId, out, sched, missed,
                     wreq, wn, wfinal, wcut, wrc, poll>>
  BY DEF SetRetry
<1>3. wreq \in ReqId /\ Mine \in Chunk
  BY <1>2, IInvTypes, Served
<1>4. Swept' /\ PollPlace' /\ Alive' = Alive
  BY <1>2, CallbackSwept DEF InCallback, conn
<1> USE DEF conn, counts, out, sched
<1>5. Mine' = Mine /\ Generating' = Generating
  BY <1>2, <1>4 DEF Mine, Generating, Ending
<1>6. WorkerPlace'
  BY <1>2 DEF WorkerPlace, InCallback
<1>7. wreq \in Alive \ Generating
  BY <1>2, <1>3 DEF WorkerPlace, InCallback, Alive, Generating, Ending
<1>8. reqId[Mine] = wreq
  BY <1>2, <1>7 DEF SlotsOwn, Mine
<1>9. SlotsOwn'
  <2>1. (\A k \in Chunk : reqId[k] # NoReq => ofChunk[reqId[k]] = k /\ rst[reqId[k]] # "none")'
    BY <1>2 DEF SlotsOwn
  <2>2. (\A k \in Chunk : reqId[k] = NoReq => k \notin retry \cup done /\ samples[k] = 0)'
    BY <1>2, <1>3, <1>8 DEF SlotsOwn, ReqId, NoReq
  <2>3. (\A q \in Generating : reqId[ofChunk[q]] = q /\ ofChunk[q] \notin retry \cup done)'
    BY <1>2, <1>5, <1>7, <1>8 DEF SlotsOwn
  <2>4. (\A k \in retry : k \notin done /\ samples[k] = 0)'
    BY <1>2 DEF SlotsOwn
  <2> QED BY <1>2, <2>1, <2>2, <2>3, <2>4 DEF SlotsOwn
<1>10. Counted'
  BY <1>2, <1>5 DEF Counted
<1>11. EmitPlace'
  BY <1>2 DEF EmitPlace
<1>12. TakeCounted'
  <2>1. (\A q \in ReqId : rst[q] \in {"none", "queued"} => made[q] = 0)'
    BY <1>2 DEF TakeCounted
  <2>2. ASSUME NEW q \in Generating'
        PROVE  made'[q] = samples'[ofChunk'[q]] + 0
    BY <1>2, <1>5 DEF TakeCounted
  <2> QED BY <1>2, <2>1, <2>2 DEF TakeCounted
<1>13. Buffered'
  BY <1>2 DEF Buffered
<1>14. WireTail'
  BY <1>2 DEF WireTail, Heard
<1>15. WireInOrder'
  BY <1>2 DEF WireInOrder
<1>16. Accounted'
  BY <1>2 DEF Accounted, Heard
<1>17. FinishPlace'
  BY <1>2 DEF FinishPlace
<1> QED BY <1>1, <1>4, <1>6, <1>9, <1>10, <1>11, <1>12, <1>13, <1>14, <1>15, <1>16, <1>17

(* The audio of a callback that is not kept: there is none, it is behind    *)
(* the cap, or there is no way to keep it.                                  *)
LEMMA AudioDropped ==
  ASSUME IInv, TypeOK', wpc = "audio", st # "free",
         UNCHANGED <<st, nextSubmit, inFlight, slots, reqId, emit, wire, sched, missed,
                     wreq, wn, wfinal, poll>>,
         \/ wpc' = "close" /\ (wn = 0 \/ wcut') /\ UNCHANGED <<broken, finished, wrc>>
         \/ wpc' = "end" /\ wrc' = 1 /\ (broken' \/ UNCHANGED <<broken, finished>>)
  PROVE  IInv'
<1> USE DEF IInv
<1>1. wreq \in Generating /\ wreq \in ReqId /\ Alive = Generating
  BY Speaking
<1>2. Swept' /\ PollPlace' /\ Alive' = Alive
  BY CallbackSwept DEF InCallback
<1> USE DEF sched
<1>3. Generating' \subseteq Generating
  BY <1>1, <1>2 DEF Generating
<1>4. \A r \in Alive' : r \in Generating' \/ wpc' = "end"
  BY <1>2 DEF Generating, Ending
<1>5. /\ SlotsOwn' /\ Counted' /\ EmitPlace' /\ Buffered' /\ WireTail'
      /\ WireInOrder' /\ Accounted' /\ FinishPlace'
  BY <1>2, <1>3, <1>4, WorkerKeeps
<1>6. WorkerPlace'
  BY <1>1 DEF WorkerPlace, InCallback
<1>7. TakeCounted'
  <2>1. (\A q \in ReqId : rst[q] \in {"none", "queued"} => made[q] = 0)'
    BY DEF TakeCounted
  <2>2. ASSUME NEW q \in Generating'
        PROVE  \/ wreq' = q /\ wpc' = "close" /\ wcut'
               \/ made'[q] = samples'[ofChunk'[q]] + 0
    <3>1. made[q] = samples[ofChunk[q]] + (IF wreq = q THEN wn ELSE 0) /\ q \in Generating
      BY <1>3, <2>2 DEF TakeCounted
    <3>2. CASE q # wreq
      BY <3>1, <3>2 DEF slots
    <3>3. CASE q = wreq /\ wpc' = "close"
      BY <3>1, <3>3 DEF slots
    <3>4. CASE q = wreq /\ wpc' = "end"
      BY <2>2, <3>4 DEF Generating, Ending
    <3> QED BY <3>2, <3>3, <3>4
  <2> QED BY <2>1, <2>2 DEF TakeCounted
<1> QED BY <1>2, <1>5, <1>6, <1>7

(* One more piece of a take, on the wire or in the slot. *)
LEMMA AudioTaken ==
  ASSUME IInv, TypeOK', wpc = "audio", st # "free", wn = 1,
         samples' = [samples EXCEPT ![Mine] = @ + 1],
         wpc' = IF wfinal THEN "close" ELSE "end",
         UNCHANGED <<conn, inFlight, retry, done, retries, reqId, emit, broken, sched,
                     missed, wreq, wn, wfinal, wrc, poll>>
  PROVE  /\ WorkerPlace' /\ PollPlace' /\ SlotsOwn' /\ Counted' /\ EmitPlace'
         /\ TakeCounted' /\ Swept' /\ FinishPlace'
<1> USE DEF IInv
<1>1. /\ wreq \in Generating /\ wreq \in ReqId /\ Mine \in Chunk
      /\ Mine \notin retry \cup done /\ reqId[Mine] = wreq
      /\ Alive = Generating
  BY Speaking
<1>2. Swept' /\ PollPlace' /\ Alive' = Alive
  BY CallbackSwept DEF InCallback, conn
<1>3. samples[Mine] \in Nat /\ samples'[Mine] = samples[Mine] + 1
  BY <1>1, ChainConstants DEF TypeOK, SlotsType
<1>4. \A k \in Chunk \ {Mine} : samples'[k] = samples[k]
  BY DEF TypeOK, SlotsType
<1> USE DEF conn, sched
<1>5. wrc = 0
  BY DEF WorkerPlace
<1>6. Generating' = Generating
  BY <1>1, <1>2, <1>5 DEF Generating, Ending
<1>7. WorkerPlace'
  BY <1>1 DEF WorkerPlace, InCallback
<1>8. SlotsOwn'
  <2>1. (\A k \in Chunk : reqId[k] # NoReq => ofChunk[reqId[k]] = k /\ rst[reqId[k]] # "none")'
    BY DEF SlotsOwn
  <2>2. (\A k \in Chunk : reqId[k] = NoReq => k \notin retry \cup done /\ samples[k] = 0)'
    BY <1>1, <1>4 DEF SlotsOwn, ReqId, NoReq
  <2>3. (\A q \in Generating : reqId[ofChunk[q]] = q /\ ofChunk[q] \notin retry \cup done)'
    BY <1>6 DEF SlotsOwn
  <2>4. (\A k \in retry : k \notin done /\ samples[k] = 0)'
    BY <1>1, <1>4 DEF SlotsOwn, TypeOK, SlotsType
  <2> QED BY <1>1, <1>2, <1>6, <2>1, <2>2, <2>3, <2>4 DEF SlotsOwn
<1>9. Counted'
  BY <1>6 DEF Counted
<1>10. EmitPlace'
  BY DEF EmitPlace
<1>11. TakeCounted'
  <2>1. (\A q \in ReqId : rst[q] \in {"none", "queued"} => made[q] = 0)'
    BY DEF TakeCounted
  <2>2. ASSUME NEW q \in Generating'
        PROVE  made'[q] = samples'[ofChunk'[q]] + 0
    <3>1. CASE q = wreq
      <4>1. made[q] = samples[Mine] + 1
        BY <1>1, <3>1 DEF TakeCounted, Mine
      <4>2. ofChunk'[q] = Mine
        BY <3>1 DEF Mine
      <4> QED BY <1>3, <4>1, <4>2
    <3>2. CASE q # wreq
      <4>1. q \in Generating \ {wreq} /\ ofChunk[q] \in Chunk \ {Mine}
        BY <1>6, <3>2, OtherChunks
      <4>2. made[q] = samples[ofChunk[q]] + 0
        BY <3>2, <4>1 DEF TakeCounted
      <4> QED BY <1>4, <4>1, <4>2
    <3> QED BY <3>1, <3>2
  <2> QED BY <2>1, <2>2 DEF TakeCounted
<1>12. FinishPlace'
  BY DEF FinishPlace
<1> QED BY <1>2, <1>7, <1>8, <1>9, <1>10, <1>11, <1>12

(* The piece a callback brings is the next one of its take. *)
LEMMA NextPiece ==
  ASSUME IInv, wpc = "audio", wn = 1
  PROVE  <<Mine, wreq, made[wreq]>> = <<Mine, reqId[Mine], samples[Mine] + 1>>
<1>1. wreq \in Generating /\ reqId[Mine] = wreq
  BY Speaking
<1>2. made[wreq] = samples[Mine] + 1
  BY <1>1 DEF IInv, TakeCounted, Mine
<1> QED BY <1>1, <1>2

(* A piece for the slot. *)
LEMMA AudioBuffered ==
  ASSUME IInv, TypeOK', wpc = "audio", st # "free", wn = 1, ~Live,
         pend' = [pend EXCEPT ![Mine] = Append(@, <<Mine, wreq, made[wreq]>>)],
         samples' = [samples EXCEPT ![Mine] = @ + 1],
         wpc' = IF wfinal THEN "close" ELSE "end",
         UNCHANGED <<conn, inFlight, retry, done, retries, reqId, emit, wire, broken, sched,
                     missed, wreq, wn, wfinal, wrc, poll>>
  PROVE  IInv'
<1> USE DEF IInv
<1>1. /\ WorkerPlace' /\ PollPlace' /\ SlotsOwn' /\ Counted' /\ EmitPlace'
      /\ TakeCounted' /\ Swept' /\ FinishPlace'
  BY AudioTaken
<1>2. Mine \in Chunk /\ Mine > emit /\ emit \in Chunk /\ Mine # emit
  BY Speaking, ChainConstants DEF Live, TypeOK, OutType, Chunk
<1>3. samples[Mine] \in Nat /\ samples'[Mine] = samples[Mine] + 1
  BY <1>2, ChainConstants DEF TypeOK, SlotsType
<1>4. \A k \in Chunk \ {Mine} : samples'[k] = samples[k] /\ pend'[k] = pend[k]
  BY DEF TypeOK, SlotsType
<1>5. /\ Len(pend[Mine]) = samples[Mine]
      /\ \A i \in DOMAIN pend[Mine] : pend[Mine][i] = <<Mine, reqId[Mine], i>>
  BY <1>2 DEF Buffered
<1>6. /\ Len(pend'[Mine]) = samples'[Mine]
      /\ \A i \in DOMAIN pend'[Mine] : pend'[Mine][i] = <<Mine, reqId[Mine], i>>
  <2> DEFINE p == <<Mine, reqId[Mine], samples[Mine] + 1>>
  <2>1. pend[Mine] \in Seq(Piece) /\ pend'[Mine] = Append(pend[Mine], p)
    BY <1>2, NextPiece DEF TypeOK, SlotsType
  <2>2. /\ Len(pend'[Mine]) = Len(pend[Mine]) + 1
        /\ DOMAIN pend'[Mine] = 1 .. Len(pend[Mine]) + 1
        /\ pend'[Mine][Len(pend[Mine]) + 1] = p
        /\ \A i \in 1 .. Len(pend[Mine]) : pend'[Mine][i] = pend[Mine][i]
    BY <2>1
  <2>3. \A i \in 1 .. samples[Mine] + 1 : i \in 1 .. samples[Mine] \/ i = samples[Mine] + 1
    BY <1>3
  <2>4. DOMAIN pend[Mine] = 1 .. samples[Mine]
    BY <1>5, <2>1
  <2> QED BY <1>3, <1>5, <2>2, <2>3, <2>4
<1>7. Buffered'
  BY <1>4, <1>6 DEF Buffered
<1>8. WireTail'
  <2>1. \A k \in Chunk : samples'[k] = 0 => samples[k] = 0
    BY <1>3, <1>4
  <2>2. samples'[emit] = samples[emit]
    BY <1>2, <1>4
  <2> QED BY <2>1, <2>2 DEF WireTail, Heard
<1>9. WireInOrder'
  BY DEF WireInOrder
<1>10. Accounted'
  <2>1. emit \in Int /\ Mine \in Int
    BY <1>2, ChainConstants DEF Chunk
  <2> SUFFICES ASSUME ~broken, NEW k \in Chunk
               PROVE  IF k <= emit THEN Cardinality(Heard(k)) = samples'[k] /\ pend'[k] = <<>>
                                   ELSE Len(pend'[k]) = samples'[k] /\ Heard(k) = {}
    BY DEF Accounted, Heard
  <2>2. CASE k = Mine
    BY <1>2, <1>6, <2>1, <2>2 DEF Accounted
  <2>3. CASE k # Mine
    BY <1>4, <2>3 DEF Accounted
  <2> QED BY <2>2, <2>3
<1> QED BY <1>1, <1>7, <1>8, <1>9, <1>10

(* A piece for the wire. *)
LEMMA AudioHeard ==
  ASSUME IInv, TypeOK', wpc = "audio", st # "free", wn = 1, Live,
         Sent(<< <<Mine, wreq, made[wreq]>> >>),
         samples' = [samples EXCEPT ![Mine] = @ + 1],
         wpc' = IF wfinal THEN "close" ELSE "end",
         UNCHANGED <<conn, inFlight, retry, done, retries, pend, reqId, emit, sched,
                     missed, wreq, wn, wfinal, wrc, poll>>
  PROVE  IInv'
<1>1. broken' = broken /\ Mine = emit /\ Mine \in Chunk
  BY Speaking DEF Sent, Live
<1>2. /\ WorkerPlace' /\ PollPlace' /\ SlotsOwn' /\ Counted' /\ EmitPlace'
      /\ TakeCounted' /\ Swept' /\ FinishPlace'
  BY <1>1, AudioTaken
<1> USE DEF IInv
<1>3. samples[Mine] \in Nat /\ samples'[Mine] = samples[Mine] + 1
  BY <1>1, ChainConstants DEF TypeOK, SlotsType
<1>4. \A k \in Chunk \ {Mine} : samples'[k] = samples[k]
  BY DEF TypeOK, SlotsType
<1>5. Buffered'
  <2>1. \A k \in Chunk : k > emit => k # Mine
    BY <1>1, ChainConstants DEF Chunk
  <2> QED BY <1>4, <2>1 DEF Buffered
<1>6. CASE broken
  <2>1. wire' = wire
    BY <1>6 DEF Sent
  <2>2. WireTail'
    <3>1. \A k \in Chunk : samples'[k] = 0 => samples[k] = 0
      BY <1>3, <1>4
    <3> QED BY <1>1, <1>6, <2>1, <3>1 DEF WireTail, Heard
  <2>3. WireInOrder'
    BY <2>1 DEF WireInOrder
  <2>4. Accounted'
    BY <1>1, <1>6 DEF Accounted
  <2> QED BY <1>2, <1>5, <2>2, <2>3, <2>4
<1>7. CASE ~broken
  <2> DEFINE m == samples[Mine]
             r == reqId[Mine]
             s == << <<Mine, r, m + 1>> >>
  <2>1. wire' = wire \o s /\ wire \in Seq(Piece) /\ WireInOrder
    BY <1>7, NextPiece DEF Sent, TypeOK, OutType
  <2>2. s \in Seq(Piece) /\ Len(s) = 1 /\ \A i \in DOMAIN s : s[i] = <<Mine, r, m + i>>
    <3>1. <<Mine, r, m + 1>> \in Piece
      BY Served, IInvTypes, NextPiece
    <3> QED BY <3>1
  <2>3. m = 0 => \A i \in DOMAIN wire : wire[i][1] < Mine
    <3>1. \A i \in DOMAIN wire : wire[i][1] \in Int /\ wire[i][1] <= Mine
      BY <1>1, <2>1, PieceOfChunk DEF WireTail
    <3>2. m = 0 => \A i \in DOMAIN wire : wire[i][1] # Mine
      BY <1>1 DEF WireTail, Heard
    <3>3. Mine \in Int
      BY <1>1, ChainConstants DEF Chunk
    <3> QED BY <3>1, <3>2, <3>3
  <2>4. m > 0 => wire # <<>> /\ wire[Len(wire)] = <<Mine, r, m>>
    BY <1>1, <1>7 DEF WireTail
  <2>5. Mine \in Int /\ m \in Nat
    BY <1>1, <1>3, ChainConstants DEF Chunk
  <2> HIDE DEF m, r, s, IInv
  <2>6. ASSUME NEW k, k = Mine
        PROVE  /\ WireInOrder'
               /\ \A j : j # k => Heard(j)' = Heard(j)
               /\ Cardinality(Heard(k)') = Cardinality(Heard(k)) + Len(s)
               /\ \A i \in DOMAIN wire' : (i \in DOMAIN wire /\ wire'[i] = wire[i]) \/ wire'[i][1] = k
               /\ Len(s) > 0 => wire' # <<>> /\ wire'[Len(wire')] = <<k, r, m + Len(s)>>
    <3>1. Carries(s, k, r, m)
      BY <2>1, <2>2, <2>3, <2>4, <2>6 DEF Carries
    <3> QED BY <2>1, <2>2, <2>5, <2>6, <3>1, WireGrows
  <2> USE DEF IInv
  <2>7. WireTail'
    <3>1. (\A i \in DOMAIN wire : wire[i][1] <= emit)'
      BY <1>1, <2>5, <2>6 DEF WireTail
    <3>2. ASSUME NEW k \in Chunk, samples'[k] = 0
          PROVE  Heard(k)' = {}
      <4>1. k # Mine /\ samples[k] = 0
        BY <1>3, <1>4, <3>2
      <4> QED BY <2>6, <4>1 DEF WireTail
    <3>3. wire' # <<>> /\ wire'[Len(wire')] = <<Mine, r, m + 1>>
      BY <2>2, <2>6
    <3>4. <<Mine, r, m + 1>> = <<emit', reqId'[emit'], samples'[emit']>>
      BY <1>1, <1>3 DEF m, r
    <3>5. (\A k \in Chunk : samples[k] = 0 => Heard(k) = {})'
      BY <3>2
    <3> QED BY <3>1, <3>3, <3>4, <3>5 DEF WireTail
  <2>8. Accounted'
    <3> SUFFICES ASSUME NEW k \in Chunk
                 PROVE  IF k <= emit THEN Cardinality(Heard(k)') = samples'[k] /\ pend[k] = <<>>
                                     ELSE Len(pend[k]) = samples'[k] /\ Heard(k)' = {}
      BY DEF Accounted
    <3>1. IF k <= emit THEN Cardinality(Heard(k)) = samples[k] /\ pend[k] = <<>>
                       ELSE Len(pend[k]) = samples[k] /\ Heard(k) = {}
      BY <1>7 DEF Accounted
    <3>2. CASE k = Mine
      <4>1. Cardinality(Heard(k)') = Cardinality(Heard(k)) + 1
        BY <2>2, <2>6, <3>2
      <4> QED BY <1>1, <1>3, <2>5, <3>1, <3>2, <4>1
    <3>3. CASE k # Mine
      <4>1. Heard(k)' = Heard(k)
        BY <2>6, <3>3
      <4> QED BY <1>4, <3>1, <3>3, <4>1
    <3> QED BY <3>2, <3>3
  <2> QED BY <1>2, <1>5, <2>6, <2>7, <2>8
<1> QED BY <1>6, <1>7

(* The audio of a callback. *)
LEMMA CbAudioInv ==
  ASSUME IInv, CbAudio
  PROVE  IInv'
<1>1. TypeOK'
  BY IInvTypes, TypesCbAudio DEF Types
<1>2. /\ wpc = "audio" /\ st # "free" /\ wcut' = Over /\ wn \in {0, 1}
      /\ UNCHANGED <<st, nextSubmit, inFlight, retry, done, retries, reqId, emit, buffered,
                     sched, missed, wreq, wn, wfinal, poll>>
  BY DEF CbAudio, IInv, TypeOK, WorkerType
<1>3. CASE /\ wn = 0 \/ Over
           /\ wpc' = "close"
           /\ UNCHANGED <<firstAudio, pend, samples, wire, broken, finished, wrc>>
  BY <1>1, <1>2, <1>3, AudioDropped DEF slots
<1>4. CASE /\ wn = 1 /\ Live /\ Sent(<< <<Mine, wreq, made[wreq]>> >>)
           /\ samples' = [samples EXCEPT ![Mine] = @ + 1]
           /\ wpc' = IF wfinal THEN "close" ELSE "end"
           /\ UNCHANGED <<pend, finished, wrc>>
  BY <1>1, <1>2, <1>4, AudioHeard DEF conn
<1>5. CASE /\ wn = 1 /\ ~Live
           /\ pend' = [pend EXCEPT ![Mine] = Append(@, <<Mine, wreq, made[wreq]>>)]
           /\ samples' = [samples EXCEPT ![Mine] = @ + 1]
           /\ wpc' = IF wfinal THEN "close" ELSE "end"
           /\ UNCHANGED <<wire, broken, finished, wrc>>
  BY <1>1, <1>2, <1>5, AudioBuffered DEF conn
<1>6. CASE SendFails /\ wpc' = "end" /\ wrc' = 1 /\ UNCHANGED <<pend, samples>>
  BY <1>1, <1>2, <1>6, AudioDropped DEF slots, SendFails
<1>7. CASE /\ wpc' = "end" /\ wrc' = 1
           /\ UNCHANGED <<pend, samples, wire, broken, finished>>
  BY <1>1, <1>2, <1>7, AudioDropped DEF slots
<1> QED BY <1>3, <1>4, <1>5, <1>6, <1>7 DEF CbAudio

-----------------------------------------------------------------------------
(* chain_advance.                                                           *)

(* What a turn of its loop leaves alone. *)
LEMMA AdvanceKeeps ==
  ASSUME IInv, TypeOK', wpc = "advance", st # "free",
         UNCHANGED <<st, nextSubmit, counts, retry, done, retries, samples, reqId, buffered,
                     sched, missed, wreq, wn, wfinal, wcut, poll>>,
         wpc' \in {"advance", "end"}, wrc' = wrc \/ wrc' = 1
  PROVE  /\ WorkerPlace' /\ PollPlace' /\ SlotsOwn' /\ Counted' /\ TakeCounted'
         /\ Swept' /\ Mine' = Mine /\ emit \in done
         /\ \A k \in Chunk : k <= emit => k \in done
<1> USE DEF IInv
<1>1. Swept' /\ PollPlace' /\ Alive' = Alive
  BY CallbackSwept DEF InCallback
<1> USE DEF sched, counts
<1>2. (wfinal \/ wrc # 0) /\ (wfinal' \/ wrc' # 0)
  BY DEF WorkerPlace
<1>3. Generating' = Generating /\ Mine' = Mine
  BY <1>1, <1>2 DEF Generating, Ending, Mine
<1>4. WorkerPlace'
  BY <1>2 DEF WorkerPlace, InCallback
<1>5. SlotsOwn'
  BY <1>1, <1>3 DEF SlotsOwn
<1>6. Counted'
  BY <1>3 DEF Counted
<1>7. TakeCounted'
  <2>1. (\A q \in ReqId : rst[q] \in {"none", "queued"} => made[q] = 0)'
    BY DEF TakeCounted
  <2>2. ASSUME NEW q \in Generating'
        PROVE  made'[q] = samples'[ofChunk'[q]] + 0
    BY <1>3 DEF TakeCounted
  <2> QED BY <2>1, <2>2 DEF TakeCounted
<1>8. emit \in done /\ \A k \in Chunk : k <= emit => k \in done
  BY ChainConstants DEF EmitPlace, TypeOK, OutType, Chunk
<1> QED BY <1>1, <1>3, <1>4, <1>5, <1>6, <1>7, <1>8

(* Behind the last chunk every chunk is done. *)
LEMMA LastTurnInv ==
  ASSUME IInv, TypeOK', wpc = "advance", st # "free", LastTurn,
         finished' = TRUE, wpc' = "end",
         UNCHANGED <<st, nextSubmit, counts, slots, reqId, out,
                     sched, missed, wreq, wn, wfinal, wcut, wrc, poll>>
  PROVE  IInv'
<1> USE DEF IInv
<1>1. /\ WorkerPlace' /\ PollPlace' /\ SlotsOwn' /\ Counted' /\ TakeCounted'
      /\ Swept' /\ \A k \in Chunk : k <= emit => k \in done
  BY AdvanceKeeps DEF slots, out
<1> USE DEF slots, out
<1>2. done' = Chunk
  <2>1. \A k \in Chunk : k <= emit
    BY ChainConstants DEF LastTurn, Chunk, TypeOK, OutType
  <2> QED BY <1>1, <2>1 DEF TypeOK, SlotsType
<1>3. EmitPlace' /\ FinishPlace'
  BY <1>2 DEF EmitPlace, FinishPlace
<1>4. Buffered'
  BY DEF Buffered
<1>5. WireTail' /\ WireInOrder' /\ Accounted'
  <2>1. WireTail'
    BY DEF WireTail, Heard
  <2>2. WireInOrder'
    BY DEF WireInOrder
  <2>3. Accounted'
    BY DEF Accounted, Heard
  <2> QED BY <2>1, <2>2, <2>3
<1> QED BY <1>1, <1>3, <1>4, <1>5

(* A failed write, of the boundary or of what was buffered, ends the take. *)
LEMMA SendFailsInv ==
  ASSUME IInv, TypeOK', wpc = "advance", st # "free", SendFails,
         emit' \in {emit, emit + 1} \cap Chunk, wpc' = "end", wrc' = 1, UNCHANGED pend,
         UNCHANGED <<st, nextSubmit, counts, retry, done, retries, samples, reqId, buffered,
                     sched, missed, wreq, wn, wfinal, wcut, poll>>
  PROVE  IInv'
<1> USE DEF IInv
<1>1. /\ WorkerPlace' /\ PollPlace' /\ SlotsOwn' /\ Counted' /\ TakeCounted'
      /\ Swept' /\ \A k \in Chunk : k <= emit => k \in done
  BY AdvanceKeeps
<1>2. broken' /\ wire' = wire
  BY DEF SendFails
<1>3. emit \in Int /\ emit' \in Int /\ (emit' = emit \/ emit' = emit + 1) /\ Chunk \subseteq Int
  BY ChainConstants DEF Chunk, TypeOK, OutType
<1>4. EmitPlace'
  BY <1>1, <1>3 DEF EmitPlace
<1>5. Buffered'
  BY <1>3 DEF Buffered
<1>6. WireTail'
  <2>1. wire \in Seq(Piece)
    BY DEF TypeOK, OutType
  <2>2. \A i \in DOMAIN wire : wire[i][1] \in Int
    BY <2>1, PieceOfChunk
  <2>3. \A i \in DOMAIN wire : wire[i][1] <= emit'
    BY <1>3, <2>2 DEF WireTail
  <2> QED BY <1>2, <2>3 DEF WireTail, Heard
<1>7. WireInOrder' /\ Accounted' /\ FinishPlace'
  BY <1>2 DEF WireInOrder, Accounted, FinishPlace
<1> QED BY <1>1, <1>4, <1>5, <1>6, <1>7

(* The wire goes to the next chunk, with what that has buffered. *)
LEMMA HandOverInv ==
  ASSUME IInv, TypeOK', wpc = "advance", st # "free", ~LastTurn, Sent(Flush(emit + 1)),
         emit' = emit + 1, pend' = [pend EXCEPT ![emit + 1] = <<>>],
         wpc' = IF emit + 1 \in done THEN "advance" ELSE "end",
         UNCHANGED <<finished, wrc>>,
         UNCHANGED <<st, nextSubmit, counts, retry, done, retries, samples, reqId, buffered,
                     sched, missed, wreq, wn, wfinal, wcut, poll>>
  PROVE  IInv'
<1> USE DEF IInv
<1>1. /\ WorkerPlace' /\ PollPlace' /\ SlotsOwn' /\ Counted' /\ TakeCounted'
      /\ Swept' /\ Mine' = Mine
      /\ \A k \in Chunk : k <= emit => k \in done
  BY AdvanceKeeps
<1>2. PICK n \in Chunk : n = emit + 1
  BY ChainConstants DEF LastTurn, Chunk, TypeOK, OutType
<1>3. n \in Int /\ emit \in Int /\ emit' = n /\ n > emit /\ Chunk \subseteq Int
  BY <1>2, ChainConstants DEF Chunk, TypeOK, OutType
<1>4. \A k \in Chunk : k <= n <=> k <= emit \/ k = n
  BY <1>2, <1>3
<1>5. EmitPlace'
  <2>1. (\A k \in Chunk : k < emit => k \in done)'
    BY <1>1, <1>2, <1>3
  <2>2. (wpc = "advance" => emit \in done /\ Mine \in done)'
    BY <1>1 DEF EmitPlace
  <2> QED BY <2>1, <2>2 DEF EmitPlace
<1>6. pend'[n] = <<>> /\ \A k \in Chunk \ {n} : pend'[k] = pend[k]
  BY <1>2 DEF TypeOK, SlotsType
<1>7. Buffered'
  <2>1. \A k \in Chunk : k > emit' => k > emit /\ k # n
    BY <1>2, <1>3
  <2> QED BY <1>6, <2>1 DEF Buffered
<1>8. FinishPlace'
  BY DEF FinishPlace, Sent
<1>9. broken' = broken
  BY DEF Sent
<1>10. CASE broken
  <2>1. wire' = wire
    BY <1>10 DEF Sent
  <2>2. \A i \in DOMAIN wire : wire[i][1] \in Int
    BY PieceOfChunk DEF TypeOK, OutType
  <2>3. \A i \in DOMAIN wire : wire[i][1] <= n
    BY <1>3, <2>2 DEF WireTail
  <2>4. WireTail'
    BY <1>3, <1>9, <1>10, <2>1, <2>3 DEF WireTail, Heard
  <2>5. WireInOrder' /\ Accounted'
    BY <1>9, <1>10, <2>1 DEF WireInOrder, Accounted
  <2> QED BY <1>1, <1>5, <1>7, <1>8, <2>4, <2>5
<1>11. CASE ~broken
  <2> DEFINE s == pend[n]
             r == reqId[n]
  <2>1. /\ wire' = wire \o s /\ wire \in Seq(Piece) /\ WireInOrder
        /\ s \in Seq(Piece) /\ Len(s) = samples[n] /\ samples[n] \in Nat
    BY <1>2, <1>3, <1>11, ChainConstants
    DEF Sent, Flush, Buffered, TypeOK, OutType, SlotsType
  <2>2. \A i \in DOMAIN s : s[i] = <<n, r, 0 + i>>
    BY <1>3, <2>1 DEF Buffered
  <2>3. \A i \in DOMAIN wire : wire[i][1] < n
    <3>1. \A i \in DOMAIN wire : wire[i][1] \in Int
      BY <2>1, PieceOfChunk
    <3> QED BY <1>3, <3>1 DEF WireTail
  <2> HIDE DEF IInv, s, r
  <2>4. Carries(s, n, r, 0)
    BY <2>1, <2>2, <2>3 DEF Carries
  <2>5. /\ WireInOrder'
        /\ \A j : j # n => Heard(j)' = Heard(j)
        /\ Cardinality(Heard(n)') = Cardinality(Heard(n)) + Len(s)
        /\ \A i \in DOMAIN wire' : (i \in DOMAIN wire /\ wire'[i] = wire[i]) \/ wire'[i][1] = n
        /\ Len(s) = 0 => Heard(n)' = Heard(n)
        /\ Len(s) > 0 => wire' # <<>> /\ wire'[Len(wire')] = <<n, r, 0 + Len(s)>>
    BY <1>3, <2>1, <2>4, WireGrows
  <2> USE DEF IInv
  <2>6. Heard(n) = {}
    <3>1. \A i \in DOMAIN wire : wire[i][1] \in Int
      BY <2>1, PieceOfChunk
    <3>2. \A i \in DOMAIN wire : wire[i][1] # n
      BY <1>3, <2>3, <3>1
    <3> QED BY <3>2 DEF Heard
  <2>7. WireTail'
    <3>1. \A i \in DOMAIN wire' : wire'[i][1] <= n
      <4>1. \A i \in DOMAIN wire : wire[i][1] <= n
        <5>1. \A i \in DOMAIN wire : wire[i][1] \in Int
          BY <2>1, PieceOfChunk
        <5> QED BY <1>3, <2>3, <5>1
      <4> QED BY <1>3, <2>5, <4>1
    <3>2. ASSUME NEW k \in Chunk, samples'[k] = 0
          PROVE  Heard(k)' = {}
      BY <2>1, <2>5, <2>6, <3>2 DEF WireTail
    <3>3. samples[n] > 0 =>
            wire' # <<>> /\ wire'[Len(wire')] = <<n, reqId[n], samples[n]>>
      <4>1. 0 + Len(s) = samples[n]
        BY <2>1
      <4> QED BY <2>1, <2>5, <4>1 DEF r
    <3>4. (\A k \in Chunk : samples[k] = 0 => Heard(k) = {})'
      BY <3>2
    <3>5. (~broken /\ samples[emit] > 0 =>
             wire # <<>> /\ wire[Len(wire)] = <<emit, reqId[emit], samples[emit]>>)'
      BY <1>3, <3>3
    <3>6. (\A i \in DOMAIN wire : wire[i][1] <= emit)'
      BY <1>3, <3>1
    <3> QED BY <3>4, <3>5, <3>6 DEF WireTail
  <2>8. Accounted'
    <3> SUFFICES ASSUME NEW k \in Chunk
                 PROVE  IF k <= n THEN Cardinality(Heard(k)') = samples[k] /\ pend'[k] = <<>>
                                  ELSE Len(pend'[k]) = samples[k] /\ Heard(k)' = {}
      BY <1>3 DEF Accounted
    <3>1. IF k <= emit THEN Cardinality(Heard(k)) = samples[k] /\ pend[k] = <<>>
                       ELSE Len(pend[k]) = samples[k] /\ Heard(k) = {}
      BY <1>11 DEF Accounted
    <3>2. CASE k = n
      <4>1. Cardinality({}) = 0
        BY FS_EmptySet
      <4>2. Cardinality(Heard(n)') = samples[n]
        BY <2>1, <2>5, <2>6, <4>1
      <4> QED BY <1>3, <1>6, <3>2, <4>2
    <3>3. CASE k # n
      <4>1. Heard(k)' = Heard(k) /\ pend'[k] = pend[k]
        BY <1>6, <2>5, <3>3
      <4> QED BY <1>4, <3>1, <3>3, <4>1
    <3> QED BY <3>2, <3>3
  <2> QED BY <1>1, <1>5, <1>7, <1>8, <2>5, <2>7, <2>8
<1> QED BY <1>10, <1>11

(* A turn of the loop in chain_advance. *)
LEMMA CbAdvanceInv ==
  ASSUME IInv, CbAdvance
  PROVE  IInv'
<1>1. TypeOK'
  BY IInvTypes, TypesCbAdvance DEF Types
<1>2. /\ wpc = "advance" /\ st # "free"
      /\ UNCHANGED <<st, nextSubmit, counts, retry, done, retries, samples, reqId, buffered,
                     sched, missed, wreq, wn, wfinal, wcut, poll>>
  BY DEF CbAdvance
<1>3. CASE /\ LastTurn
           /\ finished' = TRUE /\ wpc' = "end"
           /\ UNCHANGED <<emit, pend, wire, broken, wrc>>
  BY <1>1, <1>2, <1>3, LastTurnInv DEF slots, out
<1>4. CASE /\ ~LastTurn /\ Sent(Flush(emit + 1))
           /\ emit' = emit + 1
           /\ pend' = [pend EXCEPT ![emit + 1] = <<>>]
           /\ wpc' = IF emit + 1 \in done THEN "advance" ELSE "end"
           /\ UNCHANGED <<finished, wrc>>
  BY <1>1, <1>2, <1>4, HandOverInv
<1>5. CASE /\ SendFails
           /\ emit' \in {emit, emit + 1} \cap Chunk
           /\ wpc' = "end" /\ wrc' = 1
           /\ UNCHANGED pend
  BY <1>1, <1>2, <1>5, SendFailsInv
<1> QED BY <1>3, <1>4, <1>5 DEF CbAdvance

-----------------------------------------------------------------------------
(* All steps.                                                               *)

(* Nothing is submitted yet. *)
LEMMA InitInv == Init => IInv
<1> SUFFICES ASSUME Init PROVE IInv
  OBVIOUS
<1>1. TypeOK /\ Types
  BY InitTypes DEF Types
<1> USE ChainConstants DEF Init
<1>2. Alive = {} /\ Generating = {}
  BY DEF Alive, Generating
<1>3. WorkerPlace /\ PollPlace
  BY DEF WorkerPlace, PollPlace, InCallback
<1>4. SlotsOwn
  BY <1>2 DEF SlotsOwn
<1>5. Counted
  <2>1. Cardinality({}) = 0
    BY FS_EmptySet
  <2> QED BY <1>2, <2>1 DEF Counted
<1>6. EmitPlace
  BY DEF EmitPlace, Chunk
<1>7. TakeCounted
  BY <1>2 DEF TakeCounted
<1>8. Buffered
  BY DEF Buffered
<1>9. \A k \in Chunk : Heard(k) = {}
  BY DEF Heard
<1>10. WireTail /\ WireInOrder
  <2>1. samples[emit] = 0
    BY DEF Chunk
  <2> QED BY <1>9, <2>1 DEF WireTail, WireInOrder
<1>11. Accounted
  <2>1. Cardinality({}) = 0
    BY FS_EmptySet
  <2> QED BY <1>9, <2>1 DEF Accounted
<1>12. Swept /\ FinishPlace
  BY DEF Swept, FinishPlace
<1> QED BY <1>1, <1>3, <1>4, <1>5, <1>6, <1>7, <1>8, <1>10, <1>11, <1>12 DEF IInv

(* A stuttering step. *)
LEMMA StutterInv ==
  ASSUME IInv, UNCHANGED vars
  PROVE  IInv'
<1> USE DEF IInv, vars, conn, counts, slots, out, sched, worker, poll
<1>1. TypeOK'
  <2> HIDE DEF IInv, vars, conn, counts, slots, out, sched, worker, poll
  <2> QED BY IInvTypes, NextTypes DEF Types
<1>2. Alive' = Alive /\ Generating' = Generating /\ Mine' = Mine
  BY DEF Alive, Generating, Ending, Mine
<1>3. WorkerPlace' /\ PollPlace'
  BY DEF WorkerPlace, PollPlace
<1>4. SlotsOwn'
  BY <1>2 DEF SlotsOwn
<1>5. Counted'
  BY <1>2 DEF Counted
<1>6. EmitPlace' /\ FinishPlace'
  BY <1>2 DEF EmitPlace, FinishPlace
<1>7. TakeCounted'
  BY <1>2 DEF TakeCounted
<1>8. Buffered'
  BY DEF Buffered
<1>9. WireTail'
  BY DEF WireTail, Heard
<1>10. WireInOrder'
  BY DEF WireInOrder
<1>11. Accounted'
  BY DEF Accounted, Heard
<1>12. Swept'
  BY <1>2 DEF Swept, Silenced, Ending
<1> QED BY <1>1, <1>3, <1>4, <1>5, <1>6, <1>7, <1>8, <1>9, <1>10, <1>11, <1>12

(* Every step between states that satisfy RegenIsNewest keeps the           *)
(* invariant.                                                               *)
LEMMA NextInv ==
  ASSUME IInv, RegenIsNewest, RegenIsNewest', [Next]_vars
  PROVE  IInv'
<1>1. CASE UNCHANGED vars
  BY <1>1, StutterInv
<1>2. CASE RetryScan
  BY <1>2, RetryScanInv
<1>3. CASE SubmitWindow
  BY <1>3, SubmitWindowInv
<1>4. CASE PollTurn
  BY <1>4, PollTurnInv
<1>5. CASE Hangup
  BY <1>5, HangupInv
<1>6. CASE CancelChunk
  BY <1>6, CancelChunkInv
<1>7. CASE CancelWaited \/ CancelDone
  BY <1>7, CancelWaitedInv, CancelDoneInv
<1>8. CASE \E r \in ReqId : Pop(r) \/ Retire(r)
  BY <1>8, PopInv, RetireInv
<1>9. CASE \E r \in ReqId, n \in {0, 1}, final \in BOOLEAN : Deliver(r, n, final)
  BY <1>9, DeliverInv
<1>10. CASE StartRequest
  BY <1>10, StartRequestInv
<1>11. CASE CbOverrun
  BY <1>11, CbOverrunInv
<1>12. CASE CbAudio
  BY <1>12, CbAudioInv
<1>13. CASE CbClose
  BY <1>13, CbCloseInv
<1>14. CASE SetRetry
  BY <1>14, SetRetryInv
<1>15. CASE CbAdvance
  BY <1>15, CbAdvanceInv
<1>16. CASE CbGone
  BY <1>16, CbGoneInv
<1>17. CASE CbReturn
  BY <1>17, CbReturnInv
<1> QED BY <1>1, <1>2, <1>3, <1>4, <1>5, <1>6, <1>7, <1>8, <1>9, <1>10, <1>11, <1>12,
           <1>13, <1>14, <1>15, <1>16, <1>17 DEF Next, PollLoop, WorkerStep

-----------------------------------------------------------------------------
(* Where only the ends of the text can be generated again.                  *)

(* RegenIsNewest follows: next_submit has not passed the first chunk before *)
(* its first audio, and cannot pass the last.                               *)
LEMMA EndsNewest ==
  ASSUME TypeOK, EndsAreNewest
  PROVE  RegenIsNewest
BY ChainConstants DEF TypeOK, ConnType, Chunk, EndsAreNewest, RegenIsNewest

(* It holds before the first submission. *)
LEMMA InitEnds == Init => EndsAreNewest
BY ChainConstants DEF Init, EndsAreNewest, Generating, Alive, Chunk

(* A step that submits and regenerates nothing. *)
LEMMA EndsKept ==
  ASSUME EndsAreNewest, TypeOK, wpc' # "retry", retry' \subseteq retry,
         \A r \in ReqId : made'[r] > Cap => made[r] > Cap \/ ofChunk[r] \in Overruns,
         Generating' \subseteq Generating, firstAudio' = firstAudio,
         samples' = samples \/ \A k \in Chunk : samples'[k] = samples[k] \/ samples'[k] > 0,
         UNCHANGED <<nextSubmit, ofChunk>>
  PROVE  EndsAreNewest'
<1> USE DEF EndsAreNewest
<1>1. (\A r \in ReqId : made[r] > Cap => ofChunk[r] \in Overruns)'
  OBVIOUS
<1>2. 0 \in Chunk
  BY ChainConstants DEF Chunk
<1>3. (firstAudio => \A r \in Generating : ofChunk[r] = 0 => samples[0] > 0)'
  BY <1>2
<1>4. (\A k \in Chunk : k \in retry \/ (wpc = "retry" /\ Mine = k) =>
         /\ nextSubmit > k
         /\ k = N - 1 \/ (k = 0 /\ Parallel > 1 /\ ~firstAudio))'
  OBVIOUS
<1> QED BY <1>1, <1>3, <1>4

(* The poll loop.  A chunk is submitted at next_submit, or is the one just  *)
(* before it: next_submit does not go back.                                 *)
LEMMA EndsAccepted ==
  ASSUME IInv, EndsAreNewest, NEW k \in Chunk, Accepted(k),
         k \in retry \/ (k = nextSubmit /\ MayGenerate),
         UNCHANGED <<firstAudio, samples, worker>>
  PROVE  EndsAreNewest'
<1> USE DEF IInv, worker
<1>1. RegenIsNewest /\ TypeOK /\ Types
  BY EndsNewest, IInvTypes
<1>2. /\ nextSubmit' = k + 1 /\ retry' = retry \ {k} /\ made' = made
      /\ nextSubmit \in Int /\ Chunk \subseteq Int
  BY ChainConstants DEF Accepted, TypeOK, ConnType, Chunk
<1>3. PICK r \in ReqId :
        /\ rst[r] = "none" /\ rst' = [rst EXCEPT ![r] = "queued"]
        /\ ofChunk' = [ofChunk EXCEPT ![r] = k]
  BY DEF Accepted, NextReq
<1>4. /\ ofChunk'[r] = k /\ \A q \in ReqId \ {r} : ofChunk'[q] = ofChunk[q] /\ rst'[q] = rst[q]
  BY <1>3 DEF TypeOK, SchedType
<1>5. \/ nextSubmit' = nextSubmit /\ k \in retry
      \/ nextSubmit' = nextSubmit + 1 /\ k = nextSubmit /\ MayGenerate
  <2>1. CASE k \in retry
    <3>1. nextSubmit = k + 1
      BY <1>1, <2>1 DEF RegenIsNewest
    <3>2. nextSubmit' = nextSubmit
      BY <1>2, <3>1
    <3> QED BY <2>1, <3>2
  <2>2. CASE k = nextSubmit /\ MayGenerate
    BY <1>2, <2>2
  <2> QED BY <2>1, <2>2
<1>6. (\A q \in ReqId : made[q] > Cap => ofChunk[q] \in Overruns)'
  <2>1. made[r] = 0 /\ ~(0 > Cap)
    BY <1>3, ChainConstants DEF TakeCounted
  <2> QED BY <1>2, <1>4, <2>1 DEF EndsAreNewest
<1>7. (Parallel > 1 /\ ~firstAudio => nextSubmit <= 1)'
  BY <1>2, <1>5, ChainConstants DEF EndsAreNewest, MayGenerate
<1>8. (firstAudio => nextSubmit > 0)'
  BY <1>2, ChainConstants DEF Chunk
<1>9. (firstAudio => \A q \in Generating : ofChunk[q] = 0 => samples[0] > 0)'
  <2> SUFFICES ASSUME firstAudio, NEW q \in Generating', ofChunk'[q] = 0
               PROVE  samples[0] > 0
    OBVIOUS
  <2>1. k # 0
    <3>1. firstAudio => nextSubmit > 0
      BY DEF EndsAreNewest
    <3>2. k \in retry => nextSubmit > k /\ (k = N - 1 \/ ~firstAudio)
      BY DEF EndsAreNewest
    <3> QED BY <1>5, <3>1, <3>2, ChainConstants
  <2>2. q \in ReqId \ {r}
    BY <1>4, <2>1 DEF Generating, Alive
  <2>3. q \in Generating /\ ofChunk[q] = 0
    BY <1>4, <2>2 DEF Generating, Alive, Ending
  <2> QED BY <2>3 DEF EndsAreNewest
<1>10. (\A j \in Chunk : j \in retry \/ (wpc = "retry" /\ Mine = j) =>
          /\ nextSubmit > j
          /\ j = N - 1 \/ (j = 0 /\ Parallel > 1 /\ ~firstAudio))'
  <2>1. wpc = "retry" => Mine' = Mine
    <3>1. wpc = "retry" => wreq \in ReqId \ {r}
      BY <1>1, <1>3, Served DEF WorkerPlace, InCallback
    <3> QED BY <1>4, <3>1 DEF Mine
  <2>2. ASSUME NEW j \in Chunk, nextSubmit > j PROVE nextSubmit' > j
    BY <1>2, <1>5, <2>2
  <2> QED BY <1>2, <2>1, <2>2 DEF EndsAreNewest
<1> QED BY <1>6, <1>7, <1>8, <1>9, <1>10 DEF EndsAreNewest

(* The poll loop keeps it. *)
LEMMA EndsPoll ==
  ASSUME IInv, EndsAreNewest, PollLoop \/ Hangup
  PROVE  EndsAreNewest'
<1>1. TypeOK
  BY DEF IInv
<1>2. ASSUME retry' \subseteq retry,
             UNCHANGED <<nextSubmit, finished, counts, done, retries, pend, samples, reqId,
                         out, ofChunk, rst, made, worker>>
      PROVE  EndsAreNewest'
  <2>1. Generating' = Generating
    BY <1>2, PollKeeps
  <2>2. CASE wpc # "retry"
    <3>1. wpc' # "retry" /\ firstAudio' = firstAudio
      BY <1>2, <2>2 DEF worker, counts
    <3> QED BY <1>1, <1>2, <2>1, <3>1, EndsKept
  <2>3. CASE wpc = "retry"
    BY <1>2, <2>1 DEF EndsAreNewest, Mine, worker, counts
  <2> QED BY <2>2, <2>3
<1>3. ASSUME NEW k \in Chunk, Accepted(k), k \in retry \/ (k = nextSubmit /\ MayGenerate),
             UNCHANGED <<firstAudio, samples, worker>>
      PROVE  EndsAreNewest'
  BY <1>3, EndsAccepted
<1>4. CASE RetryScan
  <2>1. retry \subseteq Chunk
    BY <1>1 DEF TypeOK, SlotsType
  <2>2. CASE \E why : Refused(cur, why)
    BY <1>2, <1>4, <2>2 DEF RetryScan, Refused, counts
  <2>3. CASE cur \in retry /\ Accepted(cur)
    BY <1>3, <1>4, <2>1, <2>3 DEF RetryScan
  <2>4. CASE UNCHANGED <<retry, rst, ofChunk, reqId, inFlight, nextSubmit, made>>
    BY <1>2, <1>4, <2>4 DEF RetryScan, counts
  <2> QED BY <1>4, <2>2, <2>3, <2>4 DEF RetryScan
<1>5. CASE SubmitWindow
  <2>2. CASE \E why : Refused(nextSubmit, why)
    BY <1>2, <1>5, <2>2 DEF SubmitWindow, Refused, counts
  <2>3. CASE MayGenerate /\ Accepted(nextSubmit)
    <3>1. nextSubmit \in Chunk
      BY <1>1, <2>3, ChainConstants DEF MayGenerate, TypeOK, ConnType, Chunk
    <3> QED BY <1>3, <1>5, <2>3, <3>1 DEF SubmitWindow
  <2>4. CASE UNCHANGED <<retry, rst, ofChunk, reqId, inFlight, nextSubmit, made>>
    BY <1>2, <1>5, <2>4 DEF SubmitWindow, counts
  <2> QED BY <1>5, <2>2, <2>3, <2>4 DEF SubmitWindow
<1>6. CASE PollTurn
  BY <1>2, <1>6 DEF PollTurn, slots, sched
<1>7. CASE Hangup
  BY <1>2, <1>7 DEF Hangup, conn, slots, sched
<1>8. CASE CancelChunk
  BY <1>2, <1>8 DEF CancelChunk, conn, slots
<1>9. CASE CancelWaited
  BY <1>2, <1>9 DEF CancelWaited, conn, slots, sched
<1>10. CASE CancelDone
  BY <1>2, <1>10 DEF CancelDone, slots, sched
<1> QED BY <1>4, <1>5, <1>6, <1>7, <1>8, <1>9, <1>10 DEF PollLoop

(* The worker, between callbacks. *)
LEMMA EndsWorker ==
  ASSUME IInv, EndsAreNewest,
         \/ \E r \in ReqId : Pop(r) \/ Retire(r)
         \/ \E r \in ReqId, n \in {0, 1}, final \in BOOLEAN : Deliver(r, n, final)
         \/ StartRequest \/ CbGone \/ CbReturn
  PROVE  EndsAreNewest'
<1>1. TypeOK /\ Types
  BY IInvTypes DEF IInv
<1>2. ASSUME Alive' \subseteq Alive, \A r \in Alive' : Ending(r) => Ending(r)',
             wpc' # "retry",
             \A r \in ReqId : made'[r] > Cap => made[r] > Cap \/ ofChunk[r] \in Overruns,
             UNCHANGED <<conn, counts, slots, ofChunk>>
      PROVE  EndsAreNewest'
  <2>1. Generating' \subseteq Generating
    BY <1>2 DEF Generating
  <2> QED BY <1>1, <1>2, <2>1, EndsKept DEF conn, counts, slots
<1>3. wpc \in {"idle", "start"} => \A r \in Alive : ~Ending(r)
  BY <1>1, Between DEF Generating
<1>4. ASSUME NEW r \in ReqId, Pop(r) PROVE EndsAreNewest'
  <2>1. Alive' \subseteq Alive
    BY <1>1, <1>4 DEF Pop, Alive, TypeOK, SchedType
  <2>2. wpc = "idle" /\ wpc' # "retry"
    BY <1>4 DEF Pop
  <2>3. UNCHANGED <<conn, counts, slots, ofChunk, made>>
    BY <1>4 DEF Pop
  <2> QED BY <1>2, <1>3, <2>1, <2>2, <2>3
<1>5. ASSUME NEW r \in ReqId, Retire(r) PROVE EndsAreNewest'
  <2>1. Alive' \subseteq Alive
    BY <1>1, <1>5 DEF Retire, Alive, TypeOK, SchedType
  <2>2. wpc = "idle" /\ wpc' # "retry"
    BY <1>5 DEF Retire, worker
  <2>3. UNCHANGED <<conn, counts, slots, ofChunk, made>>
    BY <1>5 DEF Retire
  <2> QED BY <1>2, <1>3, <2>1, <2>2, <2>3
<1>6. ASSUME NEW r \in ReqId, NEW n \in {0, 1}, NEW final \in BOOLEAN, Deliver(r, n, final)
      PROVE  EndsAreNewest'
  <2>1. Alive' = Alive
    BY <1>6 DEF Deliver, Alive
  <2>2. wpc = "idle" /\ wpc' # "retry"
    BY <1>6 DEF Deliver, Call
  <2>3. UNCHANGED <<conn, counts, slots, ofChunk>>
    BY <1>6 DEF Deliver
  <2>4. made' = [made EXCEPT ![r] = @ + n] /\ (made[r] + n > Cap => ofChunk[r] \in Overruns)
    <3>1. made[r] + n <= IF ofChunk[r] \in Overruns THEN Cap + 1 ELSE Cap
      BY <1>6 DEF Deliver
    <3>2. made[r] + n \in Int
      BY <1>1, <1>6, ChainConstants DEF TypeOK, SchedType
    <3> QED BY <1>6, <3>1, <3>2, ChainConstants DEF Deliver, Call
  <2>5. \A q \in ReqId : made'[q] > Cap => made[q] > Cap \/ ofChunk[q] \in Overruns
    BY <1>1, <2>4 DEF TypeOK, SchedType
  <2> QED BY <1>2, <1>3, <2>1, <2>2, <2>3, <2>5
<1>7. CASE StartRequest
  <2>1. Alive' \subseteq Alive
    BY <1>1, <1>7 DEF StartRequest, Alive, TypeOK, SchedType, IInv, WorkerPlace
  <2>2. wpc = "start" /\ wpc' # "retry"
    BY <1>7 DEF StartRequest, Call
  <2>3. UNCHANGED <<conn, counts, slots, ofChunk>>
    BY <1>7 DEF StartRequest
  <2>4. made' = made
    <3>1. wreq \in ReqId /\ made \in [ReqId -> 0 .. Cap + 1]
      BY <1>1, <2>2, Served DEF TypeOK, SchedType
    <3>2. [made EXCEPT ![wreq] = @ + 0] = made
      BY <3>1, ChainConstants
    <3> QED BY <1>7, <3>2 DEF StartRequest, Call
  <2> QED BY <1>2, <1>3, <2>1, <2>2, <2>3, <2>4
<1>8. CASE CbGone
  <2>1. Alive' = Alive /\ made' = made /\ ofChunk' = ofChunk
    BY <1>8 DEF CbGone, Alive, sched
  <2>2. \A r \in Alive : Ending(r) => Ending(r)'
    BY <1>8 DEF CbGone, Ending
  <2>3. UNCHANGED <<conn, counts, slots>> /\ wpc' # "retry"
    BY <1>8 DEF CbGone
  <2> QED BY <1>2, <2>1, <2>2, <2>3
<1>9. CASE CbReturn
  <2>1. Alive' \subseteq Alive /\ \A r \in Alive' : ~Ending(r)
    BY <1>1, <1>9, Served DEF CbReturn, Alive, Ending, TypeOK, SchedType
  <2>2. UNCHANGED <<conn, counts, slots, ofChunk, made>> /\ wpc' # "retry"
    BY <1>9 DEF CbReturn
  <2> QED BY <1>2, <2>1, <2>2
<1> QED BY <1>4, <1>5, <1>6, <1>7, <1>8, <1>9

(* The callback.  The chunk it is about has been submitted. *)
LEMMA EndsRegenerate ==
  ASSUME IInv, EndsAreNewest, wpc \in {"audio", "close"}, NEW rc \in {0, 1}, rc = 1 \/ wfinal,
         Regenerate(rc),
         Mine = N - 1 \/ (Mine = 0 /\ Parallel > 1 /\ ~firstAudio),
         UNCHANGED <<conn, firstAudio, sched, wreq, wfinal>>
  PROVE  EndsAreNewest'
<1> USE DEF IInv, conn, sched
<1>1. /\ wreq \in Generating /\ wreq \in ReqId /\ Mine \in Chunk
      /\ reqId[Mine] = wreq /\ Mine \notin retry
  BY Speaking
<1>2. wpc' = "retry" /\ wrc' = rc /\ retry' = retry /\ Mine' = Mine
  BY DEF Regenerate, Mine
<1>3. Generating' = Generating \ {wreq}
  BY <1>1, <1>2, Speaking DEF Generating, Ending, Alive
<1>4. nextSubmit > Mine
  BY <1>1, ChainConstants DEF SlotsOwn, ReqId, NoReq, Chunk, TypeOK, ConnType
<1>5. \A k \in Chunk \ {Mine} : samples'[k] = samples[k]
  BY DEF Regenerate, TypeOK, SlotsType
<1>6. (firstAudio => \A q \in Generating : ofChunk[q] = 0 => samples[0] > 0)'
  <2> SUFFICES ASSUME firstAudio, NEW q \in Generating \ {wreq}, ofChunk[q] = 0
               PROVE  samples'[0] > 0
    BY <1>3
  <2>1. 0 \in Chunk \ {Mine}
    BY OtherChunks
  <2> QED BY <1>5, <2>1 DEF EndsAreNewest
<1>7. (\A k \in Chunk : k \in retry \/ (wpc = "retry" /\ Mine = k) =>
         /\ nextSubmit > k
         /\ k = N - 1 \/ (k = 0 /\ Parallel > 1 /\ ~firstAudio))'
  BY <1>2, <1>4 DEF EndsAreNewest
<1> QED BY <1>6, <1>7 DEF EndsAreNewest

(* The callback regenerates at the ends only: the first chunk is live, so   *)
(* not once anything of it was heard, and no other chunk comes back empty   *)
(* or overruns.                                                             *)
LEMMA EndsCallback ==
  ASSUME IInv, EndsAreNewest, EndsOnly,
         CbOverrun \/ CbAudio \/ CbClose \/ SetRetry \/ CbAdvance
  PROVE  EndsAreNewest'
<1> USE DEF IInv
<1>1. TypeOK /\ Types /\ 0 \in Chunk
  BY IInvTypes, ChainConstants DEF Chunk
<1>2. CASE CbOverrun
  <2>1. /\ wpc = "audio" /\ Over /\ Mine # emit /\ Regenerate(1)
        /\ UNCHANGED <<conn, firstAudio, sched, wreq, wfinal>>
    BY <1>2 DEF CbOverrun, CutOrRetry, Live
  <2>2. wreq \in Generating /\ wreq \in ReqId /\ Mine \in Chunk /\ Mine >= emit
    BY <2>1, Speaking
  <2>3. made[wreq] = samples[Mine] + 1 /\ samples[Mine] = Cap
    BY <2>1, <2>2 DEF TakeCounted, Over, Mine
  <2>4. Mine \in Overruns
    BY <2>2, <2>3, ChainConstants DEF EndsAreNewest, Mine
  <2>5. Mine # 0
    BY <2>1, <2>2, ChainConstants DEF TypeOK, OutType, Chunk
  <2>6. Mine = N - 1
    BY <2>4, <2>5 DEF EndsOnly
  <2> QED BY <2>1, <2>6, EndsRegenerate
<1>3. CASE CbClose
  <2>1. CASE CameBackEmpty
    <3>1. /\ wpc = "close" /\ wfinal /\ Regenerate(0) /\ Mine \in Guarded
          /\ (Mine # emit \/ samples[Mine] = 0)
          /\ UNCHANGED <<conn, firstAudio, sched, wreq, wfinal>>
      BY <1>3, <2>1 DEF CbClose, CameBackEmpty, Live
    <3>2. wreq \in Generating /\ Mine \in Chunk /\ Mine >= emit
      BY <3>1, Speaking
    <3>3. Mine = N - 1 \/ (Mine = 0 /\ Parallel > 1)
      BY <3>1 DEF EndsOnly
    <3>4. Mine = 0 => samples[0] = 0
      BY <3>1, <3>2, ChainConstants DEF TypeOK, OutType, Chunk
    <3>5. Mine = 0 => ~firstAudio
      BY <3>2, <3>4 DEF EndsAreNewest, Mine
    <3> QED BY <3>1, <3>3, <3>5, EndsRegenerate
  <2>2. CASE ~CameBackEmpty
    <3>1. /\ wpc = "close" /\ wpc' # "retry"
          /\ UNCHANGED <<retry, samples, conn, firstAudio, sched, wreq, wfinal>>
      BY <1>3, <2>2 DEF CbClose
    <3>2. Generating' \subseteq Generating
      BY <3>1 DEF Generating, Ending, Alive, sched
    <3> QED BY <1>1, <3>1, <3>2, EndsKept DEF conn, sched
  <2> QED BY <2>1, <2>2
<1>4. CASE SetRetry
  <2>1. /\ wpc = "retry" /\ wpc' = "end" /\ retry' = retry \cup {Mine}
        /\ UNCHANGED <<conn, counts, samples, sched, wreq, wfinal, wrc>>
    BY <1>4 DEF SetRetry
  <2>2. Mine \in Chunk
    BY <1>1, <2>1, Served
  <2>3. Generating' = Generating
    BY <2>1 DEF Generating, Ending, Alive, sched
  <2> QED BY <2>1, <2>2, <2>3 DEF EndsAreNewest, conn, counts, sched
<1>5. CASE CbAdvance
  <2>1. /\ wpc = "advance" /\ wpc' \in {"advance", "end"} /\ (wrc' = wrc \/ wrc' = 1)
        /\ UNCHANGED <<nextSubmit, retry, samples, counts, sched, wreq, wfinal>>
    BY <1>5 DEF CbAdvance
  <2>2. Generating' \subseteq Generating
    BY <2>1 DEF Generating, Ending, Alive, sched, WorkerPlace
  <2> QED BY <1>1, <2>1, <2>2, EndsKept DEF counts, sched
<1>6. CASE CbAudio
  <2>1. /\ wpc = "audio" /\ wpc' \in {"close", "end"}
        /\ UNCHANGED <<nextSubmit, retry, sched, wreq, wfinal>>
    BY <1>6 DEF CbAudio
  <2>2. /\ wreq \in Generating /\ wreq \in ReqId /\ Mine \in Chunk
        /\ reqId[Mine] = wreq /\ Mine \notin retry
    BY <2>1, Speaking
  <2>3. Generating' \subseteq Generating
    BY <2>1, <2>2, Speaking DEF Generating, Alive, sched
  <2>4. /\ samples[Mine] \in Nat
        /\ \/ samples' = samples
           \/ samples'[Mine] > 0 /\ \A k \in Chunk \ {Mine} : samples'[k] = samples[k]
    <3>1. samples[Mine] \in Nat
      BY <1>1, <2>2, ChainConstants DEF TypeOK, SlotsType
    <3>2. samples' = samples \/ samples' = [samples EXCEPT ![Mine] = @ + 1]
      BY <1>6 DEF CbAudio
    <3> QED BY <1>1, <2>2, <3>1, <3>2 DEF TypeOK, SlotsType
  <2>5. CASE firstAudio' = firstAudio
    BY <1>1, <2>1, <2>2, <2>3, <2>4, <2>5, EndsKept DEF sched
  <2>6. CASE firstAudio' # firstAudio
    <3>1. Mine = 0 /\ firstAudio' /\ ~firstAudio
      BY <1>6, <2>6 DEF CbAudio, TypeOK, ConnType
    <3>2. samples'[0] > 0 \/ wreq \notin Generating'
      <4>1. \/ samples' = [samples EXCEPT ![Mine] = @ + 1]
            \/ wpc' = "end" /\ wrc' = 1
        BY <1>6, <2>6 DEF CbAudio
      <4>2. samples' = [samples EXCEPT ![Mine] = @ + 1] => samples'[0] > 0
        BY <1>1, <2>2, <2>4, <3>1 DEF TypeOK, SlotsType
      <4>3. wpc' = "end" /\ wrc' = 1 => wreq \notin Generating'
        BY <2>1 DEF Generating, Ending
      <4> QED BY <4>1, <4>2, <4>3
    <3>3. (firstAudio => \A q \in Generating : ofChunk[q] = 0 => samples[0] > 0)'
      <4> SUFFICES ASSUME NEW q \in Generating', ofChunk[q] = 0
                   PROVE  samples'[0] > 0
        BY <2>1 DEF sched
      <4>1. q = wreq
        BY <2>1, <2>3, <3>1, OtherChunks
      <4> QED BY <3>2, <4>1
    <3>4. nextSubmit > 0
      BY <1>1, <2>2, <3>1, ChainConstants DEF SlotsOwn, ReqId, NoReq, Chunk, TypeOK, ConnType
    <3>5. (\A k \in Chunk : k \in retry \/ (wpc = "retry" /\ Mine = k) =>
             /\ nextSubmit > k
             /\ k = N - 1 \/ (k = 0 /\ Parallel > 1 /\ ~firstAudio))'
      BY <2>1, <2>2, <3>1 DEF EndsAreNewest
    <3> QED BY <2>1, <3>1, <3>3, <3>4, <3>5 DEF EndsAreNewest, sched
  <2> QED BY <2>5, <2>6
<1> QED BY <1>2, <1>3, <1>4, <1>5, <1>6

(* Every step keeps it. *)
LEMMA NextEnds ==
  ASSUME EndsOnly, IInv, EndsAreNewest, [Next]_vars
  PROVE  EndsAreNewest'
<1>1. CASE UNCHANGED vars
  <2>1. Generating' = Generating /\ Mine' = Mine
    BY <1>1 DEF vars, Generating, Ending, Alive, Mine, sched, worker
  <2> QED BY <1>1, <2>1 DEF vars, conn, counts, slots, sched, worker, EndsAreNewest
<1>2. CASE PollLoop \/ Hangup
  BY <1>2, EndsPoll
<1>3. CASE WorkerStep
  BY <1>3, EndsWorker, EndsCallback DEF WorkerStep
<1> QED BY <1>1, <1>2, <1>3 DEF Next

-----------------------------------------------------------------------------
(* The theorems.                                                            *)

(* What the invariant says of each property. *)
LEMMA UnheardByInv == IInv => RegeneratedUnheard
BY DEF IInv, SlotsOwn, WireTail, RegeneratedUnheard

LEMMA WindowByInv == IInv => WindowKept
<1> SUFFICES ASSUME IInv PROVE WindowKept
  OBVIOUS
<1>1. Cardinality(Generating) <= inFlight /\ inFlight <= Parallel /\ inFlight \in Int
  BY DEF IInv, Counted, TypeOK, ConnType
<1> QED BY <1>1, GeneratingFinite, ChainConstants DEF WindowKept

LEMMA AliveByInv == IInv => ConnAlive
<1> SUFFICES ASSUME IInv, wpc \in InCallback, st = "free" PROVE wreq \in missed
  BY DEF ConnAlive
<1>1. wreq \in Alive
  <2>1. wreq \in ReqId
    BY IInvTypes, Served DEF InCallback
  <2> QED BY <2>1 DEF IInv, WorkerPlace, Alive
<1> QED BY <1>1 DEF IInv, Swept, Silenced, InCallback

LEMMA FinishByInv == IInv => FinishIsLast
<1> SUFFICES ASSUME IInv, finished, ~broken
             PROVE  done = Chunk /\ \A r \in Alive : wreq = r /\ wpc = "end"
  BY DEF FinishIsLast
<1> USE DEF IInv
<1>1. done = Chunk /\ wpc # "advance"
  BY DEF FinishPlace
<1>2. Generating = {}
  BY <1>1 DEF SlotsOwn, Generating, Alive, TypeOK, SchedType
<1>3. wpc # "retry"
  BY <1>1, IInvTypes, Served DEF SlotsOwn
<1> QED BY <1>1, <1>2, <1>3 DEF Generating, Ending

(* A text that can be regenerated at its ends only is submitted in order:   *)
(* submit_chunk moves next_submit behind a chunk that is submitted again,   *)
(* and there it was.                                                        *)
THEOREM NewestKept ==
  ASSUME EndsOnly
  PROVE  Spec => []RegenIsNewest
<1> DEFINE Inv == IInv /\ EndsAreNewest
<1>1. Init => Inv
  BY InitInv, InitEnds
<1>2. Inv /\ [Next]_vars => Inv'
  <2> SUFFICES ASSUME IInv, EndsAreNewest, [Next]_vars PROVE IInv' /\ EndsAreNewest'
    OBVIOUS
  <2>1. EndsAreNewest'
    BY NextEnds
  <2>2. TypeOK /\ TypeOK'
    BY IInvTypes, NextTypes DEF Types
  <2>3. RegenIsNewest
    BY <2>2, EndsNewest
  <2>4. RegenIsNewest'
    BY <2>1, <2>2, ChainConstants
    DEF TypeOK, ConnType, Chunk, EndsAreNewest, RegenIsNewest
  <2>5. IInv'
    BY <2>3, <2>4, NextInv
  <2> QED BY <2>1, <2>5
<1>3. Inv => RegenIsNewest
  BY EndsNewest DEF IInv
<1> HIDE DEF Inv
<1> QED BY <1>1, <1>2, <1>3, PTL DEF Spec

(* The inductive invariant, of every run in which no chunk but the newest   *)
(* is regenerated.                                                          *)
THEOREM ChainInvariant == Spec /\ []RegenIsNewest => []IInv
<1>1. IInv /\ RegenIsNewest /\ RegenIsNewest' /\ [Next]_vars => IInv'
  BY NextInv
<1> QED BY <1>1, InitInv, PTL DEF Spec

(* The response carries the chunks in their order, each as one take without *)
(* a gap, however their generation was interleaved (tts_chunk_cb,           *)
(* chain_advance): the promise of docs/API.md.                              *)
THEOREM WireKept == Spec /\ []RegenIsNewest => []WireInOrder
<1>1. IInv => WireInOrder
  BY DEF IInv
<1> QED BY <1>1, ChainInvariant, PTL

(* No audio is lost or played twice between the slots and the wire: what    *)
(* tts_chunk_cb counted of a chunk was sent, or is in pend.                 *)
THEOREM AudioKept == Spec /\ []RegenIsNewest => []Accounted
<1>1. IInv => Accounted
  BY DEF IInv
<1> QED BY <1>1, ChainInvariant, PTL

(* chunk_regenerate never takes back what the listener heard. *)
THEOREM UnheardKept == Spec /\ []RegenIsNewest => []RegeneratedUnheard
BY UnheardByInv, ChainInvariant, PTL

(* At most chunk_parallel requests of the connection generate at a time     *)
(* (in_flight of chain_submit_ready against the worker's decrements).       *)
THEOREM WindowIsKept == Spec /\ []RegenIsNewest => []WindowKept
BY WindowByInv, ChainInvariant, PTL

(* No callback runs on a connection after conn_reset, except for a request  *)
(* that the reset left uncancelled.                                         *)
THEOREM NoCallbackAfterReset == Spec /\ []RegenIsNewest => []ConnAlive
BY AliveByInv, ChainInvariant, PTL

(* Once conn_finish_response has set finished, all chunks are done and the  *)
(* worker touches the connection no more.                                   *)
THEOREM FinishKept == Spec /\ []RegenIsNewest => []FinishIsLast
BY FinishByInv, ChainInvariant, PTL

(* Of a text that can be regenerated at its ends only all of this is true,  *)
(* with no condition on the run.                                            *)
THEOREM EndsOnlySafe ==
  ASSUME EndsOnly
  PROVE  Spec => [](/\ WireInOrder /\ Accounted /\ RegeneratedUnheard
                    /\ WindowKept /\ ConnAlive /\ FinishIsLast)
<1>1. IInv => WireInOrder /\ Accounted
  BY DEF IInv
<1> QED BY <1>1, NewestKept, ChainInvariant, UnheardByInv, WindowByInv, AliveByInv,
           FinishByInv, PTL
=============================================================================
