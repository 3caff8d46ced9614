# A TLA+ model of the s2pro server

This directory holds TLA+ modules that model s2pro-native, the TLC
configurations that check them on small instances, and proofs, checked by
TLAPS, of theorems that hold for every value of the constants.

## 1. The system

s2pro is a text-to-speech server in C and CUDA. Two threads carry all of its
logic:

* the **main thread** runs the HTTP poll loop (`src/http/http.c`,
  `s2p_server_run`). It owns the connections, parses requests, submits work to
  the scheduler, cancels it when a client leaves, and frees connections;
* the **worker** (`src/sched/scheduler.c`, `worker_main`) owns the GPU. It
  admits requests into session slots, prefills them in chunks, decodes one
  frame of every session per tick, decodes frames to audio and calls the audio
  callback of the request. The callbacks live in `http.c`, run on the worker's
  thread, touch connections and write to sockets.

They meet in four places: the scheduler's mutex and condition variable
(`s->mu`, `s->cv`), the atomics of a connection (`finished`, `in_flight`,
`first_audio`, and `retry` of every chunk), the audio callback, and the rule
that after `s2p_sched_cancel` no callback touches the connection. The GPU is a
third actor: what the worker enqueues on a CUDA stream happens later, and
results come back one tick late. A fourth is the disk: a start leaves files
for the next one.

### Inventory

| component | source | state | operations | hard behaviour | what makes it correct | module |
|---|---|---|---|---|---|---|
| scheduler | `sched/scheduler.c` | ring of pending requests, session slots, `n_active`, `running`, `stop`; per request `cancelled`, `in_cb` | submit, cancel, start, stop, destroy; admission, prefill, first frame, lockstep decode, DAC push, deliver, retire, drain | callbacks outside the lock, cancel waiting for them, stop with work queued, every exit of a stream on failure | a request is in one place and freed once; no callback after a cancel or after the stream's end; every request, cancel and stop ends | `Sched` |
| long-form chunk chain | `http/http.c` 524-723, 1000-1109, 1248-1336 | slots of a connection with buffered audio and retry flags, submit window, wire position | submit window, regenerations, chunk callback, hand-over of the wire, cancel of all | two threads over one connection; chunks end in any order; takes are thrown away and generated again | the audio on the wire is in order and complete, a heard take stays, the window holds, the connection is not freed under a callback, it ends | `ChunkChain` |
| HTTP connections | `http/http.c` | `conns[]`: free, head, body, streaming; descriptors; buffers | accept, read, dispatch, 408, single-request callback, reset, shutdown | stalled clients, hangups, reuse of slots and descriptors | bytes go to the client that asked; one response, complete when it says so; every client that sends is answered | `HttpConn` |
| join filter | `http/http.c` 387-473 | held tail of a chunk, leading silence skipped | feed, boundary | state across callbacks | only silence is dropped, at joins, and exactly the gap inserted | `JoinFilter` |
| KV prefix cache | `sched/scheduler.c` 466-525, 768-812 | named blobs with a use tick | lookup, insert, claim, warm-up | insert long after the lookup, eviction | a hit is the prefix of that voice; a warm voice stays warm | `Sessions` |
| session | `slowar/slowar.c`, `fastar/fastar.cu` | NEW, PREFILLED, DECODING, FINISHED; position; graphs; fast-AR slab | create, prefill, KV save and load, batched next frame | a batch where one row ends; a captured graph replayed at another length | the cache is the prompt and the session's own frames | `Sessions` |
| attention | `slowar/kernels.cu` | KV planes, partial results of splits | append, tiled, split, merge | rows of different length in one launch, stale partials, nibbles | the softmax over what was appended | `Attention` |
| sampling | `slowar/sampling.c`, `slowar/kernels.cu` | repetition window, history | sample on the host, on the device | the window at its limit, a reduction over threads | both draw from the same candidates | `Sampler` |
| DAC stream | `dac/stream.c`, `dac/stream_inc.c` | accumulator, pending push, buffer tables | push, async push, collect, batched push, finish | results one tick late, batches of streams of different state, buffers reused | every frame heard once, in order | `DacStream` |
| incremental decoder | `dac/dac.c`, `dac/stream_inc.c` | history of every layer | decode, incremental push | frames cut into pushes anywhere | the samples of the whole decode | `DacDecoder` |
| text chunker | `text/chunker.c` | none | pure | UTF-8 and size boundaries | no byte lost; targets kept | `Chunker` |
| prompt, tokenizer | `text/` | none | pure | codes laid out by codebook | a part lies where its mask is | `Sessions` (the layout) |
| voice registry, voice cache | `voice/` | registry; codes on disk | load, store | file replaced between hash and encode; interrupted write | codes belong to the recording | `Startup` |
| quantised weight cache | `sched/qcache.c` | file beside the model | open, load, put, finish | crash, replaced inputs, changed knobs | a hit is what the start would compute | `Startup` |
| core parsers | `core/` | none | json, safetensors, wav, sha256 | bounds | - | - |
| other GPU numerics | `*.cu`, `slowar/model.c`, `sched/gemm.c`, `draft/` | weights | kernels | - | compared with a reference by the parity tests | - |

`PROJECT.json` lists the same parts with their status, and the hazards at
their lines.

## 2. The modules

| module | what it is |
|---|---|
| `CallbackContract` | what the scheduler promises the thread that submits: open, callback, over, released, cancelled |
| `Sched` | the scheduler, detailed; its properties and its inductive invariant |
| `SchedProofs` | TLAPS proofs: the inductive invariant of `Sched`; the slot counter, stop |
| `SchedRefinement` | TLAPS proofs: `Sched` implements `CallbackContract` |
| `ChunkChain` | the long-form chunk chain of one connection, over an abstract scheduler; its inductive invariant |
| `ChunkChainProofs` | TLAPS proofs: the types, the six safety properties of the chain, the texts they hold for |
| `Chunker`, `JoinFilter` | the pure ends of the long-form path: the split of the text, the samples at a join |
| `HttpConn` | the connection table, over an abstract scheduler; its inductive invariant |
| `HttpConnProofs` | TLAPS proofs: the connection table, and whose connection it is |
| `HttpResponseProofs` | TLAPS proofs: what a client receives; EXTENDS `HttpConnProofs` |
| `Sessions` | sessions, prompts, the prefix cache, batched frames; EXTENDS `Attention` |
| `SessionsProofs` | TLAPS proofs: the types and the four safety properties of `Sessions` |
| `Attention`, `Sampler` | the kernels a frame is made with, in exact arithmetic |
| `DacStream` | the vocoder streams of the active sessions |
| `DacStreamProofs` | TLAPS proofs: the types and the three safety properties of `DacStream` |
| `DacDecoder` | what the streams compute: the whole and the incremental decoder |
| `Startup` | the files a start leaves for the next |
| `StartupProofs` | TLAPS proofs about `Startup` |
| `MCSched`, `MCChunkChain`, `MCLongForm`, `MCHttpConn`, `MCSessions`, `MCDacStream`, `MCStartup` | instances for TLC |

`Sched` says what a callback may expect; `ChunkChain` and `HttpConn` are the
two users of that contract. `Sched` leaves out the data: `Sessions` is what
its prefill and lockstep do to KV caches, `DacStream` what its DAC steps do to
frames. Between them they share the tick structure of `worker_main` and not
its state, which is why they are separate.

### Sched

One action is one critical section of `s->mu`, or a stretch the worker runs
without it. `s2p_sched_submit`, `cancel`, `start` and `stop` are the actions
`Submit`, `Cancel` with `CancelWake`, `Start` with `CreateWorker`, `Stop` with
`Join`. A thread asleep on `s->cv` is a member of `waiting` until `Broadcast`
empties the set, so a forgotten broadcast shows.

`worker_main` is the rest. `stage` says in which loop of it the worker is
(admission, prefill, priority first frame, lockstep, close-out of a failed
batch, shutdown, drain), `todo` which slots the loop has still to visit, `wpc`
where in the subroutines it stands: `deliver` takes three steps (mark `in_cb`
under the lock, run the callback without it, clear and read `cancelled`),
`finish_stream` collects, finishes the DAC stream and delivers the tail,
`retire` frees. `ret` remembers where `deliver` returns to. Every error exit
of `start_request`, `handle_frame`, the prefill, the batch and the shutdown is
there, behind `Faults`.

Abstracted: the GPU work (a decode ends the stream or yields a frame, a DAC
step yields audio or nothing, each may fail); the prompt (a number of prefill
chunks); the audio. Not modelled: statistics; spurious wakeups of the
condition variable (every wait in the code is in a loop that tests again);
reuse of a freed request's address while a cancel waits (one thread submits
and cancels); the path of a batch of one frame after a batched push
(scheduler.c:716-731), which the code cannot reach with batching on.

### ChunkChain

Two threads again. The poll loop is `RetryScan` (the first loop of
`chain_submit_ready`, one flag a step), `SubmitWindow` (the second),
`PollTurn` (a connection's turn in `s2p_server_run`), `Hangup`, and
`CancelChunk`, `CancelWaited`, `CancelDone` (`conn_cancel_all`,
`conn_reset`). `tts_chunk_cb` is cut where it writes what the poll loop reads:
`CbOverrun` or `CbAudio`, `CbClose`, then `SetRetry` or `CbAdvance`
(`chain_advance`, one turn of its loop and so one chunk a step), then
`CbReturn` (back in `deliver`). Audio is a sequence
of pieces named by chunk, request and number, so a lost, repeated or foreign
piece is visible on `wire`. A cap is a number of pieces; `MinPieces` stands
for the 0.3 s under which a take counts as empty.

The scheduler below is what `http.c` can see of it: requests start in order,
sessions deliver in any interleaving, callbacks do not overlap, a cancel marks
a queued or active request and waits for its callback, and finds nothing of a
request that `start_request` holds. `Sched` is the module that shows that the
scheduler behaves like this. `CbGone` is a callback on a connection that is
gone: undefined behaviour in the code, a callback without further effect in
the model, and what `ConnAlive` is about.

The samples at a join are `JoinFilter`'s, the split of the text `Chunker`'s,
headers and framing `HttpConn`'s. Not modelled: the sequential chain's clone
codes.

### HttpConn

The poll loop is one thread and `loop` says where it is: `Build` fills the
poll set slot by slot, `PollAccept` is `poll` and the accept behind it,
`Read`, `ServeStreaming`, `ServeIdle`, `ServeNone` are a turn of one
descriptor, `RouteHead`, `RouteSubmit`, `RouteSubmitted`, `RouteRefused` are
`route_tts`, cut where the worker can call back in between, and `Shutdown` is
the teardown. What a `recv` brings is a case of its own: a hangup
(`ReadNothing`), the complete head (`ReadHead`), the body or the whole request
at once, answered by `dispatch` (`ReadSimple`) or handed to `route_tts`
(`ReadBody`). The worker's callback (`tts_audio_cb`) is `Emit`, `Close`,
`Flag`, `Return`: the store of `finished` is a step of its own, because the
poll loop may reset the connection right behind it. Descriptors are the lowest
free number, so that a late write reaches a stranger and shows in `wire`.
A token of `wire` names what was sent and for whom. What a client did not get
is not recorded; `OneResponse` compares what it did get with the take of its
request instead: a length or a terminal chunk follows exactly the audio of the
take up to its cap.

The check of a request (auth, JSON, parameters) is a choice between "answered
at once" and "handed on"; the clock of the 408 is a choice; partial writes are
a send that fails. The fault `"window"` (a cancel while `start_request` holds
the request, run `sched_cancel_window`) is left out of the instance: with it
`OwnsItsConnection` fails, as the finding says.

### Sessions, Attention, Sampler

A row of a KV cache is the token embedded there with its column of codes, so a
wrong row is visible as such. `PromptBuild` lays a prompt out, `PrefillChunk`
is one `Chunk` of the plan (`ChunkEnd` is the boundary moved out of a run of
codes, `np` the parts that begin in the chunk), `KvcInsert`, `KvcHit` and
`WarmVoice` are the prefix cache, `Decode` a batched frame: the rows are
packed (`DecodeRows` before `FirstRows`, each in slot order), the codes of the
last frames staged by codebook and read by column (`RowKv`), the results
unpacked row by row (`BatchNextFrame`), the fast decoder runs over a slab that
is not cleared (`FastRow`), and a graph captured once per number of rows is
replayed (`graphs`, `CapturedSplits`). What the backbone computes from a cache
is "whose text, and how many rows". A token of a prompt is its kind and what
it is of. What the code computes in a loop (`PartStarts`, `TotalT`, `FastRow`)
is a recursive function, so that it can be proved about.

`Attention` is the append, the prefill pass over tiles and the decode pass
over splits with its merge, compared with one softmax over the rows appended;
the exponential is a power of two, so the online rescaling is exact. `Sampler`
is the host's sampler and the device's, which reduces over threads in shared
memory, compared with the set of candidates a draw may return. Both are
functions, checked in the initial states of `MCSessions`.

Not modelled: the switches `S2P_NO_GRAPHS` and `S2P_ATTN_LEGACY`, the
reference parameters of a request, the random generators.

### DacStream, DacDecoder

`DacStream` has three actors. The worker holds, for every slot, the stream
with its accumulator and the length of the push in flight (`str`), the round
it is in (`tick`) and the slot `handle_frame` is at (`hand`). The GPU has the
operations enqueued on every CUDA stream (`gpu`), the pinned result buffers
(`pin`) and the two copies of the buffer table (`table.host`, written by the
worker, and `table.dev`, written by the copy when the GPU comes to it). The
client has `heard`. `GpuStep` runs the next operation of a CUDA stream at any
time; the worker waits for it only where the code synchronises (`Collectable`,
`Synced`). Audio is the sequence of frame numbers it was made from.

`handle_frame` and `finish_stream` are one action a wait: `Handle` (text over,
cancelled, or a frame), `CollectFrame` (the push of the tick before),
`PushFrame` (`s2p_dac_stream_push_async`: the first frame alone, the others in
groups), `EagerCollect` (the first frame is heard at once), `Deliver` (the
callback may end it, the frame cap too); `FinishCollect`, `FinishTail`,
`FinishLast`, `Retire`; `CudaError` for a call that fails. A round is `Admit`
and `FirstFrame`, which steps a new session alone, or `Lockstep` with a
`LockstepRow` for every active slot in order. With `S2P_DAC_BATCH` the
survivors of a tick are pushed together: `BatchAppend` gives every stream its
frame, `BatchGroup` pushes the streams that hold as many frames as each other
with one operation whose kernels find the buffers through the device table
(`PushGroup`; the table is uploaded only when the roster changed), and
`BatchFails` closes them all. A slot is used again, and a buffer's address by
another slot, without a bound.

Abstracted: `addr` stands for all the buffers of a stream, of which the code's
roster test compares one (`bx`). A CUDA error is taken to be sticky: a copy of
the table that fails and is followed by calls that succeed is left out, and so
is a failed collect in `finish_stream` that does not end in a retire. A
session is not in the model until its prefill ends. The retires of a shutdown
are those of `Sched`. The collect behind a batched push of one frame
(scheduler.c:716-731) is dead code with batching on, since `FirstFrame` has
pushed and flushed the stream before.

`DacDecoder` says which columns a layer reads. What a layer computes is a
constant operator; `StreamedIsWhole` feeds the same frames to the whole
decoder and, cut into pushes, to the incremental one. The operation modelled
is the incremental engine; the reference mode, which decodes an overlap again,
is left out.

### Startup

A start is a walk through `proc.at`: fingerprint and open the sidecar, map the
model, take or make each tensor, write and rename the sidecar, load the codec,
take or encode each voice, serve. `Die` ends it anywhere; the `Replace`
actions put a new version of the model, the codec or a recording on disk at
any time. A file's content is named by what made it.

Two faults of the code are left out of the instance, and are hypotheses of the
theorems. A recording replaced while it is being encoded (fault `"swap"`) is
hashed afterwards (voice_cache.c:107-109), so the codes are filed under the
new recording. And a knob that is set and empty (`S2P_INT4_MSE=`) is read as
its default by the fingerprint (qcache.c:62-66) and as off by the quantiser
(gemm.c:242-250), so two settings share a fingerprint, although qcache.h:10-12
says that they do not. Not modelled: writes that reach the disk out of order
(there is no fsync before the rename), and two servers writing one file.

### Chunker, JoinFilter

`Chunker` is `s2p_text_chunks`: sentences, the cuts of an oversize one at
commas or blanks, and the packing. A byte knows its character and its place in
it. `JoinFilter` is `gap_feed` and `gap_boundary` over whole responses. Both
are recursive and checked in the initial states of `MCLongForm`.

## 3. What the runs check

| run | instance | shows |
|---|---|---|
| `sched_safety` | 3 requests, 2 slots, ring of 2, 2 frames, 2 prefill chunks, all faults; symmetric requests | `Ownership`, `SlotsCounted`, `QuietAfterCancelOK`, `NoCallbackAfterOver` |
| `sched_live` | 2 requests, 2 slots, ring of 1, 2 starts, service faults | the refinement `ContractSafety`, `StopDrains`, and `EveryRequestEnds`, `CancelReturns`, `StopReturns` |
| `sched_cancel_window` | 2 requests, 1 slot, no faults | `QuietAfterCancel` **violated** |
| `chain_safety` | 3 chunks, 2 in parallel, first and last may end short or overrun, last may be regenerated, all faults | `WireInOrder`, `Accounted`, `RegeneratedUnheard`, `WindowKept`, `ConnAlive`, `FinishIsLast`; the text is split without loss (`ChunksAreTheText`), joins lose no sound (`JoinsAreTheGap`) |
| `chain_live` | the same with every later chunk short, a full queue | `ChainEnds` |
| `chain_rewind` | 3 chunks in parallel, later ones may overrun | `WireInOrder` **violated** |
| `chain_lost_retry` | as `chain_live`, the queue full for a regeneration | `ChainEnds` **violated** |
| `dacstream` | 3 slots, 2 CUDA streams, groups of 2, cap of 5, CUDA failures, batching on and off | `FramesAccounted`, `EndsComplete`, `Prompt`; the incremental decoder is the whole one (`StreamedIsWhole`) |
| `sessions` | 2 slots, 3 requests of 2 voices, a clone or none, a prefix cache of 2 entries, 3 frames, failures | `KvIsPrompt`, `FramesAreOwn`, `OnlyTooLongRefused`, `WarmStaysWarm`; `AttentionIsExact` at 16 and 8 bits, `SamplersAgree` |
| `sessions_kv4` | the same at 4 bits | `KvReadsBack` **violated** |
| `http` | 1 connection slot, 2 clients, a streamed, a buffered and a simple answer, everything failing but `"window"` | `OwnsItsConnection`, `OneResponse`, `ClosedIsComplete`, `Answered` |
| `startup` | 2 versions of every input, 5 environments, 3 tensors, 1 voice, everything failing but `"swap"` | `SidecarsAreHonest`, `ServesTheSame` |

Six of the properties do not depend on the state: `ChunksAreTheText`,
`JoinsAreTheGap`, `AttentionIsExact`, `KvReadsBack`, `SamplersAgree` and
`StreamedIsWhole` compare functions over bounded inputs, and are stated so
that TLC evaluates them in the initial states (or, the last, at the first
steps).

**Bounds.** Two slots and three requests are the least with a slot reused
while another session runs and a third request waits; a ring of two fills and
wraps; two frames separate a stream's first frame (delivered alone) from its
lockstep frames and reach the frame cap; two prefill chunks let one session
join while another decodes. Two starts give a restart after a drain. In the
chain three chunks give one that is live, one that waits and one that ends
before its turn; a parallelism of two leaves a chunk outside the window; two
pieces separate "nothing", "too little" and "enough"; one regeneration
separates a take that may be replaced from one that may not. `MaxReq` bounds
the requests of a connection; in the passing runs it is the number the chunks
and the regenerations can ask for, so it never stops the model.

One connection slot and two clients make every connect a reuse of slot and
descriptor, and a client meets the 503. Groups of two frames and a cap of five
give a first frame alone, two full groups and a remainder; three slots give two
rosters of the buffer table that differ, with a slot and an address in common;
slots and addresses are used again without a bound. The decoder has an attention
window of three, two attention layers and two blocks, and gets five frames,
more than its window and its convolutions reach back, in all sixteen cuts and
every mixture of single and batched pushes. In `sessions` a voice of three
frames, one of one and a clone too long for the context, with chunks of three
tokens, give chunks that end before, in and behind a reference; a context of
14 and splits of two rows give graphs of several splits; a third frame is the
first that is computed behind a replayed graph. Attention has a tile of three,
splits of two and five positions, two rows of every two lengths; the sampler
three candidates and the end, two of them kept, a window of four. The
chunker's target of four bytes is the least a character needs and one; it gets
all texts of up to four characters over an alphabet with a member for every
test in the code, and those of six over the characters that an oversize
sentence is cut at. The join filter holds four samples and may skip two. Two
versions separate a fingerprinted model from a mapped one; with an environment
for every knob of the quantiser any two are told apart. Deadlock is checked
only in `startup`; the other systems stop legitimately: an idle worker sleeps,
a closed connection is done.

**Fairness.** `Sched` assumes weak fairness of the worker's thread, of a
canceller that has been woken and of the thread inside start or stop: threads
the operating system schedules. Nothing obliges anyone to submit, cancel,
start or stop. `ChunkChain` assumes weak fairness of the poll loop (`poll` has
a timeout of 200 ms) and of the worker; a client need not leave. `HttpConn`
assumes the same, and strong fairness of `ServeIdle`: a client that stays
silent at every turn is closed once `HTTP_IDLE_SECS` have passed, whatever
else the loop serves. A client need not send, read or leave.

**Where the passing runs stop, and why.** Each exclusion is a disagreement
between the code and what it promises, listed in `PROJECT.json` as a finding
or a hazard:

* `sched_live` leaves out three faults. If `deliver_chunk` cannot allocate
  (`"oom"`, scheduler.c:181-186) the stream is retired without a final
  callback; if the worker cannot allocate its scratch memory or its thread is
  not created (`"worker"`, `"thread"`) requests are accepted that nobody
  serves, and stop leaves them in the ring although `s2p_sched_destroy` says
  "Worker exit path drained the queue".
* `chain_safety` regenerates only the last chunk. `submit_chunk` sets
  `next_submit` for a regeneration too, so that of an earlier chunk moves the
  window back over chunks already submitted (run `chain_rewind`).
* `chain_live` does not let a regeneration meet a full queue (run
  `chain_lost_retry`), does not let chunk 0 end without audio, after which
  `first_audio` is never set and the rest of the chain is never submitted, and
  has no memory or socket failure, after which the chain waits for the client
  to leave.
* `ConnAlive` exempts the requests in `missed`: those that `start_request`
  held when the cancel looked (run `sched_cancel_window` shows the same in the
  scheduler), and those a reset without a cancel left running (`route_tts`
  after a failed submit, a buffered response out of memory). `http` leaves the
  same window out.
* `EndsComplete` exempts a stream that ends at the frame cap with batched
  pushes on: `handle_frame` finishes it before the tick's batched push, and
  its last frame is never decoded (scheduler.c:304).
* `Answered` and `ClosedIsComplete` exempt a client that does not read: the
  write in `tts_audio_cb` fails, the callback returns 1 without `finished`,
  and the connection keeps its slot until the client leaves (http.c:517).
* `sessions` has caches of 16 and 8 bits; at 4 bits an even element loses its
  sign (run `sessions_kv4`).
* `startup` leaves out a recording replaced while it is encoded and a knob
  that is set and empty, see `Startup` above.
* `JoinsAreTheGap` allows what the filter cannot know: silence before a join
  that exceeds half the held window keeps the excess, leading silence beyond
  the skip limit stays, and a streamed response keeps the silence it has
  already sent.

## 4. What is proved

`SchedProofs` proves, for every number of requests, slots, ring entries,
frames, prefill chunks and starts and every set of faults:

* `TypeCorrect`: `Spec => []TypeOK`; the ring never exceeds `queue_depth`;
* `OwnershipHolds`: `Spec => []Ownership`; an accepted request that is not
  freed is in the ring, in one slot or in the worker's hands, once;
* `CancelIsQuiet`: `Spec => []QuietAfterCancelOK`;
* `NothingAfterOver`: `Spec => []NoCallbackAfterOver`.

They follow from `Invariance`, `Spec => []IInv`. None of the four is inductive
alone, and `IInv` adds what they need: `WorkerPlace` (what `wslot` and `wreq`
mean at each program counter: without it a retire could free a request that is
still seated elsewhere), `TodoPlace` (a loop visits occupied slots only, and
never the one being served), `SlotProgress` (a joining session has chunks
left; only the served slot may be at the frame cap), `CallbackPlace` (the
callback that runs is that of the request being served), `CancelMarks` (a
caller whose cancel returned or waits has marked the request, and a waiting
one watches a seated or freed request), `OverMarks` (a stream that is over is
on its way to be freed: nothing can call it again) and `BossPlace` (there is
no worker before a start and after a join). There is one lemma per action,
`NextIInv` collects them, and a few lemmas about sequences and slots carry
the facts about the ring. The only assumption is `SchedConstants`.

Its second part proves `CountIsRight`, `Spec => []SlotsCounted`: the slots
change in one action (`start_request` stores the request) and in the retires,
where `IInv` says that the retired slot was occupied; the cardinality then
moves by one with `n_active` (the library's theorems on adding an element to
and removing one from a finite set). From it follows `AdmissionGuardIsDead`, `Spec => []AdmissionFindsSlot`:
the branch at scheduler.c:560 that the code marks "cannot happen", and which
would free a request without telling its caller, cannot.

It also proves `StopLeavesNothing`, `Spec => []StopDrains`, under the
assumption `WorkerStarts` (neither the thread nor the worker's scratch memory
fails). Its own invariant `StopPlace` says what the shutdown has emptied by
each stage: the drain begins only with all slots free, the worker exits only
with the ring empty, and nobody submits in between because `stop` is set.
Without the assumption the statement is false, see above.

`SchedRefinement` proves `SchedImplementsContract`, `Spec => ContractSafety`,
under the assumption `ChunksAllocated` (`deliver_chunk` can allocate). Each
lemma there takes one kind of step of `Sched` to one step of the contract or to
a stutter. `EndPlace` is the additional invariant it needs: a request the
worker is about to free is over or cancelled, so a release never comes before
the end.

**`StartupProofs`.** `HonestSidecars`, `SameService` and `StartTypes` hold for
any tensors, voices, environments and numbers of versions, under two
hypotheses the code does not meet by itself: `NoEmptyKnob` and `NoSwap` (see
`Startup` above). `StartupConstants` is the only assumption besides.

What has to be shown is that a file which is wrong is never accepted. A
process fingerprints the model it finds and maps the model later; if it was
replaced in between, the sidecar holds the weights of one version under the
name of another. `SidecarsAreHonest` is not inductive: such a file would be
accepted if the first version came back. The invariant says why it cannot:
versions only grow, so a sidecar is either what its fingerprint says, or its
fingerprint is of a version smaller than the one on disk (`SidecarOk`).
`FingerprintTells` gives the rest: equal fingerprints quantise every tensor
equally, which is where `NoEmptyKnob` is needed. The same split goes through
the process (`FpIsOwn`, `Mapped`, `EntriesOk`: what is served from a sidecar
or kept for one is of the mapped version unless it was replaced behind the
fingerprint) and the device (`LoadedOk`). For the voices `CodesOk` says that
one recording at most is encoded and not yet stored, and that its codes are
of the version that will be hashed, which is where `NoSwap` is needed;
`ReferencesOk` says the same of the files. `IInv` is their conjunction; there
is one lemma per action, with one step per part.

**`ChunkChainProofs`.** `TypeCorrect`, `Spec => []TypeOK`, holds of every run.
The six safety properties (`WireKept`, `AudioKept`, `UnheardKept`,
`WindowIsKept`, `NoCallbackAfterReset`, `FinishKept`) have the form
`Spec /\ []RegenIsNewest => []P`, for every number of chunks, window, cap,
minimum, number of regenerations and set of faults. `RegenIsNewest` says that
the chunk submitted again is the last one submitted. The code does not see to
that: `submit_chunk` sets `next_submit` behind whatever chunk it submits, and
run `chain_rewind` shows the wire out of order after it. So the theorems say
that nothing else can go wrong, and two more say when it does not happen:
`NewestKept` proves `RegenIsNewest` for a text that is `EndsOnly`, one whose
first and last chunks alone can come back short or overrun (the first before
any audio, when no other is submitted; the last because none is behind it),
and `EndsOnlySafe` draws the conclusion, with no condition on the run. The
instance of `chain_safety` is such a text.

The invariant `IInv` joins what the two threads know of each other.
`WorkerPlace` and `PollPlace` say what each program counter means. `SlotsOwn`
ties a slot to the one request that generates its chunk: without it a second
request could feed the slot, which is what happens when `next_submit` goes
back. `Counted` is `in_flight`, with the room a waiting regeneration needs, so
that the window holds when it is submitted. `TakeCounted` relates `samples` to
what the session has made, `Buffered` and `WireTail` say where the pieces of a
take are before and after its turn: together with `EmitPlace` (the wire has
passed only chunks that are done) they make the hand-over in `chain_advance`
continue the wire and not repeat it (lemmas `WireGrows`, `HandOverInv`).
`Swept` says that the requests of the slots the cancel has passed can no
longer call back, which gives `ConnAlive` when the connection is reset, and
`FinishPlace` that the last touch is the last. There is one lemma per action,
for the types and for `IInv`, and TLC has checked `IInv` on the instance of
`chain_safety`.

**`HttpConnProofs`.** For every number of clients and of connection slots,
every cap, kind of request, length of take and set of faults:

* `PlacesKept`, `Spec => []Places`, and with it `TypeCorrect`, hold of every
  run, whether or not a cancel misses its request: a connection in use has a
  descriptor of its own and one connected client behind it, a free slot has
  none, the poll loop's entry numbers stay in the set it polled, a piece the
  worker is about to write is within the cap, a request is made once and only
  for a client whose request was read. The parts are `Table`, `LoopPlace`,
  `WorkerPlace` and `Asked`.
* `ConnectionKept`, `Spec => []OwnsItsConnection`, under `NoWindow`: no cancel
  comes while `start_request` holds its request. With such a cancel the
  property is false, as the finding of run `sched_cancel_window` says: the
  connection is reset, its slot and descriptor go to the next client, and the
  callback writes to it. `NoWindow` is thus exactly what the code's comment at
  http.c:712-714 takes for granted. The invariant `Owns` adds what it needs: a
  free slot is cleared and a connection that is not routed is as accept left
  it (`Blank`), a connection is not marked finished while its request may
  still call, and knows which request it waits for (`Waited`), and audio held
  for a client is its own (`HeldIsOwn`).

**`HttpResponseProofs`**, also under `NoWindow`: `OneResponseKept`,
`Spec => []OneResponse`, and `ClosedWell`, `Spec => ClosedIsComplete`, an
action property. `OneResponse` says nothing of a response that is half
written, so the invariant `Responses` does: `Opening` what is on the wire
before there is a request, `Middle` that as long as the callback has more to
write the connection's counter, its accumulator and the wire agree with what
the session has made, `Taken` that a take is cut only at its cap, and
`Finished` that a connection marked finished carries a complete response
unless its client left or does not read. The lemmas about sequences of tokens
come first (a response of a head, header, pieces and a terminal chunk, or of a
length and pieces, is one response); then a lemma per action; an action that
touches one client is split off from the others by `StepResponses` and the
frame lemmas. `ClosedWell` goes through every action that closes a descriptor
(`DropCloses`, `AnswerCloses`), of which `Build`, for a finished connection,
is the one that needs `Finished`. The invariant `IInv` of `HttpConn` was
checked by TLC on the instance of `http` and on one of two slots and two
clients.

**`DacStreamProofs`.** `TypeCorrect`, `FramesKept`, `EndsKept` and
`PromptKept` (`Spec => []TypeOK`, `[]FramesAccounted`, `[]EndsComplete`,
`[]Prompt`) hold for any number of slots and CUDA streams, any group size and
frame cap, with batched pushes or without, whichever CUDA calls fail and
whenever the GPU runs what it was given. There is no hypothesis beyond
`DacConstants`.

`FramesAccounted` counts the frames of a stream; it does not say what the GPU
will bring when it comes to the operations in its queues, nor whose buffer a
batched push will write, so it is not inductive. The invariant `IInv` adds
this. On the GPU's side (`OnGpu`): `InFlight`, an operation in a queue serves
live streams that wait on that queue, and brings exactly the frames they wait
for; `Awaited`, what a stream waits for is in its pinned buffer already or is
queued, so that a synchronised queue means a full buffer; `Ordered`, the copy
of a table is queued on stream 0 and ahead of a push that needs it; `TableOk`,
the device has the host's table or its copy is queued ahead of every batch,
and every queued batch was made for that table, which is why a stale roster is
never used: a roster changes only when the streams of the old one have been
collected. On the worker's: `HandPlace` and `TickPlace` say what is held at
each step of `handle_frame` and of the round (while the groups are pushed, no
stream of the tick still to push has a result outstanding, hence no
`S2P_ERR_STATE`), `EndsWell` what `finish_stream` has delivered at each of its
steps, and `Steady` what is true of a stream between two of them (`Stream`,
and `Counted`, which is `FramesAccounted` of one slot). There is one lemma per
action. They rest on lemmas about intervals of frames (`FramesConcat`,
`FramesAppend`), about queues (`Enqueued`, `Dequeued`, `Appended`,
`GroupOnGpu`: what an operation more or less changes for the streams it serves
and for those it does not), and on frame lemmas for the slots an action does
not touch (`Others`, `Quiet`). TLC has checked `IInv` with two and with three
slots.

**`SessionsProofs`.** `TypeCorrect`, `CachesHoldPrompts`,
`ClientsHearTheirText`, `RefusedForLength` and `WarmForEver`
(`Spec => []TypeOK`, `[]KvIsPrompt`, `[]FramesAreOwn`, `[]OnlyTooLongRefused`,
`[]WarmStaysWarm`) hold for any number of slots and codebooks, any size of the
prefix cache, the context, the scratch memory and a chunk, any registry of
voices and lengths of their recordings, any texts, and whatever fails. The only
assumptions are `SessionsConstants` and `AttentionConstants`: names and texts
are strings, sizes are numbers.

`KvIsPrompt` speaks of the sessions only. A session that hits the cache starts
with rows another session computed, perhaps in chunks cut elsewhere, perhaps
with other entries evicted since; so the inductive invariant `IInv` says of
every entry that it holds the rows of the system block of the voice it is
named after (`EntryOk`). That a chunk continues a session's rows needs to know
where the chunk before it ended: `Uncut` says that it never ended inside a
reference, and that the next part to give is the one whose run lies ahead
(`Stage`). The same facts give `OnlyTooLongRefused`: the checks of
`s2p_session_prefill` count masked tokens against columns, and with no
reference cut they balance. `Stage` also ties a decoding session's `prev` to
the last frame its client heard, `Types` the graphs to the splits of the
longest context: the two facts that `FramesAreOwn` needs of a batch. For
`WarmStaysWarm` the invariant `Warmed` says that before the first request the
entries lie one behind the other, each voice's by itself, and that a voice that
is in the cache stays when all are, because nobody then inserts.

The argument has the order of the module: what a layout by codebook gives back
by column; where a prompt's parts lie (`PartStarts` finds the one run of masked
tokens, and a prompt is its system block and its turn); that a chunk's rows
join those before it; that a lookup and an insert keep `EntryOk`; that a row of
a batch sees its own cache, its own last frame and the codes of its own column,
that its splits cover its rows, that the fast decoder reads only positions it
has written in this frame, and that a graph is captured with enough splits for
any length; then one lemma per action. Induction over the steps of `FastRow`
and over the parts goes through `LeastNat`, the least member of a set of
numbers, which follows from the well-foundedness of the finite subsets. TLC has
checked `IInv` on the instance of `sessions`.

One bound had to be corrected on the way. A chunk is extended over a reference
that begins exactly where the chunk would end, so it may be as long as a chunk
and the whole reference, one token more than `OnlyTooLongRefused` said before;
the instance of `sessions` does not tell the two apart, because its clone is
too long for the context as well, and the proof did not go through.

The assumptions on constants are `ChainConstants`, `HttpConstants`,
`DacConstants`, `SessionsConstants` and `AttentionConstants`, the ones the
modules declare.

**Only model-checked:** the computations compared over bounded inputs
(`AttentionIsExact`, `SamplersAgree`, `StreamedIsWhole`, `ChunksAreTheText`,
`JoinsAreTheGap`), whose definitions are recursive operators or folds, out of
the reach of the prover's backends; and all liveness (`EveryRequestEnds`,
`CancelReturns`, `StopReturns`, `ChainEnds`, `Answered`), which is outside its
logic.

## 5. Not modelled

* The parsers of `core/` (json, safetensors, wav, config) and sha256:
  sequential functions of a file, with unit tests.
* Floating-point values: the GEMV and GEMM kernels, the encoder, norms and
  activations. The parity tests compare them with the reference.
* BPE merges and the Unicode tables of the tokenizer: data.
* The random generators of the samplers.
* The reference mode of the DAC stream, and the switches that turn graphs,
  split attention or the incremental engine off.
* The speculative draft, the tools, the training scripts, the benchmark.
* Statistics, logging, the fields of a request, socket options.

## 6. Plan

Done: `Sched`, `ChunkChain`, `HttpConn`, `DacStream`, `Sessions` and `Startup`
with their proofs, and the pure functions they rest on. Next:

1. the composition of `HttpConn` with `ChunkChain`, several requests to a
   connection slot that is reused;
2. the reference mode of the DAC stream as a second refinement of
   `DacDecoder`;
3. two servers over one set of sidecars, and writes that reach the disk out
   of order.

Liveness stays with TLC, and so do the computations written as recursive
operators or folds.
