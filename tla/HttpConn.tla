------------------------------ MODULE HttpConn -------------------------------
(* The connections of src/http/http.c: the poll loop accepts clients, reads *)
(* and answers their requests, hands a synthesis to the scheduler, and is   *)
(* the only one to close a descriptor; the worker's callback writes the     *)
(* audio straight to the descriptor and says when it is done.  A response   *)
(* that is one scheduler request; a chain of them is ChunkChain.            *)
(*                                                                          *)
(* A slot of the table is reused by the next client, and the kernel hands   *)
(* out the lowest free descriptor: bytes written late reach a stranger.     *)
(* The scheduler is what http.c uses of it, as in ChunkChain: callbacks     *)
(* never overlap, cancel waits a running one out and misses a request that  *)
(* start_request holds.                                                     *)
EXTENDS Integers, Sequences, FiniteSets, Functions

CONSTANTS
  Client,
  NoClient,
  MaxConns,  \* srv.max_conns
  KindOf,    \* KindOf[c]: the kinds of request client c may make
  Cap,       \* cap_samples of a take, in pieces
  Takes,     \* the lengths a take may have, in pieces; longer than Cap is cut
  Faults     \* a subset of FaultKinds

(* simple: answered at once, be it a GET or an error; wav and pcm: streamed *)
(* audio; buffered: "stream": false.                                        *)
Kinds == {"simple", "wav", "pcm", "buffered"}

(* submit: the scheduler refuses a request; oom: the accumulator of a       *)
(* buffered response cannot grow; leave: a client hangs up; stall: it stops *)
(* reading; window: a cancel comes while start_request holds the request.   *)
FaultKinds == {"submit", "oom", "leave", "stall", "window"}

ASSUME HttpConstants ==
  /\ IsFiniteSet(Client) /\ NoClient \notin Client /\ MaxConns \in Nat \ {0}
  /\ KindOf \in [Client -> (SUBSET Kinds) \ {{}}]
  /\ Cap \in Nat /\ Takes \subseteq Nat /\ Faults \subseteq FaultKinds

Slot == 1 .. MaxConns
Fd == 1 .. Cardinality(Client)
NoFd == 0

VARIABLES
  peer,    \* peer[c]: the client's end and what it received
  conn,    \* the table of connections
  pfds,    \* the descriptors of this turn's poll, in order
  revents, \* those poll reported
  req,     \* req[c]: the scheduler request made for client c
  worker,  \* the callback under way
  loop     \* the poll loop: where it is, the index it has come to

vars == <<peer, conn, pfds, revents, req, worker, loop>>

(* A cleared connection. *)
ConnAt(st, fd) == [st |-> st, fd |-> fd, fin |-> FALSE, hdr |-> FALSE, acc |-> <<>>,
                   got |-> 0, of |-> NoClient, kind |-> "pcm", samples |-> 0]
FreeConn == ConnAt("free", NoFd)
Idle == [at |-> "idle", of |-> NoClient, n |-> 0, final |-> FALSE, cut |-> FALSE, rc |-> 0]

(* A token of a response: its name, with the client whose request made the  *)
(* audio, or with a length or a status.                                     *)
Piece(c) == <<"audio", c>>
Continue == <<"continue", 100>>
Head200 == <<"head", 200>>
WavHdr == <<"wavhdr", 0>>
EndChunk == <<"end", 0>>
Simple(status) == <<"simple", status>>
Length(n) == <<"length", n>>
Token == {Piece(c) : c \in Client}
           \cup {"continue", "simple", "head", "length", "wavhdr", "end"} \X Nat

PeerType ==
  peer \in [Client -> [st : {"new", "backlog", "open", "closed"}, fd : Fd \cup {NoFd},
                       kind : Kinds, sent : 0 .. 3, wire : Seq(Token),
                       gone : BOOLEAN, slow : BOOLEAN]]
ConnType ==
  /\ conn \in [Slot -> [st : {"free", "head", "body", "routing", "streaming"},
                        fd : Fd \cup {NoFd}, fin : BOOLEAN, hdr : BOOLEAN, acc : Seq(Token),
                        got : 0 .. 3, of : Client \cup {NoClient}, kind : Kinds,
                        samples : 0 .. Cap]]
  /\ \A i \in Slot : conn[i].st = "free" <=> conn[i].fd = NoFd
  /\ \A i, j \in Slot : conn[i].fd # NoFd /\ conn[i].fd = conn[j].fd => i = j
LoopType ==
  /\ pfds \in Seq(Fd) /\ Len(pfds) <= MaxConns /\ revents \subseteq Fd
  /\ loop \in [at : {"build", "serve", "submit", "route", "exit", "over"},
               k : 1 .. MaxConns + 1, slot : 0 .. MaxConns]
WorkType ==
  /\ req \in [Client -> [st : {"none", "queued", "starting", "active", "over"},
                         slot : 0 .. MaxConns, take : Nat, made : Nat]]
  /\ worker \in [at : {"idle", "start", "emit", "close", "flag", "return"},
                 of : Client \cup {NoClient}, n : {0, 1}, final : BOOLEAN, cut : BOOLEAN,
                 rc : {0, 1}]
TypeOK == PeerType /\ ConnType /\ LoopType /\ WorkType

Init ==
  /\ peer \in [Client -> {[st |-> "new", fd |-> NoFd, kind |-> k, sent |-> 0, wire |-> <<>>,
                           gone |-> FALSE, slow |-> FALSE] : k \in Kinds}]
  /\ \A c \in Client : peer[c].kind \in KindOf[c]
  /\ conn = [i \in Slot |-> FreeConn]
  /\ pfds = <<>> /\ revents = {}
  /\ req = [c \in Client |-> [st |-> "none", slot |-> 0, take |-> 0, made |-> 0]]
  /\ worker = Idle
  /\ loop = [at |-> "build", k |-> 1, slot |-> 0]

Fault(kind) == kind \in Faults

-----------------------------------------------------------------------------
(* Sockets.                                                                 *)

Holder(fd) == {c \in Client : peer[c].fd = fd /\ peer[c].st = "open"}

(* send_all: it fails on a closed descriptor, and may fail when the client  *)
(* is gone, or does not read within the budget.                             *)
SendOk(fd) == Holder(fd) # {}
SendFails(fd) == \A c \in Holder(fd) : peer[c].gone \/ peer[c].slow

Written(fd, tokens) ==
  [c \in Client |-> IF c \in Holder(fd) THEN [peer[c] EXCEPT !.wire = @ \o tokens] ELSE peer[c]]

(* What a write whose result is ignored may leave. *)
WrittenOrLost(fd, tokens) ==
  {p \in {Written(fd, tokens), peer} :
     \/ SendOk(fd) /\ p = Written(fd, tokens)
     \/ SendFails(fd) /\ p = peer}

(* Of a client whose connection is closed only what it received is kept. *)
Left(p, wire) == [st |-> "closed", fd |-> NoFd, kind |-> p.kind, sent |-> 0, wire |-> wire,
                  gone |-> FALSE, slow |-> FALSE]

Closed(p, fd) ==
  [c \in Client |-> IF p[c].fd = fd /\ p[c].st = "open" THEN Left(p[c], p[c].wire) ELSE p[c]]

(* send_simple and conn_reset. *)
AnswerAndReset(i, tokens) ==
  /\ \E p \in WrittenOrLost(conn[i].fd, tokens) : peer' = Closed(p, conn[i].fd)
  /\ conn' = [conn EXCEPT ![i] = FreeConn]

(* Faulty variant: the slot is freed with its descriptor. *)
Reset_KeepFd(i) ==
  /\ peer' = Closed(peer, conn[i].fd)
  /\ conn' = [conn EXCEPT ![i].st = "free"]

(* conn_reset. *)
Reset(i) ==
  /\ peer' = Closed(peer, conn[i].fd)
  /\ conn' = [conn EXCEPT ![i] = FreeConn]

-----------------------------------------------------------------------------
(* Clients.                                                                 *)

Connect(c) ==
  /\ peer[c].st = "new" /\ loop.at # "over"
  /\ peer' = [peer EXCEPT ![c].st = "backlog"]
  /\ UNCHANGED <<conn, pfds, revents, req, worker, loop>>

(* The head of the request, its body, and bytes nobody asked for. *)
Send(c) ==
  /\ peer[c].st \in {"backlog", "open"} /\ peer[c].sent < (IF req[c].st = "none" THEN 2 ELSE 3)
  /\ ~peer[c].gone
  /\ peer' = [peer EXCEPT ![c].sent = @ + 1]
  /\ UNCHANGED <<conn, pfds, revents, req, worker, loop>>

Leave(c) ==
  /\ Fault("leave") /\ peer[c].st = "open" /\ ~peer[c].gone
  /\ peer' = [peer EXCEPT ![c].gone = TRUE]
  /\ UNCHANGED <<conn, pfds, revents, req, worker, loop>>

Stall(c) ==
  /\ Fault("stall") /\ req[c].st # "none" /\ peer[c].st = "open" /\ ~peer[c].slow
  /\ peer' = [peer EXCEPT ![c].slow = TRUE]
  /\ UNCHANGED <<conn, pfds, revents, req, worker, loop>>

-----------------------------------------------------------------------------
(* The poll loop builds its set of descriptors, one slot at a time.         *)

Build ==
  /\ loop.at = "build" /\ loop.k <= MaxConns
  /\ loop' = [loop EXCEPT !.k = @ + 1]
  /\ LET i == loop.k IN
     \/ /\ conn[i].st = "free"
        /\ UNCHANGED <<peer, conn, pfds>>
     \/ /\ conn[i].st = "streaming" /\ conn[i].fin
        /\ Reset(i) /\ UNCHANGED pfds
     \/ /\ conn[i].st # "free" /\ ~(conn[i].st = "streaming" /\ conn[i].fin)
        /\ pfds' = Append(pfds, conn[i].fd)
        /\ UNCHANGED <<peer, conn>>
  /\ UNCHANGED <<revents, req, worker>>

(* Bytes, or the end of the stream, are waiting on the descriptor. *)
Readable(fd) ==
  \E c \in Holder(fd), i \in Slot :
    conn[i].fd = fd /\ (peer[c].gone \/ peer[c].sent > conn[i].got)

UsedFds == {peer[c].fd : c \in Client}
LowestFd(fd) == fd \notin UsedFds /\ \A lower \in 1 .. fd - 1 : lower \in UsedFds
FirstFree(i) == conn[i].st = "free" /\ \A j \in 1 .. i - 1 : conn[j].st # "free"

(* The client gets the slot, cleared, and the descriptor. *)
Admit(c, i, fd) ==
  /\ FirstFree(i) /\ LowestFd(fd)
  /\ peer' = [peer EXCEPT ![c].st = "open", ![c].fd = fd]
  /\ conn' = [conn EXCEPT ![i] = ConnAt("head", fd)]

(* send_simple and close. *)
TurnAway(c) ==
  /\ peer' = [peer EXCEPT ![c] = Left(@, <<Simple(503)>>)]
  /\ UNCHANGED conn

(* poll returns when something is readable, or after 200 ms.  At most one   *)
(* connection is accepted a turn; conn_alloc takes the first free slot, and *)
(* without one the client is answered 503.                                  *)
PollAccept ==
  /\ loop.at = "build" /\ loop.k = MaxConns + 1
  /\ loop' = [loop EXCEPT !.at = "serve", !.k = 1]
  /\ revents' = {fd \in Range(pfds) : Readable(fd)}
  /\ LET waiting == {c \in Client : peer[c].st = "backlog"} IN
     \/ /\ waiting = {}
        /\ UNCHANGED <<peer, conn>>
     \/ \E c \in waiting, i \in Slot, fd \in Fd : Admit(c, i, fd)
     \/ \E c \in waiting :
          /\ \A i \in Slot : conn[i].st # "free"
          /\ TurnAway(c)
  /\ UNCHANGED <<pfds, req, worker>>

(* The connection that now has the descriptor of entry k, if any. *)
Served(k) == {i \in Slot : conn[i].st # "free" /\ conn[i].fd = pfds[k]}

(* The end of a turn: the loop goes on, unless a signal set g_http_stop. *)
NextTurn ==
  /\ loop.at = "serve" /\ loop.k > Len(pfds)
  /\ \E at \in {"build", "exit"} : loop' = [at |-> at, k |-> 1, slot |-> 0]
  /\ pfds' = <<>> /\ revents' = {}
  /\ UNCHANGED <<peer, conn, req, worker>>

ServeNone ==
  /\ loop.at = "serve" /\ loop.k <= Len(pfds)
  /\ Served(loop.k) = {} \/ pfds[loop.k] \notin revents
  /\ loop' = [loop EXCEPT !.k = @ + 1]
  /\ UNCHANGED <<peer, conn, pfds, revents, req, worker>>

(* Nothing came for HTTP_IDLE_SECS: 408.  The clock is not modelled. *)
ServeIdle ==
  /\ loop.at = "serve" /\ loop.k <= Len(pfds)
  /\ \E i \in Served(loop.k) :
       /\ pfds[loop.k] \notin revents
       /\ conn[i].st \in {"head", "body"}
       /\ AnswerAndReset(i, <<Simple(408)>>)
  /\ loop' = [loop EXCEPT !.k = @ + 1]
  /\ UNCHANGED <<pfds, revents, req, worker>>

Over(c) == [req EXCEPT ![c].st = "over", ![c].made = 0]

(* Faulty variant: the connection is closed under its request. *)
CancelReq_Skip(c) == UNCHANGED req

(* s2p_sched_cancel of the request of client c: a callback under way is     *)
(* waited out; a queued or active request gets no other, and one that       *)
(* start_request holds is not found, or waited for if the window is closed. *)
CancelReq(c) ==
  /\ worker.of = c => worker.at = "start" /\ Fault("window")
  /\ req' = IF req[c].st \in {"queued", "active"} THEN Over(c) ELSE req

(* A readable streaming connection: its client left, or sent stray bytes.   *)
ServeStreaming ==
  /\ loop.at = "serve" /\ loop.k <= Len(pfds) /\ pfds[loop.k] \in revents
  /\ loop' = [loop EXCEPT !.k = @ + 1]
  /\ \E i \in Served(loop.k), c \in Client :
       /\ conn[i].st = "streaming" /\ c \in Holder(conn[i].fd)
       /\ \/ /\ peer[c].gone
             /\ CancelReq(conn[i].of) /\ Reset(i)
          \/ /\ ~peer[c].gone
             /\ conn' = [conn EXCEPT ![i].got = peer[c].sent]
             /\ UNCHANGED <<peer, req>>
  /\ UNCHANGED <<pfds, revents, worker>>

(* The bytes of a head may ask for 100 Continue. *)
Expect(i) == IF conn[i].got = 0 THEN {<<>>, <<Continue>>} ELSE {<<>>}

(* recv on a connection that is still reading: a hangup ...                 *)
ReadNothing(i) ==
  /\ Reset(i)
  /\ loop' = [loop EXCEPT !.k = @ + 1]

(* ... the complete head ...                                                *)
ReadHead(i, expect) ==
  /\ conn[i].got = 0
  /\ conn' = [conn EXCEPT ![i].st = "body", ![i].got = 1]
  /\ peer' \in WrittenOrLost(conn[i].fd, expect)
  /\ loop' = [loop EXCEPT !.k = @ + 1]

(* ... or the body, which is dispatched: an answer at once, also to a head  *)
(* that is too large (413, 431), or a synthesis.                            *)
ReadSimple(i, c, expect) ==
  /\ peer[c].sent > conn[i].got /\ peer[c].kind = "simple"
  /\ AnswerAndReset(i, expect \o <<Simple(0)>>)
  /\ loop' = [loop EXCEPT !.k = @ + 1]

ReadBody(i, c, expect) ==
  /\ peer[c].kind # "simple"
  /\ conn' = [conn EXCEPT ![i].st = "routing", ![i].got = peer[c].sent,
                          ![i].kind = peer[c].kind]
  /\ peer' \in WrittenOrLost(conn[i].fd, expect)
  /\ loop' = [loop EXCEPT !.at = "route", !.slot = i]

Read ==
  /\ loop.at = "serve" /\ loop.k <= Len(pfds) /\ pfds[loop.k] \in revents
  /\ \E i \in Served(loop.k) : \E c \in Holder(conn[i].fd), expect \in Expect(i) :
       /\ conn[i].st \in {"head", "body"}
       /\ \/ peer[c].gone /\ expect = <<>> /\ ReadNothing(i)
          \/ peer[c].sent = 1 /\ ReadHead(i, expect)
          \/ (peer[c].sent = 1 => expect = <<>>) /\ ReadSimple(i, c, expect)
          \/ peer[c].sent >= 2 /\ ReadBody(i, c, expect)
  /\ UNCHANGED <<pfds, revents, req, worker>>

-----------------------------------------------------------------------------
(* route_tts, behind the checks of the request.                             *)

Routed == conn[loop.slot]
RoutedClient == CHOOSE c \in Client : c \in Holder(Routed.fd)
Resume == loop' = [loop EXCEPT !.at = "serve", !.k = @ + 1, !.slot = 0]

(* The response head of a streamed answer goes out before the submit. *)
RouteHead ==
  /\ loop.at = "route"
  /\ \/ /\ Routed.kind = "buffered"
        /\ loop' = [loop EXCEPT !.at = "submit"] /\ UNCHANGED <<peer, conn>>
     \/ /\ Routed.kind # "buffered"
        /\ peer' = Written(Routed.fd, <<Head200>>)
        /\ loop' = [loop EXCEPT !.at = "submit"] /\ UNCHANGED conn
     \/ /\ Routed.kind # "buffered" /\ SendFails(Routed.fd)
        /\ Reset(loop.slot) /\ Resume
  /\ UNCHANGED <<pfds, revents, req, worker>>

(* s2p_sched_submit: from here on the worker may call back; the connection  *)
(* does not know its request yet and is not streaming.                      *)
RouteSubmit ==
  /\ loop.at = "submit" /\ req[RoutedClient].st = "none"
  /\ \E n \in Takes :
       req' = [req EXCEPT ![RoutedClient] = [st |-> "queued", slot |-> loop.slot,
                                             take |-> n, made |-> 0]]
  /\ UNCHANGED <<peer, conn, pfds, revents, worker, loop>>

RouteSubmitted ==
  /\ loop.at = "submit" /\ req[RoutedClient].st # "none"
  /\ conn' = [conn EXCEPT ![loop.slot].st = "streaming", ![loop.slot].of = RoutedClient]
  /\ Resume
  /\ UNCHANGED <<peer, pfds, revents, req, worker>>

RouteRefused ==
  /\ loop.at = "submit" /\ req[RoutedClient].st = "none" /\ Fault("submit")
  /\ AnswerAndReset(loop.slot, IF Routed.kind = "buffered"
                                 THEN <<Simple(503)>> ELSE <<EndChunk>>)
  /\ Resume
  /\ UNCHANGED <<pfds, revents, req, worker>>

(* Shutdown: what streams is cancelled, every connection is reset.          *)
Shutdown ==
  /\ loop.at = "exit" /\ loop.k <= MaxConns
  /\ loop' = [loop EXCEPT !.k = @ + 1]
  /\ LET i == loop.k IN
     \/ conn[i].st = "free" /\ UNCHANGED <<peer, conn, req>>
     \/ conn[i].st = "streaming" /\ CancelReq(conn[i].of) /\ Reset(i)
     \/ conn[i].st \in {"head", "body"} /\ Reset(i) /\ UNCHANGED req
  /\ UNCHANGED <<pfds, revents, worker>>

(* The listening socket is closed: the backlog is refused. *)
Exit ==
  /\ loop.at = "exit" /\ loop.k > MaxConns
  /\ loop' = [loop EXCEPT !.at = "over"]
  /\ peer' = [c \in Client |-> IF peer[c].st = "backlog" THEN [peer[c] EXCEPT !.st = "closed"]
                               ELSE peer[c]]
  /\ UNCHANGED <<conn, pfds, revents, req, worker>>

-----------------------------------------------------------------------------
(* The scheduler and its worker.                                            *)

Pop(c) ==
  /\ worker.at = "idle" /\ req[c].st = "queued"
  /\ req' = [req EXCEPT ![c].st = "starting"]
  /\ worker' = [worker EXCEPT !.at = "start", !.of = c]
  /\ UNCHANGED <<peer, conn, pfds, revents, loop>>

Started(c) ==
  /\ worker.at = "start" /\ worker.of = c
  /\ req' = [req EXCEPT ![c].st = "active"]
  /\ worker' = Idle
  /\ UNCHANGED <<peer, conn, pfds, revents, loop>>

(* The worker calls tts_audio_cb with a piece of audio, the end of the      *)
(* take, or both.  A piece beyond the cap is cut to nothing.                *)
Deliver(c, n, final) ==
  /\ worker.at = "idle" /\ req[c].st = "active"
  /\ req[c].made + n <= req[c].take
  /\ IF final THEN req[c].made + n = req[c].take ELSE n = 1
  /\ req' = [req EXCEPT ![c].made = @ + n]
  /\ LET over == n = 1 /\ conn[req[c].slot].samples = Cap
     IN  worker' = [at |-> "emit", of |-> c, n |-> IF over THEN 0 ELSE n, final |-> final,
                    cut |-> over, rc |-> 0]
  /\ UNCHANGED <<peer, conn, pfds, revents, loop>>

Mine == req[worker.of].slot
C == conn[Mine]
(* Faulty variant: the header goes out with every piece. *)
Header_Always == IF C.kind = "wav" THEN <<WavHdr>> ELSE <<>>

(* The WAV header, before the first chunk of audio. *)
Header == IF C.kind = "wav" /\ ~C.hdr THEN <<WavHdr>> ELSE <<>>

(* Faulty variant: a take is closed by its final piece only. *)
Closes_Final == worker.final

Closes == worker.final \/ worker.cut

(* Faulty variant: finished is stored with the response still open. *)
AfterEmit_FlagFirst == IF Closes THEN "flag" ELSE "return"

AfterEmit == IF Closes THEN "close" ELSE "return"

(* conn_emit: the accumulator or the wire; a failure ends the callback. *)
Emit ==
  /\ worker.at = "emit"
  /\ \/ /\ worker.n = 0
        /\ worker' = [worker EXCEPT !.at = AfterEmit]
        /\ UNCHANGED <<peer, conn>>
     \/ /\ worker.n = 1 /\ C.kind = "buffered"
        /\ conn' = [conn EXCEPT ![Mine].acc = @ \o <<Piece(worker.of)>>, ![Mine].samples = @ + 1]
        /\ worker' = [worker EXCEPT !.at = AfterEmit]
        /\ UNCHANGED peer
     \/ /\ worker.n = 1 /\ C.kind = "buffered" /\ Fault("oom")
        /\ peer' \in WrittenOrLost(C.fd, <<Simple(500)>>)
        /\ worker' = [worker EXCEPT !.at = "flag", !.rc = 1]
        /\ UNCHANGED conn
     \/ /\ worker.n = 1 /\ C.kind # "buffered" /\ SendOk(C.fd)
        /\ peer' = Written(C.fd, Header \o <<Piece(worker.of)>>)
        /\ conn' = [conn EXCEPT ![Mine].hdr = (C.kind = "wav"), ![Mine].samples = @ + 1]
        /\ worker' = [worker EXCEPT !.at = AfterEmit]
     \/ /\ worker.n = 1 /\ C.kind # "buffered" /\ SendFails(C.fd)
        /\ UNCHANGED peer
        /\ conn' \in {conn, [conn EXCEPT ![Mine].hdr = (C.kind = "wav")]}
        /\ worker' = [worker EXCEPT !.at = "return", !.rc = 1]
  /\ UNCHANGED <<pfds, revents, req, loop>>

(* conn_finish_response, but for its last line. *)
Close ==
  /\ worker.at = "close"
  /\ \/ /\ C.kind = "buffered"
        /\ peer' \in WrittenOrLost(C.fd, <<Length(Len(C.acc))>> \o C.acc)
        /\ UNCHANGED conn
     \/ /\ C.kind # "buffered"
        /\ peer' \in WrittenOrLost(C.fd, Header \o <<EndChunk>>)
        /\ conn' = [conn EXCEPT ![Mine].hdr = (C.kind = "wav")]
  /\ worker' = [worker EXCEPT !.at = "flag"]
  /\ UNCHANGED <<pfds, revents, req, loop>>

(* finished is stored: the poll loop may reset the connection at once. *)
Flag ==
  /\ worker.at = "flag"
  /\ conn' = [conn EXCEPT ![Mine].fin = TRUE]
  /\ worker' = [worker EXCEPT !.at = "return"]
  /\ UNCHANGED <<peer, pfds, revents, req, loop>>

(* The stream is over after the final piece or a nonzero return. *)
Ends == worker.final \/ worker.rc # 0 \/ worker.cut

Return ==
  /\ worker.at = "return"
  /\ req' = IF Ends THEN Over(worker.of) ELSE req
  /\ worker' = Idle
  /\ UNCHANGED <<peer, conn, pfds, revents, loop>>

-----------------------------------------------------------------------------
PollLoop ==
  \/ Build \/ PollAccept \/ NextTurn \/ ServeNone \/ ServeIdle \/ ServeStreaming \/ Read
  \/ RouteHead \/ RouteSubmit \/ RouteSubmitted \/ RouteRefused
  \/ Shutdown \/ Exit

WorkerStep ==
  \/ \E c \in Client : Pop(c) \/ Started(c)
  \/ \E c \in Client, n \in {0, 1}, final \in BOOLEAN : Deliver(c, n, final)
  \/ Emit \/ Close \/ Flag \/ Return

Environment ==
  \/ \E c \in Client : Connect(c) \/ Send(c) \/ Leave(c) \/ Stall(c)

Next == PollLoop \/ WorkerStep \/ Environment

(* poll returns every 200 ms, the worker serves its sessions, and time      *)
(* passes; nothing obliges a client to send, to read, or to leave.          *)
Fairness ==
  WF_vars(PollLoop) /\ WF_vars(WorkerStep) /\ SF_vars(ServeIdle)

Spec == Init /\ [][Next]_vars /\ Fairness

-----------------------------------------------------------------------------
(* Properties.                                                              *)

(* The callback of a request is still to come, or has not left the          *)
(* connection yet.                                                          *)
MayTouch(c) ==
  \/ req[c].st \in {"queued", "starting"}
  \/ req[c].st = "active" /\ ~(worker.of = c /\ worker.at = "return" /\ Ends)

(* src/http/http.c:31-33: only the poll loop closes descriptors, after      *)
(* cancel has the worker out of the callback, so none is reused under one.  *)
(* A request whose callback may still run has its connection, slot and      *)
(* descriptor, to itself, and audio reaches only the client that asked.     *)
OwnsItsConnection ==
  /\ \A c \in Client : MayTouch(c) =>
       /\ conn[req[c].slot].st \in {"routing", "streaming"}
       /\ Holder(conn[req[c].slot].fd) = {c}
  /\ \A c, d \in Client : Piece(d) \in Range(peer[c].wire) => c = d

(* What a client received, after a 100 Continue. *)
Response(w) == IF w # <<>> /\ w[1] = Continue THEN Tail(w) ELSE w
Tokens(w, name) == {i \in DOMAIN w : w[i][1] = name}

Heard(w) == Cardinality(Tokens(w, "audio"))
Audible(take) == IF take > Cap THEN Cap ELSE take

(* One response to a client: an answer sent at once; or a head, the WAV     *)
(* header if it asked for one, audio, and the terminal chunk last; or the   *)
(* exact length and that many pieces.  The terminal chunk and the length    *)
(* follow all the audio of the take up to its cap, also for a client that   *)
(* does not read: a stream that lost audio cannot pass for a complete one.  *)
OneResponse ==
  \A c \in Client : LET w == Response(peer[c].wire) IN
    /\ Tokens(w, "continue") = {}
    /\ Tokens(w, "simple") \cup Tokens(w, "head") \cup Tokens(w, "length") \subseteq {1}
    /\ Tokens(w, "simple") # {} => Len(w) = 1
    /\ Tokens(w, "wavhdr") \subseteq {2} /\ Tokens(w, "end") \subseteq {Len(w)}
    /\ peer[c].kind = "wav" /\ Tokens(w, "audio") # {} => Tokens(w, "wavhdr") = {2}
    /\ Tokens(w, "length") # {} => w[1][2] = Heard(w)
    /\ Tokens(w, "length") \cup Tokens(w, "end") # {} => Heard(w) = Audible(req[c].take)

Complete(w) == Tokens(w, "simple") \cup Tokens(w, "length") \cup Tokens(w, "end") # {}

(* The connection of a client that stayed and read is closed only behind a  *)
(* complete response (OneResponse says what it holds), unless the server is *)
(* shutting down.                                                           *)
ClosedIsComplete ==
  [][\A c \in Client :
       /\ peer[c].st # "closed" /\ peer'[c].st = "closed" /\ loop.at # "exit"
       /\ ~peer[c].gone /\ ~peer[c].slow
       => Complete(Response(peer'[c].wire))]_vars

(* Every client is answered and its slot comes back, also if it sends       *)
(* nothing; but a client that stops reading keeps its connection for as     *)
(* long as it stays.                                                        *)
Answered == \A c \in Client : peer[c].st = "backlog" ~> (peer[c].st = "closed" \/ peer[c].slow)

-----------------------------------------------------------------------------
(* The inductive invariant.                                                 *)

(* A connection in use has the descriptor of one client, who is connected.  *)
Table ==
  /\ \A c \in Client : peer[c].st = "open" <=> peer[c].fd # NoFd
  /\ \A c, d \in Client : peer[c].fd # NoFd /\ peer[c].fd = peer[d].fd => c = d
  /\ \A i \in Slot : conn[i].st # "free" => Holder(conn[i].fd) # {}

(* Where the poll loop is: the descriptors it has collected, the connection *)
(* whose request it routes.                                                 *)
LoopPlace ==
  /\ loop.at = "build" => Len(pfds) < loop.k
  /\ loop.at = "serve" => loop.k <= Len(pfds) + 1
  /\ loop.at \in {"route", "submit"} => loop.k <= Len(pfds) /\ loop.slot \in Slot
  /\ \A i \in Slot :
       conn[i].st = "routing" <=> loop.at \in {"route", "submit"} /\ i = loop.slot

(* Whom the worker serves, and what it knows of its take: a piece to write  *)
(* is within the cap, a response is closed only at the end of a take.       *)
WorkerPlace ==
  /\ worker.at = "idle" => worker = Idle
  /\ worker.at = "start" => worker.of \in Client /\ req[worker.of].st = "starting"
  /\ worker.at \in {"emit", "close", "flag", "return"} =>
       worker.of \in Client /\ req[worker.of].st = "active"
  /\ \A c \in Client : req[c].st = "starting" => worker.at = "start" /\ worker.of = c
  /\ worker.at = "emit" /\ worker.n = 1 => conn[req[worker.of].slot].samples < Cap
  /\ worker.at \in {"emit", "close"} => worker.rc = 0
  /\ worker.at = "close" => Closes
  /\ worker.at = "flag" => Ends

(* A request has a slot, and is made only for a client whose request has    *)
(* been read.                                                               *)
Reading(i) ==
  \/ conn[i].st \in {"head", "body"}
  \/ conn[i].st = "routing" /\ loop.at = "route"

Asked ==
  /\ \A c \in Client : req[c].st # "none" => req[c].slot \in Slot
  /\ \A c \in Client : req[c].st = "none" => req[c].take = 0
  /\ \A c \in Client : peer[c].st \in {"new", "backlog"} =>
       req[c].st = "none" /\ peer[c].wire = <<>>
  /\ \A i \in Slot : Reading(i) => \A c \in Holder(conn[i].fd) : req[c].st = "none"

(* A free slot is cleared, and a connection that is not routed yet is as    *)
(* accept left it.                                                          *)
Blank ==
  /\ \A i \in Slot : conn[i].st = "free" => conn[i] = FreeConn
  /\ \A i \in Slot : \A c \in Holder(conn[i].fd) : req[c].st = "none" =>
       ~conn[i].fin /\ ~conn[i].hdr /\ conn[i].acc = <<>> /\ conn[i].samples = 0

(* The connection of a request whose callback may still run is not          *)
(* finished, and a streaming connection knows the request it waits for.     *)
Waited ==
  /\ \A c \in Client : MayTouch(c) => ~conn[req[c].slot].fin
  /\ \A i \in Slot : conn[i].st = "streaming" => Holder(conn[i].fd) = {conn[i].of}

(* Audio that is held for a client is its own. *)
HeldIsOwn ==
  \A i \in Slot, d \in Client : Piece(d) \in Range(conn[i].acc) => Holder(conn[i].fd) = {d}

(* What is on the wire before there is a request. *)
Opening ==
  /\ \A i \in Slot : conn[i].st = "head" => conn[i].got = 0
  /\ \A i \in Slot : conn[i].st = "body" => conn[i].got > 0
  /\ \A i \in Slot : \A c \in Holder(conn[i].fd) :
       /\ conn[i].st = "head" => peer[c].wire = <<>>
       /\ Reading(i) => Response(peer[c].wire) = <<>>
       /\ conn[i].st \in {"routing", "streaming"} =>
            conn[i].kind = peer[c].kind /\ conn[i].kind # "simple"
       /\ conn[i].st = "routing" /\ loop.at = "submit" /\ req[c].st = "none" =>
            Response(peer[c].wire) = IF conn[i].kind = "buffered" THEN <<>>
                                     ELSE <<Head200>>

(* The callback of c has more to write. *)
Writing(c) == MayTouch(c) /\ ~(worker.of = c /\ worker.at = "flag")

(* The piece the callback is about to write. *)
Pending(c) == IF worker.of = c /\ worker.at = "emit" THEN worker.n ELSE 0

Pieces(w, from, c) == \A j \in DOMAIN w : j >= from => w[j] = Piece(c)

(* As long as there is more to write, the connection counts what it wrote.  *)
Middle ==
  \A c \in Client : Writing(c) =>
    LET K == conn[req[c].slot]
        w == Response(peer[c].wire)
    IN  /\ K.samples + Pending(c) = Audible(req[c].made)
        /\ K.kind = "buffered" =>
             w = <<>> /\ ~K.hdr /\ Len(K.acc) = K.samples /\ Pieces(K.acc, 1, c)
        /\ K.kind # "buffered" /\ ~K.hdr =>
             /\ Len(w) = 1 + K.samples /\ w[1] = Head200 /\ Pieces(w, 2, c)
             /\ K.kind = "wav" => K.samples = 0
        /\ K.kind # "buffered" /\ K.hdr =>
             /\ K.kind = "wav" /\ Len(w) = 2 + K.samples
             /\ w[1] = Head200 /\ w[2] = WavHdr /\ Pieces(w, 3, c)

(* A take is cut only when it has reached its cap, and is never longer than *)
(* the session makes it.                                                    *)
Taken ==
  /\ \A c \in Client : req[c].st \in {"queued", "starting"} => req[c].made = 0
  /\ \A c \in Client : req[c].made <= req[c].take
  /\ worker.at \in {"emit", "close"} =>
       /\ worker.cut => Audible(req[worker.of].made) = Audible(req[worker.of].take)
       /\ worker.final => req[worker.of].made = req[worker.of].take

(* A finished connection carries a complete response, if its client reads.  *)
Finished ==
  \A i \in Slot : \A c \in Holder(conn[i].fd) :
    conn[i].fin \/ (worker.at = "flag" /\ worker.of = c) =>
      Complete(Response(peer[c].wire)) \/ peer[c].gone \/ peer[c].slow

(* The table, the loop and the worker; and what they rest on with cancels   *)
(* that meet their request.                                                 *)
Places == TypeOK /\ Table /\ LoopPlace /\ WorkerPlace /\ Asked
Owns == OwnsItsConnection /\ Blank /\ Waited /\ HeldIsOwn
Responses == Opening /\ Middle /\ Taken /\ Finished /\ OneResponse
IInv == Places /\ Owns /\ Responses
=============================================================================
