--------------------------- MODULE HttpConnProofs ---------------------------
(* Proofs about the connections of the server, for every number of clients  *)
(* and connections, every cap and every kind of request.  Places, where the *)
(* table, the loop and the worker are, holds of every run; that a           *)
(* connection belongs to its request, Owns, of the runs in which a cancel   *)
(* meets its request (NoWindow).  Both are inductive: one lemma an action   *)
(* for each, then the steps together.  What is on the wire is               *)
(* HttpResponseProofs.                                                      *)
EXTENDS HttpConn, SequenceTheorems, FiniteSetTheorems, TLAPS

-----------------------------------------------------------------------------
(* What writing and closing do to the clients.                              *)

PeerRec == [st : {"new", "backlog", "open", "closed"}, fd : Fd \cup {NoFd},
            kind : Kinds, sent : 0 .. 3, wire : Seq(Token), gone : BOOLEAN, slow : BOOLEAN]

(* p is what the clients are after writing: nothing but what they received  *)
(* can differ.                                                              *)
OnlyWrote(p) ==
  /\ p \in [Client -> PeerRec]
  /\ \A c \in Client :
       /\ p[c].st = peer[c].st /\ p[c].fd = peer[c].fd /\ p[c].kind = peer[c].kind
       /\ p[c].sent = peer[c].sent /\ p[c].gone = peer[c].gone /\ p[c].slow = peer[c].slow
  /\ \A c \in Client : peer[c].st # "open" => p[c] = peer[c]

LEMMA WrittenOnlyWrote ==
  ASSUME PeerType, NEW fd, NEW t \in Seq(Token)
  PROVE  OnlyWrote(Written(fd, t))
<1> DEFINE W == Written(fd, t)
<1>1. \A c \in Client : peer[c].wire \o t \in Seq(Token)
  <2>1. \A c \in Client : peer[c].wire \in Seq(Token)
    BY DEF PeerType
  <2> QED BY <2>1
<1>2. \A c \in Client : W[c] \in PeerRec
  BY <1>1 DEF Written, PeerType, PeerRec
<1>3. W \in [Client -> PeerRec]
  BY <1>2 DEF Written
<1>4. \A c \in Client :
       /\ W[c].st = peer[c].st /\ W[c].fd = peer[c].fd /\ W[c].kind = peer[c].kind
       /\ W[c].sent = peer[c].sent /\ W[c].gone = peer[c].gone /\ W[c].slow = peer[c].slow
  BY DEF Written, PeerType
<1>5. \A c \in Client : peer[c].st # "open" => W[c] = peer[c]
  BY DEF Written, Holder
<1> QED BY <1>3, <1>4, <1>5 DEF OnlyWrote

LEMMA SameOnlyWrote == PeerType => OnlyWrote(peer)
BY DEF PeerType, PeerRec, OnlyWrote

LEMMA WroteOrLost ==
  ASSUME PeerType, NEW fd, NEW t \in Seq(Token), NEW p \in WrittenOrLost(fd, t)
  PROVE  OnlyWrote(p)
<1>1. p = Written(fd, t) \/ p = peer
  BY DEF WrittenOrLost
<1> QED BY <1>1, WrittenOnlyWrote, SameOnlyWrote

(* A write changes nothing that the table, the loop and the worker rest on. *)
LEMMA WrotePeer ==
  ASSUME PeerType, OnlyWrote(peer')
  PROVE  PeerType' /\ \A fd : Holder(fd)' = Holder(fd)
<1>1. PeerType'
  BY DEF OnlyWrote, PeerType, PeerRec
<1>2. ASSUME NEW fd PROVE Holder(fd)' = Holder(fd)
  BY DEF OnlyWrote, Holder
<1> QED BY <1>1, <1>2

LEMMA LeftRec ==
  ASSUME NEW q \in PeerRec, NEW w \in Seq(Token)
  PROVE  Left(q, w) \in PeerRec /\ Left(q, w).st = "closed" /\ Left(q, w).fd = NoFd
         /\ Left(q, w).wire = w /\ Left(q, w).kind = q.kind
BY DEF PeerRec, Left, NoFd

(* Closing a descriptor. *)
LEMMA ClosedPeer ==
  ASSUME PeerType, NEW fd, NEW p, OnlyWrote(p), peer' = Closed(p, fd)
  PROVE  /\ PeerType'
         /\ \A c \in Client : c \notin Holder(fd) => peer'[c] = p[c]
         /\ \A c \in Client : c \in Holder(fd) =>
              /\ peer'[c].st = "closed" /\ peer'[c].fd = NoFd /\ peer'[c].wire = p[c].wire
              /\ peer'[c].kind = peer[c].kind
         /\ Holder(fd)' = {}
         /\ \A g : g # fd => Holder(g)' = Holder(g)
<1> DEFINE Q == Closed(p, fd)
<1>0. peer' = Q
  OBVIOUS
<1> HIDE DEF Q
<1>1. \A c \in Client : c \notin Holder(fd) => Q[c] = p[c]
  BY DEF Q, Closed, OnlyWrote, Holder
<1>2. \A c \in Client : c \in Holder(fd) => Q[c] = Left(p[c], p[c].wire)
  BY DEF Q, Closed, OnlyWrote, Holder
<1>3. \A c \in Client : Left(p[c], p[c].wire) \in PeerRec /\ Left(p[c], p[c].wire).st = "closed"
        /\ Left(p[c], p[c].wire).fd = NoFd /\ Left(p[c], p[c].wire).wire = p[c].wire /\ Left(p[c], p[c].wire).kind = p[c].kind
  <2>1. \A c \in Client : p[c] \in PeerRec /\ p[c].wire \in Seq(Token)
                         /\ p[c].kind = peer[c].kind
    BY DEF OnlyWrote, PeerRec
  <2> QED BY <2>1, LeftRec
<1>4. \A c \in Client : Q[c] \in PeerRec
  BY <1>1, <1>2, <1>3 DEF OnlyWrote
<1>5. Q \in [Client -> PeerRec]
  BY <1>4 DEF Q, Closed
<1>6. PeerType'
  BY <1>0, <1>5 DEF PeerType, PeerRec
<1>7. \A c \in Client : c \in Holder(fd) =>
        /\ Q[c].st = "closed" /\ Q[c].fd = NoFd /\ Q[c].wire = p[c].wire
        /\ Q[c].kind = peer[c].kind
  BY <1>2, <1>3 DEF OnlyWrote
<1>8. Holder(fd)' = {}
  <2>1. ASSUME NEW c \in Client, peer'[c].fd = fd, peer'[c].st = "open" PROVE FALSE
    BY <2>1, <1>0, <1>1, <1>7 DEF OnlyWrote, Holder
  <2> QED BY <2>1 DEF Holder
<1>9. ASSUME NEW g, g # fd PROVE Holder(g)' = Holder(g)
  BY <1>9, <1>0, <1>1, <1>7 DEF OnlyWrote, Holder
<1> QED BY <1>0, <1>1, <1>6, <1>7, <1>8, <1>9

-----------------------------------------------------------------------------
(* The table, the loop and the worker, whatever cancels meet.               *)

ConnRec == [st : {"free", "head", "body", "routing", "streaming"},
            fd : Fd \cup {NoFd}, fin : BOOLEAN, hdr : BOOLEAN, acc : Seq(Token),
            got : 0 .. 3, of : Client \cup {NoClient}, kind : Kinds, samples : 0 .. Cap]

LEMMA ConnIsRec == ConnType => \A i \in Slot : conn[i] \in ConnRec
BY DEF ConnType, ConnRec

LEMMA FreeIsRec == FreeConn \in ConnRec
<1>1. <<>> \in Seq(Token)
  OBVIOUS
<1> QED BY <1>1, HttpConstants DEF FreeConn, ConnAt, ConnRec, NoFd, Kinds

(* A connection whose place in the table does not change. *)
LEMMA UpdatedConn ==
  ASSUME ConnType, NEW i \in Slot, NEW k \in ConnRec,
         conn' = [conn EXCEPT ![i] = k], k.fd = conn[i].fd,
         k.st = "free" <=> conn[i].st = "free"
  PROVE  ConnType'
<1>1. conn' \in [Slot -> ConnRec]
  BY DEF ConnType, ConnRec
<1>2. \A j \in Slot : conn'[j].fd = conn[j].fd /\ (conn'[j].st = "free" <=> conn[j].st = "free")
  BY DEF ConnType
<1> QED BY <1>1, <1>2 DEF ConnType, ConnRec

LEMMA FreedConn ==
  ASSUME ConnType, NEW i \in Slot, conn' = [conn EXCEPT ![i] = FreeConn]
  PROVE  /\ ConnType' /\ conn'[i].st = "free" /\ conn'[i].fd = NoFd /\ conn'[i].samples = 0
         /\ \A j \in Slot : j # i => conn'[j] = conn[j]
<1>1. conn' \in [Slot -> ConnRec]
  BY FreeIsRec DEF ConnType, ConnRec
<1>2. \A j \in Slot : j # i => conn'[j] = conn[j]
  BY DEF ConnType
<1>3. conn'[i].st = "free" /\ conn'[i].fd = NoFd /\ conn'[i].samples = 0
  BY DEF ConnType, FreeConn, ConnAt
<1>4. \A j \in Slot : conn'[j].st = "free" <=> conn'[j].fd = NoFd
  BY <1>2, <1>3 DEF ConnType
<1>5. \A j, k \in Slot : conn'[j].fd # NoFd /\ conn'[j].fd = conn'[k].fd => j = k
  BY <1>2, <1>3 DEF ConnType
<1> QED BY <1>1, <1>2, <1>3, <1>4, <1>5 DEF ConnType, ConnRec

(* conn_reset, behind a write or none. *)
Drops(i, p) ==
  /\ OnlyWrote(p) /\ peer' = Closed(p, conn[i].fd)
  /\ conn' = [conn EXCEPT ![i] = FreeConn]

LEMMA ResetDrops ==
  ASSUME PeerType, NEW i, Reset(i)
  PROVE  Drops(i, peer)
BY SameOnlyWrote DEF Reset, Drops

LEMMA AnswerDrops ==
  ASSUME PeerType, NEW i, NEW t \in Seq(Token), AnswerAndReset(i, t)
  PROVE  \E p \in WrittenOrLost(conn[i].fd, t) : Drops(i, p)
<1>1. PICK p \in WrittenOrLost(conn[i].fd, t) : peer' = Closed(p, conn[i].fd)
  BY DEF AnswerAndReset
<1>2. OnlyWrote(p)
  BY WroteOrLost
<1>3. conn' = [conn EXCEPT ![i] = FreeConn]
  BY DEF AnswerAndReset
<1> QED BY <1>1, <1>2, <1>3 DEF Drops

(* The parts that a reset can disturb, without the loop. *)
TablePlaces == PeerType /\ ConnType /\ Table /\ Asked

LEMMA DropsPlaces ==
  ASSUME PeerType, ConnType, Table, Asked, NEW i \in Slot, NEW p, Drops(i, p),
         \A c \in Client : req'[c].slot = req[c].slot /\ req'[c].take = req[c].take
                           /\ (req'[c].st = "none" <=> req[c].st = "none"),
         \A j \in Slot : j # i => (Reading(j)' => Reading(j))
  PROVE  TablePlaces'
<1> DEFINE fd == conn[i].fd
<1>1. PeerType'
  BY ClosedPeer DEF Drops
<1>2. ConnType' /\ conn'[i].st = "free" /\ conn'[i].fd = NoFd
      /\ \A j \in Slot : j # i => conn'[j] = conn[j]
  BY FreedConn DEF Drops
<1>3. /\ \A c \in Client : c \notin Holder(fd) => peer'[c] = p[c]
      /\ \A c \in Client : c \in Holder(fd) =>
              /\ peer'[c].st = "closed" /\ peer'[c].fd = NoFd /\ peer'[c].wire = p[c].wire
      /\ \A g : g # fd => Holder(g)' = Holder(g)
  BY ClosedPeer DEF Drops
<1>4. \A c \in Client :
        /\ p[c].st = peer[c].st /\ p[c].fd = peer[c].fd
        /\ peer[c].st # "open" => p[c] = peer[c]
  BY DEF Drops, OnlyWrote
<1> HIDE DEF fd
<1>5. Table'
  <2>1. \A c \in Client : peer'[c].st = "open" <=> peer'[c].fd # NoFd
    BY <1>3, <1>4 DEF Table
  <2>2. \A c, d \in Client : peer'[c].fd # NoFd /\ peer'[c].fd = peer'[d].fd => c = d
    BY <1>3, <1>4 DEF Table
  <2>3. ASSUME NEW j \in Slot, conn'[j].st # "free" PROVE Holder(conn[j].fd)' # {}
    <3>1. j # i /\ conn'[j] = conn[j]
      BY <2>3, <1>2
    <3>2. conn[j].fd # fd
      BY <2>3, <3>1, <1>2 DEF ConnType, fd
    <3>3. Holder(conn[j].fd)' = Holder(conn[j].fd)
      BY <3>1, <3>2, <1>3
    <3> QED BY <3>1, <3>3, <2>3 DEF Table
  <2> QED BY <2>1, <2>2, <2>3 DEF Table
<1>6. Asked'
  <2>1. ASSUME NEW j \in Slot, Reading(j)', NEW c \in Holder(conn[j].fd)'
        PROVE  req'[c].st = "none"
    <3>1. j # i /\ conn'[j] = conn[j]
      BY <2>1, <1>2 DEF Reading
    <3>2. conn[j].fd # fd
      BY <2>1, <3>1, <1>2 DEF ConnType, fd, Reading
    <3>3. Holder(conn[j].fd)' = Holder(conn[j].fd)
      BY <3>1, <3>2, <1>3
    <3>4. Reading(j) /\ c \in Holder(conn[j].fd)
      BY <2>1, <3>1, <3>3
    <3> QED BY <3>4 DEF Asked, Holder
  <2>2. \A c \in Client : peer'[c].st \in {"new", "backlog"} =>
          req'[c].st = "none" /\ peer'[c].wire = <<>>
    BY <1>3, <1>4 DEF Asked
  <2>3. /\ \A c \in Client : req'[c].st # "none" => req'[c].slot \in Slot
        /\ \A c \in Client : req'[c].st = "none" => req'[c].take = 0
    BY DEF Asked
  <2> QED BY <2>1, <2>2, <2>3 DEF Asked
<1> QED BY <1>1, <1>2, <1>5, <1>6 DEF TablePlaces

(* The worker's place needs of a connection only what it has counted. *)
LEMMA ClearedWorker ==
  ASSUME ConnType, WorkType, Asked, WorkerPlace, NEW i \in Slot,
         conn'[i].samples = 0, \A j \in Slot : j # i => conn'[j] = conn[j],
         UNCHANGED <<req, worker>>
  PROVE  WorkerPlace'
<1>1. ASSUME worker.at = "emit", worker.n = 1
      PROVE  conn'[req[worker.of].slot].samples < Cap
  <2>1. req[worker.of].slot \in Slot /\ conn[req[worker.of].slot].samples < Cap
    BY <1>1 DEF WorkerPlace, Asked
  <2>2. conn[req[worker.of].slot].samples \in 0 .. Cap
    BY <2>1 DEF ConnType
  <2> QED BY <2>1, <2>2, HttpConstants
<1>2. Closes' = Closes /\ Ends' = Ends
  BY DEF Closes, Ends
<1> QED BY <1>1, <1>2 DEF WorkerPlace

LEMMA UpdatedTable ==
  ASSUME ConnType, Table,
         \A fd : Holder(fd)' = Holder(fd),
         \A c \in Client : peer'[c].fd = peer[c].fd
                           /\ (peer'[c].st = "open" <=> peer[c].st = "open"),
         \A i \in Slot : conn'[i].fd = conn[i].fd
                         /\ (conn'[i].st = "free" <=> conn[i].st = "free")
  PROVE  Table'
<1>1. \A c \in Client : peer'[c].st = "open" <=> peer'[c].fd # NoFd
  BY DEF Table
<1>2. \A c, d \in Client : peer'[c].fd # NoFd /\ peer'[c].fd = peer'[d].fd => c = d
  BY DEF Table
<1>3. ASSUME NEW i \in Slot, conn'[i].st # "free" PROVE Holder(conn[i].fd)' # {}
  <2>1. conn'[i].fd = conn[i].fd
    OBVIOUS
  <2>2. Holder(conn[i].fd)' = Holder(conn[i].fd)
    BY <2>1
  <2> QED BY <2>2, <1>3 DEF Table
<1> QED BY <1>1, <1>2, <1>3 DEF Table

(* Asked, when no connection begins to be read and no request is made. *)
LEMMA UpdatedAsked ==
  ASSUME Asked,
         \A fd : Holder(fd)' = Holder(fd),
         \A c \in Client : peer'[c].st \in {"new", "backlog"} =>
                             peer[c].st \in {"new", "backlog"} /\ peer'[c].wire = peer[c].wire,
         \A c \in Client : req'[c].slot = req[c].slot /\ req'[c].take = req[c].take
                           /\ (req'[c].st = "none" <=> req[c].st = "none"),
         \A i \in Slot : conn'[i].fd = conn[i].fd,
         \A i \in Slot : Reading(i)' => Reading(i)
  PROVE  Asked'
<1>1. \A c \in Client : req'[c].st # "none" => req'[c].slot \in Slot
  BY DEF Asked
<1>2. \A c \in Client : req'[c].st = "none" => req'[c].take = 0
  BY DEF Asked
<1>3. \A c \in Client : peer'[c].st \in {"new", "backlog"} =>
        req'[c].st = "none" /\ peer'[c].wire = <<>>
  BY DEF Asked
<1>4. ASSUME NEW i \in Slot, Reading(i)', NEW c \in Holder(conn[i].fd)'
      PROVE  req'[c].st = "none"
  <2>1. conn'[i].fd = conn[i].fd /\ Reading(i)
    BY <1>4
  <2>2. c \in Holder(conn[i].fd)
    BY <2>1, <1>4
  <2>3. c \in Client /\ req[c].st = "none"
    BY <2>1, <2>2 DEF Asked, Holder
  <2> QED BY <2>3
<1> QED BY <1>1, <1>2, <1>3, <1>4 DEF Asked

LEMMA SameWorker ==
  ASSUME WorkerPlace, UNCHANGED <<req, worker>>,
         worker.at = "emit" =>
           conn'[req[worker.of].slot].samples = conn[req[worker.of].slot].samples
  PROVE  WorkerPlace'
<1>1. Closes' = Closes /\ Ends' = Ends
  BY DEF Closes, Ends
<1> QED BY <1>1 DEF WorkerPlace

LEMMA SameLoop ==
  ASSUME LoopPlace, UNCHANGED <<loop, pfds>>,
         \A i \in Slot : conn'[i].st = "routing" <=> conn[i].st = "routing"
  PROVE  LoopPlace'
BY DEF LoopPlace

LEMMA InitPlaces == Init => Places
<1> SUFFICES ASSUME Init PROVE Places
  OBVIOUS
<1> USE HttpConstants
<1>1. \A c \in Client : \E k \in Kinds :
        peer[c] = [st |-> "new", fd |-> NoFd, kind |-> k, sent |-> 0,
                   wire |-> <<>>, gone |-> FALSE, slow |-> FALSE]
  BY DEF Init
<1>2. PeerType
  <2>1. <<>> \in Seq(Token)
    OBVIOUS
  <2>2. ASSUME NEW c \in Client PROVE peer[c] \in PeerRec
    <3>1. PICK k \in Kinds :
            peer[c] = [st |-> "new", fd |-> NoFd, kind |-> k, sent |-> 0,
                       wire |-> <<>>, gone |-> FALSE, slow |-> FALSE]
      BY <1>1
    <3> QED BY <3>1, <2>1 DEF PeerRec, NoFd
  <2>3. peer = [c \in Client |-> peer[c]]
    BY DEF Init
  <2> QED BY <2>2, <2>3 DEF PeerType, PeerRec
<1>3. ConnType
  BY FreeIsRec DEF Init, ConnType, ConnRec, FreeConn, ConnAt
<1>4. LoopType
  <2>1. pfds \in Seq(Fd) /\ Len(pfds) <= MaxConns /\ revents \subseteq Fd
    BY DEF Init
  <2>2. loop \in [at : {"build", "serve", "submit", "route", "exit", "over"},
                  k : 1 .. MaxConns + 1, slot : 0 .. MaxConns]
    BY DEF Init
  <2> QED BY <2>1, <2>2 DEF LoopType
<1>5. WorkType
  BY DEF Init, WorkType, Idle
<1>6. Table
  BY <1>1 DEF Table, Init, FreeConn, ConnAt
<1>7. LoopPlace
  BY DEF Init, LoopPlace, FreeConn, ConnAt
<1>8. WorkerPlace
  BY DEF Init, WorkerPlace, Idle
<1>9. Asked
  BY <1>1 DEF Init, Asked, Reading, FreeConn, ConnAt
<1> QED BY <1>2, <1>3, <1>4, <1>5, <1>6, <1>7, <1>8, <1>9 DEF Places, TypeOK

LEMMA ClientPlaces ==
  ASSUME Places, NEW c \in Client, Connect(c) \/ Send(c) \/ Leave(c) \/ Stall(c)
  PROVE  Places'
<1> USE DEF Places, TypeOK
<1>0. UNCHANGED <<conn, pfds, revents, req, worker, loop>>
  BY DEF Connect, Send, Leave, Stall
<1>1. PeerType'
  <2>1. CASE Connect(c)
    BY <2>1 DEF Connect, PeerType
  <2>2. CASE Send(c)
    <3>1. peer[c].sent + 1 \in 0 .. 3
      BY <2>2 DEF Send, PeerType
    <3> QED BY <2>2, <3>1 DEF Send, PeerType
  <2>3. CASE Leave(c)
    BY <2>3 DEF Leave, PeerType
  <2>4. CASE Stall(c)
    <3>1. peer' = [peer EXCEPT ![c].slow = TRUE]
      BY <2>4 DEF Stall
    <3> QED BY <3>1 DEF PeerType
  <2> QED BY <2>1, <2>2, <2>3, <2>4
<1>2. \A d \in Client :
        /\ peer'[d].fd = peer[d].fd /\ (peer'[d].st = "open" <=> peer[d].st = "open")
        /\ peer'[d].wire = peer[d].wire
        /\ peer'[d].st \in {"new", "backlog"} <=> peer[d].st \in {"new", "backlog"}
  <2>1. CASE Connect(c)
    BY <2>1 DEF Connect, PeerType
  <2>2. CASE Send(c)
    BY <2>2 DEF Send, PeerType
  <2>3. CASE Leave(c)
    BY <2>3 DEF Leave, PeerType
  <2>4. CASE Stall(c)
    <3>1. peer' = [peer EXCEPT ![c].slow = TRUE]
      BY <2>4 DEF Stall
    <3> QED BY <3>1 DEF PeerType
  <2> QED BY <2>1, <2>2, <2>3, <2>4
<1>3. ASSUME NEW fd PROVE Holder(fd)' = Holder(fd)
  BY <1>2 DEF Holder
<1>4. ConnType' /\ LoopType' /\ WorkType'
  BY <1>0 DEF ConnType, LoopType, WorkType
<1>5. Table'
  BY <1>0, <1>2, <1>3, UpdatedTable
<1>6. LoopPlace'
  BY <1>0, SameLoop
<1>7. WorkerPlace'
  BY <1>0, SameWorker
<1>8. \A i \in Slot : Reading(i)' => Reading(i)
  BY <1>0 DEF Reading
<1>9. Asked'
  BY <1>0, <1>2, <1>3, <1>8, UpdatedAsked
<1> QED BY <1>1, <1>4, <1>5, <1>6, <1>7, <1>9

LEMMA DropsStep ==
  ASSUME Places, NEW i \in Slot, NEW p, Drops(i, p), UNCHANGED <<req, worker>>,
         LoopType', LoopPlace',
         \A j \in Slot : j # i => (Reading(j)' => Reading(j))
  PROVE  Places'
<1> USE DEF Places, TypeOK
<1>1. TablePlaces'
  BY DropsPlaces
<1>2. WorkType'
  BY DEF WorkType
<1>3. conn'[i].samples = 0 /\ \A j \in Slot : j # i => conn'[j] = conn[j]
  BY FreedConn DEF Drops
<1>4. WorkerPlace'
  BY <1>3, ClearedWorker
<1> QED BY <1>1, <1>2, <1>4 DEF TablePlaces

(* A step that neither opens nor closes a connection. *)
LEMMA KeepStep ==
  ASSUME Places, OnlyWrote(peer'), ConnType',
         \A i \in Slot : conn'[i].fd = conn[i].fd
                         /\ (conn'[i].st = "free" <=> conn[i].st = "free"),
         \A c \in Client : req'[c].slot = req[c].slot /\ req'[c].take = req[c].take
                           /\ (req'[c].st = "none" <=> req[c].st = "none"),
         \A i \in Slot : Reading(i)' => Reading(i),
         LoopType', LoopPlace', WorkType', WorkerPlace'
  PROVE  Places'
<1> USE DEF Places, TypeOK
<1>1. PeerType' /\ \A fd : Holder(fd)' = Holder(fd)
  BY WrotePeer
<1>2. \A c \in Client :
        /\ peer'[c].fd = peer[c].fd /\ peer'[c].st = peer[c].st
        /\ peer[c].st # "open" => peer'[c] = peer[c]
  BY DEF OnlyWrote
<1>3. Table'
  BY <1>1, <1>2, UpdatedTable
<1>4. \A c \in Client : peer'[c].st \in {"new", "backlog"} =>
        peer[c].st \in {"new", "backlog"} /\ peer'[c].wire = peer[c].wire
  BY <1>2
<1>5. Asked'
  BY <1>1, <1>4, UpdatedAsked
<1> QED BY <1>1, <1>3, <1>5

(* A step of the loop alone. *)
LEMMA LoopStep ==
  ASSUME Places, UNCHANGED <<peer, conn, req, worker>>, LoopType', LoopPlace',
         \A i \in Slot : Reading(i)' => Reading(i)
  PROVE  Places'
<1> USE DEF Places, TypeOK
<1>1. OnlyWrote(peer')
  BY SameOnlyWrote
<1>2. ConnType' /\ WorkType'
  BY DEF ConnType, WorkType
<1>3. WorkerPlace'
  BY SameWorker
<1> QED BY <1>1, <1>2, <1>3, KeepStep

(* The loop goes on to the next entry, or the next slot. *)
LEMMA NextEntry ==
  ASSUME LoopType, loop.k <= MaxConns, loop' = [loop EXCEPT !.k = @ + 1],
         UNCHANGED <<pfds, revents>>
  PROVE  LoopType'
<1>1. loop.k + 1 \in 1 .. MaxConns + 1
  BY HttpConstants DEF LoopType
<1> QED BY <1>1 DEF LoopType

LEMMA EntryInRange ==
  LoopType /\ loop.k <= Len(pfds) => loop.k <= MaxConns /\ loop.k + 1 <= Len(pfds) + 1
<1> SUFFICES ASSUME LoopType, loop.k <= Len(pfds)
             PROVE  loop.k <= MaxConns /\ loop.k + 1 <= Len(pfds) + 1
  OBVIOUS
<1>1. loop.k \in Int /\ Len(pfds) \in Int /\ MaxConns \in Int /\ Len(pfds) <= MaxConns
  BY HttpConstants DEF LoopType
<1> QED BY <1>1

LEMMA BuildPlaces == Places /\ Build => Places'
<1> SUFFICES ASSUME Places, Build PROVE Places'
  OBVIOUS
<1> USE DEF Places, TypeOK
<1> DEFINE i == loop.k
<1>1. i \in Slot /\ loop.at = "build" /\ loop' = [loop EXCEPT !.k = @ + 1]
      /\ UNCHANGED <<revents, req, worker>>
  BY HttpConstants DEF Build, LoopType, Slot
<1>2. loop'.at = "build" /\ loop'.k = loop.k + 1
  BY <1>1 DEF LoopType
<1>3. Len(pfds) \in Nat /\ loop.k \in Nat /\ Len(pfds) < loop.k
  BY <1>1 DEF LoopPlace, LoopType
<1>4. \A j \in Slot : conn[j].st # "routing"
  BY <1>1 DEF LoopPlace
<1>5. CASE conn[i].st = "free" /\ UNCHANGED <<peer, conn, pfds>>
  <2>1. LoopType'
    BY <1>1, <1>5, NextEntry DEF Build
  <2>2. LoopPlace'
    BY <1>2, <1>3, <1>4, <1>5 DEF LoopPlace
  <2>3. \A j \in Slot : Reading(j)' => Reading(j)
    BY <1>1, <1>2, <1>5 DEF Reading
  <2> QED BY <1>1, <1>5, <2>1, <2>2, <2>3, LoopStep
<1>6. CASE conn[i].st = "streaming" /\ Reset(i) /\ UNCHANGED pfds
  <2>1. LoopType'
    BY <1>1, <1>6, NextEntry DEF Build
  <2>2. Drops(i, peer)
    BY <1>6, ResetDrops
  <2>3. conn'[i].st = "free" /\ \A j \in Slot : j # i => conn'[j] = conn[j]
    BY <1>1, <2>2, FreedConn DEF Drops
  <2>4. LoopPlace'
    BY <1>2, <1>3, <1>4, <1>6, <2>3 DEF LoopPlace
  <2>5. \A j \in Slot : j # i => (Reading(j)' => Reading(j))
    BY <1>2, <2>3 DEF Reading
  <2> QED BY <1>1, <2>1, <2>2, <2>4, <2>5, DropsStep
<1>7. CASE conn[i].st # "free" /\ pfds' = Append(pfds, conn[i].fd) /\ UNCHANGED <<peer, conn>>
  <2>1. conn[i].fd \in Fd
    BY <1>1, <1>7 DEF ConnType
  <2>2. pfds' \in Seq(Fd) /\ Len(pfds') = Len(pfds) + 1
    BY <1>7, <2>1 DEF LoopType
  <2>3. LoopType'
    <3>1. Len(pfds') <= MaxConns
      BY <2>2, <1>1, <1>3, HttpConstants DEF Slot
    <3>2. loop.k + 1 \in 1 .. MaxConns + 1
      BY <1>1, HttpConstants DEF Slot
    <3>3. loop' \in [at : {"build", "serve", "submit", "route", "exit", "over"},
                    k : 1 .. MaxConns + 1, slot : 0 .. MaxConns]
      BY <1>1, <3>2 DEF LoopType
    <3> QED BY <1>1, <2>2, <3>1, <3>3 DEF LoopType
  <2>4. LoopPlace'
    BY <1>2, <1>3, <1>4, <1>7, <2>2 DEF LoopPlace
  <2>5. \A j \in Slot : Reading(j)' => Reading(j)
    BY <1>1, <1>2, <1>7 DEF Reading
  <2> QED BY <1>1, <1>7, <2>3, <2>4, <2>5, LoopStep
<1>8. \/ conn[i].st = "free" /\ UNCHANGED <<peer, conn, pfds>>
      \/ conn[i].st = "streaming" /\ Reset(i) /\ UNCHANGED pfds
      \/ conn[i].st # "free" /\ pfds' = Append(pfds, conn[i].fd) /\ UNCHANGED <<peer, conn>>
  BY DEF Build
<1> QED BY <1>5, <1>6, <1>7, <1>8

(* Accepting a client.                                                      *)
LEMMA AcceptFacts ==
  ASSUME Places, NEW c \in Client, NEW i \in Slot, NEW fd \in Fd, peer[c].st = "backlog", Admit(c, i, fd)
  PROVE  /\ PeerType' /\ ConnType'
         /\ \A d \in Client : d # c => peer'[d] = peer[d]
         /\ peer'[c].st = "open" /\ peer'[c].fd = fd /\ peer'[c].wire = peer[c].wire
         /\ peer'[c].kind = peer[c].kind
         /\ conn[i].st = "free" /\ conn'[i] = ConnAt("head", fd)
         /\ \A j \in Slot : j # i => conn'[j] = conn[j]
         /\ \A d \in Client : peer[d].fd # fd
         /\ Holder(fd)' = {c} /\ \A g : g # fd => Holder(g)' = Holder(g)
<1> USE DEF Places, TypeOK
<1> DEFINE H == ConnAt("head", fd)
<1>1. fd # NoFd /\ peer[c].fd = NoFd
  BY DEF Table, Fd, NoFd, PeerType
<1>2. \A d \in Client : peer[d].fd # fd
  BY DEF Admit, LowestFd, UsedFds
<1>3. PeerType'
  <2>1. peer' = [peer EXCEPT ![c].st = "open", ![c].fd = fd]
    BY DEF Admit
  <2>2. ASSUME NEW p \in [Client -> PeerRec], NEW q, q = [p EXCEPT ![c].fd = fd]
        PROVE  q \in [Client -> PeerRec]
    BY <2>2 DEF PeerRec
  <2>3. [peer EXCEPT ![c].st = "open"] \in [Client -> PeerRec]
    BY DEF PeerType, PeerRec
  <2>4. peer' \in [Client -> PeerRec]
    BY <2>1, <2>2, <2>3
  <2> QED BY <2>4 DEF PeerType, PeerRec
<1>4. /\ \A d \in Client : d # c => peer'[d] = peer[d]
      /\ peer'[c].st = "open" /\ peer'[c].fd = fd /\ peer'[c].wire = peer[c].wire
      /\ peer'[c].kind = peer[c].kind
  BY DEF Admit, PeerType
<1>5. H \in ConnRec /\ H.st = "head" /\ H.fd = fd
  BY FreeIsRec DEF FreeConn, ConnAt, ConnRec
<1>6. conn[i].st = "free" /\ conn'[i] = H /\ \A j \in Slot : j # i => conn'[j] = conn[j]
  BY DEF Admit, FirstFree, ConnType
<1>7. ConnType'
  <2>1. conn' \in [Slot -> ConnRec]
    BY <1>5 DEF Admit, ConnType, ConnRec
  <2>2. \A j \in Slot : conn'[j].st = "free" <=> conn'[j].fd = NoFd
    <3>1. ASSUME NEW j \in Slot PROVE conn'[j].st = "free" <=> conn'[j].fd = NoFd
      <4>1. CASE j = i
        BY <4>1, <1>1, <1>5, <1>6
      <4>2. CASE j # i
        BY <4>2, <1>6 DEF ConnType
      <4> QED BY <4>1, <4>2
    <3> QED BY <3>1
  <2>3. ASSUME NEW j \in Slot PROVE conn[j].fd # fd
    <3>1. SUFFICES ASSUME conn[j].fd = fd PROVE FALSE
      OBVIOUS
    <3>2. Holder(fd) # {}
      BY <3>1, <1>1 DEF Table, ConnType
    <3> QED BY <3>2, <1>2 DEF Holder
  <2>4. \A j, k \in Slot : conn'[j].fd # NoFd /\ conn'[j].fd = conn'[k].fd => j = k
    <3>1. conn'[i].fd = fd
      BY <1>5, <1>6
    <3>2. \A j \in Slot : j # i => conn'[j].fd = conn[j].fd
      BY <1>6
    <3> QED BY <3>1, <3>2, <2>3 DEF ConnType
  <2> QED BY <2>1, <2>2, <2>4 DEF ConnType, ConnRec
<1>8. Holder(fd)' = {c}
  BY <1>2, <1>4 DEF Holder
<1>9. ASSUME NEW g, g # fd PROVE Holder(g)' = Holder(g)
  BY <1>1, <1>4, <1>9 DEF Holder
<1> QED BY <1>2, <1>3, <1>4, <1>6, <1>7, <1>8, <1>9

LEMMA RefuseFacts ==
  ASSUME Places, NEW c \in Client, peer[c].st = "backlog", TurnAway(c)
  PROVE  /\ PeerType' /\ \A d \in Client : d # c => peer'[d] = peer[d]
         /\ peer[c].st = "backlog" /\ peer[c].fd = NoFd
         /\ peer'[c].st = "closed" /\ peer'[c].fd = NoFd
         /\ peer'[c].wire = <<Simple(503)>> /\ peer'[c].kind = peer[c].kind
         /\ \A fd : Holder(fd)' = Holder(fd)
<1> USE DEF Places, TypeOK
<1> DEFINE w == <<Simple(503)>>
           L == Left(peer[c], w)
<1>1. w \in Seq(Token)
  BY DEF Token, Simple
<1> HIDE DEF w
<1>2. L \in PeerRec /\ L.st = "closed" /\ L.fd = NoFd /\ L.wire = w
      /\ L.kind = peer[c].kind
  <2>1. peer[c] \in PeerRec
    BY DEF PeerType, PeerRec
  <2> QED BY <1>1, <2>1, LeftRec
<1> HIDE DEF L
<1>4. peer' = [peer EXCEPT ![c] = L]
  BY DEF TurnAway, L, w
<1>5. PeerType'
  BY <1>2, <1>4 DEF PeerType, PeerRec
<1>6. /\ \A d \in Client : d # c => peer'[d] = peer[d]
      /\ peer'[c] = L
  BY <1>4 DEF PeerType
<1>7. peer[c].st = "backlog" /\ peer[c].fd = NoFd
  BY DEF TurnAway, Table, PeerType
<1>8. ASSUME NEW fd PROVE Holder(fd)' = Holder(fd)
  BY <1>2, <1>6, <1>7 DEF Holder
<1> QED BY <1>2, <1>5, <1>6, <1>7, <1>8 DEF w

LEMMA PollAcceptCases ==
  ASSUME PollAccept
  PROVE  \/ UNCHANGED <<peer, conn>>
         \/ \E c \in Client, i \in Slot, fd \in Fd : peer[c].st = "backlog" /\ Admit(c, i, fd)
         \/ \E c \in Client : peer[c].st = "backlog" /\ TurnAway(c)
BY DEF PollAccept, Admit, TurnAway

LEMMA PollAcceptPlaces == Places /\ PollAccept => Places'
<1> SUFFICES ASSUME Places, PollAccept PROVE Places'
  OBVIOUS
<1> USE DEF Places, TypeOK
<1>1. /\ loop.at = "build" /\ loop' = [loop EXCEPT !.at = "serve", !.k = 1]
      /\ UNCHANGED <<pfds, req, worker>> /\ revents' = {fd \in Range(pfds) : Readable(fd)}
  BY DEF PollAccept
<1>2. loop'.at = "serve" /\ loop'.k = 1
  BY <1>1 DEF LoopType
<1>3. LoopType'
  <2>1. revents' \subseteq Fd
    <3>1. Range(pfds) \subseteq Fd
      BY DEF LoopType, Range
    <3> QED BY <3>1, <1>1
  <2>2. [loop EXCEPT !.at = "serve"] \in [at : {"build", "serve", "submit", "route", "exit", "over"},
               k : 1 .. MaxConns + 1, slot : 0 .. MaxConns]
    BY DEF LoopType
  <2>3. 1 \in 1 .. MaxConns + 1
    BY HttpConstants
  <2>4. [[loop EXCEPT !.at = "serve"] EXCEPT !.k = 1]
          \in [at : {"build", "serve", "submit", "route", "exit", "over"},
               k : 1 .. MaxConns + 1, slot : 0 .. MaxConns]
    BY <2>2, <2>3
  <2> QED BY <1>1, <2>1, <2>4 DEF LoopType
<1>4. \A j \in Slot : conn[j].st # "routing"
  BY <1>1 DEF LoopPlace
<1>5. 1 <= Len(pfds) + 1
  BY DEF LoopType
<1>6. CASE UNCHANGED <<peer, conn>>
  <2>1. LoopPlace'
    BY <1>1, <1>2, <1>4, <1>5, <1>6 DEF LoopPlace
  <2>2. \A j \in Slot : Reading(j)' => Reading(j)
    BY <1>4, <1>6 DEF Reading
  <2> QED BY <1>1, <1>3, <1>6, <2>1, <2>2, LoopStep
<1>7. ASSUME NEW c \in Client, NEW i \in Slot, NEW fd \in Fd, peer[c].st = "backlog", Admit(c, i, fd) PROVE Places'
  <2>1. /\ PeerType' /\ ConnType'
        /\ \A d \in Client : d # c => peer'[d] = peer[d]
        /\ peer'[c].st = "open" /\ peer'[c].fd = fd /\ peer'[c].wire = peer[c].wire
        /\ conn[i].st = "free" /\ conn'[i] = ConnAt("head", fd)
        /\ \A j \in Slot : j # i => conn'[j] = conn[j]
        /\ \A d \in Client : peer[d].fd # fd
        /\ Holder(fd)' = {c} /\ \A g : g # fd => Holder(g)' = Holder(g)
    BY <1>7, AcceptFacts
  <2>2. conn'[i].st = "head" /\ conn'[i].fd = fd /\ conn'[i].samples = 0 /\ fd # NoFd
    BY <2>1 DEF ConnAt, Fd, NoFd
  <2>3. Table'
    <3>1. \A d \in Client : peer'[d].st = "open" <=> peer'[d].fd # NoFd
      BY <2>1, <2>2 DEF Table
    <3>2. \A d, e \in Client : peer'[d].fd # NoFd /\ peer'[d].fd = peer'[e].fd => d = e
      BY <2>1 DEF Table
    <3>3. ASSUME NEW j \in Slot, conn'[j].st # "free" PROVE Holder(conn[j].fd)' # {}
      <4>1. CASE j = i
        BY <4>1, <2>1, <2>2
      <4>2. CASE j # i
        <5>1. conn'[j] = conn[j] /\ conn'[j].fd # fd
          BY <4>2, <2>1, <2>2 DEF ConnType
        <5>2. Holder(conn[j].fd)' = Holder(conn[j].fd)
          BY <5>1, <2>1
        <5> QED BY <5>1, <5>2, <3>3 DEF Table
      <4> QED BY <4>1, <4>2
    <3> QED BY <3>1, <3>2, <3>3 DEF Table
  <2>4. LoopPlace'
    BY <1>1, <1>2, <1>4, <1>5, <2>1, <2>2 DEF LoopPlace
  <2>5. WorkerPlace'
    BY <1>1, <2>1, <2>2, ClearedWorker
  <2>6. req[c].st = "none"
    BY <1>7 DEF Admit, Asked
  <2>7. Asked'
    <3>1. \A d \in Client : req'[d].st # "none" => req'[d].slot \in Slot
      BY <1>1 DEF Asked
    <3>2. \A d \in Client : req'[d].st = "none" => req'[d].take = 0
      BY <1>1 DEF Asked
    <3>3. \A d \in Client : peer'[d].st \in {"new", "backlog"} =>
            req'[d].st = "none" /\ peer'[d].wire = <<>>
      BY <1>1, <2>1 DEF Asked
    <3>4. ASSUME NEW j \in Slot, Reading(j)', NEW d \in Holder(conn[j].fd)'
          PROVE  req'[d].st = "none"
      <4>1. CASE j = i
        <5>1. d = c
          BY <4>1, <3>4, <2>1, <2>2
        <5> QED BY <5>1, <2>6, <1>1
      <4>2. CASE j # i
        <5>1. conn'[j] = conn[j] /\ conn'[j].fd # fd /\ Reading(j)
          BY <4>2, <3>4, <2>1, <2>2, <1>2 DEF ConnType, Reading
        <5>2. d \in Holder(conn[j].fd)
          BY <5>1, <2>1, <3>4
        <5> QED BY <5>1, <5>2, <1>1 DEF Asked, Holder
      <4> QED BY <4>1, <4>2
    <3> QED BY <3>1, <3>2, <3>3, <3>4 DEF Asked
  <2> QED BY <1>1, <1>3, <2>1, <2>3, <2>4, <2>5, <2>7 DEF WorkType
<1>8. ASSUME NEW c \in Client, peer[c].st = "backlog", TurnAway(c) PROVE Places'
  <2>1. /\ PeerType' /\ \A d \in Client : d # c => peer'[d] = peer[d]
        /\ peer[c].st = "backlog" /\ peer[c].fd = NoFd
        /\ peer'[c].st = "closed" /\ peer'[c].fd = NoFd
        /\ \A fd : Holder(fd)' = Holder(fd)
    BY <1>8, RefuseFacts
  <2>2. UNCHANGED conn
    BY <1>8 DEF TurnAway
  <2>3. \A d \in Client : peer'[d].fd = peer[d].fd
                          /\ (peer'[d].st = "open" <=> peer[d].st = "open")
    BY <2>1
  <2>4. ConnType' /\ WorkType'
    BY <1>1, <2>2 DEF ConnType, WorkType
  <2>5. Table'
    BY <2>1, <2>2, <2>3, UpdatedTable
  <2>6. LoopPlace'
    BY <1>1, <1>2, <1>4, <1>5, <2>2 DEF LoopPlace
  <2>7. \A j \in Slot : Reading(j)' => Reading(j)
    BY <1>4, <2>2 DEF Reading
  <2>8. \A d \in Client : peer'[d].st \in {"new", "backlog"} =>
          peer[d].st \in {"new", "backlog"} /\ peer'[d].wire = peer[d].wire
    BY <2>1
  <2>9. Asked'
    BY <1>1, <2>1, <2>2, <2>7, <2>8, UpdatedAsked
  <2>10. WorkerPlace'
    BY <1>1, <2>2, SameWorker
  <2> QED BY <1>3, <2>1, <2>4, <2>5, <2>6, <2>9, <2>10
<1> QED BY <1>6, <1>7, <1>8, PollAcceptCases

LEMMA NextTurnPlaces == Places /\ NextTurn => Places'
<1> SUFFICES ASSUME Places, NextTurn PROVE Places'
  OBVIOUS
<1> USE DEF Places, TypeOK
<1>1. PICK at \in {"build", "exit"} : loop' = [at |-> at, k |-> 1, slot |-> 0]
  BY DEF NextTurn
<1>2. loop'.at \in {"build", "exit"} /\ loop'.k = 1
  BY <1>1
<1>3. loop.at = "serve" /\ pfds' = <<>> /\ revents' = {} /\ UNCHANGED <<peer, conn, req, worker>>
  BY DEF NextTurn
<1>4. LoopType'
  BY <1>1, <1>3, HttpConstants DEF LoopType
<1>5. \A j \in Slot : conn[j].st # "routing"
  BY <1>3 DEF LoopPlace
<1>6. LoopPlace'
  BY <1>2, <1>3, <1>5 DEF LoopPlace
<1>7. \A j \in Slot : Reading(j)' => Reading(j)
  BY <1>3, <1>5 DEF Reading
<1> QED BY <1>3, <1>4, <1>6, <1>7, LoopStep

(* What serving an entry and going on leaves to be shown: the connections. *)
Served1 ==
  /\ loop.at = "serve" /\ loop.k <= Len(pfds) /\ loop' = [loop EXCEPT !.k = @ + 1]
  /\ UNCHANGED <<pfds, revents>>

LEMMA ServedLoop ==
  ASSUME Places, Served1, \A i \in Slot : conn'[i].st # "routing"
  PROVE  LoopType' /\ LoopPlace' /\ loop'.at = "serve"
<1> USE DEF Places, TypeOK
<1>1. loop.k <= MaxConns /\ loop.k + 1 <= Len(pfds) + 1
  BY EntryInRange DEF Served1
<1>2. LoopType'
  BY <1>1, NextEntry DEF Served1
<1>3. loop'.at = "serve" /\ loop'.k = loop.k + 1
  BY DEF Served1, LoopType
<1>4. LoopPlace'
  BY <1>1, <1>3 DEF LoopPlace, Served1
<1> QED BY <1>2, <1>3, <1>4

LEMMA NotRouting ==
  ASSUME LoopPlace, loop.at \notin {"route", "submit"}, NEW i \in Slot
  PROVE  conn[i].st # "routing"
BY DEF LoopPlace

LEMMA ServeNonePlaces == Places /\ ServeNone => Places'
<1> SUFFICES ASSUME Places, ServeNone PROVE Places'
  OBVIOUS
<1> USE DEF Places, TypeOK
<1>1. Served1 /\ UNCHANGED <<peer, conn, req, worker>>
  BY DEF ServeNone, Served1
<1>2. \A i \in Slot : conn[i].st # "routing"
  BY <1>1, NotRouting DEF Served1
<1>3. LoopType' /\ LoopPlace' /\ loop'.at = "serve"
  BY <1>1, <1>2, ServedLoop
<1>4. \A j \in Slot : Reading(j)' => Reading(j)
  BY <1>1, <1>3 DEF Reading
<1> QED BY <1>1, <1>3, <1>4, LoopStep

(* The connection of an entry is reset in its turn. *)
LEMMA ServedDrops ==
  ASSUME Places, Served1, NEW i \in Slot, NEW p, Drops(i, p), UNCHANGED <<req, worker>>
  PROVE  Places'
<1> USE DEF Places, TypeOK
<1>1. conn'[i].st = "free" /\ \A j \in Slot : j # i => conn'[j] = conn[j]
  BY FreedConn DEF Drops
<1>2. \A j \in Slot : conn[j].st # "routing"
  BY NotRouting DEF Served1
<1>3. \A j \in Slot : conn'[j].st # "routing"
  BY <1>1, <1>2
<1>4. LoopType' /\ LoopPlace' /\ loop'.at = "serve"
  BY <1>3, ServedLoop
<1>5. \A j \in Slot : j # i => (Reading(j)' => Reading(j))
  BY <1>1, <1>4 DEF Reading
<1> QED BY <1>4, <1>5, DropsStep

LEMMA ServeIdlePlaces == Places /\ ServeIdle => Places'
<1> SUFFICES ASSUME Places, ServeIdle PROVE Places'
  OBVIOUS
<1> USE DEF Places, TypeOK
<1>1. PICK i \in Slot : AnswerAndReset(i, <<Simple(408)>>)
  BY DEF ServeIdle, Served
<1>2. <<Simple(408)>> \in Seq(Token)
  BY DEF Token, Simple
<1>3. PICK p : Drops(i, p)
  BY <1>1, <1>2, AnswerDrops
<1>4. Served1 /\ UNCHANGED <<req, worker>>
  BY DEF ServeIdle, Served1
<1> QED BY <1>3, <1>4, ServedDrops

(* A cancel makes a request of the scheduler over, but not the one that is  *)
(* being served.                                                            *)
LEMMA CancelFacts ==
  ASSUME WorkType, WorkerPlace, NEW c, CancelReq(c)
  PROVE  /\ req' \in [Client -> [st : {"none", "queued", "starting", "active", "over"},
                                slot : 0 .. MaxConns, take : Nat, made : Nat]]
         /\ \A d \in Client : req'[d].slot = req[d].slot /\ req'[d].take = req[d].take
                              /\ (req'[d].st = "none" <=> req[d].st = "none")
                              /\ (req'[d].st = "starting" <=> req[d].st = "starting")
         /\ \A d \in Client : d # c => req'[d] = req[d]
         /\ worker.of \in Client => req'[worker.of] = req[worker.of]
         /\ c \in Client => req'[c].st \notin {"queued", "active"}
<1>1. CASE req[c].st \in {"queued", "active"} /\ c \in Client
  <2>1. req' = [req EXCEPT ![c].st = "over", ![c].made = 0]
    BY <1>1 DEF CancelReq, Over
  <2>2. req' \in [Client -> [st : {"none", "queued", "starting", "active", "over"},
                             slot : 0 .. MaxConns, take : Nat, made : Nat]]
    <3>1. [req EXCEPT ![c].st = "over"] \in
             [Client -> [st : {"none", "queued", "starting", "active", "over"},
                             slot : 0 .. MaxConns, take : Nat, made : Nat]]
      BY DEF WorkType
    <3> QED BY <2>1, <3>1
  <2>3. \A d \in Client : d # c => req'[d] = req[d]
    BY <2>1 DEF WorkType
  <2>4. req'[c].st = "over" /\ req'[c].slot = req[c].slot /\ req'[c].take = req[c].take
    BY <1>1, <2>1 DEF WorkType
  <2>5. worker.of # c
    <3>1. worker.of = c => worker.at = "start"
      BY DEF CancelReq
    <3> QED BY <1>1, <3>1 DEF WorkerPlace
  <2> QED BY <1>1, <2>2, <2>3, <2>4, <2>5
<1>2. CASE req[c].st \notin {"queued", "active"}
  BY <1>2 DEF CancelReq, WorkType
<1>3. CASE c \notin Client
  <2>1. ASSUME req' = [req EXCEPT ![c].st = "over", ![c].made = 0] PROVE req' = req
    BY <1>3, <2>1 DEF WorkType
  <2>2. req' = req
    BY <2>1 DEF CancelReq, Over
  <2> QED BY <1>3, <2>2 DEF WorkType, WorkerPlace
<1> QED BY <1>1, <1>2, <1>3

LEMMA CancelWorker ==
  ASSUME ConnType, WorkType, Asked, WorkerPlace, NEW c, CancelReq(c), NEW i \in Slot,
         conn'[i].samples = 0, \A j \in Slot : j # i => conn'[j] = conn[j],
         UNCHANGED worker
  PROVE  WorkType' /\ WorkerPlace'
<1>1. /\ req' \in [Client -> [st : {"none", "queued", "starting", "active", "over"},
                             slot : 0 .. MaxConns, take : Nat, made : Nat]]
      /\ \A d \in Client : req'[d].st = "starting" <=> req[d].st = "starting"
      /\ worker.of \in Client => req'[worker.of] = req[worker.of]
  BY CancelFacts
<1>2. WorkType'
  BY <1>1 DEF WorkType
<1>3. ASSUME worker.at = "emit", worker.n = 1
      PROVE  conn'[req[worker.of].slot].samples < Cap /\ req'[worker.of] = req[worker.of]
  <2>1. /\ worker.of \in Client
        /\ req[worker.of].slot \in Slot /\ conn[req[worker.of].slot].samples < Cap
    BY <1>3 DEF WorkerPlace, Asked
  <2>2. conn[req[worker.of].slot].samples \in 0 .. Cap
    BY <2>1 DEF ConnType
  <2> QED BY <1>1, <2>1, <2>2, HttpConstants
<1>4. Closes' = Closes /\ Ends' = Ends
  BY DEF Closes, Ends
<1>5. WorkerPlace'
  BY <1>1, <1>3, <1>4 DEF WorkerPlace
<1> QED BY <1>2, <1>5

(* A streaming connection is cancelled and reset. *)
LEMMA CancelDrops ==
  ASSUME Places, NEW i \in Slot, CancelReq(conn[i].of), Reset(i), UNCHANGED worker,
         LoopType', LoopPlace',
         \A j \in Slot : j # i => (Reading(j)' => Reading(j))
  PROVE  Places'
<1> USE DEF Places, TypeOK
<1>1. Drops(i, peer)
  BY ResetDrops
<1>2. \A d \in Client : req'[d].slot = req[d].slot /\ req'[d].take = req[d].take
                        /\ (req'[d].st = "none" <=> req[d].st = "none")
  BY CancelFacts
<1>3. TablePlaces'
  BY <1>1, <1>2, DropsPlaces
<1>4. conn'[i].samples = 0 /\ \A j \in Slot : j # i => conn'[j] = conn[j]
  BY <1>1, FreedConn DEF Drops
<1>5. WorkType' /\ WorkerPlace'
  BY <1>4, CancelWorker
<1> QED BY <1>3, <1>5 DEF TablePlaces

LEMMA ServeStreamingPlaces == Places /\ ServeStreaming => Places'
<1> SUFFICES ASSUME Places, ServeStreaming PROVE Places'
  OBVIOUS
<1> USE DEF Places, TypeOK
<1>1. Served1 /\ UNCHANGED worker
  BY DEF ServeStreaming, Served1
<1>2. PICK i \in Slot, c \in Client :
        /\ conn[i].st = "streaming"
        /\ \/ CancelReq(conn[i].of) /\ Reset(i)
           \/ /\ conn' = [conn EXCEPT ![i].got = peer[c].sent]
              /\ UNCHANGED <<peer, req>>
  BY DEF ServeStreaming, Served, Holder
<1>3. \A j \in Slot : conn[j].st # "routing"
  BY <1>1, NotRouting DEF Served1
<1>4. CASE CancelReq(conn[i].of) /\ Reset(i)
  <2>1. conn'[i].st = "free" /\ \A j \in Slot : j # i => conn'[j] = conn[j]
    BY <1>4, FreedConn DEF Reset
  <2>2. \A j \in Slot : conn'[j].st # "routing"
    BY <1>3, <2>1
  <2>3. LoopType' /\ LoopPlace' /\ loop'.at = "serve"
    BY <1>1, <2>2, ServedLoop
  <2>4. \A j \in Slot : j # i => (Reading(j)' => Reading(j))
    BY <2>1, <2>3 DEF Reading
  <2> QED BY <1>1, <1>4, <2>3, <2>4, CancelDrops
<1>5. CASE conn' = [conn EXCEPT ![i].got = peer[c].sent] /\ UNCHANGED <<peer, req>>
  <2>1. /\ \A j \in Slot : /\ conn'[j].fd = conn[j].fd /\ conn'[j].st = conn[j].st
                           /\ conn'[j].samples = conn[j].samples
    BY <1>5 DEF ConnType
  <2>2. conn' \in [Slot -> ConnRec]
    <3>1. peer[c].sent \in 0 .. 3
      BY DEF PeerType
    <3>2. ASSUME NEW cc \in [Slot -> ConnRec], NEW n \in 0 .. 3
          PROVE  [cc EXCEPT ![i].got = n] \in [Slot -> ConnRec]
      BY DEF ConnRec
    <3>3. conn \in [Slot -> ConnRec]
      BY DEF ConnType, ConnRec
    <3> QED BY <1>5, <3>1, <3>2, <3>3
  <2>3. ConnType'
    BY <2>1, <2>2 DEF ConnType, ConnRec
  <2>4. LoopType' /\ LoopPlace' /\ loop'.at = "serve"
    BY <1>1, <1>3, <2>1, ServedLoop
  <2>5. \A j \in Slot : Reading(j)' => Reading(j)
    BY <2>1, <2>4 DEF Reading
  <2>6. OnlyWrote(peer')
    BY <1>5, SameOnlyWrote
  <2>7. WorkerPlace'
    <3>1. worker.at = "emit" => req[worker.of].slot \in Slot
      BY DEF WorkerPlace, Asked
    <3> QED BY <1>1, <1>5, <2>1, <3>1, SameWorker
  <2>8. WorkType'
    BY <1>1, <1>5 DEF WorkType
  <2> QED BY <1>5, <2>1, <2>3, <2>4, <2>5, <2>6, <2>7, <2>8, KeepStep
<1> QED BY <1>2, <1>4, <1>5

-----------------------------------------------------------------------------
(* Reading and routing.                                                     *)

LEMMA TokensAreTokens ==
  /\ <<>> \in Seq(Token) /\ <<Continue>> \in Seq(Token) /\ <<Head200>> \in Seq(Token)
  /\ <<WavHdr>> \in Seq(Token) /\ <<EndChunk>> \in Seq(Token)
  /\ \A n \in Nat : <<Simple(n)>> \in Seq(Token) /\ <<Length(n)>> \in Seq(Token)
  /\ \A c \in Client : <<Piece(c)>> \in Seq(Token)
<1>1. Continue \in Token /\ Head200 \in Token /\ WavHdr \in Token /\ EndChunk \in Token
  BY DEF Token, Continue, Head200, WavHdr, EndChunk
<1>2. \A n \in Nat : Simple(n) \in Token /\ Length(n) \in Token
  BY DEF Token, Simple, Length
<1>3. \A c \in Client : Piece(c) \in Token
  BY DEF Token
<1> QED BY <1>1, <1>2, <1>3

(* The connection types from the records, the table's columns being kept. *)
LEMMA StoredType ==
  ASSUME ConnType, conn' \in [Slot -> ConnRec],
         \A j \in Slot : conn'[j].fd = conn[j].fd
                         /\ (conn'[j].st = "free" <=> conn[j].st = "free")
  PROVE  ConnType'
BY DEF ConnType, ConnRec

LEMMA ConnIsFcn == ConnType => conn \in [Slot -> ConnRec]
BY DEF ConnType, ConnRec

LEMMA ReadCases ==
  ASSUME Read
  PROVE  /\ loop.at = "serve" /\ loop.k <= Len(pfds)
         /\ UNCHANGED <<pfds, revents, req, worker>>
         /\ \E i \in Slot, c \in Client, expect \in {<<>>, <<Continue>>} :
              /\ c \in Holder(conn[i].fd) /\ conn[i].st \in {"head", "body"}
              /\ conn[i].got # 0 => expect = <<>>
              /\ \/ peer[c].gone /\ ReadNothing(i)
                 \/ ReadHead(i, expect)
                 \/ ReadSimple(i, c, expect)
                 \/ ReadBody(i, c, expect)
<1>0. PICK i \in Served(loop.k) : \E c \in Holder(conn[i].fd), expect \in Expect(i) :
       /\ conn[i].st \in {"head", "body"}
       /\ \/ peer[c].gone /\ ReadNothing(i)
          \/ ReadHead(i, expect)
          \/ ReadSimple(i, c, expect)
          \/ ReadBody(i, c, expect)
  BY DEF Read
<1>1. PICK c \in Holder(conn[i].fd), expect \in Expect(i) :
       /\ conn[i].st \in {"head", "body"}
       /\ \/ peer[c].gone /\ ReadNothing(i)
          \/ ReadHead(i, expect)
          \/ ReadSimple(i, c, expect)
          \/ ReadBody(i, c, expect)
  BY <1>0
<1>2. i \in Slot /\ c \in Client
  BY DEF Served, Holder
<1>3. expect \in {<<>>, <<Continue>>} /\ (conn[i].got # 0 => expect = <<>>)
  BY DEF Expect
<1>4. loop.at = "serve" /\ loop.k <= Len(pfds) /\ UNCHANGED <<pfds, revents, req, worker>>
  BY DEF Read
<1> QED BY <1>1, <1>2, <1>3, <1>4

LEMMA ReadHeadFacts ==
  ASSUME ConnType, NEW i \in Slot, NEW expect, ReadHead(i, expect)
  PROVE  /\ conn' \in [Slot -> ConnRec]
         /\ \A j \in Slot : j # i => conn'[j] = conn[j]
         /\ conn'[i].st = "body" /\ conn'[i].got = 1
         /\ conn'[i].fd = conn[i].fd /\ conn'[i].fin = conn[i].fin
         /\ conn'[i].hdr = conn[i].hdr /\ conn'[i].acc = conn[i].acc
         /\ conn'[i].samples = conn[i].samples
<1> DEFINE d1 == [conn EXCEPT ![i].st = "body"]
           d2 == [d1 EXCEPT ![i].got = 1]
<1>1. conn' = d2
  BY DEF ReadHead
<1>2. conn \in [Slot -> ConnRec]
  BY ConnIsFcn
<1>3. /\ d1 \in [Slot -> ConnRec] /\ \A j \in Slot : j # i => d1[j] = conn[j]
      /\ d1[i].st = "body" /\ d1[i].fd = conn[i].fd /\ d1[i].fin = conn[i].fin
      /\ d1[i].hdr = conn[i].hdr /\ d1[i].acc = conn[i].acc
      /\ d1[i].samples = conn[i].samples
  BY <1>2 DEF ConnRec
<1>5. 1 \in 0 .. 3
  OBVIOUS
<1> HIDE DEF d1
<1>4. /\ d2 \in [Slot -> ConnRec] /\ \A j \in Slot : j # i => d2[j] = d1[j]
      /\ d2[i].st = d1[i].st /\ d2[i].fd = d1[i].fd /\ d2[i].fin = d1[i].fin
      /\ d2[i].hdr = d1[i].hdr /\ d2[i].acc = d1[i].acc /\ d2[i].got = 1
      /\ d2[i].samples = d1[i].samples
  BY <1>3, <1>5 DEF ConnRec
<1> QED BY <1>1, <1>3, <1>4

LEMMA ReadBodyFacts ==
  ASSUME PeerType, ConnType, LoopType, NEW i \in Slot, NEW c \in Client, NEW expect,
         ReadBody(i, c, expect)
  PROVE  /\ conn' \in [Slot -> ConnRec]
         /\ \A j \in Slot : j # i => conn'[j] = conn[j]
         /\ conn'[i].st = "routing" /\ conn'[i].kind = peer[c].kind
         /\ conn'[i].fd = conn[i].fd /\ conn'[i].fin = conn[i].fin
         /\ conn'[i].hdr = conn[i].hdr /\ conn'[i].acc = conn[i].acc
         /\ conn'[i].samples = conn[i].samples
         /\ loop'.at = "route" /\ loop'.slot = i /\ loop'.k = loop.k
         /\ loop' \in [at : {"build", "serve", "submit", "route", "exit", "over"},
                       k : 1 .. MaxConns + 1, slot : 0 .. MaxConns]
<1> DEFINE d1 == [conn EXCEPT ![i].st = "routing"]
           n == peer[c].sent
           d2 == [d1 EXCEPT ![i].got = n]
           d3 == [d2 EXCEPT ![i].kind = peer[c].kind]
<1>1. conn' = d3
  BY DEF ReadBody
<1>2. conn \in [Slot -> ConnRec]
  BY ConnIsFcn
<1>3. /\ d1 \in [Slot -> ConnRec] /\ \A j \in Slot : j # i => d1[j] = conn[j]
      /\ d1[i].st = "routing" /\ d1[i].fd = conn[i].fd /\ d1[i].fin = conn[i].fin
      /\ d1[i].hdr = conn[i].hdr /\ d1[i].acc = conn[i].acc
      /\ d1[i].samples = conn[i].samples
  BY <1>2 DEF ConnRec
<1>4. n \in 0 .. 3 /\ peer[c].kind \in Kinds
  BY DEF PeerType
<1> HIDE DEF d1, n
<1>5. /\ d2 \in [Slot -> ConnRec] /\ \A j \in Slot : j # i => d2[j] = d1[j]
      /\ d2[i].st = d1[i].st /\ d2[i].fd = d1[i].fd /\ d2[i].fin = d1[i].fin
      /\ d2[i].hdr = d1[i].hdr /\ d2[i].acc = d1[i].acc
      /\ d2[i].samples = d1[i].samples
  <2>1. d1 \in [Slot -> ConnRec] /\ n \in 0 .. 3
    BY <1>3, <1>4
  <2>2. d2 \in [Slot -> ConnRec]
    BY <2>1 DEF ConnRec
  <2> QED BY <2>1, <2>2 DEF ConnRec
<1> HIDE DEF d2
<1>6. /\ d3 \in [Slot -> ConnRec] /\ \A j \in Slot : j # i => d3[j] = d2[j]
      /\ d3[i].st = d2[i].st /\ d3[i].fd = d2[i].fd /\ d3[i].fin = d2[i].fin
      /\ d3[i].hdr = d2[i].hdr /\ d3[i].acc = d2[i].acc /\ d3[i].kind = peer[c].kind
      /\ d3[i].samples = d2[i].samples
  BY <1>4, <1>5 DEF ConnRec
<1> HIDE DEF d3
<1>7. loop' = [[loop EXCEPT !.at = "route"] EXCEPT !.slot = i] /\ i \in 0 .. MaxConns
  BY HttpConstants DEF ReadBody, Slot
<1>8. [loop EXCEPT !.at = "route"]
        \in [at : {"build", "serve", "submit", "route", "exit", "over"},
             k : 1 .. MaxConns + 1, slot : 0 .. MaxConns]
      /\ [loop EXCEPT !.at = "route"].at = "route" /\ [loop EXCEPT !.at = "route"].k = loop.k
  BY DEF LoopType
<1>9. loop'.at = "route" /\ loop'.slot = i /\ loop'.k = loop.k
  BY <1>7, <1>8
<1>10. loop' \in [at : {"build", "serve", "submit", "route", "exit", "over"},
                  k : 1 .. MaxConns + 1, slot : 0 .. MaxConns]
  BY <1>7, <1>8
<1> QED BY <1>1, <1>3, <1>5, <1>6, <1>9, <1>10

LEMMA ReadPlaces == Places /\ Read => Places'
<1> SUFFICES ASSUME Places, Read PROVE Places'
  OBVIOUS
<1> USE DEF Places, TypeOK
<1>1. /\ loop.at = "serve" /\ loop.k <= Len(pfds)
      /\ UNCHANGED <<pfds, revents, req, worker>>
  BY ReadCases
<1>2. PICK i \in Slot, c \in Client, expect \in {<<>>, <<Continue>>} :
        /\ c \in Holder(conn[i].fd) /\ conn[i].st \in {"head", "body"}
        /\ \/ ReadNothing(i) \/ ReadHead(i, expect)
           \/ ReadSimple(i, c, expect) \/ ReadBody(i, c, expect)
  BY ReadCases
<1>3. expect \in Seq(Token)
  BY <1>2, TokensAreTokens
<1>4. \A j \in Slot : conn[j].st # "routing"
  BY <1>1, NotRouting
<1>5. CASE ReadNothing(i)
  <2>1. Served1
    BY <1>1, <1>5 DEF Served1, ReadNothing
  <2>2. Drops(i, peer)
    BY <1>5, ResetDrops DEF ReadNothing
  <2> QED BY <1>1, <2>1, <2>2, ServedDrops
<1>6. CASE ReadHead(i, expect)
  <2>1. /\ conn' \in [Slot -> ConnRec]
        /\ \A j \in Slot : j # i => conn'[j] = conn[j]
        /\ conn'[i].st = "body" /\ conn'[i].fd = conn[i].fd
        /\ conn'[i].samples = conn[i].samples
    BY <1>6, ReadHeadFacts
  <2>2. \A j \in Slot : /\ conn'[j].fd = conn[j].fd /\ conn'[j].st # "routing"
                        /\ conn'[j].st = "free" <=> conn[j].st = "free"
                        /\ conn'[j].samples = conn[j].samples
    BY <1>2, <1>4, <2>1
  <2>3. OnlyWrote(peer')
    BY <1>3, <1>6, WroteOrLost DEF ReadHead
  <2>4. ConnType'
    BY <2>1, <2>2, StoredType
  <2>5. Served1
    BY <1>1, <1>6 DEF Served1, ReadHead
  <2>6. LoopType' /\ LoopPlace' /\ loop'.at = "serve"
    BY <2>2, <2>5, ServedLoop
  <2>7. \A j \in Slot : Reading(j)' => Reading(j)
    BY <1>2, <2>1, <2>6 DEF Reading
  <2>8. WorkType'
    BY <1>1 DEF WorkType
  <2>9. WorkerPlace'
    <3>1. worker.at = "emit" => req[worker.of].slot \in Slot
      BY DEF WorkerPlace, Asked
    <3> QED BY <1>1, <2>2, <3>1, SameWorker
  <2> QED BY <1>1, <2>2, <2>3, <2>4, <2>6, <2>7, <2>8, <2>9, KeepStep
<1>7. CASE ReadSimple(i, c, expect)
  <2>1. Served1
    BY <1>1, <1>7 DEF Served1, ReadSimple
  <2>2. expect \o <<Simple(0)>> \in Seq(Token)
    BY <1>3, TokensAreTokens
  <2>3. PICK p : Drops(i, p)
    BY <1>7, <2>2, AnswerDrops DEF ReadSimple
  <2> QED BY <1>1, <2>1, <2>3, ServedDrops
<1>8. CASE ReadBody(i, c, expect)
  <2>1. /\ conn' \in [Slot -> ConnRec]
        /\ \A j \in Slot : j # i => conn'[j] = conn[j]
        /\ conn'[i].st = "routing" /\ conn'[i].fd = conn[i].fd
        /\ conn'[i].samples = conn[i].samples
        /\ loop'.at = "route" /\ loop'.slot = i /\ loop'.k = loop.k
        /\ loop' \in [at : {"build", "serve", "submit", "route", "exit", "over"},
                       k : 1 .. MaxConns + 1, slot : 0 .. MaxConns]
    BY <1>8, ReadBodyFacts
  <2>2. \A j \in Slot : /\ conn'[j].fd = conn[j].fd
                        /\ conn'[j].st = "free" <=> conn[j].st = "free"
                        /\ conn'[j].samples = conn[j].samples
    BY <1>2, <2>1
  <2>3. OnlyWrote(peer')
    BY <1>3, <1>8, WroteOrLost DEF ReadBody
  <2>4. ConnType'
    BY <2>1, <2>2, StoredType
  <2>5. LoopType'
    BY <1>1, <2>1 DEF LoopType
  <2>6. LoopPlace'
    BY <1>1, <1>4, <2>1 DEF LoopPlace
  <2>7. \A j \in Slot : Reading(j)' => Reading(j)
    BY <1>2, <1>4, <2>1 DEF Reading
  <2>8. WorkType'
    BY <1>1 DEF WorkType
  <2>9. WorkerPlace'
    <3>1. worker.at = "emit" => req[worker.of].slot \in Slot
      BY DEF WorkerPlace, Asked
    <3> QED BY <1>1, <2>2, <3>1, SameWorker
  <2> QED BY <1>1, <2>2, <2>3, <2>4, <2>5, <2>6, <2>7, <2>8, <2>9, KeepStep
<1> QED BY <1>2, <1>5, <1>6, <1>7, <1>8

(* Where a connection is routed. *)
LEMMA RoutedFacts ==
  ASSUME Places, loop.at \in {"route", "submit"}
  PROVE  /\ loop.slot \in Slot /\ conn[loop.slot].st = "routing"
         /\ RoutedClient \in Client /\ Holder(conn[loop.slot].fd) = {RoutedClient}
         /\ loop.k <= MaxConns /\ loop.k + 1 <= Len(pfds) + 1
         /\ \A j \in Slot : j # loop.slot => conn[j].st # "routing"
<1> USE DEF Places, TypeOK
<1>1. loop.slot \in Slot /\ conn[loop.slot].st = "routing" /\ loop.k <= Len(pfds)
      /\ \A j \in Slot : j # loop.slot => conn[j].st # "routing"
  BY DEF LoopPlace
<1>2. \E c \in Client : c \in Holder(conn[loop.slot].fd)
  BY <1>1 DEF Table, Holder
<1>3. RoutedClient \in Client /\ RoutedClient \in Holder(conn[loop.slot].fd)
  BY <1>2 DEF RoutedClient, Routed
<1>4. \A c \in Holder(conn[loop.slot].fd) : c = RoutedClient
  BY <1>1, <1>3 DEF Holder, Table, ConnType
<1>5. loop.k <= MaxConns /\ loop.k + 1 <= Len(pfds) + 1
  BY <1>1, EntryInRange
<1> QED BY <1>1, <1>3, <1>4, <1>5

LEMMA ResumeLoop ==
  ASSUME LoopType, loop.k <= MaxConns, Resume
  PROVE  /\ loop'.at = "serve" /\ loop'.k = loop.k + 1
         /\ loop' \in [at : {"build", "serve", "submit", "route", "exit", "over"},
                       k : 1 .. MaxConns + 1, slot : 0 .. MaxConns]
<1> DEFINE l1 == [loop EXCEPT !.at = "serve"]
           l2 == [l1 EXCEPT !.k = @ + 1]
           l3 == [l2 EXCEPT !.slot = 0]
           L == [at : {"build", "serve", "submit", "route", "exit", "over"},
                 k : 1 .. MaxConns + 1, slot : 0 .. MaxConns]
<1>1. loop' = l3
  BY DEF Resume
<1>2. l1 \in L /\ l1.at = "serve" /\ l1.k = loop.k
  BY DEF LoopType
<1>3. loop.k + 1 \in 1 .. MaxConns + 1 /\ 0 \in 0 .. MaxConns
  BY HttpConstants DEF LoopType
<1> HIDE DEF l1
<1>4. l2 \in L /\ l2.at = "serve" /\ l2.k = loop.k + 1
  BY <1>2, <1>3
<1> HIDE DEF l2
<1>5. l3 \in L /\ l3.at = "serve" /\ l3.k = loop.k + 1
  BY <1>3, <1>4
<1> QED BY <1>1, <1>5

LEMMA ResumePlace ==
  ASSUME Places, loop.at \in {"route", "submit"}, Resume, UNCHANGED <<pfds, revents>>,
         \A j \in Slot : conn'[j].st # "routing"
  PROVE  LoopType' /\ LoopPlace' /\ loop'.at = "serve"
<1> USE DEF Places, TypeOK
<1>1. loop.k <= MaxConns /\ loop.k + 1 <= Len(pfds) + 1
  BY RoutedFacts
<1>2. /\ loop'.at = "serve" /\ loop'.k = loop.k + 1
      /\ loop' \in [at : {"build", "serve", "submit", "route", "exit", "over"},
                    k : 1 .. MaxConns + 1, slot : 0 .. MaxConns]
  BY <1>1, ResumeLoop
<1>3. LoopType'
  BY <1>2 DEF LoopType
<1>4. LoopPlace'
  BY <1>1, <1>2 DEF LoopPlace
<1> QED BY <1>2, <1>3, <1>4

(* The routed connection is reset and the loop goes on. *)
LEMMA RoutedDrops ==
  ASSUME Places, loop.at \in {"route", "submit"}, Resume, NEW p, Drops(loop.slot, p),
         UNCHANGED <<pfds, revents, req, worker>>
  PROVE  Places'
<1> USE DEF Places, TypeOK
<1>1. loop.slot \in Slot /\ \A j \in Slot : j # loop.slot => conn[j].st # "routing"
  BY RoutedFacts
<1>2. conn'[loop.slot].st = "free" /\ \A j \in Slot : j # loop.slot => conn'[j] = conn[j]
  BY <1>1, FreedConn DEF Drops
<1>3. \A j \in Slot : conn'[j].st # "routing"
  BY <1>1, <1>2
<1>4. LoopType' /\ LoopPlace' /\ loop'.at = "serve"
  BY <1>3, ResumePlace
<1>5. \A j \in Slot : j # loop.slot => (Reading(j)' => Reading(j))
  BY <1>2, <1>4 DEF Reading
<1> QED BY <1>1, <1>4, <1>5, DropsStep

LEMMA RouteHeadPlaces == Places /\ RouteHead => Places'
<1> SUFFICES ASSUME Places, RouteHead PROVE Places'
  OBVIOUS
<1> USE DEF Places, TypeOK
<1>1. loop.at = "route" /\ UNCHANGED <<pfds, revents, req, worker>>
  BY DEF RouteHead
<1>2. /\ loop.slot \in Slot /\ conn[loop.slot].st = "routing"
      /\ \A j \in Slot : j # loop.slot => conn[j].st # "routing"
  BY <1>1, RoutedFacts
<1>3. CASE Reset(loop.slot) /\ Resume
  <2>1. Drops(loop.slot, peer)
    BY <1>3, ResetDrops
  <2> QED BY <1>1, <1>3, <2>1, RoutedDrops
<1>4. CASE /\ peer' \in {peer, Written(Routed.fd, <<Head200>>)}
           /\ loop' = [loop EXCEPT !.at = "submit"] /\ UNCHANGED conn
  <2>1. OnlyWrote(peer')
    BY <1>4, SameOnlyWrote, WrittenOnlyWrote, TokensAreTokens
  <2>2. loop'.at = "submit" /\ loop'.k = loop.k /\ loop'.slot = loop.slot
    BY <1>4 DEF LoopType
  <2>3. LoopType'
    BY <1>1, <1>4 DEF LoopType
  <2>4. LoopPlace'
    BY <1>1, <1>4, <2>2 DEF LoopPlace
  <2>5. \A j \in Slot : Reading(j)' => Reading(j)
    BY <1>4, <2>2 DEF Reading
  <2>6. ConnType' /\ WorkType'
    BY <1>1, <1>4 DEF ConnType, WorkType
  <2>7. WorkerPlace'
    BY <1>1, <1>4, SameWorker
  <2> QED BY <1>1, <1>4, <2>1, <2>3, <2>4, <2>5, <2>6, <2>7, KeepStep
<1>5. \/ Reset(loop.slot) /\ Resume
      \/ /\ peer' \in {peer, Written(Routed.fd, <<Head200>>)}
         /\ loop' = [loop EXCEPT !.at = "submit"] /\ UNCHANGED conn
  BY DEF RouteHead
<1> QED BY <1>3, <1>4, <1>5

LEMMA RouteSubmitPlaces == Places /\ RouteSubmit => Places'
<1> SUFFICES ASSUME Places, RouteSubmit PROVE Places'
  OBVIOUS
<1> USE DEF Places, TypeOK
<1> DEFINE r == RoutedClient
<1>1. /\ loop.at = "submit" /\ req[r].st = "none"
      /\ UNCHANGED <<peer, conn, pfds, revents, worker, loop>>
  BY DEF RouteSubmit
<1>2. /\ loop.slot \in Slot /\ conn[loop.slot].st = "routing" /\ r \in Client
      /\ Holder(conn[loop.slot].fd) = {r}
  BY <1>1, RoutedFacts
<1>3. PICK n \in Takes :
        req' = [req EXCEPT ![r] = [st |-> "queued", slot |-> loop.slot, take |-> n, made |-> 0]]
  BY DEF RouteSubmit
<1>4. n \in Nat /\ loop.slot \in 0 .. MaxConns
  BY <1>2, HttpConstants DEF Slot
<1> DEFINE q == [st |-> "queued", slot |-> loop.slot, take |-> n, made |-> 0]
<1>5. /\ q \in [st : {"none", "queued", "starting", "active", "over"},
                slot : 0 .. MaxConns, take : Nat, made : Nat]
      /\ q.st = "queued" /\ q.slot = loop.slot /\ q.take = n
  BY <1>4
<1>6. req' = [req EXCEPT ![r] = q]
  BY <1>3
<1> HIDE DEF q, r
<1>7. req'[r] = q /\ \A c \in Client : c # r => req'[c] = req[c]
  BY <1>2, <1>6 DEF WorkType
<1>8. WorkType'
  BY <1>1, <1>5, <1>6 DEF WorkType
<1>9. PeerType' /\ ConnType' /\ LoopType'
  BY <1>1 DEF PeerType, ConnType, LoopType
<1>10. \A fd : Holder(fd)' = Holder(fd)
  BY <1>1 DEF Holder
<1>11. Table'
  BY <1>1, <1>10, UpdatedTable
<1>12. LoopPlace'
  BY <1>1, SameLoop
<1>13. WorkerPlace'
  <2>1. worker.of # r \/ worker.at = "idle"
    BY <1>1, <1>2 DEF WorkerPlace, WorkType
  <2>2. worker.at # "idle" => worker.of \in Client /\ req'[worker.of] = req[worker.of]
    BY <1>7, <2>1 DEF WorkerPlace, WorkType
  <2>3. \A c \in Client : req'[c].st = "starting" => req[c].st = "starting"
    BY <1>5, <1>7
  <2>4. Closes' = Closes /\ Ends' = Ends
    BY <1>1 DEF Closes, Ends
  <2> QED BY <1>1, <2>2, <2>3, <2>4 DEF WorkerPlace
<1>14. Asked'
  <2>1. \A c \in Client : req'[c].st # "none" => req'[c].slot \in Slot
    BY <1>2, <1>5, <1>7 DEF Asked
  <2>2. \A c \in Client : req'[c].st = "none" => req'[c].take = 0
    BY <1>5, <1>7 DEF Asked
  <2>3. peer[r].st = "open"
    BY <1>2 DEF Holder
  <2>4. \A c \in Client : peer'[c].st \in {"new", "backlog"} =>
          req'[c].st = "none" /\ peer'[c].wire = <<>>
    BY <1>1, <1>7, <2>3 DEF Asked
  <2>5. ASSUME NEW j \in Slot, Reading(j)', NEW c \in Holder(conn[j].fd)'
        PROVE  req'[c].st = "none"
    <3>1. Reading(j) /\ c \in Holder(conn[j].fd) /\ c \in Client
      BY <2>5, <1>1 DEF Reading, Holder
    <3>2. req[c].st = "none"
      BY <3>1 DEF Asked
    <3>3. j # loop.slot
      BY <1>1, <1>2, <3>1 DEF Reading
    <3>4. conn[j].fd # conn[loop.slot].fd
      BY <1>2, <3>1, <3>3 DEF ConnType, Reading
    <3>5. c # r
      BY <1>2, <3>1, <3>4 DEF Holder
    <3> QED BY <1>7, <3>1, <3>2, <3>5
  <2> QED BY <2>1, <2>2, <2>4, <2>5 DEF Asked
<1> QED BY <1>8, <1>9, <1>11, <1>12, <1>13, <1>14

LEMMA SubmittedFacts ==
  ASSUME ConnType, NEW i \in Slot, NEW c \in Client,
         conn' = [conn EXCEPT ![i].st = "streaming", ![i].of = c]
  PROVE  /\ conn' \in [Slot -> ConnRec]
         /\ \A j \in Slot : j # i => conn'[j] = conn[j]
         /\ conn'[i].st = "streaming" /\ conn'[i].of = c /\ conn'[i].fd = conn[i].fd
         /\ conn'[i].fin = conn[i].fin /\ conn'[i].hdr = conn[i].hdr
         /\ conn'[i].acc = conn[i].acc /\ conn'[i].kind = conn[i].kind
         /\ conn'[i].samples = conn[i].samples
<1> DEFINE d1 == [conn EXCEPT ![i].st = "streaming"]
           d2 == [d1 EXCEPT ![i].of = c]
<1>1. conn' = d2
  OBVIOUS
<1>2. conn \in [Slot -> ConnRec]
  BY ConnIsFcn
<1>3. /\ d1 \in [Slot -> ConnRec] /\ \A j \in Slot : j # i => d1[j] = conn[j]
      /\ d1[i].st = "streaming" /\ d1[i].fd = conn[i].fd /\ d1[i].fin = conn[i].fin
      /\ d1[i].hdr = conn[i].hdr /\ d1[i].acc = conn[i].acc
      /\ d1[i].kind = conn[i].kind /\ d1[i].samples = conn[i].samples
  BY <1>2 DEF ConnRec
<1> HIDE DEF d1
<1>4. /\ d2 \in [Slot -> ConnRec] /\ \A j \in Slot : j # i => d2[j] = d1[j]
      /\ d2[i].st = d1[i].st /\ d2[i].fd = d1[i].fd /\ d2[i].fin = d1[i].fin
      /\ d2[i].hdr = d1[i].hdr /\ d2[i].acc = d1[i].acc /\ d2[i].of = c
      /\ d2[i].kind = d1[i].kind /\ d2[i].samples = d1[i].samples
  BY <1>3 DEF ConnRec
<1> QED BY <1>1, <1>3, <1>4

LEMMA RouteSubmittedPlaces == Places /\ RouteSubmitted => Places'
<1> SUFFICES ASSUME Places, RouteSubmitted PROVE Places'
  OBVIOUS
<1> USE DEF Places, TypeOK
<1>1. /\ loop.at = "submit" /\ Resume /\ UNCHANGED <<peer, pfds, revents, req, worker>>
      /\ conn' = [conn EXCEPT ![loop.slot].st = "streaming", ![loop.slot].of = RoutedClient]
  BY DEF RouteSubmitted
<1>2. /\ loop.slot \in Slot /\ conn[loop.slot].st = "routing" /\ RoutedClient \in Client
      /\ \A j \in Slot : j # loop.slot => conn[j].st # "routing"
  BY <1>1, RoutedFacts
<1>3. /\ conn' \in [Slot -> ConnRec]
      /\ \A j \in Slot : j # loop.slot => conn'[j] = conn[j]
      /\ conn'[loop.slot].st = "streaming" /\ conn'[loop.slot].fd = conn[loop.slot].fd
      /\ conn'[loop.slot].samples = conn[loop.slot].samples
  BY <1>1, <1>2, SubmittedFacts
<1>4. \A j \in Slot : /\ conn'[j].fd = conn[j].fd /\ conn'[j].st # "routing"
                      /\ conn'[j].st = "free" <=> conn[j].st = "free"
                      /\ conn'[j].samples = conn[j].samples
  BY <1>2, <1>3
<1>5. LoopType' /\ LoopPlace' /\ loop'.at = "serve"
  BY <1>1, <1>4, ResumePlace
<1>6. \A j \in Slot : Reading(j)' => Reading(j)
  BY <1>3, <1>5 DEF Reading
<1>7. ConnType' /\ OnlyWrote(peer')
  BY <1>1, <1>3, <1>4, StoredType, SameOnlyWrote
<1>8. WorkType'
  BY <1>1 DEF WorkType
<1>9. WorkerPlace'
  <2>1. worker.at = "emit" => req[worker.of].slot \in Slot
    BY DEF WorkerPlace, Asked
  <2> QED BY <1>1, <1>4, <2>1, SameWorker
<1> QED BY <1>1, <1>4, <1>5, <1>6, <1>7, <1>8, <1>9, KeepStep

LEMMA RouteRefusedPlaces == Places /\ RouteRefused => Places'
<1> SUFFICES ASSUME Places, RouteRefused PROVE Places'
  OBVIOUS
<1> USE DEF Places, TypeOK
<1>1. loop.at = "submit" /\ Resume /\ UNCHANGED <<pfds, revents, req, worker>>
  BY DEF RouteRefused
<1>2. PICK t \in {<<Simple(503)>>, <<EndChunk>>} : AnswerAndReset(loop.slot, t)
  BY DEF RouteRefused
<1>3. t \in Seq(Token)
  <2>1. <<Simple(503)>> \in Seq(Token)
    BY DEF Token, Simple
  <2>2. <<EndChunk>> \in Seq(Token)
    BY DEF Token, EndChunk
  <2> QED BY <1>2, <2>1, <2>2
<1>4. PICK p : Drops(loop.slot, p)
  BY <1>2, <1>3, AnswerDrops
<1> QED BY <1>1, <1>4, RoutedDrops

LEMMA ShutdownPlaces == Places /\ Shutdown => Places'
<1> SUFFICES ASSUME Places, Shutdown PROVE Places'
  OBVIOUS
<1> USE DEF Places, TypeOK
<1> DEFINE i == loop.k
<1>1. /\ loop.at = "exit" /\ i \in Slot /\ loop.k <= MaxConns
      /\ loop' = [loop EXCEPT !.k = @ + 1] /\ UNCHANGED <<pfds, revents, worker>>
  BY HttpConstants DEF Shutdown, LoopType, Slot
<1>2. LoopType' /\ loop'.at = "exit"
  BY <1>1, NextEntry DEF LoopType
<1>3. \A j \in Slot : conn[j].st # "routing"
  BY <1>1, NotRouting
<1>6. \/ UNCHANGED <<peer, conn, req>>
      \/ Reset(i) /\ UNCHANGED req
      \/ Reset(i) /\ CancelReq(conn[i].of)
  BY DEF Shutdown
<1>4. CASE UNCHANGED <<peer, conn, req>>
  <2>1. LoopPlace'
    BY <1>2, <1>3, <1>4 DEF LoopPlace
  <2>2. \A j \in Slot : Reading(j)' => Reading(j)
    BY <1>2, <1>4 DEF Reading
  <2> QED BY <1>1, <1>2, <1>4, <2>1, <2>2, LoopStep
<1>5. CASE Reset(i) /\ (UNCHANGED req \/ CancelReq(conn[i].of))
  <2>1. Drops(i, peer)
    BY <1>5, ResetDrops
  <2>2. conn'[i].st = "free" /\ \A j \in Slot : j # i => conn'[j] = conn[j]
    BY <1>1, <2>1, FreedConn DEF Drops
  <2>3. LoopPlace'
    BY <1>2, <1>3, <2>2 DEF LoopPlace
  <2>4. \A j \in Slot : j # i => (Reading(j)' => Reading(j))
    BY <1>2, <2>2 DEF Reading
  <2>5. CASE UNCHANGED req
    BY <1>1, <1>2, <2>1, <2>3, <2>4, <2>5, DropsStep
  <2>6. CASE CancelReq(conn[i].of)
    BY <1>1, <1>2, <1>5, <2>3, <2>4, <2>6, CancelDrops
  <2> QED BY <1>5, <2>5, <2>6
<1> QED BY <1>4, <1>5, <1>6

LEMMA ExitFacts ==
  ASSUME Places, Exit
  PROVE  /\ PeerType'
         /\ \A c \in Client : /\ peer'[c].fd = peer[c].fd /\ peer'[c].wire = peer[c].wire
                              /\ peer'[c].kind = peer[c].kind
                              /\ peer'[c].gone = peer[c].gone /\ peer'[c].slow = peer[c].slow
         /\ \A c \in Client : IF peer[c].st = "backlog" THEN peer'[c].st = "closed"
                                                        ELSE peer'[c] = peer[c]
         /\ \A fd : Holder(fd)' = Holder(fd)
<1> USE DEF Places, TypeOK
<1> DEFINE Q == [c \in Client |-> IF peer[c].st = "backlog" THEN [peer[c] EXCEPT !.st = "closed"]
                                  ELSE peer[c]]
<1>1. peer' = Q
  BY DEF Exit
<1>2. ASSUME NEW c \in Client
      PROVE  /\ Q[c] \in PeerRec /\ Q[c].fd = peer[c].fd /\ Q[c].wire = peer[c].wire
             /\ Q[c].kind = peer[c].kind /\ Q[c].gone = peer[c].gone /\ Q[c].slow = peer[c].slow
             /\ IF peer[c].st = "backlog" THEN Q[c].st = "closed" ELSE Q[c] = peer[c]
  <2>1. peer[c] \in PeerRec
    BY DEF PeerType, PeerRec
  <2>2. Q[c] = IF peer[c].st = "backlog" THEN [peer[c] EXCEPT !.st = "closed"] ELSE peer[c]
    OBVIOUS
  <2> HIDE DEF Q
  <2> QED BY <2>1, <2>2 DEF PeerRec
<1>3. Q \in [Client -> PeerRec]
  BY <1>2
<1> HIDE DEF Q
<1>4. PeerType'
  BY <1>1, <1>3 DEF PeerType, PeerRec
<1>5. ASSUME NEW fd PROVE Holder(fd)' = Holder(fd)
  BY <1>1, <1>2 DEF Holder
<1> QED BY <1>1, <1>2, <1>4, <1>5

LEMMA ExitPlaces == Places /\ Exit => Places'
<1> SUFFICES ASSUME Places, Exit PROVE Places'
  OBVIOUS
<1> USE DEF Places, TypeOK
<1>1. /\ loop.at = "exit" /\ loop' = [loop EXCEPT !.at = "over"]
      /\ UNCHANGED <<conn, pfds, revents, req, worker>>
  BY DEF Exit
<1>2. loop'.at = "over" /\ LoopType'
  BY <1>1 DEF LoopType
<1>3. /\ PeerType'
      /\ \A c \in Client : peer'[c].fd = peer[c].fd /\ peer'[c].wire = peer[c].wire
      /\ \A c \in Client : IF peer[c].st = "backlog" THEN peer'[c].st = "closed"
                                                     ELSE peer'[c] = peer[c]
      /\ \A fd : Holder(fd)' = Holder(fd)
  BY ExitFacts
<1>4. \A c \in Client : peer'[c].st = "open" <=> peer[c].st = "open"
  BY <1>3
<1>5. \A j \in Slot : conn[j].st # "routing"
  BY <1>1, NotRouting
<1>6. LoopPlace'
  BY <1>1, <1>2, <1>5 DEF LoopPlace
<1>7. Table'
  BY <1>1, <1>3, <1>4, UpdatedTable
<1>8. \A j \in Slot : Reading(j)' => Reading(j)
  BY <1>1, <1>2 DEF Reading
<1>9. \A c \in Client : peer'[c].st \in {"new", "backlog"} =>
        peer[c].st \in {"new", "backlog"} /\ peer'[c].wire = peer[c].wire
  BY <1>3
<1>10. Asked'
  BY <1>1, <1>3, <1>8, <1>9, UpdatedAsked
<1>11. WorkerPlace'
  BY <1>1, SameWorker
<1>12. ConnType' /\ WorkType'
  BY <1>1 DEF ConnType, WorkType
<1> QED BY <1>2, <1>3, <1>6, <1>7, <1>10, <1>11, <1>12

-----------------------------------------------------------------------------
(* The scheduler and the callback.                                          *)

ReqRec == [st : {"none", "queued", "starting", "active", "over"},
           slot : 0 .. MaxConns, take : Nat, made : Nat]

(* A step of the scheduler changes the place of one request. *)
LEMMA ReqStep ==
  ASSUME Places, UNCHANGED <<peer, conn, pfds, revents, loop>>, WorkType', WorkerPlace',
         \A c \in Client : req'[c].slot = req[c].slot /\ req'[c].take = req[c].take
                           /\ (req'[c].st = "none" <=> req[c].st = "none")
  PROVE  Places'
<1> USE DEF Places, TypeOK
<1>1. OnlyWrote(peer')
  BY SameOnlyWrote
<1>2. ConnType' /\ LoopType'
  BY DEF ConnType, LoopType
<1>3. LoopPlace'
  BY SameLoop
<1>4. \A i \in Slot : Reading(i)' => Reading(i)
  BY DEF Reading
<1> QED BY <1>1, <1>2, <1>3, <1>4, KeepStep

LEMMA PopPlaces ==
  ASSUME Places, NEW c \in Client, Pop(c)
  PROVE  Places'
<1> USE DEF Places, TypeOK
<1>1. /\ worker.at = "idle" /\ req[c].st = "queued"
      /\ req' = [req EXCEPT ![c].st = "starting"]
      /\ worker' = [worker EXCEPT !.at = "start", !.of = c]
      /\ UNCHANGED <<peer, conn, pfds, revents, loop>>
  BY DEF Pop
<1>2. /\ req'[c].st = "starting" /\ req'[c].slot = req[c].slot /\ req'[c].take = req[c].take
      /\ \A d \in Client : d # c => req'[d] = req[d]
  BY <1>1 DEF WorkType
<1>3. worker = Idle
  BY <1>1 DEF WorkerPlace
<1>4. /\ worker'.at = "start" /\ worker'.of = c /\ worker'.n = 0 /\ worker'.final = FALSE
      /\ worker'.cut = FALSE /\ worker'.rc = 0
  BY <1>1, <1>3 DEF Idle
<1>5. WorkType'
  <2>1. req' \in [Client -> ReqRec]
    BY <1>1 DEF WorkType, ReqRec
  <2>2. worker' = [at |-> "start", of |-> c, n |-> 0, final |-> FALSE, cut |-> FALSE, rc |-> 0]
    BY <1>1, <1>3 DEF Idle
  <2> QED BY <2>1, <2>2 DEF WorkType, ReqRec
<1>6. WorkerPlace'
  BY <1>1, <1>2, <1>4 DEF WorkerPlace
<1> QED BY <1>1, <1>2, <1>5, <1>6, ReqStep

LEMMA StartedPlaces ==
  ASSUME Places, NEW c \in Client, Started(c)
  PROVE  Places'
<1> USE DEF Places, TypeOK
<1>1. /\ worker.at = "start" /\ worker.of = c
      /\ req' = [req EXCEPT ![c].st = "active"] /\ worker' = Idle
      /\ UNCHANGED <<peer, conn, pfds, revents, loop>>
  BY DEF Started
<1>2. /\ req'[c].st = "active" /\ req'[c].slot = req[c].slot /\ req'[c].take = req[c].take
      /\ \A d \in Client : d # c => req'[d] = req[d]
  BY <1>1 DEF WorkType
<1>3. req[c].st = "starting"
  BY <1>1 DEF WorkerPlace
<1>4. WorkType'
  <2>1. req' \in [Client -> ReqRec]
    BY <1>1 DEF WorkType, ReqRec
  <2> QED BY <1>1, <2>1 DEF WorkType, ReqRec, Idle
<1>5. WorkerPlace'
  BY <1>1, <1>2 DEF WorkerPlace, Idle
<1> QED BY <1>1, <1>2, <1>3, <1>4, <1>5, ReqStep

LEMMA DeliverPlaces ==
  ASSUME Places, NEW c \in Client, NEW n \in {0, 1}, NEW final \in BOOLEAN,
         Deliver(c, n, final)
  PROVE  Places'
<1> USE DEF Places, TypeOK
<1> DEFINE cut == n = 1 /\ conn[req[c].slot].samples = Cap
           m == IF cut THEN 0 ELSE n
<1>1. /\ worker.at = "idle" /\ req[c].st = "active"
      /\ req' = [req EXCEPT ![c].made = @ + n]
      /\ worker' = [at |-> "emit", of |-> c, n |-> m, final |-> final, cut |-> cut, rc |-> 0]
      /\ UNCHANGED <<peer, conn, pfds, revents, loop>>
  BY DEF Deliver
<1>2. cut \in BOOLEAN /\ m \in {0, 1} /\ (m = 1 => conn[req[c].slot].samples # Cap)
  OBVIOUS
<1> HIDE DEF cut, m
<1>3. req'[c] = [req[c] EXCEPT !.made = @ + n] /\ \A d \in Client : d # c => req'[d] = req[d]
  BY <1>1 DEF WorkType
<1>4. req[c] \in ReqRec
  BY DEF WorkType, ReqRec
<1>5. req[c].made + n \in Nat
  BY <1>4 DEF ReqRec
<1>6. /\ req'[c] \in ReqRec /\ req'[c].st = req[c].st /\ req'[c].slot = req[c].slot
      /\ req'[c].take = req[c].take
  BY <1>3, <1>4, <1>5 DEF ReqRec
<1>7. WorkType'
  <2>1. \A d \in Client : req'[d] \in ReqRec
    BY <1>3, <1>6 DEF WorkType, ReqRec
  <2>2. req' \in [Client -> ReqRec]
    BY <1>1, <2>1 DEF WorkType
  <2>3. worker' \in [at : {"idle", "start", "emit", "close", "flag", "return"},
                     of : Client \cup {NoClient}, n : {0, 1}, final : BOOLEAN, cut : BOOLEAN,
                     rc : {0, 1}]
    BY <1>1, <1>2
  <2> QED BY <2>2, <2>3 DEF WorkType, ReqRec
<1>8. /\ worker'.at = "emit" /\ worker'.of = c /\ worker'.n = m /\ worker'.rc = 0
  BY <1>1
<1>9. m = 1 => conn[req[c].slot].samples < Cap
  <2>1. req[c].slot \in Slot
    BY <1>1 DEF Asked
  <2>2. conn[req[c].slot].samples \in 0 .. Cap
    BY <2>1 DEF ConnType
  <2> QED BY <1>2, <2>2, HttpConstants
<1>10. WorkerPlace'
  <2>1. \A d \in Client : req'[d].st = req[d].st
    BY <1>3, <1>6
  <2>2. \A d \in Client : req'[d].st # "starting"
    BY <1>1, <2>1 DEF WorkerPlace
  <2>3. worker'.at = "emit" /\ worker'.n = 1 => conn'[req'[worker'.of].slot].samples < Cap
    BY <1>1, <1>6, <1>8, <1>9
  <2> QED BY <1>1, <1>8, <2>1, <2>2, <2>3 DEF WorkerPlace
<1> QED BY <1>1, <1>3, <1>6, <1>7, <1>10, ReqStep

(* What holds of the request that is called back, and its connection. *)
LEMMA CalledFacts ==
  ASSUME Places, worker.at \in {"emit", "close", "flag", "return"}
  PROVE  /\ worker.of \in Client /\ req[worker.of].st = "active" /\ Mine \in Slot
         /\ conn[Mine] \in ConnRec /\ C = conn[Mine] /\ conn \in [Slot -> ConnRec]
<1> USE DEF Places, TypeOK
<1>1. worker.of \in Client /\ req[worker.of].st = "active"
  BY DEF WorkerPlace
<1>2. Mine \in Slot
  BY <1>1 DEF Mine, Asked
<1>3. conn \in [Slot -> ConnRec]
  BY ConnIsFcn
<1> QED BY <1>1, <1>2, <1>3 DEF C

(* A step of the callback that writes, or changes what its connection       *)
(* holds, but not its place in the table.                                   *)
LEMMA CallStep ==
  ASSUME Places, OnlyWrote(peer'), conn' \in [Slot -> ConnRec],
         \A i \in Slot : conn'[i].fd = conn[i].fd /\ conn'[i].st = conn[i].st,
         UNCHANGED <<pfds, revents, req, loop>>, WorkType', WorkerPlace'
  PROVE  Places'
<1> USE DEF Places, TypeOK
<1>1. ConnType'
  BY StoredType
<1>2. LoopType'
  BY DEF LoopType
<1>3. LoopPlace'
  BY SameLoop
<1>4. \A i \in Slot : Reading(i)' => Reading(i)
  BY DEF Reading
<1> QED BY <1>1, <1>2, <1>3, <1>4, KeepStep

LEMMA HeaderToken ==
  Header \in Seq(Token) /\ Header \in {<<>>, <<WavHdr>>}
<1>1. <<>> \in Seq(Token) /\ <<WavHdr>> \in Seq(Token)
  BY TokensAreTokens
<1>2. Header \in {<<>>, <<WavHdr>>}
  BY DEF Header
<1> QED BY <1>1, <1>2

(* The callback goes on: to the end of the response or back. *)
LEMMA WorkerGoes ==
  ASSUME Places, worker.at \in {"emit", "close", "flag"}, UNCHANGED req,
         NEW at \in {"close", "flag", "return"}, NEW rc \in {0, 1},
         /\ worker'.at = at /\ worker'.of = worker.of /\ worker'.n = worker.n
         /\ worker'.final = worker.final /\ worker'.cut = worker.cut /\ worker'.rc = rc
         /\ worker' \in [at : {"idle", "start", "emit", "close", "flag", "return"},
                         of : Client \cup {NoClient}, n : {0, 1}, final : BOOLEAN,
                         cut : BOOLEAN, rc : {0, 1}],
         at = "close" => Closes /\ rc = 0,
         at = "flag" => Closes \/ rc = 1
  PROVE  WorkType' /\ WorkerPlace'
<1> USE DEF Places, TypeOK
<1>1. WorkType'
  BY DEF WorkType
<1>2. worker.of \in Client /\ req[worker.of].st = "active"
  BY DEF WorkerPlace
<1>3. Closes' = Closes
  BY DEF Closes
<1>4. at = "flag" => Ends'
  BY DEF Ends, Closes
<1>5. \A c \in Client : req'[c].st # "starting"
  BY DEF WorkerPlace
<1>6. WorkerPlace'
  BY <1>2, <1>3, <1>4, <1>5 DEF WorkerPlace
<1> QED BY <1>1, <1>6

LEMMA WorkerAt ==
  ASSUME WorkType, NEW at \in {"close", "flag", "return"}, worker' = [worker EXCEPT !.at = at]
  PROVE  /\ worker'.at = at /\ worker'.of = worker.of /\ worker'.n = worker.n
         /\ worker'.final = worker.final /\ worker'.cut = worker.cut /\ worker'.rc = worker.rc
         /\ worker' \in [at : {"idle", "start", "emit", "close", "flag", "return"},
                         of : Client \cup {NoClient}, n : {0, 1}, final : BOOLEAN,
                         cut : BOOLEAN, rc : {0, 1}]
BY DEF WorkType

LEMMA WorkerAtRc ==
  ASSUME WorkType, NEW at \in {"close", "flag", "return"},
         worker' = [worker EXCEPT !.at = at, !.rc = 1]
  PROVE  /\ worker'.at = at /\ worker'.of = worker.of /\ worker'.n = worker.n
         /\ worker'.final = worker.final /\ worker'.cut = worker.cut /\ worker'.rc = 1
         /\ worker' \in [at : {"idle", "start", "emit", "close", "flag", "return"},
                         of : Client \cup {NoClient}, n : {0, 1}, final : BOOLEAN,
                         cut : BOOLEAN, rc : {0, 1}]
<1> DEFINE w1 == [worker EXCEPT !.at = at]
           W == [at : {"idle", "start", "emit", "close", "flag", "return"},
                 of : Client \cup {NoClient}, n : {0, 1}, final : BOOLEAN,
                 cut : BOOLEAN, rc : {0, 1}]
<1>1. /\ w1.at = at /\ w1.of = worker.of /\ w1.n = worker.n
      /\ w1.final = worker.final /\ w1.cut = worker.cut /\ w1 \in W
  BY DEF WorkType
<1>2. worker' = [w1 EXCEPT !.rc = 1]
  OBVIOUS
<1> HIDE DEF w1
<1> QED BY <1>1, <1>2

(* Only the header flag, the accumulator and the count of connection i      *)
(* change.                                                                  *)
Fills(i) ==
  /\ conn' \in [Slot -> ConnRec]
  /\ \A j \in Slot : j # i => conn'[j] = conn[j]
  /\ conn'[i].st = conn[i].st /\ conn'[i].fd = conn[i].fd /\ conn'[i].fin = conn[i].fin
  /\ conn'[i].got = conn[i].got /\ conn'[i].of = conn[i].of /\ conn'[i].kind = conn[i].kind

LEMMA FillsNothing ==
  ASSUME NEW i \in Slot, conn \in [Slot -> ConnRec], UNCHANGED conn
  PROVE  Fills(i)
BY DEF Fills

LEMMA FillsHdr ==
  ASSUME NEW i \in Slot, NEW b \in BOOLEAN, conn \in [Slot -> ConnRec],
         conn' = [conn EXCEPT ![i].hdr = b]
  PROVE  /\ Fills(i) /\ conn'[i].hdr = b
         /\ conn'[i].acc = conn[i].acc /\ conn'[i].samples = conn[i].samples
<1>1. [conn EXCEPT ![i].hdr = b] \in [Slot -> ConnRec]
  BY DEF ConnRec
<1>2. conn' \in [Slot -> ConnRec]
  BY <1>1
<1> QED BY <1>2 DEF Fills, ConnRec

(* A step that counts a piece, and holds it or remembers the header.        *)
StoresHeld(i, a) == conn' = [conn EXCEPT ![i].acc = a, ![i].samples = @ + 1]

LEMMA FillsHeld ==
  ASSUME NEW i \in Slot, conn \in [Slot -> ConnRec], conn[i].samples < Cap, NEW a \in Seq(Token),
         StoresHeld(i, a)
  PROVE  /\ Fills(i) /\ conn'[i].samples = conn[i].samples + 1
         /\ conn'[i].acc = a /\ conn'[i].hdr = conn[i].hdr
<1>1. conn[i].samples + 1 \in 0 .. Cap
  <2>1. conn[i].samples \in 0 .. Cap
    BY DEF ConnRec, StoresHeld
  <2> QED BY <2>1, HttpConstants
<1>2. conn' \in [Slot -> ConnRec]
  <2>1. /\ conn'[i].acc = a /\ conn'[i].samples \in 0 .. Cap
        /\ conn'[i].st = conn[i].st /\ conn'[i].fd = conn[i].fd /\ conn'[i].fin = conn[i].fin
        /\ conn'[i].got = conn[i].got /\ conn'[i].of = conn[i].of
        /\ conn'[i].kind = conn[i].kind /\ conn'[i].hdr = conn[i].hdr
    BY <1>1 DEF ConnRec, StoresHeld
  <2>2. conn'[i] = [st |-> conn'[i].st, fd |-> conn'[i].fd, fin |-> conn'[i].fin,
                    hdr |-> conn'[i].hdr, acc |-> conn'[i].acc, got |-> conn'[i].got,
                    of |-> conn'[i].of, kind |-> conn'[i].kind, samples |-> conn'[i].samples]
    BY DEF ConnRec, StoresHeld
  <2>3. conn'[i] \in ConnRec
    BY <2>1, <2>2 DEF ConnRec, StoresHeld
  <2>4. \A j \in Slot : j # i => conn'[j] = conn[j]
    BY DEF ConnRec, StoresHeld
  <2>5. conn' = [j \in Slot |-> conn'[j]]
    BY DEF ConnRec, StoresHeld
  <2> QED BY <2>3, <2>4, <2>5
<1>3. \A j \in Slot : j # i => conn'[j] = conn[j]
  BY DEF ConnRec, StoresHeld
<1>4. /\ conn'[i].st = conn[i].st /\ conn'[i].fd = conn[i].fd /\ conn'[i].fin = conn[i].fin
      /\ conn'[i].got = conn[i].got /\ conn'[i].of = conn[i].of /\ conn'[i].kind = conn[i].kind
  BY DEF ConnRec, StoresHeld
<1>5. /\ conn'[i].samples = conn[i].samples + 1
      /\ conn'[i].acc = a /\ conn'[i].hdr = conn[i].hdr
  BY DEF ConnRec, StoresHeld
<1> QED BY <1>2, <1>3, <1>4, <1>5 DEF Fills

StoresSent(i, b) == conn' = [conn EXCEPT ![i].hdr = b, ![i].samples = @ + 1]

LEMMA FillsSent ==
  ASSUME NEW i \in Slot, conn \in [Slot -> ConnRec], conn[i].samples < Cap, NEW b \in BOOLEAN,
         StoresSent(i, b)
  PROVE  /\ Fills(i) /\ conn'[i].samples = conn[i].samples + 1
         /\ conn'[i].hdr = b /\ conn'[i].acc = conn[i].acc
<1>1. conn[i].samples + 1 \in 0 .. Cap
  <2>1. conn[i].samples \in 0 .. Cap
    BY DEF ConnRec, StoresSent
  <2> QED BY <2>1, HttpConstants
<1>2. conn' \in [Slot -> ConnRec]
  BY <1>1 DEF ConnRec, StoresSent
<1>3. \A j \in Slot : j # i => conn'[j] = conn[j]
  BY DEF ConnRec, StoresSent
<1>4. /\ conn'[i].st = conn[i].st /\ conn'[i].fd = conn[i].fd /\ conn'[i].fin = conn[i].fin
      /\ conn'[i].got = conn[i].got /\ conn'[i].of = conn[i].of /\ conn'[i].kind = conn[i].kind
  BY DEF ConnRec, StoresSent
<1>5. /\ conn'[i].samples = conn[i].samples + 1
      /\ conn'[i].hdr = b /\ conn'[i].acc = conn[i].acc
  BY DEF ConnRec, StoresSent
<1> QED BY <1>2, <1>3, <1>4, <1>5 DEF Fills

LEMMA AfterEmitGoes ==
  ASSUME Places, worker.at = "emit", UNCHANGED req, worker' = [worker EXCEPT !.at = AfterEmit]
  PROVE  /\ WorkType' /\ WorkerPlace' /\ worker'.at = AfterEmit /\ worker'.of = worker.of
         /\ worker'.n = worker.n /\ worker'.final = worker.final /\ worker'.cut = worker.cut
         /\ worker'.rc = 0
<1> USE DEF Places, TypeOK
<1>1. /\ AfterEmit \in {"close", "flag", "return"} /\ (AfterEmit = "close" => Closes)
      /\ AfterEmit # "flag"
  BY DEF AfterEmit
<1> DEFINE at == AfterEmit
<1> HIDE DEF at
<1>2. /\ worker'.at = at /\ worker'.of = worker.of /\ worker'.n = worker.n
      /\ worker'.final = worker.final /\ worker'.cut = worker.cut /\ worker'.rc = worker.rc
      /\ worker' \in [at : {"idle", "start", "emit", "close", "flag", "return"},
                      of : Client \cup {NoClient}, n : {0, 1}, final : BOOLEAN,
                      cut : BOOLEAN, rc : {0, 1}]
  BY <1>1, WorkerAt DEF at
<1>3. worker.rc = 0
  BY DEF WorkerPlace
<1>4. WorkType' /\ WorkerPlace'
  BY <1>1, <1>2, <1>3, WorkerGoes DEF at
<1> QED BY <1>2, <1>3, <1>4 DEF at

LEMMA FailedGoes ==
  ASSUME Places, worker.at = "emit", UNCHANGED req, NEW at \in {"flag", "return"},
         worker' = [worker EXCEPT !.at = at, !.rc = 1]
  PROVE  /\ WorkType' /\ WorkerPlace' /\ worker'.at = at /\ worker'.of = worker.of
         /\ worker'.n = worker.n /\ worker'.final = worker.final /\ worker'.cut = worker.cut
         /\ worker'.rc = 1
<1> USE DEF Places, TypeOK
<1>2. /\ worker'.at = at /\ worker'.of = worker.of /\ worker'.n = worker.n
      /\ worker'.final = worker.final /\ worker'.cut = worker.cut /\ worker'.rc = 1
      /\ worker' \in [at : {"idle", "start", "emit", "close", "flag", "return"},
                      of : Client \cup {NoClient}, n : {0, 1}, final : BOOLEAN,
                      cut : BOOLEAN, rc : {0, 1}]
  BY WorkerAtRc
<1>4. WorkType' /\ WorkerPlace'
  BY <1>2, WorkerGoes
<1> QED BY <1>2, <1>4

(* The outcomes of conn_emit. *)
EmitNothing == worker.n = 0 /\ worker' = [worker EXCEPT !.at = AfterEmit]
               /\ UNCHANGED <<peer, conn>>
EmitHeld ==
  /\ worker.n = 1 /\ C.kind = "buffered"
  /\ Fills(Mine) /\ conn'[Mine].samples = C.samples + 1
  /\ conn'[Mine].acc = C.acc \o <<Piece(worker.of)>> /\ conn'[Mine].hdr = C.hdr
  /\ worker' = [worker EXCEPT !.at = AfterEmit] /\ UNCHANGED peer
EmitFull ==
  /\ worker.n = 1 /\ C.kind = "buffered" /\ UNCHANGED conn
  /\ peer' \in WrittenOrLost(C.fd, <<Simple(500)>>)
  /\ worker' = [worker EXCEPT !.at = "flag", !.rc = 1]
EmitSent ==
  /\ worker.n = 1 /\ C.kind # "buffered"
  /\ peer' = Written(C.fd, Header \o <<Piece(worker.of)>>)
  /\ Fills(Mine) /\ conn'[Mine].samples = C.samples + 1
  /\ conn'[Mine].acc = C.acc /\ conn'[Mine].hdr = (C.kind = "wav")
  /\ worker' = [worker EXCEPT !.at = AfterEmit]
EmitFails ==
  /\ worker.n = 1 /\ C.kind # "buffered" /\ UNCHANGED peer
  /\ Fills(Mine) /\ conn'[Mine].samples = C.samples /\ conn'[Mine].acc = C.acc
  /\ conn'[Mine].hdr \in {C.hdr, C.kind = "wav"}
  /\ worker' = [worker EXCEPT !.at = "return", !.rc = 1]

LEMMA EmitCases ==
  ASSUME Places, Emit
  PROVE  /\ worker.at = "emit" /\ UNCHANGED <<pfds, revents, req, loop>>
         /\ EmitNothing \/ EmitHeld \/ EmitFull \/ EmitSent \/ EmitFails
<1> USE DEF Places, TypeOK
<1>1. worker.at = "emit" /\ UNCHANGED <<pfds, revents, req, loop>>
  BY DEF Emit
<1>2. /\ worker.of \in Client /\ Mine \in Slot /\ C = conn[Mine]
      /\ conn \in [Slot -> ConnRec] /\ conn[Mine] \in ConnRec
  BY <1>1, CalledFacts
<1>3. worker.n = 1 => conn[Mine].samples < Cap
  BY <1>1 DEF WorkerPlace, Mine
<1>4. CASE /\ worker.n = 1 /\ C.kind = "buffered"
           /\ conn' = [conn EXCEPT ![Mine].acc = @ \o <<Piece(worker.of)>>,
                                   ![Mine].samples = @ + 1]
           /\ worker' = [worker EXCEPT !.at = AfterEmit]
           /\ UNCHANGED peer
  <2> DEFINE i == Mine
             a == conn[Mine].acc \o <<Piece(worker.of)>>
  <2>1. a \in Seq(Token)
    <3>1. <<Piece(worker.of)>> \in Seq(Token)
      BY <1>2, TokensAreTokens
    <3> DEFINE one == <<Piece(worker.of)>>
    <3> HIDE DEF one
    <3>2. conn[Mine].acc \in Seq(Token) /\ one \in Seq(Token)
      BY <1>2, <3>1 DEF ConnRec, one
    <3>3. conn[Mine].acc \o one \in Seq(Token)
      BY <3>2
    <3> QED BY <3>3 DEF one
  <2>2. StoresHeld(i, a)
    BY <1>4 DEF StoresHeld
  <2>3. i \in Slot /\ conn[i].samples < Cap /\ i = Mine
    BY <1>2, <1>3, <1>4
  <2>4. a = C.acc \o <<Piece(worker.of)>>
    BY <1>2
  <2> HIDE DEF a, i
  <2>5. /\ Fills(i) /\ conn'[i].samples = conn[i].samples + 1
        /\ conn'[i].acc = a /\ conn'[i].hdr = conn[i].hdr
    BY <1>2, <2>1, <2>2, <2>3, FillsHeld
  <2>6. EmitHeld
    BY <1>2, <1>4, <2>3, <2>4, <2>5 DEF EmitHeld
  <2> QED BY <1>1, <2>6
<1>5. CASE /\ worker.n = 1 /\ C.kind # "buffered"
           /\ peer' = Written(C.fd, Header \o <<Piece(worker.of)>>)
           /\ conn' = [conn EXCEPT ![Mine].hdr = (C.kind = "wav"), ![Mine].samples = @ + 1]
           /\ worker' = [worker EXCEPT !.at = AfterEmit]
  <2> DEFINE i == Mine
             b == C.kind = "wav"
  <2>2. StoresSent(i, b)
    BY <1>5 DEF StoresSent
  <2>3. b \in BOOLEAN /\ i \in Slot /\ conn[i].samples < Cap /\ i = Mine
    BY <1>2, <1>3, <1>5
  <2>4. b = (C.kind = "wav")
    OBVIOUS
  <2> HIDE DEF b, i
  <2>5. /\ Fills(i) /\ conn'[i].samples = conn[i].samples + 1
        /\ conn'[i].hdr = b /\ conn'[i].acc = conn[i].acc
    BY <1>2, <2>2, <2>3, FillsSent
  <2>6. EmitSent
    BY <1>2, <1>5, <2>3, <2>4, <2>5 DEF EmitSent
  <2> QED BY <1>1, <2>6
<1>6. CASE /\ worker.n = 1 /\ C.kind # "buffered" /\ UNCHANGED peer
           /\ conn' \in {conn, [conn EXCEPT ![Mine].hdr = (C.kind = "wav")]}
           /\ worker' = [worker EXCEPT !.at = "return", !.rc = 1]
  <2>1. CASE conn' = conn
    <3>1. Fills(Mine)
      BY <1>2, <2>1, FillsNothing
    <3>2. EmitFails
      BY <1>2, <1>6, <2>1, <3>1 DEF EmitFails
    <3> QED BY <1>1, <3>2
  <2>2. CASE conn' = [conn EXCEPT ![Mine].hdr = (C.kind = "wav")]
    <3> DEFINE i == Mine
               b == C.kind = "wav"
    <3>2. conn' = [conn EXCEPT ![i].hdr = b]
      BY <2>2
    <3>3. b \in BOOLEAN /\ i \in Slot /\ i = Mine
      BY <1>2
    <3>4. b = (C.kind = "wav")
      OBVIOUS
    <3> HIDE DEF b, i
    <3>5. /\ Fills(i) /\ conn'[i].hdr = b
          /\ conn'[i].acc = conn[i].acc /\ conn'[i].samples = conn[i].samples
      BY <1>2, <3>2, <3>3, FillsHdr
    <3>6. EmitFails
      BY <1>2, <1>6, <3>3, <3>4, <3>5 DEF EmitFails
    <3> QED BY <1>1, <3>6
  <2> QED BY <1>6, <2>1, <2>2
<1>7. CASE EmitNothing
  BY <1>1, <1>7
<1>8. CASE EmitFull
  BY <1>1, <1>8
<1> QED
  <2>1. \/ worker.n = 0 /\ worker' = [worker EXCEPT !.at = AfterEmit]
           /\ UNCHANGED <<peer, conn>>
        \/ /\ worker.n = 1 /\ C.kind = "buffered"
           /\ conn' = [conn EXCEPT ![Mine].acc = @ \o <<Piece(worker.of)>>,
                                   ![Mine].samples = @ + 1]
           /\ worker' = [worker EXCEPT !.at = AfterEmit]
           /\ UNCHANGED peer
        \/ /\ worker.n = 1 /\ C.kind = "buffered"
           /\ peer' \in WrittenOrLost(C.fd, <<Simple(500)>>)
           /\ worker' = [worker EXCEPT !.at = "flag", !.rc = 1]
           /\ UNCHANGED conn
        \/ /\ worker.n = 1 /\ C.kind # "buffered"
           /\ peer' = Written(C.fd, Header \o <<Piece(worker.of)>>)
           /\ conn' = [conn EXCEPT ![Mine].hdr = (C.kind = "wav"), ![Mine].samples = @ + 1]
           /\ worker' = [worker EXCEPT !.at = AfterEmit]
        \/ /\ worker.n = 1 /\ C.kind # "buffered" /\ UNCHANGED peer
           /\ conn' \in {conn, [conn EXCEPT ![Mine].hdr = (C.kind = "wav")]}
           /\ worker' = [worker EXCEPT !.at = "return", !.rc = 1]
    BY Zenon DEF Emit
  <2> QED BY <2>1, <1>4, <1>5, <1>6, <1>7, <1>8 DEF EmitNothing, EmitFull

LEMMA FillsStep ==
  ASSUME Places, worker.at \in {"emit", "close", "flag"}, Mine \in Slot, OnlyWrote(peer'),
         Fills(Mine), UNCHANGED <<pfds, revents, req, loop>>, WorkType', WorkerPlace'
  PROVE  Places'
<1>1. \A i \in Slot : conn'[i].fd = conn[i].fd /\ conn'[i].st = conn[i].st
  BY DEF Fills
<1>2. conn' \in [Slot -> ConnRec]
  BY DEF Fills
<1> QED BY <1>1, <1>2, CallStep

LEMMA EmitPlaces == Places /\ Emit => Places'
<1> SUFFICES ASSUME Places, Emit PROVE Places'
  OBVIOUS
<1>1. /\ worker.at = "emit" /\ UNCHANGED <<pfds, revents, req, loop>>
      /\ EmitNothing \/ EmitHeld \/ EmitFull \/ EmitSent \/ EmitFails
  BY EmitCases
<1>2. worker.of \in Client /\ Mine \in Slot /\ conn \in [Slot -> ConnRec] /\ PeerType
  BY <1>1, CalledFacts DEF Places, TypeOK
<1>3. Fills(Mine)
  <2>1. UNCHANGED conn => Fills(Mine)
    BY <1>2, FillsNothing
  <2> QED BY <1>1, <2>1 DEF EmitNothing, EmitHeld, EmitFull, EmitSent, EmitFails
<1>4. OnlyWrote(peer')
  <2>1. CASE UNCHANGED peer
    BY <1>2, <2>1, SameOnlyWrote
  <2>2. CASE EmitFull
    <3> DEFINE t == <<Simple(500)>>
    <3>1. t \in Seq(Token) /\ peer' \in WrittenOrLost(C.fd, t)
      BY <2>2, TokensAreTokens DEF EmitFull
    <3> HIDE DEF t
    <3> QED BY <1>2, <3>1, WroteOrLost
  <2>3. CASE EmitSent
    <3> DEFINE t == Header \o <<Piece(worker.of)>>
               one == <<Piece(worker.of)>>
    <3>1. one \in Seq(Token) /\ Header \in Seq(Token)
      BY <1>2, TokensAreTokens, HeaderToken
    <3>2. t = Header \o one
      OBVIOUS
    <3>3. peer' = Written(C.fd, t)
      BY <2>3 DEF EmitSent
    <3> HIDE DEF t, one
    <3>4. t \in Seq(Token)
      BY <3>1, <3>2
    <3> QED BY <1>2, <3>3, <3>4, WrittenOnlyWrote
  <2> QED BY <1>1, <2>1, <2>2, <2>3 DEF EmitNothing, EmitHeld, EmitFails
<1>5. WorkType' /\ WorkerPlace'
  <2>1. CASE worker' = [worker EXCEPT !.at = AfterEmit]
    BY <1>1, <2>1, AfterEmitGoes
  <2>2. CASE worker' = [worker EXCEPT !.at = "flag", !.rc = 1]
    BY <1>1, <2>2, FailedGoes
  <2>3. CASE worker' = [worker EXCEPT !.at = "return", !.rc = 1]
    BY <1>1, <2>3, FailedGoes
  <2> QED BY <1>1, <2>1, <2>2, <2>3 DEF EmitNothing, EmitHeld, EmitFull, EmitSent, EmitFails
<1> QED BY <1>1, <1>2, <1>3, <1>4, <1>5, FillsStep

LEMMA CloseFacts ==
  ASSUME Places, Close
  PROVE  /\ worker.at = "close" /\ UNCHANGED <<pfds, revents, req, loop>>
         /\ worker' = [worker EXCEPT !.at = "flag"]
         /\ Fills(Mine) /\ conn'[Mine].acc = C.acc /\ conn'[Mine].samples = C.samples
         /\ \/ /\ C.kind = "buffered" /\ UNCHANGED conn
               /\ <<Length(Len(C.acc))>> \o C.acc \in Seq(Token)
               /\ peer' \in WrittenOrLost(C.fd, <<Length(Len(C.acc))>> \o C.acc)
            \/ /\ C.kind # "buffered" /\ conn'[Mine].hdr = (C.kind = "wav")
               /\ Header \o <<EndChunk>> \in Seq(Token)
               /\ peer' \in WrittenOrLost(C.fd, Header \o <<EndChunk>>)
<1>1. worker.at = "close" /\ UNCHANGED <<pfds, revents, req, loop>>
      /\ worker' = [worker EXCEPT !.at = "flag"]
  BY DEF Close
<1>2. /\ worker.of \in Client /\ Mine \in Slot /\ C = conn[Mine]
      /\ conn \in [Slot -> ConnRec] /\ conn[Mine] \in ConnRec
  BY <1>1, CalledFacts
<1>3. CASE /\ C.kind = "buffered" /\ UNCHANGED conn
           /\ peer' \in WrittenOrLost(C.fd, <<Length(Len(C.acc))>> \o C.acc)
  <2>1. Fills(Mine)
    BY <1>2, <1>3, FillsNothing
  <2>2. <<Length(Len(C.acc))>> \o C.acc \in Seq(Token)
    <3> DEFINE one == <<Length(Len(C.acc))>>
    <3>1. C.acc \in Seq(Token) /\ Len(C.acc) \in Nat
      BY <1>2 DEF ConnRec
    <3>2. one \in Seq(Token)
      BY <3>1, TokensAreTokens
    <3> HIDE DEF one
    <3>3. one \o C.acc \in Seq(Token)
      BY <3>1, <3>2
    <3> QED BY <3>3 DEF one
  <2> QED BY <1>1, <1>2, <1>3, <2>1, <2>2
<1>4. CASE /\ C.kind # "buffered"
           /\ peer' \in WrittenOrLost(C.fd, Header \o <<EndChunk>>)
           /\ conn' = [conn EXCEPT ![Mine].hdr = (C.kind = "wav")]
  <2> DEFINE i == Mine
             b == C.kind = "wav"
  <2>2. conn' = [conn EXCEPT ![i].hdr = b]
    BY <1>4
  <2>3. b \in BOOLEAN /\ i \in Slot /\ i = Mine
    BY <1>2
  <2>4. b = (C.kind = "wav")
    OBVIOUS
  <2> HIDE DEF b, i
  <2>5. /\ Fills(i) /\ conn'[i].hdr = b
        /\ conn'[i].acc = conn[i].acc /\ conn'[i].samples = conn[i].samples
    BY <1>2, <2>2, <2>3, FillsHdr
  <2>6. Header \o <<EndChunk>> \in Seq(Token)
    <3> DEFINE one == <<EndChunk>>
    <3>1. one \in Seq(Token) /\ Header \in Seq(Token)
      BY TokensAreTokens, HeaderToken
    <3> HIDE DEF one
    <3>2. Header \o one \in Seq(Token)
      BY <3>1
    <3> QED BY <3>2 DEF one
  <2> QED BY <1>1, <1>2, <1>4, <2>3, <2>4, <2>5, <2>6
<1> QED BY <1>3, <1>4 DEF Close

LEMMA ClosePlaces == Places /\ Close => Places'
<1> SUFFICES ASSUME Places, Close PROVE Places'
  OBVIOUS
<1>1. /\ worker.at = "close" /\ UNCHANGED <<pfds, revents, req, loop>>
      /\ worker' = [worker EXCEPT !.at = "flag"] /\ Fills(Mine)
  BY CloseFacts
<1>2. worker.of \in Client /\ Mine \in Slot /\ PeerType /\ WorkType
  BY <1>1, CalledFacts DEF Places, TypeOK
<1>3. PICK t \in Seq(Token) : peer' \in WrittenOrLost(C.fd, t)
  BY CloseFacts
<1>4. OnlyWrote(peer')
  BY <1>2, <1>3, WroteOrLost
<1>5. /\ worker'.at = "flag" /\ worker'.of = worker.of /\ worker'.n = worker.n
      /\ worker'.final = worker.final /\ worker'.cut = worker.cut /\ worker'.rc = worker.rc
      /\ worker' \in [at : {"idle", "start", "emit", "close", "flag", "return"},
                      of : Client \cup {NoClient}, n : {0, 1}, final : BOOLEAN,
                      cut : BOOLEAN, rc : {0, 1}]
  BY <1>1, <1>2, WorkerAt
<1>6. worker.rc = 0 /\ Closes
  BY <1>1 DEF Places, WorkerPlace
<1>7. WorkType' /\ WorkerPlace'
  BY <1>1, <1>5, <1>6, WorkerGoes
<1> QED BY <1>1, <1>2, <1>4, <1>7, FillsStep

LEMMA FlagFacts ==
  ASSUME Places, Flag
  PROVE  /\ worker.at = "flag" /\ UNCHANGED <<peer, pfds, revents, req, loop>>
         /\ conn' \in [Slot -> ConnRec] /\ \A j \in Slot : j # Mine => conn'[j] = conn[j]
         /\ conn'[Mine].st = C.st /\ conn'[Mine].fd = C.fd /\ conn'[Mine].fin
         /\ conn'[Mine].hdr = C.hdr /\ conn'[Mine].acc = C.acc /\ conn'[Mine].got = C.got
         /\ conn'[Mine].of = C.of /\ conn'[Mine].kind = C.kind
         /\ conn'[Mine].samples = C.samples
<1>1. worker.at = "flag" /\ UNCHANGED <<peer, pfds, revents, req, loop>>
      /\ conn' = [conn EXCEPT ![Mine].fin = TRUE]
  BY DEF Flag
<1>2. /\ worker.of \in Client /\ Mine \in Slot /\ C = conn[Mine]
      /\ conn \in [Slot -> ConnRec] /\ conn[Mine] \in ConnRec
  BY <1>1, CalledFacts
<1> DEFINE i == Mine
<1>3. i \in Slot /\ i = Mine /\ C = conn[i] /\ conn' = [conn EXCEPT ![i].fin = TRUE]
  BY <1>1, <1>2
<1> HIDE DEF i
<1>4. [conn EXCEPT ![i].fin = TRUE] \in [Slot -> ConnRec]
  BY <1>2, <1>3 DEF ConnRec
<1>5. conn' \in [Slot -> ConnRec]
  BY <1>3, <1>4
<1>6. \A j \in Slot : j # i => conn'[j] = conn[j]
  BY <1>2, <1>3 DEF ConnRec
<1>7. /\ conn'[i].st = C.st /\ conn'[i].fd = C.fd /\ conn'[i].fin
      /\ conn'[i].hdr = C.hdr /\ conn'[i].acc = C.acc /\ conn'[i].got = C.got
      /\ conn'[i].of = C.of /\ conn'[i].kind = C.kind /\ conn'[i].samples = C.samples
  BY <1>2, <1>3 DEF ConnRec
<1> QED BY <1>1, <1>3, <1>5, <1>6, <1>7

LEMMA FlagPlaces == Places /\ Flag => Places'
<1> SUFFICES ASSUME Places, Flag PROVE Places'
  OBVIOUS
<1>1. /\ worker.at = "flag" /\ UNCHANGED <<peer, pfds, revents, req, loop>>
      /\ conn' \in [Slot -> ConnRec]
  BY FlagFacts
<1>2. Mine \in Slot /\ C = conn[Mine]
  BY <1>1, CalledFacts
<1>3. \A j \in Slot : conn'[j].st = conn[j].st /\ conn'[j].fd = conn[j].fd
  BY <1>2, FlagFacts
<1>4. worker' = [worker EXCEPT !.at = "return"]
  BY DEF Flag
<1>5. /\ worker'.at = "return" /\ worker'.of = worker.of /\ worker'.n = worker.n
      /\ worker'.final = worker.final /\ worker'.cut = worker.cut /\ worker'.rc = worker.rc
      /\ worker' \in [at : {"idle", "start", "emit", "close", "flag", "return"},
                      of : Client \cup {NoClient}, n : {0, 1}, final : BOOLEAN,
                      cut : BOOLEAN, rc : {0, 1}]
  BY <1>4, WorkerAt DEF Places, TypeOK
<1>6. worker.rc \in {0, 1}
  BY DEF Places, TypeOK, WorkType
<1>7. WorkType' /\ WorkerPlace'
  BY <1>1, <1>5, <1>6, WorkerGoes
<1>8. OnlyWrote(peer')
  BY <1>1, SameOnlyWrote DEF Places, TypeOK
<1> QED BY <1>1, <1>3, <1>7, <1>8, CallStep

LEMMA ReturnPlaces == Places /\ Return => Places'
<1> SUFFICES ASSUME Places, Return PROVE Places'
  OBVIOUS
<1> USE DEF Places, TypeOK
<1> DEFINE c == worker.of
<1>1. /\ worker.at = "return" /\ worker' = Idle /\ UNCHANGED <<peer, conn, pfds, revents, loop>>
      /\ req' = Over(c) \/ req' = req
  BY DEF Return
<1>2. c \in Client /\ req[c].st = "active"
  BY <1>1, CalledFacts
<1> HIDE DEF c
<1>3. /\ Over(c) \in [Client -> ReqRec]
      /\ Over(c)[c].slot = req[c].slot /\ Over(c)[c].take = req[c].take
      /\ Over(c)[c].st = "over" /\ \A d \in Client : d # c => Over(c)[d] = req[d]
  <2>1. req \in [Client -> ReqRec]
    BY DEF WorkType, ReqRec
  <2>2. Over(c)[c] = [st |-> "over", slot |-> req[c].slot, take |-> req[c].take, made |-> 0]
    BY <1>2, <2>1 DEF Over, ReqRec
  <2>3. \A d \in Client : d # c => Over(c)[d] = req[d]
    BY <2>1 DEF Over, ReqRec
  <2>4. Over(c)[c] \in ReqRec
    BY <1>2, <2>1, <2>2 DEF ReqRec
  <2>5. Over(c) = [d \in Client |-> Over(c)[d]]
    BY <2>1 DEF Over, ReqRec
  <2>6. \A d \in Client : Over(c)[d] \in ReqRec
    BY <2>1, <2>3, <2>4
  <2> QED BY <2>2, <2>3, <2>5, <2>6
<1>4. WorkType'
  <2>1. req' \in [Client -> ReqRec]
    BY <1>1, <1>3 DEF WorkType, ReqRec
  <2> QED BY <1>1, <2>1 DEF WorkType, ReqRec, Idle
<1>5. \A d \in Client : req'[d].slot = req[d].slot /\ req'[d].take = req[d].take
                         /\ (req'[d].st = "none" <=> req[d].st = "none")
                         /\ (req'[d].st = "starting" => req[d].st = "starting")
  BY <1>1, <1>2, <1>3
<1>6. WorkerPlace'
  BY <1>1, <1>5 DEF WorkerPlace, Idle
<1> QED BY <1>1, <1>4, <1>5, <1>6, ReqStep

LEMMA NextPlaces == Places /\ [Next]_vars => Places'
<1> SUFFICES ASSUME Places, [Next]_vars PROVE Places'
  OBVIOUS
<1>1. CASE PollLoop
  BY <1>1, BuildPlaces, PollAcceptPlaces, NextTurnPlaces, ServeNonePlaces, ServeIdlePlaces,
     ServeStreamingPlaces, ReadPlaces, RouteHeadPlaces, RouteSubmitPlaces,
     RouteSubmittedPlaces, RouteRefusedPlaces, ShutdownPlaces, ExitPlaces DEF PollLoop
<1>2. CASE WorkerStep
  BY <1>2, PopPlaces, StartedPlaces, DeliverPlaces, EmitPlaces, ClosePlaces, FlagPlaces,
     ReturnPlaces DEF WorkerStep
<1>3. CASE Environment
  BY <1>3, ClientPlaces DEF Environment
<1>4. CASE UNCHANGED vars
  <2>1. UNCHANGED <<peer, conn, pfds, revents, req, worker, loop>>
    BY <1>4 DEF vars
  <2>2. LoopType' /\ LoopPlace'
    BY <2>1, SameLoop DEF Places, TypeOK, LoopType
  <2>3. \A i \in Slot : Reading(i)' => Reading(i)
    BY <2>1 DEF Reading
  <2> QED BY <2>1, <2>2, <2>3, LoopStep
<1> QED BY <1>1, <1>2, <1>3, <1>4 DEF Next

(* Whatever the faults, cancels that miss their request included: every     *)
(* connection in use has a descriptor of its own, held by a client who is   *)
(* connected, a free slot has none, and a request is made once.             *)
THEOREM PlacesKept == Spec => []Places
<1>1. Init => Places
  BY InitPlaces
<1>2. Places /\ [Next]_vars => Places'
  BY NextPlaces
<1> QED BY <1>1, <1>2, PTL DEF Spec

(* The variables have their types; the descriptors of the table are distinct. *)
THEOREM TypeCorrect == Spec => []TypeOK
<1>1. Places => TypeOK
  BY DEF Places
<1> QED BY <1>1, PlacesKept, PTL

-----------------------------------------------------------------------------
(* Whose connection it is, with cancels that meet their request.            *)

(* No cancel comes while start_request holds its request. *)
NoWindow == "window" \notin Faults

(* The parts of Owns, for one slot, one client, and the wires.              *)
SlotOwn(i) ==
  /\ conn[i].st = "free" => conn[i] = FreeConn
  /\ \A c \in Holder(conn[i].fd) : req[c].st = "none" =>
       ~conn[i].fin /\ ~conn[i].hdr /\ conn[i].acc = <<>> /\ conn[i].samples = 0
  /\ conn[i].st = "streaming" => Holder(conn[i].fd) = {conn[i].of}
  /\ \A d \in Client : Piece(d) \in Range(conn[i].acc) => Holder(conn[i].fd) = {d}

CallOwn(c) ==
  MayTouch(c) =>
    /\ conn[req[c].slot].st \in {"routing", "streaming"}
    /\ Holder(conn[req[c].slot].fd) = {c} /\ ~conn[req[c].slot].fin

WiresOwn(p) == \A c, d \in Client : Piece(d) \in Range(p[c].wire) => c = d

LEMMA OwnsParts ==
  Owns <=> /\ \A i \in Slot : SlotOwn(i)
           /\ \A c \in Client : CallOwn(c)
           /\ WiresOwn(peer)
BY DEF Owns, OwnsItsConnection, Blank, Waited, HeldIsOwn, SlotOwn, CallOwn, WiresOwn

LEMMA OwnsPartsNext ==
  ASSUME \A i \in Slot : SlotOwn(i)', \A c \in Client : CallOwn(c)', WiresOwn(peer')
  PROVE  Owns'
BY DEF Owns, OwnsItsConnection, Blank, Waited, HeldIsOwn, SlotOwn, CallOwn, WiresOwn

(* A step that shrinks what the worker may touch. *)
Fewer == \A c \in Client :
  /\ MayTouch(c)' => MayTouch(c) /\ req'[c].slot = req[c].slot
  /\ req'[c].st = "none" => req[c].st = "none"

LEMMA TouchSame == UNCHANGED <<req, worker>> => Fewer
BY DEF Fewer, MayTouch, Ends

LEMMA TouchedSlot ==
  ASSUME Asked, NEW c \in Client, MayTouch(c)
  PROVE  req[c].slot \in Slot /\ req[c].st # "none"
BY DEF Asked, MayTouch

LEMMA NoOneHolds == Table => Holder(NoFd) = {}
BY DEF Table, Holder

LEMMA SlotSame ==
  ASSUME Fewer, NEW i \in Slot, SlotOwn(i), Holder(conn[i].fd)' = Holder(conn[i].fd),
         /\ conn'[i].st = conn[i].st /\ conn'[i].fd = conn[i].fd /\ conn'[i].fin = conn[i].fin
         /\ conn'[i].hdr = conn[i].hdr /\ conn'[i].acc = conn[i].acc
         /\ conn'[i].of = conn[i].of /\ conn'[i].samples = conn[i].samples,
         conn[i].st = "free" => conn'[i] = conn[i]
  PROVE  SlotOwn(i)'
<1>1. conn'[i].st = "free" => conn'[i] = FreeConn
  BY DEF SlotOwn
<1>2. ASSUME NEW c \in Holder(conn[i].fd)', req'[c].st = "none"
      PROVE  ~conn'[i].fin /\ ~conn'[i].hdr /\ conn'[i].acc = <<>> /\ conn'[i].samples = 0
  <2>1. c \in Holder(conn[i].fd) /\ c \in Client
    BY <1>2 DEF Holder
  <2>2. req[c].st = "none"
    BY <1>2, <2>1 DEF Fewer
  <2> QED BY <2>1, <2>2 DEF SlotOwn
<1>3. conn'[i].st = "streaming" => Holder(conn[i].fd)' = {conn'[i].of}
  BY DEF SlotOwn
<1>4. \A d \in Client : Piece(d) \in Range(conn'[i].acc) => Holder(conn[i].fd)' = {d}
  BY DEF SlotOwn
<1> QED BY <1>1, <1>2, <1>3, <1>4 DEF SlotOwn

LEMMA SlotFresh ==
  ASSUME NEW i \in Slot, NEW st \in {"free", "head"}, NEW fd, conn'[i] = ConnAt(st, fd),
         st = "free" => fd = NoFd
  PROVE  SlotOwn(i)'
<1>1. /\ conn'[i].st = st /\ ~conn'[i].fin /\ ~conn'[i].hdr /\ conn'[i].acc = <<>>
      /\ conn'[i].samples = 0
  BY DEF ConnAt
<1>2. Range(conn'[i].acc) = {}
  BY <1>1 DEF Range
<1>3. st = "free" => conn'[i] = FreeConn
  BY DEF FreeConn
<1> QED BY <1>1, <1>2, <1>3 DEF SlotOwn

LEMMA CallSame ==
  ASSUME Fewer, Asked, NEW c \in Client, CallOwn(c),
         \A i \in Slot : i = req[c].slot /\ MayTouch(c)' =>
           /\ conn'[i].st = conn[i].st \/ conn'[i].st \in {"routing", "streaming"}
           /\ conn'[i].fd = conn[i].fd
           /\ conn'[i].fin = conn[i].fin /\ Holder(conn[i].fd)' = Holder(conn[i].fd)
  PROVE  CallOwn(c)'
<1> SUFFICES ASSUME MayTouch(c)'
             PROVE  /\ conn'[req'[c].slot].st \in {"routing", "streaming"}
                    /\ Holder(conn[req[c].slot].fd)' = {c} /\ ~conn'[req'[c].slot].fin
  BY DEF CallOwn
<1>1. MayTouch(c) /\ req'[c].slot = req[c].slot
  BY DEF Fewer
<1>2. req[c].slot \in Slot
  BY <1>1, TouchedSlot
<1>3. /\ conn'[req[c].slot].st \in {"routing", "streaming"}
      /\ Holder(conn[req[c].slot].fd)' = {c} /\ ~conn'[req[c].slot].fin
  BY <1>1, <1>2 DEF CallOwn
<1> QED BY <1>1, <1>3

(* What a write leaves on the wires. *)
LEMMA InConcat ==
  ASSUME NEW S, NEW s \in Seq(S), NEW t \in Seq(S), NEW x \in Range(s \o t)
  PROVE  x \in Range(s) \/ x \in Range(t)
<1>1. PICK k \in DOMAIN (s \o t) : x = (s \o t)[k]
  BY DEF Range
<1>2. k \in 1 .. Len(s) + Len(t)
  BY <1>1
<1>3. CASE k <= Len(s)
  <2>1. k \in DOMAIN s /\ x = s[k]
    BY <1>1, <1>2, <1>3
  <2> QED BY <2>1 DEF Range
<1>4. CASE k > Len(s)
  <2>1. k - Len(s) \in DOMAIN t /\ x = t[k - Len(s)]
    BY <1>1, <1>2, <1>4
  <2> QED BY <2>1 DEF Range
<1> QED BY <1>2, <1>3, <1>4

(* The audio in tokens is that of the holders. *)
OwnPieces(fd, t) == \A d \in Client : Piece(d) \in Range(t) => Holder(fd) = {d}

LEMMA WrittenOwn ==
  ASSUME PeerType, WiresOwn(peer), NEW fd, NEW t \in Seq(Token), OwnPieces(fd, t),
         NEW p, p = Written(fd, t) \/ p = peer
  PROVE  WiresOwn(p)
<1>1. CASE p = peer
  BY <1>1
<1>2. CASE p = Written(fd, t)
  <2>1. ASSUME NEW c \in Client, NEW d \in Client, Piece(d) \in Range(p[c].wire)
        PROVE  c = d
    <3>1. CASE c \in Holder(fd)
      <4>1. p[c].wire = peer[c].wire \o t /\ peer[c].wire \in Seq(Token)
        BY <1>2, <3>1 DEF Written, PeerType
      <4>2. Piece(d) \in Range(peer[c].wire) \/ Piece(d) \in Range(t)
        BY <2>1, <4>1, InConcat
      <4> QED BY <3>1, <4>2 DEF WiresOwn, OwnPieces
    <3>2. CASE c \notin Holder(fd)
      BY <1>2, <2>1, <3>2 DEF Written, WiresOwn
    <3> QED BY <3>1, <3>2
  <2> QED BY <2>1 DEF WiresOwn
<1> QED BY <1>1, <1>2

LEMMA SilentTokens ==
  ASSUME NEW t \in {<<>>, <<Continue>>, <<Head200>>, <<WavHdr>>, <<EndChunk>>}
                     \cup {<<Simple(n)>> : n \in Nat} \cup {<<Length(n)>> : n \in Nat},
         NEW d
  PROVE  t \in Seq(Token) /\ Piece(d) \notin Range(t)
<1>1. t \in Seq(Token)
  BY TokensAreTokens
<1>2. Piece(d) \notin {Continue, Head200, WavHdr, EndChunk} \cup {Simple(n) : n \in Nat}
                       \cup {Length(n) : n \in Nat}
  BY DEF Piece, Continue, Head200, WavHdr, EndChunk, Simple, Length
<1>3. Range(t) \subseteq {Continue, Head200, WavHdr, EndChunk} \cup {Simple(n) : n \in Nat}
                          \cup {Length(n) : n \in Nat}
  BY DEF Range
<1> QED BY <1>1, <1>2, <1>3

(* The other connections when slot i is reset.                              *)
LEMMA OthersKept ==
  ASSUME Places, NEW i \in Slot, NEW p, Drops(i, p), NEW j \in Slot, j # i
  PROVE  conn'[j] = conn[j] /\ Holder(conn[j].fd)' = Holder(conn[j].fd)
<1> USE DEF Places, TypeOK
<1>1. conn'[j] = conn[j] /\ conn'[i].fd = NoFd
  BY FreedConn DEF Drops
<1>2. ASSUME NEW fd, fd = conn[i].fd
      PROVE  Holder(fd)' = {} /\ \A g : g # fd => Holder(g)' = Holder(g)
  BY <1>2, ClosedPeer DEF Drops
<1>3. ASSUME NEW g, g = conn[j].fd PROVE Holder(g)' = Holder(g)
  <2>1. PICK fd : fd = conn[i].fd
    OBVIOUS
  <2>2. CASE g # fd
    BY <1>2, <2>1, <2>2
  <2>3. CASE g = fd
    <3>1. g = NoFd
      BY <1>3, <2>1, <2>3 DEF ConnType
    <3>2. Holder(NoFd) = {}
      BY NoOneHolds
    <3> QED BY <1>2, <2>1, <2>3, <3>1, <3>2
  <2> QED BY <2>2, <2>3
<1>4. PICK g : g = conn[j].fd
  OBVIOUS
<1>5. conn'[j].fd = g
  BY <1>1, <1>4
<1>6. Holder(conn[j].fd)' = Holder(conn[j].fd)
  <2>1. Holder(g)' = Holder(g)
    BY <1>3, <1>4
  <2> QED BY <1>4, <1>5, <2>1
<1> QED BY <1>1, <1>6

(* A connection is reset that no callback may touch any more. *)
LEMMA DropsOwns ==
  ASSUME Places, Owns, Fewer, NEW i \in Slot, NEW p, Drops(i, p), WiresOwn(p),
         \A c \in Client : MayTouch(c)' => req[c].slot # i
  PROVE  Owns'
<1> USE DEF Places, TypeOK
<1>0. /\ \A j \in Slot : SlotOwn(j)
      /\ \A c \in Client : CallOwn(c)
      /\ WiresOwn(peer)
  BY OwnsParts
<1>1. ASSUME NEW j \in Slot PROVE SlotOwn(j)'
  <2>1. CASE j = i
    <3>1. conn'[i] = ConnAt("free", NoFd)
      BY DEF Drops, ConnType, FreeConn
    <3> QED BY <2>1, <3>1, SlotFresh
  <2>2. CASE j # i
    <3>1. conn'[j] = conn[j] /\ Holder(conn[j].fd)' = Holder(conn[j].fd)
      BY <2>2, OthersKept
    <3> QED BY <1>0, <3>1, SlotSame
  <2> QED BY <2>1, <2>2
<1>2. ASSUME NEW c \in Client PROVE CallOwn(c)'
  <2>1. ASSUME NEW j \in Slot, j = req[c].slot, MayTouch(c)'
        PROVE  /\ conn'[j].st = conn[j].st /\ conn'[j].fd = conn[j].fd
               /\ conn'[j].fin = conn[j].fin /\ Holder(conn[j].fd)' = Holder(conn[j].fd)
    BY <2>1, OthersKept
  <2> QED BY <1>0, <2>1, CallSame
<1>3. WiresOwn(peer')
  <2>1. \A c \in Client : peer'[c].wire = p[c].wire
    BY ClosedPeer DEF Drops
  <2> QED BY <2>1 DEF WiresOwn
<1> QED BY <1>1, <1>2, <1>3, OwnsPartsNext

(* A step that leaves the connections as they are, but for what Owns does   *)
(* not see.                                                                 *)
LEMMA KeepOwns ==
  ASSUME Places, Owns, Fewer, WiresOwn(peer'),
         \A g : Holder(g)' = Holder(g),
         \A i \in Slot :
           /\ conn'[i].st = conn[i].st /\ conn'[i].fd = conn[i].fd /\ conn'[i].fin = conn[i].fin
           /\ conn'[i].hdr = conn[i].hdr /\ conn'[i].acc = conn[i].acc
           /\ conn'[i].of = conn[i].of /\ conn'[i].samples = conn[i].samples
           /\ conn[i].st = "free" => conn'[i] = conn[i]
  PROVE  Owns'
<1> USE DEF Places, TypeOK
<1>0. /\ \A j \in Slot : SlotOwn(j)
      /\ \A c \in Client : CallOwn(c)
  BY OwnsParts
<1>3. ASSUME NEW i \in Slot PROVE Holder(conn[i].fd)' = Holder(conn[i].fd)
  <2>1. conn'[i].fd = conn[i].fd
    OBVIOUS
  <2> QED BY <2>1
<1>1. ASSUME NEW j \in Slot PROVE SlotOwn(j)'
  BY <1>0, <1>3, SlotSame
<1>2. ASSUME NEW c \in Client PROVE CallOwn(c)'
  BY <1>0, <1>3, CallSame
<1> QED BY <1>1, <1>2, OwnsPartsNext

LEMMA SameWires ==
  ASSUME Owns, \A c \in Client : peer'[c].wire = peer[c].wire
  PROVE  WiresOwn(peer')
<1>1. WiresOwn(peer)
  BY OwnsParts
<1> QED BY <1>1 DEF WiresOwn

LEMMA ClientFacts ==
  ASSUME Places, NEW c \in Client, Connect(c) \/ Send(c) \/ Leave(c) \/ Stall(c)
  PROVE  /\ UNCHANGED <<conn, pfds, revents, req, worker, loop>>
         /\ \A d \in Client :
              /\ peer'[d].fd = peer[d].fd /\ (peer'[d].st = "open" <=> peer[d].st = "open")
              /\ peer'[d].wire = peer[d].wire /\ peer'[d].kind = peer[d].kind
              /\ peer'[d].st \in {"new", "backlog"} <=> peer[d].st \in {"new", "backlog"}
              /\ peer[d].gone => peer'[d].gone
              /\ peer[d].slow => peer'[d].slow
         /\ \A fd : Holder(fd)' = Holder(fd)
<1> USE DEF Places, TypeOK
<1>0. UNCHANGED <<conn, pfds, revents, req, worker, loop>>
  BY DEF Connect, Send, Leave, Stall
<1>2. \A d \in Client :
        /\ peer'[d].fd = peer[d].fd /\ (peer'[d].st = "open" <=> peer[d].st = "open")
        /\ peer'[d].wire = peer[d].wire /\ peer'[d].kind = peer[d].kind
        /\ peer'[d].st \in {"new", "backlog"} <=> peer[d].st \in {"new", "backlog"}
        /\ peer[d].gone => peer'[d].gone
        /\ peer[d].slow => peer'[d].slow
  <2>1. CASE Connect(c)
    BY <2>1 DEF Connect, PeerType
  <2>2. CASE Send(c)
    BY <2>2 DEF Send, PeerType
  <2>3. CASE Leave(c)
    BY <2>3 DEF Leave, PeerType
  <2>4. CASE Stall(c)
    <3>1. peer' = [peer EXCEPT ![c].slow = TRUE]
      BY <2>4 DEF Stall
    <3> QED BY <3>1 DEF PeerType
  <2> QED BY <2>1, <2>2, <2>3, <2>4
<1>3. ASSUME NEW fd PROVE Holder(fd)' = Holder(fd)
  BY <1>2 DEF Holder
<1> QED BY <1>0, <1>2, <1>3

LEMMA ClientOwns ==
  ASSUME Places, Owns, NEW c \in Client, Connect(c) \/ Send(c) \/ Leave(c) \/ Stall(c)
  PROVE  Owns'
<1>1. /\ UNCHANGED <<conn, req, worker>> /\ \A d \in Client : peer'[d].wire = peer[d].wire
      /\ \A fd : Holder(fd)' = Holder(fd)
  BY ClientFacts
<1>2. Fewer
  BY <1>1, TouchSame
<1>3. WiresOwn(peer')
  BY <1>1, SameWires
<1> QED BY <1>1, <1>2, <1>3, KeepOwns

(* A step of the loop, or of the scheduler, alone. *)
LEMMA LoopOwns ==
  ASSUME Places, Owns, UNCHANGED <<peer, conn>>, Fewer
  PROVE  Owns'
<1>1. \A fd : Holder(fd)' = Holder(fd)
  BY DEF Holder
<1>2. WiresOwn(peer')
  BY SameWires
<1> QED BY <1>1, <1>2, KeepOwns

(* Nobody is called back for a connection that is free, being read, or      *)
(* finished.                                                                *)
LEMMA Untouched ==
  ASSUME Places, Owns, NEW i \in Slot,
         \/ conn[i].st \in {"free", "head", "body"}
         \/ conn[i].fin
         \/ \E c \in Holder(conn[i].fd) : req[c].st = "none",
         NEW c \in Client, MayTouch(c)
  PROVE  req[c].slot # i
<1>1. CallOwn(c) /\ req[c].st # "none"
  BY OwnsParts, TouchedSlot DEF Places
<1> QED BY <1>1 DEF CallOwn

LEMMA BuildOwns ==
  ASSUME Places, Owns, Build
  PROVE  Owns'
<1> USE DEF Places, TypeOK
<1> DEFINE i == loop.k
<1>1. i \in Slot /\ UNCHANGED <<req, worker>>
  BY HttpConstants DEF Build, LoopType, Slot
<1>2. Fewer /\ \A c \in Client : MayTouch(c)' => MayTouch(c)
  BY <1>1, TouchSame DEF Fewer
<1>3. CASE conn[i].fin /\ Reset(i)
  <2>1. Drops(i, peer)
    BY <1>3, ResetDrops
  <2>2. WiresOwn(peer)
    BY OwnsParts
  <2>3. \A c \in Client : MayTouch(c)' => req[c].slot # i
    BY <1>1, <1>2, <1>3, Untouched
  <2> QED BY <1>1, <1>2, <2>1, <2>2, <2>3, DropsOwns
<1>4. CASE UNCHANGED <<peer, conn>>
  BY <1>2, <1>4, LoopOwns
<1> QED BY <1>3, <1>4 DEF Build

LEMMA PollAcceptOwns ==
  ASSUME Places, Owns, PollAccept
  PROVE  Owns'
<1> USE DEF Places, TypeOK
<1>0. /\ \A j \in Slot : SlotOwn(j)
      /\ \A c \in Client : CallOwn(c)
      /\ WiresOwn(peer)
  BY OwnsParts
<1>1. UNCHANGED <<req, worker>>
  BY DEF PollAccept
<1>2. Fewer /\ \A c \in Client : MayTouch(c)' => MayTouch(c)
  BY <1>1, TouchSame DEF Fewer
<1>3. CASE UNCHANGED <<peer, conn>>
  BY <1>2, <1>3, LoopOwns
<1>4. ASSUME NEW c \in Client, NEW i \in Slot, NEW fd \in Fd,
             peer[c].st = "backlog", Admit(c, i, fd)
      PROVE  Owns'
  <2>1. /\ \A d \in Client : d # c => peer'[d] = peer[d]
        /\ peer'[c].wire = peer[c].wire
        /\ conn[i].st = "free" /\ conn'[i] = ConnAt("head", fd)
        /\ \A j \in Slot : j # i => conn'[j] = conn[j]
        /\ \A d \in Client : peer[d].fd # fd
        /\ \A g : g # fd => Holder(g)' = Holder(g)
    BY <1>4, AcceptFacts
  <2>2. ASSUME NEW j \in Slot, j # i
        PROVE  conn'[j] = conn[j] /\ Holder(conn[j].fd)' = Holder(conn[j].fd)
    <3>1. fd # NoFd
      BY DEF Fd, NoFd
    <3>2. conn[j].fd # fd
      <4>1. CASE conn[j].st = "free"
        BY <3>1, <4>1 DEF ConnType
      <4>2. CASE conn[j].st # "free"
        BY <2>1, <4>2 DEF Table, Holder
      <4> QED BY <4>1, <4>2
    <3>3. conn'[j] = conn[j]
      BY <2>1, <2>2
    <3>4. Holder(conn[j].fd)' = Holder(conn[j].fd)
      BY <2>1, <3>2, <3>3
    <3> QED BY <3>3, <3>4
  <2>3. ASSUME NEW j \in Slot PROVE SlotOwn(j)'
    <3>1. CASE j = i
      BY <2>1, <3>1, SlotFresh
    <3>2. CASE j # i
      BY <1>0, <1>2, <2>2, <3>2, SlotSame
    <3> QED BY <3>1, <3>2
  <2>4. ASSUME NEW d \in Client PROVE CallOwn(d)'
    <3>1. \A j \in Slot : j = req[d].slot /\ MayTouch(d)' => j # i
      BY <1>2, <2>1, Untouched
    <3> QED BY <1>0, <1>2, <2>2, <3>1, CallSame
  <2>5. WiresOwn(peer')
    BY <2>1, SameWires
  <2> QED BY <2>3, <2>4, <2>5, OwnsPartsNext
<1>5. ASSUME NEW c \in Client, peer[c].st = "backlog", TurnAway(c) PROVE Owns'
  <2>1. /\ \A d \in Client : d # c => peer'[d] = peer[d]
        /\ peer'[c].wire = <<Simple(503)>> /\ \A fd : Holder(fd)' = Holder(fd)
        /\ UNCHANGED conn
    BY <1>5, RefuseFacts DEF TurnAway
  <2>2. \A d \in Client : Piece(d) \notin Range(<<Simple(503)>>)
    BY SilentTokens
  <2>3. WiresOwn(peer')
    BY <1>0, <2>1, <2>2 DEF WiresOwn
  <2> QED BY <1>2, <2>1, <2>3, KeepOwns
<1> QED BY <1>3, <1>4, <1>5, PollAcceptCases

(* An answer at once, to a connection no callback may touch. *)
LEMMA AnswerOwns ==
  ASSUME Places, Owns, Fewer, NEW i \in Slot, NEW t \in Seq(Token), AnswerAndReset(i, t),
         \A d \in Client : Piece(d) \notin Range(t),
         \A c \in Client : MayTouch(c) => req[c].slot # i
  PROVE  Owns'
<1>1. PICK p \in WrittenOrLost(conn[i].fd, t) : Drops(i, p)
  BY AnswerDrops DEF Places, TypeOK
<1>2. p = Written(conn[i].fd, t) \/ p = peer
  BY DEF WrittenOrLost
<1>3. OwnPieces(conn[i].fd, t) /\ WiresOwn(peer) /\ PeerType
  BY OwnsParts DEF OwnPieces, Places, TypeOK
<1>4. WiresOwn(p)
  BY <1>2, <1>3, WrittenOwn
<1>5. \A c \in Client : MayTouch(c)' => req[c].slot # i
  BY DEF Fewer
<1> QED BY <1>1, <1>4, <1>5, DropsOwns

LEMMA ResetOwns ==
  ASSUME Places, Owns, Fewer, NEW i \in Slot, Reset(i),
         \A c \in Client : MayTouch(c)' => req[c].slot # i
  PROVE  Owns'
<1>1. Drops(i, peer) /\ WiresOwn(peer)
  BY ResetDrops, OwnsParts DEF Places, TypeOK
<1> QED BY <1>1, DropsOwns

(* A cancel that meets its request ends it. *)
LEMMA CancelOwns ==
  ASSUME Places, NoWindow, NEW c \in Client, CancelReq(c), UNCHANGED worker
  PROVE  Fewer /\ ~MayTouch(c)'
<1>1. /\ \A d \in Client : req'[d].slot = req[d].slot
                           /\ (req'[d].st = "none" <=> req[d].st = "none")
                           /\ (req'[d].st = "starting" <=> req[d].st = "starting")
      /\ \A d \in Client : d # c => req'[d] = req[d]
      /\ req'[c].st \notin {"queued", "active"}
  BY CancelFacts DEF Places, TypeOK
<1>2. worker.of # c
  BY DEF CancelReq, NoWindow, Fault
<1>3. req[c].st # "starting"
  BY <1>2 DEF Places, WorkerPlace
<1>4. ~MayTouch(c)'
  BY <1>1, <1>3 DEF MayTouch
<1>5. \A d \in Client : d # c => (MayTouch(d)' => MayTouch(d))
  BY <1>1 DEF MayTouch, Ends
<1> QED BY <1>1, <1>4, <1>5 DEF Fewer

(* conn_reset of a streaming connection, behind the cancel. *)
LEMMA CancelledOwns ==
  ASSUME Places, NoWindow, Owns, NEW i \in Slot, conn[i].st = "streaming",
         CancelReq(conn[i].of), Reset(i), UNCHANGED worker
  PROVE  Owns'
<1> DEFINE c == conn[i].of
<1>1. SlotOwn(i)
  BY OwnsParts
<1>2. Holder(conn[i].fd) = {c}
  BY <1>1 DEF SlotOwn
<1>3. c \in Client
  BY <1>2 DEF Holder
<1>4. CancelReq(c)
  OBVIOUS
<1>5. PICK cc \in Client : cc = c
  BY <1>3
<1>6. CancelReq(cc) /\ Holder(conn[i].fd) = {cc}
  BY <1>2, <1>4, <1>5
<1>7. Fewer /\ ~MayTouch(cc)'
  BY <1>6, CancelOwns
<1>8. ASSUME NEW d \in Client, MayTouch(d)' PROVE req[d].slot # i
  <2>1. MayTouch(d) /\ CallOwn(d)
    BY <1>7, <1>8, OwnsParts DEF Fewer
  <2>2. d # cc
    BY <1>7, <1>8
  <2> QED BY <1>6, <2>1, <2>2 DEF CallOwn
<1> QED BY <1>7, <1>8, ResetOwns

LEMMA ServeStreamingOwns ==
  ASSUME Places, NoWindow, Owns, ServeStreaming
  PROVE  Owns'
<1> USE DEF Places, TypeOK
<1>1. UNCHANGED worker
  BY DEF ServeStreaming
<1>2. PICK i \in Slot, c \in Client :
        /\ conn[i].st = "streaming"
        /\ \/ CancelReq(conn[i].of) /\ Reset(i)
           \/ /\ conn' = [conn EXCEPT ![i].got = peer[c].sent]
              /\ UNCHANGED <<peer, req>>
  BY DEF ServeStreaming, Served, Holder
<1>3. CASE CancelReq(conn[i].of) /\ Reset(i)
  BY <1>1, <1>2, <1>3, CancelledOwns
<1>4. CASE conn' = [conn EXCEPT ![i].got = peer[c].sent] /\ UNCHANGED <<peer, req>>
  <2>1. conn \in [Slot -> ConnRec]
    BY ConnIsFcn
  <2>2. \A j \in Slot :
           /\ conn'[j].st = conn[j].st /\ conn'[j].fd = conn[j].fd /\ conn'[j].fin = conn[j].fin
           /\ conn'[j].hdr = conn[j].hdr /\ conn'[j].acc = conn[j].acc
           /\ conn'[j].of = conn[j].of /\ conn'[j].samples = conn[j].samples
    BY <1>4, <2>1 DEF ConnRec
  <2>3. \A j \in Slot : conn[j].st = "free" => conn'[j] = conn[j]
    BY <1>2, <1>4, <2>1
  <2>4. Fewer
    BY <1>1, <1>4, TouchSame
  <2>5. WiresOwn(peer')
    BY <1>4, SameWires
  <2>6. \A g : Holder(g)' = Holder(g)
    BY <1>4 DEF Holder
  <2> QED BY <2>2, <2>3, <2>4, <2>5, <2>6, KeepOwns
<1> QED BY <1>2, <1>3, <1>4

LEMMA ServeIdleOwns ==
  ASSUME Places, Owns, ServeIdle
  PROVE  Owns'
<1>1. PICK i \in Slot : conn[i].st \in {"head", "body"} /\ AnswerAndReset(i, <<Simple(408)>>)
  BY DEF ServeIdle, Served
<1>2. UNCHANGED <<req, worker>>
  BY DEF ServeIdle
<1> DEFINE t == <<Simple(408)>>
<1>3. AnswerAndReset(i, t)
  BY <1>1
<1>6. t \in {<<Simple(n)>> : n \in Nat}
  OBVIOUS
<1> HIDE DEF t
<1>7. t \in Seq(Token) /\ \A d \in Client : Piece(d) \notin Range(t)
  BY <1>6, SilentTokens
<1>4. Fewer
  BY <1>2, TouchSame
<1>5. \A c \in Client : MayTouch(c) => req[c].slot # i
  BY <1>1, Untouched
<1> QED BY <1>3, <1>4, <1>5, <1>7, AnswerOwns

(* A step that moves connection i on in the table, nobody touching it. *)
LEMMA MovedOwns ==
  ASSUME Places, Owns, Fewer, WiresOwn(peer'), NEW i \in Slot,
         \A g : Holder(g)' = Holder(g),
         \A j \in Slot : j # i => conn'[j] = conn[j],
         conn[i].st # "free", conn'[i].st \in {"head", "body", "routing"},
         conn'[i].fd = conn[i].fd /\ conn'[i].fin = conn[i].fin,
         conn'[i].hdr = conn[i].hdr /\ conn'[i].acc = conn[i].acc
                                    /\ conn'[i].samples = conn[i].samples,
         \A c \in Client : MayTouch(c) => req[c].slot # i
  PROVE  Owns'
<1>0. /\ \A j \in Slot : SlotOwn(j)
      /\ \A c \in Client : CallOwn(c)
  BY OwnsParts
<1>1. ASSUME NEW j \in Slot PROVE Holder(conn[j].fd)' = Holder(conn[j].fd)
  <2>1. conn'[j].fd = conn[j].fd
    OBVIOUS
  <2> QED BY <2>1
<1>2. ASSUME NEW j \in Slot PROVE SlotOwn(j)'
  <2>1. CASE j # i
    BY <1>0, <1>1, <2>1, SlotSame
  <2>2. CASE j = i
    <3>1. ASSUME NEW c \in Holder(conn[i].fd)', req'[c].st = "none"
          PROVE  ~conn'[i].fin /\ ~conn'[i].hdr /\ conn'[i].acc = <<>> /\ conn'[i].samples = 0
      <4>1. c \in Holder(conn[i].fd) /\ c \in Client
        BY <1>1, <3>1 DEF Holder
      <4> QED BY <1>0, <3>1, <4>1 DEF SlotOwn, Fewer
    <3>2. \A d \in Client : Piece(d) \in Range(conn'[i].acc) => Holder(conn[i].fd)' = {d}
      BY <1>0, <1>1 DEF SlotOwn
    <3> QED BY <2>2, <3>1, <3>2 DEF SlotOwn
  <2> QED BY <2>1, <2>2
<1>3. ASSUME NEW c \in Client PROVE CallOwn(c)'
  <2>1. \A j \in Slot : j = req[c].slot /\ MayTouch(c)' => j # i
    BY DEF Fewer
  <2> QED BY <1>0, <1>1, <2>1, CallSame DEF Places
<1> QED BY <1>2, <1>3, OwnsPartsNext

LEMMA WroteOwn ==
  ASSUME Places, Owns, NEW fd, NEW t \in Seq(Token), \A d \in Client : Piece(d) \notin Range(t),
         peer' \in WrittenOrLost(fd, t)
  PROVE  WiresOwn(peer') /\ \A g : Holder(g)' = Holder(g)
<1>1. peer' = Written(fd, t) \/ peer' = peer
  BY DEF WrittenOrLost
<1>2. OwnPieces(fd, t) /\ WiresOwn(peer) /\ PeerType
  BY OwnsParts DEF OwnPieces, Places, TypeOK
<1>3. WiresOwn(peer')
  BY <1>1, <1>2, WrittenOwn
<1>4. OnlyWrote(peer')
  BY <1>2, WroteOrLost
<1> QED BY <1>2, <1>3, <1>4, WrotePeer

LEMMA ReadOwns ==
  ASSUME Places, Owns, Read
  PROVE  Owns'
<1> USE DEF Places, TypeOK
<1>1. UNCHANGED <<req, worker>>
  BY ReadCases
<1>2. PICK i \in Slot, c \in Client, expect \in {<<>>, <<Continue>>} :
        /\ c \in Holder(conn[i].fd) /\ conn[i].st \in {"head", "body"}
        /\ \/ ReadNothing(i) \/ ReadHead(i, expect)
           \/ ReadSimple(i, c, expect) \/ ReadBody(i, c, expect)
  BY ReadCases
<1>3. expect \in Seq(Token) /\ \A d \in Client : Piece(d) \notin Range(expect)
  BY <1>2, SilentTokens, TokensAreTokens
<1>4. Fewer /\ \A d \in Client : MayTouch(d)' => MayTouch(d)
  BY <1>1, TouchSame DEF Fewer
<1>5. \A d \in Client : MayTouch(d) => req[d].slot # i
  BY <1>2, Untouched
<1>6. CASE ReadNothing(i)
  <2>1. Reset(i)
    BY <1>6 DEF ReadNothing
  <2> QED BY <1>4, <1>5, <2>1, ResetOwns
<1>7. CASE ReadHead(i, expect)
  <2>1. /\ \A j \in Slot : j # i => conn'[j] = conn[j]
        /\ conn'[i].st = "body"
        /\ conn'[i].fd = conn[i].fd /\ conn'[i].fin = conn[i].fin
        /\ conn'[i].hdr = conn[i].hdr /\ conn'[i].acc = conn[i].acc
        /\ conn'[i].samples = conn[i].samples
    BY <1>7, ReadHeadFacts
  <2>2. WiresOwn(peer') /\ \A g : Holder(g)' = Holder(g)
    BY <1>3, <1>7, WroteOwn DEF ReadHead
  <2> QED BY <1>2, <1>4, <1>5, <2>1, <2>2, MovedOwns
<1>8. CASE ReadSimple(i, c, expect)
  <2> DEFINE t == <<Simple(0)>>
             u == expect \o t
  <2>1. t \in Seq(Token) /\ (\A d \in Client : Piece(d) \notin Range(t)) /\ AnswerAndReset(i, u)
    BY <1>8, SilentTokens DEF ReadSimple
  <2> HIDE DEF t
  <2>2. u \in Seq(Token) /\ \A d \in Client : Piece(d) \notin Range(u)
    BY <1>3, <2>1, InConcat
  <2> HIDE DEF u
  <2> QED BY <1>4, <1>5, <2>1, <2>2, AnswerOwns
<1>9. CASE ReadBody(i, c, expect)
  <2>1. /\ \A j \in Slot : j # i => conn'[j] = conn[j]
        /\ conn'[i].st = "routing"
        /\ conn'[i].fd = conn[i].fd /\ conn'[i].fin = conn[i].fin
        /\ conn'[i].hdr = conn[i].hdr /\ conn'[i].acc = conn[i].acc
        /\ conn'[i].samples = conn[i].samples
    BY <1>9, ReadBodyFacts
  <2>2. WiresOwn(peer') /\ \A g : Holder(g)' = Holder(g)
    BY <1>3, <1>9, WroteOwn DEF ReadBody
  <2> QED BY <1>2, <1>4, <1>5, <2>1, <2>2, MovedOwns
<1> QED BY <1>2, <1>6, <1>7, <1>8, <1>9

LEMMA RouteHeadOwns ==
  ASSUME Places, Owns, RouteHead
  PROVE  Owns'
<1> USE DEF Places, TypeOK
<1> DEFINE i == loop.slot
<1>1. loop.at = "route" /\ UNCHANGED <<req, worker>>
  BY DEF RouteHead
<1>2. /\ i \in Slot /\ conn[i].st = "routing" /\ RoutedClient \in Client
      /\ Holder(conn[i].fd) = {RoutedClient}
  BY <1>1, RoutedFacts
<1>3. Fewer /\ \A d \in Client : MayTouch(d)' => MayTouch(d)
  BY <1>1, TouchSame DEF Fewer
<1>4. \A d \in Client : MayTouch(d) => req[d].slot # i
  <2>1. \E c \in Holder(conn[i].fd) : req[c].st = "none"
    BY <1>1, <1>2 DEF Asked, Reading
  <2> QED BY <1>2, <2>1, Untouched
<1>5. CASE Reset(i)
  BY <1>2, <1>3, <1>4, <1>5, ResetOwns
<1>6. CASE UNCHANGED <<peer, conn>>
  BY <1>3, <1>6, LoopOwns
<1>7. CASE peer' = Written(Routed.fd, <<Head200>>) /\ UNCHANGED conn
  <2> DEFINE t == <<Head200>>
  <2>1. t \in Seq(Token) /\ (\A d \in Client : Piece(d) \notin Range(t))
    BY SilentTokens
  <2>2. peer' = Written(Routed.fd, t)
    BY <1>7
  <2> HIDE DEF t
  <2>3. WiresOwn(peer) /\ OwnPieces(Routed.fd, t)
    BY <2>1, OwnsParts DEF OwnPieces
  <2>4. WiresOwn(peer')
    BY <2>1, <2>2, <2>3, WrittenOwn
  <2>5. OnlyWrote(peer')
    BY <2>1, <2>2, WrittenOnlyWrote
  <2>6. \A g : Holder(g)' = Holder(g)
    BY <2>5, WrotePeer
  <2> QED BY <1>3, <1>7, <2>4, <2>6, KeepOwns
<1> QED BY <1>5, <1>6, <1>7 DEF RouteHead

(* What the submit of the routed client's request does. *)
LEMMA SubmitFacts ==
  ASSUME Places, RouteSubmit
  PROVE  /\ loop.at = "submit" /\ UNCHANGED <<peer, conn, pfds, revents, worker, loop>>
         /\ loop.slot \in Slot /\ conn[loop.slot].st = "routing" /\ RoutedClient \in Client
         /\ Holder(conn[loop.slot].fd) = {RoutedClient} /\ req[RoutedClient].st = "none"
         /\ req'[RoutedClient].st = "queued" /\ req'[RoutedClient].slot = loop.slot
         /\ req'[RoutedClient].made = 0 /\ req'[RoutedClient].take \in Nat
         /\ \A c \in Client : c # RoutedClient => req'[c] = req[c]
         /\ worker.of # RoutedClient \/ worker.at = "idle"
<1> USE DEF Places, TypeOK
<1> DEFINE r == RoutedClient
<1>1. /\ loop.at = "submit" /\ req[r].st = "none"
      /\ UNCHANGED <<peer, conn, pfds, revents, worker, loop>>
  BY DEF RouteSubmit
<1>2. /\ loop.slot \in Slot /\ conn[loop.slot].st = "routing" /\ r \in Client
      /\ Holder(conn[loop.slot].fd) = {r}
  BY <1>1, RoutedFacts
<1>3. PICK n \in Takes :
        req' = [req EXCEPT ![r] = [st |-> "queued", slot |-> loop.slot, take |-> n, made |-> 0]]
  BY DEF RouteSubmit
<1> DEFINE q == [st |-> "queued", slot |-> loop.slot, take |-> n, made |-> 0]
<1>5. q.st = "queued" /\ q.slot = loop.slot /\ q.made = 0 /\ q.take = n /\ n \in Nat
  BY HttpConstants
<1>6. req' = [req EXCEPT ![r] = q]
  BY <1>3
<1> HIDE DEF q, r
<1>7. req'[r] = q /\ \A c \in Client : c # r => req'[c] = req[c]
  BY <1>2, <1>6 DEF WorkType
<1>8. worker.of # r \/ worker.at = "idle"
  BY <1>1, <1>2 DEF WorkerPlace, WorkType
<1> QED BY <1>1, <1>2, <1>5, <1>7, <1>8 DEF r

LEMMA RouteSubmitOwns ==
  ASSUME Places, Owns, RouteSubmit
  PROVE  Owns'
<1> DEFINE r == RoutedClient
<1>0. /\ \A j \in Slot : SlotOwn(j)
      /\ \A c \in Client : CallOwn(c)
      /\ WiresOwn(peer)
  BY OwnsParts
<1>1. /\ UNCHANGED <<peer, conn, worker>>
      /\ loop.slot \in Slot /\ conn[loop.slot].st = "routing" /\ r \in Client
      /\ Holder(conn[loop.slot].fd) = {r} /\ req[r].st = "none"
      /\ req'[r].st = "queued" /\ req'[r].slot = loop.slot
      /\ \A c \in Client : c # r => req'[c] = req[c]
  BY SubmitFacts
<1> HIDE DEF r
<1>2. \A g : Holder(g)' = Holder(g)
  BY <1>1 DEF Holder
<1>3. \A c \in Client : req'[c].st = "none" => req[c].st = "none"
  BY <1>1
<1>4. ASSUME NEW j \in Slot PROVE SlotOwn(j)'
  <2>1. Holder(conn[j].fd)' = Holder(conn[j].fd)
    BY <1>1 DEF Holder
  <2>2. \A c \in Holder(conn[j].fd) : c \in Client
    BY DEF Holder
  <2> QED BY <1>0, <1>1, <1>3, <2>1, <2>2 DEF SlotOwn
<1>5. ASSUME NEW c \in Client PROVE CallOwn(c)'
  <2>1. \A j \in Slot : Holder(conn[j].fd)' = Holder(conn[j].fd)
    BY <1>1 DEF Holder
  <2>2. CASE c = r
    <3>1. ~conn[loop.slot].fin
      BY <1>0, <1>1 DEF SlotOwn
    <3> QED BY <1>1, <2>1, <2>2, <3>1 DEF CallOwn
  <2>3. CASE c # r
    <3>1. MayTouch(c)' => MayTouch(c) /\ req[c].slot \in Slot
      BY <1>1, <2>3, TouchedSlot DEF MayTouch, Ends, Places
    <3> QED BY <1>0, <1>1, <2>1, <2>3, <3>1 DEF CallOwn
  <2> QED BY <2>2, <2>3
<1>6. WiresOwn(peer')
  BY <1>0, <1>1
<1> QED BY <1>4, <1>5, <1>6, OwnsPartsNext

LEMMA RouteSubmittedOwns ==
  ASSUME Places, Owns, RouteSubmitted
  PROVE  Owns'
<1> USE DEF Places, TypeOK
<1>0. /\ \A j \in Slot : SlotOwn(j)
      /\ \A c \in Client : CallOwn(c)
      /\ WiresOwn(peer)
  BY OwnsParts
<1>1. /\ loop.at = "submit" /\ UNCHANGED <<peer, req, worker>>
      /\ conn' = [conn EXCEPT ![loop.slot].st = "streaming", ![loop.slot].of = RoutedClient]
  BY DEF RouteSubmitted
<1>9. /\ loop.slot \in Slot /\ conn[loop.slot].st = "routing" /\ RoutedClient \in Client
      /\ Holder(conn[loop.slot].fd) = {RoutedClient}
  BY <1>1, RoutedFacts
<1>10. PICK i \in Slot : i = loop.slot
  BY <1>9
<1>11. PICK r \in Client : r = RoutedClient
  BY <1>9
<1>2. /\ conn' = [conn EXCEPT ![i].st = "streaming", ![i].of = r]
      /\ conn[i].st = "routing" /\ Holder(conn[i].fd) = {r}
  BY <1>1, <1>9, <1>10, <1>11
<1>3. /\ \A j \in Slot : j # i => conn'[j] = conn[j]
      /\ conn'[i].st = "streaming" /\ conn'[i].of = r /\ conn'[i].fd = conn[i].fd
      /\ conn'[i].fin = conn[i].fin /\ conn'[i].hdr = conn[i].hdr
      /\ conn'[i].acc = conn[i].acc /\ conn'[i].samples = conn[i].samples
  BY <1>2, SubmittedFacts
<1>4. Fewer
  BY <1>1, TouchSame
<1>5. ASSUME NEW j \in Slot PROVE Holder(conn[j].fd)' = Holder(conn[j].fd)
  <2>1. conn'[j].fd = conn[j].fd
    BY <1>3
  <2> QED BY <1>1, <2>1 DEF Holder
<1>6. ASSUME NEW j \in Slot PROVE SlotOwn(j)'
  <2>1. CASE j # i
    BY <1>0, <1>3, <1>4, <1>5, <2>1, SlotSame
  <2>2. CASE j = i
    <3>1. ASSUME NEW c \in Holder(conn[i].fd)', req'[c].st = "none"
          PROVE  ~conn'[i].fin /\ ~conn'[i].hdr /\ conn'[i].acc = <<>> /\ conn'[i].samples = 0
      <4>1. c \in Holder(conn[i].fd) /\ req[c].st = "none" /\ SlotOwn(i)
        BY <1>0, <1>1, <1>5, <3>1
      <4>2. ~conn[i].fin /\ ~conn[i].hdr /\ conn[i].acc = <<>> /\ conn[i].samples = 0
        BY <4>1 DEF SlotOwn
      <4> QED BY <1>3, <4>2
    <3>2. Holder(conn[i].fd)' = {conn'[i].of}
      BY <1>2, <1>3, <1>5
    <3>3. \A d \in Client : Piece(d) \in Range(conn'[i].acc) => Holder(conn[i].fd)' = {d}
      BY <1>0, <1>2, <1>3, <1>5 DEF SlotOwn
    <3> QED BY <1>3, <2>2, <3>1, <3>2, <3>3 DEF SlotOwn
  <2> QED BY <2>1, <2>2
<1>7. ASSUME NEW c \in Client PROVE CallOwn(c)'
  <2>1. \A j \in Slot : /\ conn'[j].st = conn[j].st \/ conn'[j].st \in {"routing", "streaming"}
                        /\ conn'[j].fd = conn[j].fd /\ conn'[j].fin = conn[j].fin
    BY <1>3
  <2> QED BY <1>0, <1>4, <1>5, <2>1, CallSame
<1>8. WiresOwn(peer')
  BY <1>0, <1>1
<1> QED BY <1>6, <1>7, <1>8, OwnsPartsNext

LEMMA RouteRefusedOwns ==
  ASSUME Places, Owns, RouteRefused
  PROVE  Owns'
<1>1. loop.at = "submit" /\ req[RoutedClient].st = "none" /\ UNCHANGED <<req, worker>>
  BY DEF RouteRefused
<1>2. PICK t \in {<<Simple(503)>>, <<EndChunk>>} : AnswerAndReset(loop.slot, t)
  BY DEF RouteRefused
<1>3. t \in Seq(Token) /\ \A d \in Client : Piece(d) \notin Range(t)
  BY <1>2, SilentTokens
<1>4. /\ loop.slot \in Slot /\ Holder(conn[loop.slot].fd) = {RoutedClient}
  BY <1>1, RoutedFacts
<1>5. \A c \in Client : MayTouch(c) => req[c].slot # loop.slot
  BY <1>1, <1>4, Untouched
<1>6. Fewer
  BY <1>1, TouchSame
<1> QED BY <1>2, <1>3, <1>4, <1>5, <1>6, AnswerOwns

LEMMA ShutdownOwns ==
  ASSUME Places, NoWindow, Owns, Shutdown
  PROVE  Owns'
<1> DEFINE i == loop.k
<1>1. i \in Slot /\ UNCHANGED worker
  BY HttpConstants DEF Shutdown, Places, TypeOK, LoopType, Slot
<1>2. \/ UNCHANGED <<peer, conn, req>>
      \/ conn[i].st = "streaming" /\ CancelReq(conn[i].of) /\ Reset(i)
      \/ conn[i].st \in {"head", "body"} /\ Reset(i) /\ UNCHANGED req
  BY DEF Shutdown
<1>3. CASE UNCHANGED <<peer, conn, req>>
  <2>1. Fewer
    BY <1>1, <1>3, TouchSame
  <2> QED BY <1>3, <2>1, LoopOwns
<1>4. CASE conn[i].st = "streaming" /\ CancelReq(conn[i].of) /\ Reset(i)
  BY <1>1, <1>4, CancelledOwns
<1>5. CASE conn[i].st \in {"head", "body"} /\ Reset(i) /\ UNCHANGED req
  <2>1. Fewer /\ \A c \in Client : MayTouch(c)' => MayTouch(c)
    BY <1>1, <1>5, TouchSame DEF Fewer
  <2>2. \A c \in Client : MayTouch(c)' => req[c].slot # i
    BY <1>1, <1>5, <2>1, Untouched
  <2> QED BY <1>1, <1>5, <2>1, <2>2, ResetOwns
<1> QED BY <1>2, <1>3, <1>4, <1>5

LEMMA ExitOwns ==
  ASSUME Places, Owns, Exit
  PROVE  Owns'
<1>1. UNCHANGED <<conn, req, worker>>
  BY DEF Exit
<1>2. /\ \A c \in Client : peer'[c].wire = peer[c].wire
      /\ \A fd : Holder(fd)' = Holder(fd)
  BY ExitFacts
<1>3. Fewer /\ WiresOwn(peer')
  BY <1>1, <1>2, TouchSame, SameWires
<1> QED BY <1>1, <1>2, <1>3, KeepOwns

LEMMA PopOwns ==
  ASSUME Places, Owns, NEW c \in Client, Pop(c)
  PROVE  Owns'
<1> USE DEF Places, TypeOK
<1>1. UNCHANGED <<peer, conn>>
  BY DEF Pop
<1>2. worker.at = "idle" /\ req[c].st = "queued" /\ req' = [req EXCEPT ![c].st = "starting"]
  BY DEF Pop
<1>3. /\ req'[c].st = "starting" /\ req'[c].slot = req[c].slot
      /\ \A d \in Client : d # c => req'[d] = req[d]
  BY <1>2 DEF WorkType
<1>4. Fewer
  BY <1>2, <1>3 DEF Fewer, MayTouch
<1> QED BY <1>1, <1>4, LoopOwns

LEMMA StartedOwns ==
  ASSUME Places, Owns, NEW c \in Client, Started(c)
  PROVE  Owns'
<1> USE DEF Places, TypeOK
<1>1. UNCHANGED <<peer, conn>>
  BY DEF Started
<1>2. /\ worker.at = "start" /\ worker.of = c /\ req' = [req EXCEPT ![c].st = "active"]
  BY DEF Started
<1>3. /\ req'[c].st = "active" /\ req'[c].slot = req[c].slot
      /\ \A d \in Client : d # c => req'[d] = req[d]
  BY <1>2 DEF WorkType
<1>4. req[c].st = "starting"
  BY <1>2 DEF WorkerPlace
<1>5. Fewer
  BY <1>2, <1>3, <1>4 DEF Fewer, MayTouch
<1> QED BY <1>1, <1>5, LoopOwns

LEMMA DeliverOwns ==
  ASSUME Places, Owns, NEW c \in Client, NEW n \in {0, 1}, NEW final \in BOOLEAN,
         Deliver(c, n, final)
  PROVE  Owns'
<1> USE DEF Places, TypeOK
<1>1. UNCHANGED <<peer, conn>>
  BY DEF Deliver
<1>2. worker.at = "idle" /\ req' = [req EXCEPT ![c].made = @ + n]
  BY DEF Deliver
<1>3. \A d \in Client : req'[d].st = req[d].st /\ req'[d].slot = req[d].slot
  BY <1>2 DEF WorkType
<1>4. Fewer
  BY <1>2, <1>3 DEF Fewer, MayTouch
<1> QED BY <1>1, <1>4, LoopOwns

LEMMA ReturnFacts ==
  ASSUME Places, Return, NEW c \in Client, c = worker.of
  PROVE  /\ worker.at = "return" /\ worker' = Idle /\ req[c].st = "active"
         /\ UNCHANGED <<peer, conn, pfds, revents, loop>>
         /\ \A d \in Client : d # c => req'[d] = req[d]
         /\ IF Ends THEN req'[c].st = "over" ELSE req' = req
         /\ \A d \in Client : req'[d].take = req[d].take
<1> USE DEF Places, TypeOK
<1>1. /\ worker.at = "return" /\ worker' = Idle
      /\ UNCHANGED <<peer, conn, pfds, revents, loop>>
      /\ req' = IF Ends THEN Over(c) ELSE req
  BY DEF Return
<1>2. req[c].st = "active"
  BY <1>1, CalledFacts
<1>3. /\ Over(c)[c].st = "over" /\ Over(c)[c].take = req[c].take
      /\ \A d \in Client : d # c => Over(c)[d] = req[d]
  BY DEF Over, WorkType
<1> QED BY <1>1, <1>2, <1>3

LEMMA ReturnOwns ==
  ASSUME Places, Owns, Return
  PROVE  Owns'
<1>1. worker.of \in Client
  BY CalledFacts DEF Return
<1>2. PICK c \in Client : c = worker.of
  BY <1>1
<1>3. /\ worker.at = "return" /\ worker' = Idle /\ req[c].st = "active"
      /\ UNCHANGED <<peer, conn>>
      /\ \A d \in Client : d # c => req'[d] = req[d]
      /\ IF Ends THEN req'[c].st = "over" ELSE req' = req
  BY <1>2, ReturnFacts
<1>4. worker'.of # worker.of
  BY <1>1, <1>3, HttpConstants DEF Idle
<1>5. \A d \in Client : d # c => (MayTouch(d)' => MayTouch(d) /\ req'[d].slot = req[d].slot)
  BY <1>2, <1>3 DEF MayTouch
<1>6. Fewer
  <2>1. CASE Ends
    BY <1>3, <1>5, <2>1 DEF Fewer, MayTouch
  <2>2. CASE ~Ends
    BY <1>3, <1>5, <2>2 DEF Fewer, MayTouch
  <2> QED BY <2>1, <2>2
<1> QED BY <1>3, <1>6, LoopOwns

(* The request being called back owns its connection. *)
LEMMA CalledOwns ==
  ASSUME Places, Owns, worker.at \in {"emit", "close", "flag"}
  PROVE  /\ MayTouch(worker.of) /\ worker.of \in Client /\ Mine \in Slot /\ C = conn[Mine]
         /\ Holder(C.fd) = {worker.of} /\ C.st \in {"routing", "streaming"} /\ ~C.fin
         /\ req[worker.of].st = "active"
         /\ \A c \in Client : c # worker.of /\ MayTouch(c) => req[c].slot # Mine
<1>1. /\ worker.of \in Client /\ req[worker.of].st = "active" /\ Mine \in Slot /\ C = conn[Mine]
  BY CalledFacts
<1>2. MayTouch(worker.of)
  BY <1>1 DEF MayTouch
<1>3. \A c \in Client : CallOwn(c)
  BY OwnsParts
<1>4. Holder(C.fd) = {worker.of} /\ C.st \in {"routing", "streaming"} /\ ~C.fin
  BY <1>1, <1>2, <1>3 DEF CallOwn, Mine
<1>5. \A c \in Client : c # worker.of /\ MayTouch(c) => req[c].slot # Mine
  BY <1>1, <1>3, <1>4 DEF CallOwn
<1> QED BY <1>1, <1>2, <1>4, <1>5

(* A step of the callback that writes and holds audio of its own request. *)
LEMMA FillsOwns ==
  ASSUME Places, Owns, worker.at \in {"emit", "close"}, Fewer, Fills(Mine),
         WiresOwn(peer'), \A g : Holder(g)' = Holder(g),
         \A d \in Client : Piece(d) \in Range(conn'[Mine].acc) => d = worker.of
  PROVE  Owns'
<1>0. /\ \A j \in Slot : SlotOwn(j)
      /\ \A c \in Client : CallOwn(c)
  BY OwnsParts
<1>7. Mine \in Slot
  BY CalledOwns
<1>8. PICK i \in Slot : i = Mine
  BY <1>7
<1>1. /\ Holder(conn[i].fd) = {worker.of} /\ req[worker.of].st = "active"
      /\ conn[i].st \in {"routing", "streaming"} /\ worker.of \in Client
  BY <1>8, CalledOwns
<1>2. /\ \A j \in Slot : j # i => conn'[j] = conn[j]
      /\ conn'[i].st = conn[i].st /\ conn'[i].fd = conn[i].fd /\ conn'[i].fin = conn[i].fin
      /\ conn'[i].of = conn[i].of
  BY <1>8 DEF Fills
<1>3. \A d \in Client : Piece(d) \in Range(conn'[i].acc) => d = worker.of
  BY <1>8
<1>4. ASSUME NEW j \in Slot PROVE Holder(conn[j].fd)' = Holder(conn[j].fd)
  <2>1. conn'[j].fd = conn[j].fd
    BY <1>2
  <2> QED BY <2>1
<1>5. ASSUME NEW j \in Slot PROVE SlotOwn(j)'
  <2>1. CASE j # i
    BY <1>0, <1>2, <1>4, <2>1, SlotSame
  <2>2. CASE j = i
    <3>1. \A c \in Holder(conn[i].fd)' : req'[c].st # "none"
      BY <1>1, <1>4 DEF Fewer
    <3>2. conn'[i].st = "streaming" => Holder(conn[i].fd)' = {conn'[i].of}
      BY <1>0, <1>1, <1>2, <1>4 DEF SlotOwn
    <3>3. \A d \in Client : Piece(d) \in Range(conn'[i].acc) => Holder(conn[i].fd)' = {d}
      BY <1>1, <1>3, <1>4
    <3>4. conn'[i].st # "free"
      BY <1>1, <1>2
    <3> QED BY <2>2, <3>1, <3>2, <3>3, <3>4 DEF SlotOwn
  <2> QED BY <2>1, <2>2
<1>6. ASSUME NEW c \in Client PROVE CallOwn(c)'
  <2>1. \A j \in Slot : /\ conn'[j].st = conn[j].st
                        /\ conn'[j].fd = conn[j].fd /\ conn'[j].fin = conn[j].fin
    BY <1>2
  <2> QED BY <1>0, <1>4, <2>1, CallSame DEF Places
<1> QED BY <1>5, <1>6, OwnsPartsNext

LEMMA EmitOwns ==
  ASSUME Places, Owns, Emit
  PROVE  Owns'
<1>1. /\ worker.at = "emit" /\ UNCHANGED <<pfds, revents, req, loop>>
      /\ EmitNothing \/ EmitHeld \/ EmitFull \/ EmitSent \/ EmitFails
  BY EmitCases
<1>2. /\ worker.of \in Client /\ Mine \in Slot /\ conn \in [Slot -> ConnRec] /\ PeerType
      /\ C = conn[Mine] /\ conn[Mine] \in ConnRec
  BY <1>1, CalledFacts DEF Places, TypeOK
<1>3. Holder(C.fd) = {worker.of} /\ SlotOwn(Mine) /\ WiresOwn(peer)
  BY <1>1, <1>2, CalledOwns, OwnsParts
<1>4. Fills(Mine)
  <2>1. UNCHANGED conn => Fills(Mine)
    BY <1>2, FillsNothing
  <2> QED BY <1>1, <2>1 DEF EmitNothing, EmitHeld, EmitFull, EmitSent, EmitFails
<1>5. worker'.of = worker.of /\ worker'.at # "emit"
  <2>1. CASE worker' = [worker EXCEPT !.at = AfterEmit]
    BY <1>1, <2>1, AfterEmitGoes DEF AfterEmit
  <2>2. CASE worker' = [worker EXCEPT !.at = "flag", !.rc = 1]
    BY <1>1, <2>2, FailedGoes
  <2>3. CASE worker' = [worker EXCEPT !.at = "return", !.rc = 1]
    BY <1>1, <2>3, FailedGoes
  <2> QED BY <1>1, <2>1, <2>2, <2>3 DEF EmitNothing, EmitHeld, EmitFull, EmitSent, EmitFails
<1>6. Fewer
  BY <1>1, <1>5 DEF Fewer, MayTouch
<1> DEFINE one == <<Piece(worker.of)>>
<1>7. one \in Seq(Token) /\ \A d \in Client : Piece(d) \in Range(one) => d = worker.of
  <2>1. one \in Seq(Token)
    BY <1>2, TokensAreTokens
  <2>2. Range(one) = {Piece(worker.of)}
    BY DEF Range
  <2> QED BY <2>1, <2>2 DEF Piece
<1> HIDE DEF one
<1>8. \A d \in Client : Piece(d) \in Range(conn'[Mine].acc) => d = worker.of
  <2>1. \A d \in Client : Piece(d) \in Range(conn[Mine].acc) => d = worker.of
    BY <1>2, <1>3 DEF SlotOwn
  <2>2. CASE conn'[Mine].acc = C.acc
    BY <1>2, <2>1, <2>2
  <2>3. CASE EmitHeld
    <3>1. conn'[Mine].acc = conn[Mine].acc \o one /\ conn[Mine].acc \in Seq(Token)
      BY <1>2, <2>3 DEF EmitHeld, one, ConnRec
    <3> QED BY <1>7, <2>1, <3>1, InConcat
  <2> QED BY <1>1, <1>2, <2>2, <2>3 DEF EmitNothing, EmitFull, EmitSent, EmitFails
<1>9. WiresOwn(peer') /\ \A g : Holder(g)' = Holder(g)
  <2>1. CASE UNCHANGED peer
    BY <1>3, <2>1 DEF Holder
  <2>2. CASE EmitFull
    <3> DEFINE t == <<Simple(500)>>
    <3>1. peer' \in WrittenOrLost(C.fd, t) /\ t \in {<<Simple(n)>> : n \in Nat}
      BY <2>2 DEF EmitFull
    <3> HIDE DEF t
    <3>2. t \in Seq(Token) /\ \A d \in Client : Piece(d) \notin Range(t)
      BY <3>1, SilentTokens
    <3> QED BY <3>1, <3>2, WroteOwn
  <2>3. CASE EmitSent
    <3> DEFINE t == Header \o one
    <3>1. peer' = Written(C.fd, t) /\ Header \in Seq(Token)
          /\ \A d \in Client : Piece(d) \notin Range(Header)
      <4>1. \A d \in Client : Piece(d) \notin Range(Header)
        BY HeaderToken, SilentTokens
      <4> QED BY <2>3, <4>1, HeaderToken DEF EmitSent, one
    <3>2. t \in Seq(Token)
      BY <1>7, <3>1
    <3>3. OwnPieces(C.fd, t)
      BY <1>3, <1>7, <3>1, InConcat DEF OwnPieces
    <3> HIDE DEF t
    <3>4. WiresOwn(peer')
      BY <1>2, <1>3, <3>1, <3>2, <3>3, WrittenOwn
    <3>5. OnlyWrote(peer')
      BY <1>2, <3>1, <3>2, WrittenOnlyWrote
    <3> QED BY <1>2, <3>4, <3>5, WrotePeer
  <2> QED BY <1>1, <2>1, <2>2, <2>3 DEF EmitNothing, EmitHeld, EmitFails
<1> QED BY <1>1, <1>4, <1>6, <1>8, <1>9, FillsOwns

LEMMA CloseOwns ==
  ASSUME Places, Owns, Close
  PROVE  Owns'
<1>1. /\ worker.at = "close" /\ UNCHANGED req /\ worker' = [worker EXCEPT !.at = "flag"]
      /\ Fills(Mine) /\ conn'[Mine].acc = C.acc
  BY CloseFacts
<1>2. /\ worker.of \in Client /\ Mine \in Slot /\ PeerType /\ WorkType
      /\ C = conn[Mine] /\ conn[Mine] \in ConnRec
  BY <1>1, CalledFacts DEF Places, TypeOK
<1>3. Holder(C.fd) = {worker.of} /\ SlotOwn(Mine) /\ WiresOwn(peer)
  BY <1>1, <1>2, CalledOwns, OwnsParts
<1>4. worker'.of = worker.of /\ worker'.at = "flag"
  BY <1>1, <1>2, WorkerAt
<1>5. Fewer
  BY <1>1, <1>4 DEF Fewer, MayTouch
<1>6. \A d \in Client : Piece(d) \in Range(C.acc) => Holder(C.fd) = {d}
  BY <1>2, <1>3 DEF SlotOwn
<1>7. PICK t \in Seq(Token) : peer' \in WrittenOrLost(C.fd, t) /\ OwnPieces(C.fd, t)
  <2>1. CASE /\ <<Length(Len(C.acc))>> \o C.acc \in Seq(Token)
             /\ peer' \in WrittenOrLost(C.fd, <<Length(Len(C.acc))>> \o C.acc)
    <3> DEFINE one == <<Length(Len(C.acc))>>
    <3>1. C.acc \in Seq(Token) /\ Len(C.acc) \in Nat
      BY <1>2 DEF ConnRec
    <3>2. one \in {<<Length(n)>> : n \in Nat}
      BY <3>1
    <3> HIDE DEF one
    <3>3. one \in Seq(Token) /\ \A d \in Client : Piece(d) \notin Range(one)
      BY <3>2, SilentTokens
    <3>4. OwnPieces(C.fd, one \o C.acc)
      BY <1>6, <3>1, <3>3, InConcat DEF OwnPieces
    <3> QED BY <2>1, <3>4 DEF one
  <2>2. CASE /\ Header \o <<EndChunk>> \in Seq(Token)
             /\ peer' \in WrittenOrLost(C.fd, Header \o <<EndChunk>>)
    <3> DEFINE one == <<EndChunk>>
    <3>1. one \in Seq(Token) /\ \A d \in Client : Piece(d) \notin Range(one)
      BY SilentTokens
    <3> HIDE DEF one
    <3>2. Header \in Seq(Token) /\ \A d \in Client : Piece(d) \notin Range(Header)
      BY HeaderToken, SilentTokens
    <3>3. OwnPieces(C.fd, Header \o one)
      BY <3>1, <3>2, InConcat DEF OwnPieces
    <3> QED BY <2>2, <3>3 DEF one
  <2> QED BY <2>1, <2>2, CloseFacts
<1>8. peer' = Written(C.fd, t) \/ peer' = peer
  BY <1>7 DEF WrittenOrLost
<1>9. WiresOwn(peer')
  BY <1>2, <1>3, <1>7, <1>8, WrittenOwn
<1>10. \A g : Holder(g)' = Holder(g)
  BY <1>2, <1>7, WroteOrLost, WrotePeer
<1>11. \A d \in Client : Piece(d) \in Range(conn'[Mine].acc) => d = worker.of
  BY <1>1, <1>3, <1>6
<1> QED BY <1>1, <1>5, <1>9, <1>10, <1>11, FillsOwns

LEMMA FlagOwns ==
  ASSUME Places, Owns, Flag
  PROVE  Owns'
<1>0. /\ \A j \in Slot : SlotOwn(j)
      /\ \A c \in Client : CallOwn(c)
      /\ WiresOwn(peer)
  BY OwnsParts
<1>10. Mine \in Slot /\ worker.of \in Client
  BY CalledOwns DEF Flag
<1>11. PICK i \in Slot : i = Mine
  BY <1>10
<1>12. PICK w \in Client : w = worker.of
  BY <1>10
<1>1. /\ worker.at = "flag" /\ UNCHANGED <<peer, req>>
      /\ \A j \in Slot : j # i => conn'[j] = conn[j]
      /\ conn'[i].st = C.st /\ conn'[i].fd = C.fd /\ conn'[i].hdr = C.hdr
      /\ conn'[i].acc = C.acc /\ conn'[i].of = C.of
  BY <1>11, FlagFacts
<1>2. /\ C = conn[i] /\ Holder(conn[i].fd) = {w}
      /\ conn[i].st \in {"routing", "streaming"} /\ req[w].st = "active"
      /\ \A c \in Client : c # w /\ MayTouch(c) => req[c].slot # i
  BY <1>1, <1>11, <1>12, CalledOwns
<1>3. worker'.at = "return" /\ worker'.of = worker.of /\ Ends'
  <2>1. worker' = [worker EXCEPT !.at = "return"] /\ Ends
    BY <1>1 DEF Flag, Places, WorkerPlace
  <2>2. /\ worker'.at = "return" /\ worker'.of = worker.of
        /\ worker'.final = worker.final /\ worker'.cut = worker.cut /\ worker'.rc = worker.rc
    BY <2>1, WorkerAt DEF Places, TypeOK
  <2> QED BY <2>1, <2>2 DEF Ends
<1>4. ~MayTouch(w)'
  BY <1>1, <1>2, <1>3, <1>12 DEF MayTouch
<1>5. Fewer
  BY <1>1, <1>3 DEF Fewer, MayTouch
<1>6. ASSUME NEW j \in Slot PROVE Holder(conn[j].fd)' = Holder(conn[j].fd)
  BY <1>1, <1>2 DEF Holder
<1>7. ASSUME NEW j \in Slot PROVE SlotOwn(j)'
  <2>1. CASE j # i
    BY <1>0, <1>1, <1>5, <1>6, <2>1, SlotSame
  <2>2. CASE j = i
    <3>1. \A c \in Holder(conn[i].fd)' : req'[c].st # "none"
      BY <1>1, <1>2, <1>6
    <3>2. conn'[i].st = "streaming" => Holder(conn[i].fd)' = {conn'[i].of}
      BY <1>0, <1>1, <1>2, <1>6 DEF SlotOwn
    <3>3. \A d \in Client : Piece(d) \in Range(conn'[i].acc) => Holder(conn[i].fd)' = {d}
      BY <1>0, <1>1, <1>2, <1>6 DEF SlotOwn
    <3>4. conn'[i].st # "free"
      BY <1>1, <1>2
    <3> QED BY <2>2, <3>1, <3>2, <3>3, <3>4 DEF SlotOwn
  <2> QED BY <2>1, <2>2
<1>8. ASSUME NEW c \in Client PROVE CallOwn(c)'
  <2>1. \A j \in Slot : j = req[c].slot /\ MayTouch(c)' => j # i
    BY <1>2, <1>4, <1>5 DEF Fewer
  <2> QED BY <1>0, <1>1, <1>5, <1>6, <2>1, CallSame DEF Places
<1>9. WiresOwn(peer')
  BY <1>0, <1>1
<1> QED BY <1>7, <1>8, <1>9, OwnsPartsNext

LEMMA InitOwns == Init => Owns
<1> SUFFICES ASSUME Init PROVE Owns
  OBVIOUS
<1>1. \A i \in Slot : conn[i] = ConnAt("free", NoFd)
  BY DEF Init, FreeConn
<1>2. ASSUME NEW i \in Slot PROVE SlotOwn(i)
  <2>0. conn[i] = ConnAt("free", NoFd) /\ conn[i] = FreeConn
    BY <1>1 DEF FreeConn
  <2>1. /\ conn[i].st = "free" /\ ~conn[i].fin /\ ~conn[i].hdr
        /\ conn[i].acc = <<>> /\ conn[i].samples = 0
    BY <2>0 DEF ConnAt
  <2>2. Range(conn[i].acc) = {}
    BY <2>1 DEF Range
  <2> QED BY <2>0, <2>1, <2>2 DEF SlotOwn
<1>3. ASSUME NEW c \in Client PROVE CallOwn(c)
  BY DEF Init, CallOwn, MayTouch
<1>4. WiresOwn(peer)
  <2>1. ASSUME NEW c \in Client PROVE Range(peer[c].wire) = {}
    <3>1. peer[c].wire = <<>>
      BY DEF Init
    <3> QED BY <3>1 DEF Range
  <2> QED BY <2>1 DEF WiresOwn
<1> QED BY <1>2, <1>3, <1>4, OwnsParts

LEMMA NextOwns == NoWindow /\ Places /\ Owns /\ [Next]_vars => Owns'
<1> SUFFICES ASSUME NoWindow, Places, Owns, [Next]_vars PROVE Owns'
  OBVIOUS
<1>1. CASE PollLoop
  <2>1. CASE NextTurn \/ ServeNone
    <3>1. UNCHANGED <<peer, conn, req, worker>>
      BY <2>1 DEF NextTurn, ServeNone
    <3> QED BY <3>1, TouchSame, LoopOwns
  <2> QED BY <1>1, <2>1, BuildOwns, PollAcceptOwns, ServeIdleOwns, ServeStreamingOwns, ReadOwns,
             RouteHeadOwns, RouteSubmitOwns, RouteSubmittedOwns, RouteRefusedOwns,
             ShutdownOwns, ExitOwns DEF PollLoop
<1>2. CASE WorkerStep
  BY <1>2, PopOwns, StartedOwns, DeliverOwns, ReturnOwns, EmitOwns, CloseOwns, FlagOwns DEF WorkerStep
<1>3. CASE Environment
  BY <1>3, ClientOwns DEF Environment
<1>4. CASE UNCHANGED vars
  <2>1. UNCHANGED <<peer, conn, req, worker>>
    BY <1>4 DEF vars
  <2> QED BY <2>1, TouchSame, LoopOwns
<1> QED BY <1>1, <1>2, <1>3, <1>4 DEF Next

(* With cancels that meet their request, a connection belongs to the        *)
(* request whose callback may still touch it.                               *)
THEOREM OwnsKept ==
  ASSUME NoWindow
  PROVE  Spec => [](Places /\ Owns)
<1>1. Init => Places /\ Owns
  BY InitPlaces, InitOwns
<1>2. Places /\ Owns /\ [Next]_vars => (Places /\ Owns)'
  BY NextPlaces, NextOwns
<1> QED BY <1>1, <1>2, PTL DEF Spec

(* src/http/http.c:31-33, for any number of clients and connections: no     *)
(* descriptor is closed or reused under a callback, and no client ever      *)
(* hears another's audio.                                                   *)
THEOREM ConnectionKept ==
  ASSUME NoWindow
  PROVE  Spec => []OwnsItsConnection
<1>1. Owns => OwnsItsConnection
  BY DEF Owns
<1> QED BY <1>1, OwnsKept, PTL

=============================================================================
