------------------------- MODULE HttpResponseProofs --------------------------
(* Proofs about what a client of the server receives: one response each,    *)
(* complete when it says so, and complete when its connection is closed     *)
(* behind a client that stayed and read.  First what a response is made of  *)
(* and how it grows, then one lemma an action for the invariant Responses,  *)
(* on top of Places and Owns, and one for the step that closes.             *)
EXTENDS HttpConnProofs
-----------------------------------------------------------------------------
(* What a response is made of.                                              *)

LEMMA TokenNames ==
  /\ Continue[1] = "continue" /\ Head200[1] = "head" /\ WavHdr[1] = "wavhdr"
  /\ EndChunk[1] = "end" /\ \A n : Simple(n)[1] = "simple" /\ Length(n)[1] = "length"
  /\ \A n : Length(n)[2] = n
  /\ \A c : Piece(c)[1] = "audio"
BY DEF Continue, Head200, WavHdr, EndChunk, Simple, Length, Piece

(* OneResponse, of one client. *)
OneAnswer(w, kind, take) ==
  /\ Tokens(w, "continue") = {}
  /\ Tokens(w, "simple") \cup Tokens(w, "head") \cup Tokens(w, "length") \subseteq {1}
  /\ Tokens(w, "simple") # {} => Len(w) = 1
  /\ Tokens(w, "wavhdr") \subseteq {2} /\ Tokens(w, "end") \subseteq {Len(w)}
  /\ kind = "wav" /\ Tokens(w, "audio") # {} => Tokens(w, "wavhdr") = {2}
  /\ Tokens(w, "length") # {} => w[1][2] = Heard(w)
  /\ Tokens(w, "length") \cup Tokens(w, "end") # {} => Heard(w) = Audible(take)

AnswerOf(c) == OneAnswer(Response(peer[c].wire), peer[c].kind, req[c].take)

LEMMA OneResponseParts == OneResponse <=> \A c \in Client : AnswerOf(c)
BY DEF OneResponse, AnswerOf, OneAnswer

LEMMA ResponseIsSeq ==
  ASSUME NEW w \in Seq(Token)
  PROVE  Response(w) \in Seq(Token)
BY DEF Response

(* A write behind a response that has begun, or that is no 100 Continue. *)
LEMMA ResponseGrows ==
  ASSUME NEW w \in Seq(Token), NEW t \in Seq(Token),
         w # <<>> \/ t = <<>> \/ t[1] # Continue
  PROVE  Response(w \o t) = Response(w) \o t
<1>1. CASE w = <<>>
  <2>1. w \o t = t /\ Response(w) = <<>>
    BY <1>1 DEF Response
  <2>2. Response(t) = t
    BY <1>1 DEF Response
  <2> QED BY <2>1, <2>2
<1>2. CASE w # <<>>
  <2>1. Len(w) > 0 /\ (w \o t)[1] = w[1] /\ w \o t # <<>> /\ w \o t \in Seq(Token)
    BY <1>2
  <2>2. CASE w[1] = Continue
    <3>1. Response(w \o t) = Tail(w \o t) /\ Response(w) = Tail(w)
      BY <1>2, <2>1, <2>2 DEF Response
    <3>2. Tail(w \o t) = Tail(w) \o t
      BY <1>2, <2>1
    <3> QED BY <3>1, <3>2
  <2>3. CASE w[1] # Continue
    BY <1>2, <2>1, <2>3 DEF Response
  <2> QED BY <2>2, <2>3
<1> QED BY <1>1, <1>2

(* Nothing but a 100 Continue has been sent. *)
LEMMA ResponseBegins ==
  ASSUME NEW w \in Seq(Token), Response(w) = <<>>, NEW t \in Seq(Token),
         t = <<>> \/ t[1] # Continue
  PROVE  Response(w \o t) = t
<1>1. Response(w \o t) = <<>> \o t
  BY ResponseGrows
<1> QED BY <1>1

LEMMA NoAnswer ==
  ASSUME NEW kind, NEW take
  PROVE  OneAnswer(<<>>, kind, take)
<1>1. \A name : Tokens(<<>>, name) = {}
  BY DEF Tokens
<1> QED BY <1>1 DEF OneAnswer

LEMMA SimpleAnswer ==
  ASSUME NEW n, NEW kind, NEW take
  PROVE  OneAnswer(<<Simple(n)>>, kind, take)
<1> DEFINE w == <<Simple(n)>>
<1>1. Len(w) = 1 /\ DOMAIN w = {1} /\ w[1][1] = "simple"
  BY TokenNames
<1> HIDE DEF w
<1>2. \A name : Tokens(w, name) = IF name = "simple" THEN {1} ELSE {}
  BY <1>1 DEF Tokens
<1>3. OneAnswer(w, kind, take)
  BY <1>1, <1>2 DEF OneAnswer
<1> QED BY <1>3 DEF w

(* A streamed response: the head, h headers, k pieces, e terminal chunks. *)
Streamed(w, h, k, e, c) ==
  /\ Len(w) = 1 + h + k + e /\ w[1] = Head200
  /\ h = 1 => w[2] = WavHdr
  /\ \A j \in DOMAIN w : j >= 2 + h /\ j <= 1 + h + k => w[j] = Piece(c)
  /\ e = 1 => w[Len(w)] = EndChunk

LEMMA StreamedAnswer ==
  ASSUME NEW w \in Seq(Token), NEW h \in {0, 1}, NEW k \in Nat, NEW e \in {0, 1}, NEW c,
         NEW kind, NEW take, Streamed(w, h, k, e, c),
         kind = "wav" /\ k > 0 => h = 1, e = 1 => k = Audible(take)
  PROVE  OneAnswer(w, kind, take)
<1>1. DOMAIN w = 1 .. 1 + h + k + e /\ Len(w) = 1 + h + k + e
  BY DEF Streamed
<1>2. \A j \in DOMAIN w :
        w[j][1] = IF j = 1 THEN "head"
                  ELSE IF j = 2 /\ h = 1 THEN "wavhdr"
                  ELSE IF j <= 1 + h + k THEN "audio" ELSE "end"
  BY <1>1, TokenNames DEF Streamed
<1>3. Tokens(w, "audio") = (2 + h) .. (1 + h + k)
  BY <1>1, <1>2 DEF Tokens
<1>4. Heard(w) = k
  <2>1. Cardinality((2 + h) .. (1 + h + k)) =
          IF 2 + h > 1 + h + k THEN 0 ELSE (1 + h + k) - (2 + h) + 1
    BY FS_Interval
  <2> QED BY <1>3, <2>1 DEF Heard
<1>5. Tokens(w, "continue") = {} /\ Tokens(w, "simple") = {} /\ Tokens(w, "length") = {}
  BY <1>1, <1>2 DEF Tokens
<1>6. Tokens(w, "head") \subseteq {1} /\ Tokens(w, "wavhdr") \subseteq {2}
  BY <1>1, <1>2 DEF Tokens
<1>7. h = 1 => Tokens(w, "wavhdr") = {2}
  BY <1>1, <1>2 DEF Tokens
<1>8. Tokens(w, "end") \subseteq {Len(w)} /\ (Tokens(w, "end") # {} => e = 1)
  BY <1>1, <1>2 DEF Tokens
<1>9. Tokens(w, "audio") # {} => k > 0
  BY <1>3
<1> QED BY <1>4, <1>5, <1>6, <1>7, <1>8, <1>9 DEF OneAnswer

(* A sequence behind one element. *)
LEMMA BehindOne ==
  ASSUME NEW S, NEW one \in Seq(S), Len(one) = 1, NEW s \in Seq(S)
  PROVE  /\ one \o s \in Seq(S) /\ Len(one \o s) = 1 + Len(s)
         /\ DOMAIN (one \o s) = 1 .. 1 + Len(s) /\ (one \o s)[1] = one[1]
         /\ \A j \in 2 .. 1 + Len(s) : j - 1 \in DOMAIN s /\ (one \o s)[j] = s[j - 1]
<1>0. PICK w : w = one \o s
  OBVIOUS
<1>1. /\ w \in Seq(S) /\ Len(w) = 1 + Len(s) /\ Len(s) \in Nat
      /\ \A j \in 1 .. 1 + Len(s) : w[j] = IF j <= 1 THEN one[j] ELSE s[j - 1]
  <2>1. PICK n : n = Len(one)
    OBVIOUS
  <2>2. /\ w \in Seq(S) /\ Len(w) = n + Len(s)
        /\ \A j \in 1 .. n + Len(s) : w[j] = IF j <= n THEN one[j] ELSE s[j - n]
    BY <1>0, <2>1, ConcatProperties, Zenon
  <2>3. n = 1
    BY <2>1
  <2>4. Len(s) \in Nat
    OBVIOUS
  <2> QED BY <2>2, <2>3, <2>4
<1>2. DOMAIN w = 1 .. 1 + Len(s) /\ DOMAIN s = 1 .. Len(s)
  BY <1>1
<1>3. w[1] = one[1]
  BY <1>1
<1>4. ASSUME NEW j \in 2 .. 1 + Len(s)
      PROVE  j - 1 \in DOMAIN s /\ w[j] = s[j - 1]
  BY <1>1, <1>2
<1> QED BY <1>0, <1>1, <1>2, <1>3, <1>4

(* A file: its length, and that many pieces. *)
LEMMA FileAnswer ==
  ASSUME NEW acc \in Seq(Token), NEW c, Pieces(acc, 1, c), NEW kind, NEW take,
         kind # "wav", Len(acc) = Audible(take)
  PROVE  OneAnswer(<<Length(Len(acc))>> \o acc, kind, take)
<1> DEFINE k == Len(acc)
           one == <<Length(k)>>
           w == one \o acc
<1>1. k \in Nat /\ one \in Seq(Token) /\ Len(one) = 1 /\ one[1] = Length(k)
  BY TokensAreTokens
<1> HIDE DEF one
<1>11. /\ w \in Seq(Token) /\ Len(w) = 1 + k /\ w[1] = Length(k)
       /\ DOMAIN w = 1 .. 1 + k
       /\ \A j \in 2 .. 1 + k : j - 1 \in DOMAIN acc /\ w[j] = acc[j - 1]
  BY <1>1, BehindOne
<1>12. ASSUME NEW j \in DOMAIN w, j > 1
       PROVE  j - 1 \in DOMAIN acc /\ w[j] = acc[j - 1]
  <2> HIDE DEF w
  <2>1. j \in 2 .. 1 + k
    BY <1>1, <1>11, <1>12
  <2> QED BY <1>11, <2>1
<1> HIDE DEF w
<1>2. w \in Seq(Token) /\ Len(w) = 1 + k /\ w[1] = Length(k)
      /\ \A j \in DOMAIN w : j > 1 => j - 1 \in DOMAIN acc /\ w[j] = acc[j - 1]
  BY <1>11, <1>12
<1>3. \A j \in DOMAIN w : w[j][1] = IF j = 1 THEN "length" ELSE "audio"
  <2>1. \A j \in DOMAIN w : j > 1 => w[j] = Piece(c)
    BY <1>2 DEF Pieces
  <2>2. \A j \in DOMAIN w : j = 1 \/ j > 1
    BY <1>2
  <2> QED BY <1>2, <2>1, <2>2, TokenNames
<1>4. DOMAIN w = 1 .. 1 + k
  BY <1>2
<1>5. Tokens(w, "audio") = 2 .. 1 + k
  BY <1>1, <1>3, <1>4 DEF Tokens
<1>6. Heard(w) = k
  <2>1. PICK n \in Nat : n = k
    BY <1>1
  <2>2. Cardinality(2 .. 1 + n) = IF 2 > 1 + n THEN 0 ELSE (1 + n) - 2 + 1
    BY FS_Interval
  <2>3. Cardinality(2 .. 1 + n) = n
    BY <2>2
  <2> QED BY <1>5, <2>1, <2>3 DEF Heard
<1>7. /\ Tokens(w, "continue") = {} /\ Tokens(w, "simple") = {} /\ Tokens(w, "head") = {}
      /\ Tokens(w, "wavhdr") = {} /\ Tokens(w, "end") = {}
  BY <1>3 DEF Tokens
<1>8. Tokens(w, "length") \subseteq {1}
  BY <1>3 DEF Tokens
<1>9. w[1][2] = k
  BY <1>2, TokenNames
<1>10. OneAnswer(w, kind, take)
  BY <1>6, <1>7, <1>8, <1>9 DEF OneAnswer
<1> QED BY <1>10 DEF w, one

(* A complete response stays complete, and a last word completes one. *)
LEMMA CompleteGrows ==
  ASSUME NEW w \in Seq(Token), NEW t \in Seq(Token), Complete(Response(w))
  PROVE  Complete(Response(w \o t))
<1>1. PICK name \in {"simple", "length", "end"} : Tokens(Response(w), name) # {}
  BY DEF Complete
<1>2. PICK j \in DOMAIN Response(w) : Response(w)[j][1] = name
  BY <1>1 DEF Tokens
<1>3. w # <<>>
  BY <1>2 DEF Response
<1>4. Response(w) \in Seq(Token) /\ Response(w \o t) = Response(w) \o t
  BY <1>3, ResponseIsSeq, ResponseGrows
<1>5. j \in DOMAIN Response(w \o t) /\ Response(w \o t)[j] = Response(w)[j]
  BY <1>2, <1>4
<1>6. j \in Tokens(Response(w \o t), name)
  BY <1>2, <1>5 DEF Tokens
<1> QED BY <1>6 DEF Complete

LEMMA CompleteAt ==
  ASSUME NEW w \in Seq(Token), NEW j \in DOMAIN w,
         w[j] = EndChunk \/ \E n : w[j] = Simple(n) \/ w[j] = Length(n)
  PROVE  Complete(w)
<1>1. w[j][1] \in {"simple", "length", "end"}
  BY TokenNames
<1>2. j \in Tokens(w, w[j][1])
  BY DEF Tokens
<1> QED BY <1>1, <1>2 DEF Complete

-----------------------------------------------------------------------------
(* Responses, of one connection or one client.                              *)

OpenTo(i, c) ==
  /\ conn[i].st = "head" => peer[c].wire = <<>>
  /\ Reading(i) => Response(peer[c].wire) = <<>>
  /\ conn[i].st \in {"routing", "streaming"} => conn[i].kind = peer[c].kind /\ conn[i].kind # "simple"
  /\ conn[i].st = "routing" /\ loop.at = "submit" /\ req[c].st = "none" =>
       Response(peer[c].wire) = IF conn[i].kind = "buffered" THEN <<>> ELSE <<Head200>>

OpenOf(i) ==
  /\ conn[i].st = "head" => conn[i].got = 0
  /\ conn[i].st = "body" => conn[i].got > 0
  /\ \A c \in Holder(conn[i].fd) : OpenTo(i, c)

FlagOf(c) == worker.at = "flag" /\ worker.of = c

FinTo(i, c) ==
  conn[i].fin \/ FlagOf(c) => Complete(Response(peer[c].wire)) \/ peer[c].gone \/ peer[c].slow
FinOf(i) == \A c \in Holder(conn[i].fd) : FinTo(i, c)

(* Behind w, the connection K waits for what is pending of made pieces. *)
Mid(K, w, pending, made, c) ==
  /\ K.samples + pending = Audible(made)
  /\ K.kind = "buffered" =>
       w = <<>> /\ ~K.hdr /\ Len(K.acc) = K.samples /\ Pieces(K.acc, 1, c)
  /\ K.kind # "buffered" /\ ~K.hdr =>
       /\ Len(w) = 1 + K.samples /\ w[1] = Head200 /\ Pieces(w, 2, c)
       /\ K.kind = "wav" => K.samples = 0
  /\ K.kind # "buffered" /\ K.hdr =>
       /\ K.kind = "wav" /\ Len(w) = 2 + K.samples
       /\ w[1] = Head200 /\ w[2] = WavHdr /\ Pieces(w, 3, c)

MidOf(c) ==
  Writing(c) => Mid(conn[req[c].slot], Response(peer[c].wire), Pending(c), req[c].made, c)

LEMMA ResponsesParts ==
  Responses <=> /\ \A i \in Slot : OpenOf(i) /\ FinOf(i)
                /\ \A c \in Client : MidOf(c) /\ AnswerOf(c)
                /\ Taken
<1>1. Opening <=> \A i \in Slot : OpenOf(i)
  BY DEF Opening, OpenOf, OpenTo
<1>2. Finished <=> \A i \in Slot : FinOf(i)
  BY DEF Finished, FinOf, FinTo, FlagOf
<1>3. Middle <=> \A c \in Client : MidOf(c)
  BY DEF Middle, MidOf, Mid
<1> QED BY <1>1, <1>2, <1>3, OneResponseParts DEF Responses

LEMMA ResponsesNext ==
  ASSUME \A i \in Slot : OpenOf(i)' /\ FinOf(i)', \A c \in Client : MidOf(c)' /\ AnswerOf(c)',
         Taken'
  PROVE  Responses'
<1>1. Opening'
  BY DEF Opening, OpenOf, OpenTo
<1>2. Finished'
  BY DEF Finished, FinOf, FinTo, FlagOf
<1>3. Middle'
  BY DEF Middle, MidOf, Mid
<1>4. OneResponse'
  BY DEF OneResponse, AnswerOf, OneAnswer
<1> QED BY <1>1, <1>2, <1>3, <1>4 DEF Responses

(* The client hears nothing new. *)
HearsSame(c) ==
  /\ peer'[c].wire = peer[c].wire /\ peer'[c].kind = peer[c].kind
  /\ peer[c].gone => peer'[c].gone
  /\ peer[c].slow => peer'[c].slow

(* Nor does what is to be written on the connection change. *)
Stays(i) ==
  /\ Holder(conn[i].fd)' = Holder(conn[i].fd)
  /\ conn'[i].fin = conn[i].fin /\ conn'[i].hdr = conn[i].hdr /\ conn'[i].acc = conn[i].acc
  /\ conn'[i].samples = conn[i].samples /\ conn'[i].kind = conn[i].kind
  /\ \A c \in Holder(conn[i].fd) : HearsSame(c)

(* It is as far as it was. *)
Rests(i) ==
  /\ Stays(i) /\ conn'[i].st = conn[i].st
  /\ conn[i].st \in {"head", "body"} => conn'[i].got = conn[i].got
  /\ conn[i].st = "routing" => loop'.at = loop.at

(* What its callback has to write is the same. *)
Calm(c) ==
  Writing(c)' =>
    /\ Writing(c) /\ req'[c].slot = req[c].slot /\ req'[c].made = req[c].made
    /\ Pending(c)' = Pending(c)

NoneNew == \A c \in Client : req'[c].st = "none" => req[c].st = "none"

LEMMA OpenSame ==
  ASSUME NEW i \in Slot, OpenOf(i), Rests(i), NoneNew
  PROVE  OpenOf(i)'
<1>1. /\ conn'[i].st = "head" => conn'[i].got = 0
      /\ conn'[i].st = "body" => conn'[i].got > 0
  BY DEF OpenOf, Rests
<1>2. ASSUME NEW c \in Holder(conn[i].fd)' PROVE OpenTo(i, c)'
  <2>1. c \in Holder(conn[i].fd) /\ c \in Client /\ OpenTo(i, c) /\ HearsSame(c)
    BY <1>2 DEF Rests, Stays, OpenOf, Holder
  <2>2. Reading(i)' => Reading(i)
    BY DEF Reading, Rests
  <2>3. req'[c].st = "none" => req[c].st = "none"
    BY <2>1 DEF NoneNew
  <2>4. /\ conn'[i].st = conn[i].st /\ conn'[i].kind = conn[i].kind
        /\ conn[i].st = "routing" => loop'.at = loop.at
        /\ peer'[c].wire = peer[c].wire /\ peer'[c].kind = peer[c].kind
    BY <2>1 DEF Rests, Stays, HearsSame
  <2> QED BY <2>1, <2>2, <2>3, <2>4 DEF OpenTo
<1> QED BY <1>1, <1>2 DEF OpenOf

LEMMA FinSame ==
  ASSUME NEW i \in Slot, FinOf(i), Stays(i),
         \A c \in Holder(conn[i].fd) : FlagOf(c)' => FlagOf(c)
  PROVE  FinOf(i)'
<1>1. ASSUME NEW c \in Holder(conn[i].fd)' PROVE FinTo(i, c)'
  <2>1. c \in Holder(conn[i].fd) /\ FinTo(i, c) /\ HearsSame(c) /\ (FlagOf(c)' => FlagOf(c))
    BY <1>1 DEF Stays, FinOf
  <2>2. /\ conn'[i].fin = conn[i].fin /\ peer'[c].wire = peer[c].wire
        /\ peer[c].gone => peer'[c].gone
        /\ peer[c].slow => peer'[c].slow
    BY <2>1 DEF Stays, HearsSame
  <2> QED BY <2>1, <2>2 DEF FinTo
<1> QED BY <1>1 DEF FinOf

LEMMA MidSame ==
  ASSUME Asked, NEW c \in Client, CallOwn(c), MidOf(c), Calm(c),
         \A i \in Slot : Writing(c)' /\ i = req[c].slot => Stays(i)
  PROVE  MidOf(c)'
<1> SUFFICES ASSUME Writing(c)'
             PROVE  Mid(conn[req[c].slot], Response(peer[c].wire), Pending(c), req[c].made, c)'
  BY DEF MidOf
<1>1. /\ Writing(c) /\ req'[c].slot = req[c].slot /\ req'[c].made = req[c].made
      /\ Pending(c)' = Pending(c)
  BY DEF Calm
<1>2. MayTouch(c)
  BY <1>1 DEF Writing
<1>3. req[c].slot \in Slot /\ Holder(conn[req[c].slot].fd) = {c}
  BY <1>2, TouchedSlot DEF CallOwn
<1>4. PICK i \in Slot : i = req[c].slot
  BY <1>3
<1>5. Stays(i) /\ HearsSame(c)
  BY <1>1, <1>3, <1>4 DEF Stays
<1>6. /\ conn'[i].hdr = conn[i].hdr /\ conn'[i].acc = conn[i].acc
      /\ conn'[i].samples = conn[i].samples /\ conn'[i].kind = conn[i].kind
      /\ peer'[c].wire = peer[c].wire
  BY <1>5 DEF Stays, HearsSame
<1>7. Mid(conn[i], Response(peer[c].wire), Pending(c), req[c].made, c)
  BY <1>1, <1>4 DEF MidOf
<1>8. Mid(conn'[i], Response(peer[c].wire), Pending(c), req[c].made, c)
  BY <1>6, <1>7 DEF Mid
<1> QED BY <1>1, <1>4, <1>6, <1>8

LEMMA AnswerSame ==
  ASSUME NEW c \in Client, AnswerOf(c),
         peer'[c].wire = peer[c].wire /\ peer'[c].kind = peer[c].kind, req'[c].take = req[c].take
  PROVE  AnswerOf(c)'
BY DEF AnswerOf

(* The step is about connection i, if any. *)
LEMMA StepResponses ==
  ASSUME Places, Owns, Responses, Taken', NoneNew, NEW i,
         \A j \in Slot : j # i => Rests(j) /\ \A c \in Holder(conn[j].fd) : FlagOf(c)' => FlagOf(c),
         i \in Slot => OpenOf(i)' /\ FinOf(i)',
         \A c \in Client : AnswerOf(c)',
         \A c \in Client : (Calm(c) /\ (Writing(c)' => req[c].slot # i)) \/ MidOf(c)'
  PROVE  Responses'
<1>0. /\ \A j \in Slot : OpenOf(j) /\ FinOf(j)
      /\ \A c \in Client : MidOf(c) /\ CallOwn(c)
  BY ResponsesParts, OwnsParts
<1>1. ASSUME NEW j \in Slot PROVE OpenOf(j)' /\ FinOf(j)'
  <2>1. CASE j = i
    BY <2>1
  <2>2. CASE j # i
    <3>1. Rests(j) /\ Stays(j)
      BY <2>2 DEF Rests
    <3> QED BY <1>0, <2>2, <3>1, OpenSame, FinSame
  <2> QED BY <2>1, <2>2
<1>2. ASSUME NEW c \in Client PROVE MidOf(c)'
  <2>1. CASE Calm(c) /\ (Writing(c)' => req[c].slot # i)
    <3>1. \A j \in Slot : Writing(c)' /\ j = req[c].slot => Stays(j)
      BY <2>1 DEF Rests
    <3> QED BY <1>0, <2>1, <3>1, MidSame DEF Places
  <2> QED BY <2>1
<1> QED BY <1>1, <1>2, ResponsesNext

(* Steps that leave the worker alone, and at most end requests. *)
Ended ==
  /\ UNCHANGED worker
  /\ worker.of \in Client => req'[worker.of] = req[worker.of]
  /\ \A c \in Client :
       \/ req'[c] = req[c]
       \/ req'[c].st = "over" /\ req'[c].made = 0 /\ req'[c].take = req[c].take

LEMMA SameEnded == UNCHANGED <<req, worker>> => Ended
BY DEF Ended

LEMMA CancelEnded ==
  ASSUME Places, NoWindow, NEW c \in Client, CancelReq(c), UNCHANGED worker
  PROVE  Ended
<1>1. worker.of \in Client => req'[worker.of] = req[worker.of]
  BY CancelFacts DEF Places, TypeOK
<1>2. req' = Over(c) \/ req' = req
  BY DEF CancelReq
<1>3. /\ Over(c)[c].st = "over" /\ Over(c)[c].made = 0 /\ Over(c)[c].take = req[c].take
      /\ \A d \in Client : d # c => Over(c)[d] = req[d]
  BY DEF Over, Places, TypeOK, WorkType
<1> QED BY <1>1, <1>2, <1>3 DEF Ended

LEMMA EndedCalm ==
  ASSUME Places, Taken, Ended
  PROVE  /\ NoneNew /\ Taken' /\ \A c \in Client : Calm(c) /\ req'[c].take = req[c].take
         /\ \A c : FlagOf(c)' => FlagOf(c)
<1> USE DEF Places, TypeOK
<1>1. NoneNew
  BY DEF Ended, NoneNew
<1>2. ASSUME NEW c \in Client PROVE Calm(c) /\ req'[c].take = req[c].take
  <2>1. CASE req'[c] = req[c]
    <3>1. Writing(c)' => Writing(c)
      BY <2>1 DEF Ended, Writing, MayTouch, Ends
    <3>2. Pending(c)' = Pending(c)
      BY DEF Ended, Pending
    <3> QED BY <2>1, <3>1, <3>2 DEF Calm
  <2>2. CASE req'[c].st = "over" /\ req'[c].take = req[c].take
    BY <2>2 DEF Calm, Writing, MayTouch
  <2> QED BY <2>1, <2>2 DEF Ended
<1>3. Taken'
  <2>1. \A c \in Client : req'[c].st \in {"queued", "starting"} => req'[c].made = 0
    BY DEF Ended, Taken
  <2>2. ASSUME NEW c \in Client PROVE req'[c].made <= req'[c].take
    <3>1. req[c].take \in Nat
      BY DEF WorkType
    <3> QED BY <3>1 DEF Ended, Taken
  <2>3. ASSUME worker'.at \in {"emit", "close"}
        PROVE  /\ worker'.cut => Audible(req'[worker'.of].made) = Audible(req'[worker'.of].take)
               /\ worker'.final => req'[worker'.of].made = req'[worker'.of].take
    <3>1. worker' = worker /\ worker.of \in Client /\ req'[worker.of] = req[worker.of]
      BY <2>3, CalledFacts DEF Ended
    <3> QED BY <2>3, <3>1 DEF Taken
  <2> QED BY <2>1, <2>2, <2>3 DEF Taken
<1>4. \A c : FlagOf(c)' => FlagOf(c)
  BY DEF FlagOf, Ended
<1> QED BY <1>1, <1>2, <1>3, <1>4
(* A connection is reset, with p on the wires. *)
LEMMA DropsResponses ==
  ASSUME Places, Owns, Responses, Ended, NEW i \in Slot, NEW p, Drops(i, p),
         \A c \in Client : c \notin Holder(conn[i].fd) => p[c] = peer[c],
         \A c \in Holder(conn[i].fd) : OneAnswer(Response(p[c].wire), peer[c].kind, req[c].take),
         \A j \in Slot : j # i /\ conn[j].st = "routing" => loop'.at = loop.at,
         \A c \in Client : MayTouch(c)' => req[c].slot # i
  PROVE  Responses'
<1> USE DEF Places, TypeOK
<1>0. /\ NoneNew /\ Taken' /\ \A c \in Client : Calm(c) /\ req'[c].take = req[c].take
      /\ \A c : FlagOf(c)' => FlagOf(c)
  BY EndedCalm, ResponsesParts
<1>1. ASSUME NEW fd, fd = conn[i].fd
      PROVE  /\ \A c \in Client : c \notin Holder(fd) => peer'[c] = peer[c]
             /\ \A c \in Client : c \in Holder(fd) =>
                  /\ peer'[c].st = "closed" /\ peer'[c].wire = p[c].wire
                  /\ peer'[c].kind = peer[c].kind
             /\ Holder(fd)' = {} /\ \A g : g # fd => Holder(g)' = Holder(g)
  BY <1>1, ClosedPeer DEF Drops
<1>2. PICK fd : fd = conn[i].fd
  OBVIOUS
<1>3. ASSUME NEW j \in Slot, j # i PROVE Rests(j)
  <2>1. conn'[j] = conn[j] /\ Holder(conn[j].fd)' = Holder(conn[j].fd)
    BY <1>3, OthersKept
  <2>2. ASSUME NEW c \in Holder(conn[j].fd) PROVE HearsSame(c)
    <3>1. c \in Holder(conn[j].fd)' /\ c \in Client
      BY <2>1, <2>2 DEF Holder
    <3>2. peer'[c].st = "open"
      BY <3>1 DEF Holder
    <3>3. peer'[c] = peer[c]
      BY <1>1, <1>2, <3>1, <3>2
    <3> QED BY <3>3 DEF HearsSame
  <2> QED BY <1>3, <2>1, <2>2 DEF Rests, Stays
<1>4. OpenOf(i)' /\ FinOf(i)'
  <2>1. conn'[i].st = "free" /\ conn'[i].fd = NoFd
    BY FreedConn DEF Drops
  <2>2. Holder(NoFd)' = {}
    BY <1>1, <1>2, NoOneHolds
  <2>3. Holder(conn[i].fd)' = {}
    BY <2>1, <2>2
  <2> QED BY <2>1, <2>3 DEF OpenOf, FinOf
<1>5. ASSUME NEW c \in Client PROVE AnswerOf(c)'
  <2>1. CASE c \in Holder(fd)
    <3>1. peer'[c].wire = p[c].wire /\ peer'[c].kind = peer[c].kind /\ req'[c].take = req[c].take
      BY <1>0, <1>1, <1>2, <2>1
    <3>2. OneAnswer(Response(p[c].wire), peer[c].kind, req[c].take)
      BY <1>2, <2>1
    <3> QED BY <3>1, <3>2 DEF AnswerOf
  <2>2. CASE c \notin Holder(fd)
    <3>1. peer'[c] = peer[c] /\ AnswerOf(c)
      BY <1>1, <1>2, <2>2, ResponsesParts
    <3> QED BY <1>0, <3>1, AnswerSame
  <2> QED BY <2>1, <2>2
<1>6. ASSUME NEW c \in Client PROVE Calm(c) /\ (Writing(c)' => req[c].slot # i)
  BY <1>0 DEF Writing
<1> QED BY <1>0, <1>3, <1>4, <1>5, <1>6, StepResponses

LEMMA ResetResponses ==
  ASSUME Places, Owns, Responses, Ended, NEW i \in Slot, Reset(i),
         \A j \in Slot : j # i /\ conn[j].st = "routing" => loop'.at = loop.at,
         \A c \in Client : MayTouch(c)' => req[c].slot # i
  PROVE  Responses'
<1>1. Drops(i, peer)
  BY ResetDrops DEF Places, TypeOK
<1>2. \A c \in Holder(conn[i].fd) : OneAnswer(Response(peer[c].wire), peer[c].kind, req[c].take)
  BY ResponsesParts DEF AnswerOf, Holder
<1> QED BY <1>1, <1>2, DropsResponses

(* What a write leaves of a client's wire. *)
LEMMA WireAfter ==
  ASSUME PeerType, NEW fd, NEW t \in Seq(Token), NEW p \in WrittenOrLost(fd, t), NEW c \in Client
  PROVE  /\ c \notin Holder(fd) => p[c] = peer[c]
         /\ c \in Holder(fd) =>
              \/ p[c].wire = peer[c].wire \o t
              \/ p = peer /\ (peer[c].gone \/ peer[c].slow)
<1>1. CASE p = Written(fd, t)
  BY <1>1 DEF Written, PeerType
<1>2. CASE p # Written(fd, t)
  BY <1>2 DEF WrittenOrLost, SendFails
<1> QED BY <1>1, <1>2

LEMMA AnswerResponses ==
  ASSUME Places, Owns, Responses, UNCHANGED <<req, worker>>, NEW i \in Slot, NEW t \in Seq(Token),
         AnswerAndReset(i, t),
         \A c \in Holder(conn[i].fd) :
           OneAnswer(Response(peer[c].wire \o t), peer[c].kind, req[c].take),
         \A j \in Slot : j # i /\ conn[j].st = "routing" => loop'.at = loop.at,
         \A c \in Client : MayTouch(c) => req[c].slot # i
  PROVE  Responses'
<1> USE DEF Places, TypeOK
<1>1. PICK p \in WrittenOrLost(conn[i].fd, t) : Drops(i, p)
  BY AnswerDrops
<1>2. \A c \in Client : c \notin Holder(conn[i].fd) => p[c] = peer[c]
  BY <1>1, WireAfter
<1>3. ASSUME NEW c \in Holder(conn[i].fd)
      PROVE  OneAnswer(Response(p[c].wire), peer[c].kind, req[c].take)
  <2>1. c \in Client /\ AnswerOf(c)
    BY <1>3, ResponsesParts DEF Holder
  <2>2. p[c].wire = peer[c].wire \o t \/ p[c].wire = peer[c].wire
    BY <1>1, <1>3, <2>1, WireAfter
  <2> QED BY <1>3, <2>1, <2>2 DEF AnswerOf
<1>4. Ended /\ Fewer
  BY SameEnded, TouchSame
<1>5. \A c \in Client : MayTouch(c)' => req[c].slot # i
  BY <1>4 DEF Fewer
<1> QED BY <1>1, <1>2, <1>3, <1>4, <1>5, DropsResponses

(* Steps that no connection and no client notices. *)
LEMMA QuietResponses ==
  ASSUME Places, Owns, Responses, Taken', NoneNew, UNCHANGED <<peer, conn>>,
         \A j \in Slot : conn[j].st = "routing" => loop'.at = loop.at,
         \A c \in Client : req'[c].take = req[c].take,
         \A c : FlagOf(c)' => FlagOf(c),
         \A c \in Client : Calm(c) \/ MidOf(c)'
  PROVE  Responses'
<1>1. ASSUME NEW j \in Slot PROVE Rests(j)
  BY DEF Rests, Stays, HearsSame, Holder
<1>2. ASSUME NEW c \in Client PROVE AnswerOf(c)'
  BY AnswerSame, ResponsesParts
<1>3. 0 \notin Slot
  BY DEF Slot
<1>4. ASSUME NEW c \in Client
      PROVE  (Calm(c) /\ (Writing(c)' => req[c].slot # 0)) \/ MidOf(c)'
  <2>1. Writing(c)' /\ Calm(c) => MayTouch(c)
    BY DEF Calm, Writing
  <2>2. MayTouch(c) => req[c].slot # 0
    BY <1>3, TouchedSlot DEF Places
  <2> QED BY <2>1, <2>2
<1> QED BY <1>1, <1>2, <1>3, <1>4, StepResponses

LEMMA LoopResponses ==
  ASSUME Places, Owns, Responses, UNCHANGED <<peer, conn, req, worker>>,
         \A j \in Slot : conn[j].st = "routing" => loop'.at = loop.at
  PROVE  Responses'
<1>1. Ended
  BY SameEnded
<1> QED BY <1>1, EndedCalm, QuietResponses, ResponsesParts

LEMMA ClientResponses ==
  ASSUME Places, Owns, Responses, NEW c \in Client, Connect(c) \/ Send(c) \/ Leave(c) \/ Stall(c)
  PROVE  Responses'
<1>1. /\ UNCHANGED <<conn, req, worker, loop>> /\ \A d \in Client : HearsSame(d)
      /\ \A fd : Holder(fd)' = Holder(fd)
  BY ClientFacts DEF HearsSame
<1>2. Ended
  BY <1>1, SameEnded
<1>3. ASSUME NEW j \in Slot PROVE Rests(j)
  BY <1>1 DEF Rests, Stays, Holder
<1>4. ASSUME NEW d \in Client PROVE AnswerOf(d)'
  BY <1>1, AnswerSame, ResponsesParts DEF HearsSame
<1>5. 0 \notin Slot
  BY DEF Slot
<1>6. ASSUME NEW d \in Client PROVE Calm(d) /\ (Writing(d)' => req[d].slot # 0)
  <2>1. Calm(d)
    BY <1>2, EndedCalm, ResponsesParts
  <2>2. Writing(d)' => MayTouch(d)
    BY <2>1 DEF Calm, Writing
  <2> QED BY <1>5, <2>1, <2>2, TouchedSlot DEF Places
<1> QED BY <1>2, <1>3, <1>4, <1>5, <1>6, EndedCalm, StepResponses, ResponsesParts

LEMMA BuildResponses ==
  ASSUME Places, Owns, Responses, Build
  PROVE  Responses'
<1> USE DEF Places, TypeOK
<1> DEFINE i == loop.k
<1>1. i \in Slot /\ UNCHANGED <<req, worker>> /\ loop.at = "build"
  BY HttpConstants DEF Build, LoopType, Slot
<1>2. \A j \in Slot : conn[j].st # "routing"
  BY <1>1, NotRouting
<1>3. CASE conn[i].fin /\ Reset(i)
  <2>1. Ended /\ Fewer
    BY <1>1, SameEnded, TouchSame
  <2>2. \A c \in Client : MayTouch(c)' => req[c].slot # i
    BY <1>1, <1>3, <2>1, Untouched DEF Fewer
  <2> QED BY <1>1, <1>2, <1>3, <2>1, <2>2, ResetResponses
<1>4. CASE UNCHANGED <<peer, conn>>
  BY <1>1, <1>2, <1>4, LoopResponses
<1> QED BY <1>3, <1>4 DEF Build
LEMMA PollAcceptResponses ==
  ASSUME Places, Owns, Responses, PollAccept
  PROVE  Responses'
<1> USE DEF Places, TypeOK
<1>1. UNCHANGED <<req, worker>> /\ loop.at = "build"
  BY DEF PollAccept
<1>2. Ended /\ \A j \in Slot : conn[j].st # "routing"
  BY <1>1, SameEnded, NotRouting
<1>3. /\ NoneNew /\ Taken' /\ \A c \in Client : Calm(c) /\ req'[c].take = req[c].take
      /\ \A c : FlagOf(c)' => FlagOf(c)
  BY <1>2, EndedCalm, ResponsesParts
<1>4. \A c \in Client : Writing(c)' => MayTouch(c)
  BY <1>3 DEF Calm, Writing
<1>5. CASE UNCHANGED <<peer, conn>>
  BY <1>1, <1>2, <1>5, LoopResponses
<1>6. ASSUME NEW c \in Client, NEW i \in Slot, NEW fd \in Fd,
             peer[c].st = "backlog", Admit(c, i, fd)
      PROVE  Responses'
  <2>1. /\ \A d \in Client : d # c => peer'[d] = peer[d]
        /\ peer'[c].wire = peer[c].wire /\ peer'[c].kind = peer[c].kind
        /\ conn[i].st = "free" /\ conn'[i] = ConnAt("head", fd)
        /\ \A j \in Slot : j # i => conn'[j] = conn[j]
        /\ \A d \in Client : peer[d].fd # fd
        /\ Holder(fd)' = {c} /\ \A g : g # fd => Holder(g)' = Holder(g)
    BY <1>6, AcceptFacts
  <2>2. ASSUME NEW j \in Slot, j # i PROVE Rests(j)
    <3>1. fd # NoFd
      BY DEF Fd, NoFd
    <3>2. conn[j].fd # fd
      <4>1. CASE conn[j].st = "free"
        BY <3>1, <4>1 DEF ConnType
      <4>2. CASE conn[j].st # "free"
        BY <2>1, <4>2 DEF Table, Holder
      <4> QED BY <4>1, <4>2
    <3>3. conn'[j] = conn[j]
      BY <2>1, <2>2
    <3>4. Holder(conn[j].fd)' = Holder(conn[j].fd)
      BY <2>1, <3>2, <3>3
    <3>5. ASSUME NEW d \in Holder(conn[j].fd) PROVE HearsSame(d)
      <4>1. d \in Client /\ d # c
        BY <1>6, <3>5 DEF Holder
      <4> QED BY <2>1, <4>1 DEF HearsSame
    <3> QED BY <1>2, <3>3, <3>4, <3>5 DEF Rests, Stays
  <2>3. /\ conn'[i].st = "head" /\ conn'[i].got = 0 /\ conn'[i].fd = fd /\ ~conn'[i].fin
    BY <2>1 DEF ConnAt
  <2>4. Holder(conn[i].fd)' = {c}
    BY <2>1, <2>3
  <2>5. peer'[c].wire = <<>> /\ req[c].st = "none"
    BY <1>6, <2>1 DEF Asked
  <2>6. Response(peer'[c].wire) = <<>>
    BY <2>5 DEF Response
  <2>7. OpenOf(i)'
    BY <2>3, <2>4, <2>5, <2>6 DEF OpenOf, OpenTo
  <2>8. ~FlagOf(c)
    BY <2>5 DEF FlagOf, WorkerPlace
  <2>9. FinOf(i)'
    BY <1>3, <2>3, <2>4, <2>8 DEF FinOf, FinTo
  <2>10. ASSUME NEW d \in Client PROVE AnswerOf(d)'
    BY <1>3, <2>1, AnswerSame, ResponsesParts
  <2>11. ASSUME NEW d \in Client PROVE Calm(d) /\ (Writing(d)' => req[d].slot # i)
    BY <1>3, <1>4, <2>1, Untouched
  <2> QED BY <1>3, <2>2, <2>7, <2>9, <2>10, <2>11, StepResponses
<1>7. ASSUME NEW c \in Client, peer[c].st = "backlog", TurnAway(c) PROVE Responses'
  <2>1. /\ \A d \in Client : d # c => peer'[d] = peer[d]
        /\ peer'[c].wire = <<Simple(503)>> /\ \A fd : Holder(fd)' = Holder(fd)
        /\ UNCHANGED conn
    BY <1>7, RefuseFacts DEF TurnAway
  <2>2. ASSUME NEW j \in Slot PROVE Rests(j)
    <3>1. ASSUME NEW d \in Holder(conn[j].fd) PROVE HearsSame(d)
      <4>1. d \in Client /\ d # c
        BY <1>7, <3>1 DEF Holder
      <4> QED BY <2>1, <4>1 DEF HearsSame
    <3> QED BY <1>2, <2>1, <3>1 DEF Rests, Stays
  <2>3. ASSUME NEW d \in Client PROVE AnswerOf(d)'
    <3>1. CASE d # c
      BY <1>3, <2>1, <3>1, AnswerSame, ResponsesParts
    <3>2. CASE d = c
      <4> DEFINE t == <<Simple(503)>>
      <4>1. OneAnswer(t, peer'[c].kind, req'[c].take)
        BY SimpleAnswer
      <4>2. Response(t) = t
        <5>1. t[1] # Continue
          BY DEF Simple, Continue
        <5> QED BY <5>1 DEF Response
      <4>3. peer'[c].wire = t
        BY <2>1
      <4> HIDE DEF t
      <4> QED BY <3>2, <4>1, <4>2, <4>3 DEF AnswerOf
    <3> QED BY <3>1, <3>2
  <2>4. 0 \notin Slot
    BY DEF Slot
  <2>5. ASSUME NEW d \in Client PROVE Calm(d) /\ (Writing(d)' => req[d].slot # 0)
    BY <1>3, <1>4, <2>4, TouchedSlot
  <2> QED BY <1>3, <2>2, <2>3, <2>4, <2>5, StepResponses
<1> QED BY <1>5, <1>6, <1>7, PollAcceptCases

(* A connection that is being read has no callback, and has sent at most a  *)
(* 100 Continue.                                                            *)
LEMMA ReadingFacts ==
  ASSUME Places, Owns, Responses, NEW i \in Slot, Reading(i), NEW c \in Holder(conn[i].fd)
  PROVE  /\ c \in Client /\ req[c].st = "none" /\ req[c].take = 0 /\ peer[c].wire \in Seq(Token)
         /\ Response(peer[c].wire) = <<>> /\ (conn[i].st = "head" => peer[c].wire = <<>>)
         /\ ~conn[i].fin /\ ~FlagOf(c)
         /\ \A d \in Client : MayTouch(d) => req[d].slot # i
<1> USE DEF Places, TypeOK
<1>1. c \in Client /\ req[c].st = "none"
  BY DEF Holder, Asked
<1>2. req[c].take = 0 /\ peer[c].wire \in Seq(Token)
  BY <1>1 DEF Asked, PeerType
<1>3. Response(peer[c].wire) = <<>> /\ (conn[i].st = "head" => peer[c].wire = <<>>)
  BY ResponsesParts DEF OpenOf, OpenTo
<1>4. ~FlagOf(c)
  BY <1>1 DEF FlagOf, WorkerPlace
<1>5. ~conn[i].fin
  BY <1>1, OwnsParts DEF SlotOwn
<1>6. \A d \in Client : MayTouch(d) => req[d].slot # i
  BY <1>1, Untouched
<1> QED BY <1>1, <1>2, <1>3, <1>4, <1>5, <1>6

LEMMA ServeIdleResponses ==
  ASSUME Places, Owns, Responses, ServeIdle
  PROVE  Responses'
<1> USE DEF Places, TypeOK
<1>1. PICK i \in Slot : conn[i].st \in {"head", "body"} /\ AnswerAndReset(i, <<Simple(408)>>)
  BY DEF ServeIdle, Served
<1>2. UNCHANGED <<req, worker>> /\ loop.at = "serve"
  BY DEF ServeIdle
<1> DEFINE t == <<Simple(408)>>
<1>3. AnswerAndReset(i, t)
  BY <1>1
<1>4. t \in {<<Simple(n)>> : n \in Nat} /\ t[1] # Continue
  BY DEF Simple, Continue
<1>5. \A kind, take : OneAnswer(t, kind, take)
  BY SimpleAnswer
<1> HIDE DEF t
<1>6. t \in Seq(Token)
  BY <1>4, SilentTokens
<1>7. Reading(i) /\ \A j \in Slot : conn[j].st # "routing"
  BY <1>1, <1>2, NotRouting DEF Reading
<1>8. ASSUME NEW c \in Holder(conn[i].fd)
      PROVE  OneAnswer(Response(peer[c].wire \o t), peer[c].kind, req[c].take)
  <2>1. Response(peer[c].wire) = <<>> /\ peer[c].wire \in Seq(Token)
    BY <1>7, <1>8, ReadingFacts
  <2>2. Response(peer[c].wire \o t) = t
    BY <1>4, <1>6, <2>1, ResponseBegins
  <2> QED BY <1>5, <2>2
<1>9. \A c \in Client : MayTouch(c) => req[c].slot # i
  BY <1>1, Untouched
<1> QED BY <1>2, <1>3, <1>6, <1>7, <1>8, <1>9, AnswerResponses

(* conn_reset of a streaming connection, behind the cancel. *)
LEMMA CancelledResponses ==
  ASSUME Places, NoWindow, Owns, Responses, NEW i \in Slot, conn[i].st = "streaming",
         CancelReq(conn[i].of), Reset(i), UNCHANGED worker,
         \A j \in Slot : j # i /\ conn[j].st = "routing" => loop'.at = loop.at
  PROVE  Responses'
<1>1. SlotOwn(i)
  BY OwnsParts
<1>2. Holder(conn[i].fd) = {conn[i].of} /\ conn[i].of \in Client
  BY <1>1 DEF SlotOwn, Holder
<1>3. PICK c \in Client : c = conn[i].of
  BY <1>2
<1>4. CancelReq(c) /\ Holder(conn[i].fd) = {c}
  BY <1>2, <1>3
<1>5. Fewer /\ ~MayTouch(c)' /\ Ended
  BY <1>4, CancelOwns, CancelEnded
<1>6. ASSUME NEW d \in Client, MayTouch(d)' PROVE req[d].slot # i
  <2>1. MayTouch(d) /\ CallOwn(d)
    BY <1>5, <1>6, OwnsParts DEF Fewer
  <2>2. d # c
    BY <1>5, <1>6
  <2> QED BY <1>4, <2>1, <2>2 DEF CallOwn
<1> QED BY <1>5, <1>6, ResetResponses

LEMMA ServeStreamingResponses ==
  ASSUME Places, NoWindow, Owns, Responses, ServeStreaming
  PROVE  Responses'
<1> USE DEF Places, TypeOK
<1>1. UNCHANGED worker /\ loop.at = "serve"
  BY DEF ServeStreaming
<1>2. PICK i \in Slot, c \in Client :
        /\ conn[i].st = "streaming"
        /\ \/ CancelReq(conn[i].of) /\ Reset(i)
           \/ /\ conn' = [conn EXCEPT ![i].got = peer[c].sent]
              /\ UNCHANGED <<peer, req>>
  BY DEF ServeStreaming, Served, Holder
<1>9. \A j \in Slot : conn[j].st # "routing"
  BY <1>1, NotRouting
<1>3. CASE CancelReq(conn[i].of) /\ Reset(i)
  BY <1>1, <1>2, <1>3, <1>9, CancelledResponses
<1>4. CASE conn' = [conn EXCEPT ![i].got = peer[c].sent] /\ UNCHANGED <<peer, req>>
  <2>1. conn \in [Slot -> ConnRec]
    BY ConnIsFcn
  <2>2. \A j \in Slot :
           /\ conn'[j].st = conn[j].st /\ conn'[j].fd = conn[j].fd /\ conn'[j].fin = conn[j].fin
           /\ conn'[j].hdr = conn[j].hdr /\ conn'[j].acc = conn[j].acc
           /\ conn'[j].kind = conn[j].kind /\ conn'[j].samples = conn[j].samples
    BY <1>4, <2>1 DEF ConnRec
  <2>3. \A j \in Slot : conn[j].st \in {"head", "body"} => conn'[j].got = conn[j].got
    BY <1>2, <1>4, <2>1
  <2>4. ASSUME NEW j \in Slot PROVE Rests(j)
    <3>1. \A d \in Client : HearsSame(d)
      BY <1>4 DEF HearsSame
    <3>2. Holder(conn[j].fd)' = Holder(conn[j].fd)
      BY <1>4, <2>2 DEF Holder
    <3>3. Holder(conn[j].fd) \subseteq Client
      BY DEF Holder
    <3> QED BY <1>9, <2>2, <2>3, <3>1, <3>2, <3>3 DEF Rests, Stays
  <2>5. Ended
    BY <1>1, <1>4, SameEnded
  <2>6. /\ NoneNew /\ Taken' /\ \A d \in Client : Calm(d) /\ req'[d].take = req[d].take
        /\ \A d : FlagOf(d)' => FlagOf(d)
    BY <2>5, EndedCalm, ResponsesParts
  <2>7. ASSUME NEW d \in Client PROVE AnswerOf(d)'
    BY <1>4, <2>6, AnswerSame, ResponsesParts
  <2>8. 0 \notin Slot
    BY DEF Slot
  <2>9. ASSUME NEW d \in Client PROVE Calm(d) /\ (Writing(d)' => req[d].slot # 0)
    <3>1. Writing(d)' => MayTouch(d)
      BY <2>6 DEF Calm, Writing
    <3> QED BY <2>6, <2>8, <3>1, TouchedSlot
  <2> QED BY <2>4, <2>6, <2>7, <2>8, <2>9, StepResponses
<1> QED BY <1>2, <1>3, <1>4

LEMMA ShutdownResponses ==
  ASSUME Places, NoWindow, Owns, Responses, Shutdown
  PROVE  Responses'
<1> DEFINE i == loop.k
<1>1. i \in Slot /\ UNCHANGED worker /\ loop.at = "exit"
  BY HttpConstants DEF Shutdown, Places, TypeOK, LoopType, Slot
<1>2. \/ UNCHANGED <<peer, conn, req>>
      \/ conn[i].st = "streaming" /\ CancelReq(conn[i].of) /\ Reset(i)
      \/ conn[i].st \in {"head", "body"} /\ Reset(i) /\ UNCHANGED req
  BY DEF Shutdown
<1>3. \A j \in Slot : conn[j].st # "routing"
  BY <1>1, NotRouting DEF Places
<1>4. CASE UNCHANGED <<peer, conn, req>>
  BY <1>1, <1>3, <1>4, LoopResponses
<1>5. CASE conn[i].st = "streaming" /\ CancelReq(conn[i].of) /\ Reset(i)
  BY <1>1, <1>3, <1>5, CancelledResponses
<1>6. CASE conn[i].st \in {"head", "body"} /\ Reset(i) /\ UNCHANGED req
  <2>1. Fewer /\ Ended
    BY <1>1, <1>6, TouchSame, SameEnded
  <2>2. \A c \in Client : MayTouch(c)' => req[c].slot # i
    BY <1>1, <1>6, <2>1, Untouched DEF Fewer
  <2> QED BY <1>1, <1>3, <1>6, <2>1, <2>2, ResetResponses
<1> QED BY <1>2, <1>4, <1>5, <1>6

LEMMA ExitResponses ==
  ASSUME Places, Owns, Responses, Exit
  PROVE  Responses'
<1>1. UNCHANGED <<conn, req, worker>> /\ loop.at = "exit"
  BY DEF Exit
<1>2. /\ \A c \in Client : HearsSame(c)
      /\ \A fd : Holder(fd)' = Holder(fd)
  BY ExitFacts DEF HearsSame
<1>3. /\ NoneNew /\ Taken' /\ \A c \in Client : Calm(c) /\ req'[c].take = req[c].take
      /\ \A c : FlagOf(c)' => FlagOf(c)
  BY <1>1, SameEnded, EndedCalm, ResponsesParts
<1>4. ASSUME NEW j \in Slot PROVE Rests(j)
  <2>1. conn[j].st # "routing" /\ Holder(conn[j].fd) \subseteq Client
    BY <1>1, NotRouting DEF Places, Holder
  <2> QED BY <1>1, <1>2, <2>1 DEF Rests, Stays
<1>5. ASSUME NEW c \in Client PROVE AnswerOf(c)'
  BY <1>2, <1>3, AnswerSame, ResponsesParts DEF HearsSame
<1>6. 0 \notin Slot
  BY DEF Slot
<1>7. ASSUME NEW c \in Client PROVE Calm(c) /\ (Writing(c)' => req[c].slot # 0)
  <2>1. Writing(c)' => MayTouch(c)
    BY <1>3 DEF Calm, Writing
  <2> QED BY <1>3, <1>6, <2>1, TouchedSlot DEF Places
<1> QED BY <1>3, <1>4, <1>5, <1>6, <1>7, StepResponses
(* A descriptor has one connection. *)
LEMMA HoldersApart ==
  ASSUME Places, NEW i \in Slot, NEW j \in Slot, i # j, NEW c \in Holder(conn[j].fd)
  PROVE  c \in Client /\ c \notin Holder(conn[i].fd)
<1>1. c \in Client /\ peer[c].fd = conn[j].fd /\ peer[c].st = "open"
  BY DEF Holder
<1>2. conn[j].fd # NoFd
  BY <1>1 DEF Places, Table
<1>3. conn[i].fd # conn[j].fd
  BY <1>2 DEF Places, TypeOK, ConnType
<1> QED BY <1>1, <1>3 DEF Holder

(* The other connections while one is written to. *)
LEMMA WroteRests ==
  ASSUME Places, NEW i \in Slot, NEW t \in Seq(Token), peer' \in WrittenOrLost(conn[i].fd, t),
         NEW j \in Slot, j # i, conn'[j] = conn[j], conn[j].st = "routing" => loop'.at = loop.at
  PROVE  Rests(j)
<1> USE DEF Places, TypeOK
<1>1. \A fd : Holder(fd)' = Holder(fd)
  BY WroteOrLost, WrotePeer
<1>2. ASSUME NEW c \in Holder(conn[j].fd) PROVE HearsSame(c)
  <2>1. c \in Client /\ c \notin Holder(conn[i].fd)
    BY <1>2, HoldersApart
  <2>2. peer'[c] = peer[c]
    BY <2>1, WireAfter
  <2> QED BY <2>2 DEF HearsSame
<1>3. Holder(conn[j].fd)' = Holder(conn[j].fd)
  BY <1>1
<1> QED BY <1>2, <1>3 DEF Rests, Stays

(* And the other clients. *)
LEMMA WroteAnswers ==
  ASSUME Places, Responses, NEW fd, NEW t \in Seq(Token), peer' \in WrittenOrLost(fd, t),
         NEW c \in Client, c \notin Holder(fd), req'[c].take = req[c].take
  PROVE  AnswerOf(c)'
<1>1. peer'[c] = peer[c]
  BY WireAfter DEF Places, TypeOK
<1> QED BY <1>1, AnswerSame, ResponsesParts

LEMMA WrittenWire ==
  ASSUME PeerType, NEW fd, NEW t \in Seq(Token), peer' = Written(fd, t), NEW c \in Holder(fd)
  PROVE  /\ peer' \in WrittenOrLost(fd, t) /\ peer'[c].wire = peer[c].wire \o t
         /\ peer'[c].kind = peer[c].kind
<1>1. c \in Client /\ SendOk(fd)
  BY DEF Holder, SendOk
<1> QED BY <1>1 DEF Written, WrittenOrLost, PeerType

LEMMA Regroup ==
  ASSUME NEW a \in Seq(Token), NEW b \in Seq(Token), NEW c \in Seq(Token)
  PROVE  a \o (b \o c) = (a \o b) \o c
BY ConcatAssociative

(* A 100 Continue is sent at most once, before anything else. *)
LEMMA ExpectHeard ==
  ASSUME NEW w \in Seq(Token), Response(w) = <<>>, NEW expect \in {<<>>, <<Continue>>},
         w = <<>> \/ expect = <<>>
  PROVE  /\ expect \in Seq(Token) /\ w \o expect \in Seq(Token) /\ Response(w \o expect) = <<>>
         /\ \A t \in Seq(Token) : t[1] # Continue => Response(w \o (expect \o t)) = t
<1>1. expect \in Seq(Token)
  BY TokensAreTokens
<1>2. w \o expect \in Seq(Token) /\ Response(w \o expect) = <<>>
  <2>1. CASE expect = <<>>
    <3>1. w \o expect = w
      BY <2>1
    <3> QED BY <3>1
  <2>2. CASE expect = <<Continue>> /\ w = <<>>
    <3>1. w \o expect = <<Continue>>
      BY <1>1, <2>2, ConcatEmptySeq
    <3>2. Response(<<Continue>>) = <<>>
      BY DEF Response
    <3> QED BY <1>1, <2>2, <3>1, <3>2
  <2> QED BY <2>1, <2>2
<1>3. ASSUME NEW t \in Seq(Token), t[1] # Continue
      PROVE  Response(w \o (expect \o t)) = t
  <2>1. w \o (expect \o t) = (w \o expect) \o t
    <3>1. PICK e \in Seq(Token) : e = expect
      BY <1>1
    <3>2. w \o (e \o t) = (w \o e) \o t
      BY <1>3, Regroup
    <3> QED BY <3>1, <3>2
  <2>2. Response((w \o expect) \o t) = t
    BY <1>2, <1>3, ResponseBegins
  <2> QED BY <2>1, <2>2
<1> QED BY <1>1, <1>2, <1>3

LEMMA ReadResponses ==
  ASSUME Places, Owns, Responses, Read
  PROVE  Responses'
<1> USE DEF Places, TypeOK
<1>1. UNCHANGED <<req, worker>> /\ loop.at = "serve"
  BY ReadCases
<1>2. PICK i \in Slot, c \in Client, expect \in {<<>>, <<Continue>>} :
        /\ c \in Holder(conn[i].fd) /\ conn[i].st \in {"head", "body"}
        /\ conn[i].got # 0 => expect = <<>>
        /\ \/ ReadNothing(i) \/ ReadHead(i, expect)
           \/ ReadSimple(i, c, expect) \/ ReadBody(i, c, expect)
  BY ReadCases
<1>3. Reading(i) /\ \A j \in Slot : conn[j].st # "routing"
  BY <1>1, <1>2, NotRouting DEF Reading
<1>4. /\ req[c].st = "none" /\ peer[c].wire \in Seq(Token)
      /\ Response(peer[c].wire) = <<>> /\ (conn[i].st = "head" => peer[c].wire = <<>>)
      /\ ~conn[i].fin /\ ~FlagOf(c)
      /\ \A d \in Client : MayTouch(d) => req[d].slot # i
  BY <1>2, <1>3, ReadingFacts
<1>5. conn[i].got = 0 => conn[i].st = "head"
  BY <1>2, ResponsesParts DEF OpenOf
<1>6. peer[c].wire = <<>> \/ expect = <<>>
  BY <1>2, <1>4, <1>5
<1>7. /\ expect \in Seq(Token) /\ Response(peer[c].wire \o expect) = <<>>
      /\ \A t \in Seq(Token) : t[1] # Continue => Response(peer[c].wire \o (expect \o t)) = t
  BY <1>4, <1>6, ExpectHeard
<1>8. Holder(conn[i].fd) = {c}
  BY <1>2 DEF Table, Holder
<1>9. /\ NoneNew /\ Taken' /\ \A d \in Client : Calm(d) /\ req'[d].take = req[d].take
      /\ \A d : FlagOf(d)' => FlagOf(d)
  BY <1>1, SameEnded, EndedCalm, ResponsesParts
<1>10. Fewer /\ Ended
  BY <1>1, TouchSame, SameEnded
<1>11. \A d \in Client : MayTouch(d)' => req[d].slot # i
  BY <1>4, <1>10 DEF Fewer
<1>12. ASSUME /\ peer' \in WrittenOrLost(conn[i].fd, expect)
              /\ \A j \in Slot : j # i => conn'[j] = conn[j]
              /\ conn'[i].st \in {"body", "routing"} /\ conn'[i].fd = conn[i].fd
              /\ conn'[i].fin = conn[i].fin
              /\ conn'[i].st = "body" => conn'[i].got = 1
              /\ conn'[i].st = "routing" =>
                   loop'.at = "route" /\ conn'[i].kind = peer[c].kind /\ peer[c].kind # "simple"
       PROVE  Responses'
  <2>1. Holder(conn[i].fd)' = {c}
    BY <1>7, <1>8, <1>12, WroteOrLost, WrotePeer
  <2>2. peer'[c].wire = peer[c].wire \o expect \/ peer'[c].wire = peer[c].wire
    BY <1>2, <1>7, <1>12, WireAfter
  <2>3. Response(peer'[c].wire) = <<>>
    BY <1>4, <1>7, <2>2
  <2>4. peer'[c].kind = peer[c].kind
    BY <1>7, <1>12, WroteOrLost DEF OnlyWrote
  <2>5. OpenTo(i, c)'
    BY <1>12, <2>3, <2>4 DEF OpenTo
  <2>6. OpenOf(i)'
    BY <1>12, <2>1, <2>5 DEF OpenOf
  <2>7. FinOf(i)'
    BY <1>4, <1>9, <1>12, <2>1 DEF FinOf, FinTo
  <2>8. ASSUME NEW d \in Client PROVE AnswerOf(d)'
    <3>1. CASE d = c
      BY <2>3, <3>1, NoAnswer DEF AnswerOf
    <3>2. CASE d # c
      BY <1>7, <1>8, <1>9, <1>12, <3>2, WroteAnswers
    <3> QED BY <3>1, <3>2
  <2>9. \A j \in Slot : j # i => Rests(j)
    BY <1>3, <1>7, <1>12, WroteRests
  <2>10. \A d \in Client : Calm(d) /\ (Writing(d)' => req[d].slot # i)
    BY <1>9, <1>11 DEF Writing
  <2> QED BY <1>9, <2>6, <2>7, <2>8, <2>9, <2>10, StepResponses
<1>13. CASE ReadNothing(i)
  <2>1. Reset(i)
    BY <1>13 DEF ReadNothing
  <2> QED BY <1>3, <1>10, <1>11, <2>1, ResetResponses
<1>14. CASE ReadHead(i, expect)
  BY <1>12, <1>14, ReadHeadFacts DEF ReadHead
<1>15. CASE ReadBody(i, c, expect)
  <2>1. peer[c].kind # "simple" /\ peer' \in WrittenOrLost(conn[i].fd, expect)
    BY <1>15 DEF ReadBody
  <2>2. /\ \A j \in Slot : j # i => conn'[j] = conn[j]
        /\ conn'[i].st = "routing" /\ conn'[i].kind = peer[c].kind
        /\ conn'[i].fd = conn[i].fd /\ conn'[i].fin = conn[i].fin
        /\ loop'.at = "route"
    BY <1>15, ReadBodyFacts
  <2> QED BY <1>12, <2>1, <2>2
<1>16. CASE ReadSimple(i, c, expect)
  <2> DEFINE t == <<Simple(0)>>
             u == expect \o t
  <2>1. AnswerAndReset(i, u) /\ t[1] # Continue /\ t \in Seq(Token)
    <3>1. t \in {<<Simple(n)>> : n \in Nat}
      OBVIOUS
    <3>2. t \in Seq(Token)
      BY <3>1, SilentTokens
    <3> QED BY <1>16, <3>2 DEF ReadSimple, Simple, Continue
  <2>2. \A kind, take : OneAnswer(t, kind, take)
    BY SimpleAnswer
  <2> HIDE DEF t
  <2>3. u \in Seq(Token) /\ Response(peer[c].wire \o u) = t
    BY <1>7, <2>1
  <2> HIDE DEF u
  <2>4. \A d \in Holder(conn[i].fd) :
          OneAnswer(Response(peer[d].wire \o u), peer[d].kind, req[d].take)
    BY <1>8, <2>2, <2>3
  <2> QED BY <1>1, <1>3, <1>4, <2>1, <2>3, <2>4, AnswerResponses
<1> QED BY <1>2, <1>13, <1>14, <1>15, <1>16

LEMMA HeadAnswer ==
  ASSUME NEW kind, NEW take
  PROVE  OneAnswer(<<Head200>>, kind, take) /\ Response(<<Head200>>) = <<Head200>>
<1> DEFINE w == <<Head200>>
<1>1. w \in Seq(Token) /\ Len(w) = 1 /\ w[1] = Head200 /\ w # <<>>
  BY TokensAreTokens
<1> HIDE DEF w
<1>2. Streamed(w, 0, 0, 0, NoClient)
  BY <1>1 DEF Streamed
<1>3. OneAnswer(w, kind, take)
  <2>1. \A c : \A h \in {0, 1}, k \in Nat, e \in {0, 1} :
          Streamed(w, h, k, e, c) /\ (kind = "wav" /\ k > 0 => h = 1) /\ (e = 1 => k = Audible(take))
          => OneAnswer(w, kind, take)
    BY <1>1, StreamedAnswer
  <2> QED BY <1>2, <2>1
<1>4. Response(w) = w
  BY <1>1 DEF Response, Head200, Continue
<1> QED BY <1>3, <1>4 DEF w

LEMMA RouteHeadResponses ==
  ASSUME Places, Owns, Responses, RouteHead
  PROVE  Responses'
<1> USE DEF Places, TypeOK
<1>1. loop.at = "route" /\ UNCHANGED <<req, worker>>
  BY DEF RouteHead
<1>2. /\ loop.slot \in Slot /\ conn[loop.slot].st = "routing" /\ RoutedClient \in Client
      /\ Holder(conn[loop.slot].fd) = {RoutedClient}
      /\ \A j \in Slot : j # loop.slot => conn[j].st # "routing"
  BY <1>1, RoutedFacts
<1>3. PICK i \in Slot : i = loop.slot
  BY <1>2
<1>4. PICK c \in Client : c = RoutedClient
  BY <1>2
<1>5. /\ conn[i].st = "routing" /\ Holder(conn[i].fd) = {c} /\ Routed = conn[i]
      /\ \A j \in Slot : j # i => conn[j].st # "routing"
      /\ Reading(i)
  BY <1>1, <1>2, <1>3, <1>4 DEF Routed, Reading
<1>6. /\ req[c].st = "none" /\ peer[c].wire \in Seq(Token)
      /\ Response(peer[c].wire) = <<>>
      /\ ~conn[i].fin /\ ~FlagOf(c)
      /\ \A d \in Client : MayTouch(d) => req[d].slot # i
  BY <1>5, ReadingFacts
<1>7. /\ NoneNew /\ Taken' /\ \A d \in Client : Calm(d) /\ req'[d].take = req[d].take
      /\ \A d : FlagOf(d)' => FlagOf(d)
  BY <1>1, SameEnded, EndedCalm, ResponsesParts
<1>8. Fewer /\ Ended
  BY <1>1, TouchSame, SameEnded
<1>9. \A d \in Client : MayTouch(d)' => req[d].slot # i
  BY <1>6, <1>8 DEF Fewer
<1>10. OpenTo(i, c)
  BY <1>5, ResponsesParts DEF OpenOf
<1>11. \A d \in Client : Calm(d) /\ (Writing(d)' => req[d].slot # i)
  BY <1>7, <1>9 DEF Writing
<1>12. CASE Reset(loop.slot)
  BY <1>3, <1>5, <1>8, <1>9, <1>12, ResetResponses
<1>13. CASE Routed.kind = "buffered" /\ UNCHANGED <<peer, conn>>
  <2>1. ASSUME NEW j \in Slot, j # i PROVE Rests(j)
    BY <1>5, <1>13, <2>1 DEF Rests, Stays, HearsSame, Holder
  <2>2. Holder(conn[i].fd)' = {c}
    BY <1>5, <1>13 DEF Holder
  <2>3. OpenTo(i, c)'
    BY <1>5, <1>6, <1>10, <1>13 DEF OpenTo, Reading
  <2>4. OpenOf(i)' /\ FinOf(i)'
    BY <1>5, <1>6, <1>7, <1>13, <2>2, <2>3 DEF OpenOf, FinOf, FinTo
  <2>5. \A d \in Client : AnswerOf(d)'
    BY <1>7, <1>13, AnswerSame, ResponsesParts
  <2> QED BY <1>7, <1>11, <2>1, <2>4, <2>5, StepResponses
<1>14. CASE /\ Routed.kind # "buffered" /\ UNCHANGED conn /\ loop' = [loop EXCEPT !.at = "submit"]
            /\ peer' = Written(Routed.fd, <<Head200>>)
  <2> DEFINE t == <<Head200>>
  <2>1. t \in Seq(Token) /\ t[1] # Continue
    BY TokensAreTokens DEF Head200, Continue
  <2>2. peer' = Written(conn[i].fd, t)
    BY <1>5, <1>14
  <2>3. \A kind, take : OneAnswer(t, kind, take)
    BY HeadAnswer
  <2>4. t = <<Head200>>
    OBVIOUS
  <2> HIDE DEF t
  <2>5. /\ peer' \in WrittenOrLost(conn[i].fd, t) /\ peer'[c].wire = peer[c].wire \o t
        /\ peer'[c].kind = peer[c].kind
    BY <1>5, <2>1, <2>2, WrittenWire
  <2>6. Response(peer'[c].wire) = t
    BY <1>6, <2>1, <2>5, ResponseBegins
  <2>7. Holder(conn[i].fd)' = {c}
    <3>1. \A fd : Holder(fd)' = Holder(fd)
      BY <2>1, <2>5, WroteOrLost, WrotePeer
    <3> QED BY <1>5, <1>14, <3>1
  <2>8. OpenTo(i, c)'
    <3>1. loop'.at = "submit"
      BY <1>14 DEF LoopType
    <3> QED BY <1>5, <1>10, <1>14, <2>4, <2>5, <2>6, <3>1 DEF OpenTo, Reading
  <2>9. OpenOf(i)' /\ FinOf(i)'
    BY <1>5, <1>6, <1>7, <1>14, <2>7, <2>8 DEF OpenOf, FinOf, FinTo
  <2>10. ASSUME NEW d \in Client PROVE AnswerOf(d)'
    <3>1. CASE d = c
      BY <2>3, <2>6, <3>1 DEF AnswerOf
    <3>2. CASE d # c
      BY <1>5, <1>7, <2>1, <2>5, <3>2, WroteAnswers
    <3> QED BY <3>1, <3>2
  <2>11. \A j \in Slot : j # i => Rests(j)
    BY <1>5, <1>14, <2>1, <2>5, WroteRests
  <2> QED BY <1>7, <1>11, <2>9, <2>10, <2>11, StepResponses
<1> QED BY <1>12, <1>13, <1>14 DEF RouteHead
(* A sequence and one element more. *)
LEMMA OneMore ==
  ASSUME NEW w \in Seq(Token), NEW one \in Seq(Token), Len(one) = 1
  PROVE  /\ w \o one \in Seq(Token) /\ Len(w \o one) = Len(w) + 1
         /\ DOMAIN (w \o one) = 1 .. Len(w) + 1
         /\ \A j \in 1 .. Len(w) : (w \o one)[j] = w[j]
         /\ (w \o one)[Len(w) + 1] = one[1]
<1>0. PICK v, n : v = w \o one /\ n = Len(w)
  OBVIOUS
<1>1. /\ v \in Seq(Token) /\ Len(v) = n + 1 /\ n \in Nat
      /\ \A j \in 1 .. n + 1 : v[j] = IF j <= n THEN w[j] ELSE one[j - n]
  <2>1. PICK m : m = Len(one)
    OBVIOUS
  <2>2. /\ v \in Seq(Token) /\ Len(v) = n + m
        /\ \A j \in 1 .. n + m : v[j] = IF j <= n THEN w[j] ELSE one[j - n]
    BY <1>0, <2>1, ConcatProperties, Zenon
  <2>3. m = 1
    BY <2>1
  <2>4. n \in Nat
    BY <1>0
  <2> QED BY <2>2, <2>3, <2>4
<1>2. DOMAIN v = 1 .. n + 1
  BY <1>1
<1>3. \A j \in 1 .. n : v[j] = w[j]
  BY <1>1
<1>4. v[n + 1] = one[1]
  <2>1. n + 1 \in 1 .. n + 1 /\ (n + 1) - n = 1 /\ ~(n + 1 <= n)
    BY <1>1
  <2> QED BY <1>1, <2>1
<1> QED BY <1>0, <1>1, <1>2, <1>3, <1>4

LEMMA OneToken ==
  /\ \A c \in Client : <<Piece(c)>> \in Seq(Token) /\ Len(<<Piece(c)>>) = 1
                       /\ <<Piece(c)>>[1] = Piece(c)
  /\ <<WavHdr>> \in Seq(Token) /\ Len(<<WavHdr>>) = 1 /\ <<WavHdr>>[1] = WavHdr
  /\ <<EndChunk>> \in Seq(Token) /\ Len(<<EndChunk>>) = 1 /\ <<EndChunk>>[1] = EndChunk
BY TokensAreTokens

(* How a streamed response grows. *)
LEMMA StreamHeader ==
  ASSUME NEW w \in Seq(Token), NEW c, Streamed(w, 0, 0, 0, c)
  PROVE  Streamed(w \o <<WavHdr>>, 1, 0, 0, c)
<1> DEFINE one == <<WavHdr>>
<1>1. one \in Seq(Token) /\ Len(one) = 1 /\ one[1] = WavHdr
  BY OneToken
<1> HIDE DEF one
<1>2. PICK v \in Seq(Token) :
        /\ v = w \o one /\ Len(v) = Len(w) + 1 /\ DOMAIN v = 1 .. Len(w) + 1
        /\ \A j \in 1 .. Len(w) : v[j] = w[j]
        /\ v[Len(w) + 1] = one[1]
  BY <1>1, OneMore
<1>3. Len(w) = 1 /\ w[1] = Head200
  BY DEF Streamed
<1>4. Streamed(v, 1, 0, 0, c)
  BY <1>1, <1>2, <1>3 DEF Streamed
<1> QED BY <1>2, <1>4 DEF one

LEMMA StreamPiece ==
  ASSUME NEW w \in Seq(Token), NEW h \in {0, 1}, NEW k \in Nat, NEW c \in Client,
         Streamed(w, h, k, 0, c)
  PROVE  Streamed(w \o <<Piece(c)>>, h, k + 1, 0, c)
<1> DEFINE one == <<Piece(c)>>
<1>1. one \in Seq(Token) /\ Len(one) = 1 /\ one[1] = Piece(c)
  BY OneToken
<1> HIDE DEF one
<1>2. PICK v \in Seq(Token) :
        /\ v = w \o one /\ Len(v) = Len(w) + 1 /\ DOMAIN v = 1 .. Len(w) + 1
        /\ \A j \in 1 .. Len(w) : v[j] = w[j]
        /\ v[Len(w) + 1] = one[1]
  BY <1>1, OneMore
<1>3. Len(w) = 1 + h + k /\ w[1] = Head200 /\ (h = 1 => w[2] = WavHdr) /\ DOMAIN w = 1 .. 1 + h + k
      /\ \A j \in 1 .. 1 + h + k : j >= 2 + h => w[j] = Piece(c)
  BY DEF Streamed
<1>4. Len(v) = 1 + h + (k + 1) + 0 /\ v[1] = Head200 /\ (h = 1 => v[2] = WavHdr)
  BY <1>2, <1>3
<1>5. ASSUME NEW j \in DOMAIN v, j >= 2 + h PROVE v[j] = Piece(c)
  <2>1. j \in 1 .. 1 + h + k \/ j = Len(w) + 1
    BY <1>2, <1>3, <1>5
  <2>2. CASE j \in 1 .. 1 + h + k
    BY <1>2, <1>3, <1>5, <2>2
  <2>3. CASE j = Len(w) + 1
    BY <1>1, <1>2, <2>3
  <2> QED BY <2>1, <2>2, <2>3
<1>6. Streamed(v, h, k + 1, 0, c)
  BY <1>4, <1>5 DEF Streamed
<1> QED BY <1>2, <1>6 DEF one

LEMMA StreamEnd ==
  ASSUME NEW w \in Seq(Token), NEW h \in {0, 1}, NEW k \in Nat, NEW c, Streamed(w, h, k, 0, c)
  PROVE  Streamed(w \o <<EndChunk>>, h, k, 1, c)
<1> DEFINE one == <<EndChunk>>
<1>1. one \in Seq(Token) /\ Len(one) = 1 /\ one[1] = EndChunk
  BY OneToken
<1> HIDE DEF one
<1>2. PICK v \in Seq(Token) :
        /\ v = w \o one /\ Len(v) = Len(w) + 1 /\ DOMAIN v = 1 .. Len(w) + 1
        /\ \A j \in 1 .. Len(w) : v[j] = w[j]
        /\ v[Len(w) + 1] = one[1]
  BY <1>1, OneMore
<1>3. Len(w) = 1 + h + k /\ w[1] = Head200 /\ (h = 1 => w[2] = WavHdr) /\ DOMAIN w = 1 .. 1 + h + k
      /\ \A j \in 1 .. 1 + h + k : j >= 2 + h => w[j] = Piece(c)
  BY DEF Streamed
<1>4. Len(v) = 1 + h + k + 1 /\ v[1] = Head200 /\ (h = 1 => v[2] = WavHdr) /\ v[Len(v)] = EndChunk
  BY <1>1, <1>2, <1>3
<1>5. ASSUME NEW j \in DOMAIN v, j >= 2 + h, j <= 1 + h + k PROVE v[j] = Piece(c)
  <2>1. j \in 1 .. 1 + h + k
    BY <1>2, <1>5
  <2> QED BY <1>2, <1>3, <1>5, <2>1
<1>6. Streamed(v, h, k, 1, c)
  BY <1>4, <1>5 DEF Streamed
<1> QED BY <1>2, <1>6 DEF one

LEMMA HeadStreamed ==
  ASSUME NEW c
  PROVE  <<Head200>> \in Seq(Token) /\ Streamed(<<Head200>>, 0, 0, 0, c)
<1> DEFINE w == <<Head200>>
<1>1. w \in Seq(Token) /\ Len(w) = 1 /\ w[1] = Head200
  BY TokensAreTokens
<1> HIDE DEF w
<1>2. Streamed(w, 0, 0, 0, c)
  BY <1>1 DEF Streamed
<1> QED BY <1>1, <1>2 DEF w

LEMMA AudibleIs ==
  /\ Audible(0) = 0
  /\ \A n \in Nat : Audible(n) \in Nat /\ Audible(n) <= Cap
  /\ \A n \in Nat : Audible(n) = Cap => \A m \in Nat : m >= n => Audible(m) = Cap
  /\ \A n \in Nat : Audible(n) # Cap => Audible(n) = n /\ Audible(n + 1) = n + 1
BY HttpConstants DEF Audible
LEMMA RouteSubmitResponses ==
  ASSUME Places, Owns, Responses, RouteSubmit
  PROVE  Responses'
<1> USE DEF Places, TypeOK
<1>1. /\ loop.at = "submit" /\ UNCHANGED <<peer, conn, worker, loop>>
      /\ loop.slot \in Slot /\ conn[loop.slot].st = "routing" /\ RoutedClient \in Client
      /\ Holder(conn[loop.slot].fd) = {RoutedClient} /\ req[RoutedClient].st = "none"
      /\ req'[RoutedClient].st = "queued" /\ req'[RoutedClient].slot = loop.slot
      /\ req'[RoutedClient].made = 0 /\ req'[RoutedClient].take \in Nat
      /\ \A c \in Client : c # RoutedClient => req'[c] = req[c]
      /\ worker.of # RoutedClient \/ worker.at = "idle"
  BY SubmitFacts
<1>2. PICK i \in Slot, r \in Client : i = loop.slot /\ r = RoutedClient
  BY <1>1
<1>3. /\ conn[i].st = "routing" /\ Holder(conn[i].fd) = {r} /\ req[r].st = "none"
      /\ req'[r].st = "queued" /\ req'[r].slot = i /\ req'[r].made = 0 /\ req'[r].take \in Nat
      /\ \A c \in Client : c # r => req'[c] = req[c]
      /\ worker.of # r \/ worker.at = "idle"
  BY <1>1, <1>2
<1>4. NoneNew /\ \A c : FlagOf(c)' => FlagOf(c)
  BY <1>1, <1>3 DEF NoneNew, FlagOf
<1>5. /\ OpenTo(i, r) /\ Taken
      /\ ~conn[i].hdr /\ conn[i].acc = <<>> /\ conn[i].samples = 0
  BY <1>3, ResponsesParts, OwnsParts DEF OpenOf, SlotOwn
<1>6. Taken'
  <2>1. ASSUME NEW c \in Client
        PROVE  /\ req'[c].st \in {"queued", "starting"} => req'[c].made = 0
               /\ req'[c].made <= req'[c].take
    <3>1. CASE c = r
      BY <1>3, <3>1
    <3>2. CASE c # r
      BY <1>3, <1>5, <3>2 DEF Taken
    <3> QED BY <3>1, <3>2
  <2>2. worker.at \in {"emit", "close"} => worker.of \in Client /\ req'[worker.of] = req[worker.of]
    BY <1>3, CalledFacts
  <2>3. worker' = worker
    BY <1>1
  <2> QED BY <1>5, <2>1, <2>2, <2>3 DEF Taken
<1>7. ASSUME NEW j \in Slot PROVE Rests(j)
  BY <1>1 DEF Rests, Stays, HearsSame, Holder
<1>8. Response(peer[r].wire) = IF conn[i].kind = "buffered" THEN <<>> ELSE <<Head200>>
  BY <1>1, <1>3, <1>5 DEF OpenTo
<1>9. ASSUME NEW c \in Client PROVE AnswerOf(c)'
  <2>1. CASE c # r
    BY <1>1, <1>3, <2>1, AnswerSame, ResponsesParts
  <2>2. CASE c = r
    <3>1. peer'[r].wire = peer[r].wire
      BY <1>1
    <3>2. OneAnswer(Response(peer[r].wire), peer'[r].kind, req'[r].take)
      BY <1>8, NoAnswer, HeadAnswer
    <3> QED BY <2>2, <3>1, <3>2 DEF AnswerOf
  <2> QED BY <2>1, <2>2
<1>10. ASSUME NEW c \in Client, c # r PROVE Calm(c)
  <2>1. /\ Writing(c)' => Writing(c)
        /\ Pending(c)' = Pending(c)
    BY <1>1, <1>3, <1>10 DEF Writing, MayTouch, Ends, Pending
  <2> QED BY <1>3, <1>10, <2>1 DEF Calm
<1>11. MidOf(r)'
  <2>1. Pending(r)' = 0
    BY <1>1, <1>3 DEF Pending
  <2>2. PICK w : w = Response(peer[r].wire)
    OBVIOUS
  <2>3. Mid(conn[i], w, 0, 0, r)
    <3>1. conn[i].samples + 0 = Audible(0) /\ Len(conn[i].acc) = conn[i].samples
      BY <1>5, AudibleIs
    <3>2. Pieces(conn[i].acc, 1, r)
      BY <1>5 DEF Pieces
    <3>3. CASE conn[i].kind = "buffered"
      BY <1>5, <1>8, <2>2, <3>1, <3>2, <3>3 DEF Mid
    <3>4. CASE conn[i].kind # "buffered"
      <4>1. w = <<Head200>>
        BY <1>8, <2>2, <3>4
      <4>2. Len(w) = 1 + conn[i].samples /\ w[1] = Head200
        BY <1>5, <4>1
      <4>3. DOMAIN w = {1}
        BY <4>1
      <4>4. Pieces(w, 2, r)
        BY <4>3 DEF Pieces
      <4> QED BY <1>5, <3>1, <3>4, <4>2, <4>4 DEF Mid
    <3> QED BY <3>3, <3>4
  <2>4. conn'[i] = conn[i] /\ Response(peer'[r].wire) = w
    BY <1>1, <2>2
  <2> QED BY <1>3, <2>1, <2>3, <2>4 DEF MidOf
<1>12. 0 \notin Slot
  BY DEF Slot
<1>13. ASSUME NEW c \in Client
       PROVE  (Calm(c) /\ (Writing(c)' => req[c].slot # 0)) \/ MidOf(c)'
  <2>1. CASE c # r
    <3>1. Writing(c)' => MayTouch(c)
      BY <1>10, <2>1 DEF Calm, Writing
    <3> QED BY <1>10, <1>12, <2>1, <3>1, TouchedSlot
  <2> QED BY <1>11, <2>1
<1> QED BY <1>4, <1>6, <1>7, <1>9, <1>12, <1>13, StepResponses

LEMMA RouteSubmittedResponses ==
  ASSUME Places, Owns, Responses, RouteSubmitted
  PROVE  Responses'
<1> USE DEF Places, TypeOK
<1>1. /\ loop.at = "submit" /\ UNCHANGED <<peer, req, worker>> /\ Resume
      /\ conn' = [conn EXCEPT ![loop.slot].st = "streaming", ![loop.slot].of = RoutedClient]
  BY DEF RouteSubmitted
<1>9. /\ loop.slot \in Slot /\ conn[loop.slot].st = "routing" /\ RoutedClient \in Client
      /\ Holder(conn[loop.slot].fd) = {RoutedClient}
      /\ \A j \in Slot : j # loop.slot => conn[j].st # "routing"
  BY <1>1, RoutedFacts
<1>2. PICK i \in Slot, r \in Client : i = loop.slot /\ r = RoutedClient
  BY <1>9
<1>3. /\ conn' = [conn EXCEPT ![i].st = "streaming", ![i].of = r]
      /\ conn[i].st = "routing" /\ Holder(conn[i].fd) = {r}
      /\ \A j \in Slot : j # i => conn[j].st # "routing"
  BY <1>1, <1>2, <1>9
<1>4. /\ \A j \in Slot : j # i => conn'[j] = conn[j]
      /\ conn'[i].st = "streaming" /\ conn'[i].fd = conn[i].fd
      /\ conn'[i].fin = conn[i].fin /\ conn'[i].hdr = conn[i].hdr
      /\ conn'[i].acc = conn[i].acc /\ conn'[i].kind = conn[i].kind
      /\ conn'[i].samples = conn[i].samples
  BY <1>3, SubmittedFacts
<1>5. /\ NoneNew /\ Taken' /\ \A c \in Client : Calm(c) /\ req'[c].take = req[c].take
      /\ \A c : FlagOf(c)' => FlagOf(c)
  BY <1>1, SameEnded, EndedCalm, ResponsesParts
<1>6. ASSUME NEW j \in Slot PROVE Stays(j)
  <2>0. conn'[j].fd = conn[j].fd
    BY <1>4
  <2>1. Holder(conn[j].fd)' = Holder(conn[j].fd)
    BY <1>1, <2>0 DEF Holder
  <2>2. \A c : HearsSame(c)
    BY <1>1 DEF HearsSame
  <2> QED BY <1>4, <2>1, <2>2 DEF Stays
<1>7. ASSUME NEW j \in Slot, j # i PROVE Rests(j)
  BY <1>3, <1>4, <1>6, <1>7 DEF Rests
<1>8. OpenOf(i)'
  <2>1. Holder(conn[i].fd)' = {r} /\ peer' = peer
    BY <1>1, <1>3, <1>6 DEF Stays
  <2>2. OpenTo(i, r)
    BY <1>3, ResponsesParts DEF OpenOf
  <2>3. conn'[i].kind = peer'[r].kind /\ conn'[i].kind # "simple"
    BY <1>3, <1>4, <2>1, <2>2 DEF OpenTo
  <2> QED BY <1>4, <2>1, <2>3 DEF OpenOf, OpenTo, Reading
<1>10. FinOf(i)'
  BY <1>5, <1>6, FinSame, ResponsesParts
<1>11. ASSUME NEW c \in Client PROVE AnswerOf(c)'
  BY <1>1, <1>5, AnswerSame, ResponsesParts
<1>12. ASSUME NEW c \in Client PROVE MidOf(c)'
  BY <1>5, <1>6, MidSame, ResponsesParts, OwnsParts
<1> QED BY <1>5, <1>7, <1>8, <1>10, <1>11, <1>12, StepResponses

LEMMA RouteRefusedResponses ==
  ASSUME Places, Owns, Responses, RouteRefused
  PROVE  Responses'
<1> USE DEF Places, TypeOK
<1>1. loop.at = "submit" /\ req[RoutedClient].st = "none" /\ UNCHANGED <<req, worker>>
  BY DEF RouteRefused
<1>2. /\ loop.slot \in Slot /\ conn[loop.slot].st = "routing" /\ RoutedClient \in Client
      /\ Holder(conn[loop.slot].fd) = {RoutedClient}
      /\ \A j \in Slot : j # loop.slot => conn[j].st # "routing"
  BY <1>1, RoutedFacts
<1>3. PICK i \in Slot, r \in Client : i = loop.slot /\ r = RoutedClient
  BY <1>2
<1>4. /\ conn[i].st = "routing" /\ Holder(conn[i].fd) = {r} /\ req[r].st = "none"
      /\ \A j \in Slot : j # i => conn[j].st # "routing"
  BY <1>1, <1>2, <1>3
<1>5. AnswerAndReset(i, IF conn[i].kind = "buffered" THEN <<Simple(503)>> ELSE <<EndChunk>>)
  BY <1>3 DEF RouteRefused, Routed
<1>6. /\ peer[r].wire \in Seq(Token) /\ req[r].take = 0
      /\ Response(peer[r].wire) = IF conn[i].kind = "buffered" THEN <<>> ELSE <<Head200>>
  <2>1. OpenTo(i, r)
    BY <1>4, ResponsesParts DEF OpenOf
  <2> QED BY <1>1, <1>4, <2>1 DEF OpenTo, Asked, PeerType
<1>7. \A c \in Client : MayTouch(c) => req[c].slot # i
  BY <1>4, Untouched
<1>8. CASE conn[i].kind = "buffered"
  <2> DEFINE t == <<Simple(503)>>
  <2>1. AnswerAndReset(i, t) /\ t[1] # Continue /\ t \in Seq(Token)
    <3>2. t \in Seq(Token)
      BY TokensAreTokens
    <3> QED BY <1>5, <1>8, <3>2 DEF Simple, Continue
  <2>2. \A kind, take : OneAnswer(t, kind, take)
    BY SimpleAnswer
  <2> HIDE DEF t
  <2>3. Response(peer[r].wire \o t) = t
    BY <1>6, <1>8, <2>1, ResponseBegins
  <2>4. \A c \in Holder(conn[i].fd) :
          OneAnswer(Response(peer[c].wire \o t), peer[c].kind, req[c].take)
    BY <1>4, <2>2, <2>3
  <2> QED BY <1>1, <1>4, <1>7, <2>1, <2>4, AnswerResponses
<1>9. CASE conn[i].kind # "buffered"
  <2> DEFINE t == <<EndChunk>>
             w == peer[r].wire
  <2>1. AnswerAndReset(i, t) /\ t[1] # Continue /\ t \in Seq(Token)
    BY <1>5, <1>9, TokensAreTokens DEF EndChunk, Continue
  <2>2. Response(w) = <<Head200>> /\ w \in Seq(Token) /\ w # <<>>
    BY <1>6, <1>9 DEF Response
  <2>3. PICK v \in Seq(Token) : v = Response(w)
    BY <2>2, ResponseIsSeq
  <2>4. Streamed(v, 0, 0, 0, r)
    BY <2>2, <2>3, HeadStreamed
  <2>5. v \o t \in Seq(Token) /\ Streamed(v \o t, 0, 0, 1, r)
    BY <2>1, <2>4, StreamEnd
  <2> HIDE DEF t
  <2>6. OneAnswer(v \o t, peer[r].kind, req[r].take)
    <3>1. \A h \in {0, 1}, k \in Nat, e \in {0, 1} :
            Streamed(v \o t, h, k, e, r) /\ (peer[r].kind = "wav" /\ k > 0 => h = 1)
            /\ (e = 1 => k = Audible(req[r].take))
            => OneAnswer(v \o t, peer[r].kind, req[r].take)
      BY <2>5, StreamedAnswer
    <3>2. Audible(req[r].take) = 0
      BY <1>6, AudibleIs
    <3> QED BY <2>5, <3>1, <3>2
  <2>7. Response(w \o t) = v \o t
    BY <2>1, <2>2, <2>3, ResponseGrows
  <2>8. \A c \in Holder(conn[i].fd) :
          OneAnswer(Response(peer[c].wire \o t), peer[c].kind, req[c].take)
    BY <1>4, <2>6, <2>7
  <2> QED BY <1>1, <1>4, <1>7, <2>1, <2>8, AnswerResponses
<1> QED BY <1>8, <1>9
LEMMA PopResponses ==
  ASSUME Places, Owns, Responses, NEW c \in Client, Pop(c)
  PROVE  Responses'
<1> USE DEF Places, TypeOK
<1>1. /\ UNCHANGED <<peer, conn, loop>> /\ worker.at = "idle" /\ req[c].st = "queued"
      /\ worker' = [worker EXCEPT !.at = "start", !.of = c]
      /\ req' = [req EXCEPT ![c].st = "starting"]
  BY DEF Pop
<1>2. worker'.at = "start" /\ worker'.of = c
  BY <1>1 DEF WorkType
<1>3. /\ req'[c].st = "starting" /\ req'[c].slot = req[c].slot /\ req'[c].made = req[c].made
      /\ req'[c].take = req[c].take
      /\ \A d \in Client : d # c => req'[d] = req[d]
  BY <1>1 DEF WorkType
<1>4. NoneNew /\ \A d : FlagOf(d)' => FlagOf(d)
  BY <1>2, <1>3 DEF NoneNew, FlagOf
<1>5. Taken'
  <2>1. Taken
    BY ResponsesParts
  <2>2. \A d \in Client : /\ req'[d].st \in {"queued", "starting"} => req'[d].made = 0
                          /\ req'[d].made <= req'[d].take
    BY <1>1, <1>3, <2>1 DEF Taken
  <2> QED BY <1>2, <2>2 DEF Taken
<1>6. ASSUME NEW d \in Client PROVE Calm(d)
  <2>1. Pending(d)' = 0 /\ Pending(d) = 0
    BY <1>1, <1>2 DEF Pending
  <2>2. Writing(d)' => Writing(d)
    BY <1>1, <1>2, <1>3 DEF Writing, MayTouch
  <2>3. req'[d].slot = req[d].slot /\ req'[d].made = req[d].made
    BY <1>3
  <2> QED BY <2>1, <2>2, <2>3 DEF Calm
<1>7. \A d \in Client : req'[d].take = req[d].take
  BY <1>3
<1> QED BY <1>1, <1>4, <1>5, <1>6, <1>7, QuietResponses

LEMMA StartedResponses ==
  ASSUME Places, Owns, Responses, NEW c \in Client, Started(c)
  PROVE  Responses'
<1> USE DEF Places, TypeOK
<1>1. /\ UNCHANGED <<peer, conn, loop>> /\ worker.at = "start" /\ worker.of = c
      /\ worker' = Idle /\ req' = [req EXCEPT ![c].st = "active"]
  BY DEF Started
<1>2. worker'.at = "idle" /\ req[c].st = "starting"
  BY <1>1 DEF WorkerPlace, Idle
<1>3. /\ req'[c].st = "active" /\ req'[c].slot = req[c].slot /\ req'[c].made = req[c].made
      /\ req'[c].take = req[c].take
      /\ \A d \in Client : d # c => req'[d] = req[d]
  BY <1>1 DEF WorkType
<1>4. NoneNew /\ \A d : FlagOf(d)' => FlagOf(d)
  BY <1>2, <1>3 DEF NoneNew, FlagOf
<1>5. Taken'
  <2>1. Taken
    BY ResponsesParts
  <2>2. \A d \in Client : /\ req'[d].st \in {"queued", "starting"} => req'[d].made = 0
                          /\ req'[d].made <= req'[d].take
    BY <1>3, <2>1 DEF Taken
  <2> QED BY <1>2, <2>2 DEF Taken
<1>6. ASSUME NEW d \in Client PROVE Calm(d)
  <2>1. Pending(d)' = 0 /\ Pending(d) = 0
    BY <1>1, <1>2 DEF Pending
  <2>2. Writing(d)' => Writing(d)
    BY <1>1, <1>2, <1>3 DEF Writing, MayTouch
  <2>3. req'[d].slot = req[d].slot /\ req'[d].made = req[d].made
    BY <1>3
  <2> QED BY <2>1, <2>2, <2>3 DEF Calm
<1>7. \A d \in Client : req'[d].take = req[d].take
  BY <1>3
<1> QED BY <1>1, <1>4, <1>5, <1>6, <1>7, QuietResponses

LEMMA ReturnResponses ==
  ASSUME Places, Owns, Responses, Return
  PROVE  Responses'
<1> USE DEF Places, TypeOK
<1>1. PICK c \in Client : c = worker.of
  BY CalledFacts DEF Return
<1>2. /\ worker.at = "return" /\ worker' = Idle /\ req[c].st = "active"
      /\ UNCHANGED <<peer, conn, loop>>
      /\ \A d \in Client : d # c => req'[d] = req[d]
      /\ IF Ends THEN req'[c].st = "over" ELSE req' = req
      /\ \A d \in Client : req'[d].take = req[d].take
  BY <1>1, ReturnFacts
<1>3. worker'.at = "idle"
  BY <1>2 DEF Idle
<1>4. NoneNew /\ \A d : FlagOf(d)' => FlagOf(d)
  <2>1. req'[c].st # "none"
    BY <1>2
  <2>2. NoneNew
    BY <1>2, <2>1 DEF NoneNew
  <2> QED BY <1>3, <2>2 DEF FlagOf
<1>5. Taken'
  <2>1. Taken
    BY ResponsesParts
  <2>2. req'[c].st \notin {"queued", "starting"} /\ req'[c].made <= req'[c].take
    <3>1. CASE ~Ends
      BY <1>2, <2>1, <3>1 DEF Taken
    <3>2. CASE Ends
      <4>1. req' = Over(c) /\ req[c].take \in Nat
        BY <1>1, <3>2 DEF Return, WorkType
      <4>2. req'[c].made = 0
        BY <4>1 DEF Over, WorkType
      <4> QED BY <1>2, <3>2, <4>1, <4>2
    <3> QED BY <3>1, <3>2
  <2>3. \A d \in Client : /\ req'[d].st \in {"queued", "starting"} => req'[d].made = 0
                          /\ req'[d].made <= req'[d].take
    BY <1>2, <2>1, <2>2 DEF Taken
  <2> QED BY <1>3, <2>3 DEF Taken
<1>6. ASSUME NEW d \in Client PROVE Calm(d)
  <2>1. Pending(d)' = 0 /\ Pending(d) = 0
    BY <1>2, <1>3 DEF Pending
  <2>2. CASE d # c
    <3>1. Writing(d)' => Writing(d)
      BY <1>1, <1>2, <1>3, <2>2 DEF Writing, MayTouch
    <3> QED BY <1>2, <2>1, <2>2, <3>1 DEF Calm
  <2>3. CASE d = c /\ Ends
    BY <1>2, <2>3 DEF Calm, Writing, MayTouch
  <2>4. CASE d = c /\ ~Ends
    <3>1. Writing(d)
      BY <1>2, <2>4 DEF Writing, MayTouch
    <3> QED BY <1>2, <2>1, <2>4, <3>1 DEF Calm
  <2> QED BY <2>2, <2>3, <2>4
<1> QED BY <1>2, <1>4, <1>5, <1>6, QuietResponses

LEMMA DeliverResponses ==
  ASSUME Places, Owns, Responses, NEW c \in Client, NEW n \in {0, 1}, NEW final \in BOOLEAN,
         Deliver(c, n, final)
  PROVE  Responses'
<1> USE DEF Places, TypeOK
<1>1. /\ UNCHANGED <<peer, conn, loop>> /\ worker.at = "idle" /\ req[c].st = "active"
      /\ req' = [req EXCEPT ![c].made = @ + n]
      /\ req[c].made + n <= req[c].take
      /\ final => req[c].made + n = req[c].take
  BY DEF Deliver
<1>2. PICK K : K = conn[req[c].slot]
  OBVIOUS
<1>3. /\ worker'.at = "emit" /\ worker'.of = c /\ worker'.final = final
      /\ worker'.cut <=> n = 1 /\ K.samples = Cap
      /\ worker'.n = IF n = 1 /\ K.samples = Cap THEN 0 ELSE n
  BY <1>2 DEF Deliver
<1>4. /\ req'[c].st = "active" /\ req'[c].slot = req[c].slot /\ req'[c].made = req[c].made + n
      /\ req'[c].take = req[c].take /\ req[c].made \in Nat /\ req[c].take \in Nat
      /\ \A d \in Client : d # c => req'[d] = req[d]
  BY <1>1 DEF WorkType
<1>5. MayTouch(c) /\ Writing(c) /\ Pending(c) = 0
  BY <1>1 DEF MayTouch, Writing, Pending
<1>6. PICK w : w = Response(peer[c].wire)
  OBVIOUS
<1>7. Mid(K, w, 0, req[c].made, c) /\ K.samples \in Nat
  <2>1. MidOf(c) /\ req[c].slot \in Slot
    BY <1>5, ResponsesParts, TouchedSlot
  <2>2. K \in ConnRec
    BY <1>2, <2>1, ConnIsRec
  <2>3. K.samples \in Nat
    BY <2>2, HttpConstants DEF ConnRec
  <2> QED BY <1>2, <1>5, <1>6, <2>1, <2>3 DEF MidOf
<1>8. K.samples = Audible(req[c].made)
  BY <1>7, AudibleIs DEF Mid
<1>9. K.samples + worker'.n = Audible(req[c].made + n)
  <2>1. CASE n = 0
    BY <1>3, <1>4, <1>7, <1>8, <2>1
  <2>2. CASE n = 1 /\ K.samples = Cap
    <3>0. req[c].made + 1 \in Nat /\ req[c].made + 1 >= req[c].made
          /\ Audible(req[c].made) = Cap
      BY <1>4, <1>8, <2>2
    <3>1. Audible(req[c].made + 1) = Cap
      BY <1>4, <3>0, AudibleIs
    <3> QED BY <1>3, <1>7, <2>2, <3>1
  <2>3. CASE n = 1 /\ K.samples # Cap
    <3>1. Audible(req[c].made) = req[c].made /\ Audible(req[c].made + 1) = req[c].made + 1
      BY <1>4, <1>8, <2>3, AudibleIs
    <3> QED BY <1>3, <1>8, <2>3, <3>1
  <2> QED BY <2>1, <2>2, <2>3
<1>10. MidOf(c)'
  <2>1. Pending(c)' = worker'.n
    BY <1>3 DEF Pending
  <2>2. PICK m, q : m = req[c].made + n /\ q = worker'.n
    OBVIOUS
  <2>3. Mid(K, w, q, m, c)
    BY <1>7, <1>9, <2>2 DEF Mid
  <2>4. conn'[req'[c].slot] = K /\ Response(peer'[c].wire) = w /\ req'[c].made = m
    BY <1>1, <1>2, <1>4, <1>6, <2>2
  <2> QED BY <2>1, <2>2, <2>3, <2>4 DEF MidOf
<1>11. NoneNew /\ \A d : FlagOf(d)' => FlagOf(d)
  BY <1>1, <1>3, <1>4 DEF NoneNew, FlagOf
<1>12. Taken'
  <2>1. Taken
    BY ResponsesParts
  <2>2. \A d \in Client : /\ req'[d].st \in {"queued", "starting"} => req'[d].made = 0
                          /\ req'[d].made <= req'[d].take
    BY <1>1, <1>4, <2>1 DEF Taken
  <2>3. worker'.cut => Audible(req'[c].made) = Audible(req'[c].take)
    <3>1. ASSUME n = 1, K.samples = Cap PROVE Audible(req'[c].made) = Audible(req'[c].take)
      <4>1. Audible(req[c].made) = Cap /\ req[c].made + 1 >= req[c].made
            /\ req[c].take >= req[c].made
        BY <1>1, <1>4, <1>8, <3>1
      <4>2. Audible(req[c].made + 1) = Cap /\ Audible(req[c].take) = Cap
        BY <1>4, <4>1, AudibleIs
      <4> QED BY <1>4, <3>1, <4>2
    <3> QED BY <1>3, <3>1
  <2>4. worker'.final => req'[c].made = req'[c].take
    BY <1>1, <1>3, <1>4
  <2> QED BY <1>3, <2>2, <2>3, <2>4 DEF Taken
<1>13. ASSUME NEW d \in Client, d # c PROVE Calm(d)
  <2>1. Pending(d)' = 0 /\ Pending(d) = 0
    BY <1>1, <1>3, <1>13 DEF Pending
  <2>2. Writing(d)' => Writing(d)
    BY <1>1, <1>3, <1>4, <1>13 DEF Writing, MayTouch
  <2> QED BY <1>4, <1>13, <2>1, <2>2 DEF Calm
<1>14. \A d \in Client : req'[d].take = req[d].take
  BY <1>4
<1> QED BY <1>1, <1>10, <1>11, <1>12, <1>13, <1>14, QuietResponses
(* A connection in the middle of a streamed answer. *)
LEMMA MiddleStreamed ==
  ASSUME NEW K \in ConnRec, NEW w \in Seq(Token), NEW pending, NEW made, NEW c,
         Mid(K, w, pending, made, c), K.kind # "buffered"
  PROVE  /\ Streamed(w, IF K.hdr THEN 1 ELSE 0, K.samples, 0, c)
         /\ (K.hdr => K.kind = "wav") /\ (~K.hdr /\ K.kind = "wav" => K.samples = 0)
<1>1. K.samples \in Nat
  BY HttpConstants DEF ConnRec
<1>2. CASE K.hdr
  BY <1>1, <1>2 DEF Mid, Streamed, Pieces
<1>3. CASE ~K.hdr
  BY <1>1, <1>3 DEF Mid, Streamed, Pieces
<1> QED BY <1>2, <1>3

LEMMA StreamedMiddle ==
  ASSUME NEW K \in ConnRec, NEW w \in Seq(Token), NEW made, NEW c,
         K.samples = Audible(made), K.kind # "buffered",
         Streamed(w, IF K.hdr THEN 1 ELSE 0, K.samples, 0, c),
         K.hdr <=> K.kind = "wav"
  PROVE  Mid(K, w, 0, made, c)
<1>1. K.samples \in Nat
  BY HttpConstants DEF ConnRec
<1>2. CASE K.hdr
  BY <1>1, <1>2 DEF Mid, Streamed, Pieces
<1>3. CASE ~K.hdr
  BY <1>1, <1>3 DEF Mid, Streamed, Pieces
<1> QED BY <1>2, <1>3

(* The header goes out exactly once, before the first piece. *)
LEMMA HeaderStreamed ==
  ASSUME NEW w \in Seq(Token), NEW c, C \in ConnRec,
         Streamed(w, IF C.hdr THEN 1 ELSE 0, C.samples, 0, c),
         C.hdr => C.kind = "wav", ~C.hdr /\ C.kind = "wav" => C.samples = 0
  PROVE  /\ Header \in Seq(Token) /\ w \o Header \in Seq(Token)
         /\ Streamed(w \o Header, IF C.kind = "wav" THEN 1 ELSE 0, C.samples, 0, c)
<1>1. Header \in Seq(Token)
  BY HeaderToken
<1>2. CASE C.kind = "wav" /\ ~C.hdr
  <2>1. Header = <<WavHdr>>
    BY <1>2 DEF Header
  <2>2. Streamed(w, 0, 0, 0, c)
    BY <1>2
  <2>3. Streamed(w \o Header, 1, 0, 0, c)
    BY <2>1, <2>2, StreamHeader
  <2> QED BY <1>1, <1>2, <2>3
<1>3. CASE ~(C.kind = "wav" /\ ~C.hdr)
  <2>1. Header = <<>> /\ w \o Header = w
    <3>1. Header = <<>>
      BY <1>3 DEF Header
    <3> QED BY <3>1
  <2>2. C.hdr <=> C.kind = "wav"
    BY <1>3 DEF ConnRec
  <2>3. (IF C.hdr THEN 1 ELSE 0) = (IF C.kind = "wav" THEN 1 ELSE 0)
    BY <2>2
  <2>4. Streamed(w, IF C.kind = "wav" THEN 1 ELSE 0, C.samples, 0, c)
    BY <2>3, Zenon
  <2> QED BY <1>1, <2>1, <2>4
<1> QED BY <1>2, <1>3

(* The callback, before it writes. *)
LEMMA CallbackFacts ==
  ASSUME Places, Owns, Responses, worker.at \in {"emit", "close"},
         NEW i \in Slot, NEW c \in Client, i = Mine, c = worker.of
  PROVE  /\ C = conn[i] /\ conn[i] \in ConnRec /\ Holder(conn[i].fd) = {c} /\ ~conn[i].fin
         /\ conn[i].st \in {"routing", "streaming"} /\ req[c].st = "active" /\ req[c].slot = i
         /\ conn[i].kind = peer[c].kind /\ conn[i].kind \in {"wav", "pcm", "buffered"}
         /\ peer[c].wire \in Seq(Token) /\ Response(peer[c].wire) \in Seq(Token)
         /\ Mid(conn[i], Response(peer[c].wire), Pending(c), req[c].made, c)
         /\ \A d \in Client : d # c /\ MayTouch(d) => req[d].slot # i
<1> USE DEF Places, TypeOK
<1>1. /\ MayTouch(c) /\ C = conn[i] /\ Holder(conn[i].fd) = {c} /\ ~conn[i].fin
      /\ conn[i].st \in {"routing", "streaming"} /\ req[c].st = "active"
      /\ \A d \in Client : d # c /\ MayTouch(d) => req[d].slot # i
  BY CalledOwns
<1>2. conn[i] \in ConnRec /\ req[c].slot = i
  BY ConnIsRec DEF Mine
<1>3. OpenTo(i, c) /\ MidOf(c)
  BY <1>1, ResponsesParts DEF OpenOf
<1>4. conn[i].kind = peer[c].kind /\ conn[i].kind \in {"wav", "pcm", "buffered"}
  BY <1>1, <1>2, <1>3 DEF OpenTo, ConnRec, Kinds
<1>5. peer[c].wire \in Seq(Token)
  BY DEF PeerType
<1>6. Response(peer[c].wire) \in Seq(Token)
  BY <1>5, ResponseIsSeq
<1>7. Writing(c)
  BY <1>1 DEF Writing
<1>8. Mid(conn[i], Response(peer[c].wire), Pending(c), req[c].made, c)
  BY <1>2, <1>3, <1>7 DEF MidOf
<1> QED BY <1>1, <1>2, <1>4, <1>5, <1>6, <1>8

(* A step of the callback of c, on its connection i. *)
LEMMA CallResponses ==
  ASSUME Places, Owns, Responses, worker.at \in {"emit", "close"},
         NEW i \in Slot, NEW c \in Client, i = Mine, c = worker.of,
         UNCHANGED <<req, loop>>, Fills(i), OnlyWrote(peer'),
         \A d \in Client : d # c => peer'[d] = peer[d],
         worker'.of = c, worker'.at \in {"close", "flag", "return"},
         worker'.final = worker.final /\ worker'.cut = worker.cut,
         AnswerOf(c)', MidOf(c)', FinTo(i, c)'
  PROVE  Responses'
<1> USE DEF Places, TypeOK
<1>1. /\ Holder(conn[i].fd) = {c} /\ conn[i].st \in {"routing", "streaming"}
      /\ req[c].st = "active" /\ req[c].slot = i
      /\ conn[i].kind = peer[c].kind /\ conn[i].kind # "simple"
      /\ \A d \in Client : d # c /\ MayTouch(d) => req[d].slot # i
  BY CallbackFacts
<1>2. /\ \A j \in Slot : j # i => conn'[j] = conn[j]
      /\ conn'[i].st = conn[i].st /\ conn'[i].fd = conn[i].fd /\ conn'[i].kind = conn[i].kind
  BY DEF Fills
<1>3. \A g : Holder(g)' = Holder(g)
  BY WrotePeer
<1>4. Holder(conn[i].fd)' = {c}
  BY <1>1, <1>2, <1>3
<1>5. ~Reading(i)'
  <2>1. Reading(i)' => Reading(i)
    BY <1>2 DEF Reading
  <2>2. ~Reading(i)
    BY <1>1 DEF Asked
  <2> QED BY <2>1, <2>2
<1>6. OpenTo(i, c)'
  <2>1. peer'[c].kind = peer[c].kind
    BY DEF OnlyWrote
  <2> QED BY <1>1, <1>2, <1>5, <2>1 DEF OpenTo
<1>7. OpenOf(i)' /\ FinOf(i)'
  BY <1>1, <1>2, <1>4, <1>6 DEF OpenOf, FinOf
<1>8. ASSUME NEW j \in Slot, j # i
      PROVE  Rests(j) /\ \A d \in Holder(conn[j].fd) : FlagOf(d)' => FlagOf(d)
  <2>1. conn'[j] = conn[j] /\ Holder(conn[j].fd)' = Holder(conn[j].fd)
    BY <1>2, <1>3, <1>8
  <2>2. ASSUME NEW d \in Holder(conn[j].fd) PROVE d \in Client /\ d # c
    BY <1>1, <1>8, <2>2, HoldersApart
  <2>3. \A d \in Holder(conn[j].fd) : HearsSame(d)
    BY <2>2 DEF HearsSame
  <2> QED BY <2>1, <2>2, <2>3 DEF Rests, Stays, FlagOf
<1>9. ASSUME NEW d \in Client PROVE AnswerOf(d)'
  <2>1. CASE d # c
    BY <2>1, AnswerSame, ResponsesParts
  <2> QED BY <2>1
<1>10. ASSUME NEW d \in Client, d # c PROVE Calm(d) /\ (Writing(d)' => req[d].slot # i)
  <2>1. Pending(d)' = 0 /\ Pending(d) = 0
    BY <1>10 DEF Pending
  <2>2. Writing(d)' => Writing(d) /\ MayTouch(d)
    BY <1>10 DEF Writing, MayTouch
  <2> QED BY <1>1, <1>10, <2>1, <2>2 DEF Calm
<1>11. NoneNew
  BY DEF NoneNew
<1>12. Taken'
  <2>1. Taken
    BY ResponsesParts
  <2> QED BY <2>1 DEF Taken
<1> QED BY <1>7, <1>8, <1>9, <1>10, <1>11, <1>12, StepResponses
LEMMA EmitResponses ==
  ASSUME Places, Owns, Responses, Emit
  PROVE  Responses'
<1> USE DEF Places, TypeOK
<1>1. /\ worker.at = "emit" /\ UNCHANGED <<req, loop>>
      /\ EmitNothing \/ EmitHeld \/ EmitFull \/ EmitSent \/ EmitFails
  BY EmitCases
<1>2. PICK i \in Slot, c \in Client : i = Mine /\ c = worker.of
  BY <1>1, CalledFacts
<1>3. /\ C = conn[i] /\ conn[i] \in ConnRec /\ Holder(conn[i].fd) = {c} /\ ~conn[i].fin
      /\ req[c].st = "active" /\ req[c].slot = i
      /\ conn[i].kind = peer[c].kind /\ conn[i].kind \in {"wav", "pcm", "buffered"}
      /\ peer[c].wire \in Seq(Token) /\ Response(peer[c].wire) \in Seq(Token)
      /\ Mid(conn[i], Response(peer[c].wire), Pending(c), req[c].made, c)
  BY <1>1, <1>2, CallbackFacts
<1>4. PICK w \in Seq(Token) : w = Response(peer[c].wire)
  BY <1>3
<1>5. Pending(c) = worker.n /\ Mid(conn[i], w, worker.n, req[c].made, c) /\ AnswerOf(c)
  BY <1>1, <1>2, <1>3, <1>4, ResponsesParts DEF Pending
<1>6. conn \in [Slot -> ConnRec] /\ conn[i].samples \in Nat
  BY <1>3, ConnIsFcn, HttpConstants DEF ConnRec
<1>7. PICK K : K = conn'[i]
  OBVIOUS
<1>15. PICK x, fd : x \in Seq(Token) /\ x = peer[c].wire /\ fd = conn[i].fd
  BY <1>3
<1>16. c \in Holder(fd) /\ Holder(fd) = {c} /\ Response(x) = w
  BY <1>3, <1>4, <1>15
(* What remains of a step that goes on to the end of the piece. *)
<1>8. ASSUME worker' = [worker EXCEPT !.at = AfterEmit], Fills(i), OnlyWrote(peer'),
             \A d \in Client : d # c => peer'[d] = peer[d], AnswerOf(c)',
             Mid(K, Response(peer'[c].wire), 0, req[c].made, c)
      PROVE  Responses'
  <2>1. /\ worker'.at = AfterEmit /\ worker'.of = c /\ worker'.n = worker.n
        /\ worker'.final = worker.final /\ worker'.cut = worker.cut
    BY <1>1, <1>2, <1>8, AfterEmitGoes
  <2>2. worker'.at \in {"close", "return"}
    BY <2>1 DEF AfterEmit
  <2>3. FinTo(i, c)'
    BY <1>3, <1>8, <2>2 DEF FinTo, FlagOf, Fills
  <2>4. Pending(c)' = 0 /\ req' = req
    BY <1>1, <2>2 DEF Pending
  <2>5. MidOf(c)'
    BY <1>3, <1>7, <1>8, <2>4 DEF MidOf
  <2> QED BY <1>1, <1>2, <1>8, <2>1, <2>2, <2>3, <2>5, CallResponses
<1>9. ASSUME NEW at \in {"flag", "return"}, worker' = [worker EXCEPT !.at = at, !.rc = 1],
             Fills(i), OnlyWrote(peer'),
             \A d \in Client : d # c => peer'[d] = peer[d], AnswerOf(c)',
             at = "flag" => Complete(Response(peer'[c].wire)) \/ peer'[c].gone \/ peer'[c].slow
      PROVE  Responses'
  <2>1. /\ worker'.at = at /\ worker'.of = c
        /\ worker'.final = worker.final /\ worker'.cut = worker.cut /\ worker'.rc = 1
    BY <1>1, <1>2, <1>9, FailedGoes
  <2>2. FinTo(i, c)'
    BY <1>3, <1>9, <2>1 DEF FinTo, FlagOf, Fills
  <2>3. ~Writing(c)'
    BY <1>1, <1>3, <2>1 DEF Writing, MayTouch, Ends
  <2>4. MidOf(c)'
    BY <2>3 DEF MidOf
  <2> QED BY <1>1, <1>2, <1>9, <2>1, <2>2, <2>4, CallResponses
<1>10. CASE EmitNothing
  <2>1. Fills(i) /\ OnlyWrote(peer') /\ conn' = conn /\ peer' = peer
    BY <1>6, <1>10, FillsNothing, SameOnlyWrote DEF EmitNothing
  <2>2. AnswerOf(c)'
    BY <1>1, <1>5, <2>1, AnswerSame
  <2>3. Mid(K, Response(peer'[c].wire), 0, req[c].made, c)
    BY <1>4, <1>5, <1>7, <1>10, <2>1 DEF EmitNothing
  <2> QED BY <1>8, <1>10, <2>1, <2>2, <2>3 DEF EmitNothing
<1>11. CASE EmitHeld
  <2>1. /\ worker.n = 1 /\ conn[i].kind = "buffered" /\ peer' = peer /\ Fills(i)
        /\ K.samples = conn[i].samples + 1 /\ K.hdr = conn[i].hdr
        /\ K.acc = conn[i].acc \o <<Piece(c)>> /\ K.kind = "buffered"
        /\ worker' = [worker EXCEPT !.at = AfterEmit]
    BY <1>2, <1>3, <1>7, <1>11 DEF EmitHeld, Fills
  <2>2. AnswerOf(c)' /\ OnlyWrote(peer')
    BY <1>1, <1>5, <2>1, AnswerSame, SameOnlyWrote
  <2> DEFINE one == <<Piece(c)>>
  <2>3. one \in Seq(Token) /\ Len(one) = 1 /\ one[1] = Piece(c)
    BY OneToken
  <2>4. K.acc = conn[i].acc \o one
    BY <2>1
  <2> HIDE DEF one
  <2>5. PICK a \in Seq(Token), b \in Seq(Token) :
          a = conn[i].acc /\ b = K.acc /\ Len(b) = Len(a) + 1 /\ DOMAIN b = 1 .. Len(a) + 1
          /\ (\A j \in 1 .. Len(a) : b[j] = a[j]) /\ b[Len(a) + 1] = one[1]
    <3>1. conn[i].acc \in Seq(Token)
      BY <1>3 DEF ConnRec
    <3> QED BY <2>3, <2>4, <3>1, OneMore
  <2>6. /\ w = <<>> /\ ~conn[i].hdr /\ Len(a) = conn[i].samples /\ Pieces(a, 1, c)
        /\ conn[i].samples + 1 = Audible(req[c].made)
    BY <1>5, <2>1, <2>5 DEF Mid
  <2>7. Pieces(b, 1, c)
    <3>1. ASSUME NEW j \in DOMAIN b PROVE b[j] = Piece(c)
      <4>1. j \in 1 .. Len(a) \/ j = Len(a) + 1
        BY <2>5
      <4>2. CASE j \in 1 .. Len(a)
        <5>1. j \in DOMAIN a /\ j >= 1
          BY <4>2
        <5> QED BY <2>5, <2>6, <4>2, <5>1 DEF Pieces
      <4>3. CASE j = Len(a) + 1
        BY <2>3, <2>5, <4>3
      <4> QED BY <4>1, <4>2, <4>3
    <3> QED BY <3>1 DEF Pieces
  <2>8. K.samples + 0 = Audible(req[c].made) /\ Len(b) = K.samples
    BY <1>6, <2>1, <2>5, <2>6
  <2>9. Mid(K, Response(peer'[c].wire), 0, req[c].made, c)
    BY <1>4, <2>1, <2>5, <2>6, <2>7, <2>8 DEF Mid
  <2> QED BY <1>8, <2>1, <2>2, <2>9
<1>12. CASE EmitFull
  <2> DEFINE t == <<Simple(500)>>
  <2>1. /\ worker.n = 1 /\ conn[i].kind = "buffered" /\ conn' = conn
        /\ peer' \in WrittenOrLost(conn[i].fd, t)
        /\ worker' = [worker EXCEPT !.at = "flag", !.rc = 1]
    BY <1>3, <1>12 DEF EmitFull
  <2>2. t \in Seq(Token) /\ t[1] # Continue /\ t[1] = Simple(500) /\ DOMAIN t = {1}
    BY TokensAreTokens DEF Simple, Continue
  <2>3. \A kind, take : OneAnswer(t, kind, take)
    BY SimpleAnswer
  <2> HIDE DEF t
  <2>12. peer' \in WrittenOrLost(fd, t)
    BY <1>15, <2>1
  <2>4. Fills(i) /\ OnlyWrote(peer')
    BY <1>6, <2>1, <2>2, <2>12, FillsNothing, WroteOrLost
  <2>5. Complete(t)
    <3>1. 1 \in DOMAIN t /\ t[1] = Simple(500)
      BY <2>2
    <3> QED BY <2>2, <3>1, CompleteAt
  <2>6. \A d \in Client : d # c => peer'[d] = peer[d]
    BY <1>16, <2>2, <2>12, WireAfter
  <2>7. w = <<>>
    BY <1>5, <2>1 DEF Mid
  <2>8. \/ peer'[c].wire = x \o t
        \/ peer' = peer /\ (peer[c].gone \/ peer[c].slow)
    BY <1>15, <1>16, <2>2, <2>12, WireAfter
  <2>9. Response(x \o t) = t
    BY <1>15, <1>16, <2>2, <2>7, ResponseBegins
  <2>10. AnswerOf(c)'
    <3>1. CASE peer'[c].wire = x \o t
      BY <2>3, <2>9, <3>1 DEF AnswerOf
    <3>2. CASE peer' = peer
      BY <1>1, <1>5, <3>2, AnswerSame
    <3> QED BY <2>8, <3>1, <3>2
  <2>11. Complete(Response(peer'[c].wire)) \/ peer'[c].gone \/ peer'[c].slow
    BY <2>5, <2>8, <2>9
  <2> QED BY <1>9, <2>1, <2>4, <2>6, <2>10, <2>11
<1>13. CASE EmitSent
  <2> DEFINE one == <<Piece(c)>>
             h == IF conn[i].kind = "wav" THEN 1 ELSE 0
  <2>1. /\ worker.n = 1 /\ conn[i].kind # "buffered"
        /\ peer' = Written(conn[i].fd, Header \o one) /\ Fills(i)
        /\ K.samples = conn[i].samples + 1 /\ K.hdr = (conn[i].kind = "wav")
        /\ K.kind = conn[i].kind
        /\ worker' = [worker EXCEPT !.at = AfterEmit]
    BY <1>2, <1>3, <1>7, <1>13 DEF EmitSent, Fills
  <2>2. one \in Seq(Token)
    BY OneToken
  <2>3. /\ Streamed(w, IF conn[i].hdr THEN 1 ELSE 0, conn[i].samples, 0, c)
        /\ (conn[i].hdr => conn[i].kind = "wav")
        /\ (~conn[i].hdr /\ conn[i].kind = "wav" => conn[i].samples = 0)
    BY <1>3, <1>5, <2>1, MiddleStreamed
  <2>4. /\ Header \in Seq(Token) /\ w \o Header \in Seq(Token)
        /\ Streamed(w \o Header, h, conn[i].samples, 0, c)
    BY <1>3, <2>3, HeaderStreamed
  <2>5. PICK v \in Seq(Token) : v = w \o Header
    BY <2>4
  <2>6. Streamed(v \o one, h, conn[i].samples + 1, 0, c)
    <3>1. h \in {0, 1} /\ Streamed(v, h, conn[i].samples, 0, c)
      BY <2>4, <2>5
    <3> HIDE DEF h
    <3> QED BY <1>6, <3>1, StreamPiece
  <2> HIDE DEF one, h
  <2>7. v \o one \in Seq(Token) /\ Header \o one \in Seq(Token)
    BY <2>2, <2>4, <2>5, ConcatProperties
  <2>8. w \o (Header \o one) = v \o one
    BY <2>2, <2>4, <2>5, Regroup
  <2>15. PICK t \in Seq(Token) : t = Header \o one
    BY <2>7
  <2>16. peer' = Written(fd, t)
    BY <1>15, <2>1, <2>15
  <2>9. peer'[c].wire = x \o t /\ peer'[c].kind = peer[c].kind /\ peer' \in WrittenOrLost(fd, t)
    BY <1>15, <1>16, <2>16, WrittenWire
  <2>10. Response(peer'[c].wire) = v \o one
    <3>1. w # <<>>
      <4>1. Len(w) = 1 + (IF conn[i].hdr THEN 1 ELSE 0) + conn[i].samples + 0
        BY <2>3 DEF Streamed
      <4>2. Len(w) > 0
        BY <1>6, <4>1
      <4> QED BY <4>2
    <3>2. x # <<>>
      BY <1>16, <3>1 DEF Response
    <3>3. Response(x \o t) = w \o t
      BY <1>15, <1>16, <3>2, ResponseGrows
    <3> QED BY <2>8, <2>9, <2>15, <3>3
  <2>11. OnlyWrote(peer') /\ \A d \in Client : d # c => peer'[d] = peer[d]
    BY <1>16, <2>9, WroteOrLost, WireAfter
  <2>12. h \in {0, 1} /\ (conn[i].kind = "wav" <=> h = 1)
    BY DEF h
  <2>13. AnswerOf(c)'
    <3>0. v \o one \in Seq(Token) /\ conn[i].samples + 1 \in Nat
      BY <1>6, <2>7
    <3>1. PICK u \in Seq(Token), k \in Nat : u = v \o one /\ k = conn[i].samples + 1
      BY <3>0
    <3>2. Streamed(u, h, k, 0, c)
      BY <2>6, <3>1
    <3>3. \A kind, take : (kind = "wav" /\ k > 0 => h = 1) => OneAnswer(u, kind, take)
      <4>1. \A kind, take : Streamed(u, h, k, 0, c) /\ (kind = "wav" /\ k > 0 => h = 1)
                            /\ (0 = 1 => k = Audible(take)) => OneAnswer(u, kind, take)
        BY <2>12, StreamedAnswer
      <4> QED BY <3>2, <4>1
    <3>4. OneAnswer(u, peer'[c].kind, req'[c].take)
      BY <1>3, <2>9, <2>12, <3>3
    <3> QED BY <2>10, <3>1, <3>4 DEF AnswerOf
  <2>14. Mid(K, Response(peer'[c].wire), 0, req[c].made, c)
    <3>1. K \in ConnRec
      BY <1>7, <2>1 DEF Fills
    <3>2. K.samples = Audible(req[c].made)
      BY <1>5, <2>1 DEF Mid
    <3>3. (IF K.hdr THEN 1 ELSE 0) = h
      BY <2>1 DEF h
    <3>4. PICK u \in Seq(Token) : u = v \o one
      BY <2>7
    <3>5. Streamed(u, IF K.hdr THEN 1 ELSE 0, K.samples, 0, c)
      BY <2>1, <2>6, <3>3, <3>4
    <3>6. K.kind # "buffered" /\ (K.hdr <=> K.kind = "wav")
      BY <2>1
    <3>7. Mid(K, u, 0, req[c].made, c)
      BY <3>1, <3>2, <3>5, <3>6, StreamedMiddle
    <3> QED BY <2>10, <3>4, <3>7
  <2> QED BY <1>8, <2>1, <2>11, <2>13, <2>14
<1>14. CASE EmitFails
  <2>1. Fills(i) /\ peer' = peer /\ worker' = [worker EXCEPT !.at = "return", !.rc = 1]
    BY <1>2, <1>14 DEF EmitFails
  <2>2. AnswerOf(c)' /\ OnlyWrote(peer')
    BY <1>1, <1>5, <2>1, AnswerSame, SameOnlyWrote
  <2> QED BY <1>9, <2>1, <2>2
<1> QED BY <1>1, <1>10, <1>11, <1>12, <1>13, <1>14

LEMMA CloseResponses ==
  ASSUME Places, Owns, Responses, Close
  PROVE  Responses'
<1> USE DEF Places, TypeOK
<1>1. /\ worker.at = "close" /\ UNCHANGED <<req, loop>>
      /\ worker' = [worker EXCEPT !.at = "flag"]
      /\ Fills(Mine)
      /\ \/ /\ C.kind = "buffered"
            /\ peer' \in WrittenOrLost(C.fd, <<Length(Len(C.acc))>> \o C.acc)
         \/ /\ C.kind # "buffered" /\ Header \o <<EndChunk>> \in Seq(Token)
            /\ peer' \in WrittenOrLost(C.fd, Header \o <<EndChunk>>)
  BY CloseFacts
<1>2. PICK i \in Slot, c \in Client : i = Mine /\ c = worker.of
  BY <1>1, CalledFacts
<1>3. /\ C = conn[i] /\ conn[i] \in ConnRec /\ Holder(conn[i].fd) = {c}
      /\ req[c].st = "active" /\ req[c].slot = i
      /\ conn[i].kind = peer[c].kind /\ conn[i].kind \in {"wav", "pcm", "buffered"}
      /\ peer[c].wire \in Seq(Token) /\ Response(peer[c].wire) \in Seq(Token)
      /\ Mid(conn[i], Response(peer[c].wire), Pending(c), req[c].made, c)
  BY <1>1, <1>2, CallbackFacts
<1>12. req[c].take \in Nat
  BY DEF WorkType
<1>13. PICK x \in Seq(Token), w \in Seq(Token) : x = peer[c].wire /\ w = Response(peer[c].wire)
  BY <1>3
<1>15. PICK fd, kind : fd = conn[i].fd /\ kind = peer[c].kind
  OBVIOUS
<1>14. PICK take \in Nat : take = req[c].take
  BY <1>12
<1>4. /\ x = peer[c].wire /\ w = Response(x) /\ fd = conn[i].fd /\ take = req[c].take
      /\ kind = peer[c].kind
  BY <1>13, <1>14, <1>15
<1>5. /\ worker'.at = "flag" /\ worker'.of = c
      /\ worker'.final = worker.final /\ worker'.cut = worker.cut
  BY <1>1, <1>2, WorkerAt
<1>6. Mid(conn[i], w, 0, req[c].made, c) /\ AnswerOf(c)
  BY <1>1, <1>3, <1>4, ResponsesParts DEF Pending
<1>7. conn[i].samples = Audible(take)
  <2>1. Audible(req[c].made) = Audible(take)
    <3>1. Closes /\ Taken
      BY <1>1, ResponsesParts DEF WorkerPlace
    <3> QED BY <1>1, <1>2, <1>4, <3>1 DEF Taken, Closes
  <2>2. conn[i].samples \in Nat
    BY <1>3, HttpConstants DEF ConnRec
  <2> QED BY <1>6, <2>1, <2>2 DEF Mid
<1>8. MidOf(c)'
  BY <1>5 DEF MidOf, Writing
(* A last write that completes the response, if it arrives. *)
<1>9. ASSUME NEW t \in Seq(Token), peer' \in WrittenOrLost(fd, t),
             OneAnswer(Response(x \o t), kind, take), Complete(Response(x \o t))
      PROVE  Responses'
  <2>1. c \in Holder(fd) /\ Holder(fd) = {c}
    BY <1>3, <1>4
  <2>2. \/ peer'[c].wire = x \o t
        \/ peer' = peer /\ (peer[c].gone \/ peer[c].slow)
    BY <1>4, <1>9, <2>1, WireAfter
  <2>3. OnlyWrote(peer') /\ \A d \in Client : d # c => peer'[d] = peer[d]
    BY <1>9, <2>1, WroteOrLost, WireAfter
  <2>4. peer'[c].kind = kind /\ req'[c].take = take
    BY <1>1, <1>4, <2>3 DEF OnlyWrote
  <2>5. AnswerOf(c)'
    <3>1. CASE peer'[c].wire = x \o t
      BY <1>9, <2>4, <3>1 DEF AnswerOf
    <3>2. CASE peer' = peer
      BY <1>1, <1>6, <3>2, AnswerSame
    <3> QED BY <2>2, <3>1, <3>2
  <2>6. FinTo(i, c)'
    BY <1>9, <2>2 DEF FinTo
  <2>7. Fills(i)
    BY <1>1, <1>2
  <2> QED BY <1>1, <1>2, <1>5, <1>8, <2>3, <2>5, <2>6, <2>7, CallResponses
<1>10. CASE C.kind = "buffered" /\ peer' \in WrittenOrLost(C.fd, <<Length(Len(C.acc))>> \o C.acc)
  <2>1. PICK acc, n : acc \in Seq(Token) /\ acc = conn[i].acc /\ n = Len(acc)
    BY <1>3 DEF ConnRec
  <2>2. w = <<>> /\ n = Audible(take) /\ Pieces(acc, 1, c)
    BY <1>3, <1>6, <1>7, <1>10, <2>1 DEF Mid
  <2>3. kind = "buffered"
    BY <1>3, <1>4, <1>10
  <2> DEFINE one == <<Length(n)>>
  <2>4. n \in Nat
    BY <2>1
  <2>5. one \in Seq(Token) /\ Len(one) = 1 /\ one[1] = Length(n)
    BY <2>4, TokensAreTokens
  <2>6. OneAnswer(one \o acc, kind, take)
    BY <2>1, <2>2, <2>3, FileAnswer
  <2>7. peer' \in WrittenOrLost(fd, one \o acc)
    BY <1>3, <1>4, <1>10, <2>1
  <2> HIDE DEF one
  <2>11. /\ one \o acc \in Seq(Token) /\ (one \o acc)[1] = one[1]
         /\ DOMAIN (one \o acc) = 1 .. 1 + Len(acc)
    BY <2>1, <2>5, BehindOne
  <2>8. PICK t \in Seq(Token) :
          t = one \o acc /\ t[1] = Length(n) /\ DOMAIN t = 1 .. 1 + n
    BY <2>1, <2>5, <2>11, Zenon
  <2>9. Response(x \o t) = t
    <3>1. t[1] # Continue
      BY <2>8 DEF Length, Continue
    <3> QED BY <1>4, <2>2, <3>1, ResponseBegins
  <2>10. Complete(t)
    <3>1. 1 \in DOMAIN t
      BY <2>4, <2>8
    <3> QED BY <2>8, <3>1, CompleteAt
  <2> QED BY <1>9, <2>6, <2>7, <2>8, <2>9, <2>10
<1>11. CASE /\ C.kind # "buffered" /\ Header \o <<EndChunk>> \in Seq(Token)
            /\ peer' \in WrittenOrLost(C.fd, Header \o <<EndChunk>>)
  <2> DEFINE one == <<EndChunk>>
             h == IF conn[i].kind = "wav" THEN 1 ELSE 0
  <2>1. one \in Seq(Token)
    BY OneToken
  <2>2. conn[i].samples \in Nat /\ C.samples = conn[i].samples
    BY <1>3, HttpConstants DEF ConnRec
  <2>3. PICK k \in Nat : k = conn[i].samples
    BY <2>2
  <2>4. /\ Streamed(w, IF conn[i].hdr THEN 1 ELSE 0, conn[i].samples, 0, c)
        /\ (conn[i].hdr => conn[i].kind = "wav")
        /\ (~conn[i].hdr /\ conn[i].kind = "wav" => conn[i].samples = 0)
    BY <1>3, <1>6, <1>11, MiddleStreamed
  <2>5. /\ Header \in Seq(Token) /\ w \o Header \in Seq(Token)
        /\ Streamed(w \o Header, h, conn[i].samples, 0, c)
    BY <1>3, <2>4, HeaderStreamed
  <2>6. PICK v \in Seq(Token), g \in Seq(Token) : v = w \o Header /\ g = Header
    BY <2>5
  <2>7. h \in {0, 1} /\ (conn[i].kind = "wav" <=> h = 1)
    OBVIOUS
  <2>8. Streamed(v, h, k, 0, c)
    BY <2>3, <2>5, <2>6
  <2>9. peer' \in WrittenOrLost(fd, g \o one)
    BY <1>3, <1>4, <1>11, <2>6
  <2> HIDE DEF h
  <2>10. Streamed(v \o one, h, k, 1, c)
    BY <2>7, <2>8, StreamEnd
  <2> HIDE DEF one
  <2>19. w \o (g \o one) = v \o one
    BY <1>13, <2>1, <2>5, <2>6, Regroup
  <2>11. v \o one \in Seq(Token) /\ g \o one \in Seq(Token)
    BY <2>1, ConcatProperties
  <2>12. PICK u \in Seq(Token), t \in Seq(Token) : u = v \o one /\ t = g \o one
    BY <2>11
  <2>13. w \o t = u
    BY <2>12, <2>19
  <2>14. Streamed(u, h, k, 1, c)
    BY <2>10, <2>12
  <2>15. Response(x \o t) = u
    <3>1. w # <<>>
      <4>1. PICK b \in {0, 1} : b = IF conn[i].hdr THEN 1 ELSE 0
        OBVIOUS
      <4>2. Len(w) = 1 + b + k + 0
        BY <2>3, <2>4, <4>1 DEF Streamed
      <4>3. Len(w) > 0
        BY <4>2
      <4> QED BY <4>2
    <3>2. x # <<>>
      BY <1>4, <3>1 DEF Response
    <3>3. Response(x \o t) = Response(x) \o t
      BY <3>2, ResponseGrows
    <3> QED BY <1>4, <2>13, <3>3
  <2>16. OneAnswer(u, kind, take)
    <3>1. kind = "wav" /\ k > 0 => h = 1
      BY <1>3, <1>4, <2>7
    <3>2. k = Audible(take)
      BY <1>7, <2>3
    <3> QED BY <2>7, <2>14, <3>1, <3>2, StreamedAnswer
  <2>17. Complete(u)
    <3>1. Len(u) = 1 + h + k + 1 /\ u[Len(u)] = EndChunk
      BY <2>14 DEF Streamed
    <3>2. Len(u) \in DOMAIN u
      BY <2>7, <3>1
    <3> QED BY <3>1, <3>2, CompleteAt
  <2>18. peer' \in WrittenOrLost(fd, t)
    BY <2>9, <2>12
  <2> QED BY <1>9, <2>15, <2>16, <2>17, <2>18
<1> QED BY <1>1, <1>10, <1>11

LEMMA FlagResponses ==
  ASSUME Places, Owns, Responses, Flag
  PROVE  Responses'
<1> USE DEF Places, TypeOK
<1>1. /\ worker.at = "flag" /\ UNCHANGED <<peer, req, loop>>
      /\ \A j \in Slot : j # Mine => conn'[j] = conn[j]
      /\ conn'[Mine].st = C.st /\ conn'[Mine].fd = C.fd /\ conn'[Mine].got = C.got
      /\ conn'[Mine].kind = C.kind
  BY FlagFacts
<1>2. PICK i \in Slot, c \in Client : i = Mine /\ c = worker.of
  BY <1>1, CalledFacts
<1>3. /\ C = conn[i] /\ Holder(conn[i].fd) = {c} /\ conn[i].st \in {"routing", "streaming"}
      /\ req[c].st = "active"
      /\ \A d \in Client : d # c /\ MayTouch(d) => req[d].slot # i
  BY <1>1, <1>2, CalledOwns
<1>4. worker'.at = "return" /\ worker'.of = c /\ Ends'
  <2>1. worker' = [worker EXCEPT !.at = "return"] /\ Ends
    BY <1>1 DEF Flag, WorkerPlace
  <2>2. /\ worker'.at = "return" /\ worker'.of = worker.of
        /\ worker'.final = worker.final /\ worker'.cut = worker.cut /\ worker'.rc = worker.rc
    BY <2>1, WorkerAt
  <2> QED BY <1>2, <2>1, <2>2 DEF Ends
<1>5. ~MayTouch(c)'
  BY <1>1, <1>3, <1>4 DEF MayTouch
<1>6. /\ conn'[i].st = conn[i].st /\ conn'[i].fd = conn[i].fd /\ conn'[i].got = conn[i].got
      /\ conn'[i].kind = conn[i].kind
      /\ \A j \in Slot : j # i => conn'[j] = conn[j]
  BY <1>1, <1>2, <1>3
<1>7. \A fd : Holder(fd)' = Holder(fd)
  BY <1>1 DEF Holder
<1>8. Holder(conn[i].fd)' = {c}
  BY <1>3, <1>6, <1>7
<1>9. OpenOf(i)'
  <2>1. OpenOf(i) /\ OpenTo(i, c)
    BY <1>3, ResponsesParts DEF OpenOf
  <2>2. Reading(i)' => Reading(i)
    BY <1>1, <1>6 DEF Reading
  <2>3. OpenTo(i, c)'
    BY <1>1, <1>6, <2>1, <2>2 DEF OpenTo
  <2> QED BY <1>6, <1>8, <2>1, <2>3 DEF OpenOf
<1>10. FinOf(i)'
  <2>1. FinTo(i, c) /\ FlagOf(c)
    BY <1>1, <1>2, <1>3, ResponsesParts DEF FinOf, FlagOf
  <2>2. FinTo(i, c)'
    BY <1>1, <2>1 DEF FinTo
  <2> QED BY <1>8, <2>2 DEF FinOf
<1>11. ASSUME NEW j \in Slot, j # i
       PROVE  Rests(j) /\ \A d \in Holder(conn[j].fd) : FlagOf(d)' => FlagOf(d)
  <2>1. conn'[j] = conn[j] /\ Holder(conn[j].fd)' = Holder(conn[j].fd)
    BY <1>6, <1>7, <1>11
  <2> QED BY <1>1, <1>4, <2>1 DEF Rests, Stays, HearsSame, FlagOf
<1>12. ASSUME NEW d \in Client PROVE AnswerOf(d)'
  BY <1>1, AnswerSame, ResponsesParts
<1>13. ASSUME NEW d \in Client PROVE Calm(d) /\ (Writing(d)' => req[d].slot # i)
  <2>1. CASE d = c
    BY <1>5, <2>1 DEF Calm, Writing
  <2>2. CASE d # c
    <3>1. Pending(d)' = 0 /\ Pending(d) = 0
      BY <1>1, <1>4 DEF Pending
    <3>2. Writing(d)' => Writing(d) /\ MayTouch(d)
      BY <1>1, <1>2, <1>4, <2>2 DEF Writing, MayTouch
    <3> QED BY <1>1, <1>3, <2>2, <3>1, <3>2 DEF Calm
  <2> QED BY <2>1, <2>2
<1>14. NoneNew
  BY <1>1 DEF NoneNew
<1>15. Taken'
  <2>1. Taken
    BY ResponsesParts
  <2> QED BY <1>1, <1>4, <2>1 DEF Taken
<1> QED BY <1>9, <1>10, <1>11, <1>12, <1>13, <1>14, <1>15, StepResponses

LEMMA InitResponses == Init => Responses
<1> SUFFICES ASSUME Init PROVE Responses
  OBVIOUS
<1>1. \A i \in Slot : conn[i] = FreeConn
  BY DEF Init
<1>2. \A c \in Client : peer[c].st = "new" /\ peer[c].wire = <<>>
  BY DEF Init
<1>3. /\ \A c \in Client : req[c].st = "none" /\ req[c].made = 0 /\ req[c].take = 0
      /\ worker.at = "idle"
  BY DEF Init, Idle
<1>4. \A fd : Holder(fd) = {}
  BY <1>2 DEF Holder
<1>5. ASSUME NEW i \in Slot PROVE OpenOf(i) /\ FinOf(i)
  <2>1. conn[i].st = "free"
    BY <1>1 DEF FreeConn, ConnAt
  <2> QED BY <1>4, <2>1 DEF OpenOf, FinOf
<1>6. ASSUME NEW c \in Client PROVE MidOf(c) /\ AnswerOf(c)
  <2>1. ~Writing(c)
    BY <1>3 DEF Writing, MayTouch
  <2>2. Response(peer[c].wire) = <<>>
    BY <1>2 DEF Response
  <2> QED BY <2>1, <2>2, NoAnswer DEF MidOf, AnswerOf
<1>7. Taken
  BY <1>3 DEF Taken
<1> QED BY <1>5, <1>6, <1>7, ResponsesParts

LEMMA NextResponses == NoWindow /\ Places /\ Owns /\ Responses /\ [Next]_vars => Responses'
<1> SUFFICES ASSUME NoWindow, Places, Owns, Responses, [Next]_vars PROVE Responses'
  OBVIOUS
<1>1. CASE PollLoop
  <2>1. CASE NextTurn \/ ServeNone
    <3>1. UNCHANGED <<peer, conn, req, worker>> /\ loop.at = "serve"
      BY <2>1 DEF NextTurn, ServeNone
    <3>2. \A j \in Slot : conn[j].st # "routing"
      BY <3>1, NotRouting DEF Places
    <3> QED BY <3>1, <3>2, LoopResponses
  <2> QED BY <1>1, <2>1, BuildResponses, PollAcceptResponses, ServeIdleResponses,
             ServeStreamingResponses, ReadResponses, RouteHeadResponses, RouteSubmitResponses,
             RouteSubmittedResponses, RouteRefusedResponses, ShutdownResponses, ExitResponses
             DEF PollLoop
<1>2. CASE WorkerStep
  BY <1>2, PopResponses, StartedResponses, DeliverResponses, EmitResponses, CloseResponses,
     FlagResponses, ReturnResponses DEF WorkerStep
<1>3. CASE Environment
  BY <1>3, ClientResponses DEF Environment
<1>4. CASE UNCHANGED vars
  <2>1. UNCHANGED <<peer, conn, req, worker, loop>>
    BY <1>4 DEF vars
  <2> QED BY <2>1, LoopResponses
<1> QED BY <1>1, <1>2, <1>3, <1>4 DEF Next

(* With cancels that meet their request, the inductive invariant holds: the *)
(* connection of a request counts what is on the wire, up to the take.      *)
THEOREM ResponsesKept ==
  ASSUME NoWindow
  PROVE  Spec => []IInv
<1>1. Init => IInv
  BY InitPlaces, InitOwns, InitResponses DEF IInv
<1>2. IInv /\ [Next]_vars => IInv'
  BY NextPlaces, NextOwns, NextResponses DEF IInv
<1> QED BY <1>1, <1>2, PTL DEF Spec

(* conn_emit and conn_finish_response, for any number of clients and any    *)
(* takes: every client hears one well-formed response, and a length or a    *)
(* terminal chunk follows all the audio of the take up to its cap.          *)
THEOREM OneResponseKept ==
  ASSUME NoWindow
  PROVE  Spec => []OneResponse
<1>1. IInv => OneResponse
  BY DEF IInv, Responses
<1> QED BY <1>1, ResponsesKept, PTL

-----------------------------------------------------------------------------
(* ClosedIsComplete, of one client.                                         *)

Closing(c) ==
  /\ peer[c].st # "closed" /\ peer'[c].st = "closed" /\ loop.at # "exit"
  /\ ~peer[c].gone /\ ~peer[c].slow

ClosesWell(c) == Closing(c) => Complete(Response(peer'[c].wire))

(* Only a reset closes, and only its own client. *)
LEMMA DropCloses ==
  ASSUME PeerType, NEW i, NEW p, Drops(i, p),
         \A c \in Client : c \notin Holder(conn[i].fd) => p[c] = peer[c],
         NEW c \in Client, Closing(c)
  PROVE  c \in Holder(conn[i].fd) /\ peer'[c].wire = p[c].wire
<1>1. PICK fd : fd = conn[i].fd
  OBVIOUS
<1>2. OnlyWrote(p) /\ peer' = Closed(p, fd)
  BY <1>1 DEF Drops
<1>3. /\ c \notin Holder(fd) => peer'[c] = p[c]
      /\ c \in Holder(fd) => peer'[c].wire = p[c].wire
  BY <1>2, ClosedPeer
<1> QED BY <1>1, <1>3 DEF Closing

LEMMA ResetCloses ==
  ASSUME PeerType, NEW i, Reset(i), NEW c \in Client, Closing(c)
  PROVE  c \in Holder(conn[i].fd) /\ peer'[c].wire = peer[c].wire
BY ResetDrops, DropCloses

(* The answer behind which a connection is reset has arrived. *)
LEMMA AnswerCloses ==
  ASSUME PeerType, NEW i, NEW t \in Seq(Token), AnswerAndReset(i, t), NEW c \in Client, Closing(c),
         c \in Holder(conn[i].fd) => Complete(Response(peer[c].wire \o t))
  PROVE  Complete(Response(peer'[c].wire))
<1>1. PICK fd : fd = conn[i].fd
  OBVIOUS
<1>2. PICK p \in WrittenOrLost(fd, t) : Drops(i, p)
  BY <1>1, AnswerDrops
<1>3. \A d \in Client : d \notin Holder(fd) => p[d] = peer[d]
  BY <1>2, WireAfter
<1>4. c \in Holder(fd) /\ peer'[c].wire = p[c].wire
  BY <1>1, <1>2, <1>3, DropCloses
<1>5. p[c].wire = peer[c].wire \o t
  BY <1>2, <1>4, WireAfter DEF Closing
<1> QED BY <1>1, <1>4, <1>5

(* A step that at most writes closes no one. *)
LEMMA WriteCloses ==
  ASSUME OnlyWrote(peer'), NEW c \in Client
  PROVE  ClosesWell(c)
BY DEF OnlyWrote, ClosesWell, Closing

LEMMA SameCloses ==
  ASSUME UNCHANGED peer, NEW c \in Client
  PROVE  ClosesWell(c)
BY DEF ClosesWell, Closing

LEMMA BuildCloses ==
  ASSUME Places, Responses, Build, NEW c \in Client
  PROVE  ClosesWell(c)
<1> USE DEF Places, TypeOK
<1> SUFFICES ASSUME Closing(c) PROVE Complete(Response(peer'[c].wire))
  BY DEF ClosesWell
<1>1. loop.k \in Slot
  BY HttpConstants DEF Build, LoopType, Slot
<1>2. PICK i \in Slot : i = loop.k
  BY <1>1
<1>3. CASE conn[i].fin /\ Reset(i)
  <2>1. c \in Holder(conn[i].fd) /\ peer'[c].wire = peer[c].wire
    BY <1>3, ResetCloses
  <2>2. FinTo(i, c)
    BY <2>1, ResponsesParts DEF FinOf
  <2> QED BY <1>3, <2>1, <2>2 DEF FinTo, Closing
<1>4. CASE UNCHANGED peer
  BY <1>4 DEF Closing
<1> QED BY <1>2, <1>3, <1>4 DEF Build

LEMMA PollAcceptCloses ==
  ASSUME Places, PollAccept, NEW c \in Client
  PROVE  ClosesWell(c)
<1>1. ASSUME NEW d \in Client, NEW i \in Slot, NEW fd \in Fd, peer[d].st = "backlog", Admit(d, i, fd)
      PROVE  ClosesWell(c)
  <2>1. /\ \A e \in Client : e # d => peer'[e] = peer[e]
        /\ peer'[d].st = "open"
    BY <1>1, AcceptFacts
  <2> QED BY <2>1 DEF ClosesWell, Closing
<1>2. ASSUME NEW d \in Client, peer[d].st = "backlog", TurnAway(d) PROVE ClosesWell(c)
  <2> DEFINE t == <<Simple(503)>>
  <2>1. t \in Seq(Token) /\ t[1] = Simple(503) /\ DOMAIN t = {1} /\ t[1] # Continue
    BY TokensAreTokens DEF Simple, Continue
  <2>2. (\A e \in Client : e # d => peer'[e] = peer[e]) /\ peer'[d].wire = t
    BY <1>2, RefuseFacts
  <2> HIDE DEF t
  <2>3. Complete(t)
    <3>1. 1 \in DOMAIN t /\ t[1] = Simple(503)
      BY <2>1
    <3> QED BY <2>1, <3>1, CompleteAt
  <2>4. Response(t) = t
    BY <2>1 DEF Response
  <2> QED BY <2>2, <2>3, <2>4 DEF ClosesWell, Closing
<1>3. CASE UNCHANGED <<peer, conn>>
  BY <1>3, SameCloses
<1> QED BY <1>1, <1>2, <1>3, PollAcceptCases

LEMMA ServeIdleCloses ==
  ASSUME Places, Owns, Responses, ServeIdle, NEW c \in Client
  PROVE  ClosesWell(c)
<1> USE DEF Places, TypeOK
<1> SUFFICES ASSUME Closing(c) PROVE Complete(Response(peer'[c].wire))
  BY DEF ClosesWell
<1>1. PICK i \in Slot : conn[i].st \in {"head", "body"} /\ AnswerAndReset(i, <<Simple(408)>>)
  BY DEF ServeIdle, Served
<1> DEFINE t == <<Simple(408)>>
<1>2. AnswerAndReset(i, t) /\ t \in Seq(Token) /\ t[1] # Continue
      /\ t[1] = Simple(408) /\ DOMAIN t = {1}
  BY <1>1, TokensAreTokens DEF Simple, Continue
<1> HIDE DEF t
<1>3. Complete(t)
  <2>1. 1 \in DOMAIN t /\ t[1] = Simple(408)
    BY <1>2
  <2> QED BY <1>2, <2>1, CompleteAt
<1>4. ASSUME c \in Holder(conn[i].fd) PROVE Complete(Response(peer[c].wire \o t))
  <2>1. Reading(i)
    BY <1>1 DEF Reading
  <2>2. Response(peer[c].wire) = <<>> /\ peer[c].wire \in Seq(Token)
    BY <1>4, <2>1, ReadingFacts
  <2>3. Response(peer[c].wire \o t) = t
    BY <1>2, <2>2, ResponseBegins
  <2> QED BY <1>3, <2>3
<1> QED BY <1>2, <1>4, AnswerCloses

(* A connection has one client. *)
LEMMA OneHolder ==
  ASSUME Places, NEW fd, NEW c \in Holder(fd), NEW d \in Holder(fd)
  PROVE  c = d
BY DEF Places, Table, Holder

LEMMA ServeStreamingCloses ==
  ASSUME Places, ServeStreaming, NEW c \in Client
  PROVE  ClosesWell(c)
<1>1. PICK i \in Slot, d \in Client :
        d \in Holder(conn[i].fd) /\ ((peer[d].gone /\ Reset(i)) \/ UNCHANGED peer)
  BY DEF ServeStreaming, Served
<1>2. ASSUME peer[d].gone, Reset(i), Closing(c) PROVE FALSE
  <2>1. c \in Holder(conn[i].fd)
    BY <1>2, ResetCloses DEF Places, TypeOK
  <2>2. c = d
    BY <1>1, <2>1, OneHolder
  <2> QED BY <1>2, <2>2 DEF Closing
<1> QED BY <1>1, <1>2, SameCloses DEF ClosesWell

LEMMA ReadCloses ==
  ASSUME Places, Owns, Responses, Read, NEW c \in Client
  PROVE  ClosesWell(c)
<1> USE DEF Places, TypeOK
<1>1. PICK i \in Slot, d \in Client, expect \in {<<>>, <<Continue>>} :
        /\ d \in Holder(conn[i].fd) /\ conn[i].st \in {"head", "body"}
        /\ conn[i].got # 0 => expect = <<>>
        /\ \/ peer[d].gone /\ ReadNothing(i)
           \/ ReadHead(i, expect)
           \/ ReadSimple(i, d, expect)
           \/ ReadBody(i, d, expect)
  BY ReadCases
<1>2. \A e \in Holder(conn[i].fd) : e = d
  BY <1>1, OneHolder
<1>3. Reading(i)
  BY <1>1 DEF Reading
<1>4. /\ peer[d].wire \in Seq(Token) /\ Response(peer[d].wire) = <<>>
      /\ (conn[i].st = "head" => peer[d].wire = <<>>)
  BY <1>1, <1>3, ReadingFacts
<1>5. conn[i].got = 0 => conn[i].st = "head"
  BY <1>1, ResponsesParts DEF OpenOf
<1>6. peer[d].wire = <<>> \/ expect = <<>>
  BY <1>1, <1>4, <1>5
<1>7. /\ expect \in Seq(Token)
      /\ \A t \in Seq(Token) : t[1] # Continue => Response(peer[d].wire \o (expect \o t)) = t
  BY <1>4, <1>6, ExpectHeard
<1>8. CASE peer[d].gone /\ ReadNothing(i)
  <2>1. ASSUME Closing(c) PROVE FALSE
    <3>1. c \in Holder(conn[i].fd)
      BY <1>8, <2>1, ResetCloses DEF ReadNothing
    <3> QED BY <1>2, <1>8, <2>1, <3>1 DEF Closing
  <2> QED BY <2>1 DEF ClosesWell
<1>9. CASE ReadHead(i, expect) \/ ReadBody(i, d, expect)
  <2>1. peer' \in WrittenOrLost(conn[i].fd, expect)
    BY <1>9 DEF ReadHead, ReadBody
  <2>2. OnlyWrote(peer')
    BY <1>7, <2>1, WroteOrLost
  <2> QED BY <2>2, WriteCloses
<1>10. CASE ReadSimple(i, d, expect)
  <2> DEFINE t == <<Simple(0)>>
             u == expect \o t
  <2>1. AnswerAndReset(i, u) /\ t[1] # Continue /\ t[1] = Simple(0) /\ DOMAIN t = {1}
        /\ t \in Seq(Token)
    <3>1. t \in {<<Simple(n)>> : n \in Nat}
      OBVIOUS
    <3>2. t \in Seq(Token)
      BY <3>1, SilentTokens
    <3> QED BY <1>10, <3>2 DEF ReadSimple, Simple, Continue
  <2> HIDE DEF t
  <2>2. Complete(t)
    <3>1. 1 \in DOMAIN t /\ t[1] = Simple(0)
      BY <2>1
    <3> QED BY <2>1, <3>1, CompleteAt
  <2>3. u \in Seq(Token) /\ Response(peer[d].wire \o u) = t
    BY <1>7, <2>1
  <2> HIDE DEF u
  <2>4. c \in Holder(conn[i].fd) => Complete(Response(peer[c].wire \o u))
    BY <1>2, <2>2, <2>3
  <2> QED BY <2>1, <2>3, <2>4, AnswerCloses DEF ClosesWell
<1> QED BY <1>1, <1>8, <1>9, <1>10

LEMMA RouteHeadCloses ==
  ASSUME Places, RouteHead, NEW c \in Client
  PROVE  ClosesWell(c)
<1> USE DEF Places, TypeOK
<1>1. CASE UNCHANGED peer
  BY <1>1, SameCloses
<1>2. CASE peer' = Written(Routed.fd, <<Head200>>)
  <2>1. PICK t \in Seq(Token) : t = <<Head200>>
    BY TokensAreTokens
  <2>2. PICK fd : fd = Routed.fd
    OBVIOUS
  <2>3. peer' = Written(fd, t)
    BY <1>2, <2>1, <2>2
  <2>4. OnlyWrote(peer')
    BY <2>3, WrittenOnlyWrote
  <2> QED BY <2>4, WriteCloses
<1>3. CASE SendFails(Routed.fd) /\ Reset(loop.slot)
  <2>1. ASSUME Closing(c) PROVE FALSE
    <3>1. PICK i : i = loop.slot
      OBVIOUS
    <3>2. c \in Holder(conn[i].fd)
      BY <1>3, <2>1, <3>1, ResetCloses
    <3>3. c \in Holder(Routed.fd)
      BY <3>1, <3>2 DEF Routed
    <3> QED BY <1>3, <2>1, <3>3 DEF SendFails, Closing
  <2> QED BY <2>1 DEF ClosesWell
<1> QED BY <1>1, <1>2, <1>3 DEF RouteHead

LEMMA RouteRefusedCloses ==
  ASSUME Places, Owns, Responses, RouteRefused, NEW c \in Client
  PROVE  ClosesWell(c)
<1> USE DEF Places, TypeOK
<1> SUFFICES ASSUME Closing(c) PROVE Complete(Response(peer'[c].wire))
  BY DEF ClosesWell
<1>1. loop.at = "submit" /\ req[RoutedClient].st = "none"
  BY DEF RouteRefused
<1>2. PICK i \in Slot, r \in Client : i = loop.slot /\ r = RoutedClient
  BY <1>1, RoutedFacts
<1>3. conn[i].st = "routing" /\ Holder(conn[i].fd) = {r} /\ req[r].st = "none"
  BY <1>1, <1>2, RoutedFacts
<1>4. AnswerAndReset(i, IF conn[i].kind = "buffered" THEN <<Simple(503)>> ELSE <<EndChunk>>)
  BY <1>2 DEF RouteRefused, Routed
<1>5. /\ peer[r].wire \in Seq(Token)
      /\ Response(peer[r].wire) = IF conn[i].kind = "buffered" THEN <<>> ELSE <<Head200>>
  <2>1. OpenTo(i, r)
    BY <1>3, ResponsesParts DEF OpenOf
  <2> QED BY <1>1, <1>3, <2>1 DEF OpenTo, PeerType
<1>6. CASE conn[i].kind = "buffered"
  <2> DEFINE t == <<Simple(503)>>
  <2>1. AnswerAndReset(i, t) /\ t[1] # Continue /\ t \in Seq(Token)
        /\ t[1] = Simple(503) /\ DOMAIN t = {1}
    <3>1. t \in Seq(Token)
      BY TokensAreTokens
    <3> QED BY <1>4, <1>6, <3>1 DEF Simple, Continue
  <2> HIDE DEF t
  <2>2. Complete(t)
    <3>1. 1 \in DOMAIN t /\ t[1] = Simple(503)
      BY <2>1
    <3> QED BY <2>1, <3>1, CompleteAt
  <2>3. Response(peer[r].wire \o t) = t
    BY <1>5, <1>6, <2>1, ResponseBegins
  <2> QED BY <1>3, <2>1, <2>2, <2>3, AnswerCloses
<1>7. CASE conn[i].kind # "buffered"
  <2> DEFINE t == <<EndChunk>>
             w == peer[r].wire
  <2>1. AnswerAndReset(i, t) /\ t \in Seq(Token) /\ Len(t) = 1 /\ t[1] = EndChunk
    BY <1>4, <1>7, OneToken
  <2>2. Response(w) = <<Head200>> /\ w \in Seq(Token) /\ w # <<>>
    BY <1>5, <1>7 DEF Response
  <2>3. PICK v \in Seq(Token) : v = Response(w)
    BY <2>2, ResponseIsSeq
  <2> HIDE DEF t
  <2>4. /\ v \o t \in Seq(Token) /\ DOMAIN (v \o t) = 1 .. Len(v) + 1
        /\ (v \o t)[Len(v) + 1] = t[1]
    BY <2>1, OneMore
  <2>8. PICK n \in Nat : n = Len(v)
    OBVIOUS
  <2>9. PICK u \in Seq(Token) : u = v \o t
    BY <2>4
  <2>5. u = v \o t /\ DOMAIN u = 1 .. n + 1 /\ u[n + 1] = EndChunk
    BY <2>1, <2>4, <2>8, <2>9, Zenon
  <2>6. Complete(u)
    <3>1. n + 1 \in DOMAIN u
      BY <2>5
    <3> QED BY <2>5, <3>1, CompleteAt
  <2>7. Response(w \o t) = u
    BY <2>1, <2>2, <2>3, <2>5, ResponseGrows
  <2> QED BY <1>3, <2>1, <2>6, <2>7, AnswerCloses
<1> QED BY <1>6, <1>7

LEMMA EmitCloses ==
  ASSUME Places, Emit, NEW c \in Client
  PROVE  ClosesWell(c)
<1> USE DEF Places, TypeOK
<1>1. PICK fd : fd = C.fd
  OBVIOUS
<1>2. CASE UNCHANGED peer
  BY <1>2, SameCloses
<1>3. CASE peer' \in WrittenOrLost(C.fd, <<Simple(500)>>)
  <2>3. <<Simple(500)>> \in Seq(Token)
    BY TokensAreTokens
  <2>1. PICK t \in Seq(Token) : t = <<Simple(500)>>
    BY <2>3
  <2>2. peer' \in WrittenOrLost(fd, t)
    BY <1>1, <1>3, <2>1
  <2> QED BY <2>2, WroteOrLost, WriteCloses
<1>4. CASE worker.n = 1 /\ peer' = Written(C.fd, Header \o <<Piece(worker.of)>>)
  <2>1. worker.of \in Client
    BY CalledFacts DEF Emit
  <2> DEFINE one == <<Piece(worker.of)>>
  <2>2. Header \in Seq(Token) /\ one \in Seq(Token)
    BY <2>1, HeaderToken, TokensAreTokens
  <2>3. peer' = Written(C.fd, Header \o one)
    BY <1>4
  <2> HIDE DEF one
  <2>4. Header \o one \in Seq(Token)
    BY <2>2, ConcatProperties
  <2>5. PICK t \in Seq(Token) : t = Header \o one
    BY <2>4
  <2>6. peer' = Written(fd, t)
    BY <1>1, <2>3, <2>5
  <2> QED BY <2>6, WrittenOnlyWrote, WriteCloses
<1> QED BY <1>2, <1>3, <1>4 DEF Emit

LEMMA CloseCloses ==
  ASSUME Places, Close, NEW c \in Client
  PROVE  ClosesWell(c)
<1> USE DEF Places, TypeOK
<1>1. \E t \in Seq(Token) : peer' \in WrittenOrLost(C.fd, t)
  BY CloseFacts
<1>2. PICK fd, t : fd = C.fd /\ t \in Seq(Token) /\ peer' \in WrittenOrLost(C.fd, t)
  BY <1>1
<1>3. t \in Seq(Token) /\ peer' \in WrittenOrLost(fd, t)
  BY <1>2
<1> QED BY <1>3, WroteOrLost, WriteCloses

LEMMA ClientCloses ==
  ASSUME Places, NEW d \in Client, Connect(d) \/ Send(d) \/ Leave(d) \/ Stall(d), NEW c \in Client
  PROVE  ClosesWell(c)
<1> USE DEF Places, TypeOK
<1>1. peer'[c].st = "closed" => peer[c].st = "closed"
  <2>1. CASE Connect(d)
    BY <2>1 DEF Connect, PeerType
  <2>2. CASE Send(d)
    BY <2>2 DEF Send, PeerType
  <2>3. CASE Leave(d)
    BY <2>3 DEF Leave, PeerType
  <2>4. CASE Stall(d)
    <3>1. peer' = [peer EXCEPT ![d].slow = TRUE]
      BY <2>4 DEF Stall
    <3> QED BY <3>1 DEF PeerType
  <2> QED BY <2>1, <2>2, <2>3, <2>4
<1> QED BY <1>1 DEF ClosesWell, Closing

LEMMA NextCloses ==
  ASSUME Places, Owns, Responses, [Next]_vars, NEW c \in Client
  PROVE  ClosesWell(c)
<1>1. CASE PollLoop
  <2>1. CASE NextTurn \/ ServeNone \/ RouteSubmit \/ RouteSubmitted
    <3>1. UNCHANGED peer
      BY <2>1 DEF NextTurn, ServeNone, RouteSubmit, RouteSubmitted
    <3> QED BY <3>1, SameCloses
  <2>2. CASE Shutdown \/ Exit
    BY <2>2 DEF Shutdown, Exit, ClosesWell, Closing
  <2> QED BY <1>1, <2>1, <2>2, BuildCloses, PollAcceptCloses, ServeIdleCloses,
             ServeStreamingCloses, ReadCloses, RouteHeadCloses, RouteRefusedCloses DEF PollLoop
<1>2. CASE WorkerStep
  <2>1. CASE Flag \/ Return \/ (\E d \in Client : Pop(d) \/ Started(d))
             \/ \E d \in Client, n \in {0, 1}, final \in BOOLEAN : Deliver(d, n, final)
    <3>1. CASE Flag \/ Return
      BY <3>1, SameCloses DEF Flag, Return
    <3>2. ASSUME NEW d \in Client, Pop(d) \/ Started(d) PROVE ClosesWell(c)
      BY <3>2, SameCloses DEF Pop, Started
    <3>3. ASSUME NEW d \in Client, NEW n \in {0, 1}, NEW final \in BOOLEAN, Deliver(d, n, final)
          PROVE  ClosesWell(c)
      BY <3>3, SameCloses DEF Deliver
    <3> QED BY <2>1, <3>1, <3>2, <3>3
  <2> QED BY <1>2, <2>1, EmitCloses, CloseCloses DEF WorkerStep
<1>3. CASE Environment
  BY <1>3, ClientCloses DEF Environment
<1>4. CASE UNCHANGED vars
  BY <1>4, SameCloses DEF vars
<1> QED BY <1>1, <1>2, <1>3, <1>4 DEF Next

(* src/http/http.c:1248-1281 and every other conn_reset but those of the    *)
(* shutdown: who stays and reads is hung up on only behind a complete       *)
(* response.                                                                *)
THEOREM ClosedWell ==
  ASSUME NoWindow
  PROVE  Spec => ClosedIsComplete
<1>1. IInv /\ [Next]_vars =>
        [\A c \in Client :
           /\ peer[c].st # "closed" /\ peer'[c].st = "closed" /\ loop.at # "exit"
           /\ ~peer[c].gone /\ ~peer[c].slow
           => Complete(Response(peer'[c].wire))]_vars
  <2>1. ASSUME IInv, [Next]_vars, NEW c \in Client PROVE ClosesWell(c)
    BY <2>1, NextCloses DEF IInv
  <2> QED BY <2>1 DEF ClosesWell, Closing
<1>2. Spec => []IInv
  BY ResponsesKept
<1> QED BY <1>1, <1>2, PTL DEF Spec, ClosedIsComplete
=============================================================================
