------------------------------ MODULE Chunker --------------------------------
(* s2p_text_chunks (src/text/chunker.c): the split of a long text into the  *)
(* chunks that the chain of ChunkChain synthesises.  A text is a sequence   *)
(* of bytes; a byte knows the character it belongs to and its place in the  *)
(* encoding of that character, which is what the code reads off its bits.   *)
EXTENDS Integers, Sequences, SequencesExt

CONSTANTS
  Texts,       \* the texts that are split, sequences of characters
  TargetBytes, \* target_bytes; the code asks for 32 at least, so that a
               \* whole character always fits
  MaxSentences \* max_sentences; 0: no limit

Char == {"a", "1", ".", ",", "[", "]", "'", " ", "\n", "U+00E9", "U+3002", "U+FF0C"}

\* One letter, one full stop and one comma that take several bytes.
Width(ch) == IF ch = "U+00E9" THEN 2 ELSE IF ch \in {"U+3002", "U+FF0C"} THEN 3 ELSE 1

\* What an instance assumes of its constants.
ChunkerConstants ==
  /\ \A t \in Texts : t \in Seq(Char)
  /\ \A ch \in Char : Width(ch) <= TargetBytes
  /\ MaxSentences \in Nat

Bytes(text) ==
  FlattenSeq([i \in 1 .. Len(text) |-> [j \in 1 .. Width(text[i]) |-> [ch |-> text[i], ix |-> j]]])

-----------------------------------------------------------------------------
(* Bytes at 1-based places; a place past the end reads the terminator.      *)

CharAt(p, i) == IF i \in 1 .. Len(p) THEN p[i].ch ELSE "NUL"
Begins(p, i) == i \in 1 .. Len(p) /\ p[i].ix = 1
IsSpace(p, i) == CharAt(p, i) \in {" ", "\n"}
IsDigit(p, i) == CharAt(p, i) = "1"

\* u8_len
U8Len(p, i) == IF p[i].ix = 1 THEN Width(p[i].ch) ELSE 1

\* end_punct
EndPunct(p, i) ==
  IF Begins(p, i) /\ p[i].ch \in {".", "U+3002"} THEN Width(p[i].ch) ELSE 0

\* The whitespace around the bytes is trimmed, and nothing is pushed if
\* nothing is left.
Push(out, p) ==
  LET kept == {i \in 1 .. Len(p) : ~IsSpace(p, i)}
  IN  IF kept = {} THEN out
      ELSE LET first == CHOOSE i \in kept : \A j \in kept : i <= j
               last == CHOOSE i \in kept : \A j \in kept : i >= j
           IN  Append(out, SubSeq(p, first, last))

RECURSIVE SkipBlanks(_, _)
SkipBlanks(p, j) == IF CharAt(p, j) = " " THEN SkipBlanks(p, j + 1) ELSE j

\* The run of terminators and closing marks behind a terminator.
RECURSIVE AfterMarks(_, _)
AfterMarks(p, j) ==
  IF EndPunct(p, j) > 0 THEN AfterMarks(p, j + EndPunct(p, j))
  ELSE IF CharAt(p, j) \in {"'", "]"} THEN AfterMarks(p, j + 1)
  ELSE j

BlankLine(p, i) == CharAt(p, i) = "\n" /\ CharAt(p, SkipBlanks(p, i + 1)) = "\n"

\* 3.14
IsDecimal(p, i) == CharAt(p, i) = "." /\ IsDigit(p, i - 1) /\ IsDigit(p, i + 1)

(* sentences(), from byte i on, the current sentence having begun at start. *)
RECURSIVE SentencesFrom(_, _, _, _, _)
SentencesFrom(p, i, start, tag, out) ==
  LET inTag == CharAt(p, i) = "[" \/ (tag /\ CharAt(p, i) # "]")
      blank == SkipBlanks(p, i + 1) + 1
      end == AfterMarks(p, i + EndPunct(p, i))
  IN  IF i > Len(p) THEN Push(out, SubSeq(p, start, Len(p)))
      ELSE IF BlankLine(p, i) THEN
        SentencesFrom(p, blank, blank, FALSE, Push(out, SubSeq(p, start, i - 1)))
      ELSE IF inTag \/ EndPunct(p, i) = 0 THEN
        SentencesFrom(p, i + U8Len(p, i), start, inTag, out)
      ELSE IF IsDecimal(p, i) THEN SentencesFrom(p, i + 1, start, inTag, out)
      ELSE IF end > Len(p) \/ IsSpace(p, end) THEN
        SentencesFrom(p, end, end, inTag, Push(out, SubSeq(p, start, end - 1)))
      ELSE SentencesFrom(p, end, start, inTag, out)

Sentences(p) == SentencesFrom(p, 1, 1, FALSE, <<>>)

-----------------------------------------------------------------------------
(* push_hard: where an oversize sentence is cut.                            *)

Greatest(S) == IF S = {} THEN 0 ELSE CHOOSE k \in S : \A j \in S : j <= k

\* The byte before the k-th to the last of the target ends, or begins, a
\* comma; a wide comma is kept whole, past the target if need be.
LastComma(p) ==
  Greatest({k \in 1 .. TargetBytes : p[k].ch = ","} \cup
       {k + 2 : k \in {k \in 1 .. TargetBytes : p[k].ch = "U+FF0C" /\ p[k].ix = 1
                                                 /\ k + 1 < Len(p)}})

\* The cut is before byte k + 1.
LastSpace(p) == Greatest({k \in 1 .. TargetBytes : IsSpace(p, k + 1)})
LastBoundary(p) == Greatest({k \in 1 .. TargetBytes : p[k + 1].ix = 1})

\* Faulty variant: the cut falls anywhere.
Cut_Blind(p) ==
  IF LastComma(p) > 0 THEN LastComma(p)
  ELSE IF LastSpace(p) > 0 THEN LastSpace(p) ELSE TargetBytes

Cut(p) ==
  IF LastComma(p) > 0 THEN LastComma(p)
  ELSE IF LastSpace(p) > 0 THEN LastSpace(p)
  ELSE IF LastBoundary(p) > 0 THEN LastBoundary(p) ELSE Len(p)

RECURSIVE SkipSpace(_)
SkipSpace(p) == IF IsSpace(p, 1) THEN SkipSpace(Tail(p)) ELSE p

RECURSIVE PushHard(_, _)
PushHard(out, p) ==
  IF Len(p) <= TargetBytes THEN Push(out, p)
  ELSE PushHard(Push(out, SubSeq(p, 1, Cut(p))), SkipSpace(SubSeq(p, Cut(p) + 1, Len(p))))

-----------------------------------------------------------------------------
(* The greedy pack.  a: the chunks, the current one and its sentences.      *)

Closes(a, s) ==
  /\ a.cur # <<>>
  /\ \/ Len(a.cur) + 1 + Len(s) > TargetBytes
     \/ MaxSentences > 0 /\ a.sent >= MaxSentences

Space == [ch |-> " ", ix |-> 1]

Pack(a, s) ==
  LET b == IF Closes(a, s) THEN [out |-> Push(a.out, a.cur), cur |-> <<>>, sent |-> 0] ELSE a
  IN  IF Len(s) > TargetBytes /\ b.cur = <<>> THEN [b EXCEPT !.out = PushHard(@, s)]
      ELSE [b EXCEPT !.cur = IF @ = <<>> THEN s ELSE Append(@, Space) \o s,
                     !.sent = @ + 1]

TextChunks(text) ==
  LET a == FoldLeft(Pack, [out |-> <<>>, cur |-> <<>>, sent |-> 0], Sentences(Bytes(text)))
  IN  IF a.cur # <<>> THEN Push(a.out, a.cur) ELSE a.out

-----------------------------------------------------------------------------
(* chunker.c:12-18, include/s2pro/tokenizer.h: whatever the text, the       *)
(* chunks hold every byte of it but whitespace, once and in order; none is  *)
(* empty, splits a character, or is longer than the target, but for the     *)
(* wide comma it may end with.                                              *)
SpokenBytes(p) == SelectSeq(p, LAMBDA b : b.ch \notin {" ", "\n"})

WideComma(p) == Len(p) > 0 /\ p[Len(p)].ch = "U+FF0C"

ChunksAreTheText ==
  \A text \in Texts :
    LET chunks == TextChunks(text)
    IN  /\ SpokenBytes(FlattenSeq(chunks)) = SpokenBytes(Bytes(text))
        /\ \A i \in DOMAIN chunks :
             /\ Begins(chunks[i], 1)
             /\ Len(chunks[i]) <= TargetBytes + (IF WideComma(chunks[i]) THEN 2 ELSE 0)
=============================================================================
