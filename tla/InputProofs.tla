----------------------------- MODULE InputProofs -----------------------------
(* Theorems about the input side of a TLS pool connection, for any stream,  *)
(* any length of reads and any limits of the queue and the line buffer.     *)
EXTENDS PoolInput, SequenceTheorems, WellFoundedInduction, TLAPS

-----------------------------------------------------------------------------
(* A set of natural numbers that is not empty has a least element.          *)
LEMMA LeastNat ==
  ASSUME NEW T, T \subseteq Nat, T # {}
  PROVE  \E x \in T : \A y \in T : x <= y
<1> DEFINE R == OpToRel(<, Nat)
<1>1. IsWellFoundedOn(R, Nat)
  BY NatLessThanWellFounded
<1>2. \A y \in Nat : \A z \in Nat : z < y => <<z, y>> \in R
  BY DEF OpToRel
<1> HIDE DEF R
<1>3. PICK x \in T : \A y \in T : ~ (<<y, x>> \in R)
  BY <1>1, WFMin
<1>4. ASSUME NEW y \in T PROVE x <= y
  <2>1. x \in Nat /\ y \in Nat
    OBVIOUS
  <2>2. ~ (y < x)
    BY <1>2, <1>3, <2>1, Zenon
  <2>3. QED
    BY <2>1, <2>2
<1>5. QED
  BY <1>4

-----------------------------------------------------------------------------
(* Sequences that are cut from the stream: the bytes after the first a.     *)

Cut(s, a) == s \in Seq(Nat) /\ \A k \in 1 .. Len(s) : s[k] = a + k

LEMMA CutOfCut ==
  ASSUME NEW s, NEW a \in Nat, Cut(s, a),
         NEW i \in 1 .. Len(s) + 1, NEW j \in 0 .. Len(s), i <= j + 1
  PROVE  Cut(SubSeq(s, i, j), a + i - 1) /\ Len(SubSeq(s, i, j)) = j - i + 1
<1>1. \A k \in i .. j : s[k] \in Nat
  BY ElementOfSeq DEF Cut
<1>2. /\ SubSeq(s, i, j) \in Seq(Nat)
      /\ Len(SubSeq(s, i, j)) = IF i <= j THEN j - i + 1 ELSE 0
      /\ \A k \in 1 .. j - i + 1 : SubSeq(s, i, j)[k] = s[i + k - 1]
  BY <1>1, SubSeqProperties
<1>3. QED
  BY <1>2 DEF Cut

LEMMA CutConcat ==
  ASSUME NEW s, NEW t, NEW a \in Nat, Cut(s, a), Cut(t, a + Len(s))
  PROVE  Cut(s \o t, a) /\ Len(s \o t) = Len(s) + Len(t)
BY ConcatProperties DEF Cut

LEMMA LastOfAppend ==
  ASSUME NEW S, NEW s \in Seq(S), NEW e \in S
  PROVE  Append(s, e) # <<>> /\ Append(s, e)[Len(Append(s, e))] = e
BY AppendProperties, LenProperties

(* A cut is the line with the same first and last byte.                     *)
LEMMA CutIsLine ==
  ASSUME NEW s, NEW a \in Nat, Cut(s, a)
  PROVE  s = [k \in 1 .. Len(s) |-> a + k]
<1> DEFINE t == [k \in 1 .. Len(s) |-> a + k]
<1>1. Len(s) \in Nat /\ s \in [1 .. Len(s) -> Nat]
  BY LenProperties DEF Cut
<1>2. \A k \in 1 .. Len(s) : s[k] = t[k]
  BY DEF Cut
<1>3. QED
  BY <1>1, <1>2

-----------------------------------------------------------------------------
(* The inductive invariant.  Stored is the last byte that reached the       *)
(* queue, Taken the last one that left it.                                  *)

Stored == arrived - Len(got)
Taken  == Given + Len(buffer)

Start(chunk) == chunk[1] - 1
End(chunk)   == Start(chunk) + Len(chunk)

StreamInv ==
  /\ length \in Nat /\ feeds \subseteq 1 .. length
  /\ arrived \in 0 .. length /\ Stored \in Nat
  /\ Cut(got, Stored)
  /\ readerAt \notin {"store", "ended"} => got = <<>>
  /\ readerAt = "store" => got # <<>>
  /\ readerAt = "end" => arrived = length
  /\ eof => readerAt = "ended" /\ arrived = length /\ got = <<>>
  /\ error => readerAt = "ended"

(* The chunks are cuts that follow each other from what the session took to *)
(* what the reader stored.                                                  *)
QueueInv ==
  /\ chunks \in Seq(Seq(Nat)) /\ offset \in Nat
  /\ \A k \in 1 .. Len(chunks) :
       /\ chunks[k] # <<>> /\ Start(chunks[k]) \in Nat
       /\ Cut(chunks[k], Start(chunks[k]))
       /\ End(chunks[k]) <= Stored
  /\ \A k \in 1 .. Len(chunks) - 1 : End(chunks[k]) = Start(chunks[k + 1])
  /\ chunks # <<>> => /\ offset < Len(chunks[1])
                      /\ Start(chunks[1]) + offset = Taken
                      /\ End(chunks[Len(chunks)]) = Stored
  /\ chunks = <<>> => offset = 0 /\ Taken = Stored
  /\ pending = Stored - Taken

LineInv ==
  /\ lines \in Seq(Seq(Nat)) /\ Given \in Nat
  /\ Cut(buffer, Given)
  /\ at \in {"ask", "wait", "take"} => \A p \in feeds : p <= Given \/ p > Taken
  /\ outcome # "none" <=> at \in {"failed", "closed"}
  /\ outcome = "failed" => error

InputInv == StreamInv /\ QueueInv /\ LineInv /\ EndComesLast

(* Bytes are pending exactly while there are chunks.                        *)
LEMMA PendingMeansChunks ==
  ASSUME InputInv
  PROVE  pending \in Nat /\ (pending > 0 <=> chunks # <<>>) /\ Len(buffer) \in Nat
         /\ Stored \in Nat /\ Taken \in Nat /\ Len(got) \in Nat
<1>1. Len(buffer) \in Nat /\ Stored \in Nat /\ Taken \in Nat /\ Len(got) \in Nat
  BY LenProperties DEF InputInv, StreamInv, LineInv, Cut, Taken
<1>2. CASE chunks = <<>>
  BY <1>1, <1>2 DEF InputInv, QueueInv
<1>3. CASE chunks # <<>>
  <2>1. 1 \in 1 .. Len(chunks)
    BY <1>3, EmptySeq DEF InputInv, QueueInv
  <2>2. End(chunks[1]) <= Stored /\ offset < Len(chunks[1])
        /\ Start(chunks[1]) + offset = Taken
        /\ Start(chunks[1]) \in Nat /\ chunks[1] \in Seq(Nat)
    BY <1>3, <2>1, ElementOfSeq DEF InputInv, QueueInv
  <2>3. Len(chunks[1]) \in Nat /\ offset \in Nat
    BY <2>2, LenProperties DEF InputInv, QueueInv
  <2>4. Taken < Stored
    BY <1>1, <2>2, <2>3 DEF End
  <2>5. QED
    BY <1>1, <1>3, <2>4 DEF InputInv, QueueInv
<1>4. QED
  BY <1>2, <1>3

-----------------------------------------------------------------------------
(* The reader thread.                                                       *)

(* A step that moves nothing from the socket to the session.                *)
LEMMA QuietReader ==
  ASSUME InputInv, UNCHANGED <<poolVars, arrived, got, chunks, offset, pending, lineVars>>,
         StreamInv', error => error'
  PROVE  InputInv'
<1>1. UNCHANGED <<Given, Stored, Taken>>
  BY DEF lineVars, Given, Stored, Taken
<1>2. QueueInv'
  BY <1>1 DEF InputInv, QueueInv
<1>3. LineInv'
  BY <1>1 DEF InputInv, LineInv, lineVars, poolVars
<1>4. EndComesLast'
  BY <1>1 DEF InputInv, EndComesLast, lineVars, poolVars
<1>5. QED
  BY <1>2, <1>3, <1>4 DEF InputInv

LEMMA ReadKeeps ==
  ASSUME InputInv, ReaderReads PROVE InputInv'
<1>1. got = <<>> /\ Len(got) = 0 /\ arrived \in Nat /\ length \in Nat /\ ~eof /\ ~error
  BY EmptySeq DEF InputInv, StreamInv, ReaderReads
<1>2. PICK n \in 1 .. Smaller(ReadSize, length - arrived) :
         got' = [k \in 1 .. n |-> arrived + k] /\ arrived' = arrived + n
  BY DEF ReaderReads
<1>3. n \in Nat \ {0} /\ n <= length - arrived
  BY <1>1, <1>2, InputAssumption DEF Smaller
<1>4. got' \in Seq(Nat) /\ Len(got') = n /\ got' # <<>>
  BY <1>1, <1>2, <1>3, EmptySeq
<1>5. Stored' = arrived /\ Stored = arrived
  BY <1>1, <1>2, <1>3, <1>4 DEF Stored
<1>6. Cut(got', Stored')
  BY <1>2, <1>4, <1>5 DEF Cut
<1>7. UNCHANGED <<Given, Taken, Stored, length, feeds>>
  BY <1>5 DEF ReaderReads, lineVars, poolVars, Given, Taken
<1>8. readerAt' = "store" /\ UNCHANGED <<queueVars, lineVars>>
  BY DEF ReaderReads
<1>9. StreamInv'
  BY <1>1, <1>2, <1>3, <1>4, <1>5, <1>6, <1>7, <1>8 DEF InputInv, StreamInv, queueVars
<1>10. QueueInv'
  BY <1>7, <1>8 DEF InputInv, QueueInv, queueVars
<1>11. LineInv'
  BY <1>7, <1>8 DEF InputInv, LineInv, lineVars, queueVars
<1>12. EndComesLast'
  BY <1>1, <1>7, <1>8 DEF InputInv, EndComesLast, LineInv, lineVars, queueVars
<1>13. QED
  BY <1>9, <1>10, <1>11, <1>12 DEF InputInv

(* What the reader stores follows what it stored before.                    *)
LEMMA StoreKeeps ==
  ASSUME InputInv, ReaderStores PROVE InputInv'
<1>1. /\ readerAt = "store" /\ readerAt' = "read" /\ got # <<>> /\ got' = <<>>
      /\ chunks' = Append(chunks, got) /\ pending' = pending + Len(got)
      /\ UNCHANGED <<length, feeds, arrived, offset, eof, error, lineVars>>
  BY DEF ReaderStores, InputInv, StreamInv, poolVars
<1>2. /\ got \in Seq(Nat) /\ Len(got) \in Nat \ {0} /\ Len(got') = 0
      /\ Stored \in Nat /\ arrived \in Nat
  BY <1>1, EmptySeq, LenProperties DEF InputInv, StreamInv, Cut
<1>3. Start(got) = Stored /\ End(got) = arrived /\ Stored' = arrived /\ Stored <= arrived
  <2>1. Cut(got, Stored)
    BY DEF InputInv, StreamInv
  <2>2. got[1] = Stored + 1
    BY <1>2, <2>1 DEF Cut
  <2>3. Stored = arrived - Len(got) /\ Stored' = arrived - 0
    BY <1>1, <1>2 DEF Stored
  <2>4. QED
    BY <1>2, <2>2, <2>3 DEF Start, End
<1>4. UNCHANGED <<Given, Taken>>
  BY <1>1 DEF lineVars, Given, Taken
<1>5. Cut(got', Stored')
  BY <1>1, <1>2, EmptySeq DEF Cut
<1>6. StreamInv'
  BY <1>1, <1>2, <1>3, <1>5 DEF InputInv, StreamInv
<1>7. Len(chunks) \in Nat /\ chunks \in Seq(Seq(Nat))
  BY LenProperties DEF InputInv, QueueInv
<1>8. /\ chunks' \in Seq(Seq(Nat)) /\ chunks' # <<>> /\ Len(chunks') = Len(chunks) + 1
      /\ \A k \in 1 .. Len(chunks) : chunks'[k] = chunks[k]
      /\ chunks'[Len(chunks) + 1] = got
  BY <1>1, <1>2, <1>7, AppendProperties
<1>9. QueueInv'
  <2>1. ASSUME NEW k \in 1 .. Len(chunks')
        PROVE  /\ chunks'[k] # <<>> /\ Start(chunks'[k]) \in Nat
               /\ Cut(chunks'[k], Start(chunks'[k])) /\ End(chunks'[k]) <= arrived
    <3>1. CASE k = Len(chunks) + 1
      BY <1>1, <1>2, <1>3, <1>8, <3>1 DEF InputInv, StreamInv
    <3>2. CASE k # Len(chunks) + 1
      <4>1. k \in 1 .. Len(chunks) /\ chunks'[k] = chunks[k]
        BY <1>7, <1>8, <3>2
      <4>2. /\ chunks[k] # <<>> /\ Start(chunks[k]) \in Nat
            /\ Cut(chunks[k], Start(chunks[k])) /\ End(chunks[k]) <= Stored
        BY <4>1 DEF InputInv, QueueInv
      <4>3. End(chunks[k]) \in Int
        BY <4>2, LenProperties DEF End, Cut
      <4>4. QED
        BY <1>2, <1>3, <4>1, <4>2, <4>3
    <3>3. QED
      BY <3>1, <3>2
  <2>2. chunks # <<>> => Len(chunks) \in 1 .. Len(chunks) /\ 1 \in 1 .. Len(chunks)
                         /\ End(chunks[Len(chunks)]) = Stored
    BY <1>7, EmptySeq DEF InputInv, QueueInv
  <2>3. chunks = <<>> => Len(chunks) = 0
    BY EmptySeq
  <2>4. ASSUME NEW k \in 1 .. Len(chunks') - 1
        PROVE  End(chunks'[k]) = Start(chunks'[k + 1])
    <3>1. CASE k = Len(chunks)
      BY <1>3, <1>7, <1>8, <2>2, <2>3, <3>1
    <3>2. CASE k # Len(chunks)
      <4>1. k \in 1 .. Len(chunks) - 1 /\ k \in 1 .. Len(chunks) /\ k + 1 \in 1 .. Len(chunks)
        BY <1>7, <1>8, <3>2
      <4>2. End(chunks[k]) = Start(chunks[k + 1])
        BY <4>1 DEF InputInv, QueueInv
      <4>3. QED
        BY <1>8, <4>1, <4>2
    <3>3. QED
      BY <3>1, <3>2
  <2>5. /\ offset < Len(chunks'[1]) /\ Start(chunks'[1]) + offset = Taken
        /\ End(chunks'[Len(chunks')]) = arrived
    <3>1. CASE chunks = <<>>
      <4>1. chunks'[1] = got /\ offset = 0 /\ Taken = Stored
        BY <1>8, <2>3, <3>1 DEF InputInv, QueueInv
      <4>2. QED
        BY <1>2, <1>3, <1>8, <4>1
    <3>2. CASE chunks # <<>>
      BY <1>3, <1>8, <2>2, <3>2 DEF InputInv, QueueInv
    <3>3. QED
      BY <3>1, <3>2
  <2>6. pending' = arrived - Taken
    BY <1>1, <1>2, <1>3, PendingMeansChunks DEF InputInv, QueueInv, Stored
  <2>7. QED
    BY <1>1, <1>3, <1>4, <1>8, <2>1, <2>4, <2>5, <2>6 DEF InputInv, QueueInv
<1>10. LineInv'
  BY <1>1, <1>4 DEF InputInv, LineInv, lineVars
<1>11. EndComesLast'
  <2>1. ~error
    BY <1>1 DEF InputInv, StreamInv
  <2>2. outcome # "failed"
    BY <2>1 DEF InputInv, LineInv
  <2>3. QED
    BY <1>1, <1>4, <2>2 DEF InputInv, EndComesLast, lineVars
<1>12. QED
  BY <1>6, <1>9, <1>10, <1>11 DEF InputInv

-----------------------------------------------------------------------------
(* The session thread.                                                      *)

(* A step that takes nothing from the queue and cuts no line.               *)
LEMMA QuietSession ==
  ASSUME InputInv, UNCHANGED <<poolVars, readerVars, queueVars, buffer, lines>>,
         at' \in {"ask", "wait", "take"} =>
            \A p \in feeds : p <= Given \/ p > Taken,
         outcome' # "none" <=> at' \in {"failed", "closed"},
         outcome' = "failed" => error,
         outcome' = "failed" => \A p \in feeds : p <= Given \/ p > Stored,
         outcome' = "closed" => \A p \in feeds : p <= Given
  PROVE  InputInv'
<1>1. UNCHANGED <<Given, Stored, Taken>>
  BY DEF readerVars, Given, Stored, Taken
<1>2. StreamInv'
  BY <1>1 DEF InputInv, StreamInv, poolVars, readerVars, queueVars
<1>3. QueueInv'
  BY <1>1 DEF InputInv, QueueInv, queueVars
<1>4. LineInv'
  BY <1>1 DEF InputInv, LineInv, poolVars, queueVars
<1>5. EndComesLast'
  BY <1>1 DEF EndComesLast, poolVars, readerVars, Stored
<1>6. QED
  BY <1>2, <1>3, <1>4, <1>5 DEF InputInv

(* The line given is the stream up to the next line feed.                   *)
LEMMA LineFound ==
  ASSUME InputInv, FindLine
  PROVE  \E i \in 1 .. Len(buffer) :
           /\ Given + i \in feeds
           /\ \A q \in feeds : q > Given => Given + i <= q
           /\ Cut(SubSeq(buffer, 1, i), Given) /\ Len(SubSeq(buffer, 1, i)) = i
           /\ lines' = Append(lines, SubSeq(buffer, 1, i)) /\ Given' = Given + i
           /\ Cut(buffer', Given + i) /\ Len(buffer') = Len(buffer) - i
<1>1. Cut(buffer, Given) /\ Given \in Nat /\ Len(buffer) \in Nat
      /\ lines \in Seq(Seq(Nat)) /\ feeds \subseteq Nat
  BY PendingMeansChunks DEF InputInv, LineInv, StreamInv
<1>2. PICK i \in Newlines : \A k \in Newlines : i <= k
  <2>1. Newlines \subseteq Nat /\ Newlines # {}
    BY <1>1 DEF FindLine, Newlines
  <2>2. QED
    BY <2>1, LeastNat
<1>3. FirstNewline \in Newlines /\ \A k \in Newlines : FirstNewline <= k
  BY <1>2 DEF FirstNewline
<1> DEFINE j == FirstNewline
<1> HIDE DEF j
<1>4. j \in 1 .. Len(buffer) /\ buffer[j] \in feeds /\ buffer[j] = Given + j
  BY <1>1, <1>3 DEF Newlines, Cut, j
<1>5. ASSUME NEW q \in feeds, q > Given PROVE Given + j <= q
  <2>1. CASE q <= Given + Len(buffer)
    <3>1. q - Given \in 1 .. Len(buffer) /\ q \in Nat
      BY <1>1, <1>5, <2>1
    <3>2. buffer[q - Given] = q
      BY <1>1, <3>1 DEF Cut
    <3>3. q - Given \in Newlines
      BY <3>1, <3>2 DEF Newlines
    <3>4. j <= q - Given
      BY <1>3, <3>3 DEF j
    <3>5. QED
      BY <1>1, <1>4, <3>1, <3>4
  <2>2. CASE ~ (q <= Given + Len(buffer))
    BY <1>1, <1>4, <2>2
  <2>3. QED
    BY <2>1, <2>2
<1>6. Cut(SubSeq(buffer, 1, j), Given) /\ Len(SubSeq(buffer, 1, j)) = j
  <2>1. 1 \in 1 .. Len(buffer) + 1 /\ j \in 0 .. Len(buffer) /\ 1 <= j + 1
    BY <1>1, <1>4
  <2>2. Cut(SubSeq(buffer, 1, j), Given + 1 - 1) /\ Len(SubSeq(buffer, 1, j)) = j - 1 + 1
    BY <1>1, <2>1, CutOfCut
  <2>3. QED
    BY <1>1, <1>4, <2>2
<1>7. Cut(buffer', Given + j) /\ Len(buffer') = Len(buffer) - j
  <2>1. buffer' = SubSeq(buffer, j + 1, Len(buffer))
    BY DEF FindLine, Consumed, j
  <2>2. j + 1 \in 1 .. Len(buffer) + 1 /\ Len(buffer) \in 0 .. Len(buffer)
        /\ j + 1 <= Len(buffer) + 1
    BY <1>1, <1>4
  <2>3. Cut(buffer', Given + (j + 1) - 1) /\ Len(buffer') = Len(buffer) - (j + 1) + 1
    BY <1>1, <2>1, <2>2, CutOfCut
  <2>4. QED
    BY <1>1, <1>4, <2>3
<1>8. lines' = Append(lines, SubSeq(buffer, 1, j))
  BY DEF FindLine, j
<1>9. Given' = Given + j
  <2>1. SubSeq(buffer, 1, j) \in Seq(Nat) /\ SubSeq(buffer, 1, j)[j] = Given + j
    BY <1>4, <1>6 DEF Cut
  <2>2. lines' # <<>> /\ lines'[Len(lines')] = SubSeq(buffer, 1, j)
    BY <1>1, <1>8, <2>1, LastOfAppend
  <2>3. QED
    BY <1>6, <2>1, <2>2 DEF Given
<1>10. QED
  BY <1>4, <1>5, <1>6, <1>7, <1>8, <1>9

LEMMA FindLineKeeps ==
  ASSUME InputInv, FindLine PROVE InputInv'
<1>1. PICK i \in 1 .. Len(buffer) :
         /\ Cut(SubSeq(buffer, 1, i), Given)
         /\ lines' = Append(lines, SubSeq(buffer, 1, i)) /\ Given' = Given + i
         /\ Cut(buffer', Given + i) /\ Len(buffer') = Len(buffer) - i
  BY LineFound
<1>2. Given \in Nat /\ Len(buffer) \in Nat /\ i \in Nat /\ lines \in Seq(Seq(Nat))
  BY PendingMeansChunks DEF InputInv, LineInv
<1>3. at = "scan" /\ UNCHANGED <<poolVars, readerVars, queueVars, at, outcome>>
  BY DEF FindLine
<1>4. Taken' = Taken /\ Stored' = Stored
  BY <1>1, <1>2, <1>3 DEF Taken, Stored, readerVars
<1>5. StreamInv'
  BY <1>3, <1>4 DEF InputInv, StreamInv, poolVars, readerVars, queueVars
<1>6. QueueInv'
  BY <1>3, <1>4 DEF InputInv, QueueInv, queueVars
<1>7. lines' \in Seq(Seq(Nat)) /\ Given' \in Nat /\ Cut(buffer', Given')
  BY <1>1, <1>2, AppendProperties DEF Cut
<1>8. outcome = "none"
  BY <1>3 DEF InputInv, LineInv
<1>9. LineInv'
  BY <1>3, <1>7, <1>8 DEF LineInv
<1>10. EndComesLast'
  BY <1>3, <1>8 DEF EndComesLast
<1>11. QED
  BY <1>5, <1>6, <1>9, <1>10 DEF InputInv

(* What the session takes is the next part of the stream, whether the chunk *)
(* is used up or the line buffer is full.                                   *)
LEMMA CopyKeeps ==
  ASSUME InputInv, CopyChunk PROVE InputInv'
<1> DEFINE h == Head(chunks)
           n == Smaller(LineSize - Len(buffer), Len(h) - offset)
           first == offset + 1
           last  == offset + n
<1>1. /\ at = "copy" /\ Len(buffer) < LineSize /\ chunks # <<>>
      /\ buffer' = buffer \o SubSeq(h, first, last)
      /\ pending' = pending - n
      /\ offset' = IF offset + n = Len(h) THEN 0 ELSE offset + n
      /\ chunks' = IF offset + n = Len(h) THEN Tail(chunks) ELSE chunks
      /\ UNCHANGED <<poolVars, readerVars, eof, error, at, lines, outcome>>
  BY DEF CopyChunk, OffsetAfter
<1> HIDE DEF n, h, first, last
<1>2. /\ Len(buffer) \in Nat /\ Stored \in Nat /\ Taken \in Nat /\ Given \in Nat
      /\ offset \in Nat /\ pending = Stored - Taken /\ chunks \in Seq(Seq(Nat))
      /\ Cut(buffer, Given)
  BY PendingMeansChunks DEF InputInv, QueueInv, LineInv
<1>3. h = chunks[1] /\ Len(chunks) \in Nat \ {0} /\ 1 \in 1 .. Len(chunks)
  BY <1>1, <1>2, EmptySeq DEF h
<1>4. /\ Start(h) \in Nat /\ Cut(h, Start(h)) /\ End(h) <= Stored
      /\ offset < Len(h) /\ Start(h) + offset = Taken
      /\ End(chunks[Len(chunks)]) = Stored
  BY <1>1, <1>3 DEF InputInv, QueueInv
<1>5. Len(h) \in Nat
  BY <1>4, LenProperties DEF Cut
<1>6. n \in Nat \ {0} /\ offset + n <= Len(h)
  <2>1. LineSize \in Nat
    BY InputAssumption
  <2>2. LineSize - Len(buffer) \in Nat \ {0} /\ Len(h) - offset \in Nat \ {0}
    BY <1>1, <1>2, <1>4, <1>5, <2>1
  <2>3. n \in Nat \ {0} /\ n <= Len(h) - offset
    BY <2>2 DEF Smaller, n
  <2>4. QED
    BY <1>2, <1>5, <2>3
<1>a. /\ offset \in Nat /\ n \in Nat /\ Len(h) \in Nat /\ Start(h) \in Nat /\ Taken \in Nat
      /\ offset + n <= Len(h) /\ Start(h) + offset = Taken
  BY <1>2, <1>4, <1>5, <1>6
<1>7. Cut(SubSeq(h, first, last), Taken) /\ Len(SubSeq(h, first, last)) = n
  <2>1. first \in 1 .. Len(h) + 1 /\ last \in 0 .. Len(h) /\ first <= last + 1
    BY <1>a DEF first, last
  <2>2. Cut(SubSeq(h, first, last), Start(h) + first - 1)
        /\ Len(SubSeq(h, first, last)) = last - first + 1
    BY <1>4, <2>1, CutOfCut
  <2>3. Start(h) + first - 1 = Taken /\ last - first + 1 = n
    BY <1>a DEF first, last
  <2>4. QED
    BY <2>2, <2>3
<1>8. Cut(buffer', Given) /\ Len(buffer') = Len(buffer) + n
  <2>1. Cut(SubSeq(h, first, last), Given + Len(buffer))
    BY <1>7 DEF Taken
  <2>2. QED
    BY <1>1, <1>2, <1>7, <2>1, CutConcat
<1>9. Given' = Given /\ Stored' = Stored /\ Taken' = Taken + n
  <2>1. Given' = Given /\ Stored' = Stored
    BY <1>1 DEF Given, Stored, readerVars
  <2>2. QED
    BY <1>2, <1>6, <1>8, <2>1 DEF Taken
<1>10. StreamInv'
  BY <1>1, <1>9 DEF InputInv, StreamInv, poolVars, readerVars
<1>11. pending' = Stored - Taken'
  BY <1>1, <1>2, <1>6, <1>9
<1>12. QueueInv'
  <2>1. CASE offset + n # Len(h)
    <3>1. chunks' = chunks /\ offset' = offset + n
      BY <1>1, <2>1
    <3>2. offset + n < Len(h) /\ Start(h) + (offset + n) = Taken + n
      BY <1>a, <2>1
    <3>3. QED
      <4>1. chunks' # <<>> /\ offset' \in Nat /\ offset' < Len(chunks'[1])
            /\ Start(chunks'[1]) + offset' = Taken'
        BY <1>1, <1>3, <1>9, <1>a, <3>1, <3>2
      <4>2. End(chunks'[Len(chunks')]) = Stored'
        BY <1>4, <1>9, <3>1
      <4>3. QED
        BY <1>2, <1>9, <1>11, <3>1, <4>1, <4>2 DEF InputInv, QueueInv
  <2>2. CASE offset + n = Len(h)
    <3>1. chunks' = Tail(chunks) /\ offset' = 0
      BY <1>1, <2>2
    <3>2. End(h) = Taken + n
      BY <1>a, <2>2 DEF End
    <3>3. /\ chunks' \in Seq(Seq(Nat)) /\ Len(chunks') = Len(chunks) - 1
          /\ \A k \in 1 .. Len(chunks') : chunks'[k] = chunks[k + 1]
      BY <1>1, <1>2, <3>1, HeadTailProperties
    <3>4. \A k \in 1 .. Len(chunks') : k + 1 \in 1 .. Len(chunks)
      BY <1>3, <3>3
    <3>5. \A k \in 1 .. Len(chunks') :
             /\ chunks'[k] # <<>> /\ Start(chunks'[k]) \in Nat
             /\ Cut(chunks'[k], Start(chunks'[k])) /\ End(chunks'[k]) <= Stored
      BY <3>3, <3>4 DEF InputInv, QueueInv
    <3>6. \A k \in 1 .. Len(chunks') - 1 : End(chunks'[k]) = Start(chunks'[k + 1])
      <4>1. SUFFICES ASSUME NEW k \in 1 .. Len(chunks') - 1
                     PROVE  End(chunks'[k]) = Start(chunks'[k + 1])
        OBVIOUS
      <4>2. k \in 1 .. Len(chunks') /\ k + 1 \in 1 .. Len(chunks')
            /\ k + 1 \in 1 .. Len(chunks) - 1
        BY <1>3, <3>3
      <4>3. End(chunks[k + 1]) = Start(chunks[(k + 1) + 1])
        BY <4>2 DEF InputInv, QueueInv
      <4>4. QED
        BY <3>3, <4>2, <4>3
    <3>7. chunks' = <<>> => Taken + n = Stored
      <4>1. SUFFICES ASSUME chunks' = <<>> PROVE Taken + n = Stored
        OBVIOUS
      <4>2. Len(chunks) = 1
        BY <1>3, <3>3, <4>1, EmptySeq
      <4>3. QED
        BY <1>3, <1>4, <3>2, <4>2
    <3>8. chunks' # <<>> => /\ 0 < Len(chunks'[1])
                            /\ Start(chunks'[1]) + 0 = Taken + n
                            /\ End(chunks'[Len(chunks')]) = Stored
      <4>1. SUFFICES ASSUME chunks' # <<>>
                     PROVE  /\ 0 < Len(chunks'[1])
                            /\ Start(chunks'[1]) + 0 = Taken + n
                            /\ End(chunks'[Len(chunks')]) = Stored
        OBVIOUS
      <4>2. Len(chunks') \in Nat \ {0} /\ 1 \in 1 .. Len(chunks')
            /\ Len(chunks') \in 1 .. Len(chunks') /\ 1 \in 1 .. Len(chunks) - 1
        BY <3>3, <4>1, EmptySeq, <1>3
      <4>3. chunks'[1] = chunks[2] /\ chunks'[Len(chunks')] = chunks[Len(chunks)]
        BY <1>3, <3>3, <4>2
      <4>4. End(h) = Start(chunks[1 + 1])
        BY <1>3, <4>2 DEF InputInv, QueueInv
      <4>5. chunks'[1] # <<>> /\ Start(chunks'[1]) \in Nat /\ chunks'[1] \in Seq(Nat)
        BY <3>5, <4>2 DEF Cut
      <4>6. 0 < Len(chunks'[1])
        BY <4>5, EmptySeq
      <4>7. QED
        BY <1>4, <3>2, <4>3, <4>4, <4>5, <4>6
    <3>9. QED
      BY <1>9, <1>11, <3>1, <3>3, <3>5, <3>6, <3>7, <3>8 DEF QueueInv
  <2>3. QED
    BY <2>1, <2>2
<1>13. outcome = "none"
  BY <1>1 DEF InputInv, LineInv
<1>14. LineInv'
  BY <1>1, <1>8, <1>9, <1>13 DEF InputInv, LineInv
<1>15. EndComesLast'
  BY <1>1, <1>13 DEF EndComesLast
<1>16. QED
  BY <1>10, <1>12, <1>14, <1>15 DEF InputInv

(* Before the session asks for more, its buffer holds no line feed.         *)
LEMMA NoLineFeedTaken ==
  ASSUME InputInv, Newlines = {}
  PROVE  \A p \in feeds : p <= Given \/ p > Taken
<1>1. Given \in Nat /\ Len(buffer) \in Nat /\ Cut(buffer, Given) /\ feeds \subseteq Nat
  BY PendingMeansChunks DEF InputInv, LineInv, StreamInv
<1>2. SUFFICES ASSUME NEW p \in feeds, p > Given, p <= Taken PROVE FALSE
  BY <1>1 DEF Taken
<1>3. p - Given \in 1 .. Len(buffer)
  BY <1>1, <1>2 DEF Taken
<1>4. buffer[p - Given] = p
  BY <1>1, <1>2, <1>3 DEF Cut
<1>5. QED
  BY <1>2, <1>3, <1>4 DEF Newlines

(* With an empty queue, what was not taken was not stored.                  *)
LEMMA NothingLeft ==
  ASSUME InputInv, pending = 0, at \in {"wait", "take"}
  PROVE  /\ \A p \in feeds : p <= Given \/ p > Stored
         /\ eof => \A p \in feeds : p <= Given
<1>1. Stored = Taken /\ Stored \in Nat /\ Given \in Nat /\ Taken \in Nat
  BY PendingMeansChunks DEF InputInv, QueueInv, LineInv
<1>2. \A p \in feeds : p <= Given \/ p > Stored
  BY <1>1 DEF InputInv, LineInv
<1>3. ASSUME eof PROVE \A p \in feeds : p <= Given
  <2>1. Stored = length
    <3>1. Len(got) = 0 /\ arrived = length /\ length \in Nat
      BY <1>3, EmptySeq DEF InputInv, StreamInv
    <3>2. QED
      BY <3>1 DEF Stored
  <2>2. \A p \in feeds : p \in Nat /\ p <= length
    BY DEF InputInv, StreamInv
  <2>3. QED
    BY <1>1, <1>2, <2>1, <2>2
<1>4. QED
  BY <1>2, <1>3

LEMMA QuietSteps ==
  ASSUME InputInv,
         LineTooLong \/ NoLine \/ AskPending \/ WaitRead \/ TakeNothing \/ TakeSome
           \/ CopyDone \/ Leave \/ Close
  PROVE  InputInv'
<1>1. UNCHANGED <<poolVars, readerVars, queueVars, buffer, lines>>
  BY DEF LineTooLong, NoLine, AskPending, WaitRead, TakeNothing, TakeSome, CopyDone,
     Leave, Close
<1>2. outcome # "none" <=> at \in {"failed", "closed"}
  BY DEF InputInv, LineInv
<1>3. CASE LineTooLong \/ Leave
  <2>1. at' = "failed" /\ outcome' \in {"tooLong", "left"}
    BY <1>3 DEF LineTooLong, Leave, Fail
  <2>2. QED
    BY <1>1, <2>1, QuietSession
<1>4. CASE NoLine
  <2>1. at = "scan" /\ at' = "ask" /\ outcome' = outcome /\ Newlines = {}
    BY <1>4 DEF NoLine
  <2>2. QED
    BY <1>1, <1>2, <2>1, NoLineFeedTaken, QuietSession
<1>5. CASE AskPending \/ TakeSome \/ CopyDone
  <2>1. at \in {"ask", "take", "copy"} /\ outcome' = outcome
        /\ (at' \in {"take", "wait"} => at = "ask") /\ at' \in {"take", "wait", "copy", "scan"}
    BY <1>5 DEF AskPending, TakeSome, CopyDone
  <2>2. at = "ask" => \A p \in feeds : p <= Given \/ p > Taken
    BY DEF InputInv, LineInv
  <2>3. QED
    BY <1>1, <1>2, <2>1, <2>2, QuietSession
<1>6. CASE WaitRead
  <2>1. \A p \in feeds : p <= Given \/ p > Taken
    BY <1>6 DEF WaitRead, InputInv, LineInv
  <2>2. CASE PendingAnswer = -1
    <3>1. at' = "failed" /\ outcome' = "failed" /\ at = "wait"
      BY <1>6, <2>2 DEF WaitRead, Fail
    <3>2. error /\ pending = 0
      BY <2>2, PendingMeansChunks DEF PendingAnswer
    <3>3. \A p \in feeds : p <= Given \/ p > Stored
      BY <3>1, <3>2, NothingLeft
    <3>4. QED
      BY <1>1, <3>1, <3>2, <3>3, QuietSession
  <2>3. CASE PendingAnswer # -1
    <3>1. at' \in {"scan", "take"} /\ outcome' = outcome /\ at = "wait"
      BY <1>6, <2>3 DEF WaitRead
    <3>2. QED
      BY <1>1, <1>2, <2>1, <3>1, QuietSession
  <2>4. QED
    BY <2>2, <2>3
<1>7. CASE TakeNothing
  <2>1. at = "take" /\ pending = 0
    BY <1>7 DEF TakeNothing
  <2>2. /\ \A p \in feeds : p <= Given \/ p > Stored
        /\ eof => \A p \in feeds : p <= Given
    BY <2>1, NothingLeft
  <2>3. CASE error
    <3>1. at' = "failed" /\ outcome' = "failed"
      BY <1>7, <2>3 DEF TakeNothing, Fail
    <3>2. QED
      BY <1>1, <2>2, <2>3, <3>1, QuietSession
  <2>4. CASE ~error /\ eof
    <3>1. at' = "failed" /\ outcome' = "closed"
      BY <1>7, <2>4 DEF TakeNothing, Fail
    <3>2. QED
      BY <1>1, <2>2, <2>4, <3>1, QuietSession
  <2>5. CASE ~error /\ ~eof
    <3>1. at' = "scan" /\ outcome' = outcome
      BY <1>7, <2>5 DEF TakeNothing
    <3>2. QED
      BY <1>1, <1>2, <2>1, <3>1, QuietSession
  <2>6. QED
    BY <2>3, <2>4, <2>5
<1>8. CASE Close
  <2>1. at = "failed" /\ at' = "closed" /\ outcome' = outcome
    BY <1>8 DEF Close
  <2>2. outcome = "failed" => error /\ \A p \in feeds : p <= Given \/ p > Stored
    BY DEF InputInv, LineInv, EndComesLast, Stored
  <2>3. outcome = "closed" => \A p \in feeds : p <= Given
    BY DEF InputInv, EndComesLast
  <2>4. QED
    BY <1>1, <1>2, <2>1, <2>2, <2>3, QuietSession
<1>9. QED
  BY <1>3, <1>4, <1>5, <1>6, <1>7, <1>8

-----------------------------------------------------------------------------
(* The theorems.                                                            *)

LEMMA InputInvInit == Init => InputInv
<1> SUFFICES ASSUME Init PROVE InputInv
  OBVIOUS
<1>1. /\ arrived = 0 /\ readerAt = "read" /\ got = <<>> /\ length \in Nat
      /\ feeds \subseteq 1 .. length /\ eof = FALSE /\ error = FALSE
      /\ chunks = <<>> /\ offset = 0 /\ pending = 0
      /\ at = "scan" /\ buffer = <<>> /\ lines = <<>> /\ outcome = "none"
  BY InputAssumption DEF Init
<1>2. /\ \A S : <<>> \in Seq(S)
      /\ Len(got) = 0 /\ Len(buffer) = 0 /\ Len(chunks) = 0 /\ Len(lines) = 0
  BY <1>1, EmptySeq
<1>3. Stored = 0 /\ Given = 0 /\ Taken = 0
  <2>1. Stored = 0
    <3>1. arrived = 0 /\ Len(got) = 0
      BY <1>1, <1>2
    <3>2. QED
      BY <3>1 DEF Stored
  <2>2. Given = 0
    BY <1>1, Zenon DEF Given
  <2>3. QED
    BY <1>2, <2>1, <2>2 DEF Taken
<1>4. Cut(got, Stored) /\ Cut(buffer, Given)
  BY <1>1, <1>2 DEF Cut
<1>5. StreamInv
  BY <1>1, <1>3, <1>4 DEF StreamInv
<1>6. QueueInv
  BY <1>1, <1>2, <1>3 DEF QueueInv
<1>7. LineInv
  BY <1>1, <1>2, <1>3, <1>4 DEF LineInv
<1>8. EndComesLast
  BY <1>1 DEF EndComesLast
<1>9. QED
  BY <1>5, <1>6, <1>7, <1>8 DEF InputInv

LEMMA InputInvStep == InputInv /\ [Next]_vars => InputInv'
<1> SUFFICES ASSUME InputInv, [Next]_vars PROVE InputInv'
  OBVIOUS
<1>1. CASE ReaderReads
  BY <1>1, ReadKeeps
<1>2. CASE ReaderStores
  BY <1>2, StoreKeeps
<1>3. CASE ReaderSeesEnd \/ ReaderThrows \/ ReaderOverflows \/ ReaderMarksEnd
           \/ ReaderMarksError
  <2>1. UNCHANGED <<poolVars, arrived, got, chunks, offset, pending, lineVars>>
    BY <1>3 DEF ReaderSeesEnd, ReaderThrows, ReaderOverflows, ReaderMarksEnd,
       ReaderMarksError, queueVars
  <2>2. Stored' = Stored
    BY <2>1 DEF Stored
  <2>3. error => error'
    BY <1>3 DEF ReaderSeesEnd, ReaderThrows, ReaderOverflows, ReaderMarksEnd,
       ReaderMarksError, queueVars
  <2>4. StreamInv'
    BY <1>3, <2>1, <2>2 DEF ReaderSeesEnd, ReaderThrows, ReaderOverflows,
       ReaderMarksEnd, ReaderMarksError, queueVars, poolVars, InputInv, StreamInv
  <2>5. QED
    BY <2>1, <2>3, <2>4, QuietReader
<1>4. CASE FindLine
  BY <1>4, FindLineKeeps
<1>5. CASE CopyChunk
  BY <1>5, CopyKeeps
<1>6. CASE LineTooLong \/ NoLine \/ AskPending \/ WaitRead \/ TakeNothing \/ TakeSome
           \/ CopyDone \/ Leave \/ Close
  BY <1>6, QuietSteps
<1>7. CASE Done \/ UNCHANGED vars
  <2>1. UNCHANGED vars
    BY <1>7 DEF Done
  <2>2. UNCHANGED <<poolVars, arrived, got, chunks, offset, pending, lineVars>>
    BY <2>1 DEF vars, queueVars, readerVars
  <2>3. StreamInv'
    BY <2>1 DEF vars, queueVars, readerVars, poolVars, InputInv, StreamInv, Stored
  <2>4. error => error'
    BY <2>1 DEF vars, queueVars
  <2>5. QED
    BY <2>2, <2>3, <2>4, QuietReader
<1>8. QED
  BY <1>1, <1>2, <1>3, <1>4, <1>5, <1>6, <1>7 DEF Next, ReaderStep, LineStep

(* Whatever the sizes of reads, chunks and buffers: the session learns of   *)
(* the end after the last complete line, and of an error after the last     *)
(* line that reached the queue.                                             *)
THEOREM EndAlwaysComesLast == Spec => []EndComesLast
<1>1. Init => InputInv
  BY InputInvInit
<1>2. InputInv /\ [Next]_vars => InputInv'
  BY InputInvStep
<1>3. InputInv => EndComesLast
  BY DEF InputInv
<1>4. QED
  BY <1>1, <1>2, <1>3, PTL DEF Spec

(* A line that is cut off the buffer is the next line of the stream.        *)
LEMMA FindLineGives ==
  ASSUME InputInv, FindLine PROVE Feed!Give
<1>1. PICK i \in 1 .. Len(buffer) :
         /\ Given + i \in feeds
         /\ \A q \in feeds : q > Given => Given + i <= q
         /\ Cut(SubSeq(buffer, 1, i), Given) /\ Len(SubSeq(buffer, 1, i)) = i
         /\ lines' = Append(lines, SubSeq(buffer, 1, i))
  BY LineFound
<1>2. Given \in Nat /\ i \in Nat /\ feeds \subseteq Nat
  BY PendingMeansChunks DEF InputInv, LineInv, StreamInv
<1>3. Feed!Begin = Given + 1
  <2>1. CASE lines = <<>>
    BY <2>1 DEF Feed!Begin, Given
  <2>2. CASE lines # <<>>
    BY <2>2 DEF Feed!Begin, Given
  <2>3. QED
    BY <2>1, <2>2
<1>4. SubSeq(buffer, 1, i) = Feed!Line(Given + 1, Given + i)
  <2>1. SubSeq(buffer, 1, i) = [k \in 1 .. i |-> Given + k]
    BY <1>1, <1>2, CutIsLine
  <2>2. Feed!Line(Given + 1, Given + i)
          = [k \in 1 .. (Given + i) - (Given + 1) + 1 |-> (Given + 1) + k - 1]
    BY DEF Feed!Line
  <2>3. (Given + i) - (Given + 1) + 1 = i
        /\ \A k \in 1 .. i : (Given + 1) + k - 1 = Given + k
    BY <1>2
  <2>4. QED
    BY <2>1, <2>2, <2>3
<1>5. at = "scan" /\ UNCHANGED <<feeds, at>>
  BY DEF FindLine, poolVars
<1>6. Given + i >= Given + 1
      /\ \A q \in feeds : q >= Given + 1 => Given + i <= q
  BY <1>1, <1>2
<1>7. QED
  BY <1>1, <1>3, <1>4, <1>5, <1>6 DEF Feed!Give

(* The reader thread, the queue and the line buffer together give the       *)
(* session what LineFeed promises, and nothing else.                        *)
THEOREM InputIsLineFeed == Spec => ImplementsLineFeed
<1>1. Init => Feed!FeedInit
  BY DEF Init, Feed!FeedInit
<1>2. InputInv /\ [Next]_vars => [Feed!FeedNext]_(Feed!feedVars)
  <2> SUFFICES ASSUME InputInv, [Next]_vars
               PROVE  Feed!FeedNext \/ UNCHANGED Feed!feedVars
    OBVIOUS
  <2>1. CASE FindLine
    BY <2>1, FindLineGives DEF Feed!FeedNext
  <2>2. CASE UNCHANGED <<feeds, lines>> /\ at' \in {"failed", "closed"}
    BY <2>2 DEF Feed!FeedNext, Feed!GiveUp
  <2>3. CASE UNCHANGED <<feeds, lines>> /\ at \notin {"failed", "closed"}
             /\ at' \notin {"failed", "closed"}
    BY <2>3 DEF Feed!feedVars
  <2>4. CASE UNCHANGED <<feeds, lines, at>>
    BY <2>4 DEF Feed!feedVars
  <2>5. CASE ReaderReads \/ ReaderSeesEnd \/ ReaderThrows \/ ReaderStep
    <3>1. UNCHANGED <<feeds, lines, at>>
      BY <2>5 DEF ReaderReads, ReaderSeesEnd, ReaderThrows, ReaderStep, ReaderStores,
         ReaderOverflows, ReaderMarksEnd, ReaderMarksError, poolVars, lineVars
    <3>2. QED
      BY <2>4, <3>1
  <2>6. CASE LineTooLong \/ Leave \/ Close
    BY <2>2, <2>6 DEF LineTooLong, Leave, Close, Fail, poolVars
  <2>7. CASE NoLine \/ AskPending \/ TakeSome \/ CopyChunk \/ CopyDone
    <3>1. UNCHANGED <<feeds, lines>> /\ at \notin {"failed", "closed"}
          /\ at' \notin {"failed", "closed"}
      BY <2>7 DEF NoLine, AskPending, TakeSome, CopyChunk, CopyDone, poolVars
    <3>2. QED
      BY <2>3, <3>1
  <2>8. CASE WaitRead \/ TakeNothing
    <3>1. UNCHANGED <<feeds, lines>> /\ at \in {"wait", "take"}
          /\ at' \in {"scan", "take", "failed"}
      BY <2>8 DEF WaitRead, TakeNothing, Fail, poolVars
    <3>2. QED
      BY <2>2, <2>3, <3>1
  <2>9. CASE Done \/ UNCHANGED vars
    BY <2>4, <2>9 DEF Done, vars, poolVars, lineVars
  <2>10. QED
    BY <2>1, <2>5, <2>6, <2>7, <2>8, <2>9 DEF Next, LineStep
<1>3. Init => InputInv
  BY InputInvInit
<1>4. InputInv /\ [Next]_vars => InputInv'
  BY InputInvStep
<1>5. QED
  BY <1>1, <1>2, <1>3, <1>4, PTL DEF Spec, ImplementsLineFeed, Feed!FeedSpec
=============================================================================
