------------------------------ MODULE PoolInput ------------------------------
(***************************************************************************)
(* The input side of a TLS pool connection: BtcrigTls.java, reached from   *)
(* cpp/btcrig/stratum.c through cpp/btcrig_android_tls.c, and read_line on *)
(* top of it.                                                              *)
(*                                                                         *)
(* The reader thread blocks in the socket and appends what it gets to a    *)
(* queue of chunks; the session thread asks what is pending, copies bytes  *)
(* into its line buffer and cuts lines off it.  conn.lock guards the       *)
(* queue; "closed" and the table of connections are outside it.            *)
(*                                                                         *)
(* A byte is the number of its place in what the pool sends; all that is   *)
(* known of it is whether it is a line feed.                               *)
(***************************************************************************)
EXTENDS Integers, Sequences, FiniteSets

CONSTANTS
  MaxLength,     (* bound of the model: bytes the pool sends                *)
  ReadSize,      (* the reader's buffer, 4096                               *)
  MaxBuffered,   (* MAX_BUFFERED_BYTES                                      *)
  LineSize       (* the line buffer, 65536                                  *)

ASSUME InputAssumption ==
  /\ MaxLength \in Nat
  /\ {ReadSize, MaxBuffered, LineSize} \subseteq Nat \ {0}

VARIABLES
  length, feeds, (* what the pool sends: how much, and where line feeds are *)
  arrived,       (* bytes the reader has taken from the socket              *)
  socketOpen,
  readerAt,      (* where the reader thread is                              *)
  got,           (* its buffer                                              *)
  chunks, offset, pending, eof, error, closed,
  at,            (* where the session thread is                             *)
  buffer,        (* line_reader_t                                           *)
  lines,         (* history: lines given to the session                     *)
  outcome        (* how the session left the connection                     *)

poolVars   == <<length, feeds>>
readerVars == <<arrived, readerAt, got>>
queueVars  == <<chunks, offset, pending, eof, error>>
closeVars  == <<closed, socketOpen>>
lineVars   == <<at, buffer, lines, outcome>>
vars == <<poolVars, readerVars, queueVars, closeVars, lineVars>>

(* open: the handshake is done, the Conn and its reader thread exist.       *)
Init ==
  /\ length \in 0 .. MaxLength
  /\ feeds \in SUBSET (1 .. length)
  /\ arrived = 0 /\ readerAt = "read" /\ got = <<>>
  /\ chunks = <<>> /\ offset = 0 /\ pending = 0 /\ eof = FALSE /\ error = FALSE
  /\ closed = FALSE /\ socketOpen = TRUE
  /\ at = "scan" /\ buffer = <<>> /\ lines = <<>> /\ outcome = "none"

Smaller(a, b) == IF a < b THEN a ELSE b

(* The session holds conn.lock exactly while it copies.                     *)
Unlocked == at # "copy"

-----------------------------------------------------------------------------
(* The reader thread, readLoop.                                            *)

(* input.read returns at least one byte.                                    *)
ReaderReads ==
  /\ readerAt = "read"
  /\ socketOpen
  /\ \E n \in 1 .. Smaller(ReadSize, length - arrived) :
       /\ got' = [k \in 1 .. n |-> arrived + k]
       /\ arrived' = arrived + n
  /\ readerAt' = "store"
  /\ UNCHANGED <<poolVars, queueVars, closeVars, lineVars>>

(* The pool has closed its side.                                            *)
ReaderSeesEnd ==
  /\ readerAt = "read"
  /\ socketOpen
  /\ arrived = length
  /\ readerAt' = "end"
  /\ UNCHANGED <<poolVars, arrived, got, queueVars, closeVars, lineVars>>

(* The connection broke, or this side closed the socket.                    *)
ReaderThrows ==
  /\ readerAt = "read"
  /\ readerAt' = "threw"
  /\ UNCHANGED <<poolVars, arrived, got, queueVars, closeVars, lineVars>>

Overflows == pending + Len(got) > MaxBuffered

ReaderStores ==
  /\ readerAt = "store"
  /\ Unlocked
  /\ ~Overflows
  /\ chunks' = Append(chunks, got)
  /\ pending' = pending + Len(got)
  /\ got' = <<>>
  /\ readerAt' = "read"
  /\ UNCHANGED <<poolVars, arrived, offset, eof, error, closeVars, lineVars>>

ReaderOverflows ==
  /\ readerAt = "store"
  /\ Unlocked
  /\ Overflows
  /\ error' = TRUE
  /\ closed' = TRUE
  /\ socketOpen' = FALSE
  /\ readerAt' = "ended"
  /\ UNCHANGED <<poolVars, arrived, got, chunks, offset, pending, eof, lineVars>>

ReaderMarksEnd ==
  /\ readerAt = "end"
  /\ Unlocked
  /\ eof' = TRUE
  /\ readerAt' = "ended"
  /\ UNCHANGED <<poolVars, arrived, got, chunks, offset, pending, error, closeVars,
                 lineVars>>

(* An exception is an error unless close asked for it.                      *)
ReaderMarksError ==
  /\ readerAt = "threw"
  /\ closed \/ Unlocked
  /\ error' = (error \/ ~closed)
  /\ readerAt' = "ended"
  /\ UNCHANGED <<poolVars, arrived, got, chunks, offset, pending, eof, closeVars,
                 lineVars>>

-----------------------------------------------------------------------------
(* The session thread: read_line over conn_pending, conn_wait_read and      *)
(* conn_read.                                                               *)

Newlines == {i \in 1 .. Len(buffer) : buffer[i] \in feeds}
FirstNewline == CHOOSE i \in Newlines : \A k \in Newlines : i <= k

(* Mutant of Consumed: the line feed stays in the buffer.                   *)
ConsumedText(i) == i - 1
Consumed(i) == i

(* A line is cut off the buffer; the session handles it and comes again.    *)
FindLine ==
  /\ at = "scan"
  /\ Newlines # {}
  /\ lines' = Append(lines, SubSeq(buffer, 1, FirstNewline))
  /\ buffer' = SubSeq(buffer, Consumed(FirstNewline) + 1, Len(buffer))
  /\ UNCHANGED <<poolVars, readerVars, queueVars, closeVars, at, outcome>>

Fail(what) == at' = "failed" /\ outcome' = what

LineTooLong ==
  /\ at = "scan"
  /\ Newlines = {}
  /\ Len(buffer) = LineSize
  /\ Fail("tooLong")
  /\ UNCHANGED <<poolVars, readerVars, queueVars, closeVars, buffer, lines>>

NoLine ==
  /\ at = "scan"
  /\ Newlines = {}
  /\ Len(buffer) < LineSize
  /\ at' = "ask"
  /\ UNCHANGED <<poolVars, readerVars, queueVars, closeVars, buffer, lines, outcome>>

(* Mutant of PendingAnswer: the end is not told.                            *)
EndUntold == IF pending > 0 THEN pending ELSE IF error THEN -1 ELSE 0

(* BtcrigTls.pending *)
PendingAnswer ==
  IF pending > 0 THEN pending ELSE IF error THEN -1 ELSE IF eof THEN -2 ELSE 0

AskPending ==
  /\ at = "ask"
  /\ at' = IF PendingAnswer > 0 THEN "take" ELSE "wait"
  /\ UNCHANGED <<poolVars, readerVars, queueVars, closeVars, buffer, lines, outcome>>

(* conn_wait_read asks again; it does not wait.  With nothing there,        *)
(* read_line returns -3 and the session's loop comes round.                 *)
WaitRead ==
  /\ at = "wait"
  /\ IF PendingAnswer = -1 THEN Fail("failed")
     ELSE /\ at' = IF PendingAnswer = 0 THEN "scan" ELSE "take"
          /\ UNCHANGED outcome
  /\ UNCHANGED <<poolVars, readerVars, queueVars, closeVars, buffer, lines>>

(* Mutant of TakeNothing: the end hides what is still in the queue.         *)
EndHidesRest ==
  /\ at = "take"
  /\ pending = 0 \/ eof
  /\ IF error THEN Fail("failed")
     ELSE IF eof THEN Fail("closed")
     ELSE at' = "scan" /\ UNCHANGED outcome
  /\ UNCHANGED <<poolVars, readerVars, queueVars, closeVars, buffer, lines>>

(* BtcrigTls.read with an empty queue: error, end, or nothing yet.          *)
TakeNothing ==
  /\ at = "take"
  /\ pending = 0
  /\ IF error THEN Fail("failed")
     ELSE IF eof THEN Fail("closed")
     ELSE at' = "scan" /\ UNCHANGED outcome
  /\ UNCHANGED <<poolVars, readerVars, queueVars, closeVars, buffer, lines>>

TakeSome ==
  /\ at = "take"
  /\ pending > 0
  /\ at' = "copy"
  /\ UNCHANGED <<poolVars, readerVars, queueVars, closeVars, buffer, lines, outcome>>

OffsetAfter(n) == IF offset + n = Len(Head(chunks)) THEN 0 ELSE offset + n

CopyChunk ==
  /\ at = "copy"
  /\ Len(buffer) < LineSize
  /\ chunks # <<>>
  /\ LET n == Smaller(LineSize - Len(buffer), Len(Head(chunks)) - offset)
     IN  /\ buffer' = buffer \o SubSeq(Head(chunks), offset + 1, offset + n)
         /\ pending' = pending - n
         /\ offset' = OffsetAfter(n)
         /\ chunks' = IF offset + n = Len(Head(chunks)) THEN Tail(chunks) ELSE chunks
  /\ UNCHANGED <<poolVars, readerVars, eof, error, closeVars, at, lines, outcome>>

CopyDone ==
  /\ at = "copy"
  /\ Len(buffer) = LineSize \/ chunks = <<>>
  /\ at' = "scan"
  /\ UNCHANGED <<poolVars, readerVars, queueVars, closeVars, buffer, lines, outcome>>

(* The session ends for a reason of its own, between two reads.             *)
Leave ==
  /\ at = "scan"
  /\ Fail("left")
  /\ UNCHANGED <<poolVars, readerVars, queueVars, closeVars, buffer, lines>>

(* Mutant of Close: the connection is forgotten, its socket is not closed.  *)
CloseForgets ==
  /\ at = "failed"
  /\ at' = "closed"
  /\ closed' = TRUE
  /\ UNCHANGED <<poolVars, readerVars, queueVars, socketOpen, buffer, lines, outcome>>

(* conn_close, BtcrigTls.close                                              *)
Close ==
  /\ at = "failed"
  /\ at' = "closed"
  /\ closed' = TRUE
  /\ socketOpen' = FALSE
  /\ UNCHANGED <<poolVars, readerVars, queueVars, buffer, lines, outcome>>

Done ==
  /\ at = "closed" /\ readerAt = "ended"
  /\ UNCHANGED vars

-----------------------------------------------------------------------------
ReaderStep == ReaderStores \/ ReaderOverflows \/ ReaderMarksEnd \/ ReaderMarksError

LineStep ==
  \/ FindLine \/ LineTooLong \/ NoLine \/ AskPending \/ WaitRead \/ TakeNothing
  \/ TakeSome \/ CopyChunk \/ CopyDone \/ Close

Next ==
  \/ ReaderReads \/ ReaderSeesEnd \/ ReaderThrows \/ ReaderStep
  \/ LineStep \/ Leave \/ Done

(* Both threads run; a read of a closed socket throws.  The pool need not   *)
(* send anything, nor close its side.                                       *)
Fairness ==
  /\ WF_vars(LineStep)
  /\ SF_vars(ReaderStep)
  /\ WF_vars(ReaderThrows /\ ~socketOpen)

Spec     == Init /\ [][Next]_vars
FairSpec == Spec /\ Fairness

-----------------------------------------------------------------------------
(* Properties.                                                             *)

(* Where the next line of the session begins.                               *)
Given == IF lines = <<>> THEN 0 ELSE LET last == lines[Len(lines)]
                                     IN  last[Len(last)]

(* When the session learns that the pool closed the connection, it has been *)
(* given every line the pool completed; when it learns of an error, every   *)
(* one that reached the queue.                                              *)
EndComesLast ==
  /\ outcome = "closed" => \A p \in feeds : p <= Given
  /\ outcome = "failed" => \A p \in feeds : p <= Given \/ p > arrived - Len(got)

(* A reader thread that has ended, for whatever reason, is noticed: the     *)
(* session does not wait for ever on a dead connection.                     *)
LossIsNoticed == readerAt = "ended" ~> at = "closed"

(* A closed connection leaves no reader thread behind.                      *)
ReaderEnds == at = "closed" ~> readerAt = "ended"

(* The connection implements the feed of lines.                             *)
Feed == INSTANCE LineFeed WITH over <- at \in {"failed", "closed"}
ImplementsLineFeed == Feed!FeedSpec
=============================================================================
