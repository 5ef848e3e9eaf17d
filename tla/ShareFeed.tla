------------------------------ MODULE ShareFeed ------------------------------
(***************************************************************************)
(* What the session may rely on from the hashing engine, with no threads,  *)
(* ranges or locks: a bounded queue of shares, all for the current job,    *)
(* each given at most once, fed only while mining is not held.             *)
(***************************************************************************)
EXTENDS Integers, Sequences

CONSTANTS
  Winners,    (* the <<job, nonce>> pairs that are shares                   *)
  Capacity    (* shares the queue can hold                                  *)

VARIABLES
  cur,        (* number of the current job                                  *)
  held,       (* mining is paused or stopped                                *)
  queue,      (* shares found and not taken                                 *)
  taken       (* shares the session took                                    *)

feedVars == <<cur, held, queue, taken>>

Share(s, n) == [seq |-> s, nonce |-> n]

Queued == {queue[i] : i \in 1 .. Len(queue)}

FeedInit ==
  /\ cur = 0
  /\ held = FALSE
  /\ queue = <<>>
  /\ taken = {}

NewJob ==
  /\ cur' = cur + 1
  /\ queue' = <<>>
  /\ UNCHANGED <<held, taken>>

Find ==
  /\ ~held
  /\ Len(queue) < Capacity
  /\ \E win \in Winners :
       /\ win[1] = cur
       /\ Share(cur, win[2]) \notin Queued \union taken
       /\ queue' = Append(queue, Share(cur, win[2]))
  /\ UNCHANGED <<cur, held, taken>>

Take ==
  /\ queue # <<>>
  /\ taken' = taken \union {Head(queue)}
  /\ queue' = Tail(queue)
  /\ UNCHANGED <<cur, held>>

HoldOrRelease ==
  /\ held' \in BOOLEAN
  /\ UNCHANGED <<cur, queue, taken>>

FeedNext == NewJob \/ Find \/ Take \/ HoldOrRelease

FeedSpec == FeedInit /\ [][FeedNext]_feedVars
=============================================================================
