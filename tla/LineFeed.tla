------------------------------- MODULE LineFeed -------------------------------
(***************************************************************************)
(* What the session may rely on from its connection, with no threads,      *)
(* chunks or buffers: the pool's complete lines, each once and in order,   *)
(* until the connection is given up.  A line is the sequence of its bytes' *)
(* numbers, the line feed last.                                            *)
(***************************************************************************)
EXTENDS Integers, Sequences

VARIABLES
  feeds,    (* numbers of the bytes that are line feeds                     *)
  lines,    (* lines the session was given                                  *)
  over      (* the session has given the connection up                      *)

feedVars == <<feeds, lines, over>>

Begin == IF lines = <<>> THEN 1 ELSE LET last == lines[Len(lines)]
                                     IN  last[Len(last)] + 1

Line(first, last) == [k \in 1 .. last - first + 1 |-> first + k - 1]

FeedInit == lines = <<>> /\ over = FALSE

Give ==
  /\ ~over
  /\ \E p \in feeds :
       /\ p >= Begin
       /\ \A q \in feeds : q >= Begin => p <= q
       /\ lines' = Append(lines, Line(Begin, p))
  /\ UNCHANGED <<feeds, over>>

GiveUp ==
  /\ over' = TRUE
  /\ UNCHANGED <<feeds, lines>>

FeedNext == Give \/ GiveUp

FeedSpec == FeedInit /\ [][FeedNext]_feedVars
=============================================================================
