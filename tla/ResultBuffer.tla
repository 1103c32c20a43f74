----------------------------- MODULE ResultBuffer -----------------------------
(***************************************************************************)
(* ulauncher/internals/result_buffer.py: the in-flight stream of result    *)
(* batches of a query, coalesced behind a throttle timer.                  *)
(***************************************************************************)
EXTENDS Sequences

\* held: batches are buffered; painted: a batch of this stream is on screen;
\* appending: the buffered batches extend what is on screen; timer: a paint is due.
NoBuffer == [held |-> FALSE, rows |-> <<>>, painted |-> FALSE, appending |-> FALSE, timer |-> FALSE]
Buffer(Row) == [held: BOOLEAN, rows: Seq(Row), painted: BOOLEAN, appending: BOOLEAN, timer: BOOLEAN]

\* Mutant: an append onto a buffered replacement turns it into an append.
BufferedLastWins(b, rows, append) ==
  IF append /\ b.held
  THEN [b EXCEPT !.rows = @ \o rows, !.appending = TRUE]
  ELSE [b EXCEPT !.held = TRUE, !.rows = rows, !.appending = append]

\* enqueue: appending batches extend the buffered ones, anything else replaces them.
Buffered(b, rows, append) ==
  IF append /\ b.held
  THEN [b EXCEPT !.rows = @ \o rows]
  ELSE [b EXCEPT !.held = TRUE, !.rows = rows, !.appending = append]

\* Whether a paint of the buffer extends the list on screen.
Extends(b) == b.painted /\ b.appending

\* _paint leaves a buffer that was reset, but for a list on screen to append onto.
PaintedBuffer == [NoBuffer EXCEPT !.painted = TRUE]
===============================================================================
