----------------------------- MODULE ByteStream -----------------------------
(***************************************************************************)
(* What one direction of a connection promises: a writer puts bytes in and *)
(* may close the stream, a reader takes them out in their order, none      *)
(* missing and none twice, and is told of the end only when the stream was *)
(* closed and nothing is left in it.  The bytes are their positions,       *)
(* counted from 1.                                                         *)
(***************************************************************************)
EXTENDS Naturals, Sequences

VARIABLES
    written,    \* bytes put in
    closed,     \* no more will be
    taken,      \* what the reader took out
    eof         \* the reader has just been told of the end

stream == << written, closed, taken, eof >>

Init == written = 0 /\ closed = FALSE /\ taken = << >> /\ eof = FALSE

Put ==
    /\ ~closed
    /\ written' > written
    /\ UNCHANGED << closed, taken, eof >>

Close ==
    /\ ~closed /\ closed'
    /\ UNCHANGED << written, taken, eof >>

\* One byte or more, as long as they were put in.
Take ==
    /\ Len(taken') > Len(taken) /\ Len(taken') <= written
    /\ SubSeq(taken', 1, Len(taken)) = taken
    /\ \A i \in Len(taken)+1..Len(taken') : taken'[i] = i
    /\ ~eof'
    /\ UNCHANGED << written, closed >>

TellEnd ==
    /\ closed /\ Len(taken) = written
    /\ eof'
    /\ UNCHANGED << written, closed, taken >>

\* The reader calls again.
Ask ==
    /\ eof /\ ~eof'
    /\ UNCHANGED << written, closed, taken >>

Next == Put \/ Close \/ Take \/ TellEnd \/ Ask

Spec == Init /\ [][Next]_stream
=============================================================================
