---------------------------- MODULE TimerProofs ----------------------------
(***************************************************************************)
(* Module Timer for any number of timers and pointers: the timer thread    *)
(* never frees a timer that somebody may still touch, and starts a handler *)
(* at most once and never after a cancellation.                            *)
(***************************************************************************)
EXTENDS Timer, TLAPS

\* What timers_tick, timer_cancel and timer_release keep of each timer, from
\* which StartedOnce follows: a timer not yet marked cancelled has neither
\* fired nor been stopped, and a stopped one never fires.
StartsCounted ==
    \A t \in Timers :
        /\ ~timer[t].cancelled => timer[t].started = 0 /\ ~timer[t].stopped
        /\ timer[t].stopped => timer[t].started = 0
        /\ timer[t].started <= 1

\* The inductive invariant.
IInv == TypeOK /\ PointersCounted /\ StartsCounted

----------------------------------------------------------------------------

\* A timer fresh from timer_alloc and put on the list has its type.
LEMMA ListedTyped ==
    ASSUME TypeOK, NEW t \in Timers, NEW refs \in {0, 1}, NEW d \in Delays,
           Listed(t, refs, d)
    PROVE  /\ timer' \in [Timers -> TimerRec]
           /\ \A u \in Timers \ {t} : timer'[u] = timer[u]
           /\ timer'[t].listed /\ timer'[t].refcnt = refs
           /\ ~timer'[t].cancelled /\ ~timer'[t].stopped
           /\ timer'[t].started = 0
<1> DEFINE r == NewTimer(refs, d)
<1>1. r \in TimerRec
  BY TimerConstants DEF TimerRec, NewTimer
<1>2. timer' = [timer EXCEPT ![t] = r]
  BY DEF Listed
<1>3. timer' \in [Timers -> TimerRec] /\ timer'[t] = r
  BY <1>1, <1>2 DEF TypeOK
<1>4. \A u \in Timers \ {t} : timer'[u] = timer[u]
  BY <1>2 DEF TypeOK
<1> QED
  BY <1>3, <1>4 DEF NewTimer

\* One visit of the timer thread leaves a timer's type alone.
LEMMA FiredTyped ==
    ASSUME NEW r \in TimerRec
    PROVE  /\ Fired(r) \in TimerRec
           /\ Fired(r).refcnt = r.refcnt
           /\ Fired(r).listed = r.listed
           /\ Fired(r).stopped = r.stopped
           /\ r.cancelled => Fired(r) = r
           /\ ~r.cancelled =>
                 \/ Fired(r) = r
                 \/ Fired(r).cancelled /\ Fired(r).started = r.started + 1
<1>1. CASE ~r.cancelled /\ r.left < 0
  <2>1. Fired(r) = [r EXCEPT !.cancelled = TRUE, !.started = @ + 1]
    BY <1>1 DEF Fired
  <2> DEFINE n == r.started + 1
  <2>2. n \in Nat
    BY DEF TimerRec
  <2>3. Fired(r) = [r EXCEPT !.cancelled = TRUE, !.started = n]
    BY <2>1
  <2> HIDE DEF n
  <2>4. /\ Fired(r) \in TimerRec /\ Fired(r).cancelled /\ Fired(r).started = n
        /\ Fired(r).refcnt = r.refcnt /\ Fired(r).listed = r.listed
        /\ Fired(r).stopped = r.stopped
    BY <2>2, <2>3 DEF TimerRec
  <2> QED
    BY <1>1, <2>4 DEF n
<1>2. CASE ~(~r.cancelled /\ r.left < 0)
  BY <1>2 DEF Fired
<1> QED
  BY <1>1, <1>2

\* timer_cancel drops a reference and marks the timer.
LEMMA CancelledTyped ==
    ASSUME NEW r \in TimerRec, r.refcnt = 1
    PROVE  /\ Cancelled(r) \in TimerRec
           /\ Cancelled(r).refcnt = 0 /\ Cancelled(r).cancelled
           /\ Cancelled(r).listed = r.listed /\ Cancelled(r).started = r.started
           /\ Cancelled(r).stopped = (r.started = 0)
<1> DEFINE n == r.refcnt - 1
           b == (r.started = 0)
<1>1. n \in Int /\ n = 0 /\ b \in BOOLEAN
  BY DEF TimerRec
<1>2. Cancelled(r) = [r EXCEPT !.refcnt = n, !.cancelled = TRUE, !.stopped = b]
  BY DEF Cancelled
<1> HIDE DEF n, b
<1>3. /\ Cancelled(r) \in TimerRec
      /\ Cancelled(r).refcnt = n /\ Cancelled(r).cancelled
      /\ Cancelled(r).listed = r.listed /\ Cancelled(r).started = r.started
      /\ Cancelled(r).stopped = b
  BY <1>1, <1>2 DEF TimerRec
<1> QED
  BY <1>1, <1>3 DEF b

\* What a visit does to the records: only t's changes, to what firing makes of
\* it, and it leaves the list only when no pointer is counted.
LEMMA VisitEffect ==
    ASSUME TypeOK, NEW t \in Timers, TickVisit(t)
    PROVE  /\ timer' \in [Timers -> TimerRec]
           /\ \A u \in Timers \ {t} : timer'[u] = timer[u]
           /\ timer'[t].refcnt = timer[t].refcnt
           /\ timer'[t].stopped = timer[t].stopped
           /\ timer'[t].listed => timer[t].listed
           /\ timer[t].listed /\ ~timer'[t].listed => timer[t].refcnt = 0
           /\ timer[t].cancelled =>
                 timer'[t].cancelled /\ timer'[t].started = timer[t].started
           /\ ~timer[t].cancelled =>
                 \/ ~timer'[t].cancelled /\ timer'[t].started = timer[t].started
                 \/ timer'[t].cancelled /\ timer'[t].started = timer[t].started + 1
<1> DEFINE r == Fired(timer[t])
<1>1. timer[t] \in TimerRec
  BY DEF TypeOK
<1>2. /\ r \in TimerRec /\ r.refcnt = timer[t].refcnt
      /\ r.listed = timer[t].listed /\ r.stopped = timer[t].stopped
      /\ timer[t].cancelled => r = timer[t]
      /\ ~timer[t].cancelled =>
            r = timer[t] \/ (r.cancelled /\ r.started = timer[t].started + 1)
  BY <1>1, FiredTyped
<1>3. CASE Busy(t)
  BY <1>1, <1>3 DEF TickVisit, TypeOK
<1>4. CASE ~Busy(t) /\ Freeable(r)
  <2>1. timer' = [timer EXCEPT ![t] = [r EXCEPT !.listed = FALSE]]
    BY <1>4 DEF TickVisit
  <2>2. [r EXCEPT !.listed = FALSE] \in TimerRec
    BY <1>2 DEF TimerRec
  <2> HIDE DEF r
  <2> QED
    BY <1>1, <1>2, <1>4, <2>1, <2>2 DEF TypeOK, TimerRec, Freeable
<1>5. CASE ~Busy(t) /\ ~Freeable(r)
  <2>1. timer' = [timer EXCEPT ![t] = r]
    BY <1>5 DEF TickVisit
  <2> HIDE DEF r
  <2> QED
    BY <1>1, <1>2, <2>1 DEF TypeOK, TimerRec
<1> QED
  BY <1>3, <1>4, <1>5

----------------------------------------------------------------------------
(* Each action preserves the three parts of the invariant. *)

\* timer_add gives the new timer the only reference and the only pointer.
LEMMA AddStep ==
    ASSUME IInv, NEW s \in Slots, NEW t \in Timers, NEW d \in Delays,
           timer_add(s, t, d)
    PROVE  IInv'
<1>1. /\ timer' \in [Timers -> TimerRec]
      /\ \A u \in Timers \ {t} : timer'[u] = timer[u]
      /\ timer'[t].listed /\ timer'[t].refcnt = 1
      /\ ~timer'[t].cancelled /\ ~timer'[t].stopped
      /\ timer'[t].started = 0
  BY ListedTyped DEF IInv, timer_add
<1>2. /\ slot' = [slot EXCEPT ![s] = t] /\ op = NoOp /\ UNCHANGED << op, scanning, walk >>
      /\ slot[s] = NULL /\ ~timer[t].listed
  BY DEF timer_add, Listed
<1>3. TypeOK'
  BY <1>1, <1>2 DEF IInv, TypeOK, NoOp, Ops
<1>4. PointersCounted'
  BY <1>1, <1>2, TimerConstants DEF IInv, TypeOK, PointersCounted
<1>5. StartsCounted'
  BY <1>1 DEF IInv, StartsCounted
<1> QED
  BY <1>3, <1>4, <1>5 DEF IInv

\* timer_oneshot lists a timer nobody points to, with no reference.
LEMMA OneshotStep ==
    ASSUME IInv, NEW t \in Timers, NEW d \in Delays, timer_oneshot(t, d)
    PROVE  IInv'
<1>1. /\ timer' \in [Timers -> TimerRec]
      /\ \A u \in Timers \ {t} : timer'[u] = timer[u]
      /\ timer'[t].listed /\ timer'[t].refcnt = 0
      /\ ~timer'[t].cancelled /\ ~timer'[t].stopped
      /\ timer'[t].started = 0
  BY ListedTyped DEF IInv, timer_oneshot
<1>2. /\ UNCHANGED << slot, op, scanning, walk >> /\ ~timer[t].listed
  BY DEF timer_oneshot, Listed
<1>3. TypeOK'
  BY <1>1, <1>2 DEF IInv, TypeOK
<1>4. PointersCounted'
  BY <1>1, <1>2, TimerConstants DEF IInv, TypeOK, PointersCounted
<1>5. StartsCounted'
  BY <1>1 DEF IInv, StartsCounted
<1> QED
  BY <1>3, <1>4, <1>5 DEF IInv

\* timer_cancel and timer_release drop one counted pointer.
LEMMA DropStep ==
    ASSUME IInv, timer_cancel \/ timer_release
    PROVE  IInv'
<1> DEFINE t == slot[op.slot]
<1>1. op.slot \in Slots /\ t \in Timers
  BY DEF IInv, TypeOK, timer_cancel, timer_release
<1>2. timer[t] \in TimerRec /\ timer[t].listed /\ timer[t].refcnt = 1
  BY <1>1, TimerConstants DEF IInv, TypeOK, PointersCounted
<1>3. /\ slot' = [slot EXCEPT ![op.slot] = NULL]
      /\ op' = NoOp /\ UNCHANGED << scanning, walk >>
  BY DEF timer_cancel, timer_release
<1>4. /\ timer' \in [Timers -> TimerRec]
      /\ \A u \in Timers \ {t} : timer'[u] = timer[u]
      /\ timer'[t].refcnt = 0 /\ timer'[t].listed
      /\ timer'[t].started = timer[t].started
      /\ \/ /\ timer'[t].cancelled
            /\ timer'[t].stopped <=> timer[t].started = 0
         \/ /\ timer'[t].cancelled = timer[t].cancelled
            /\ timer'[t].stopped = timer[t].stopped
  <2>1. CASE timer_cancel
    <3> DEFINE r == Cancelled(timer[t])
    <3>1. timer' = [timer EXCEPT ![t] = r]
      BY <2>1 DEF timer_cancel
    <3>2. /\ r \in TimerRec /\ r.refcnt = 0 /\ r.listed /\ r.cancelled
          /\ r.started = timer[t].started /\ r.stopped = (timer[t].started = 0)
      BY <1>2, CancelledTyped
    <3> HIDE DEF r, t
    <3>3. timer' \in [Timers -> TimerRec] /\ timer'[t] = r
      BY <1>1, <3>1, <3>2 DEF IInv, TypeOK
    <3>4. \A u \in Timers \ {t} : timer'[u] = timer[u]
      BY <3>1 DEF IInv, TypeOK
    <3> QED
      BY <3>2, <3>3, <3>4
  <2>2. CASE timer_release
    <3>1. timer' = [timer EXCEPT ![t] = [timer[t] EXCEPT !.refcnt = @ - 1]]
      BY <1>1, <1>2, <2>2 DEF timer_release, IInv, TypeOK, TimerRec
    <3>2. [timer[t] EXCEPT !.refcnt = @ - 1] \in TimerRec
      BY <1>2 DEF TimerRec
    <3> HIDE DEF t
    <3> QED
      BY <1>1, <1>2, <3>1, <3>2 DEF IInv, TypeOK, TimerRec
  <2> QED
    BY <2>1, <2>2
<1>5. TypeOK'
  BY <1>1, <1>3, <1>4 DEF IInv, TypeOK, NoOp, Ops
<1>6. PointersCounted'
  BY <1>1, <1>2, <1>3, <1>4, TimerConstants DEF IInv, TypeOK, PointersCounted
<1>7. StartsCounted'
  BY <1>1, <1>2, <1>4 DEF IInv, StartsCounted, TimerRec
<1> QED
  BY <1>5, <1>6, <1>7 DEF IInv

\* The start of a walk changes the clock and no reference.
LEMMA TickBeginStep ==
    ASSUME IInv, TickBegin
    PROVE  IInv'
<1>1. /\ timer' \in [Timers -> TimerRec]
      /\ \A t \in Timers : /\ timer'[t].listed = timer[t].listed
                           /\ timer'[t].refcnt = timer[t].refcnt
                           /\ timer'[t].cancelled = timer[t].cancelled
                           /\ timer'[t].started = timer[t].started
                           /\ timer'[t].stopped = timer[t].stopped
  BY DEF IInv, TypeOK, TickBegin, TimerRec
<1>2. /\ UNCHANGED << slot, op >> /\ scanning' = TRUE
      /\ walk' = {t \in Timers : timer[t].listed}
  BY DEF TickBegin
<1>3. TypeOK'
  BY <1>1, <1>2 DEF IInv, TypeOK
<1>4. PointersCounted'
  BY <1>1, <1>2, TimerConstants DEF IInv, TypeOK, PointersCounted
<1>5. StartsCounted'
  BY <1>1 DEF IInv, StartsCounted
<1> QED
  BY <1>3, <1>4, <1>5 DEF IInv

\* The body of timers_tick's loop fires a timer once and frees only one that
\* no pointer leads to.
LEMMA TickVisitStep ==
    ASSUME IInv, NEW t \in Timers, TickVisit(t)
    PROVE  IInv'
<1>1. /\ timer' \in [Timers -> TimerRec]
      /\ \A u \in Timers \ {t} : timer'[u] = timer[u]
      /\ timer'[t].refcnt = timer[t].refcnt
      /\ timer'[t].stopped = timer[t].stopped
      /\ timer'[t].listed => timer[t].listed
      /\ timer[t].listed /\ ~timer'[t].listed => timer[t].refcnt = 0
      /\ timer[t].cancelled =>
            timer'[t].cancelled /\ timer'[t].started = timer[t].started
      /\ ~timer[t].cancelled =>
            \/ ~timer'[t].cancelled /\ timer'[t].started = timer[t].started
            \/ timer'[t].cancelled /\ timer'[t].started = timer[t].started + 1
  BY VisitEffect DEF IInv
<1>2. UNCHANGED << slot, op, scanning >> /\ walk' = walk \ {t}
  BY DEF TickVisit
<1>3. TypeOK'
  BY <1>1, <1>2 DEF IInv, TypeOK
<1>4. PointersCounted'
  BY <1>1, <1>2, TimerConstants DEF IInv, TypeOK, PointersCounted
<1>5. StartsCounted'
  BY <1>1 DEF IInv, StartsCounted
<1> QED
  BY <1>3, <1>4, <1>5 DEF IInv

\* Taking a timer's lock, ending a walk and stuttering change no timer.
LEMMA QuietStep ==
    ASSUME IInv,
           \/ \E s \in Slots, call \in {"cancel", "release"} : BeginDrop(call, s)
           \/ TickEnd
           \/ UNCHANGED vars
    PROVE  IInv'
<1>1. UNCHANGED << timer, slot >>
  BY DEF BeginDrop, TickEnd, vars
<1>2. TypeOK'
  <2>1. CASE \E s \in Slots, call \in {"cancel", "release"} : BeginDrop(call, s)
    BY <2>1 DEF IInv, TypeOK, BeginDrop, Ops
  <2>2. CASE TickEnd
    BY <2>2 DEF IInv, TypeOK, TickEnd
  <2>3. CASE UNCHANGED vars
    BY <2>3 DEF IInv, TypeOK, vars
  <2> QED
    BY <2>1, <2>2, <2>3
<1> QED
  BY <1>1, <1>2 DEF IInv, PointersCounted, StartsCounted

\* Before the first timer_add there is nothing to count.
LEMMA InitIInv == Init => IInv
<1> SUFFICES ASSUME Init PROVE IInv
  OBVIOUS
<1>1. Unused \in TimerRec
  BY DEF Unused, TimerRec
<1>2. /\ ~Unused.listed /\ ~Unused.stopped
      /\ Unused.started = 0
  BY DEF Unused
<1>3. NoOp \in Ops /\ NoOp.call = "none"
  BY DEF NoOp, Ops
<1>4. TypeOK
  BY <1>1, <1>3 DEF Init, TypeOK
<1>5. PointersCounted
  BY <1>2 DEF Init, PointersCounted
<1>6. StartsCounted
  BY <1>2 DEF Init, StartsCounted
<1> QED
  BY <1>4, <1>5, <1>6 DEF IInv

\* Every step of the timer thread and of the socket's threads keeps IInv.
THEOREM Invariance == Spec => []IInv
<1>1. IInv /\ [Next]_vars => IInv'
  BY AddStep, OneshotStep, DropStep, TickBeginStep, TickVisitStep, QuietStep
     DEF Next
<1> QED
  BY InitIInv, <1>1, PTL DEF Spec

\* Type correctness of src/timer.c's state.
THEOREM TypeCorrect == Spec => []TypeOK
<1>1. IInv => TypeOK
  BY DEF IInv
<1> QED
  BY <1>1, Invariance, PTL

\* timers_tick frees no timer that tsk->retransmit, tsk->delack or tsk->linger
\* still points to, and t->refcnt counts those pointers.
THEOREM NoDanglingTimer == Spec => []PointersCounted
<1>1. IInv => PointersCounted
  BY DEF IInv
<1> QED
  BY <1>1, Invariance, PTL

\* A timer's handler is started at most once, and never after timer_cancel came
\* first.
THEOREM HandlerStartedOnce == Spec => []StartedOnce
<1>1. IInv => StartedOnce
  BY DEF IInv, TypeOK, TimerRec, StartsCounted, StartedOnce
<1> QED
  BY <1>1, Invariance, PTL

=============================================================================
