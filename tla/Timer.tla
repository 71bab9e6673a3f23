------------------------------- MODULE Timer -------------------------------
(***************************************************************************)
(* src/timer.c: the list of timers, the thread that walks it at every tick,*)
(* and the pointers a socket keeps to its timers (tsk->retransmit,         *)
(* tsk->delack, tsk->linger).                                              *)
(*                                                                         *)
(* Whoever holds the socket lock (the core thread, a call of the           *)
(* application, a handler thread) is the socket's only user of these       *)
(* pointers; it runs against the timer thread, which holds the list lock   *)
(* during a walk and each timer's own lock while it looks at the timer.    *)
(* A timer's address may be used again once it is freed.                   *)
(***************************************************************************)
EXTENDS Integers, FiniteSets

CONSTANTS
    Timers,     \* the addresses timer_alloc can return
    Slots,      \* the timer pointers of the socket
    Delays,     \* the delays timers are armed with, in ticks
    NULL

ASSUME TimerConstants ==
    /\ Delays \subseteq Nat
    /\ NULL \notin Timers

VARIABLES
    timer,      \* address -> struct timer
    slot,       \* the socket's pointers
    op,         \* timer_cancel or timer_release in progress, t->lock held
    scanning,   \* the timer thread holds the list lock
    walk        \* timers its current walk has not visited yet

vars == << timer, slot, op, scanning, walk >>

(***************************************************************************)
(* left:    ticks until t->expires, -1 when it has passed;                 *)
(* started: handler threads created for the timer (history);               *)
(* stopped: timer_cancel was called before any (history).                  *)
(***************************************************************************)
TimerRec == [listed : BOOLEAN, refcnt : Int, cancelled : BOOLEAN,
             left : Int, started : Nat, stopped : BOOLEAN]

Ops == [call : {"none", "cancel", "release"}, slot : Slots \cup {NULL}]

NoOp == [call |-> "none", slot |-> NULL]

\* Type correctness.
TypeOK ==
    /\ timer \in [Timers -> TimerRec]
    /\ slot \in [Slots -> Timers \cup {NULL}]
    /\ op \in Ops
    /\ op.call # "none" => op.slot \in Slots /\ slot[op.slot] \in Timers
    /\ scanning \in BOOLEAN
    /\ walk \subseteq Timers

Unused == [listed |-> FALSE, refcnt |-> 0, cancelled |-> FALSE, left |-> 0,
           started |-> 0, stopped |-> FALSE]

Init ==
    /\ timer = [t \in Timers |-> Unused]
    /\ slot = [s \in Slots |-> NULL]
    /\ op = NoOp
    /\ scanning = FALSE
    /\ walk = {}

----------------------------------------------------------------------------
(* The user of the socket's timers *)

NewTimer(refs, delay) ==
    [listed |-> TRUE, refcnt |-> refs, cancelled |-> FALSE, left |-> delay,
     started |-> 0, stopped |-> FALSE]

\* timer_add and timer_oneshot put a new timer on the list; they wait for the
\* list lock while the timer thread walks.
Listed(t, refs, delay) ==
    /\ ~scanning /\ ~timer[t].listed
    /\ timer' = [timer EXCEPT ![t] = NewTimer(refs, delay)]
    /\ UNCHANGED << op, scanning, walk >>

\* tsk->retransmit = timer_add(...): every caller in tcp.c, tcp_input.c and
\* tcp_output.c has cancelled or released the old timer before.
timer_add(s, t, delay) ==
    /\ op = NoOp /\ slot[s] = NULL
    /\ Listed(t, 1, delay)
    /\ slot' = [slot EXCEPT ![s] = t]

timer_oneshot(t, delay) ==
    /\ op = NoOp
    /\ Listed(t, 0, delay)
    /\ UNCHANGED slot

\* timer_cancel and timer_release take the timer's lock ...
BeginDrop(call, s) ==
    /\ op = NoOp /\ slot[s] # NULL
    /\ op' = [call |-> call, slot |-> s]
    /\ UNCHANGED << timer, slot, scanning, walk >>

Cancelled(r) == [r EXCEPT !.refcnt = @ - 1, !.cancelled = TRUE,
                          !.stopped = (r.started = 0)]

\* ... and drop the reference; the caller, which still holds the socket lock,
\* clears or replaces its pointer before it looks at it again.
timer_cancel ==
    /\ op.call = "cancel"
    /\ timer' = [timer EXCEPT ![slot[op.slot]] = Cancelled(timer[slot[op.slot]])]
    /\ slot' = [slot EXCEPT ![op.slot] = NULL]
    /\ op' = NoOp
    /\ UNCHANGED << scanning, walk >>

\* A timer_release that returns without pthread_mutex_unlock.
timer_release_locked ==
    /\ op.call = "release"
    /\ timer' = [timer EXCEPT ![slot[op.slot]].refcnt = @ - 1]
    /\ slot' = [slot EXCEPT ![op.slot] = NULL]
    /\ UNCHANGED << op, scanning, walk >>

timer_release ==
    /\ op.call = "release"
    /\ timer' = [timer EXCEPT ![slot[op.slot]].refcnt = @ - 1]
    /\ slot' = [slot EXCEPT ![op.slot] = NULL]
    /\ op' = NoOp
    /\ UNCHANGED << scanning, walk >>

----------------------------------------------------------------------------
(* The timer thread *)

\* timers_start advances the clock and timers_tick takes the list lock.
TickBegin ==
    /\ ~scanning
    /\ scanning' = TRUE
    /\ timer' = [t \in Timers |->
                    IF timer[t].listed /\ timer[t].left >= 0
                    THEN [timer[t] EXCEPT !.left = @ - 1] ELSE timer[t]]
    /\ walk' = {t \in Timers : timer[t].listed}
    /\ UNCHANGED << slot, op >>

\* pthread_mutex_trylock fails on a timer whose lock is held.
Busy(t) == op # NoOp /\ slot[op.slot] = t

\* Starts the handler of a timer that has expired, and leaves it armed.
FiredAgain(r) ==
    IF ~r.cancelled /\ r.left < 0 THEN [r EXCEPT !.started = @ + 1] ELSE r

\* Starts the handler of a timer that has expired.
Fired(r) ==
    IF ~r.cancelled /\ r.left < 0
    THEN [r EXCEPT !.cancelled = TRUE, !.started = @ + 1] ELSE r

\* Frees a timer without looking at its references.
FreeableOwned(r) == r.cancelled

\* Frees a timer nobody points to before it has fired.
FreeableEarly(r) == r.refcnt = 0

\* Frees only timers that have fired.
FreeableFired(r) == r.started > 0 /\ r.refcnt = 0

Freeable(r) == r.cancelled /\ r.refcnt = 0

\* The body of timers_tick's loop for one timer.
TickVisit(t) ==
    /\ t \in walk
    /\ walk' = walk \ {t}
    /\ timer' = IF Busy(t) THEN timer
                ELSE LET r == Fired(timer[t])
                     IN  [timer EXCEPT ![t] =
                             IF Freeable(r)
                             THEN [r EXCEPT !.listed = FALSE] ELSE r]
    /\ UNCHANGED << slot, op, scanning >>

TickEnd ==
    /\ scanning /\ walk = {}
    /\ scanning' = FALSE
    /\ UNCHANGED << timer, slot, op, walk >>

----------------------------------------------------------------------------

Next ==
    \/ \E s \in Slots, t \in Timers, d \in Delays : timer_add(s, t, d)
    \/ \E t \in Timers, d \in Delays : timer_oneshot(t, d)
    \/ \E s \in Slots, call \in {"cancel", "release"} : BeginDrop(call, s)
    \/ timer_cancel \/ timer_release
    \/ TickBegin \/ TickEnd
    \/ \E t \in Timers : TickVisit(t)

Spec == Init /\ [][Next]_vars

\* The timer thread runs for ever, and a thread that holds a timer's lock
\* goes on to release it. Nothing obliges anyone to arm or drop timers.
Fairness ==
    /\ WF_vars(TickBegin) /\ WF_vars(TickEnd)
    /\ \A t \in Timers : WF_vars(TickVisit(t))
    /\ WF_vars(timer_cancel) /\ WF_vars(timer_release)

FairSpec == Spec /\ Fairness

----------------------------------------------------------------------------
(* Properties *)

\* t->refcnt is exactly the number of pointers to the timer, which is at most
\* one, and a pointer never leads to a timer that was freed: timers_tick frees
\* nothing that timer_cancel, timer_release or tcp_rtt may still touch.
PointersCounted ==
    /\ \A s \in Slots : slot[s] # NULL => timer[slot[s]].listed
    /\ \A s1, s2 \in Slots : slot[s1] = slot[s2] /\ slot[s1] # NULL => s1 = s2
    /\ \A t \in Timers : timer[t].listed =>
          timer[t].refcnt = IF \E s \in Slots : slot[s] = t THEN 1 ELSE 0

\* A handler is started at most once for a timer, and never for one that was
\* cancelled first, however the cancellation and the walk interleave.
StartedOnce ==
    \A t \in Timers : timer[t].started <= IF timer[t].stopped THEN 0 ELSE 1

\* A timer that was cancelled or has fired, and that no pointer leads to, is
\* taken off the list and freed.
Reclaimed ==
    \A t \in Timers :
        timer[t].listed /\ timer[t].cancelled /\ timer[t].refcnt = 0
            ~> ~timer[t].listed

\* A timer's handler is started unless somebody cancels it first: a timer
\* whose pointer was only released still fires.
FiresOrCancelled ==
    \A t \in Timers :
        timer[t].listed /\ ~timer[t].cancelled ~> timer[t].cancelled

=============================================================================
