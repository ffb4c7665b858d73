---------------------------- MODULE Hy2Inactivity ----------------------------
(***************************************************************************)
(* `wait_inactive` of a Hysteria2 packet connection: futures that sleep    *)
(* until the session has been quiet for a timeout, while other threads     *)
(* send and receive and each packet renews the `watch` value `activity`.   *)
(*                                                                         *)
(* Instants appear relative to the present: age is how long ago the last   *)
(* activity was, left how far off a deadline is. Beyond Timeout an age     *)
(* makes no difference, which keeps the model finite and time unbounded.   *)
(***************************************************************************)
EXTENDS Integers

CONSTANTS
    Calls,              \* calls of wait_inactive
    Timeout             \* their timeout, in ticks

ASSUME Hy2InactivityAssumption == Timeout \in Nat \ {0}

VARIABLES
    up,                 \* the connection is alive
    age,                \* time since *activity, at most Timeout
    at,                 \* where each call is
    left,               \* time until its deadline
    mark,               \* what duration_since will give it
    unseen              \* calls that have not seen the value of activity

timerVars == <<up, age, at, left, mark, unseen>>

InCall(w) == at[w] \in {"loop", "select", "check"}

TimersInit ==
    /\ up = TRUE
    /\ age = 0
    /\ at = [w \in Calls |-> "idle"]
    /\ left = [w \in Calls |-> 0]
    /\ mark = [w \in Calls |-> 0]
    /\ unseen = {}

-----------------------------------------------------------------------------
\* Time passes; nothing makes a task run the moment its timer is due.
Tick ==
    /\ age' = IF age < Timeout THEN age + 1 ELSE age
    /\ left' = [w \in Calls |-> IF left[w] > 0 THEN left[w] - 1 ELSE left[w]]
    /\ UNCHANGED <<up, at, mark, unseen>>

ConnectionDies ==
    /\ up
    /\ up' = FALSE
    /\ UNCHANGED <<age, at, left, mark, unseen>>

\* activity.send_replace(Instant::now()), at the end of send and in recv. An
\* instant read before it is 0 after it: duration_since saturates.
Touch ==
    /\ age' = 0
    /\ mark' = [w \in Calls |-> 0]
    /\ unseen' = {w \in Calls : InCall(w)}
    /\ UNCHANGED <<up, at, left>>

\* subscribe: the value of the moment counts as seen.
WaitInactive(w) ==
    /\ ~InCall(w)
    /\ at' = [at EXCEPT ![w] = "loop"]
    /\ unseen' = unseen \ {w}
    /\ UNCHANGED <<up, age, left, mark>>

\* The deadline, from a borrow that does not mark the value as seen.
ArmTimer(w) ==
    /\ at[w] = "loop"
    /\ left' = [left EXCEPT ![w] = Timeout - age]
    /\ at' = [at EXCEPT ![w] = "select"]
    /\ UNCHANGED <<up, age, mark, unseen>>

\* sleep_until(deadline), and Instant::now().
Slept(w) ==
    /\ at[w] = "select"
    /\ left[w] = 0
    /\ mark' = [mark EXCEPT ![w] = age]
    /\ at' = [at EXCEPT ![w] = "check"]
    /\ UNCHANGED <<up, age, left, unseen>>

\* Slip: the timer is believed.
CheckNothing(w) ==
    /\ at[w] = "check"
    /\ at' = [at EXCEPT ![w] = "returned"]
    /\ UNCHANGED <<up, age, left, mark, unseen>>

\* Slip: borrow_and_update, and the sleep is not renewed.
CheckOnce(w) ==
    /\ at[w] = "check"
    /\ at' = [at EXCEPT ![w] = IF mark[w] >= Timeout THEN "returned" ELSE "select"]
    /\ left' = [left EXCEPT ![w] = IF mark[w] >= Timeout THEN 0 ELSE -1]
    /\ unseen' = unseen \ {w}
    /\ UNCHANGED <<up, age, mark>>

\* duration_since(*activity.borrow()) >= timeout
Check(w) ==
    /\ at[w] = "check"
    /\ at' = [at EXCEPT ![w] = IF mark[w] >= Timeout THEN "returned" ELSE "loop"]
    /\ UNCHANGED <<up, age, left, mark, unseen>>

\* activity.changed(). It cannot fail, for the sender is in self.
ActivityChanged(w) ==
    /\ at[w] = "select"
    /\ w \in unseen
    /\ unseen' = unseen \ {w}
    /\ at' = [at EXCEPT ![w] = "loop"]
    /\ UNCHANGED <<up, age, left, mark>>

\* connection.closed()
ConnectionClosed(w) ==
    /\ at[w] = "select"
    /\ ~up
    /\ at' = [at EXCEPT ![w] = "returned"]
    /\ UNCHANGED <<up, age, left, mark, unseen>>

\* The future is dropped at one of its awaits.
CancelCall(w) ==
    /\ at[w] = "select"
    /\ at' = [at EXCEPT ![w] = "idle"]
    /\ UNCHANGED <<up, age, left, mark, unseen>>

-----------------------------------------------------------------------------
\* select! polls its branches in a random order: each that is ready may win.
Step(w) ==
    ArmTimer(w) \/ Slept(w) \/ Check(w) \/ ActivityChanged(w) \/ ConnectionClosed(w)

TimersNext ==
    \/ Tick \/ Touch \/ ConnectionDies
    \/ \E w \in Calls : Step(w) \/ WaitInactive(w) \/ CancelCall(w)

\* Time passes and the runtime polls a task that is ready.
TimersSpec ==
    /\ TimersInit /\ [][TimersNext]_timerVars
    /\ WF_timerVars(Tick) /\ \A w \in Calls : WF_timerVars(Step(w))

-----------------------------------------------------------------------------
\* Types of the state of a session's timers.
TimersTypeOK ==
    /\ up \in BOOLEAN
    /\ age \in 0..Timeout
    /\ at \in [Calls -> {"idle", "loop", "select", "check", "returned"}]
    /\ left \in [Calls -> 0..Timeout]
    /\ mark \in [Calls -> 0..Timeout]
    /\ unseen \subseteq Calls

\* wait_inactive returns only at a moment when the session has been quiet for
\* the timeout, or its connection is lost: a packet that comes between the
\* deadline and the check, or between the clock and the borrow, is noticed.
ReleasedWhenQuiet ==
    [][\A w \in Calls :
          InCall(w) /\ at'[w] = "returned" => age >= Timeout \/ ~up]_timerVars

\* A session that stays quiet is released: every call returns, or is dropped,
\* or there is activity again.
QuietIsReleased ==
    \A w \in Calls : (InCall(w) /\ age > 0) ~> (~InCall(w) \/ age = 0)

=============================================================================
