------------------------ MODULE IncomingUdpRegistry ------------------------
(***************************************************************************)
(* `IncomingUdpRegistry` of shadowquic/mod.rs, step by step as its callers *)
(* interleave: control-stream tasks that register and remove routes, tasks *)
(* of datagrams and unidirectional streams that wait for the route of an   *)
(* id, and serve_connection closing the registry.                          *)
(*                                                                         *)
(* `changed` is a tokio Notify. Its futures carry no permit, but a future  *)
(* that exists when notify_waiters is called is completed by that call     *)
(* even if it has not been polled; woken[w] says that the future of waiter *)
(* w has been completed. Only which ids have a route matters here; what a  *)
(* route holds is the business of SQuicUdp.                                *)
(***************************************************************************)
EXTENDS Naturals

CONSTANTS
    Ids,                \* u16 context ids
    Waiters,            \* tasks that call wait
    Writers             \* control-stream tasks

VARIABLES
    routes,             \* keys of the HashMap<u16, IncomingUdpRoute>
    closed,             \* AtomicBool
    closePc,            \* progress of close: "open", "stored", "notified"
    waiter,             \* progress of each waiter
    want,               \* the id each waiter waits for
    woken,              \* its Notified future has been completed
    writerPc            \* progress of each register: "idle", "inserted"

registryVars == <<routes, closed, closePc, waiter, want, woken, writerPc>>

Waiting == {"start", "lookup", "check", "parked"}

RegistryInit ==
    /\ routes = {}
    /\ closed = FALSE
    /\ closePc = "open"
    /\ waiter = [w \in Waiters |-> "idle"]
    /\ want \in [Waiters -> Ids]
    /\ woken = [w \in Waiters |-> FALSE]
    /\ writerPc = [c \in Writers |-> "idle"]

\* A task calls wait(id).
CallWait(w, id) ==
    /\ waiter[w] = "idle"
    /\ waiter' = [waiter EXCEPT ![w] = "start"]
    /\ want' = [want EXCEPT ![w] = id]
    /\ UNCHANGED <<routes, closed, closePc, woken, writerPc>>

\* let changed = self.changed.notified();
Arm(w) ==
    /\ waiter[w] = "start"
    /\ waiter' = [waiter EXCEPT ![w] = "lookup"]
    /\ woken' = [woken EXCEPT ![w] = FALSE]
    /\ UNCHANGED <<routes, closed, closePc, want, writerPc>>

\* self.routes.lock().await.get(&id).cloned()
LookUp(w) ==
    /\ waiter[w] = "lookup"
    /\ waiter' = [waiter EXCEPT ![w] = IF want[w] \in routes THEN "found" ELSE "check"]
    /\ UNCHANGED <<routes, closed, closePc, want, woken, writerPc>>

\* Slip: the future is created only here, after the lookup and the check.
CheckClosedThenArm(w) ==
    /\ waiter[w] = "check"
    /\ waiter' = [waiter EXCEPT ![w] = IF closed THEN "failed" ELSE "parked"]
    /\ woken' = [woken EXCEPT ![w] = FALSE]
    /\ UNCHANGED <<routes, closed, closePc, want, writerPc>>

\* if self.closed.load(..) { return Err(..) }, else await the future.
CheckClosed(w) ==
    /\ waiter[w] = "check"
    /\ waiter' = [waiter EXCEPT ![w] = IF closed THEN "failed" ELSE "parked"]
    /\ UNCHANGED <<routes, closed, closePc, want, woken, writerPc>>

\* changed.await returns and the loop starts over.
Wake(w) ==
    /\ waiter[w] = "parked"
    /\ woken[w]
    /\ waiter' = [waiter EXCEPT ![w] = "start"]
    /\ UNCHANGED <<routes, closed, closePc, want, woken, writerPc>>

\* The caller is done with the result of wait.
Return(w) ==
    /\ waiter[w] \in {"found", "failed"}
    /\ waiter' = [waiter EXCEPT ![w] = "idle"]
    /\ UNCHANGED <<routes, closed, closePc, want, woken, writerPc>>

\* notify_waiters completes the futures that exist.
NotifyWaiters ==
    woken' = [w \in Waiters |-> woken[w] \/ waiter[w] \in {"lookup", "check", "parked"}]

\* register: the insertion under the lock ...
Insert(c, id) ==
    /\ writerPc[c] = "idle"
    /\ routes' = routes \cup {id}
    /\ writerPc' = [writerPc EXCEPT ![c] = "inserted"]
    /\ UNCHANGED <<closed, closePc, waiter, want, woken>>

\* ... and the notification after the lock is released.
Notify(c) ==
    /\ writerPc[c] = "inserted"
    /\ NotifyWaiters
    /\ writerPc' = [writerPc EXCEPT ![c] = "idle"]
    /\ UNCHANGED <<routes, closed, closePc, waiter, want>>

\* remove takes the lock once for all the ids of a control stream.
Remove(c, ids) ==
    /\ writerPc[c] = "idle"
    /\ routes' = routes \ ids
    /\ UNCHANGED <<closed, closePc, waiter, want, woken, writerPc>>

CloseStore ==
    /\ closePc = "open"
    /\ closed' = TRUE
    /\ closePc' = "stored"
    /\ UNCHANGED <<routes, waiter, want, woken, writerPc>>

\* Slip: close does not notify.
CloseSilently ==
    /\ closePc = "stored"
    /\ closePc' = "notified"
    /\ UNCHANGED <<routes, closed, waiter, want, woken, writerPc>>

CloseNotify ==
    /\ closePc = "stored"
    /\ NotifyWaiters
    /\ closePc' = "notified"
    /\ UNCHANGED <<routes, closed, waiter, want, writerPc>>

WaitStep(w) == Arm(w) \/ LookUp(w) \/ CheckClosed(w) \/ Wake(w)

RegistryNext ==
    \/ \E w \in Waiters : WaitStep(w) \/ Return(w) \/ \E id \in Ids : CallWait(w, id)
    \/ \E c \in Writers : \/ \E id \in Ids : Insert(c, id)
                          \/ Notify(c)
                          \/ \E ids \in SUBSET Ids : Remove(c, ids)
    \/ CloseStore
    \/ CloseNotify

(***************************************************************************)
(* A runnable task is eventually polled, and neither register nor close    *)
(* awaits anything between its write and its notification. Nothing obliges *)
(* callers to call, writers to write or the connection to close.           *)
(***************************************************************************)
RegistryFairness ==
    /\ \A w \in Waiters : WF_registryVars(WaitStep(w))
    /\ \A c \in Writers : WF_registryVars(Notify(c))
    /\ WF_registryVars(CloseNotify)

RegistrySpec == RegistryInit /\ [][RegistryNext]_registryVars /\ RegistryFairness

-----------------------------------------------------------------------------
(***************************************************************************)
(* Types of the registry and of its callers' progress.                     *)
(***************************************************************************)
RegistryTypeOK ==
    /\ routes \subseteq Ids
    /\ closed \in BOOLEAN
    /\ closePc \in {"open", "stored", "notified"}
    /\ waiter \in [Waiters -> Waiting \cup {"idle", "found", "failed"}]
    /\ want \in [Waiters -> Ids]
    /\ woken \in [Waiters -> BOOLEAN]
    /\ writerPc \in [Writers -> {"idle", "inserted"}]

(***************************************************************************)
(* No lost wakeup: a waiter that sleeps in wait with nothing on its way to *)
(* wake it has nothing to wake up for. Its id has no route and the         *)
(* registry is open, or the task that changed that is about to notify.     *)
(***************************************************************************)
NoLostWakeup ==
    \A w \in Waiters :
        waiter[w] = "parked" /\ ~woken[w] =>
            /\ want[w] \in routes => \E c \in Writers : writerPc[c] = "inserted"
            /\ closed => closePc = "stored"

(***************************************************************************)
(* Waiters are released: one whose route is registered gets it, and        *)
(* closing the registry releases every task that waits in it, so that no   *)
(* task of a closed connection is left behind.                             *)
(***************************************************************************)
WaitersReleased ==
    \A w \in Waiters : ~<>[](waiter[w] \in Waiting /\ (want[w] \in routes \/ closed))

=============================================================================
