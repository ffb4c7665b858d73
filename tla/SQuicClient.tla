---------------------------- MODULE SQuicClient ----------------------------
(***************************************************************************)
(* The client of ShadowQUIC and SunnyQUIC: callers of `connect`,           *)
(* `associate` and `congestion_kind`, the connection cached behind a mutex *)
(* (`connection_state`), the UDP receiver task of SunnyQUIC, `close`, and  *)
(* what happens when callers, streams and the client itself are dropped.   *)
(*                                                                         *)
(* quinn closes a connection with its last handle. Handles are held by the *)
(* cache, by callers and their streams, and by the receiver task.          *)
(***************************************************************************)
EXTENDS QuicLink

CONSTANTS
    None                \* no caller, no connection

ASSUME SQuicClientAssumption == None \notin Callers

VARIABLES
    usable,             \* CongestionConfig is not Brutal with a rate of 0
    holder,             \* the caller that holds the mutex of Client.connection
    cached,             \* the ClientConnection behind it
    pc,                 \* progress of each caller
    mine,               \* the connection each caller, then its stream, uses
    receivers,          \* connections whose UDP receiver task runs
    stopped,            \* Client::close was called
    dropped             \* the last Client is gone

clientVars == <<usable, holder, cached, pc, mine, receivers, stopped, dropped>>

\* `calling` are the callers that ever call.
ClientInit(calling) ==
    /\ usable \in BOOLEAN
    /\ holder = None
    /\ cached = None
    /\ pc = [c \in Callers |-> IF c \in calling THEN "idle" ELSE "finished"]
    /\ mine = [c \in Callers |-> None]
    /\ receivers = {}
    /\ stopped = FALSE
    /\ dropped = FALSE

\* Points at which a call is in progress.
Calling == {"asking", "waiting", "dialling", "authenticating", "opening"}

\* Callers, streams and control-stream tasks that hold a connection.
Using == {"dialling", "authenticating", "opening", "streaming", "draining"}

Held(n) ==
    \/ cached = n /\ ~dropped
    \/ n \in receivers
    \/ \E c \in Callers : mine[c] = n /\ pc[c] \in Using

\* The connections after a step: those of `base` without a handle are closed.
Collect(base) ==
    net' = [n \in Conns |-> IF base[n] # "none" /\ ~Held(n)' THEN "closed" ELSE base[n]]

Goto(c, label) == pc' = [pc EXCEPT ![c] = label]

Unlocked(c) == IF holder = c THEN None ELSE holder

-----------------------------------------------------------------------------
\* A call of congestion_kind, or one of connect or associate.
Call(c) ==
    /\ pc[c] = "idle" /\ ~dropped
    /\ Goto(c, "asking") \/ Goto(c, "waiting")
    /\ UNCHANGED <<linkVars, usable, holder, cached, mine, receivers, stopped, dropped>>

\* congestion_kind only needs the mutex.
CongestionKind(c) ==
    /\ pc[c] = "asking" /\ holder = None
    /\ Goto(c, "answered")
    /\ UNCHANGED <<linkVars, usable, holder, cached, mine, receivers, stopped, dropped>>

\* The cached connection has no close reason.
UseCached(c) ==
    /\ pc[c] = "waiting" /\ holder = None
    /\ cached \in Open
    /\ mine' = [mine EXCEPT ![c] = cached]
    /\ Goto(c, "opening")
    /\ UNCHANGED <<linkVars, usable, holder, cached, receivers, stopped, dropped>>

\* Slip: the mutex is released while dialling.
StartDialUnlocked(c) ==
    /\ pc[c] = "waiting" /\ holder = None
    /\ cached \notin Open /\ ~stopped
    /\ mine' = [mine EXCEPT ![c] = c]
    /\ Goto(c, "dialling")
    /\ net' = [net EXCEPT ![c] = "initial"]
    /\ UNCHANGED <<protocol, jls, usable, holder, cached, receivers, stopped, dropped>>

\* endpoint.connect(..), with the mutex held
StartDial(c) ==
    /\ pc[c] = "waiting" /\ holder = None
    /\ cached \notin Open /\ ~stopped
    /\ holder' = c
    /\ mine' = [mine EXCEPT ![c] = c]
    /\ Goto(c, "dialling")
    /\ net' = [net EXCEPT ![c] = "initial"]
    /\ UNCHANGED <<protocol, jls, usable, cached, receivers, stopped, dropped>>

\* Slip: the mutex stays locked.
FinishLocked(c, outcome) ==
    /\ Goto(c, outcome)
    /\ mine' = [mine EXCEPT ![c] = None]
    /\ UNCHANGED <<usable, holder, cached, receivers, stopped, dropped>>
    /\ Collect(net)
    /\ UNCHANGED <<protocol, jls>>

\* The call ends: the mutex and the caller's handle are let go.
Finish(c, outcome) ==
    /\ Goto(c, outcome)
    /\ holder' = Unlocked(c)
    /\ mine' = [mine EXCEPT ![c] = None]
    /\ UNCHANGED <<usable, cached, receivers, stopped, dropped>>
    /\ Collect(net)
    /\ UNCHANGED <<protocol, jls>>

\* After Client::close endpoint.connect fails at once.
ConnectRefused(c) ==
    /\ pc[c] = "waiting" /\ holder = None
    /\ cached \notin Open /\ stopped
    /\ Finish(c, "failed")

\* connecting.await fails, apply_congestion fails (a rate of 0), or the
\* handshake was not authenticated by JLS.
DialFails(c) ==
    /\ pc[c] = "dialling"
    /\ \/ net[c] = "closed"
       \/ net[c] = "up" /\ (~usable \/ (Jls /\ c \notin jls))
    /\ Finish(c, "failed")

\* Slip: every protocol gets a receiver task.
ReceiverForAll(c) == receivers \cup {c}

\* Only SunnyQUIC spawns the receiver, with a handle of its own.
Receiver(c) == IF Jls THEN receivers ELSE receivers \cup {c}

\* The new connection is cached and the mutex released.
Cache(c) ==
    /\ cached' = c
    /\ holder' = Unlocked(c)
    /\ receivers' = Receiver(c)
    /\ Goto(c, "opening")
    /\ UNCHANGED <<usable, mine, stopped, dropped>>
    /\ Collect(net)
    /\ UNCHANGED <<protocol, jls>>

\* The handshake is done: ShadowQUIC has its connection, SunnyQUIC goes on to
\* send its credential.
Dialled(c) ==
    /\ pc[c] = "dialling" /\ net[c] = "up"
    /\ usable
    /\ \/ Jls /\ c \in jls /\ Cache(c)
       \/ /\ ~Jls
          /\ Goto(c, "authenticating")
          /\ UNCHANGED <<linkVars, usable, holder, cached, mine, receivers, stopped, dropped>>

\* The credential is written; no answer is awaited.
CredentialSent(c) ==
    /\ pc[c] = "authenticating" /\ net[c] = "up"
    /\ Cache(c)

CredentialFails(c) ==
    /\ pc[c] = "authenticating" /\ net[c] = "closed"
    /\ Finish(c, "failed")

\* open_bi and the request; a stream or a packet connection is returned.
OpenStream(c) ==
    /\ pc[c] = "opening" /\ net[mine[c]] = "up"
    /\ Goto(c, "streaming")
    /\ UNCHANGED <<linkVars, usable, holder, cached, mine, receivers, stopped, dropped>>

\* The connection is closed, or the address does not encode.
OpenFails(c) == pc[c] = "opening" /\ Finish(c, "failed")

\* The caller's future is dropped at one of its awaits.
Cancel(c) == pc[c] \in Calling /\ Finish(c, "cancelled")

\* The application is done with its stream, or with a packet connection whose
\* control-stream task has ended.
DropStream(c) == pc[c] = "streaming" /\ Finish(c, "finished")

\* The application is done with its packet connection, but the task that
\* `associate` spawned still reads the server's control stream.
DropAssociation(c) ==
    /\ pc[c] = "streaming"
    /\ Goto(c, "draining")
    /\ UNCHANGED <<linkVars, usable, holder, cached, mine, receivers, stopped, dropped>>

\* That stream ends, or the connection does.
ControlEnds(c) == pc[c] = "draining" /\ Finish(c, "finished")

\* The receiver task meets the error of its connection.
ReceiverEnds(n) ==
    /\ n \in receivers /\ net[n] = "closed"
    /\ receivers' = receivers \ {n}
    /\ UNCHANGED <<linkVars, usable, holder, cached, pc, mine, stopped, dropped>>

\* Client::close closes the endpoint with all its connections.
CloseClient ==
    /\ ~stopped /\ ~dropped
    /\ stopped' = TRUE
    /\ net' = [n \in Conns |-> IF n \in Open THEN "closed" ELSE net[n]]
    /\ UNCHANGED <<protocol, jls, usable, holder, cached, pc, mine, receivers, dropped>>

\* The last Client is dropped. Calls borrow it, so none is in progress.
DropClient ==
    /\ ~dropped
    /\ \A c \in Callers : pc[c] \notin Calling
    /\ dropped' = TRUE
    /\ UNCHANGED <<usable, holder, cached, pc, mine, receivers, stopped>>
    /\ Collect(net)
    /\ UNCHANGED <<protocol, jls>>

CallerStep(c) ==
    \/ CongestionKind(c) \/ UseCached(c) \/ StartDial(c) \/ ConnectRefused(c)
    \/ DialFails(c) \/ Dialled(c) \/ CredentialSent(c) \/ CredentialFails(c)
    \/ OpenStream(c) \/ OpenFails(c)

ClientNext ==
    \/ \E c \in Callers :
         \/ Call(c) \/ CallerStep(c) \/ Cancel(c)
         \/ DropStream(c) \/ DropAssociation(c) \/ ControlEnds(c)
    \/ \E n \in Conns : ReceiverEnds(n)
    \/ CloseClient \/ DropClient

-----------------------------------------------------------------------------
\* Types of the client and of its connections.
ClientTypeOK ==
    /\ protocol \in {"Jls", "Sunny"}
    /\ net \in [Conns -> NetStates]
    /\ jls \subseteq Conns
    /\ holder \in Callers \cup {None}
    /\ cached \in Conns \cup {None}
    /\ pc \in [Callers -> Calling \cup {"idle", "answered", "streaming", "draining",
                                        "finished", "failed", "cancelled"}]
    /\ mine \in [Callers -> Conns \cup {None}]
    /\ receivers \subseteq Conns
    /\ usable \in BOOLEAN /\ stopped \in BOOLEAN /\ dropped \in BOOLEAN
=============================================================================
