---------------------------- MODULE SQuicServer ----------------------------
(***************************************************************************)
(* The server endpoint of ShadowQUIC and SunnyQUIC: the accept loop, a     *)
(* task per connection and one per bidirectional stream, all of which hold *)
(* a sender of the accept queue, against `update_config`, SunnyQUIC's      *)
(* `update_certificate` and `close`, which may be called from any thread.  *)
(*                                                                         *)
(* Options go by the number of the update that brought them, in the order  *)
(* the updates begin; 0 are those of bind. Good options have the client's  *)
(* user and a congestion setting that apply_congestion accepts, bad ones   *)
(* neither (the user is gone, the setting is Brutal with a rate of 0).     *)
(***************************************************************************)
EXTENDS QuicLink

CONSTANTS
    Updates,            \* update calls, each made once
    Streams,            \* bidirectional streams of a connection
    AcceptCap           \* capacity of the accept queue, 256

ASSUME SQuicServerAssumption ==
    /\ Updates \subseteq Nat \ {0}
    /\ AcceptCap \in Nat \ {0}

VARIABLES
    options,            \* of each update: "good" or "bad"
    congestion,         \* Server.congestion
    tls,                \* the configuration of the endpoint
    update,             \* progress of each update call
    clean,              \* the last update ran alone and succeeded (history)
    task,               \* progress of each connection's task
    seen,               \* the options that task has read, until it serves
    shutting,           \* Server::close was called
    loop,               \* the accept loop: "accepting" or "ended"
    stream,             \* progress of the task of each stream of each connection
    queue,              \* number of items in the accept queue
    accept              \* Server::accept: "open", or "closed" once it said so

configVars == <<options, congestion, tls, update, clean>>
queueVars == <<stream, queue, accept>>
servingVars == <<task, seen, shutting, loop, queueVars>>
serverVars == <<configVars, servingVars>>

Options == {"good", "bad"}

Numbers == Updates \cup {0}

Unread == [congestion |-> 0, tls |-> 0]

\* `updating` are the updates that are ever made, `opening` the streams that
\* are ever opened.
ServerInit(updating, opening) ==
    /\ options = [u \in Numbers |-> "good"]
    /\ congestion = 0
    /\ tls = 0
    /\ update = [u \in Updates |-> IF u \in updating THEN "idle" ELSE "failed"]
    /\ clean = TRUE
    /\ task = [n \in Conns |-> "none"]
    /\ seen = [n \in Conns |-> Unread]
    /\ shutting = FALSE
    /\ loop = "accepting"
    /\ stream = [n \in Conns |-> [s \in Streams |-> IF s \in opening THEN "none" ELSE "done"]]
    /\ queue = 0
    /\ accept = "open"

-----------------------------------------------------------------------------
(***************************************************************************)
(* update_config stores the congestion setting, builds the TLS             *)
(* configuration and installs it. SunnyQUIC builds first; its              *)
(* update_certificate passes on the users and the congestion setting of    *)
(* bind, so they are written again as they are.                            *)
(***************************************************************************)
Running == {u \in Updates : update[u] \in {"begun", "built"}}

Store(u) == congestion' = IF Jls THEN u ELSE 0

Begin(u, o) ==
    /\ update[u] = "idle" /\ \A v \in Updates : v < u => update[v] # "idle"
    /\ Jls \/ o = options[0]
    /\ options' = [options EXCEPT ![u] = o]
    /\ update' = [update EXCEPT ![u] = "begun"]
    /\ clean' = (Running = {})
    /\ IF Jls THEN Store(u) ELSE UNCHANGED congestion
    /\ UNCHANGED <<linkVars, tls, servingVars>>

\* Slip: the new configuration is built and then not installed.
BuiltKeepsOld(u) ==
    /\ update[u] = "begun"
    /\ update' = [update EXCEPT ![u] = "done"]
    /\ IF Jls THEN UNCHANGED congestion ELSE Store(u)
    /\ UNCHANGED <<linkVars, options, tls, clean, servingVars>>

\* The configuration is built; SunnyQUIC writes its two locks now.
Built(u) ==
    /\ update[u] = "begun"
    /\ update' = [update EXCEPT ![u] = "built"]
    /\ IF Jls THEN UNCHANGED congestion ELSE Store(u)
    /\ UNCHANGED <<linkVars, options, tls, clean, servingVars>>

\* Building fails: the call returns an error, and what it stored stays.
BuildFails(u) ==
    /\ update[u] = "begun"
    /\ update' = [update EXCEPT ![u] = "failed"]
    /\ clean' = FALSE
    /\ UNCHANGED <<linkVars, options, congestion, tls, servingVars>>

Install(u) ==
    /\ update[u] = "built"
    /\ update' = [update EXCEPT ![u] = "done"]
    /\ tls' = u
    /\ UNCHANGED <<linkVars, options, congestion, clean, servingVars>>

-----------------------------------------------------------------------------
(***************************************************************************)
(* The accept loop and the task of a connection.                           *)
(***************************************************************************)

\* Slip: the congestion setting is read once, when the server is bound.
AcceptIncomingAsBound(n) ==
    /\ loop = "accepting" /\ ~shutting
    /\ net[n] = "initial"
    /\ net' = [net EXCEPT ![n] = "accepted"]
    /\ task' = [task EXCEPT ![n] = "accepted"]
    /\ seen' = [seen EXCEPT ![n].congestion = 0]
    /\ UNCHANGED <<protocol, jls, configVars, shutting, loop, queueVars>>

\* The loop reads the congestion setting and spawns the connection's task.
AcceptIncoming(n) ==
    /\ loop = "accepting" /\ ~shutting
    /\ net[n] = "initial"
    /\ net' = [net EXCEPT ![n] = "accepted"]
    /\ task' = [task EXCEPT ![n] = "accepted"]
    /\ seen' = [seen EXCEPT ![n].congestion = congestion]
    /\ UNCHANGED <<protocol, jls, configVars, shutting, loop, queueVars>>

\* incoming.await: quinn takes the TLS configuration in force at its first poll.
StartHandshake(n) ==
    /\ task[n] = "accepted"
    /\ task' = [task EXCEPT ![n] = "handshake"]
    /\ seen' = [seen EXCEPT ![n].tls = tls]
    /\ UNCHANGED <<linkVars, configVars, shutting, loop, queueVars>>

UserKnown(n) == options[seen[n].tls] = "good"

\* The handshake ends, on both sides; JLS authenticates the users it knows.
Handshake(n) ==
    /\ task[n] = "handshake" /\ net[n] = "accepted"
    /\ net' = [net EXCEPT ![n] = "up"]
    /\ task' = [task EXCEPT ![n] = "connected"]
    /\ jls' = IF Jls /\ UserKnown(n) THEN jls \cup {n} ELSE jls
    /\ UNCHANGED <<protocol, configVars, seen, shutting, loop, queueVars>>

\* What a task has read goes with it.
Leave(n, label) ==
    /\ task' = [task EXCEPT ![n] = label]
    /\ seen' = [seen EXCEPT ![n] = Unread]

HandshakeFails(n) ==
    /\ task[n] = "handshake" /\ net[n] = "closed"
    /\ Leave(n, "ended")
    /\ UNCHANGED <<linkVars, configVars, shutting, loop, queueVars>>

Refused(n) ==
    \/ options[seen[n].congestion] = "bad"
    \/ Jls /\ n \notin jls

\* apply_congestion fails, or the handshake was not authenticated.
Refuse(n) ==
    /\ task[n] = "connected" /\ Refused(n)
    /\ Leave(n, "ended")
    /\ net' = [net EXCEPT ![n] = "closed"]
    /\ UNCHANGED <<protocol, jls, configVars, shutting, loop, queueVars>>

\* serve_connection, up to its select loop
Serve(n) ==
    /\ task[n] = "connected" /\ ~Refused(n)
    /\ Leave(n, "serving")
    /\ UNCHANGED <<linkVars, configVars, shutting, loop, queueVars>>

\* The select loop meets the end of its connection.
ServingEnds(n) ==
    /\ task[n] = "serving" /\ net[n] = "closed"
    /\ task' = [task EXCEPT ![n] = "ended"]
    /\ UNCHANGED <<linkVars, configVars, seen, shutting, loop, queueVars>>

\* Server::close: endpoint.close, which also ends the accept loop
CloseServer ==
    /\ ~shutting
    /\ shutting' = TRUE
    /\ net' = [n \in Conns |-> IF n \in Open THEN "closed" ELSE net[n]]
    /\ UNCHANGED <<protocol, jls, configVars, task, seen, loop, queueVars>>

\* accept_endpoint.accept() returns None, or the task is aborted
LoopEnds ==
    /\ shutting /\ loop = "accepting"
    /\ loop' = "ended"
    /\ UNCHANGED <<linkVars, configVars, task, seen, shutting, queueVars>>

\* A dial that reaches a closed endpoint is turned away.
TurnedAway(n) ==
    /\ shutting /\ net[n] = "initial"
    /\ net' = [net EXCEPT ![n] = "closed"]
    /\ UNCHANGED <<protocol, jls, serverVars>>

-----------------------------------------------------------------------------
(***************************************************************************)
(* The task of a bidirectional stream, and the application. What a request *)
(* asks for, and who is authenticated, is the subject of SQuicAuth: here a *)
(* task moves through the points at which it keeps its sender.             *)
(***************************************************************************)
StreamGoto(n, s, label) == stream' = [stream EXCEPT ![n][s] = label]

\* The select loop takes a stream and gives its task a sender. One that came
\* before the connection was closed can be taken until the loop sees the end.
AcceptBi(n, s) ==
    /\ task[n] = "serving" /\ stream[n][s] = "none"
    /\ StreamGoto(n, s, "opcode")
    /\ UNCHANGED <<linkVars, configVars, task, seen, shutting, loop, queue, accept>>

\* CONNECT, ASSOCIATE and the extension go on to wait_for_sunny_auth; the task
\* of a credential, or of an unknown opcode, ends.
ReadOpcode(n, s) ==
    /\ stream[n][s] = "opcode"
    /\ StreamGoto(n, s, "auth") \/ StreamGoto(n, s, "done")
    /\ UNCHANGED <<linkVars, configVars, task, seen, shutting, loop, queue, accept>>

\* The credential of a SunnyQUIC client has come, before or meanwhile.
AuthComes(n, s) ==
    /\ stream[n][s] = "auth" /\ ~Jls
    /\ StreamGoto(n, s, "request")
    /\ UNCHANGED <<linkVars, configVars, task, seen, shutting, loop, queue, accept>>

\* Slip: no timeout. The task has a sender of the channel it waits on, so the
\* end of the connection does not wake it.
AuthWaitForever(n, s) ==
    /\ stream[n][s] = "auth" /\ Jls
    /\ StreamGoto(n, s, "request")
    /\ UNCHANGED <<linkVars, configVars, task, seen, shutting, loop, queue, accept>>

\* ShadowQUIC does not wait at all; SunnyQUIC gives up after SUNNY_AUTH_TIMEOUT.
AuthWaitEnds(n, s) ==
    /\ stream[n][s] = "auth"
    /\ StreamGoto(n, s, IF Jls THEN "request" ELSE "done")
    /\ UNCHANGED <<linkVars, configVars, task, seen, shutting, loop, queue, accept>>

\* The address is read, or the extension is answered.
ReadRequest(n, s) ==
    /\ stream[n][s] = "request"
    /\ StreamGoto(n, s, "push") \/ StreamGoto(n, s, "done")
    /\ UNCHANGED <<linkVars, configVars, task, seen, shutting, loop, queue, accept>>

\* sender.send(..) gets a place; an association then reads its control stream.
Push(n, s) ==
    /\ stream[n][s] = "push" /\ queue < AcceptCap
    /\ queue' = queue + 1
    /\ StreamGoto(n, s, "control") \/ StreamGoto(n, s, "done")
    /\ UNCHANGED <<linkVars, configVars, task, seen, shutting, loop, accept>>

\* A read fails: what came is malformed, or the peer ended or reset the stream,
\* or the connection is gone.
ReadFails(n, s) ==
    /\ stream[n][s] \in {"opcode", "request", "control"}
    /\ StreamGoto(n, s, "done")
    /\ UNCHANGED <<linkVars, configVars, task, seen, shutting, loop, queue, accept>>

\* What a stream's task does whatever its peer does: a read is not left
\* pending once the connection is closed.
StreamGoesOn(n, s) ==
    AuthWaitEnds(n, s) \/ Push(n, s) \/ (net[n] = "closed" /\ ReadFails(n, s))

\* Server::accept returns an item.
Accept ==
    /\ queue > 0
    /\ queue' = queue - 1
    /\ UNCHANGED <<linkVars, configVars, task, seen, shutting, loop, stream, accept>>

\* Server::accept returns Closed: the queue is empty and nobody holds a sender.
AcceptCloses ==
    /\ accept = "open" /\ queue = 0
    /\ loop = "ended"
    /\ \A n \in Conns :
         /\ task[n] \in {"none", "ended"}
         /\ \A s \in Streams : stream[n][s] \in {"none", "done"}
    /\ accept' = "closed"
    /\ UNCHANGED <<linkVars, configVars, task, seen, shutting, loop, stream, queue>>

TaskStep(n) ==
    \/ StartHandshake(n) \/ Handshake(n) \/ HandshakeFails(n)
    \/ Refuse(n) \/ Serve(n) \/ ServingEnds(n)

StreamStep(n, s) ==
    \/ AcceptBi(n, s) \/ ReadOpcode(n, s) \/ AuthComes(n, s) \/ AuthWaitEnds(n, s)
    \/ ReadRequest(n, s) \/ Push(n, s) \/ ReadFails(n, s)

ServerNext ==
    \/ \E u \in Updates :
         \/ \E o \in Options : Begin(u, o)
         \/ Built(u) \/ BuildFails(u) \/ Install(u)
    \/ \E n \in Conns : AcceptIncoming(n) \/ TaskStep(n) \/ TurnedAway(n)
    \/ \E n \in Conns, s \in Streams : StreamStep(n, s)
    \/ CloseServer \/ LoopEnds \/ Accept \/ AcceptCloses

-----------------------------------------------------------------------------
\* Types of the server.
ServerTypeOK ==
    /\ options \in [Numbers -> Options]
    /\ congestion \in Numbers
    /\ tls \in Numbers
    /\ update \in [Updates -> {"idle", "begun", "built", "done", "failed"}]
    /\ task \in [Conns -> {"none", "accepted", "handshake", "connected", "serving", "ended"}]
    /\ seen \in [Conns -> [congestion : Numbers, tls : Numbers]]
    /\ clean \in BOOLEAN /\ shutting \in BOOLEAN
    /\ loop \in {"accepting", "ended"} /\ accept \in {"open", "closed"}
    /\ stream \in [Conns -> [Streams -> {"none", "opcode", "auth", "request", "push",
                                         "control", "done"}]]
    /\ queue \in 0..AcceptCap
=============================================================================
