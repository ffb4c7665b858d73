--------------------------- MODULE SQuicEndpoints ---------------------------
(***************************************************************************)
(* A ShadowQUIC or SunnyQUIC client and server together: what the life of  *)
(* the connections, the configuration updates and the two shutdowns mean   *)
(* for each other.                                                         *)
(***************************************************************************)
EXTENDS SQuicClient, SQuicServer

CONSTANTS
    Scenes              \* who takes part: records of callers, updates and streams

ASSUME SQuicEndpointsAssumption ==
    Scenes \subseteq [callers : SUBSET Callers, updates : SUBSET Updates,
                      streams : SUBSET Streams]

VARIABLES
    current             \* the options that were in force at some time since a
                        \* connection was dialled, until it is served (history)

vars == <<linkVars, clientVars, serverVars, current>>

\* Dialled, and neither served nor given up by the server.
Pending(n) ==
    \/ task[n] = "none" /\ net[n] = "initial"
    \/ task[n] \in {"accepted", "handshake", "connected"}

Nothing == [congestion |-> {}, tls |-> {}]

Track(n) ==
    IF ~Pending(n)' THEN Nothing
    ELSE [congestion |-> current[n].congestion \cup {congestion'},
          tls |-> current[n].tls \cup {tls'}]

Init ==
    /\ LinkInit
    /\ \E s \in Scenes : ClientInit(s.callers) /\ ServerInit(s.updates, s.streams)
    /\ current = [n \in Conns |-> Nothing]

\* Steps of the client, of the server, and of the network.
Client(A) == A /\ UNCHANGED serverVars /\ current' = [n \in Conns |-> Track(n)]

Server(A) == A /\ UNCHANGED clientVars /\ current' = [n \in Conns |-> Track(n)]

Next ==
    \/ Client(ClientNext)
    \/ Server(ServerNext)
    \/ \E n \in Conns : Client(Lost(n) /\ UNCHANGED clientVars)

(***************************************************************************)
(* Tasks that can go on are polled again; quinn ends every handshake, with *)
(* a connection or by its timeout; a dial that reaches a closed endpoint   *)
(* is answered or times out. The server's application goes on accepting.   *)
(* Nothing else is assumed of the applications (calls, cancellations,      *)
(* drops, updates, closes), nor of the loss of a connection that is up,    *)
(* nor of what a peer sends on a stream.                                   *)
(***************************************************************************)
Fairness ==
    /\ \A c \in Callers : WF_vars(Client(CallerStep(c)))
    /\ \A n \in Conns :
         /\ WF_vars(Server(AcceptIncoming(n) \/ TaskStep(n) \/ TurnedAway(n)))
         /\ WF_vars(Server(\E s \in Streams : StreamGoesOn(n, s)))
    /\ WF_vars(Server(LoopEnds))
    /\ WF_vars(Server(Accept \/ AcceptCloses))

Spec == Init /\ [][Next]_vars /\ Fairness

-----------------------------------------------------------------------------
(***************************************************************************)
(* The mutex is held across the dial, so however the callers of connect    *)
(* and associate race with failures, cancellations and close, the client   *)
(* never has two live connections, and callers that opened a stream on a   *)
(* live connection share it.                                               *)
(***************************************************************************)
OneConnection == \A m, n \in Open : m = n

(***************************************************************************)
(* A connection dialled after an update returned never gets options older  *)
(* than that update: neither the congestion setting the accept loop read,  *)
(* nor the TLS configuration its handshake used. With ShadowQUIC, whose    *)
(* users are part of that configuration, a user that an update removed is  *)
(* no longer served on new connections.                                    *)
(***************************************************************************)
ServedUnderCurrentOptions ==
    [][\A n \in Conns : task[n] # "serving" /\ task'[n] = "serving" =>
          /\ \E u \in current[n].congestion : u = seen[n].congestion /\ options[u] = "good"
          /\ \E u \in current[n].tls : u = seen[n].tls /\ (Jls => options[u] = "good")]_vars

(***************************************************************************)
(* The setting and the TLS configuration are replaced one after the other, *)
(* and a failed update_config leaves the first replaced and the second     *)
(* not; two updates at once may leave one of each. The next update that    *)
(* succeeds on its own brings them together again. A SunnyQUIC certificate *)
(* update never changes the congestion setting.                            *)
(***************************************************************************)
UpdateHeals ==
    clean /\ Running = {} => congestion = (IF Jls THEN tls ELSE 0)

(***************************************************************************)
(* Every call of connect, associate and congestion_kind comes back: the    *)
(* mutex is always released, by a caller that failed or was cancelled too. *)
(***************************************************************************)
CallersAnswered == \A c \in Callers : pc[c] \in Calling ~> pc[c] \notin Calling

(***************************************************************************)
(* After Server::close an application that goes on accepting is told that  *)
(* the server is closed: the accept loop, the task of every connection and *)
(* that of every stream let go of the queue, at whatever point they were:  *)
(* in a handshake, in a read, waiting for a credential that never comes or *)
(* for room in the queue.                                                  *)
(***************************************************************************)
CloseEndsAccept == shutting ~> accept = "closed"

(***************************************************************************)
(* Once a ShadowQUIC client and all its streams are dropped, and the       *)
(* control streams of its associations have ended, the server's tasks for  *)
(* its connections and for their streams end without waiting for a         *)
(* timeout. (Not so for SunnyQUIC: its receiver task keeps the             *)
(* connection.)                                                            *)
(***************************************************************************)
AbandonedIsReleased ==
    Jls /\ dropped /\ (\A c \in Callers : pc[c] \notin {"streaming", "draining"})
        ~> \A n \in Conns :
             /\ task[n] \in {"none", "ended"}
             /\ \A s \in Streams : stream[n][s] \in {"none", "done"}
=============================================================================
