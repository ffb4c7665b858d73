------------------------ MODULE SQuicEndpointsProofs ------------------------
(***************************************************************************)
(* A SQuic client has one live connection, its server heals a failed       *)
(* update with the next one, and it serves new connections under current   *)
(* options: for any number of callers and updates. The transport that both *)
(* ends give a connection: its congestion controller and its windows, for  *)
(* any measurements.                                                       *)
(***************************************************************************)
EXTENDS SQuicEndpoints, Tuning, TLAPS

\* Callers before, during and after the time they may dial.
Early == {"idle", "asking", "waiting"}

Dialling == {"dialling", "authenticating"}

Past == {"opening", "streaming", "draining", "finished", "failed", "cancelled"}

\* The mutex is held by the caller that dials, which has its own connection.
MutexHeld == \A c \in Callers :
    /\ pc[c] \in Dialling <=> holder = c
    /\ pc[c] \in Dialling => mine[c] = c

\* A caller that has not dialled has no connection.
NotDialled == \A c \in Callers : pc[c] \in Early => net[c] = "none"

\* Whoever else has a handle of a connection got it after it was cached.
HandlesOfCached ==
    /\ \A c \in Callers : mine[c] \notin {None, c} => pc[mine[c]] \in Past
    /\ \A n \in receivers : pc[n] \in Past
    /\ cached # None => pc[cached] \in Past

\* An open connection is cached or being dialled, and not both exist.
OpenIsKnown ==
    /\ \A n \in Open : n = cached \/ n = holder
    /\ holder # None => cached \notin Open

ClientInv == ClientTypeOK /\ MutexHeld /\ NotDialled /\ HandlesOfCached /\ OpenIsKnown

-----------------------------------------------------------------------------
\* A client that has just been made satisfies its invariant.
LEMMA ClientInvInit == Init => ClientInv
<1> SUFFICES ASSUME Init PROVE ClientInv
    BY Zenon
<1>1. LinkInit /\ \E s \in Scenes : ClientInit(s.callers)
    BY Zenon DEF Init
<1> QED
    BY <1>1, SQuicClientAssumption, Zenon
    DEF LinkInit, ClientInit, ClientInv, ClientTypeOK, MutexHeld, NotDialled, HandlesOfCached,
        OpenIsKnown, Open, Early, Dialling, Past, NetStates, Calling, Conns

\* What the network and the server do to a connection: it goes on or is closed,
\* and none comes into being.
LEMMA ClientInvKept ==
    ASSUME ClientInv, UNCHANGED <<protocol, clientVars>>, jls' \subseteq Conns,
           net' \in [Conns -> NetStates],
           \A n \in Conns : net[n] = "none" => net'[n] = "none",
           \A n \in Conns : net[n] = "closed" => net'[n] = "closed"
    PROVE  ClientInv'
<1>1. ClientTypeOK /\ MutexHeld /\ NotDialled /\ HandlesOfCached /\ OpenIsKnown
    BY Zenon DEF ClientInv
<1>2. Open' \subseteq Open
    BY <1>1, Zenon DEF ClientTypeOK, Open, NetStates
<1>3. ClientTypeOK'
    BY <1>1, Zenon DEF ClientTypeOK, clientVars
<1>4. MutexHeld' /\ NotDialled' /\ HandlesOfCached'
    BY <1>1, Zenon DEF MutexHeld, NotDialled, HandlesOfCached, clientVars, Conns, ClientTypeOK
<1>5. OpenIsKnown'
    BY <1>1, <1>2, Zenon DEF OpenIsKnown, clientVars
<1> QED
    BY <1>3, <1>4, <1>5, Zenon DEF ClientInv

\* Connections without a handle are closed, the others stay as they are.
LEMMA Collected ==
    ASSUME net \in [Conns -> NetStates], Collect(net)
    PROVE  /\ net' \in [Conns -> NetStates]
           /\ \A n \in Conns : net'[n] \in {net[n], "closed"}
           /\ \A n \in Conns : net[n] = "none" => net'[n] = "none"
           /\ Open' \subseteq Open
           /\ \A n \in Open' : Held(n)'
<1>1. net' = [n \in Conns |-> IF net[n] # "none" /\ ~Held(n)' THEN "closed" ELSE net[n]]
    BY Zenon DEF Collect
<1> QED
    BY <1>1, Zenon DEF Open, NetStates

\* The end of a call, wherever it is, or of a stream.
LEMMA ClientFinishKeeps ==
    ASSUME ClientInv, NEW c \in Callers, NEW o \in {"failed", "cancelled", "finished"},
           pc[c] \in Calling \cup {"streaming", "draining"}, Finish(c, o)
    PROVE  ClientInv'
<1> USE SQuicClientAssumption DEF Conns
<1>1. ClientTypeOK /\ MutexHeld /\ NotDialled /\ HandlesOfCached /\ OpenIsKnown
    BY Zenon DEF ClientInv
<1>2. /\ pc' = [pc EXCEPT ![c] = o] /\ mine' = [mine EXCEPT ![c] = None]
      /\ holder' = Unlocked(c)
      /\ UNCHANGED <<usable, cached, receivers, stopped, dropped, protocol, jls>>
    BY Zenon DEF Finish, Goto
<1>3. /\ net' \in [Conns -> NetStates]
      /\ \A n \in Conns : net[n] = "none" => net'[n] = "none"
      /\ Open' \subseteq Open
      /\ \A n \in Open' : Held(n)'
    BY <1>1, Collected, Zenon DEF ClientTypeOK, Finish
<1>4. ClientTypeOK'
    BY <1>1, <1>2, <1>3, Zenon DEF ClientTypeOK, Unlocked, Calling
<1>5. MutexHeld' /\ NotDialled'
    BY <1>1, <1>2, <1>3 DEF ClientTypeOK, MutexHeld, NotDialled, Unlocked, Dialling, Early
<1>6. HandlesOfCached'
    BY <1>1, <1>2, Zenon DEF ClientTypeOK, HandlesOfCached, Past
<1>7. OpenIsKnown'
    <2>1. CASE holder = c
        <3>1. pc[c] \notin Past
            BY <1>1, <2>1, Zenon DEF MutexHeld, Dialling, Past
        <3>2. cached' # c /\ c \notin receivers'
            BY <1>1, <1>2, <3>1, Zenon DEF HandlesOfCached
        <3>3. \A d \in Callers : mine'[d] # c
            BY <1>1, <1>2, <3>1 DEF ClientTypeOK, HandlesOfCached, MutexHeld
        <3>4. c \notin Open'
            BY <1>3, <3>2, <3>3, Zenon DEF Held
        <3> QED
            BY <1>1, <1>2, <1>3, <2>1, <3>4, Zenon DEF OpenIsKnown, Unlocked
    <2>2. CASE holder # c
        BY <1>1, <1>2, <1>3, <2>2, Zenon DEF OpenIsKnown, Unlocked
    <2> QED
        BY <2>1, <2>2, Zenon
<1> QED
    BY <1>4, <1>5, <1>6, <1>7, Zenon DEF ClientInv

\* A connection that is cached was dialled by the holder of the mutex.
LEMMA CacheKeeps ==
    ASSUME ClientInv, NEW c \in Callers, pc[c] \in Dialling, Cache(c)
    PROVE  ClientInv'
<1> USE SQuicClientAssumption DEF Conns
<1>1. ClientTypeOK /\ MutexHeld /\ NotDialled /\ HandlesOfCached /\ OpenIsKnown
    BY Zenon DEF ClientInv
<1>2. /\ pc' = [pc EXCEPT ![c] = "opening"] /\ mine' = mine
      /\ holder' = None /\ cached' = c
      /\ receivers' \subseteq receivers \cup {c}
      /\ UNCHANGED <<usable, stopped, dropped, protocol, jls>>
    BY <1>1, Zenon DEF Cache, Goto, Unlocked, Receiver, MutexHeld
<1>3. /\ net' \in [Conns -> NetStates]
      /\ \A n \in Conns : net[n] = "none" => net'[n] = "none"
      /\ Open' \subseteq Open
    BY <1>1, Collected, Zenon DEF ClientTypeOK, Cache
<1>4. holder = c
    BY <1>1, Zenon DEF MutexHeld
<1>5. ClientTypeOK'
    BY <1>1, <1>2, <1>3, Zenon DEF ClientTypeOK, Calling
<1>6. MutexHeld' /\ NotDialled'
    BY <1>1, <1>2, <1>3, <1>4 DEF ClientTypeOK, MutexHeld, NotDialled, Dialling, Early
<1>7. HandlesOfCached'
    BY <1>1, <1>2 DEF ClientTypeOK, HandlesOfCached, Past
<1>8. OpenIsKnown'
    BY <1>1, <1>2, <1>3, <1>4, Zenon DEF OpenIsKnown
<1> QED
    BY <1>5, <1>6, <1>7, <1>8, Zenon DEF ClientInv

\* Every step of the client keeps the invariant.
LEMMA ClientInvClient == ClientInv /\ ClientNext => ClientInv'
<1> SUFFICES ASSUME ClientInv, ClientNext PROVE ClientInv'
    BY Zenon
<1> USE SQuicClientAssumption DEF Conns
<1>1. ClientTypeOK /\ MutexHeld /\ NotDialled /\ HandlesOfCached /\ OpenIsKnown
    BY Zenon DEF ClientInv
<1>2. ASSUME NEW c \in Callers, NEW label \in Calling \cup {"answered", "streaming", "draining"},
             Goto(c, label),
             UNCHANGED <<linkVars, usable, holder, cached, receivers, stopped, dropped>>,
             mine' = mine,
             pc[c] \in Past <=> label \in Past, pc[c] \in Dialling <=> label \in Dialling,
             label \in Early => pc[c] \in Early
      PROVE  ClientInv'
    <2>1. pc' = [pc EXCEPT ![c] = label] /\ net' = net
        BY <1>2, Zenon DEF Goto, linkVars
    <2>2. ClientTypeOK'
        BY <1>1, <1>2, <2>1, Zenon DEF ClientTypeOK, linkVars
    <2>3. MutexHeld' /\ NotDialled' /\ HandlesOfCached'
        BY <1>1, <1>2, <2>1 DEF ClientTypeOK, MutexHeld, NotDialled, HandlesOfCached
    <2>4. OpenIsKnown'
        BY <1>1, <1>2, <2>1, Zenon DEF OpenIsKnown, Open
    <2> QED
        BY <2>2, <2>3, <2>4, Zenon DEF ClientInv
<1>3. ASSUME NEW c \in Callers, Call(c) \/ CongestionKind(c) PROVE ClientInv'
    BY <1>2, <1>3, Zenon DEF Call, CongestionKind, Calling, Past, Dialling, Early
<1>4. ASSUME NEW c \in Callers, UseCached(c) PROVE ClientInv'
    <2>1. /\ pc[c] = "waiting" /\ pc' = [pc EXCEPT ![c] = "opening"]
          /\ mine' = [mine EXCEPT ![c] = cached] /\ net' = net
          /\ cached \in Conns /\ pc[cached] \in Past
        BY <1>1, <1>4, Zenon DEF UseCached, Goto, Open, HandlesOfCached, linkVars
    <2>2. ClientTypeOK'
        BY <1>1, <1>4, <2>1, Zenon DEF ClientTypeOK, UseCached, linkVars, Calling
    <2>3. MutexHeld' /\ NotDialled' /\ HandlesOfCached'
        BY <1>1, <1>4, <2>1 DEF ClientTypeOK, MutexHeld, NotDialled, HandlesOfCached, UseCached,
                                Past, Dialling, Early
    <2>4. OpenIsKnown'
        BY <1>1, <1>4, <2>1, Zenon DEF OpenIsKnown, Open, UseCached
    <2> QED
        BY <2>2, <2>3, <2>4, Zenon DEF ClientInv
<1>5. ASSUME NEW c \in Callers, StartDial(c) PROVE ClientInv'
    <2>1. /\ pc[c] = "waiting" /\ pc' = [pc EXCEPT ![c] = "dialling"]
          /\ mine' = [mine EXCEPT ![c] = c] /\ net' = [net EXCEPT ![c] = "initial"]
          /\ holder = None /\ holder' = c /\ cached \notin Open /\ cached # c
        BY <1>1, <1>5, Zenon DEF StartDial, Goto, HandlesOfCached, Past
    <2>2. ClientTypeOK'
        BY <1>1, <1>5, <2>1 DEF ClientTypeOK, StartDial, Calling, NetStates
    <2>3. MutexHeld' /\ NotDialled' /\ HandlesOfCached'
        BY <1>1, <1>5, <2>1 DEF ClientTypeOK, MutexHeld, NotDialled, HandlesOfCached, StartDial,
                                Past, Dialling, Early
    <2>4. Open = {} /\ Open' \subseteq {c}
        BY <1>1, <2>1 DEF Open, OpenIsKnown, ClientTypeOK
    <2>5. OpenIsKnown'
        BY <1>1, <1>5, <2>1, <2>4, Zenon DEF OpenIsKnown, StartDial
    <2> QED
        BY <2>2, <2>3, <2>5, Zenon DEF ClientInv
<1>6. ASSUME NEW c \in Callers,
             \/ ConnectRefused(c) \/ DialFails(c) \/ CredentialFails(c) \/ OpenFails(c)
             \/ Cancel(c) \/ DropStream(c) \/ ControlEnds(c)
      PROVE  ClientInv'
    BY <1>6, ClientFinishKeeps, Zenon
    DEF ConnectRefused, DialFails, CredentialFails, OpenFails, Cancel, DropStream,
        ControlEnds, Calling
<1>7. ASSUME NEW c \in Callers, Dialled(c) PROVE ClientInv'
    <2>1. CASE Cache(c)
        BY <1>7, <2>1, CacheKeeps, Zenon DEF Dialled, Dialling
    <2>2. CASE /\ Goto(c, "authenticating")
               /\ UNCHANGED <<linkVars, usable, holder, cached, mine, receivers, stopped, dropped>>
        BY <1>2, <1>7, <2>2, Zenon DEF Dialled, Calling, Past, Dialling, Early
    <2> QED
        BY <1>7, <2>1, <2>2, Zenon DEF Dialled
<1>8. ASSUME NEW c \in Callers, CredentialSent(c) PROVE ClientInv'
    BY <1>8, CacheKeeps, Zenon DEF CredentialSent, Dialling
<1>9. ASSUME NEW c \in Callers, OpenStream(c) \/ DropAssociation(c) PROVE ClientInv'
    BY <1>2, <1>9, Zenon DEF OpenStream, DropAssociation, Calling, Past, Dialling, Early
<1>10. ASSUME NEW n \in Conns, ReceiverEnds(n) PROVE ClientInv'
    BY <1>1, <1>10, Zenon DEF ClientInv, ClientTypeOK, MutexHeld, NotDialled, HandlesOfCached, OpenIsKnown,
                       Open, ReceiverEnds, linkVars
<1>11. CASE CloseClient
    <2>1. net' \in [Conns -> NetStates] /\ Open' = {} /\ \A n \in Conns : net[n] = "none" => net'[n] = "none"
        BY <1>1, <1>11, Zenon DEF ClientTypeOK, CloseClient, Open, NetStates
    <2>2. ClientTypeOK' /\ MutexHeld' /\ NotDialled' /\ HandlesOfCached'
        BY <1>1, <1>11, <2>1, Zenon DEF ClientTypeOK, MutexHeld, NotDialled, HandlesOfCached, CloseClient
    <2>3. OpenIsKnown'
        BY <2>1, Zenon DEF OpenIsKnown
    <2> QED
        BY <2>2, <2>3, Zenon DEF ClientInv
<1>12. CASE DropClient
    <2>1. /\ net' \in [Conns -> NetStates] /\ Open' \subseteq Open
          /\ \A n \in Conns : net[n] = "none" => net'[n] = "none"
        BY <1>1, <1>12, Collected, Zenon DEF ClientTypeOK, DropClient
    <2>2. ClientTypeOK' /\ MutexHeld' /\ NotDialled' /\ HandlesOfCached'
        BY <1>1, <1>12, <2>1, Zenon DEF ClientTypeOK, MutexHeld, NotDialled, HandlesOfCached, DropClient
    <2>3. OpenIsKnown'
        BY <1>1, <1>12, <2>1, Zenon DEF OpenIsKnown, DropClient
    <2> QED
        BY <2>2, <2>3, Zenon DEF ClientInv
<1> QED
    BY <1>3, <1>4, <1>5, <1>6, <1>7, <1>8, <1>9, <1>10, <1>11, <1>12, Zenon DEF ClientNext, CallerStep


\* The tasks of streams, and accept, change only where they stand and the queue.
LEMMA StreamsApart ==
    ASSUME Accept \/ \E n \in Conns, s \in Streams : StreamStep(n, s)
    PROVE  UNCHANGED <<linkVars, configVars, task, seen, shutting, loop, accept>>
BY Zenon DEF Accept, StreamStep, AcceptBi, ReadOpcode, AuthComes, AuthWaitEnds, ReadRequest, Push,
             ReadFails

\* Steps of the server take a connection on its way or close it. A task of the
\* server has a connection.
LEMMA ClientInvServer ==
    ASSUME ClientInv, ServerNext, UNCHANGED clientVars,
           \A n \in Conns : net[n] \in {"none", "initial"} => task[n] = "none"
    PROVE  ClientInv'
<1>1. net \in [Conns -> NetStates] /\ jls \subseteq Conns
    BY Zenon DEF ClientInv, ClientTypeOK
<1>2. ASSUME UNCHANGED linkVars PROVE ClientInv'
    BY <1>1, <1>2, ClientInvKept, Zenon DEF linkVars
<1>3. ASSUME NEW n \in Conns, NEW x \in {"accepted", "up", "closed"},
             net[n] \notin {"none", "closed"} \/ (x = "closed" /\ net[n] # "none"),
             net' = [net EXCEPT ![n] = x], protocol' = protocol, jls' \subseteq Conns
      PROVE  ClientInv'
    BY <1>1, <1>3, ClientInvKept, Zenon DEF NetStates
<1>4. CASE CloseServer
    BY <1>1, <1>4, ClientInvKept, Zenon DEF CloseServer, Open, NetStates
<1>5. ASSUME NEW u \in Updates, (\E o \in Options : Begin(u, o)) \/ Built(u) \/ BuildFails(u) \/ Install(u)
      PROVE  ClientInv'
    BY <1>2, <1>5, Zenon DEF Begin, Built, BuildFails, Install
<1>6. ASSUME NEW n \in Conns, AcceptIncoming(n) \/ TurnedAway(n) PROVE ClientInv'
    BY <1>1, <1>3, <1>6, Zenon DEF AcceptIncoming, TurnedAway
<1>7. ASSUME NEW n \in Conns, StartHandshake(n) \/ HandshakeFails(n) \/ Serve(n) \/ ServingEnds(n)
      PROVE  ClientInv'
    BY <1>2, <1>7, Zenon DEF StartHandshake, HandshakeFails, Serve, ServingEnds
<1>8. ASSUME NEW n \in Conns, Handshake(n) PROVE ClientInv'
    <2>1. jls' \subseteq Conns
        BY <1>1, <1>8, Zenon DEF Handshake
    <2> QED
        BY <1>1, <1>3, <1>8, <2>1, Zenon DEF Handshake
<1>9. ASSUME NEW n \in Conns, Refuse(n) PROVE ClientInv'
    BY <1>1, <1>3, <1>9, Zenon DEF Refuse
<1>10. CASE LoopEnds \/ AcceptCloses
    BY <1>2, <1>10, Zenon DEF LoopEnds, AcceptCloses
<1>11. CASE Accept \/ \E n \in Conns, s \in Streams : StreamStep(n, s)
    BY <1>2, <1>11, StreamsApart, Zenon
<1> QED
    BY <1>4, <1>5, <1>6, <1>7, <1>8, <1>9, <1>10, <1>11, Zenon DEF ServerNext, TaskStep

-----------------------------------------------------------------------------
(***************************************************************************)
(* The updates. An update that runs alone has stored its setting and is    *)
(* the only one that may install a configuration; options of an update     *)
(* that has not begun are in nobody's hands.                               *)
(***************************************************************************)
UpdatesConsistent ==
    /\ ~Jls => congestion = 0
    /\ Jls /\ clean => \/ Running = {} /\ congestion = tls
                       \/ \E u \in Updates : Running = {u} /\ congestion = u

IdleUnused ==
    \A u \in Updates : update[u] = "idle" =>
        /\ congestion # u /\ tls # u
        /\ \A n \in Conns : seen[n].congestion # u /\ seen[n].tls # u

(***************************************************************************)
(* The connections' tasks. What a task has read was in force since its     *)
(* connection was dialled, and a JLS-authenticated user was in the         *)
(* configuration that the handshake used.                                  *)
(***************************************************************************)
TasksHaveConnections == \A n \in Conns : net[n] \in {"none", "initial"} => task[n] = "none"

ReadIsCurrent ==
    \A n \in Conns :
        /\ task[n] \in {"accepted", "handshake", "connected"} =>
              seen[n].congestion \in current[n].congestion
        /\ task[n] \in {"handshake", "connected"} => seen[n].tls \in current[n].tls

UsersKnown ==
    \A n \in Conns :
        /\ task[n] \in {"none", "accepted", "handshake"} => n \notin jls
        /\ Jls /\ task[n] = "connected" /\ n \in jls => options[seen[n].tls] = "good"

ServerInv ==
    /\ ServerTypeOK /\ UpdatesConsistent /\ IdleUnused
    /\ TasksHaveConnections /\ ReadIsCurrent /\ UsersKnown

\* A server that has just been bound satisfies its invariant.
LEMMA ServerInvInit == Init => ServerInv
<1> SUFFICES ASSUME Init PROVE ServerInv
    BY Zenon
<1>1. LinkInit /\ \E s \in Scenes : ServerInit(s.updates, s.streams)
    BY Zenon DEF Init
<1>2. ServerTypeOK
    <2> PICK scene \in Scenes : ServerInit(scene.updates, scene.streams)
        BY <1>1, Zenon
    <2>1. options \in [Numbers -> Options] /\ congestion \in Numbers /\ tls \in Numbers
        BY Zenon DEF ServerInit, Numbers, Options
    <2>2. update \in [Updates -> {"idle", "begun", "built", "done", "failed"}]
        BY Zenon DEF ServerInit
    <2>3. seen \in [Conns -> [congestion : Numbers, tls : Numbers]]
        BY Zenon DEF ServerInit, Unread, Numbers
    <2>4. stream \in [Conns -> [Streams -> {"none", "opcode", "auth", "request", "push",
                                            "control", "done"}]]
        BY Zenon DEF ServerInit
    <2>5. queue \in 0..AcceptCap
        BY SQuicServerAssumption DEF ServerInit
    <2> QED
        BY <2>1, <2>2, <2>3, <2>4, <2>5, Zenon DEF ServerInit, ServerTypeOK
<1>3. UpdatesConsistent
    BY <1>1, Zenon DEF ServerInit, UpdatesConsistent, Running
<1>4. IdleUnused
    BY <1>1, SQuicServerAssumption DEF ServerInit, IdleUnused, Unread
<1>5. TasksHaveConnections /\ ReadIsCurrent /\ UsersKnown
    BY <1>1, Zenon DEF LinkInit, ServerInit, TasksHaveConnections, ReadIsCurrent, UsersKnown
<1> QED
    BY <1>2, <1>3, <1>4, <1>5, Zenon DEF ServerInv

\* A connection that stays pending only gains options.
LEMMA TrackGrows ==
    ASSUME current' = [n \in Conns |-> Track(n)], NEW n \in Conns, Pending(n)'
    PROVE  /\ current[n].congestion \subseteq current'[n].congestion
           /\ current[n].tls \subseteq current'[n].tls
           /\ congestion' \in current'[n].congestion /\ tls' \in current'[n].tls
BY Zenon DEF Track

\* Steps that leave the tasks alone, and a connection at most dialled or closed.
LEMMA ReadKept ==
    ASSUME ReadIsCurrent, current' = [n \in Conns |-> Track(n)], UNCHANGED <<task, seen>>
    PROVE  ReadIsCurrent'
<1> SUFFICES ASSUME NEW n \in Conns
             PROVE  /\ task[n] \in {"accepted", "handshake", "connected"} =>
                          seen[n].congestion \in current'[n].congestion
                    /\ task[n] \in {"handshake", "connected"} => seen[n].tls \in current'[n].tls
    BY Zenon DEF ReadIsCurrent
<1>1. task[n] \in {"accepted", "handshake", "connected"} => Pending(n)'
    BY Zenon DEF Pending
<1> QED
    BY <1>1, TrackGrows, Zenon DEF ReadIsCurrent

\* What the invariant says of the server, when only connections change: by
\* dialling, by a loss, or by a step of the client.
LEMMA ServerInvKept ==
    ASSUME ServerInv, UNCHANGED <<protocol, jls, serverVars>>,
           current' = [n \in Conns |-> Track(n)],
           \A n \in Conns : net'[n] \in {"none", "initial"} => net[n] \in {"none", "initial"}
    PROVE  ServerInv'
<1>1. ServerTypeOK /\ UpdatesConsistent /\ IdleUnused /\ TasksHaveConnections /\ ReadIsCurrent /\ UsersKnown
    BY Zenon DEF ServerInv
<1> USE DEF serverVars, configVars, servingVars, queueVars
<1>2. ServerTypeOK'
    BY <1>1, Zenon DEF ServerTypeOK
<1>3. UpdatesConsistent' /\ IdleUnused'
    BY <1>1, Zenon DEF UpdatesConsistent, IdleUnused, Running, Jls
<1>4. TasksHaveConnections' /\ UsersKnown'
    BY <1>1, Zenon DEF TasksHaveConnections, UsersKnown, Jls
<1>5. ReadIsCurrent'
    BY <1>1, ReadKept, Zenon
<1> QED
    BY <1>2, <1>3, <1>4, <1>5, Zenon DEF ServerInv

\* The client dials connections that were not, and closes others.
LEMMA ClientDialsOrCloses ==
    ASSUME ClientInv, ClientNext
    PROVE  /\ UNCHANGED <<protocol, jls>>
           /\ \A n \in Conns : net'[n] \in {"none", "initial"} => net[n] \in {"none", "initial"}
<1> USE DEF Conns
<1>1. net \in [Conns -> NetStates] /\ NotDialled
    BY Zenon DEF ClientInv, ClientTypeOK
<1>2. ASSUME Collect(net)
      PROVE  \A n \in Conns : net'[n] \in {"none", "initial"} => net[n] \in {"none", "initial"}
    BY <1>1, <1>2, Collected, Zenon
<1>3. ASSUME NEW c \in Callers, NEW o, Finish(c, o) \/ Cache(c)
      PROVE  /\ UNCHANGED <<protocol, jls>>
             /\ \A n \in Conns : net'[n] \in {"none", "initial"} => net[n] \in {"none", "initial"}
    BY <1>2, <1>3, Zenon DEF Finish, Cache
<1>4. ASSUME NEW c \in Callers, StartDial(c)
      PROVE  /\ UNCHANGED <<protocol, jls>>
             /\ \A n \in Conns : net'[n] \in {"none", "initial"} => net[n] \in {"none", "initial"}
    BY <1>1, <1>4, Zenon DEF StartDial, NotDialled, Early
<1>5. CASE CloseClient
    BY <1>1, <1>5, Zenon DEF CloseClient
<1>6. CASE DropClient
    BY <1>2, <1>6, Zenon DEF DropClient
<1>7. ASSUME NEW c \in Callers,
             \/ Call(c) \/ CongestionKind(c) \/ UseCached(c) \/ OpenStream(c)
             \/ DropAssociation(c) \/ ReceiverEnds(c)
      PROVE  UNCHANGED linkVars
    BY <1>7, Zenon DEF Call, CongestionKind, UseCached, OpenStream, DropAssociation, ReceiverEnds
<1>8. ASSUME NEW c \in Callers, Dialled(c) \/ CredentialSent(c)
      PROVE  UNCHANGED linkVars \/ Cache(c)
    BY <1>8, Zenon DEF Dialled, CredentialSent
<1>9. ASSUME NEW c \in Callers,
             \/ ConnectRefused(c) \/ DialFails(c) \/ CredentialFails(c) \/ OpenFails(c)
             \/ Cancel(c) \/ DropStream(c) \/ ControlEnds(c)
      PROVE  \E o : Finish(c, o)
    BY <1>9, Zenon DEF ConnectRefused, DialFails, CredentialFails, OpenFails, Cancel, DropStream,
                ControlEnds
<1> QED
    BY <1>3, <1>4, <1>5, <1>6, <1>7, <1>8, <1>9, Zenon DEF ClientNext, CallerStep, linkVars

-----------------------------------------------------------------------------
\* Steps of update calls.
LEMMA ServerInvUpdates ==
    ASSUME ServerInv, current' = [n \in Conns |-> Track(n)], NEW u \in Updates,
           (\E o \in Options : Begin(u, o)) \/ Built(u) \/ BuildFails(u) \/ Install(u)
    PROVE  ServerInv'
<1>1. ServerTypeOK /\ UpdatesConsistent /\ IdleUnused /\ TasksHaveConnections /\ ReadIsCurrent /\ UsersKnown
    BY Zenon DEF ServerInv
<1>2. UNCHANGED <<linkVars, servingVars>>
    BY Zenon DEF Begin, Built, BuildFails, Install
<1>3. TasksHaveConnections' /\ ReadIsCurrent'
    BY <1>1, <1>2, ReadKept, Zenon DEF TasksHaveConnections, linkVars, servingVars
<1>4. u \in Numbers /\ 0 \in Numbers /\ u # 0
    BY SQuicServerAssumption, Zenon DEF Numbers
<1>5. CASE \E o \in Options : Begin(u, o)
    <2> PICK o \in Options : Begin(u, o)
        BY <1>5, Zenon
    <2>1. /\ update[u] = "idle" /\ update' = [update EXCEPT ![u] = "begun"]
          /\ options' = [options EXCEPT ![u] = o] /\ tls' = tls
          /\ congestion' = IF Jls THEN u ELSE congestion
          /\ clean' = (Running = {})
        BY Zenon DEF Begin, Store
    <2>2. ServerTypeOK'
        BY <1>1, <1>2, <1>4, <2>1, Zenon DEF ServerTypeOK, servingVars, queueVars
    <2>3. UpdatesConsistent'
        <3>1. Running' = Running \cup {u} /\ Jls' = Jls
            BY <1>1, <1>2, <2>1, Zenon DEF Running, ServerTypeOK, Jls, linkVars
        <3> QED
            BY <1>1, <2>1, <3>1, Zenon DEF UpdatesConsistent
    <2>4. IdleUnused'
        BY <1>1, <1>2, <2>1, Zenon DEF IdleUnused, ServerTypeOK, servingVars
    <2>5. UsersKnown'
        BY <1>1, <1>2, <2>1, Zenon DEF UsersKnown, IdleUnused, ServerTypeOK, servingVars, linkVars, Jls
    <2> QED
        BY <1>3, <2>2, <2>3, <2>4, <2>5, Zenon DEF ServerInv
<1>6. CASE Built(u) \/ BuildFails(u) \/ Install(u)
    <2>1. options' = options
        BY <1>6, Zenon DEF Built, BuildFails, Install
    <2>2. ServerTypeOK'
        BY <1>1, <1>2, <1>4, <1>6, <2>1, Zenon DEF ServerTypeOK, servingVars, queueVars, Built, BuildFails, Install, Store
    <2>3. UpdatesConsistent'
        <3>1. Jls' = Jls
            BY <1>2, Zenon DEF Jls, linkVars
        <3>2. CASE Built(u)
            <4>1. Running' = Running /\ tls' = tls /\ clean' = clean
                BY <1>1, <3>2, Zenon DEF Running, Built, ServerTypeOK
            <4> QED
                BY <1>1, <3>1, <3>2, <4>1 DEF UpdatesConsistent, Built, Store
        <3>3. CASE BuildFails(u)
            BY <1>1, <3>1, <3>3, Zenon DEF UpdatesConsistent, BuildFails
        <3>4. CASE Install(u)
            <4>1. u \in Running /\ Running' = Running \ {u}
                BY <1>1, <3>4, Zenon DEF Running, Install, ServerTypeOK
            <4>2. congestion' = congestion /\ tls' = u /\ clean' = clean
                BY <3>4, Zenon DEF Install
            <4> QED
                BY <1>1, <3>1, <4>1, <4>2, Zenon DEF UpdatesConsistent
        <3> QED
            BY <1>6, <3>2, <3>3, <3>4, Zenon
    <2>4. IdleUnused'
        BY <1>1, <1>2, <1>4, <1>6 DEF IdleUnused, UpdatesConsistent, ServerTypeOK, servingVars,
                                      Built, BuildFails, Install, Store
    <2>5. UsersKnown'
        BY <1>1, <1>2, <2>1, Zenon DEF UsersKnown, servingVars, linkVars, Jls
    <2> QED
        BY <1>3, <2>2, <2>3, <2>4, <2>5, Zenon DEF ServerInv
<1> QED
    BY <1>5, <1>6, Zenon

\* Steps of the accept loop, of the tasks of connections and streams, and of
\* accept and close.
LEMMA ServerInvTasks ==
    ASSUME ServerInv, net \in [Conns -> NetStates], current' = [n \in Conns |-> Track(n)],
           \/ \E n \in Conns : AcceptIncoming(n) \/ TaskStep(n) \/ TurnedAway(n)
           \/ \E n \in Conns, s \in Streams : StreamStep(n, s)
           \/ CloseServer \/ LoopEnds \/ Accept \/ AcceptCloses
    PROVE  ServerInv'
<1>1. ServerTypeOK /\ UpdatesConsistent /\ IdleUnused /\ TasksHaveConnections /\ ReadIsCurrent /\ UsersKnown
    BY Zenon DEF ServerInv
<1>2. UNCHANGED <<protocol, configVars>>
    BY StreamsApart, Zenon DEF AcceptIncoming, TaskStep, TurnedAway, CloseServer, LoopEnds, AcceptCloses, StartHandshake,
           Handshake, HandshakeFails, Refuse, Serve, ServingEnds, linkVars, serverVars
<1>3. UpdatesConsistent' /\ Jls' = Jls
    BY <1>1, <1>2, Zenon DEF UpdatesConsistent, Running, configVars, Jls
<1>4. \* a step that changes the task of n only
      ASSUME NEW n \in Conns,
             NEW label \in {"accepted", "handshake", "connected", "serving", "ended"},
             NEW read \in [congestion : Numbers, tls : Numbers],
             task' = [task EXCEPT ![n] = label], seen' = [seen EXCEPT ![n] = read],
             UNCHANGED <<shutting, loop, queueVars>>,
             read.congestion \in {0, congestion, seen[n].congestion},
             read.tls \in {0, tls, seen[n].tls},
             net'[n] \notin {"none", "initial"},
             \A m \in Conns \ {n} : net'[m] = net[m] /\ (m \in jls' <=> m \in jls),
             label \in {"accepted", "handshake"} => n \notin jls',
             Jls /\ label = "connected" /\ n \in jls' => options[read.tls] = "good",
             label \in {"accepted", "handshake", "connected"} =>
                 \/ read.congestion = congestion
                 \/ read.congestion = seen[n].congestion /\ task[n] \in {"accepted", "handshake", "connected"},
             label \in {"handshake", "connected"} =>
                 \/ read.tls = tls
                 \/ read.tls = seen[n].tls /\ task[n] \in {"handshake", "connected"}
      PROVE  ServerInv'
    <2>1. ServerTypeOK'
        BY <1>1, <1>2, <1>4, Zenon DEF ServerTypeOK, configVars, queueVars
    <2>2. IdleUnused'
        BY <1>1, <1>2, <1>4, SQuicServerAssumption DEF IdleUnused, ServerTypeOK, configVars
    <2>3. TasksHaveConnections'
        BY <1>1, <1>4, Zenon DEF TasksHaveConnections, ServerTypeOK
    <2>4. UsersKnown'
        BY <1>1, <1>2, <1>3, <1>4 DEF UsersKnown, ServerTypeOK, configVars
    <2>5. ReadIsCurrent'
        <3> SUFFICES ASSUME NEW m \in Conns
                     PROVE  /\ task'[m] \in {"accepted", "handshake", "connected"} =>
                                  seen'[m].congestion \in current'[m].congestion
                            /\ task'[m] \in {"handshake", "connected"} => seen'[m].tls \in current'[m].tls
            BY Zenon DEF ReadIsCurrent
        <3>1. congestion' = congestion /\ tls' = tls
            BY <1>2, Zenon DEF configVars
        <3>2. task'[m] \in {"accepted", "handshake", "connected"} =>
                 /\ current[m].congestion \subseteq current'[m].congestion
                 /\ current[m].tls \subseteq current'[m].tls
                 /\ congestion \in current'[m].congestion /\ tls \in current'[m].tls
            BY <3>1, TrackGrows, Zenon DEF Pending
        <3>3. CASE m = n
            BY <1>1, <1>4, <3>2, <3>3 DEF ReadIsCurrent, ServerTypeOK
        <3>4. CASE m # n
            BY <1>1, <1>4, <3>2, <3>4, Zenon DEF ReadIsCurrent, ServerTypeOK
        <3> QED
            BY <3>3, <3>4, Zenon
    <2> QED
        BY <1>3, <2>1, <2>2, <2>3, <2>4, <2>5, Zenon DEF ServerInv
<1>5. ASSUME NEW n \in Conns
      PROVE  /\ seen[n] \in [congestion : Numbers, tls : Numbers]
             /\ congestion \in Numbers /\ tls \in Numbers
             /\ Unread \in [congestion : Numbers, tls : Numbers]
             /\ task[n] # "none" => net[n] \notin {"none", "initial"}
    BY <1>1, Zenon DEF ServerTypeOK, Unread, Numbers, TasksHaveConnections
<1>6. ASSUME NEW n \in Conns, AcceptIncoming(n) PROVE ServerInv'
    <2> DEFINE read == [congestion |-> congestion, tls |-> seen[n].tls]
    <2>1. read \in [congestion : Numbers, tls : Numbers] /\ seen' = [seen EXCEPT ![n] = read]
        <3>1. read = [seen[n] EXCEPT !.congestion = congestion]
            BY <1>5
        <3>2. seen' = [seen EXCEPT ![n] = [seen[n] EXCEPT !.congestion = congestion]]
            BY <1>6, Zenon DEF AcceptIncoming
        <3> QED
            BY <1>5, <3>1, <3>2, Zenon
    <2>2. task[n] = "none" /\ n \notin jls /\ jls' = jls
        BY <1>1, <1>6, Zenon DEF TasksHaveConnections, UsersKnown, AcceptIncoming
    <2>3. net'[n] = "accepted" /\ \A m \in Conns \ {n} : net'[m] = net[m]
        BY <1>6, Zenon DEF AcceptIncoming
    <2>4. task' = [task EXCEPT ![n] = "accepted"] /\ UNCHANGED <<shutting, loop, queueVars>>
        BY <1>6, Zenon DEF AcceptIncoming
    <2> QED
        BY <1>4, <2>1, <2>2, <2>3, <2>4, Zenon
<1>7. ASSUME NEW n \in Conns, StartHandshake(n) PROVE ServerInv'
    <2> DEFINE read == [congestion |-> seen[n].congestion, tls |-> tls]
    <2>1. read \in [congestion : Numbers, tls : Numbers] /\ seen' = [seen EXCEPT ![n] = read]
        <3>1. read = [seen[n] EXCEPT !.tls = tls]
            BY <1>5
        <3>2. seen' = [seen EXCEPT ![n] = [seen[n] EXCEPT !.tls = tls]]
            BY <1>7, Zenon DEF StartHandshake
        <3> QED
            BY <1>5, <3>1, <3>2, Zenon
    <2>2. task[n] = "accepted" /\ n \notin jls /\ jls' = jls /\ net' = net
        BY <1>1, <1>7, Zenon DEF UsersKnown, StartHandshake, linkVars
    <2>3. task' = [task EXCEPT ![n] = "handshake"] /\ UNCHANGED <<shutting, loop, queueVars>>
        BY <1>7, Zenon DEF StartHandshake
    <2> QED
        BY <1>4, <1>5, <2>1, <2>2, <2>3, Zenon
<1>8. ASSUME NEW n \in Conns, Handshake(n) PROVE ServerInv'
    <2>1. /\ task[n] = "handshake" /\ task' = [task EXCEPT ![n] = "connected"]
          /\ seen' = [seen EXCEPT ![n] = seen[n]]
          /\ net'[n] = "up" /\ \A m \in Conns \ {n} : net'[m] = net[m]
          /\ UNCHANGED <<shutting, loop, queueVars>>
        BY <1>1, <1>8, Zenon DEF Handshake, ServerTypeOK
    <2>2. /\ \A m \in Conns \ {n} : m \in jls' <=> m \in jls
          /\ n \in jls' => options[seen[n].tls] = "good"
        BY <1>1, <1>8, Zenon DEF Handshake, UsersKnown, UserKnown
    <2> QED
        BY <1>4, <1>5, <2>1, <2>2, Zenon
<1>9. ASSUME NEW n \in Conns, HandshakeFails(n) \/ Refuse(n) \/ Serve(n) PROVE ServerInv'
    <2>1. \E label \in {"serving", "ended"} : task' = [task EXCEPT ![n] = label]
        BY <1>9, Zenon DEF HandshakeFails, Refuse, Serve, Leave
    <2>2. /\ seen' = [seen EXCEPT ![n] = Unread] /\ jls' = jls /\ task[n] # "none"
          /\ net' = net \/ net' = [net EXCEPT ![n] = "closed"]
          /\ UNCHANGED <<shutting, loop, queueVars>>
        BY <1>9, Zenon DEF HandshakeFails, Refuse, Serve, Leave, linkVars
    <2>3. net'[n] \notin {"none", "initial"} /\ \A m \in Conns \ {n} : net'[m] = net[m]
        BY <1>5, <2>2, Zenon
    <2>4. Unread.congestion = 0 /\ Unread.tls = 0
        BY Zenon DEF Unread
    <2> QED
        BY <1>4, <1>5, <2>1, <2>2, <2>3, <2>4, Zenon
<1>10. ASSUME NEW n \in Conns, ServingEnds(n) PROVE ServerInv'
    <2>1. /\ task' = [task EXCEPT ![n] = "ended"] /\ seen' = [seen EXCEPT ![n] = seen[n]]
          /\ task[n] # "none" /\ UNCHANGED <<net, jls, shutting, loop, queueVars>>
        BY <1>1, <1>10, Zenon DEF ServingEnds, ServerTypeOK, linkVars
    <2> QED
        BY <1>4, <1>5, <2>1, Zenon
<1>11. ASSUME UNCHANGED <<jls, task, seen>>, ServerTypeOK',
              \A n \in Conns : net'[n] \in {"none", "initial"} => net[n] \in {"none", "initial"}
       PROVE  ServerInv'
    <2>1. IdleUnused' /\ TasksHaveConnections' /\ UsersKnown'
        BY <1>1, <1>2, <1>3, <1>11, Zenon DEF IdleUnused, TasksHaveConnections, UsersKnown, configVars
    <2>2. ReadIsCurrent'
        BY <1>1, <1>11, ReadKept, Zenon
    <2> QED
        BY <1>3, <1>11, <2>1, <2>2, Zenon DEF ServerInv
<1>12. ASSUME NEW n \in Conns, TurnedAway(n) PROVE ServerInv'
    <2>1. UNCHANGED <<jls, servingVars>> /\ net' = [net EXCEPT ![n] = "closed"]
        BY <1>12, Zenon DEF TurnedAway, serverVars
    <2>2. ServerTypeOK'
        BY <1>1, <1>2, <2>1, Zenon DEF ServerTypeOK, configVars, servingVars, queueVars
    <2> QED
        BY <1>11, <2>1, <2>2, Zenon DEF servingVars
<1>13. CASE CloseServer \/ LoopEnds \/ AcceptCloses
    <2>1. UNCHANGED <<jls, task, seen>>
        BY <1>13, Zenon DEF CloseServer, LoopEnds, AcceptCloses, linkVars
    <2>2. \A n \in Conns : net'[n] \in {"none", "initial"} => net[n] \in {"none", "initial"}
        BY <1>13, Zenon DEF CloseServer, LoopEnds, AcceptCloses, linkVars
    <2>3. ServerTypeOK'
        BY <1>1, <1>2, <1>13, Zenon DEF ServerTypeOK, CloseServer, LoopEnds, AcceptCloses, configVars, queueVars
    <2> QED
        BY <1>11, <2>1, <2>2, <2>3, Zenon
<1>14. CASE Accept \/ \E n \in Conns, s \in Streams : StreamStep(n, s)
    <2> DEFINE Labels == {"none", "opcode", "auth", "request", "push", "control", "done"}
    <2>1. UNCHANGED <<linkVars, configVars, task, seen, shutting, loop, accept>>
        BY <1>14, StreamsApart, Zenon
    <2>2. stream' \in [Conns -> [Streams -> Labels]]
        <3>1. stream \in [Conns -> [Streams -> Labels]]
            BY <1>1, Zenon DEF ServerTypeOK
        <3>2. ASSUME NEW n \in Conns, NEW s \in Streams, NEW label \in Labels, StreamGoto(n, s, label)
              PROVE  stream' \in [Conns -> [Streams -> Labels]]
            BY <3>1, <3>2, Zenon DEF StreamGoto
        <3>3. "opcode" \in Labels /\ "auth" \in Labels /\ "request" \in Labels /\ "push" \in Labels
              /\ "control" \in Labels /\ "done" \in Labels
            BY Zenon
        <3>4. \A n \in Conns, s \in Streams : StreamStep(n, s) =>
                 \E label \in Labels : StreamGoto(n, s, label)
            BY <3>3, Zenon DEF StreamStep, AcceptBi, ReadOpcode, AuthComes, AuthWaitEnds, ReadRequest,
                               Push, ReadFails
        <3> QED
            BY <1>14, <3>1, <3>2, <3>4, Zenon DEF Accept
    <2>3. queue' \in 0..AcceptCap
        <3>1. queue' \in {queue} \/ (queue' = queue + 1 /\ queue < AcceptCap) \/ (queue' = queue - 1 /\ queue > 0)
            BY <1>14, Zenon DEF Accept, StreamStep, AcceptBi, ReadOpcode, AuthComes, AuthWaitEnds,
                                ReadRequest, Push, ReadFails
        <3> QED
            BY <1>1, <3>1, SQuicServerAssumption DEF ServerTypeOK
    <2>4. ServerTypeOK'
        BY <1>1, <2>1, <2>2, <2>3, Zenon DEF ServerTypeOK, configVars
    <2> QED
        BY <1>11, <2>1, <2>4, Zenon DEF linkVars
<1> QED
    BY <1>6, <1>7, <1>8, <1>9, <1>10, <1>12, <1>13, <1>14, Zenon DEF TaskStep

-----------------------------------------------------------------------------
EndpointsInv == ClientInv /\ ServerInv

\* Every step of either end keeps both invariants.
LEMMA EndpointsInvNext == EndpointsInv /\ [Next]_vars => EndpointsInv'
<1> SUFFICES ASSUME ClientInv, ServerInv, [Next]_vars PROVE ClientInv' /\ ServerInv'
    BY Zenon DEF EndpointsInv
<1>1. net \in [Conns -> NetStates] /\ jls \subseteq Conns /\ TasksHaveConnections
    BY Zenon DEF ClientInv, ClientTypeOK, ServerInv
<1>2. CASE Client(ClientNext)
    BY <1>2, ClientInvClient, ClientDialsOrCloses, ServerInvKept, Zenon DEF Client
<1>3. CASE Server(ServerNext)
    <2>1. ServerNext /\ UNCHANGED clientVars /\ current' = [n \in Conns |-> Track(n)]
        BY <1>3, Zenon DEF Server
    <2>2. ClientInv'
        BY <1>1, <2>1, ClientInvServer, Zenon DEF TasksHaveConnections
    <2>3. ServerInv'
        BY <1>1, <2>1, ServerInvUpdates, ServerInvTasks, Zenon DEF ServerNext
    <2> QED
        BY <2>2, <2>3, Zenon
<1>4. ASSUME NEW n \in Conns, Client(Lost(n) /\ UNCHANGED clientVars)
      PROVE  ClientInv' /\ ServerInv'
    <2>1. /\ n \in Open /\ net' = [net EXCEPT ![n] = "closed"]
          /\ UNCHANGED <<protocol, jls, clientVars, serverVars>>
          /\ current' = [m \in Conns |-> Track(m)]
        BY <1>4, Zenon DEF Client, Lost
    <2>2. ClientInv'
        BY <1>1, <2>1, ClientInvKept, Zenon DEF Open, NetStates
    <2>3. ServerInv'
        BY <1>1, <2>1, ServerInvKept, Zenon
    <2> QED
        BY <2>2, <2>3, Zenon
<1>5. CASE UNCHANGED vars
    <2>1. ClientInv'
        BY <1>1, <1>5, ClientInvKept, Zenon DEF vars, linkVars
    <2>2. ServerInv'
        BY <1>5, Zenon DEF ServerInv, ServerTypeOK, UpdatesConsistent, IdleUnused, TasksHaveConnections,
            ReadIsCurrent, UsersKnown, Running, Jls, vars, linkVars, serverVars, configVars, servingVars,
            queueVars
    <2> QED
        BY <2>1, <2>2, Zenon
<1> QED
    BY <1>2, <1>3, <1>4, <1>5, Zenon DEF Next

\* A ShadowQUIC or SunnyQUIC client never has two live connections, however its
\* callers race, fail or are cancelled.
THEOREM ClientHasOneConnection == Spec => []OneConnection
<1>1. Init => EndpointsInv
    BY ClientInvInit, ServerInvInit, Zenon DEF EndpointsInv
<1>2. EndpointsInv => OneConnection
    BY SQuicClientAssumption, Zenon DEF EndpointsInv, ClientInv, OpenIsKnown, OneConnection, Open, Conns
<1> QED
    BY <1>1, <1>2, EndpointsInvNext, PTL DEF Spec

\* An update that succeeds on its own leaves a congestion setting and a TLS
\* configuration of the same options, whatever updates failed or overlapped before.
THEOREM UpdatesHeal == Spec => []UpdateHeals
<1>1. Init => EndpointsInv
    BY ClientInvInit, ServerInvInit, Zenon DEF EndpointsInv
<1>2. EndpointsInv => UpdateHeals
    BY Zenon DEF EndpointsInv, ServerInv, UpdatesConsistent, UpdateHeals
<1> QED
    BY <1>1, <1>2, EndpointsInvNext, PTL DEF Spec

\* A connection is served under options that were in force at some time since it
\* was dialled, and by ShadowQUIC only for a user those options have.
THEOREM ServedIsCurrent == Spec => ServedUnderCurrentOptions
<1> DEFINE Step == \A n \in Conns : task[n] # "serving" /\ task'[n] = "serving" =>
              /\ \E u \in current[n].congestion : u = seen[n].congestion /\ options[u] = "good"
              /\ \E u \in current[n].tls : u = seen[n].tls /\ (Jls => options[u] = "good")
<1>1. Init => EndpointsInv
    BY ClientInvInit, ServerInvInit, Zenon DEF EndpointsInv
<1>2. EndpointsInv /\ [Next]_vars => [Step]_vars
    <2> SUFFICES ASSUME EndpointsInv, Next,
                        NEW n \in Conns, task[n] # "serving", task'[n] = "serving"
                 PROVE  /\ \E u \in current[n].congestion : u = seen[n].congestion /\ options[u] = "good"
                        /\ \E u \in current[n].tls : u = seen[n].tls /\ (Jls => options[u] = "good")
        BY Zenon
    <2>1. ServerTypeOK /\ ReadIsCurrent /\ UsersKnown
        BY Zenon DEF EndpointsInv, ServerInv
    <2>2. ServerNext
        BY Zenon DEF Next, Client, Server, serverVars, servingVars
    <2>3. Serve(n)
        <3>1. task \in [Conns -> {"none", "accepted", "handshake", "connected", "serving", "ended"}]
            BY <2>1, Zenon DEF ServerTypeOK
        <3>2. task' # task
            BY Zenon
        <3>3. PICK m \in Conns : AcceptIncoming(m) \/ TaskStep(m)
            BY <2>2, <3>2, StreamsApart, Zenon DEF ServerNext, Begin, Built, BuildFails, Install, TurnedAway, CloseServer,
                              LoopEnds, AcceptCloses, serverVars, servingVars
        <3>4. ~AcceptIncoming(m)
            BY <3>1, Zenon DEF AcceptIncoming
        <3>5. Serve(m)
            BY <3>1, <3>3, <3>4, Zenon DEF TaskStep, StartHandshake, Handshake, HandshakeFails, Refuse,
                                    ServingEnds, Leave
        <3>6. m = n
            BY <3>1, <3>5, Zenon DEF Serve, Leave
        <3> QED
            BY <3>5, <3>6, Zenon
    <2>4. task[n] = "connected" /\ options[seen[n].congestion] # "bad" /\ (Jls => n \in jls)
        BY <2>3, Zenon DEF Serve, Refused
    <2>5. seen[n].congestion \in current[n].congestion /\ seen[n].tls \in current[n].tls
        BY <2>1, <2>4, Zenon DEF ReadIsCurrent
    <2>6. options[seen[n].congestion] = "good"
        BY <2>1, <2>4, Zenon DEF ServerTypeOK, Options
    <2>7. Jls => options[seen[n].tls] = "good"
        BY <2>1, <2>4, Zenon DEF UsersKnown
    <2> QED
        BY <2>5, <2>6, <2>7, Zenon
<1> QED
    BY <1>1, <1>2, EndpointsInvNext, PTL DEF Spec, ServedUnderCurrentOptions

-----------------------------------------------------------------------------
(***************************************************************************)
(* The windows.                                                            *)
(***************************************************************************)

\* Integer division rounds down.
LEMMA DivRounds ==
    ASSUME NEW x \in Nat, NEW n \in Nat \ {0}
    PROVE  /\ x \div n \in Nat
           /\ (x \div n) * n <= x
           /\ x < (x \div n) * n + n
OBVIOUS

\* A saturating product is the product, or the largest number there is.
LEMMA Saturates ==
    ASSUME NEW a \in Nat, NEW b \in Nat, NEW max \in Nat
    PROVE  /\ SaturatingMul(a, b, max) \in 0..max
           /\ SaturatingMul(a, b, max) = a * b \/ (SaturatingMul(a, b, max) = max /\ a * b >= max)
<1>1. a * b \in Nat
    OBVIOUS
<1> QED
    BY <1>1 DEF SaturatingMul, MinOf

\* Products are monotonic.
LEMMA Monotonic ==
    ASSUME NEW a \in Nat, NEW b \in Nat, NEW n \in Nat, a <= b
    PROVE  a * n <= b * n
OBVIOUS

\* What fits into the quotient of a number fits into the number.
LEMMA QuotientAtLeast ==
    ASSUME NEW x \in Nat, NEW n \in Nat \ {0}, NEW q \in Nat, q * n <= x
    PROVE  q <= x \div n
<1> DEFINE d == x \div n
<1>1. d \in Nat /\ x < d * n + n
    BY DivRounds, Zenon
<1> SUFFICES ASSUME d + 1 <= q PROVE FALSE
    BY <1>1
<1>2. (d + 1) * n <= q * n
    BY <1>1, Monotonic
<1>3. (d + 1) * n = d * n + n
    BY <1>1
<1> QED
    BY <1>1, <1>2, <1>3

\* What adaptive_window returns: two bandwidth-delay products, to within the
\* rounding of one division, or the largest window, or the minimum.
LEMMA AdaptiveWindowFits ==
    ASSUME NEW bps \in Nat, NEW rtt \in Nat, NEW minimum \in 0..Max64
    PROVE  LET W == AdaptiveWindow(bps, rtt, minimum) IN
           /\ W \in minimum..Max64
           /\ W = Max64 \/ (W + 2) * Nanos > 2 * (bps * rtt)
           /\ W = minimum \/ W * Nanos <= 2 * (bps * rtt)
<1> DEFINE W == AdaptiveWindow(bps, rtt, minimum)
           x == bps * rtt
           p == SaturatingMul(bps, rtt, Max128)
           q == p \div Nanos
           t == MinOf(SaturatingMul(q, 2, Max128), Max64)
<1> USE TuningAssumption
<1>1. x \in Nat /\ W = MaxOf(t, minimum)
    BY DEF AdaptiveWindow
<1>2. p \in Nat /\ (p = x \/ (p = Max128 /\ x >= Max128))
    BY Saturates
<1>3. q \in Nat /\ q * Nanos <= p /\ p < q * Nanos + Nanos
    BY <1>2, DivRounds, Zenon
<1>4. Max64 <= Max128 /\ Max64 * Nanos <= Max128
    <2>1. (Max64 + 1) * 1 <= (Max64 + 1) * Nanos
        BY Z3
    <2>2. Max64 * Nanos <= (Max64 + 1) * Nanos
        BY Monotonic
    <2> QED
        BY <2>1, <2>2
<1>5. t \in 0..Max64 /\ (t = 2 * q \/ (t = Max64 /\ Max64 <= 2 * q)) /\ t <= 2 * q
    <2>1. /\ SaturatingMul(q, 2, Max128) \in 0..Max128
          /\ \/ SaturatingMul(q, 2, Max128) = q * 2
             \/ SaturatingMul(q, 2, Max128) = Max128 /\ q * 2 >= Max128
        BY <1>3, Saturates, Zenon
    <2> QED
        BY <1>3, <1>4, <2>1 DEF MinOf
<1>6. t = Max64 \/ (t + 2) * Nanos > 2 * x
    <2>1. CASE p = x
        <3>1. (2 * q + 2) * Nanos = 2 * (q * Nanos) + 2 * Nanos
            BY <1>3
        <3> QED
            BY <1>1, <1>3, <1>5, <2>1, <3>1
    <2>2. CASE p = Max128
        <3>1. Max64 + 1 <= q
            <4>1. Max64 + 1 \in Nat /\ p \in Nat /\ (Max64 + 1) * Nanos <= p
                BY <2>2
            <4> HIDE DEF p
            <4> QED
                BY <4>1, QuotientAtLeast, Zenon
        <3> QED
            BY <1>3, <1>5, <3>1
    <2> QED
        BY <1>2, <2>1, <2>2, Zenon
<1>7. t * Nanos <= 2 * x
    <2>1. t * Nanos <= (2 * q) * Nanos
        BY <1>3, <1>5, Monotonic
    <2>2. (2 * q) * Nanos = 2 * (q * Nanos)
        BY <1>3
    <2> QED
        BY <1>1, <1>2, <1>3, <1>5, <2>1, <2>2
<1>8. CASE W = t /\ minimum <= t
    BY <1>1, <1>5, <1>6, <1>7, <1>8
<1>9. CASE W = minimum /\ t <= minimum
    <2>1. (t + 2) * Nanos <= (minimum + 2) * Nanos
        BY <1>5, <1>9, Monotonic
    <2>2. (t + 2) * Nanos \in Nat /\ (minimum + 2) * Nanos \in Nat
        BY <1>5
    <2> QED
        BY <1>1, <1>5, <1>6, <1>9, <2>1, <2>2
<1> QED
    BY <1>1, <1>5, <1>8, <1>9 DEF MaxOf

\* The statistics a connection can report.
Samples == [rtt : Nat, cwnd : Nat, mtu : Nat]

\* update_connection_windows sets windows that fit, whatever it reads.
LEMMA WindowsOfSample ==
    ASSUME sample \in Samples, window = Windows(sample)
    PROVE  WindowsFit
<1> DEFINE x == SendRate * sample.rtt
           A == AdaptiveWindow(SendRate, sample.rtt, MinimumSend)
           B == AdaptiveWindow(0, sample.rtt, MinimumReceive)
           C == SaturatingMul(sample.cwnd, 2, Max64)
           T == SaturatingMul(sample.mtu, 10, Max64)
<1> USE TuningAssumption
<1>1. sample.rtt \in Nat /\ sample.cwnd \in Nat /\ sample.mtu \in Nat
    BY Zenon DEF Samples
<1>2. /\ A \in MinimumSend..Max64
      /\ A = Max64 \/ (A + 2) * Nanos > 2 * x
      /\ A = MinimumSend \/ A * Nanos <= 2 * x
    <2>1. SendRate \in Nat /\ MinimumSend \in 0..Max64
        OBVIOUS
    <2> HIDE TuningAssumption
    <2> QED
        BY <1>1, <2>1, AdaptiveWindowFits, Zenon
<1>3. B \in MinimumReceive..Max64
    BY <1>1, AdaptiveWindowFits, Zenon
<1>4. /\ C \in 0..Max64 /\ (C = sample.cwnd * 2 \/ (C = Max64 /\ sample.cwnd * 2 >= Max64))
      /\ T \in 0..Max64 /\ (T = sample.mtu * 10 \/ (T = Max64 /\ sample.mtu * 10 >= Max64))
    BY <1>1, Saturates, Zenon
<1>5. /\ window.send = MaxOf(MaxOf(A, C), T)
      /\ window.receive = MinOf(MaxOf(B, T), MaxVarInt)
    BY Zenon DEF Windows
<1>6. 2 * SendRate * sample.rtt = 2 * x /\ x \in Nat
    BY <1>1
<1> HIDE DEF x, A, B, C, T
<1>7. /\ window.send \in {A, C, T}
      /\ window.send >= A /\ window.send >= C /\ window.send >= T
      /\ window.send \in MinimumSend..Max64
    BY <1>2, <1>4, <1>5 DEF MaxOf
<1>8. /\ window.receive \in 0..MaxVarInt
      /\ window.receive = MaxVarInt \/ (window.receive >= B /\ window.receive >= T)
    BY <1>3, <1>4, <1>5 DEF MaxOf, MinOf
<1>9. \/ window.send = Max64
      \/ /\ (window.send + 2) * Nanos > 2 * x
         /\ window.send >= 2 * sample.cwnd
         /\ window.send >= 10 * sample.mtu
    <2>1. (A + 2) * Nanos <= (window.send + 2) * Nanos
        BY <1>2, <1>7, Monotonic
    <2>2. (A + 2) * Nanos \in Nat /\ (window.send + 2) * Nanos \in Nat
        BY <1>2, <1>7
    <2> QED
        BY <1>1, <1>2, <1>4, <1>6, <1>7, <2>1, <2>2
<1>10. \/ window.send * Nanos <= 2 * x
       \/ window.send \in {MinimumSend, 2 * sample.cwnd, 10 * sample.mtu}
       \/ window.send = Max64 /\ 2 * sample.cwnd >= Max64
       \/ window.send = Max64 /\ 10 * sample.mtu >= Max64
    BY <1>1, <1>2, <1>4, <1>7
<1>11. window.receive = MaxVarInt \/ window.receive >= MaxOf(MinimumReceive, MinOf(10 * sample.mtu, Max64))
    BY <1>1, <1>3, <1>4, <1>8 DEF MaxOf, MinOf
<1> QED
    BY <1>6, <1>7, <1>8, <1>9, <1>10, <1>11 DEF WindowsFit

-----------------------------------------------------------------------------
(***************************************************************************)
(* The inductive invariant. SwitchHolds speaks of the current path only; a *)
(* path is returned to and an object is reached through old handles, so    *)
(* every object must be sound. That a switch takes effect needs what a     *)
(* handle refers to: unless a controller came into use since it was taken, *)
(* to the controller of the current path.                                  *)
(***************************************************************************)
Types ==
    /\ path \in [object : Objects, mtu : Nat]
    /\ fallback \subseteq [object : Objects, mtu : Nat]
    /\ made \in Nat
    /\ state \in [Objects -> [runs : Nat, with : Nat, kind : Nat, current_mtu : Nat]]
    /\ switch \in [Switchers -> {"idle", "holding", "done"}]
    /\ rate \in [Switchers -> Nat]
    /\ hold \in [Switchers -> Objects]

ObjectsSound ==
    \A o \in Objects : state[o].runs = state[o].kind /\ state[o].with = state[o].current_mtu

HandlesCurrent ==
    \A s \in Switchers : switch[s] = "holding" /\ s \notin late => hold[s] = path.object

ChosenInForce == moved = FALSE => state[path.object].kind = chosen

WindowsCurrent == sample \in Samples /\ window = Windows(sample)

TuningInv == Types /\ ObjectsSound /\ HandlesCurrent /\ ChosenInForce /\ WindowsCurrent

\* A new connection satisfies the invariant.
LEMMA TuningInvInit == TuningInit => TuningInv
<1> SUFFICES ASSUME TuningInit PROVE TuningInv
    BY Zenon
<1> USE TuningAssumption
<1>1. 1 \in Objects
    BY DEF Objects
<1>2. Types
    BY <1>1, Zenon DEF TuningInit, Types, Build
<1>3. ObjectsSound /\ HandlesCurrent /\ ChosenInForce
    BY <1>1, Zenon DEF TuningInit, ObjectsSound, HandlesCurrent, ChosenInForce, Build
<1>4. WindowsCurrent
    BY DEF TuningInit, WindowsCurrent, Samples
<1> QED
    BY <1>2, <1>3, <1>4, Zenon DEF TuningInv

\* Steps that leave the controllers alone keep what the invariant says of them.
LEMMA ControlKept ==
    ASSUME TuningInv, UNCHANGED controlVars
    PROVE  Types' /\ ObjectsSound' /\ HandlesCurrent' /\ ChosenInForce'
BY Zenon DEF TuningInv, controlVars, pathVars, switchVars, historyVars,
       Types, ObjectsSound, HandlesCurrent, ChosenInForce

\* Steps that leave the windows alone keep what the invariant says of them.
LEMMA WindowsKept ==
    ASSUME TuningInv, UNCHANGED windowVars
    PROVE  WindowsCurrent'
BY Zenon DEF TuningInv, windowVars, WindowsCurrent, Windows

\* A switch, a new MTU, a new path and a return to the old one keep the
\* controllers sound and the handles accounted for.
LEMMA TuningInvNext == TuningInv /\ [TuningNext]_tuningVars => TuningInv'
<1> SUFFICES ASSUME TuningInv, [TuningNext]_tuningVars PROVE TuningInv'
    BY Zenon
<1> USE TuningAssumption
<1>1. Types /\ ObjectsSound /\ HandlesCurrent /\ ChosenInForce /\ WindowsCurrent
    BY Zenon DEF TuningInv
<1>2. path.object \in Objects /\ path.mtu \in Nat
    BY <1>1, Zenon DEF Types
<1>3. ASSUME NEW s \in Switchers, NEW r \in Rates, TakeHandle(s, r)
      PROVE  TuningInv'
    <2>1. WindowsCurrent'
        BY <1>3, WindowsKept, Zenon DEF TakeHandle
    <2>2. Types'
        BY <1>1, <1>2, <1>3, Zenon DEF Types, TakeHandle, pathVars
    <2>3. ObjectsSound' /\ ChosenInForce'
        BY <1>1, <1>3, Zenon DEF ObjectsSound, ChosenInForce, TakeHandle, pathVars, historyVars
    <2>4. HandlesCurrent'
        BY <1>1, <1>3, Zenon DEF Types, HandlesCurrent, TakeHandle, pathVars, historyVars
    <2> QED
        BY <2>1, <2>2, <2>3, <2>4, Zenon DEF TuningInv
<1>4. ASSUME NEW s \in Switchers, RefuseSwitch(s)
      PROVE  TuningInv'
    <2>1. WindowsCurrent'
        BY <1>4, WindowsKept, Zenon DEF RefuseSwitch
    <2>2. Types'
        BY <1>1, <1>4, Zenon DEF Types, RefuseSwitch, pathVars
    <2>3. ObjectsSound' /\ ChosenInForce'
        BY <1>1, <1>4, Zenon DEF ObjectsSound, ChosenInForce, RefuseSwitch, pathVars, historyVars
    <2>4. HandlesCurrent'
        BY <1>1, <1>4, Zenon DEF Types, HandlesCurrent, RefuseSwitch, pathVars, historyVars
    <2> QED
        BY <2>1, <2>2, <2>3, <2>4, Zenon DEF TuningInv
<1>5. ASSUME NEW s \in Switchers, ApplySwitch(s)
      PROVE  TuningInv'
    <2>1. WindowsCurrent'
        BY <1>5, WindowsKept, Zenon DEF ApplySwitch
    <2>2. hold[s] \in Objects /\ rate[s] \in Nat /\ 1 \in Objects
        BY <1>1 DEF Types, Objects
    <2>3. /\ state' = [state EXCEPT ![hold[s]] = [runs |-> rate[s], with |-> state[hold[s]].current_mtu,
                                                  kind |-> rate[s], current_mtu |-> state[hold[s]].current_mtu]]
          /\ UNCHANGED <<path, fallback, made>>
        BY <1>1, <1>5, <2>2, Zenon DEF Types, ApplySwitch, SetController, pathVars
    <2>4. Types'
        BY <1>1, <1>5, <2>2, <2>3, Zenon DEF Types, ApplySwitch
    <2>5. ObjectsSound'
        BY <1>1, <2>2, <2>3, Zenon DEF Types, ObjectsSound
    <2>6. ChosenInForce'
        BY <1>1, <1>2, <1>5, <2>2, <2>3, Zenon DEF Types, ChosenInForce, HandlesCurrent, ApplySwitch
    <2>7. HandlesCurrent'
        BY <1>1, <1>5, <2>3, Zenon DEF Types, HandlesCurrent, ApplySwitch
    <2> QED
        BY <2>1, <2>4, <2>5, <2>6, <2>7, Zenon DEF TuningInv
<1>6. ASSUME NEW m \in Mtus, MtuChanges(m)
      PROVE  TuningInv'
    <2>1. WindowsCurrent'
        BY <1>6, WindowsKept, Zenon DEF MtuChanges
    <2>2. /\ state' = [state EXCEPT ![path.object] = [runs |-> state[path.object].runs, with |-> m,
                                                      kind |-> state[path.object].kind, current_mtu |-> m]]
          /\ path' = [object |-> path.object, mtu |-> m]
        BY <1>1, <1>2, <1>6, Zenon DEF Types, MtuChanges, OnMtuUpdate
    <2>3. Types'
        BY <1>1, <1>2, <1>6, <2>2 DEF Types, MtuChanges, switchVars
    <2>4. ObjectsSound' /\ ChosenInForce'
        BY <1>1, <1>2, <1>6, <2>2 DEF Types, ObjectsSound, ChosenInForce, MtuChanges, historyVars
    <2>5. HandlesCurrent'
        BY <1>1, <1>6, <2>2, Zenon DEF HandlesCurrent, MtuChanges, switchVars, historyVars
    <2> QED
        BY <2>1, <2>3, <2>4, <2>5, Zenon DEF TuningInv
<1>7. ASSUME NewPath PROVE TuningInv'
    <2>1. WindowsCurrent'
        BY <1>7, WindowsKept, Zenon DEF NewPath
    <2>2. made + 1 \in Objects /\ made' = made + 1
        BY <1>1, <1>7 DEF Types, NewPath, Objects
    <2>3. Build \in [runs : Nat, with : Nat, kind : Nat, current_mtu : Nat]
        BY Zenon DEF Build
    <2>4. Types'
        BY <1>1, <1>2, <1>7, <2>2, <2>3 DEF Types, NewPath, LeavePath, switchVars
    <2>5. ObjectsSound'
        BY <1>1, <1>7, <2>2, Zenon DEF Types, ObjectsSound, NewPath, Build
    <2>6. ChosenInForce' /\ HandlesCurrent'
        BY <1>7, Zenon DEF ChosenInForce, HandlesCurrent, NewPath, Moved, switchVars
    <2> QED
        BY <2>1, <2>4, <2>5, <2>6, Zenon DEF TuningInv
<1>8. ASSUME Rebind PROVE TuningInv'
    <2>1. WindowsCurrent'
        BY <1>8, WindowsKept, Zenon DEF Rebind
    <2>2. path' = path /\ state' = state /\ made' \in Nat
        <3>1. path \in [object : Objects, mtu : Nat] /\ made \in Nat
            BY <1>1, Zenon DEF Types
        <3>2. path' = path
            BY <1>8, <3>1, Zenon DEF Rebind, CloneBox
        <3>3. path.object \in Nat
            BY <1>2, <3>1 DEF Objects
        <3>4. made' \in Nat
            BY <1>8, <3>1, <3>2, <3>3, Zenon DEF Rebind
        <3>5. state' = state
            BY <1>1, <1>8, <3>1, <3>2, Zenon DEF Types, Rebind
        <3> QED
            BY <3>2, <3>4, <3>5, Zenon
    <2>3. Types'
        BY <1>1, <1>2, <1>8, <2>2 DEF Types, Rebind, LeavePath, switchVars
    <2>4. ObjectsSound' /\ ChosenInForce' /\ HandlesCurrent'
        BY <1>1, <1>8, <2>2, Zenon DEF ObjectsSound, ChosenInForce, HandlesCurrent, Rebind, switchVars, historyVars
    <2> QED
        BY <2>1, <2>3, <2>4, Zenon DEF TuningInv
<1>9. ASSUME PathValidated PROVE TuningInv'
    <2>1. WindowsCurrent'
        BY <1>9, WindowsKept, Zenon DEF PathValidated
    <2>2. Types' /\ ObjectsSound' /\ ChosenInForce' /\ HandlesCurrent'
        BY <1>1, <1>9, Zenon DEF Types, ObjectsSound, ChosenInForce, HandlesCurrent, PathValidated,
                          switchVars, historyVars
    <2> QED
        BY <2>1, <2>2, Zenon DEF TuningInv
<1>10. ASSUME ReturnToPath PROVE TuningInv'
    <2>1. WindowsCurrent'
        BY <1>10, WindowsKept, Zenon DEF ReturnToPath
    <2>2. Types' /\ ObjectsSound'
        BY <1>1, <1>10, Zenon DEF Types, ObjectsSound, ReturnToPath, switchVars
    <2>3. ChosenInForce' /\ HandlesCurrent'
        <3>1. CASE path'.object = path.object
            BY <1>1, <1>10, <3>1, Zenon DEF ChosenInForce, HandlesCurrent, ReturnToPath, switchVars
        <3>2. CASE path'.object # path.object
            BY <1>10, <3>2, Zenon DEF ChosenInForce, HandlesCurrent, ReturnToPath, Moved, switchVars
        <3> QED
            BY <3>1, <3>2, Zenon
    <2> QED
        BY <2>1, <2>2, <2>3, Zenon DEF TuningInv
<1>11. ASSUME NEW rtt \in Rtts, NEW cwnd \in Cwnds, WindowTick(rtt, cwnd)
       PROVE  TuningInv'
    <2>1. Types' /\ ObjectsSound' /\ HandlesCurrent' /\ ChosenInForce'
        BY <1>11, ControlKept, Zenon DEF WindowTick
    <2>2. CASE link = "closed"
        <3>1. WindowsCurrent'
            BY <1>1, <1>11, <2>2, Zenon DEF WindowTick, WindowsCurrent, Windows
        <3> QED
            BY <2>1, <3>1, Zenon DEF TuningInv
    <2>3. CASE link # "closed"
        <3>1. sample' = [rtt |-> rtt, cwnd |-> cwnd, mtu |-> path.mtu] /\ window' = Windows(sample')
            BY <1>11, <2>3, Zenon DEF WindowTick
        <3>2. sample' \in Samples
            BY <1>2, <3>1, Zenon DEF Samples
        <3> QED
            BY <2>1, <3>1, <3>2, Zenon DEF TuningInv, WindowsCurrent, Windows
    <2> QED
        BY <2>2, <2>3, Zenon
<1>12. ASSUME UNCHANGED <<controlVars, sample, window>> PROVE TuningInv'
    <2>1. Types' /\ ObjectsSound' /\ HandlesCurrent' /\ ChosenInForce'
        BY <1>12, ControlKept, Zenon
    <2>2. WindowsCurrent'
        BY <1>1, <1>12, Zenon DEF WindowsCurrent, Windows
    <2> QED
        BY <2>1, <2>2, Zenon DEF TuningInv
<1>13. CASE PacketSent \/ MetricsTick \/ MetricsCheck \/ DropTasks \/ CloseConnection \/ UNCHANGED tuningVars
    BY <1>12, <1>13, Zenon DEF PacketSent, MetricsTick, MetricsCheck, DropTasks, CloseConnection, tuningVars, windowVars
<1> QED
    BY <1>3, <1>4, <1>5, <1>6, <1>7, <1>8, <1>9, <1>10, <1>11, <1>13, Zenon DEF TuningNext

\* On every connection, whatever switches, MTUs and paths it sees, a switch of
\* the congestion controller holds as SwitchHolds says.
THEOREM SwitchesHold == TuningSpec => []SwitchHolds
<1>1. TuningInv => SwitchHolds
    BY DEF TuningInv, Types, ObjectsSound, ChosenInForce, SwitchHolds
<1> QED
    BY <1>1, TuningInvInit, TuningInvNext, PTL DEF TuningSpec

\* For every rate, round-trip time, congestion window, MTU and integer width the
\* window task sets windows as WindowsFit says.
THEOREM WindowsAlwaysFit == TuningSpec => []WindowsFit
<1>1. TuningInv => WindowsFit
    BY WindowsOfSample, Zenon DEF TuningInv, WindowsCurrent
<1> QED
    BY <1>1, TuningInvInit, TuningInvNext, PTL DEF TuningSpec
=============================================================================
