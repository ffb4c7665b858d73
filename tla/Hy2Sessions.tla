---------------------------- MODULE Hy2Sessions ----------------------------
(***************************************************************************)
(* An authenticated connection of a Hysteria2 server: the select loop of   *)
(* `serve_connection`, its table of weak references to UDP sessions, a     *)
(* `handle_stream` task per stream, the bounded queue to `Server::accept`  *)
(* they all feed, and the application that accepts. How long it keeps a    *)
(* session is up to it here; module Hy2Inactivity has the timer.           *)
(*                                                                         *)
(* A message is the number of its datagram. What it does to the reassembly *)
(* of its session (module Defragger) is its effect: "packet" completes a   *)
(* packet, "part" does not, "oversized" completes one that is too large,   *)
(* and "garbled" does not even decode. A packet connection goes by the     *)
(* number of the message that created it; 0 stands for none.               *)
(***************************************************************************)
EXTENDS Naturals, Sequences

CONSTANTS
    Ids,                \* session ids
    Streams,            \* bidirectional streams of the client
    AcceptCap,          \* capacity of the accept queue, 256
    ChanCap,            \* capacity of a session's channel, 64
    MaxMessages         \* bound on the datagrams of a behaviour

ASSUME Hy2SessionsAssumption ==
    /\ AcceptCap \in Nat \ {0}
    /\ ChanCap \in Nat \ {0}
    /\ MaxMessages \in Nat

Effects == {"packet", "part", "oversized", "garbled"}
Messages == 1..MaxMessages

VARIABLES
    up,                 \* the connection is alive
    sent,               \* messages sent so far, [id, effect] (history)
    wire,               \* messages in flight
    loop,               \* the select loop: [at, message, session]
    udp_sessions,       \* id -> packet connection, a Weak, 0 for no entry
    queue,              \* the accept queue
    serving,            \* its receiver, the Server, has not been dropped
    held,               \* packet connections the application holds
    chan,               \* channel of each packet connection
    got,                \* what recv of each has returned (history)
    task,               \* progress of each handle_stream task
    answered,           \* streams told that they are connected (history)
    accepted            \* streams accept has returned (history)

netVars == <<up, sent, wire>>
loopVars == <<loop, udp_sessions>>
acceptVars == <<queue, serving>>
streamVars == <<task, answered, accepted>>
sessionVars == <<held, chan, got>>
vars == <<netVars, loopVars, acceptVars, streamVars, sessionVars>>

Idle == [at |-> "select", message |-> 0, session |-> 0]

Init ==
    /\ up = TRUE
    /\ sent = <<>>
    /\ wire = {}
    /\ loop = Idle
    /\ udp_sessions = [i \in Ids |-> 0]
    /\ queue = <<>>
    /\ serving = TRUE
    /\ held = {}
    /\ chan = [s \in Messages |-> <<>>]
    /\ got = [s \in Messages |-> <<>>]
    /\ task = [t \in Streams |-> "closed"]
    /\ answered = {}
    /\ accepted = {}

\* The application has an Arc of the packet connection, or will get it.
Readable(s) ==
    s \in held \/ \E i \in 1..Len(queue) : queue[i] = [kind |-> "packet", item |-> s]

\* It has not been freed: Weak::upgrade succeeds.
Strong(s) == Readable(s) \/ loop.session = s

-----------------------------------------------------------------------------
(***************************************************************************)
(* The client and the network.                                             *)
(***************************************************************************)
SendMessage(i, e) ==
    /\ up
    /\ Len(sent) < MaxMessages
    /\ sent' = Append(sent, [id |-> i, effect |-> e])
    /\ wire' = wire \cup {Len(sent) + 1}
    /\ UNCHANGED <<up, loopVars, acceptVars, streamVars, sessionVars>>

LoseMessage(n) ==
    /\ wire' = wire \ {n}
    /\ UNCHANGED <<up, sent, loopVars, acceptVars, streamVars, sessionVars>>

ConnectionLost ==
    /\ up
    /\ up' = FALSE
    /\ UNCHANGED <<sent, wire, loopVars, acceptVars, streamVars, sessionVars>>

-----------------------------------------------------------------------------
(***************************************************************************)
(* The select loop. When it returns, the HTTP/3 connection is dropped with *)
(* it, and that closes the QUIC connection.                                *)
(***************************************************************************)
Return ==
    /\ loop' = [Idle EXCEPT !.at = "ended"]
    /\ up' = FALSE

\* accept_bi, read_datagram or poll_control fails.
LoopFails ==
    /\ loop.at = "select"
    /\ Return
    /\ UNCHANGED <<sent, wire, udp_sessions, acceptVars, streamVars, sessionVars>>

\* Like datagrams, streams that came before the end can be taken after it.
AcceptBi(t) ==
    /\ loop.at = "select"
    /\ task[t] = "closed"
    /\ task' = [task EXCEPT ![t] = "reading"]
    /\ UNCHANGED <<netVars, loopVars, acceptVars, answered, accepted, sessionVars>>

\* read_datagram, decode_message and the lookup of the session. A session
\* that is gone, or was never there, gets a new packet connection.
Datagram(n) ==
    LET s == udp_sessions[sent[n].id]
    IN  /\ loop.at = "select"
        /\ wire' = wire \ {n}
        /\ \/ /\ sent[n].effect = "garbled"
              /\ Return
           \/ /\ sent[n].effect # "garbled"
              /\ loop' = IF s # 0 /\ Strong(s)
                         THEN [at |-> "input", message |-> n, session |-> s]
                         ELSE [at |-> "push", message |-> n, session |-> n]
              /\ UNCHANGED up
        /\ UNCHANGED <<sent, udp_sessions, acceptVars, streamVars, sessionVars>>

\* Slip: the new session is not entered in the table.
PushSessionForgets ==
    /\ loop.at = "push"
    /\ serving /\ Len(queue) < AcceptCap
    /\ queue' = Append(queue, [kind |-> "packet", item |-> loop.session])
    /\ loop' = [loop EXCEPT !.at = "input"]
    /\ UNCHANGED <<netVars, udp_sessions, serving, streamVars, sessionVars>>

\* sender.send(Accepted::Packet(..)).await, inside the loop: while the queue
\* is full nothing else on the connection is attended to.
PushSession ==
    /\ loop.at = "push"
    /\ serving /\ Len(queue) < AcceptCap
    /\ queue' = Append(queue, [kind |-> "packet", item |-> loop.session])
    /\ udp_sessions' = [udp_sessions EXCEPT ![sent[loop.message].id] = loop.session]
    /\ loop' = [loop EXCEPT !.at = "input"]
    /\ UNCHANGED <<netVars, serving, streamVars, sessionVars>>

\* The send fails: there is no Server left to accept.
PushFails ==
    /\ loop.at = "push"
    /\ ~serving
    /\ Return
    /\ UNCHANGED <<sent, wire, udp_sessions, acceptVars, streamVars, sessionVars>>

\* try_send, after which the loop lets go of its Arc: a packet connection that
\* nobody else has is freed, and its channel with it.
TrySend(s, n) ==
    CASE ~Readable(s) -> <<>>
      [] Readable(s) /\ Len(chan[s]) < ChanCap -> Append(chan[s], n)
      [] OTHER -> chan[s]

\* Slip: the message that opens a session is only used to open it.
InputNotFirst ==
    /\ loop.at = "input"
    /\ loop' = Idle
    /\ chan' = IF loop.message = loop.session THEN chan
               ELSE [chan EXCEPT ![loop.session] = TrySend(loop.session, loop.message)]
    /\ UNCHANGED <<netVars, udp_sessions, acceptVars, streamVars, held, got>>

\* Slip: send(..).await in place of try_send.
InputWaits ==
    /\ loop.at = "input"
    /\ Readable(loop.session) => Len(chan[loop.session]) < ChanCap
    /\ chan' = [chan EXCEPT ![loop.session] = TrySend(loop.session, loop.message)]
    /\ loop' = Idle
    /\ UNCHANGED <<netVars, udp_sessions, acceptVars, streamVars, held, got>>

\* packet_connection.input(message)
Input ==
    /\ loop.at = "input"
    /\ \/ /\ sent[loop.message].effect = "packet"
          /\ chan' = [chan EXCEPT ![loop.session] = TrySend(loop.session, loop.message)]
          /\ loop' = Idle
          /\ UNCHANGED up
       \/ /\ sent[loop.message].effect = "part"
          /\ loop' = Idle
          /\ UNCHANGED <<up, chan>>
       \/ /\ sent[loop.message].effect = "oversized"
          /\ Return
          /\ UNCHANGED chan
    /\ UNCHANGED <<sent, wire, udp_sessions, acceptVars, streamVars, held, got>>

-----------------------------------------------------------------------------
(***************************************************************************)
(* handle_stream: read the request, answer it, hand it to the application. *)
(***************************************************************************)
ReadRequest(t) ==
    /\ task[t] = "reading"
    /\ task' = [task EXCEPT ![t] = "answering"]
    /\ UNCHANGED <<netVars, loopVars, acceptVars, answered, accepted, sessionVars>>

Answer(t) ==
    /\ task[t] = "answering" /\ up
    /\ task' = [task EXCEPT ![t] = "pushing"]
    /\ answered' = answered \cup {t}
    /\ UNCHANGED <<netVars, loopVars, acceptVars, accepted, sessionVars>>

\* The request does not decode, the stream fails, or nobody is left to accept.
StreamFails(t) ==
    /\ task[t] \in {"reading", "answering"} \/ (task[t] = "pushing" /\ ~serving)
    /\ task' = [task EXCEPT ![t] = "done"]
    /\ UNCHANGED <<netVars, loopVars, acceptVars, answered, accepted, sessionVars>>

\* Slip: try_send, a full queue drops the stream.
PushStreamOrDrop(t) ==
    /\ task[t] = "pushing"
    /\ serving
    /\ queue' = IF Len(queue) < AcceptCap
                THEN Append(queue, [kind |-> "stream", item |-> t])
                ELSE queue
    /\ task' = [task EXCEPT ![t] = "done"]
    /\ UNCHANGED <<netVars, loopVars, serving, answered, accepted, sessionVars>>

PushStream(t) ==
    /\ task[t] = "pushing"
    /\ serving /\ Len(queue) < AcceptCap
    /\ queue' = Append(queue, [kind |-> "stream", item |-> t])
    /\ task' = [task EXCEPT ![t] = "done"]
    /\ UNCHANGED <<netVars, loopVars, serving, answered, accepted, sessionVars>>

-----------------------------------------------------------------------------
(***************************************************************************)
(* The application: Server::accept, recv of a packet connection, and the   *)
(* end of its interest in one.                                             *)
(***************************************************************************)
Accept ==
    /\ queue # <<>>
    /\ queue' = Tail(queue)
    /\ IF Head(queue).kind = "stream"
       THEN accepted' = accepted \cup {Head(queue).item} /\ UNCHANGED held
       ELSE held' = held \cup {Head(queue).item} /\ UNCHANGED accepted
    /\ UNCHANGED <<netVars, loopVars, serving, task, answered, chan, got>>

Recv(s) ==
    /\ chan[s] # <<>>
    /\ got' = [got EXCEPT ![s] = Append(@, Head(chan[s]))]
    /\ chan' = [chan EXCEPT ![s] = Tail(@)]
    /\ UNCHANGED <<netVars, loopVars, acceptVars, streamVars, held>>

\* The last Arc of the application goes.
Release(s) ==
    /\ held' = held \ {s}
    /\ chan' = [chan EXCEPT ![s] = <<>>]
    /\ UNCHANGED <<netVars, loopVars, acceptVars, streamVars, got>>

\* The Server is dropped, and with it what it has not accepted. Its
\* connections go on until they push something.
ServerDropped ==
    /\ serving
    /\ serving' = FALSE
    /\ queue' = <<>>
    /\ chan' = [s \in Messages |-> IF s \in held THEN chan[s] ELSE <<>>]
    /\ UNCHANGED <<netVars, loopVars, streamVars, held, got>>

-----------------------------------------------------------------------------
Next ==
    \/ \E i \in Ids, e \in Effects : SendMessage(i, e)
    \/ \E n \in wire : LoseMessage(n) \/ Datagram(n)
    \/ ConnectionLost \/ LoopFails
    \/ PushSession \/ PushFails \/ Input
    \/ \E t \in Streams : \/ AcceptBi(t) \/ ReadRequest(t) \/ Answer(t)
                          \/ StreamFails(t) \/ PushStream(t)
    \/ Accept \/ ServerDropped
    \/ \E s \in held : Recv(s) \/ Release(s)

(***************************************************************************)
(* The runtime polls what is ready, a sender's place in the queue is kept  *)
(* for it in turn, and the application keeps calling accept until it drops *)
(* the Server.                                                             *)
(* Nothing is assumed of the client, nor of what the application does with *)
(* a session.                                                              *)
(***************************************************************************)
Fairness ==
    /\ WF_vars(Accept) /\ WF_vars(Input)
    /\ SF_vars(PushSession) /\ WF_vars(PushFails)
    /\ WF_vars(~up /\ LoopFails)
    /\ \A t \in Streams : SF_vars(PushStream(t))

Spec == Init /\ [][Next]_vars /\ Fairness

-----------------------------------------------------------------------------
\* Types of the state of a connection.
TypeOK ==
    /\ up \in BOOLEAN
    /\ sent \in Seq([id : Ids, effect : Effects]) /\ Len(sent) <= MaxMessages
    /\ wire \subseteq 1..Len(sent)
    /\ loop \in [at : {"select", "push", "input", "ended"}, message : 0..Len(sent),
                 session : 0..Len(sent)]
    /\ udp_sessions \in [Ids -> 0..Len(sent)]
    /\ queue \in Seq([kind : {"packet"}, item : Messages] \cup
                     [kind : {"stream"}, item : Streams])
    /\ Len(queue) <= AcceptCap
    /\ serving \in BOOLEAN
    /\ held \subseteq 1..Len(sent)
    /\ chan \in [Messages -> Seq(Messages)] /\ got \in [Messages -> Seq(Messages)]
    /\ \A s \in Messages : Len(chan[s]) <= ChanCap
    /\ task \in [Streams -> {"closed", "reading", "answering", "pushing", "done"}]
    /\ answered \subseteq Streams /\ accepted \subseteq Streams

\* A session id has one packet connection at a time, although the table knows
\* it only weakly: while the accept queue, the application or the loop has
\* one, no message of the id makes another.
OneSession ==
    \A s1, s2 \in 1..Len(sent) :
        Strong(s1) /\ Strong(s2) /\ sent[s1].id = sent[s2].id => s1 = s2

\* The state is well formed, and ids and packet connections match.
WellFormed == TypeOK /\ OneSession

\* The packets of a session: the one that opened it comes first, although the
\* application may have the session before the packet is in its channel; all
\* are of its id, and none comes twice.
SessionBeginsWithItsPacket ==
    \A s \in 1..Len(sent) :
        LET packets == got[s] \o chan[s]
        IN  /\ packets # <<>> /\ sent[s].effect = "packet" => packets[1] = s
            /\ \A i \in 1..Len(packets) : /\ sent[packets[i]].id = sent[s].id
                                          /\ \A j \in 1..(i - 1) : packets[j] # packets[i]

\* A client that is told that its stream is connected is handed to the
\* application, even if the accept queue is full or the connection ends, as
\* long as there is a Server.
AnsweredIsHanded == \A t \in Streams : t \in answered ~> (t \in accepted \/ ~serving)

\* The loop always gets back to its connection: a full accept queue holds it
\* up only until the application accepts, and a session that is not read from
\* does not hold it up at all. After the connection it ends.
LoopGoesOn ==
    /\ (loop.at \in {"push", "input"}) ~> (loop.at \in {"select", "ended"})
    /\ ~up ~> (loop.at = "ended")

=============================================================================
