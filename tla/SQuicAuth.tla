------------------------------ MODULE SQuicAuth ------------------------------
(***************************************************************************)
(* The server's side of one ShadowQUIC (JLS) or SunnyQUIC connection:      *)
(* `serve_connection`, a `handle_bi_stream` task per bidirectional stream, *)
(* a task per datagram or unidirectional stream, and the watch channel     *)
(* through which a SunnyQUIC AUTHENTICATE request releases the others.     *)
(*                                                                         *)
(* The bytes of a stream are its request; a task that reads them may find  *)
(* them late, cut short or never, so reading steps are separate from what  *)
(* follows and are not fair.                                               *)
(***************************************************************************)
EXTENDS Naturals, Sequences, FiniteSets

CONSTANTS
    Streams,            \* bidirectional streams, datagrams and uni streams
    Users,              \* configured user names
    NoUser,             \* the empty user name
    AcceptCap           \* capacity of the accept queue, 256

ASSUME SQuicAuthAssumption ==
    /\ NoUser \notin Users
    /\ AcceptCap \in Nat \ {0}

\* A credential is the name of the user it belongs to; NoUser's is unknown.
Request ==
    [op : {"authenticate"}, credential : Users \cup {NoUser}]
        \cup [op : {"connect", "associate", "extension", "unknown", "udp"},
              credential : {NoUser}]

VARIABLES
    authentication,     \* ServerAuthentication of the server, "Jls" or "Sunny"
    jls,                \* user of the JLS handshake, NoUser if it failed
    auth,               \* watch channel: "none", "failed" or "ok"
    authUser,           \* the user in the watch channel when auth = "ok"
    task,               \* progress of each stream's task
    request,            \* what each stream asks for
    user,               \* the user each task goes on with
    queue,              \* the channel to Server::accept
    handed,             \* what accept has returned (history)
    served,             \* tasks that answered or routed something (history)
    presented,          \* users whose credential has been accepted (history)
    prompt,             \* streams opened after authentication (history)
    refused,            \* streams whose wait timed out (history)
    conn                \* "alive", "closed" by a task, or "ended" for the loop

squicAuthVars ==
    <<authentication, jls, auth, authUser, task, request, user, queue, handed, served,
      presented, prompt, refused, conn>>

kindVars == <<authentication, jls>>
streamVars == <<task, request, user>>
authVars == <<auth, authUser, presented>>
outVars == <<queue, handed, served>>
historyVars == <<prompt, refused>>

Sunny == authentication = "Sunny"

AuthInit ==
    /\ authentication \in {"Jls", "Sunny"}
    /\ jls \in IF Sunny THEN {NoUser} ELSE Users \cup {NoUser}
    /\ auth = "none"
    /\ authUser = NoUser
    /\ task = [s \in Streams |-> "closed"]
    /\ request \in [Streams -> {[op |-> "unknown", credential |-> NoUser]}]
    /\ user = [s \in Streams |-> NoUser]
    /\ queue = <<>>
    /\ handed = {}
    /\ served = {}
    /\ presented = {}
    /\ prompt = {}
    /\ refused = {}
    /\ conn = "alive"

Goto(s, label) == task' = [task EXCEPT ![s] = label]

-----------------------------------------------------------------------------
\* A JLS connection that did not authenticate is closed before anything is
\* accepted on it.
RejectHandshake ==
    /\ conn = "alive"
    /\ ~Sunny /\ jls = NoUser
    /\ conn' = "ended"
    /\ UNCHANGED <<kindVars, streamVars, authVars, outVars, historyVars>>

\* The select loop takes a stream or datagram and spawns its task. Datagrams
\* and unidirectional streams go straight to wait_for_sunny_auth. What had come
\* before the connection was closed can be taken until the loop sees the end.
Spawn(s, r) ==
    /\ conn # "ended"
    /\ Sunny \/ jls # NoUser
    /\ task[s] = "closed"
    /\ Goto(s, IF r.op = "udp" THEN "borrow" ELSE "opcode")
    /\ request' = [request EXCEPT ![s] = r]
    /\ user' = [user EXCEPT ![s] = jls]
    /\ prompt' = IF auth = "ok" THEN prompt \cup {s} ELSE prompt
    /\ UNCHANGED <<kindVars, authVars, outVars, refused, conn>>

ReadOpcode(s) ==
    /\ task[s] = "opcode"
    /\ Goto(s, CASE request[s].op = "authenticate" /\ Sunny -> "credential"
                 [] request[s].op = "authenticate" /\ ~Sunny -> "done"
                 [] request[s].op = "unknown" -> "done"
                 [] OTHER -> "borrow")
    /\ UNCHANGED <<kindVars, request, user, authVars, outVars, historyVars, conn>>

\* users.get(&credential) and auth_sender.send(..)
Authenticate(s) ==
    /\ task[s] = "credential"
    /\ IF request[s].credential \in Users
       THEN /\ auth' = "ok"
            /\ authUser' = request[s].credential
            /\ presented' = presented \cup {request[s].credential}
            /\ Goto(s, "done")
       ELSE /\ auth' = "failed"
            /\ authUser' = NoUser
            /\ Goto(s, "reject")
            /\ UNCHANGED presented
    /\ UNCHANGED <<kindVars, request, user, outVars, historyVars, conn>>

\* Slip: the connection is left open.
RejectWithoutClose(s) ==
    /\ task[s] = "reject"
    /\ Goto(s, "done")
    /\ UNCHANGED <<kindVars, request, user, authVars, outVars, historyVars, conn>>

\* connection.close(SUNNY_AUTH_ERROR_CODE) after the watchers were told
Reject(s) ==
    /\ task[s] = "reject"
    /\ conn' = IF conn = "alive" THEN "closed" ELSE conn
    /\ Goto(s, "done")
    /\ UNCHANGED <<kindVars, request, user, authVars, outVars, historyVars>>

\* Slip: any value in the watch channel lets the task pass.
BorrowAnyValue(s) ==
    /\ task[s] = "borrow"
    /\ \/ /\ ~Sunny
          /\ Goto(s, "request")
          /\ UNCHANGED user
       \/ /\ Sunny /\ auth # "none"
          /\ Goto(s, "request")
          /\ user' = [user EXCEPT ![s] = authUser]
       \/ /\ Sunny /\ auth = "none"
          /\ Goto(s, "sleep")
          /\ UNCHANGED user
    /\ UNCHANGED <<kindVars, request, authVars, outVars, historyVars, conn>>

\* Slip: the task awaits a change before it looks at the channel.
BorrowAfterChange(s) ==
    /\ task[s] = "borrow"
    /\ Goto(s, "sleep")
    /\ UNCHANGED <<kindVars, request, user, authVars, outVars, historyVars, conn>>

\* wait_for_sunny_auth: look at the watch channel ...
Borrow(s) ==
    /\ task[s] = "borrow"
    /\ \/ /\ ~Sunny
          /\ Goto(s, "request")
          /\ UNCHANGED user
       \/ /\ Sunny /\ auth = "ok"
          /\ Goto(s, "request")
          /\ user' = [user EXCEPT ![s] = authUser]
       \/ /\ Sunny /\ auth = "failed"
          /\ Goto(s, "done")
          /\ UNCHANGED user
       \/ /\ Sunny /\ auth = "none"
          /\ Goto(s, "sleep")
          /\ UNCHANGED user
    /\ UNCHANGED <<kindVars, request, authVars, outVars, historyVars, conn>>

\* ... and sleep until it changes; a value, once sent, is never withdrawn
Changed(s) ==
    /\ task[s] = "sleep"
    /\ auth # "none"
    /\ Goto(s, "borrow")
    /\ UNCHANGED <<kindVars, request, user, authVars, outVars, historyVars, conn>>

\* Slip: there is no timeout.
NeverTimedOut(s) == FALSE

\* ... or until SUNNY_AUTH_TIMEOUT.
TimedOut(s) ==
    /\ task[s] = "sleep"
    /\ Goto(s, "done")
    /\ refused' = refused \cup {s}
    /\ UNCHANGED <<kindVars, request, user, authVars, outVars, prompt, conn>>

\* ... or until no sender of the channel is left: serve_connection holds one,
\* and so does the task of every bidirectional stream.
SenderGone(s) ==
    /\ task[s] = "sleep"
    /\ request[s].op = "udp"
    /\ conn = "ended"
    /\ \A t \in Streams : task[t] \in {"closed", "done"} \/ request[t].op = "udp"
    /\ Goto(s, "done")
    /\ UNCHANGED <<kindVars, request, user, authVars, outVars, historyVars, conn>>

\* An authenticated task goes on: datagrams and uni streams to the registry,
\* an extension to its answer, the others to the accept queue.
Serve(s) ==
    /\ task[s] = "request"
    /\ IF request[s].op \in {"udp", "extension"}
       THEN served' = served \cup {s} /\ Goto(s, "done")
       ELSE UNCHANGED served /\ Goto(s, "push")
    /\ UNCHANGED <<kindVars, request, user, authVars, queue, handed, historyVars, conn>>

Push(s) ==
    /\ task[s] = "push"
    /\ Len(queue) < AcceptCap
    /\ queue' = Append(queue, [stream |-> s, user |-> user[s]])
    /\ Goto(s, IF request[s].op = "associate" THEN "control" ELSE "done")
    /\ UNCHANGED <<kindVars, request, user, authVars, handed, served, historyVars, conn>>

\* A read fails: the request is malformed or cut short, or the connection is
\* gone. The control stream of an association always ends this way.
ReadFails(s) ==
    /\ task[s] \in {"opcode", "credential", "request", "control"}
    /\ Goto(s, "done")
    /\ UNCHANGED <<kindVars, request, user, authVars, outVars, historyVars, conn>>

Accept ==
    /\ queue # <<>>
    /\ handed' = handed \cup {Head(queue)}
    /\ queue' = Tail(queue)
    /\ UNCHANGED <<kindVars, streamVars, authVars, served, historyVars, conn>>

\* The select loop meets an error of the connection, lost or closed, and ends.
LoopEnds ==
    /\ conn # "ended"
    /\ conn' = "ended"
    /\ UNCHANGED <<kindVars, streamVars, authVars, outVars, historyVars>>

WaitForSunnyAuth(s) == Borrow(s) \/ Changed(s) \/ TimedOut(s) \/ SenderGone(s)

AuthNext ==
    \/ RejectHandshake
    \/ LoopEnds
    \/ Accept
    \/ \E s \in Streams :
         \/ \E r \in Request : Spawn(s, r)
         \/ ReadOpcode(s) \/ Authenticate(s) \/ Reject(s)
         \/ WaitForSunnyAuth(s)
         \/ Serve(s) \/ Push(s) \/ ReadFails(s)

(***************************************************************************)
(* Steps that read from the peer are not fair: bytes may never come. Waits *)
(* are bounded by a timer, closing awaits nothing, and the application     *)
(* keeps calling accept.                                                   *)
(***************************************************************************)
AuthFairness ==
    /\ \A s \in Streams :
         /\ WF_squicAuthVars(WaitForSunnyAuth(s))
         /\ WF_squicAuthVars(Reject(s))
         /\ SF_squicAuthVars(Push(s))
    /\ WF_squicAuthVars(Accept)
    /\ WF_squicAuthVars(RejectHandshake) /\ WF_squicAuthVars(conn = "closed" /\ LoopEnds)

AuthSpec == AuthInit /\ [][AuthNext]_squicAuthVars /\ AuthFairness

-----------------------------------------------------------------------------
Label == {"closed", "opcode", "credential", "reject", "borrow", "sleep", "request",
          "push", "control", "done"}

Accepted == [stream : Streams, user : Users \cup {NoUser}]

(***************************************************************************)
(* Types of the connection's tasks, of the watch channel and of the queue. *)
(***************************************************************************)
AuthTypeOK ==
    /\ authentication \in {"Jls", "Sunny"}
    /\ jls \in Users \cup {NoUser}
    /\ auth \in {"none", "failed", "ok"}
    /\ authUser \in Users \cup {NoUser}
    /\ task \in [Streams -> Label]
    /\ request \in [Streams -> Request]
    /\ user \in [Streams -> Users \cup {NoUser}]
    /\ queue \in Seq(Accepted)
    /\ Len(queue) <= AcceptCap
    /\ handed \subseteq Accepted
    /\ served \subseteq Streams /\ prompt \subseteq Streams /\ refused \subseteq Streams
    /\ presented \subseteq Users
    /\ conn \in {"alive", "closed", "ended"}

\* Whom the connection may act for.
AuthenticatedUsers == IF Sunny THEN presented ELSE {jls} \ {NoUser}

(***************************************************************************)
(* The server accepts proxy streams and UDP associations, routes UDP and   *)
(* answers statistics only after a matching credential (SunnyQUIC) or      *)
(* handshake (JLS), and in the name of a user who presented one on this    *)
(* connection, however the tasks of streams that race with authentication, *)
(* failed authentication and loss of the connection interleave.            *)
(***************************************************************************)
OnlyAuthenticated ==
    /\ \A item \in handed : item.user \in AuthenticatedUsers
    /\ \A i \in 1..Len(queue) : queue[i].user \in AuthenticatedUsers
    /\ \A s \in served : user[s] \in AuthenticatedUsers

(***************************************************************************)
(* A stream opened after authentication succeeded never runs into          *)
(* SUNNY_AUTH_TIMEOUT.                                                     *)
(***************************************************************************)
AuthenticatedIsPrompt == prompt \cap refused = {}

(***************************************************************************)
(* A bad credential costs the connection, even if a good one follows.      *)
(***************************************************************************)
BadCredentialCloses == (auth = "failed") ~> (conn = "ended")

(***************************************************************************)
(* No task of a stream is stuck. Its wait for authentication is ended by   *)
(* the answer or by the timeout, even though the task of a bidirectional   *)
(* stream holds a sender of the very channel it waits on, which so never   *)
(* closes; and a decoded request reaches the application, also when the    *)
(* accept queue was full.                                                  *)
(***************************************************************************)
TasksGoOn ==
    \A s \in Streams :
        /\ task[s] \in {"borrow", "sleep"} ~> task[s] \notin {"borrow", "sleep"}
        /\ task[s] = "push" ~> \E item \in handed : item.stream = s

=============================================================================
