----------------------------- MODULE Masquerade -----------------------------
(***************************************************************************)
(* A Hysteria2 connection whose first request did not authenticate: the    *)
(* server answers it, and every later one, like a web server. One loop     *)
(* takes the requests in turn and waits for the header of each; a task per *)
(* request then collects the body, asks the handler and answers.           *)
(***************************************************************************)
EXTENDS Naturals, Sequences

CONSTANTS
    Requests,           \* 1..n, in the order the client opens them
    Chunks,             \* sizes of the pieces a body comes in
    MaxBody,            \* MAX_MASQUERADE_REQUEST_SIZE
    Responses           \* what a handler may answer: status, body size, the
                        \* content-length it sets (none or one), and the other
                        \* headers it sets that an HTTP/3 message must not have

\* The connection-specific headers of HTTP.
HopHeaders == {"Connection", "Transfer-Encoding", "Keep-Alive", "Proxy-Connection", "Upgrade"}

ASSUME MasqueradeAssumption ==
    /\ Requests \subseteq Nat /\ Chunks \subseteq Nat \ {0} /\ MaxBody \in Nat
    /\ \A a \in Responses : /\ a.status \in Nat /\ a.body \in Nat /\ a.hop \subseteq HopHeaders
                             /\ a.length \subseteq Nat

VARIABLES
    handler,            \* a MasqueradeHandler was given
    conn,               \* "open" or "closed"
    loop,               \* the request loop: "accepting", "resolving", "ended"
    taken,              \* requests the loop has taken; the last is being resolved
    header,             \* of each request: "none", "partial", "whole", "malformed",
                        \* or "reset" once the client has given it up
    head,               \* requests with method HEAD
    chunks, ended,      \* body pieces on their way, and whether the body ends there
    sent,               \* bytes of body sent in all (history)
    task,               \* progress of each request's task
    body,               \* bytes it collected
    handed,             \* size of the body the handler was given, if it was
    response,           \* what is to be answered
    answer              \* what the client got

requestVars == <<header, head, chunks, ended, sent>>
taskVars == <<task, body, handed, response, answer>>
masqueradeVars == <<handler, conn, loop, taken, requestVars, taskVars>>

Empty(status) == [status |-> status, body |-> 0, length |-> {}, hop |-> {}]

Unanswered == [status |-> 0, length |-> {}, hop |-> {}, data |-> 0, finished |-> FALSE]

MasqueradeInit ==
    /\ handler \in BOOLEAN
    /\ conn = "open"
    /\ loop = "accepting"
    /\ taken = 0
    /\ header = [r \in Requests |-> "none"]
    /\ head = {}
    /\ chunks = [r \in Requests |-> <<>>]
    /\ ended = {}
    /\ sent = [r \in Requests |-> 0]
    /\ task = [r \in Requests |-> "none"]
    /\ body = [r \in Requests |-> 0]
    /\ handed = [r \in Requests |-> {}]
    /\ response = [r \in Requests |-> Empty(0)]
    /\ answer = [r \in Requests |-> Unanswered]

-----------------------------------------------------------------------------
(***************************************************************************)
(* The client.                                                             *)
(***************************************************************************)
Open(r, state, isHead) ==
    /\ conn = "open"
    /\ header[r] = "none" /\ \A q \in Requests : q < r => header[q] # "none"
    /\ header' = [header EXCEPT ![r] = state]
    /\ head' = IF isHead THEN head \cup {r} ELSE head
    /\ UNCHANGED <<handler, conn, loop, taken, chunks, ended, sent, taskVars>>

CompleteHeader(r) ==
    /\ conn = "open" /\ header[r] = "partial"
    /\ header' = [header EXCEPT ![r] = "whole"]
    /\ UNCHANGED <<handler, conn, loop, taken, head, chunks, ended, sent, taskVars>>

SendChunk(r, n) ==
    /\ conn = "open" /\ header[r] = "whole" /\ r \notin ended
    /\ sent[r] <= MaxBody
    /\ chunks' = [chunks EXCEPT ![r] = Append(@, n)]
    /\ sent' = [sent EXCEPT ![r] = @ + n]
    /\ UNCHANGED <<handler, conn, loop, taken, header, head, ended, taskVars>>

EndBody(r) ==
    /\ conn = "open" /\ header[r] = "whole" /\ r \notin ended
    /\ ended' = ended \cup {r}
    /\ UNCHANGED <<handler, conn, loop, taken, header, head, chunks, sent, taskVars>>

\* The client gives a request up: what was not read of it is discarded.
Abort(r) ==
    /\ conn = "open" /\ header[r] \in {"partial", "whole"} /\ r \notin ended
    /\ header' = [header EXCEPT ![r] = "reset"]
    /\ chunks' = [chunks EXCEPT ![r] = <<>>]
    /\ UNCHANGED <<handler, conn, loop, taken, head, ended, sent, taskVars>>

ClientLeaves ==
    /\ conn = "open"
    /\ conn' = "closed"
    /\ UNCHANGED <<handler, loop, taken, requestVars, taskVars>>

-----------------------------------------------------------------------------
(***************************************************************************)
(* The request loop.                                                       *)
(***************************************************************************)

\* Slip: a request is taken once the task of the one before it is done.
TakeRequestInTurn(r) ==
    /\ conn = "open" /\ loop = "accepting"
    /\ r = taken + 1 /\ header[r] # "none"
    /\ \A q \in Requests : q < r => task[q] \in {"done", "failed"}
    /\ taken' = r
    /\ loop' = "resolving"
    /\ UNCHANGED <<handler, conn, requestVars, taskVars>>

\* h3_connection.accept()
TakeRequest(r) ==
    /\ conn = "open" /\ loop = "accepting"
    /\ r = taken + 1 /\ header[r] # "none"
    /\ taken' = r
    /\ loop' = "resolving"
    /\ UNCHANGED <<handler, conn, requestVars, taskVars>>

\* resolve_request has the whole header: the request gets its task.
Resolve ==
    /\ conn = "open" /\ loop = "resolving" /\ header[taken] = "whole"
    /\ loop' = "accepting"
    /\ task' = [task EXCEPT ![taken] = "receiving"]
    /\ UNCHANGED <<handler, conn, taken, requestVars, body, handed, response, answer>>

\* A malformed header, or one that is reset before it was read, is an error of
\* the whole connection, which closes when serve_connection returns and drops
\* its HTTP/3 state; so it does when the client leaves.
LoopEnds ==
    /\ loop # "ended"
    /\ conn = "closed" \/ (loop = "resolving" /\ header[taken] \in {"malformed", "reset"})
    /\ loop' = "ended"
    /\ conn' = "closed"
    /\ UNCHANGED <<handler, taken, requestVars, taskVars>>

-----------------------------------------------------------------------------
(***************************************************************************)
(* The task of a request.                                                  *)
(***************************************************************************)

\* Slip: only the bytes collected so far are compared with the limit.
TooLargeSoFar(r) == body[r] > MaxBody

TooLarge(r) == body[r] + Head(chunks[r]) > MaxBody

Receive(r) ==
    /\ conn = "open" /\ task[r] = "receiving" /\ chunks[r] # <<>>
    /\ IF TooLarge(r)
       THEN /\ response' = [response EXCEPT ![r] = Empty(413)]
            /\ task' = [task EXCEPT ![r] = "responding"]
            /\ UNCHANGED body
       ELSE /\ body' = [body EXCEPT ![r] = @ + Head(chunks[r])]
            /\ UNCHANGED <<response, task>>
    /\ chunks' = [chunks EXCEPT ![r] = Tail(@)]
    /\ UNCHANGED <<handler, conn, loop, taken, header, head, ended, sent, handed, answer>>

\* The whole body is there; without a handler the answer is 404.
Handle(r) ==
    /\ conn = "open" /\ task[r] = "receiving" /\ chunks[r] = <<>> /\ r \in ended
    /\ IF handler
       THEN /\ handed' = [handed EXCEPT ![r] = {body[r]}]
            /\ task' = [task EXCEPT ![r] = "handling"]
            /\ UNCHANGED response
       ELSE /\ response' = [response EXCEPT ![r] = Empty(404)]
            /\ task' = [task EXCEPT ![r] = "responding"]
            /\ UNCHANGED handed
    /\ UNCHANGED <<handler, conn, loop, taken, requestVars, body, answer>>

HandlerAnswers(r, a) ==
    /\ task[r] = "handling"
    /\ response' = [response EXCEPT ![r] = a]
    /\ task' = [task EXCEPT ![r] = "responding"]
    /\ UNCHANGED <<handler, conn, loop, taken, requestVars, body, handed, answer>>

BodyAllowed(status) == status >= 200 /\ status \notin {204, 304}

HasData(r) == r \notin head /\ BodyAllowed(response[r].status) /\ response[r].body > 0

\* content-length: a HEAD keeps the one of the handler, others get the true
\* one if they may have a body and none if not.
ContentLength(r) ==
    LET a == response[r] IN
    IF r \in head THEN (IF a.length = {} THEN {a.body} ELSE a.length)
    ELSE IF BodyAllowed(a.status) THEN {a.body} ELSE {}

\* Slip: the handler's headers are passed on.
SendHeaderAsIs(r) ==
    /\ conn = "open" /\ task[r] = "responding"
    /\ answer' = [answer EXCEPT ![r] =
                    [@ EXCEPT !.status = response[r].status, !.length = response[r].length,
                              !.hop = response[r].hop]]
    /\ task' = [task EXCEPT ![r] = IF HasData(r) THEN "sending" ELSE "finishing"]
    /\ UNCHANGED <<handler, conn, loop, taken, requestVars, body, handed, response>>

\* Connection and Transfer-Encoding are removed, the others are passed on.
Removed == {"Connection", "Transfer-Encoding"}

SendHeader(r) ==
    /\ conn = "open" /\ task[r] = "responding"
    /\ answer' = [answer EXCEPT ![r] =
                    [@ EXCEPT !.status = response[r].status, !.length = ContentLength(r),
                              !.hop = response[r].hop \ Removed]]
    /\ task' = [task EXCEPT ![r] = IF HasData(r) THEN "sending" ELSE "finishing"]
    /\ UNCHANGED <<handler, conn, loop, taken, requestVars, body, handed, response>>

SendData(r) ==
    /\ conn = "open" /\ task[r] = "sending"
    /\ answer' = [answer EXCEPT ![r].data = response[r].body]
    /\ task' = [task EXCEPT ![r] = "finishing"]
    /\ UNCHANGED <<handler, conn, loop, taken, requestVars, body, handed, response>>

Finish(r) ==
    /\ conn = "open" /\ task[r] = "finishing"
    /\ answer' = [answer EXCEPT ![r].finished = TRUE]
    /\ task' = [task EXCEPT ![r] = "done"]
    /\ UNCHANGED <<handler, conn, loop, taken, requestVars, body, handed, response>>

\* The stream of the request fails, with its connection or because the client
\* has given it up and neither sends nor reads any more.
TaskFails(r) ==
    /\ conn = "closed" \/ header[r] = "reset"
    /\ task[r] \in {"receiving", "responding", "sending", "finishing"}
    /\ task' = [task EXCEPT ![r] = "failed"]
    /\ UNCHANGED <<handler, conn, loop, taken, requestVars, body, handed, response, answer>>

TaskStep(r) ==
    \/ Receive(r) \/ Handle(r) \/ (\E a \in Responses : HandlerAnswers(r, a))
    \/ SendHeader(r) \/ SendData(r) \/ Finish(r) \/ TaskFails(r)

LoopStep == (\E r \in Requests : TakeRequest(r)) \/ Resolve \/ LoopEnds

MasqueradeNext ==
    \/ \E r \in Requests :
         \/ \E state \in {"partial", "malformed"}, isHead \in BOOLEAN : Open(r, state, isHead)
         \/ CompleteHeader(r)
         \/ \E n \in Chunks : SendChunk(r, n)
         \/ EndBody(r) \/ Abort(r)
         \/ TaskStep(r)
    \/ ClientLeaves \/ LoopStep

-----------------------------------------------------------------------------
(***************************************************************************)
(* A handler is given a request's body whole or not at all, and no task    *)
(* ever holds more than the limit; a body that no handler has seen is      *)
(* answered 413 only if it is beyond the limit.                            *)
(***************************************************************************)
BodiesWhole ==
    \A r \in Requests :
        /\ body[r] <= MaxBody
        /\ handed[r] # {} => r \in ended /\ handed[r] = {sent[r]}
        /\ response[r].status = 413 => handed[r] # {} \/ sent[r] > MaxBody

(***************************************************************************)
(* The framing of a finished answer is consistent whatever the handler     *)
(* returned: as many bytes as announced, none to a HEAD nor with a status  *)
(* that has no body, and no Transfer-Encoding beside the length. (The      *)
(* server does not see to it that the handler's other headers are those of *)
(* an HTTP/3 message: Keep-Alive, Proxy-Connection and Upgrade pass.)      *)
(***************************************************************************)
AnswersConsistent ==
    \A r \in Requests : answer[r].finished =>
        /\ "Transfer-Encoding" \notin answer[r].hop
        /\ r \in head \/ ~BodyAllowed(answer[r].status) => answer[r].data = 0
        /\ r \notin head => answer[r].length =
                                (IF BodyAllowed(answer[r].status) THEN {answer[r].data} ELSE {})

(***************************************************************************)
(* A complete request is answered, unless the connection ends, even if the *)
(* bodies of other requests never do or break off. The loop waits for one  *)
(* header at a time, so those opened before it must have sent theirs.      *)
(***************************************************************************)
RequestsAnswered ==
    \A r \in Requests :
        (r \in ended /\ \A q \in Requests : q < r => header[q] \in {"whole", "reset"})
            ~> (answer[r].finished \/ conn = "closed")
=============================================================================
