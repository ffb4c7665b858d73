-------------------------- MODULE Hy2SessionsProofs --------------------------
(***************************************************************************)
(* Proofs about the UDP sessions of a Hysteria2 server connection, for any *)
(* number of session ids and streams and any capacity of its queues: an id *)
(* has one packet connection at a time, and its packets begin with the one *)
(* that opened it.                                                         *)
(***************************************************************************)
EXTENDS Hy2Sessions, TLAPS

Item(s) == [kind |-> "packet", item |-> s]
Queued(s) == \E i \in 1..Len(queue) : queue[i] = Item(s)

\* The message has reached the channel of some packet connection.
Passed(n) ==
    \E s \in Messages : \/ \E i \in 1..Len(got[s]) : got[s][i] = n
                        \/ \E i \in 1..Len(chan[s]) : chan[s][i] = n

\* No packet connection was made for the message.
Untouched(n) ==
    /\ ~Readable(n) /\ got[n] = <<>> /\ chan[n] = <<>>
    /\ \A i \in Ids : udp_sessions[i] # n

(***************************************************************************)
(* What the loop has not taken yet has left no trace.                      *)
(***************************************************************************)
NewIsUntouched ==
    \A n \in Messages : n \in wire \/ n > Len(sent) =>
        Untouched(n) /\ ~Passed(n) /\ loop.message # n /\ loop.session # n

(***************************************************************************)
(* What the loop has in its hands: a message that has reached no channel   *)
(* yet, and the packet connection of its session. Until the connection is  *)
(* pushed nobody knows it, and nobody holds one that the table has for the *)
(* same id; afterwards it is the one in the table.                         *)
(***************************************************************************)
LoopIdle == loop.at \in {"select", "ended"} => loop.message = 0 /\ loop.session = 0
LoopBusy ==
    loop.at \in {"push", "input"} =>
        /\ loop.message # 0 /\ loop.session # 0
        /\ sent[loop.message].id = sent[loop.session].id
        /\ ~Passed(loop.message)
LoopPushes ==
    loop.at = "push" =>
        /\ loop.message = loop.session /\ Untouched(loop.message)
        /\ ~Readable(udp_sessions[sent[loop.message].id])
LoopInputs == loop.at = "input" => udp_sessions[sent[loop.session].id] = loop.session

(***************************************************************************)
(* The table has every packet connection that somebody can still read from,*)
(* under its own id; and each is in one place.                             *)
(***************************************************************************)
Table ==
    /\ \A i \in Ids : udp_sessions[i] # 0 => sent[udp_sessions[i]].id = i
    /\ \A s \in Messages : Readable(s) => udp_sessions[sent[s].id] = s
Once ==
    /\ \A s \in Messages : Queued(s) => s \notin held
    /\ \A s \in Messages : \A i, j \in 1..Len(queue) :
          queue[i] = Item(s) /\ queue[j] = Item(s) => i = j

(***************************************************************************)
(* The packets of a session.                                               *)
(***************************************************************************)
SameId ==
    \A s \in 1..Len(sent) :
        /\ \A i \in 1..Len(got[s]) : sent[got[s][i]].id = sent[s].id
        /\ \A i \in 1..Len(chan[s]) : sent[chan[s][i]].id = sent[s].id
Distinct ==
    \A s \in Messages :
        /\ \A i, j \in 1..Len(got[s]) : got[s][i] = got[s][j] => i = j
        /\ \A i, j \in 1..Len(chan[s]) : chan[s][i] = chan[s][j] => i = j
        /\ \A i \in 1..Len(got[s]), j \in 1..Len(chan[s]) : got[s][i] # chan[s][j]
Opened ==
    \A s \in 1..Len(sent) : sent[s].effect = "packet" =>
        /\ got[s] # <<>> => got[s][1] = s
        /\ got[s] = <<>> /\ chan[s] # <<>> => chan[s][1] = s
        /\ Readable(s) /\ got[s] = <<>> /\ chan[s] = <<>> =>
              loop.at = "input" /\ loop.message = s

LoopInv == LoopIdle /\ LoopBusy /\ LoopPushes /\ LoopInputs
IInv ==
    TypeOK /\ NewIsUntouched /\ LoopInv /\ Table /\ Once /\ SameId /\ Distinct /\ Opened

-----------------------------------------------------------------------------
\* Taking the first element of a queue.
LEMMA HeadTailFacts ==
    ASSUME NEW S, NEW q \in Seq(S), q # <<>>
    PROVE  /\ Len(q) \in Nat /\ 1 \in 1..Len(q)
           /\ Head(q) = q[1] /\ Head(q) \in S
           /\ Tail(q) \in Seq(S)
           /\ Len(Tail(q)) = Len(q) - 1 /\ Len(Tail(q)) \in Nat
           /\ \A i \in 1..Len(Tail(q)) : i + 1 \in 1..Len(q) /\ Tail(q)[i] = q[i + 1]
<1>1. Len(q) \in Nat /\ Len(q) >= 1
  OBVIOUS
<1>2. Head(q) = q[1] /\ Head(q) \in S /\ Tail(q) \in Seq(S) /\ Len(Tail(q)) = Len(q) - 1
  OBVIOUS
<1>3. \A i \in 1..Len(Tail(q)) : Tail(q)[i] = q[i + 1]
  OBVIOUS
<1> QED
  BY <1>1, <1>2, <1>3

\* Adding an element at the end of a queue.
LEMMA AppendFacts ==
    ASSUME NEW S, NEW q \in Seq(S), NEW x \in S
    PROVE  /\ Append(q, x) \in Seq(S) /\ Append(q, x) # <<>>
           /\ Len(q) \in Nat /\ Len(Append(q, x)) = Len(q) + 1
           /\ Append(q, x)[Len(q) + 1] = x
           /\ Len(q) + 1 \in 1..Len(Append(q, x))
           /\ \A i \in 1..Len(q) : i \in 1..Len(Append(q, x)) /\ Append(q, x)[i] = q[i]
           /\ \A i \in 1..Len(Append(q, x)) : i \in 1..Len(q) \/ i = Len(q) + 1
<1>1. /\ Append(q, x) \in Seq(S) /\ Len(q) \in Nat /\ Len(Append(q, x)) = Len(q) + 1
      /\ Append(q, x)[Len(q) + 1] = x
      /\ \A i \in 1..Len(q) : Append(q, x)[i] = q[i]
  OBVIOUS
<1>2. Append(q, x) # <<>>
  BY <1>1
<1> QED
  BY <1>1, <1>2

\* The elements of a queue.
LEMMA ElementType ==
    ASSUME NEW S, NEW q \in Seq(S), NEW i \in 1..Len(q)
    PROVE  q[i] \in S
OBVIOUS

\* What every step leaves of the types of the sent messages.
LEMMA SentType ==
    ASSUME TypeOK
    PROVE  /\ Len(sent) \in Nat /\ Len(sent) <= MaxMessages /\ MaxMessages \in Nat
           /\ 1..Len(sent) \subseteq Messages
           /\ \A n \in 1..Len(sent) : sent[n].id \in Ids
<1>1. sent \in Seq([id : Ids, effect : Effects]) /\ Len(sent) <= MaxMessages
  BY Zenon DEF TypeOK
<1>2. Len(sent) \in Nat /\ MaxMessages \in Nat
  BY <1>1, Hy2SessionsAssumption
<1>3. 1..Len(sent) \subseteq Messages
  BY <1>1, <1>2 DEF Messages
<1>4. \A n \in 1..Len(sent) : sent[n] \in [id : Ids, effect : Effects]
  BY <1>1, ElementType, Zenon
<1> QED
  BY <1>1, <1>2, <1>3, <1>4, Zenon

\* A new message has the next number; the old ones keep theirs.
LEMMA SentGrows ==
    ASSUME TypeOK, NEW i \in Ids, NEW e \in Effects, SendMessage(i, e)
    PROVE  /\ sent' \in Seq([id : Ids, effect : Effects]) /\ Len(sent') <= MaxMessages
           /\ Len(sent') = Len(sent) + 1 /\ Len(sent) \in Nat
           /\ wire' = wire \cup {Len(sent) + 1} /\ Len(sent) + 1 \in Messages
           /\ \A n \in 1..Len(sent) : n \in 1..Len(sent') /\ sent'[n] = sent[n]
           /\ UNCHANGED <<up, loop, udp_sessions, queue, serving, held, chan, got, task,
                          answered, accepted>>
<1>1. sent \in Seq([id : Ids, effect : Effects]) /\ [id |-> i, effect |-> e] \in [id : Ids, effect : Effects]
  BY Zenon DEF TypeOK
<1>2. /\ sent' = Append(sent, [id |-> i, effect |-> e]) /\ Len(sent) < MaxMessages
      /\ wire' = wire \cup {Len(sent) + 1}
      /\ UNCHANGED <<up, loop, udp_sessions, queue, serving, held, chan, got, task,
                     answered, accepted>>
  BY Zenon DEF SendMessage, loopVars, acceptVars, streamVars, sessionVars
<1>3. /\ sent' \in Seq([id : Ids, effect : Effects]) /\ Len(sent') = Len(sent) + 1
      /\ Len(sent) \in Nat
      /\ \A n \in 1..Len(sent) : n \in 1..Len(sent') /\ sent'[n] = sent[n]
  BY <1>1, <1>2, AppendFacts
<1> QED
  BY <1>2, <1>3, Hy2SessionsAssumption DEF Messages

QueueItem == [kind : {"packet"}, item : Messages] \cup [kind : {"stream"}, item : Streams]

\* Pushing to the accept queue.
LEMMA PushFacts ==
    ASSUME TypeOK, NEW x \in QueueItem, queue' = Append(queue, x), Len(queue) < AcceptCap
    PROVE  /\ queue' \in Seq(QueueItem) /\ Len(queue') <= AcceptCap
           /\ Len(queue) \in Nat /\ Len(queue') = Len(queue) + 1
           /\ queue'[Len(queue) + 1] = x /\ Len(queue) + 1 \in 1..Len(queue')
           /\ \A i \in 1..Len(queue) : i \in 1..Len(queue') /\ queue'[i] = queue[i]
           /\ \A i \in 1..Len(queue') : i \in 1..Len(queue) \/ i = Len(queue) + 1
<1>1. queue \in Seq(QueueItem)
  BY Zenon DEF TypeOK, QueueItem
<1>2. /\ queue' \in Seq(QueueItem)
      /\ Len(queue) \in Nat /\ Len(queue') = Len(queue) + 1
      /\ queue'[Len(queue) + 1] = x /\ Len(queue) + 1 \in 1..Len(queue')
      /\ \A i \in 1..Len(queue) : i \in 1..Len(queue') /\ queue'[i] = queue[i]
      /\ \A i \in 1..Len(queue') : i \in 1..Len(queue) \/ i = Len(queue) + 1
  BY <1>1, AppendFacts
<1> QED
  BY <1>2, Hy2SessionsAssumption

\* Accepting from it.
LEMMA AcceptFacts ==
    ASSUME TypeOK, Accept
    PROVE  /\ queue \in Seq(QueueItem) /\ queue' \in Seq(QueueItem)
           /\ Len(queue) \in Nat /\ 1 \in 1..Len(queue) /\ Head(queue) = queue[1]
           /\ Len(queue') = Len(queue) - 1
           /\ queue[1] \in QueueItem
           /\ \A i \in 1..Len(queue') : i + 1 \in 1..Len(queue) /\ queue'[i] = queue[i + 1]
<1>1. queue \in Seq(QueueItem) /\ queue # <<>> /\ queue' = Tail(queue)
  BY Zenon DEF TypeOK, QueueItem, Accept
<1> QED
  BY <1>1, HeadTailFacts, Zenon

\* The packet connection of the loop gets the message, or loses everything.
LEMMA TrySendFacts ==
    ASSUME TypeOK, NEW s \in Messages, NEW n \in Messages
    PROVE  /\ TrySend(s, n) \in Seq(Messages) /\ Len(TrySend(s, n)) <= ChanCap
           /\ \/ TrySend(s, n) = <<>>
              \/ TrySend(s, n) = chan[s]
              \/ Readable(s) /\ TrySend(s, n) = Append(chan[s], n)
           /\ Readable(s) /\ chan[s] = <<>> => TrySend(s, n) = Append(chan[s], n)
           /\ Readable(s) /\ chan[s] # <<>> =>
                 TrySend(s, n) = chan[s] \/ TrySend(s, n) = Append(chan[s], n)
<1>1. chan[s] \in Seq(Messages) /\ Len(chan[s]) <= ChanCap /\ ChanCap \in Nat \ {0}
  BY Hy2SessionsAssumption, Zenon DEF TypeOK
<1>2. CASE ~Readable(s)
  BY <1>1, <1>2 DEF TrySend
<1>3. CASE Readable(s) /\ Len(chan[s]) < ChanCap
  <2>1. TrySend(s, n) = Append(chan[s], n)
    BY <1>3, Zenon DEF TrySend
  <2>2. Append(chan[s], n) \in Seq(Messages) /\ Len(Append(chan[s], n)) = Len(chan[s]) + 1
    BY <1>1, AppendFacts, Zenon
  <2> QED
    BY <1>1, <1>3, <2>1, <2>2
<1>4. CASE Readable(s) /\ ~(Len(chan[s]) < ChanCap)
  <2>1. TrySend(s, n) = chan[s]
    BY <1>4, Zenon DEF TrySend
  <2>2. chan[s] # <<>>
    BY <1>1, <1>4
  <2> QED
    BY <1>1, <1>4, <2>1, <2>2, Zenon
<1> QED
  BY <1>2, <1>3, <1>4, Zenon

\* The types hold at the start.
LEMMA TypeInit == Init => TypeOK
BY Hy2SessionsAssumption DEF Init, TypeOK, Idle, Messages

\* Every step keeps the types.
LEMMA TypeStep == TypeOK /\ NewIsUntouched /\ LoopBusy /\ [Next]_vars => TypeOK'
<1> SUFFICES ASSUME TypeOK, NewIsUntouched, LoopBusy, [Next]_vars PROVE TypeOK'
  BY Zenon
<1> USE DEF netVars, loopVars, acceptVars, streamVars, sessionVars
<1>0. /\ Len(sent) \in Nat /\ 1..Len(sent) \subseteq Messages /\ 0 \in 0..Len(sent)
      /\ wire \subseteq 1..Len(sent) /\ held \subseteq 1..Len(sent)
  BY SentType, SMTT(20) DEF TypeOK
<1>1. ASSUME NEW i \in Ids, NEW e \in Effects, SendMessage(i, e) PROVE TypeOK'
  <2>1. /\ sent' \in Seq([id : Ids, effect : Effects]) /\ Len(sent') <= MaxMessages
        /\ 0..Len(sent) \subseteq 0..Len(sent') /\ 1..Len(sent) \subseteq 1..Len(sent')
        /\ wire' \subseteq 1..Len(sent')
        /\ UNCHANGED <<up, loop, udp_sessions, queue, serving, held, chan, got, task,
                       answered, accepted>>
    <3>1. /\ sent' \in Seq([id : Ids, effect : Effects]) /\ Len(sent') <= MaxMessages
          /\ Len(sent') = Len(sent) + 1 /\ wire' = wire \cup {Len(sent) + 1}
          /\ UNCHANGED <<up, loop, udp_sessions, queue, serving, held, chan, got, task,
                         answered, accepted>>
      BY <1>1, SentGrows, Zenon
    <3>2. /\ 0..Len(sent) \subseteq 0..Len(sent') /\ 1..Len(sent) \subseteq 1..Len(sent')
          /\ Len(sent) + 1 \in 1..Len(sent')
      BY <1>0, <3>1
    <3> QED
      BY <1>0, <3>1, <3>2, Zenon
  <2> QED
    BY <2>1, Zenon DEF TypeOK
<1>2. ASSUME NEW n \in wire, LoseMessage(n) PROVE TypeOK'
  BY <1>2, Zenon DEF LoseMessage, TypeOK
<1>3. ASSUME NEW n \in wire, Datagram(n) PROVE TypeOK'
  <2>1. n \in 1..Len(sent) /\ sent[n].id \in Ids
    BY <1>0, SentType, Zenon
  <2>2. udp_sessions[sent[n].id] \in 0..Len(sent)
    BY <2>1, Zenon DEF TypeOK
  <2>3. n \in 0..Len(sent)
    BY <1>0, <2>1
  <2>4. loop' \in [at : {"select", "push", "input", "ended"}, message : 0..Len(sent),
                   session : 0..Len(sent)]
    BY <1>0, <1>3, <2>2, <2>3 DEF Datagram, Return, Idle
  <2>5. up' \in BOOLEAN
    BY <1>3, Zenon DEF Datagram, Return, TypeOK
  <2>6. /\ wire' \subseteq wire
        /\ UNCHANGED <<sent, udp_sessions, queue, serving, held, chan, got, task,
                       answered, accepted>>
    BY <1>3, Zenon DEF Datagram
  <2> QED
    BY <2>4, <2>5, <2>6, Zenon DEF TypeOK
<1>4. CASE ConnectionLost
  BY <1>4, Zenon DEF ConnectionLost, TypeOK
<1>5. CASE LoopFails \/ PushFails
  <2>1. loop' = [at |-> "ended", message |-> 0, session |-> 0] /\ up' = FALSE
    BY <1>5, Zenon DEF LoopFails, PushFails, Return, Idle
  <2>2. UNCHANGED <<sent, wire, udp_sessions, queue, serving, held, chan, got, task,
                    answered, accepted>>
    BY <1>5, Zenon DEF LoopFails, PushFails
  <2> QED
    BY <1>0, <2>1, <2>2, Zenon DEF TypeOK
<1>6. CASE PushSession
  <2>1. loop.session \in 1..Len(sent) /\ loop.message \in 1..Len(sent) /\ loop.at = "push"
    BY <1>6 DEF PushSession, LoopBusy, TypeOK
  <2>2. loop.session \in 0..Len(sent) /\ sent[loop.message].id \in Ids /\ loop.session \in Messages
    BY <1>0, <2>1, SentType
  <2>3. Item(loop.session) \in QueueItem
    BY <2>2, Zenon DEF Item, QueueItem
  <2>4. queue' = Append(queue, Item(loop.session)) /\ Len(queue) < AcceptCap
    BY <1>6, Zenon DEF PushSession, Item
  <2>5. queue' \in Seq(QueueItem) /\ Len(queue') <= AcceptCap
    BY <2>3, <2>4, PushFacts, Zenon
  <2>6. udp_sessions' \in [Ids -> 0..Len(sent)]
    BY <1>6, <2>2, Zenon DEF PushSession, TypeOK
  <2>7. loop' \in [at : {"select", "push", "input", "ended"}, message : 0..Len(sent),
                   session : 0..Len(sent)]
    BY <1>6, Zenon DEF PushSession, TypeOK
  <2>8. UNCHANGED <<up, sent, wire, serving, held, chan, got, task, answered, accepted>>
    BY <1>6, Zenon DEF PushSession
  <2> QED
    BY <2>5, <2>6, <2>7, <2>8, Zenon DEF TypeOK, QueueItem
<1>7. CASE Input
  <2>1. loop.session \in 1..Len(sent) /\ loop.message \in 1..Len(sent) /\ loop.at = "input"
    BY <1>7 DEF Input, LoopBusy, TypeOK
  <2>2. loop.session \in Messages /\ loop.message \in Messages
    BY <1>0, <2>1, Zenon
  <2>3. /\ TrySend(loop.session, loop.message) \in Seq(Messages)
        /\ Len(TrySend(loop.session, loop.message)) <= ChanCap
    BY <2>2, TrySendFacts, Zenon
  <2>4. \/ chan' = chan
        \/ chan' = [chan EXCEPT ![loop.session] = TrySend(loop.session, loop.message)]
    BY <1>7, Zenon DEF Input
  <2>5. chan' \in [Messages -> Seq(Messages)] /\ \A s \in Messages : Len(chan'[s]) <= ChanCap
    BY <2>2, <2>3, <2>4, Zenon DEF TypeOK
  <2>6. loop' \in [at : {"select", "push", "input", "ended"}, message : 0..Len(sent),
                   session : 0..Len(sent)]
    BY <1>0, <1>7 DEF Input, Return, Idle
  <2>7. up' \in BOOLEAN
    BY <1>7, Zenon DEF Input, Return, TypeOK
  <2>8. UNCHANGED <<sent, wire, udp_sessions, queue, serving, held, got, task, answered, accepted>>
    BY <1>7, Zenon DEF Input
  <2> QED
    BY <2>5, <2>6, <2>7, <2>8, Zenon DEF TypeOK
<1>8. ASSUME NEW t \in Streams, AcceptBi(t) \/ ReadRequest(t) \/ Answer(t) \/ StreamFails(t)
      PROVE  TypeOK'
  <2>1. /\ task' \in [Streams -> {"closed", "reading", "answering", "pushing", "done"}]
        /\ answered' \subseteq Streams
        /\ UNCHANGED <<up, sent, wire, loop, udp_sessions, queue, serving, held, chan, got,
                       accepted>>
    BY <1>8, Zenon DEF AcceptBi, ReadRequest, Answer, StreamFails, TypeOK
  <2> QED
    BY <2>1, Zenon DEF TypeOK
<1>9. ASSUME NEW t \in Streams, PushStream(t) PROVE TypeOK'
  <2>1. [kind |-> "stream", item |-> t] \in QueueItem
    BY Zenon DEF QueueItem
  <2>2. queue' = Append(queue, [kind |-> "stream", item |-> t]) /\ Len(queue) < AcceptCap
    BY <1>9, Zenon DEF PushStream
  <2>3. queue' \in Seq(QueueItem) /\ Len(queue') <= AcceptCap
    BY <2>1, <2>2, PushFacts, Zenon
  <2>4. /\ task' \in [Streams -> {"closed", "reading", "answering", "pushing", "done"}]
        /\ UNCHANGED <<up, sent, wire, loop, udp_sessions, serving, held, chan, got, answered,
                       accepted>>
    BY <1>9, Zenon DEF PushStream, TypeOK
  <2> QED
    BY <2>3, <2>4, Zenon DEF TypeOK, QueueItem
<1>10. ASSUME Accept PROVE TypeOK'
  <2>1. /\ queue' \in Seq(QueueItem) /\ Len(queue') = Len(queue) - 1
        /\ Len(queue) \in Nat /\ Head(queue) = queue[1] /\ 1 \in 1..Len(queue)
        /\ queue[1] \in QueueItem
    BY <1>10, AcceptFacts, Zenon
  <2>2. Len(queue') <= AcceptCap
    BY <2>1, Hy2SessionsAssumption DEF TypeOK
  <2>3. CASE queue[1].kind = "stream"
    <3>1. queue[1].item \in Streams
      BY <2>1, <2>3, Zenon DEF QueueItem
    <3>2. accepted' = accepted \cup {queue[1].item} /\ held' = held
      BY <1>10, <2>1, <2>3, Zenon DEF Accept
    <3> QED
      BY <1>10, <2>1, <2>2, <3>1, <3>2, Zenon DEF TypeOK, Accept, QueueItem
  <2>4. CASE queue[1].kind # "stream"
    <3>1. queue[1].item \in Messages /\ queue[1] = Item(queue[1].item)
      BY <2>1, <2>4, Zenon DEF QueueItem, Item
    <3>2. Readable(queue[1].item)
      BY <2>1, <3>1, Zenon DEF Readable, Item
    <3>3. queue[1].item \in 1..Len(sent)
      BY <1>0, <1>10, <3>1, <3>2 DEF NewIsUntouched, Untouched, Messages
    <3>4. held' = held \cup {queue[1].item} /\ accepted' = accepted
      BY <1>10, <2>1, <2>4, Zenon DEF Accept
    <3> QED
      BY <1>10, <2>1, <2>2, <3>3, <3>4, Zenon DEF TypeOK, Accept, QueueItem
  <2> QED
    BY <2>3, <2>4, Zenon
<1>11. ASSUME NEW s \in held, Recv(s) PROVE TypeOK'
  <2>1. s \in Messages /\ chan[s] \in Seq(Messages) /\ got[s] \in Seq(Messages) /\ chan[s] # <<>>
    BY <1>0, <1>11, Zenon DEF TypeOK, Recv
  <2>2. /\ Head(chan[s]) \in Messages /\ Tail(chan[s]) \in Seq(Messages)
        /\ Len(Tail(chan[s])) = Len(chan[s]) - 1 /\ Len(chan[s]) \in Nat
    BY <2>1, HeadTailFacts, Zenon
  <2>3. Append(got[s], Head(chan[s])) \in Seq(Messages)
    BY <2>1, <2>2, AppendFacts, Zenon
  <2>4. got' \in [Messages -> Seq(Messages)]
    BY <1>11, <2>1, <2>3, Zenon DEF Recv, TypeOK
  <2>5. chan' = [chan EXCEPT ![s] = Tail(chan[s])]
    BY <1>11, Zenon DEF Recv
  <2>6. chan' \in [Messages -> Seq(Messages)]
    BY <2>1, <2>2, <2>5, Zenon DEF TypeOK
  <2>7. Len(chan[s]) <= ChanCap /\ ChanCap \in Nat
    BY <2>1, Hy2SessionsAssumption, Zenon DEF TypeOK
  <2>8. \A x \in Messages : Len(chan'[x]) <= ChanCap
    BY <2>1, <2>2, <2>5, <2>7 DEF TypeOK
  <2>9. UNCHANGED <<up, sent, wire, loop, udp_sessions, queue, serving, held, task, answered,
                    accepted>>
    BY <1>11, Zenon DEF Recv
  <2> QED
    BY <2>4, <2>6, <2>8, <2>9, Zenon DEF TypeOK
<1>12. ASSUME NEW s \in held, Release(s) PROVE TypeOK'
  <2>1. s \in Messages
    BY <1>0, Zenon
  <2>2. chan' \in [Messages -> Seq(Messages)] /\ \A x \in Messages : Len(chan'[x]) <= ChanCap
    BY <1>12, <2>1, Hy2SessionsAssumption, SMTT(20) DEF Release, TypeOK
  <2>3. /\ held' \subseteq held
        /\ UNCHANGED <<up, sent, wire, loop, udp_sessions, queue, serving, got, task, answered,
                       accepted>>
    BY <1>12, Zenon DEF Release
  <2> QED
    BY <2>2, <2>3, Zenon DEF TypeOK
<1>13. CASE ServerDropped
  <2>1. chan' \in [Messages -> Seq(Messages)] /\ \A x \in Messages : Len(chan'[x]) <= ChanCap
    BY <1>13, Hy2SessionsAssumption DEF ServerDropped, TypeOK
  <2>2. /\ queue' = <<>> /\ serving' = FALSE
        /\ UNCHANGED <<up, sent, wire, loop, udp_sessions, held, got, task, answered, accepted>>
    BY <1>13, Zenon DEF ServerDropped
  <2>3. queue' \in Seq(QueueItem) /\ Len(queue') <= AcceptCap
    BY <2>2, Hy2SessionsAssumption
  <2> QED
    BY <2>1, <2>2, <2>3, Zenon DEF TypeOK, QueueItem
<1>14. CASE UNCHANGED vars
  BY <1>14, Zenon DEF vars, TypeOK
<1> QED
  BY Zenon, <1>1, <1>2, <1>3, <1>4, <1>5, <1>6, <1>7, <1>8, <1>9, <1>10, <1>11, <1>12, <1>13,
     <1>14 DEF Next

-----------------------------------------------------------------------------
\* Who can read from a packet connection after a step that changes the accept
\* queue or the application's hold.
LEMMA PushSessionReadable ==
    ASSUME TypeOK, LoopBusy, PushSession
    PROVE  /\ loop.session \in Messages
           /\ \A s : Queued(s)' <=> Queued(s) \/ s = loop.session
           /\ \A s : Readable(s)' <=> Readable(s) \/ s = loop.session
<1>1. loop.session \in 1..Len(sent)
  BY DEF PushSession, LoopBusy, TypeOK
<1>2. loop.session \in Messages
  BY <1>1, SentType, Zenon
<1>3. queue' = Append(queue, Item(loop.session)) /\ Len(queue) < AcceptCap /\ held' = held
  BY Zenon DEF PushSession, Item, sessionVars
<1>4. Item(loop.session) \in QueueItem
  BY <1>2, Zenon DEF Item, QueueItem
<1>5. /\ Len(queue) + 1 \in 1..Len(queue') /\ queue'[Len(queue) + 1] = Item(loop.session)
      /\ \A i \in 1..Len(queue) : i \in 1..Len(queue') /\ queue'[i] = queue[i]
      /\ \A i \in 1..Len(queue') : i \in 1..Len(queue) \/ i = Len(queue) + 1
  BY <1>3, <1>4, PushFacts, Zenon
<1>6. \A s, r : Item(s) = Item(r) => s = r
  BY Zenon DEF Item
<1>7. \A s : Queued(s)' <=> Queued(s) \/ s = loop.session
  BY <1>5, <1>6, Zenon DEF Queued
<1> QED
  BY <1>2, <1>3, <1>7, Zenon DEF Readable, Queued, Item

\* A session that the service accepts leaves the queue and stays readable.
LEMMA AcceptReadable ==
    ASSUME TypeOK, Once, Accept
    PROVE  /\ \A s : Queued(s)' => Queued(s)
           /\ \A s : Readable(s)' <=> Readable(s)
           /\ \A s \in Messages : s \in held' /\ s \notin held => queue[1] = Item(s) /\ ~Queued(s)'
<1>1. /\ Len(queue) \in Nat /\ 1 \in 1..Len(queue) /\ Head(queue) = queue[1]
      /\ Len(queue') = Len(queue) - 1 /\ queue[1] \in QueueItem
      /\ \A i \in 1..Len(queue') : i + 1 \in 1..Len(queue) /\ queue'[i] = queue[i + 1]
  BY AcceptFacts, Zenon
<1>2. \A s : Queued(s)' => Queued(s)
  BY <1>1, Zenon DEF Queued
<1>3. ASSUME NEW i \in 1..Len(queue), i # 1
      PROVE  i - 1 \in 1..Len(queue') /\ queue'[i - 1] = queue[i]
  <2>1. i - 1 \in 1..Len(queue') /\ (i - 1) + 1 = i
    BY <1>1, <1>3
  <2> QED
    BY <1>1, <2>1, Zenon
<1>4. \A s : Queued(s) => Queued(s)' \/ queue[1] = Item(s)
  BY <1>3, Zenon DEF Queued
<1>5. CASE queue[1].kind = "stream"
  <2>1. held' = held /\ \A s : queue[1] # Item(s)
    BY <1>1, <1>5 DEF Accept, Item
  <2> QED
    BY <1>2, <1>4, <2>1, Zenon DEF Readable, Queued, Item
<1>6. CASE queue[1].kind # "stream"
  <2> DEFINE q == queue[1].item
  <2>1. q \in Messages /\ queue[1] = Item(q)
    BY <1>1, <1>6, Zenon DEF QueueItem, Item
  <2>2. held' = held \cup {q}
    BY <1>1, <1>6, Zenon DEF Accept
  <2>3. \A s : queue[1] = Item(s) => s = q
    BY DEF Item
  <2>4. Queued(q)
    BY <1>1, <2>1, Zenon DEF Queued
  <2> HIDE DEF q
  <2>5. \A s : Readable(s)' <=> Readable(s)
    BY <1>2, <1>4, <2>2, <2>3, <2>4, Zenon DEF Readable, Queued, Item
  <2>6. \A s : s = q => ~Queued(s)'
    <3> SUFFICES ASSUME NEW i \in 1..Len(queue'), queue'[i] = Item(q) PROVE FALSE
      BY Zenon DEF Queued, Item
    <3>1. i + 1 \in 1..Len(queue) /\ queue[i + 1] = Item(q) /\ i \in Nat /\ i >= 1
      BY <1>1
    <3>2. i + 1 = 1
      BY <1>1, <2>1, <3>1, Zenon DEF Once
    <3> QED
      BY <3>1, <3>2
  <2> QED
    BY <1>2, <2>1, <2>2, <2>5, <2>6, Zenon
<1> QED
  BY <1>5, <1>6, Zenon

\* Letting go of a packet connection leaves nobody who can read from it.
LEMMA ReleaseReadable ==
    ASSUME TypeOK, Once, NEW r \in held, Release(r)
    PROVE  /\ \A s : Queued(s)' <=> Queued(s)
           /\ \A s : Readable(s)' <=> Readable(s) /\ s # r
<1>1. queue' = queue /\ held' = held \ {r} /\ r \in Messages
  BY SentType, Zenon DEF Release, acceptVars, TypeOK
<1>2. \A s : Queued(s)' <=> Queued(s)
  BY <1>1, Zenon DEF Queued
<1> QED
  BY <1>1, <1>2 DEF Readable, Queued, Once, Item

\* So does the end of the Server for what it had not accepted.
LEMMA DroppedReadable ==
    ASSUME ServerDropped
    PROVE  /\ \A s : ~Queued(s)'
           /\ \A s : Readable(s)' <=> s \in held
<1>1. queue' = <<>> /\ held' = held
  BY Zenon DEF ServerDropped
<1> QED
  BY <1>1 DEF Readable, Queued

\* A stream in the accept queue is no packet connection.
LEMMA PushStreamReadable ==
    ASSUME TypeOK, NEW t \in Streams, PushStream(t)
    PROVE  /\ \A s : Queued(s)' <=> Queued(s)
           /\ \A s : Readable(s)' <=> Readable(s)
           /\ \A i \in 1..Len(queue'), s \in Messages :
                 queue'[i] = Item(s) => i \in 1..Len(queue) /\ queue'[i] = queue[i]
<1>1. [kind |-> "stream", item |-> t] \in QueueItem
  BY Zenon DEF QueueItem
<1>2. /\ queue' = Append(queue, [kind |-> "stream", item |-> t]) /\ Len(queue) < AcceptCap
      /\ held' = held
  BY Zenon DEF PushStream, sessionVars
<1>3. /\ queue'[Len(queue) + 1] = [kind |-> "stream", item |-> t]
      /\ \A i \in 1..Len(queue) : i \in 1..Len(queue') /\ queue'[i] = queue[i]
      /\ \A i \in 1..Len(queue') : i \in 1..Len(queue) \/ i = Len(queue) + 1
  BY <1>1, <1>2, PushFacts, Zenon
<1>4. \A s : Item(s) # [kind |-> "stream", item |-> t]
  BY Zenon DEF Item
<1>5. \A s : Queued(s)' <=> Queued(s)
  BY <1>3, <1>4, Zenon DEF Queued
<1> QED
  BY <1>2, <1>3, <1>4, <1>5 DEF Readable, Queued, Item

(***************************************************************************)
(* The steps, by what they change. Nothing else touches who can read from  *)
(* a packet connection, what is in its channel and what came out of it.    *)
(***************************************************************************)
Quiet ==
    /\ UNCHANGED <<sent, udp_sessions, queue, held, chan, got>>
    /\ wire' \subseteq wire
    /\ \/ loop' = loop
       \/ loop'.at \in {"select", "ended"} /\ loop'.message = 0 /\ loop'.session = 0

\* Input as far as it is a packet that is complete.
Inputs ==
    /\ loop.at = "input" /\ sent[loop.message].effect = "packet"
    /\ chan' = [chan EXCEPT ![loop.session] = TrySend(loop.session, loop.message)]
    /\ loop' = Idle
    /\ UNCHANGED <<sent, wire, udp_sessions, queue, held, got>>

\* Datagram as far as the message decodes.
Takes(n) ==
    LET s == udp_sessions[sent[n].id]
    IN  /\ loop.at = "select"
        /\ wire' = wire \ {n}
        /\ loop' = IF s # 0 /\ Strong(s)
                   THEN [at |-> "input", message |-> n, session |-> s]
                   ELSE [at |-> "push", message |-> n, session |-> n]
        /\ UNCHANGED <<sent, udp_sessions, queue, held, chan, got>>

\* A step that leaves the loop idle without a packet for the message it had is
\* one of a message that completes none.
LEMMA StepCases ==
    ASSUME TypeOK, [Next]_vars
    PROVE  \/ \E i \in Ids, e \in Effects : SendMessage(i, e)
           \/ \E n \in wire : Takes(n)
           \/ Quiet /\ (loop' = loop \/ loop.at # "input" \/ sent[loop.message].effect # "packet")
           \/ PushSession \/ Inputs
           \/ \E t \in Streams : PushStream(t)
           \/ Accept \/ ServerDropped
           \/ \E s \in held : Recv(s) \/ Release(s)
<1> USE DEF netVars, loopVars, acceptVars, streamVars, sessionVars
<1>1. ASSUME NEW n \in wire, LoseMessage(n) PROVE Quiet /\ loop' = loop
  BY <1>1, Zenon DEF LoseMessage, Quiet
<1>2. ASSUME NEW n \in wire, Datagram(n) PROVE Takes(n) \/ (Quiet /\ loop.at # "input")
  <2>1. CASE sent[n].effect = "garbled"
    BY <1>2, <2>1, Zenon DEF Datagram, Quiet, Return, Idle
  <2>2. CASE sent[n].effect # "garbled"
    BY <1>2, <2>2, Zenon DEF Datagram, Takes
  <2> QED
    BY <2>1, <2>2, Zenon
<1>3. CASE ConnectionLost
  BY <1>3, Zenon DEF ConnectionLost, Quiet
<1>4. CASE LoopFails \/ PushFails
  BY <1>4, Zenon DEF LoopFails, PushFails, Quiet, Return, Idle
<1>5. CASE Input
  <2>1. CASE sent[loop.message].effect = "packet"
    BY <1>5, <2>1, Zenon DEF Input, Inputs
  <2>2. CASE sent[loop.message].effect # "packet"
    BY <1>5, <2>2 DEF Input, Quiet, Return, Idle
  <2> QED
    BY <2>1, <2>2, Zenon
<1>6. ASSUME NEW t \in Streams, AcceptBi(t) \/ ReadRequest(t) \/ Answer(t) \/ StreamFails(t)
      PROVE  Quiet /\ loop' = loop
  BY <1>6, Zenon DEF AcceptBi, ReadRequest, Answer, StreamFails, Quiet
<1>7. CASE UNCHANGED vars
  BY <1>7, Zenon DEF vars, Quiet
<1> QED
  BY <1>1, <1>2, <1>3, <1>4, <1>5, <1>6, <1>7, Zenon DEF Next

\* What one recv does to the packets of its session.
LEMMA RecvFacts ==
    ASSUME TypeOK, NEW r \in held, Recv(r)
    PROVE  /\ r \in Messages /\ chan[r] # <<>> /\ Len(got[r]) \in Nat /\ Len(chan[r]) \in Nat
           /\ 1 \in 1..Len(chan[r])
           /\ Len(got'[r]) = Len(got[r]) + 1 /\ got'[r][Len(got[r]) + 1] = chan[r][1]
           /\ \A i \in 1..Len(got[r]) : i \in 1..Len(got'[r]) /\ got'[r][i] = got[r][i]
           /\ \A i \in 1..Len(got'[r]) : i \in 1..Len(got[r]) \/ i = Len(got[r]) + 1
           /\ Len(chan'[r]) = Len(chan[r]) - 1
           /\ \A i \in 1..Len(chan'[r]) : i + 1 \in 1..Len(chan[r]) /\ chan'[r][i] = chan[r][i + 1]
           /\ \A s \in Messages : s # r => got'[s] = got[s] /\ chan'[s] = chan[s]
           /\ UNCHANGED <<sent, wire, loop, udp_sessions, queue, held>>
<1>1. r \in Messages
  BY SentType, Zenon DEF TypeOK
<1>2. chan[r] \in Seq(Messages) /\ chan[r] # <<>> /\ got[r] \in Seq(Messages)
  BY <1>1, Zenon DEF TypeOK, Recv
<1>3. /\ got'[r] = Append(got[r], Head(chan[r])) /\ chan'[r] = Tail(chan[r])
      /\ \A s \in Messages : s # r => got'[s] = got[s] /\ chan'[s] = chan[s]
      /\ UNCHANGED <<sent, wire, loop, udp_sessions, queue, held>>
  BY <1>1, Zenon DEF Recv, TypeOK, netVars, loopVars, acceptVars
<1>4. /\ Len(chan[r]) \in Nat /\ 1 \in 1..Len(chan[r])
      /\ Head(chan[r]) = chan[r][1] /\ Head(chan[r]) \in Messages
      /\ Len(chan'[r]) = Len(chan[r]) - 1
      /\ \A i \in 1..Len(chan'[r]) : i + 1 \in 1..Len(chan[r]) /\ chan'[r][i] = chan[r][i + 1]
  BY <1>2, <1>3, HeadTailFacts
<1>5. /\ Len(got[r]) \in Nat
      /\ Len(got'[r]) = Len(got[r]) + 1 /\ got'[r][Len(got[r]) + 1] = Head(chan[r])
      /\ \A i \in 1..Len(got[r]) : i \in 1..Len(got'[r]) /\ got'[r][i] = got[r][i]
      /\ \A i \in 1..Len(got'[r]) : i \in 1..Len(got[r]) \/ i = Len(got[r]) + 1
  BY <1>2, <1>3, <1>4, AppendFacts
<1> QED
  BY <1>1, <1>2, <1>3, <1>4, <1>5, Zenon

\* What a complete packet does to the channel of its session.
LEMMA InputsFacts ==
    ASSUME TypeOK, LoopBusy, Inputs
    PROVE  /\ loop.session \in Messages /\ loop.message \in Messages
           /\ loop.session \in 1..Len(sent) /\ loop.message \in 1..Len(sent)
           /\ \A s \in Messages : s # loop.session => chan'[s] = chan[s]
           /\ Len(chan[loop.session]) \in Nat
           /\ \A i \in 1..Len(chan'[loop.session]) :
                 \/ /\ i \in 1..Len(chan[loop.session])
                    /\ chan'[loop.session][i] = chan[loop.session][i]
                 \/ i = Len(chan[loop.session]) + 1 /\ chan'[loop.session][i] = loop.message
           /\ chan[loop.session] # <<>> /\ chan'[loop.session] # <<>> =>
                 chan'[loop.session][1] = chan[loop.session][1]
           /\ chan'[loop.session] # <<>> => Readable(loop.session)
                 \/ chan'[loop.session] = chan[loop.session]
           /\ Readable(loop.session) => chan'[loop.session] # <<>>
<1> DEFINE r == loop.session
           n == loop.message
<1>1. r \in 1..Len(sent) /\ n \in 1..Len(sent)
  BY DEF Inputs, LoopBusy, TypeOK
<1>2. r \in Messages /\ n \in Messages
  BY <1>1, SentType, Zenon
<1>3. /\ chan'[r] = TrySend(r, n)
      /\ \A s \in Messages : s # r => chan'[s] = chan[s]
  BY <1>2, Zenon DEF Inputs, TypeOK
<1>4. chan[r] \in Seq(Messages) /\ Len(chan[r]) \in Nat
  BY <1>2 DEF TypeOK
<1>5. /\ Append(chan[r], n) # <<>>
      /\ Append(chan[r], n)[Len(chan[r]) + 1] = n
      /\ \A i \in 1..Len(chan[r]) : Append(chan[r], n)[i] = chan[r][i]
      /\ \A i \in 1..Len(Append(chan[r], n)) : i \in 1..Len(chan[r]) \/ i = Len(chan[r]) + 1
  BY <1>2, <1>4, AppendFacts
<1>6. /\ \/ TrySend(r, n) = <<>>
         \/ TrySend(r, n) = chan[r]
         \/ Readable(r) /\ TrySend(r, n) = Append(chan[r], n)
      /\ Readable(r) /\ chan[r] = <<>> => TrySend(r, n) = Append(chan[r], n)
      /\ Readable(r) /\ chan[r] # <<>> =>
            TrySend(r, n) = chan[r] \/ TrySend(r, n) = Append(chan[r], n)
  BY <1>2, TrySendFacts, Zenon
<1>7. chan[r] # <<>> => 1 \in 1..Len(chan[r])
  BY <1>4
<1> HIDE DEF r, n
<1>8. \A i \in 1..Len(chan'[r]) : \/ i \in 1..Len(chan[r]) /\ chan'[r][i] = chan[r][i]
                                  \/ i = Len(chan[r]) + 1 /\ chan'[r][i] = n
  <2>1. CASE chan'[r] = <<>>
    BY <2>1
  <2>2. CASE chan'[r] = chan[r]
    BY <2>2, Zenon
  <2>3. CASE chan'[r] = Append(chan[r], n)
    BY <1>5, <2>3, Zenon
  <2> QED
    BY <1>3, <1>6, <2>1, <2>2, <2>3, Zenon
<1>9. chan[r] # <<>> /\ chan'[r] # <<>> => chan'[r][1] = chan[r][1]
  BY <1>3, <1>5, <1>6, <1>7, Zenon
<1>10. Readable(r) => chan'[r] # <<>>
  BY <1>3, <1>5, <1>6, Zenon
<1>11. chan'[r] # <<>> => Readable(r) \/ chan'[r] = chan[r]
  BY <1>3, <1>6, Zenon
<1> QED
  BY <1>1, <1>2, <1>3, <1>4, <1>8, <1>9, <1>10, <1>11, Zenon DEF r, n

\* Only what the loop inputs reaches a channel.
LEMMA PassedStep ==
    ASSUME TypeOK, LoopBusy, [Next]_vars
    PROVE  \A n \in Messages : Passed(n)' => Passed(n) \/ (Inputs /\ n = loop.message)
<1> SUFFICES ASSUME NEW n \in Messages, NEW s \in Messages,
                    \/ \E i \in 1..Len(got'[s]) : got'[s][i] = n
                    \/ \E i \in 1..Len(chan'[s]) : chan'[s][i] = n
             PROVE  Passed(n) \/ (Inputs /\ n = loop.message)
  BY Zenon DEF Passed
<1>1. CASE chan'[s] = chan[s] /\ got'[s] = got[s]
  BY <1>1, Zenon DEF Passed
<1>2. CASE chan'[s] = <<>> /\ got'[s] = got[s]
  BY <1>2 DEF Passed
<1>3. ASSUME NEW r \in held, Recv(r) PROVE Passed(n) \/ (Inputs /\ n = loop.message)
  <2>1. CASE s # r
    BY <1>1, <1>3, <2>1, RecvFacts, Zenon
  <2>2. CASE s = r
    <3>1. /\ r \in Messages /\ 1 \in 1..Len(chan[r])
          /\ got'[r][Len(got[r]) + 1] = chan[r][1]
          /\ \A i \in 1..Len(got[r]) : got'[r][i] = got[r][i]
          /\ \A i \in 1..Len(got'[r]) : i \in 1..Len(got[r]) \/ i = Len(got[r]) + 1
          /\ \A i \in 1..Len(chan'[r]) :
                i + 1 \in 1..Len(chan[r]) /\ chan'[r][i] = chan[r][i + 1]
      BY <1>3, RecvFacts
    <3>2. ASSUME NEW i \in 1..Len(got'[r]), got'[r][i] = n PROVE Passed(n)
      BY <3>1, <3>2, Zenon DEF Passed
    <3>3. ASSUME NEW i \in 1..Len(chan'[r]), chan'[r][i] = n PROVE Passed(n)
      BY <3>1, <3>3, Zenon DEF Passed
    <3> QED
      BY <2>2, <3>2, <3>3, Zenon
  <2> QED
    BY <2>1, <2>2, Zenon
<1>4. CASE Inputs
  <2>1. got'[s] = got[s]
    BY <1>4, Zenon DEF Inputs
  <2>2. CASE s # loop.session
    BY <1>1, <1>4, <2>1, <2>2, InputsFacts, Zenon
  <2>3. CASE s = loop.session
    <3>1. \A i \in 1..Len(chan'[s]) : \/ i \in 1..Len(chan[s]) /\ chan'[s][i] = chan[s][i]
                                      \/ chan'[s][i] = loop.message
      BY <1>4, <2>3, InputsFacts, Zenon
    <3> QED
      BY <1>4, <2>1, <3>1, Zenon DEF Passed
  <2> QED
    BY <2>2, <2>3, Zenon
<1>5. ASSUME NEW r \in held, Release(r) PROVE Passed(n) \/ (Inputs /\ n = loop.message)
  <2>1. chan' = [chan EXCEPT ![r] = <<>>] /\ got' = got
    BY <1>5, Zenon DEF Release
  <2>2. chan'[s] = chan[s] \/ chan'[s] = <<>>
    BY <2>1, Zenon DEF TypeOK
  <2> QED
    BY <1>1, <1>2, <2>1, <2>2, Zenon
<1>6. CASE ServerDropped
  BY <1>1, <1>2, <1>6, Zenon DEF ServerDropped
<1>7. CASE \/ \E i \in Ids, e \in Effects : SendMessage(i, e)
           \/ \E x \in wire : Takes(x)
           \/ Quiet \/ PushSession \/ Accept
           \/ \E t \in Streams : PushStream(t)
  BY <1>1, <1>7, Zenon DEF SendMessage, Takes, Quiet, PushSession, Accept, PushStream, sessionVars
<1> QED
  BY <1>3, <1>4, <1>5, <1>6, <1>7, StepCases, Zenon

\* Nobody gets hold of a packet connection before it is pushed.
LEMMA ReadableStep ==
    ASSUME TypeOK, LoopBusy, Once, [Next]_vars
    PROVE  \A s : Readable(s)' => Readable(s) \/ (PushSession /\ s = loop.session)
<1>1. CASE PushSession
  BY <1>1, PushSessionReadable, Zenon
<1>2. CASE Accept
  BY <1>2, AcceptReadable, Zenon
<1>3. ASSUME NEW r \in held, Release(r) PROVE \A s : Readable(s)' => Readable(s)
  BY <1>3, ReleaseReadable, Zenon
<1>4. CASE ServerDropped
  BY <1>4, DroppedReadable, Zenon DEF Readable
<1>5. ASSUME NEW t \in Streams, PushStream(t) PROVE \A s : Readable(s)' => Readable(s)
  BY <1>5, PushStreamReadable, Zenon
<1>6. CASE UNCHANGED <<queue, held>>
  BY <1>6, Zenon DEF Readable
<1>7. CASE \/ \E i \in Ids, e \in Effects : SendMessage(i, e)
           \/ \E x \in wire : Takes(x)
           \/ Quiet \/ Inputs
           \/ \E s \in held : Recv(s)
  BY <1>6, <1>7, Zenon DEF SendMessage, Takes, Quiet, Inputs, Recv, acceptVars, sessionVars
<1> QED
  BY <1>1, <1>2, <1>3, <1>4, <1>5, <1>7, StepCases, Zenon

\* A packet connection that nobody can read from and that the loop does not
\* have gets nothing.
LEMMA UnreadStep ==
    ASSUME TypeOK, LoopBusy, [Next]_vars, NEW s \in Messages, ~Readable(s), loop.session # s
    PROVE  got'[s] = got[s] /\ (chan'[s] = chan[s] \/ chan'[s] = <<>>)
<1>1. s \notin held
  BY Zenon DEF Readable
<1>2. ASSUME NEW r \in held, Recv(r) PROVE got'[s] = got[s] /\ chan'[s] = chan[s]
  BY <1>1, <1>2, RecvFacts, Zenon
<1>3. CASE Inputs
  BY <1>3, InputsFacts, Zenon DEF Inputs
<1>4. ASSUME NEW r \in held, Release(r) PROVE got'[s] = got[s] /\ chan'[s] = chan[s]
  BY <1>1, <1>4, Zenon DEF Release, TypeOK
<1>5. CASE ServerDropped
  BY <1>5, Zenon DEF ServerDropped
<1>6. CASE \/ \E i \in Ids, e \in Effects : SendMessage(i, e)
           \/ \E x \in wire : Takes(x)
           \/ Quiet \/ PushSession \/ Accept
           \/ \E t \in Streams : PushStream(t)
  BY <1>6, Zenon DEF SendMessage, Takes, Quiet, PushSession, Accept, PushStream, sessionVars
<1> QED
  BY <1>2, <1>3, <1>4, <1>5, <1>6, StepCases, Zenon

\* A message that leaves no trace goes on leaving none until the loop pushes a
\* packet connection for it.
LEMMA UntouchedStep ==
    ASSUME TypeOK, LoopBusy, Once, [Next]_vars, NEW n \in Messages, Untouched(n),
           loop.session # n
    PROVE  /\ ~Readable(n)' /\ got'[n] = <<>> /\ chan'[n] = <<>>
           /\ \A i \in Ids : udp_sessions'[i] # n
<1>1. ~Readable(n)'
  BY ReadableStep, Zenon DEF Untouched
<1>2. got'[n] = <<>> /\ chan'[n] = <<>>
  BY UnreadStep, Zenon DEF Untouched
<1>3. udp_sessions' = udp_sessions
        \/ (PushSession /\ udp_sessions' =
                [udp_sessions EXCEPT ![sent[loop.message].id] = loop.session])
  BY StepCases, Zenon DEF SendMessage, Takes, Quiet, PushSession, Accept, PushStream, Inputs,
         ServerDropped, Recv, Release, loopVars
<1>4. \A i \in Ids : udp_sessions'[i] # n
  BY <1>3, Zenon DEF Untouched, TypeOK
<1> QED
  BY <1>1, <1>2, <1>4, Zenon

\* The invariant about what the loop has not taken is kept.
LEMMA NewStep ==
    ASSUME IInv, [Next]_vars
    PROVE  NewIsUntouched'
<1>0. TypeOK /\ NewIsUntouched /\ LoopBusy /\ LoopInv /\ Once
  BY Zenon DEF IInv, LoopInv
<1> SUFFICES ASSUME NEW n \in Messages, n \in wire' \/ n > Len(sent')
             PROVE  Untouched(n)' /\ ~Passed(n)' /\ loop'.message # n /\ loop'.session # n
  BY Zenon DEF NewIsUntouched
<1>1. Len(sent) \in Nat /\ n \in Nat \ {0}
  BY <1>0, SentType DEF Messages
<1>2. n \in wire \/ n > Len(sent)
  <2>1. ASSUME NEW i \in Ids, NEW e \in Effects, SendMessage(i, e)
        PROVE  n \in wire \/ n > Len(sent)
    <3>1. Len(sent') = Len(sent) + 1 /\ wire' = wire \cup {Len(sent) + 1}
      BY <1>0, <2>1, SentGrows, Zenon
    <3> QED
      BY <1>1, <3>1
  <2>2. CASE wire' \subseteq wire /\ sent' = sent
    BY <2>2, Zenon
  <2>3. \/ \E i \in Ids, e \in Effects : SendMessage(i, e)
        \/ wire' \subseteq wire /\ sent' = sent
    BY <1>0, StepCases, Zenon DEF Takes, Quiet, PushSession, Accept, PushStream, Inputs,
         ServerDropped, Recv, Release, netVars
  <2> QED
    BY <2>1, <2>2, <2>3, Zenon
<1>3. Untouched(n) /\ ~Passed(n) /\ loop.message # n /\ loop.session # n
  BY <1>0, <1>2, Zenon DEF NewIsUntouched
<1>4. Untouched(n)'
  <2>1. /\ ~Readable(n)' /\ got'[n] = <<>> /\ chan'[n] = <<>>
        /\ \A i \in Ids : udp_sessions'[i] # n
    BY <1>0, <1>3, UntouchedStep, Zenon
  <2> QED
    BY <2>1, Zenon DEF Untouched
<1>5. ~Passed(n)'
  BY <1>0, <1>3, PassedStep, Zenon
<1>6. loop'.message # n /\ loop'.session # n
  <2>1. ASSUME NEW x \in wire, Takes(x) PROVE loop'.message # n /\ loop'.session # n
    <3>1. x \in 1..Len(sent) /\ sent[x].id \in Ids /\ wire' = wire \ {x} /\ sent' = sent
      BY <1>0, <2>1, SentType, Zenon DEF TypeOK, Takes
    <3>2. n # x
      BY <1>1, <3>1
    <3>3. udp_sessions[sent[x].id] # n
      BY <1>3, <3>1, Zenon DEF Untouched
    <3> QED
      BY <2>1, <3>2, <3>3, Zenon DEF Takes
  <2>2. CASE loop' = loop
    BY <1>3, <2>2, Zenon
  <2>3. CASE loop'.message = 0 /\ loop'.session = 0
    BY <1>1, <2>3, Zenon
  <2>4. CASE PushSession
    BY <1>0, <1>3, <2>4, Zenon DEF PushSession, TypeOK
  <2>5. CASE Inputs
    BY <2>3, <2>5, Zenon DEF Inputs, Idle
  <2>6. \/ \E x \in wire : Takes(x)
        \/ loop' = loop
        \/ loop'.message = 0 /\ loop'.session = 0
        \/ PushSession \/ Inputs
    BY <1>0, StepCases, Zenon DEF SendMessage, Quiet, Accept, PushStream, ServerDropped, Recv, Release,
         loopVars
  <2> QED
    BY <2>1, <2>2, <2>3, <2>4, <2>5, <2>6, Zenon
<1> QED
  BY <1>4, <1>5, <1>6, Zenon

\* The channel of the packet connection that waits to be pushed stays empty.
LEMMA PushedStays ==
    ASSUME TypeOK, LoopBusy, [Next]_vars, NEW s \in Messages, Untouched(s), ~Inputs
    PROVE  got'[s] = <<>> /\ chan'[s] = <<>>
<1>1. s \notin held /\ got[s] = <<>> /\ chan[s] = <<>>
  BY Zenon DEF Untouched, Readable
<1>2. ASSUME NEW r \in held, Recv(r) PROVE got'[s] = got[s] /\ chan'[s] = chan[s]
  BY <1>1, <1>2, RecvFacts, Zenon
<1>3. ASSUME NEW r \in held, Release(r) PROVE got'[s] = got[s] /\ chan'[s] = chan[s]
  BY <1>1, <1>3, Zenon DEF Release, TypeOK
<1>4. CASE ServerDropped
  BY <1>1, <1>4, Zenon DEF ServerDropped
<1>5. CASE UNCHANGED <<chan, got>>
  BY <1>1, <1>5, Zenon
<1>6. \/ UNCHANGED <<chan, got>> \/ ServerDropped
      \/ \E r \in held : Recv(r) \/ Release(r)
  BY StepCases, Zenon DEF SendMessage, Takes, Quiet, PushSession, Accept, PushStream, sessionVars
<1> QED
  BY <1>1, <1>2, <1>3, <1>4, <1>5, <1>6, Zenon

\* What the loop knows about its message and its packet connection.
LEMMA LoopStep ==
    ASSUME IInv, [Next]_vars
    PROVE  LoopInv'
<1>0. TypeOK /\ NewIsUntouched /\ LoopIdle /\ LoopBusy /\ LoopPushes /\ LoopInputs /\ Once /\ Table
  BY Zenon DEF IInv, LoopInv
<1>1. /\ Len(sent) \in Nat /\ loop.message \in 0..Len(sent) /\ loop.session \in 0..Len(sent)
      /\ loop.at \in {"select", "push", "input", "ended"}
      /\ \A n \in 1..Len(sent) : n \in Messages /\ sent[n].id \in Ids
  BY <1>0, SentType, Zenon DEF TypeOK
<1>2. /\ \A n \in Messages : Passed(n)' => Passed(n) \/ (Inputs /\ n = loop.message)
      /\ \A s : Readable(s)' => Readable(s) \/ (PushSession /\ s = loop.session)
  BY <1>0, PassedStep, ReadableStep, Zenon
<1>3. CASE loop'.at \in {"select", "ended"} /\ loop'.message = 0 /\ loop'.session = 0
  BY <1>3, Zenon DEF LoopInv, LoopIdle, LoopBusy, LoopPushes, LoopInputs
<1>4. ASSUME NEW x \in wire, Takes(x) PROVE LoopInv'
  <2> DEFINE u == udp_sessions[sent[x].id]
  <2>1. x \in 1..Len(sent) /\ x \in Messages /\ sent[x].id \in Ids
    BY <1>0, <1>1, Zenon DEF TypeOK
  <2>2. u \in 0..Len(sent)
    BY <1>0, <2>1, Zenon DEF TypeOK
  <2>3. Untouched(x) /\ ~Passed(x)
    BY <1>0, <2>1, Zenon DEF NewIsUntouched
  <2>4. UNCHANGED <<sent, udp_sessions, queue, held, chan, got>> /\ loop.at = "select"
    BY <1>4, Zenon DEF Takes
  <2>5. /\ \A s : Readable(s)' <=> Readable(s)
        /\ \A n : Passed(n)' <=> Passed(n)
        /\ Untouched(x)'
    BY <2>3, <2>4, Zenon DEF Readable, Passed, Untouched
  <2>6. loop.session = 0
    BY <1>0, <2>4, Zenon DEF LoopIdle
  <2>7. CASE u # 0 /\ Strong(u)
    <3>1. loop' = [at |-> "input", message |-> x, session |-> u]
      BY <1>4, <2>7, Zenon DEF Takes
    <3>2. sent[u].id = sent[x].id /\ udp_sessions[sent[u].id] = u
      BY <1>0, <2>1, <2>7, Zenon DEF Table
    <3> HIDE DEF u
    <3>3. LoopBusy' /\ LoopInputs'
      BY <1>1, <2>1, <2>3, <2>4, <2>5, <2>7, <3>1, <3>2 DEF LoopBusy, LoopInputs, Messages
    <3> QED
      BY <3>1, <3>3, Zenon DEF LoopInv, LoopIdle, LoopPushes
  <2>8. CASE ~(u # 0 /\ Strong(u))
    <3>1. loop' = [at |-> "push", message |-> x, session |-> x]
      BY <1>4, <2>8, Zenon DEF Takes
    <3>2. ~Readable(0)
      BY <1>0 DEF Readable, TypeOK, Messages
    <3>3. ~Readable(u)
      BY <2>8, <3>2, Zenon DEF Strong
    <3>4. LoopPushes'
      BY <2>4, <2>5, <3>1, <3>3, Zenon DEF LoopPushes
    <3>5. LoopBusy'
      BY <1>1, <2>1, <2>3, <2>4, <2>5, <3>1 DEF LoopBusy
    <3> QED
      BY <3>1, <3>4, <3>5, Zenon DEF LoopInv, LoopIdle, LoopInputs
  <2> QED
    BY <2>7, <2>8, Zenon
<1>5. CASE PushSession
  <2>1. /\ loop.at = "push" /\ loop.message \in 1..Len(sent) /\ loop.session = loop.message
        /\ sent[loop.message].id \in Ids
    BY <1>0, <1>1, <1>5 DEF PushSession, LoopBusy, LoopPushes
  <2>2. /\ loop' = [loop EXCEPT !.at = "input"]
        /\ udp_sessions' = [udp_sessions EXCEPT ![sent[loop.message].id] = loop.session]
        /\ UNCHANGED <<sent, chan, got>>
    BY <1>5, Zenon DEF PushSession, netVars, sessionVars
  <2>3. /\ loop'.at = "input" /\ loop'.message = loop.message /\ loop'.session = loop.session
    BY <1>0, <2>2, Zenon DEF TypeOK
  <2>4. \A n : Passed(n)' <=> Passed(n)
    BY <2>2, Zenon DEF Passed
  <2>5. LoopBusy'
    BY <1>0, <2>1, <2>2, <2>3, <2>4, Zenon DEF LoopBusy
  <2>6. udp_sessions'[sent[loop.message].id] = loop.session
    BY <1>0, <2>1, <2>2, Zenon DEF TypeOK
  <2>7. LoopInputs'
    BY <2>1, <2>2, <2>3, <2>6, Zenon DEF LoopInputs
  <2> QED
    BY <2>3, <2>5, <2>7, Zenon DEF LoopInv, LoopIdle, LoopPushes
<1>6. ASSUME loop' = loop, UNCHANGED udp_sessions, ~Inputs, ~PushSession,
             \A n \in 1..Len(sent) : sent'[n] = sent[n]
      PROVE  LoopInv'
  <2>1. LoopIdle'
    BY <1>0, <1>6, Zenon DEF LoopIdle
  <2>2. ASSUME loop.at \in {"push", "input"} PROVE loop.message \in 1..Len(sent) /\ loop.session \in 1..Len(sent)
    BY <1>0, <1>1, <2>2 DEF LoopBusy
  <2>3. LoopBusy'
    BY <1>0, <1>1, <1>2, <1>6, <2>2, Zenon DEF LoopBusy
  <2>4. LoopInputs'
    BY <1>0, <1>6, <2>2, Zenon DEF LoopInputs
  <2>5. ASSUME loop.at = "push" PROVE Untouched(loop.message)'
    <3>1. loop.message \in Messages /\ Untouched(loop.message)
      BY <1>0, <1>1, <2>2, <2>5, Zenon DEF LoopPushes
    <3>2. ~Readable(loop.message)'
      BY <1>2, <1>6, <3>1, Zenon DEF Untouched
    <3>3. got'[loop.message] = <<>> /\ chan'[loop.message] = <<>>
      BY <1>0, <1>6, <2>5, <3>1, PushedStays, Zenon
    <3> QED
      BY <1>6, <3>1, <3>2, <3>3, Zenon DEF Untouched
  <2>6. LoopPushes'
    <3> SUFFICES ASSUME loop.at = "push"
                 PROVE  /\ loop.message = loop.session /\ Untouched(loop.message)'
                        /\ ~Readable(udp_sessions[sent[loop.message].id])'
      BY <1>6, Zenon DEF LoopPushes
    <3>1. loop.message \in 1..Len(sent)
      BY <2>2, Zenon
    <3>2. ~Readable(udp_sessions[sent[loop.message].id])
      BY <1>0, Zenon DEF LoopPushes
    <3>3. udp_sessions'[sent'[loop'.message].id] = udp_sessions[sent[loop.message].id]
      BY <1>6, <3>1, Zenon
    <3> QED
      BY <1>0, <1>2, <1>6, <2>5, <3>2, <3>3, Zenon DEF LoopPushes
  <2> QED
    BY <2>1, <2>3, <2>4, <2>6, Zenon DEF LoopInv
<1>7. ASSUME NEW i \in Ids, NEW e \in Effects, SendMessage(i, e)
      PROVE  /\ UNCHANGED <<loop, udp_sessions>> /\ ~Inputs /\ ~PushSession
             /\ \A n \in 1..Len(sent) : sent'[n] = sent[n]
  <2>1. Len(sent') = Len(sent) + 1 /\ Len(sent) \in Nat
    BY <1>0, <1>7, SentGrows, Zenon
  <2>2. sent' # sent
    BY <2>1
  <2> QED
    BY <1>0, <1>7, <2>2, SentGrows, Zenon DEF Inputs, PushSession, netVars
<1>8. ASSUME UNCHANGED <<loop, udp_sessions, sent>>
      PROVE  ~Inputs /\ ~PushSession
  BY <1>0, <1>8 DEF Inputs, PushSession, Idle, TypeOK
<1>9. \/ loop'.at \in {"select", "ended"} /\ loop'.message = 0 /\ loop'.session = 0
      \/ \E x \in wire : Takes(x)
      \/ PushSession
      \/ \E i \in Ids, e \in Effects : SendMessage(i, e)
      \/ UNCHANGED <<loop, udp_sessions, sent>>
  <2>1. Quiet => \/ loop'.at \in {"select", "ended"} /\ loop'.message = 0 /\ loop'.session = 0
                 \/ UNCHANGED <<loop, udp_sessions, sent>>
    BY Zenon DEF Quiet
  <2>2. Inputs => loop'.at \in {"select", "ended"} /\ loop'.message = 0 /\ loop'.session = 0
    BY DEF Inputs, Idle
  <2>3. Accept \/ ServerDropped => UNCHANGED <<loop, udp_sessions, sent>>
    BY Zenon DEF Accept, ServerDropped, loopVars, netVars
  <2>4. \A t \in Streams : PushStream(t) => UNCHANGED <<loop, udp_sessions, sent>>
    BY Zenon DEF PushStream, loopVars, netVars
  <2>5. \A s \in held : Recv(s) \/ Release(s) => UNCHANGED <<loop, udp_sessions, sent>>
    BY Zenon DEF Recv, Release, loopVars, netVars
  <2> QED
    BY <1>0, <2>1, <2>2, <2>3, <2>4, <2>5, StepCases, Zenon
<1> QED
  BY <1>3, <1>4, <1>5, <1>6, <1>7, <1>8, <1>9, Zenon

\* The messages sent stay, a new one is on the wire, and only PushSession
\* enters anything in the table.
LEMMA Frame ==
    ASSUME TypeOK, [Next]_vars
    PROVE  /\ \A n \in 1..Len(sent) : n \in 1..Len(sent') /\ sent'[n] = sent[n]
           /\ \A n \in 1..Len(sent') : n \in 1..Len(sent) \/ n \in wire'
           /\ udp_sessions' = udp_sessions \/ PushSession
<1>1. ASSUME NEW i \in Ids, NEW e \in Effects, SendMessage(i, e)
      PROVE  /\ \A n \in 1..Len(sent) : n \in 1..Len(sent') /\ sent'[n] = sent[n]
             /\ \A n \in 1..Len(sent') : n \in 1..Len(sent) \/ n \in wire'
             /\ udp_sessions' = udp_sessions
  BY <1>1, SentGrows
<1>2. \/ \E i \in Ids, e \in Effects : SendMessage(i, e)
      \/ sent' = sent /\ (udp_sessions' = udp_sessions \/ PushSession)
  BY StepCases, Zenon DEF Takes, Quiet, PushSession, Accept, PushStream, Inputs,
         ServerDropped, Recv, Release, netVars, loopVars
<1> QED
  BY <1>1, <1>2, Zenon

\* A message that is new is on the wire.
LEMMA NewOnWire ==
    ASSUME IInv, [Next]_vars, NEW s \in 1..Len(sent'), s \notin 1..Len(sent)
    PROVE  s \in wire' /\ s \in Messages
<1>1. TypeOK /\ TypeOK'
  BY TypeStep, Zenon DEF IInv, LoopInv
<1>2. sent' \in Seq([id : Ids, effect : Effects]) /\ Len(sent') <= MaxMessages
  BY <1>1, Zenon DEF TypeOK
<1>3. Len(sent') \in Nat /\ MaxMessages \in Nat
  BY <1>2, Hy2SessionsAssumption
<1>4. s \in Messages
  BY <1>2, <1>3 DEF Messages
<1> QED
  BY <1>1, <1>4, Frame, Zenon

\* The table keeps its entries right.
LEMMA TableStep ==
    ASSUME IInv, [Next]_vars
    PROVE  Table'
<1>0. TypeOK /\ NewIsUntouched /\ LoopBusy /\ LoopPushes /\ Table /\ Once
  BY Zenon DEF IInv, LoopInv
<1>1. /\ Len(sent) \in Nat /\ udp_sessions \in [Ids -> 0..Len(sent)]
      /\ \A n \in 1..Len(sent) : sent'[n] = sent[n] /\ sent[n].id \in Ids
  BY <1>0, SentType, Frame, Zenon DEF TypeOK
<1>2. ASSUME NEW s \in Messages, Readable(s) PROVE s \in 1..Len(sent)
  BY <1>0, <1>1, <1>2 DEF NewIsUntouched, Untouched, Messages
<1>3. \A s : Readable(s)' => Readable(s) \/ (PushSession /\ s = loop.session)
  BY <1>0, ReadableStep, Zenon
<1>4. ASSUME PushSession
      PROVE  /\ loop.session \in 1..Len(sent) /\ loop.message = loop.session
             /\ udp_sessions' = [udp_sessions EXCEPT ![sent[loop.session].id] = loop.session]
             /\ ~Readable(udp_sessions[sent[loop.session].id])
  <2>1. loop.at = "push" /\ loop.session \in 0..Len(sent)
    BY <1>0, <1>4, Zenon DEF PushSession, TypeOK
  <2>2. /\ loop.message = loop.session /\ loop.session # 0
        /\ ~Readable(udp_sessions[sent[loop.session].id])
    BY <1>0, <2>1, Zenon DEF LoopBusy, LoopPushes
  <2>3. udp_sessions' = [udp_sessions EXCEPT ![sent[loop.message].id] = loop.session]
    BY <1>4, Zenon DEF PushSession
  <2> QED
    BY <1>1, <2>1, <2>2, <2>3
<1>5. ASSUME NEW i \in Ids, udp_sessions'[i] # 0 PROVE sent'[udp_sessions'[i]].id = i
  <2>1. CASE udp_sessions' = udp_sessions
    <3>1. udp_sessions[i] \in 1..Len(sent) /\ sent[udp_sessions[i]].id = i
      BY <1>0, <1>1, <1>5, <2>1 DEF Table
    <3> QED
      BY <1>1, <2>1, <3>1, Zenon
  <2>2. CASE PushSession
    <3>1. CASE i = sent[loop.session].id
      BY <1>1, <1>4, <2>2, <3>1, Zenon
    <3>2. CASE i # sent[loop.session].id
      <4>1. udp_sessions'[i] = udp_sessions[i]
        BY <1>1, <1>4, <2>2, <3>2, Zenon
      <4>2. udp_sessions[i] \in 1..Len(sent) /\ sent[udp_sessions[i]].id = i
        BY <1>0, <1>1, <1>5, <4>1 DEF Table
      <4> QED
        BY <1>1, <4>1, <4>2, Zenon
    <3> QED
      BY <3>1, <3>2, Zenon
  <2> QED
    BY <1>0, <2>1, <2>2, Frame, Zenon
<1>6. ASSUME NEW s \in Messages, Readable(s)' PROVE udp_sessions'[sent'[s].id] = s
  <2>1. CASE Readable(s)
    <3>1. s \in 1..Len(sent) /\ sent'[s] = sent[s] /\ udp_sessions[sent[s].id] = s
      BY <1>0, <1>1, <1>2, <2>1, Zenon DEF Table
    <3>2. CASE udp_sessions' = udp_sessions
      BY <3>1, <3>2, Zenon
    <3>3. CASE PushSession
      <4>1. sent[s].id # sent[loop.session].id
        BY <1>4, <2>1, <3>1, <3>3, Zenon
      <4> QED
        BY <1>1, <1>4, <3>1, <3>3, <4>1
    <3> QED
      BY <1>0, <3>2, <3>3, Frame, Zenon
  <2>2. CASE PushSession /\ s = loop.session
    BY <1>1, <1>4, <2>2, Zenon
  <2> QED
    BY <1>3, <1>6, <2>1, <2>2, Zenon
<1> QED
  BY <1>5, <1>6, Zenon DEF Table

\* A packet connection is pushed once, and then held.
LEMMA OnceStep ==
    ASSUME IInv, [Next]_vars
    PROVE  Once'
<1>0. TypeOK /\ LoopBusy /\ LoopPushes /\ Once
  BY Zenon DEF IInv, LoopInv
<1>1. CASE UNCHANGED <<queue, held>>
  BY <1>0, <1>1, Zenon DEF Once, Queued
<1>2. CASE PushSession
  <2>1. ~Readable(loop.session) /\ loop.session \in Messages /\ held' = held
    BY <1>0, <1>2, PushSessionReadable, Zenon DEF PushSession, LoopPushes, Untouched, sessionVars
  <2>2. /\ Len(queue) \in Nat
        /\ queue'[Len(queue) + 1] = Item(loop.session)
        /\ \A i \in 1..Len(queue) : queue'[i] = queue[i] /\ queue'[i] # Item(loop.session)
        /\ \A i \in 1..Len(queue') : i \in 1..Len(queue) \/ i = Len(queue) + 1
    <3>1. Item(loop.session) \in QueueItem
      BY <2>1, Zenon DEF Item, QueueItem
    <3>2. queue' = Append(queue, Item(loop.session)) /\ Len(queue) < AcceptCap
      BY <1>2, Zenon DEF PushSession, Item
    <3>3. \A i \in 1..Len(queue) : queue[i] # Item(loop.session)
      BY <2>1, Zenon DEF Readable, Item
    <3> QED
      BY <1>0, <3>1, <3>2, <3>3, PushFacts, Zenon
  <2>3. \A s \in Messages : Queued(s)' => s \notin held'
    BY <1>0, <1>2, <2>1, PushSessionReadable, Zenon DEF Once, Readable
  <2>4. ASSUME NEW s \in Messages, NEW i \in 1..Len(queue'), NEW j \in 1..Len(queue'),
               queue'[i] = Item(s), queue'[j] = Item(s)
        PROVE  i = j
    <3>1. CASE s = loop.session
      BY <2>2, <2>4, <3>1, Zenon
    <3>2. CASE s # loop.session
      <4>1. Item(s) # Item(loop.session)
        BY <3>2, Zenon DEF Item
      <4>2. i \in 1..Len(queue) /\ j \in 1..Len(queue)
        BY <2>2, <2>4, <4>1, Zenon
      <4> QED
        BY <1>0, <2>2, <2>4, <4>2, Zenon DEF Once
    <3> QED
      BY <3>1, <3>2, Zenon
  <2> QED
    BY <2>3, <2>4, Zenon DEF Once
<1>3. CASE Accept
  <2>1. \A s \in Messages : Queued(s)' => s \notin held'
    BY <1>0, <1>3, AcceptReadable, Zenon DEF Once
  <2>2. ASSUME NEW s \in Messages, NEW i \in 1..Len(queue'), NEW j \in 1..Len(queue'),
               queue'[i] = Item(s), queue'[j] = Item(s)
        PROVE  i = j
    <3>1. /\ i + 1 \in 1..Len(queue) /\ j + 1 \in 1..Len(queue)
          /\ queue[i + 1] = Item(s) /\ queue[j + 1] = Item(s)
      BY <1>0, <1>3, <2>2, AcceptFacts, Zenon
    <3>2. i + 1 = j + 1
      BY <1>0, <3>1, Zenon DEF Once
    <3> QED
      BY <3>2
  <2> QED
    BY <2>1, <2>2, Zenon DEF Once
<1>4. ASSUME NEW r \in held, Release(r) PROVE Once'
  <2>1. queue' = queue /\ held' \subseteq held
    BY <1>4, Zenon DEF Release, acceptVars
  <2> QED
    BY <1>0, <2>1, Zenon DEF Once, Queued
<1>5. CASE ServerDropped
  <2>1. queue' = <<>>
    BY <1>5, Zenon DEF ServerDropped
  <2> QED
    BY <2>1 DEF Once, Queued
<1>6. ASSUME NEW t \in Streams, PushStream(t) PROVE Once'
  <2>1. held' = held
    BY <1>6, Zenon DEF PushStream, sessionVars
  <2>2. \A s \in Messages : Queued(s)' => s \notin held'
    BY <1>0, <1>6, <2>1, PushStreamReadable, Zenon DEF Once
  <2>3. \A s \in Messages : \A i, j \in 1..Len(queue') :
            queue'[i] = Item(s) /\ queue'[j] = Item(s) => i = j
    BY <1>0, <1>6, PushStreamReadable, Zenon DEF Once
  <2> QED
    BY <2>2, <2>3, Zenon DEF Once
<1>7. \/ UNCHANGED <<queue, held>> \/ PushSession \/ Accept \/ ServerDropped
      \/ \E t \in Streams : PushStream(t)
      \/ \E r \in held : Release(r)
  BY <1>0, StepCases, RecvFacts, Zenon DEF SendMessage, Takes, Quiet, Inputs, acceptVars, sessionVars
<1> QED
  BY <1>1, <1>2, <1>3, <1>4, <1>5, <1>6, <1>7, Zenon

\* How the packets of a session change in a step: not at all, or the channel is
\* dropped, or it gets a message that no channel had, or recv takes its first.
Kept(s) == got'[s] = got[s] /\ chan'[s] = chan[s]
Cut(s) == got'[s] = got[s] /\ chan'[s] = <<>>
Gets(s) ==
    /\ Inputs /\ s = loop.session
    /\ got'[s] = got[s]
    /\ \A i \in 1..Len(chan'[s]) :
          \/ i \in 1..Len(chan[s]) /\ chan'[s][i] = chan[s][i]
          \/ i = Len(chan[s]) + 1 /\ chan'[s][i] = loop.message
    /\ chan[s] # <<>> /\ chan'[s] # <<>> => chan'[s][1] = chan[s][1]
    /\ chan'[s] # <<>> => Readable(s) \/ chan'[s] = chan[s]
    /\ Readable(s) => chan'[s] # <<>>
Gives(s) ==
    /\ 1 \in 1..Len(chan[s])
    /\ Len(got'[s]) = Len(got[s]) + 1 /\ got'[s][Len(got[s]) + 1] = chan[s][1]
    /\ \A i \in 1..Len(got[s]) : i \in 1..Len(got'[s]) /\ got'[s][i] = got[s][i]
    /\ \A i \in 1..Len(got'[s]) : i \in 1..Len(got[s]) \/ i = Len(got[s]) + 1
    /\ \A i \in 1..Len(chan'[s]) : i + 1 \in 1..Len(chan[s]) /\ chan'[s][i] = chan[s][i + 1]

\* A step does one of four things to the packets of a session.
LEMMA PacketCases ==
    ASSUME TypeOK, LoopBusy, [Next]_vars, NEW s \in Messages
    PROVE  Kept(s) \/ Cut(s) \/ Gets(s) \/ Gives(s)
<1>1. ASSUME NEW r \in held, Recv(r) PROVE Kept(s) \/ Gives(s)
  <2>1. CASE s = r
    BY <1>1, <2>1, RecvFacts DEF Gives
  <2>2. CASE s # r
    BY <1>1, <2>2, RecvFacts, Zenon DEF Kept
  <2> QED
    BY <2>1, <2>2, Zenon
<1>2. CASE Inputs
  <2>1. got' = got
    BY <1>2, Zenon DEF Inputs
  <2>2. CASE s = loop.session
    <3> HIDE DEF Inputs
    <3> QED
      BY <1>2, <2>1, <2>2, InputsFacts, Zenon DEF Gets
  <2>3. CASE s # loop.session
    BY <1>2, <2>1, <2>3, InputsFacts, Zenon DEF Kept
  <2> QED
    BY <2>2, <2>3, Zenon
<1>3. ASSUME NEW r \in held, Release(r) PROVE Kept(s) \/ Cut(s)
  BY <1>3, Zenon DEF Release, TypeOK, Kept, Cut
<1>4. CASE ServerDropped
  BY <1>4, Zenon DEF ServerDropped, Kept, Cut
<1>5. CASE UNCHANGED <<chan, got>>
  BY <1>5, Zenon DEF Kept
<1>6. \/ UNCHANGED <<chan, got>> \/ ServerDropped \/ Inputs
      \/ \E r \in held : Recv(r) \/ Release(r)
  BY StepCases, Zenon DEF SendMessage, Takes, Quiet, PushSession, Accept, PushStream, sessionVars
<1> QED
  BY <1>1, <1>2, <1>3, <1>4, <1>5, <1>6, Zenon

\* Types of the packets of a session, and what they are not.
LEMMA PacketTypes ==
    ASSUME IInv, NEW s \in Messages
    PROVE  /\ Len(got[s]) \in Nat /\ Len(chan[s]) \in Nat
           /\ got[s] = <<>> <=> Len(got[s]) = 0
           /\ chan[s] = <<>> <=> Len(chan[s]) = 0
           /\ \A i \in 1..Len(got[s]) : got[s][i] \in 1..Len(sent)
           /\ \A i \in 1..Len(chan[s]) : chan[s][i] \in 1..Len(sent)
           /\ loop.at = "input" => /\ \A i \in 1..Len(got[s]) : got[s][i] # loop.message
                                   /\ \A i \in 1..Len(chan[s]) : chan[s][i] # loop.message
<1>0. TypeOK /\ NewIsUntouched /\ LoopBusy
  BY Zenon DEF IInv, LoopInv
<1>1. got[s] \in Seq(Messages) /\ chan[s] \in Seq(Messages)
  BY <1>0, Zenon DEF TypeOK
<1>2. /\ \A i \in 1..Len(got[s]) : got[s][i] \in Messages /\ Passed(got[s][i])
      /\ \A i \in 1..Len(chan[s]) : chan[s][i] \in Messages /\ Passed(chan[s][i])
  BY <1>1, ElementType, Zenon DEF Passed
<1>3. \A n \in Messages : Passed(n) => n \in 1..Len(sent)
  BY <1>0, SentType DEF NewIsUntouched, Messages
<1>4. loop.at = "input" => ~Passed(loop.message)
  BY <1>0, Zenon DEF LoopBusy
<1>5. /\ Len(got[s]) \in Nat /\ Len(chan[s]) \in Nat
      /\ got[s] = <<>> <=> Len(got[s]) = 0
      /\ chan[s] = <<>> <=> Len(chan[s]) = 0
  BY <1>1
<1> QED
  BY <1>2, <1>3, <1>4, <1>5, Zenon

\* All packets of a session are of its id.
LEMMA SameIdStep ==
    ASSUME IInv, [Next]_vars
    PROVE  SameId'
<1>0. TypeOK /\ LoopBusy /\ SameId
  BY Zenon DEF IInv, LoopInv
<1> SUFFICES ASSUME NEW s \in 1..Len(sent')
             PROVE  /\ \A i \in 1..Len(got'[s]) : sent'[got'[s][i]].id = sent'[s].id
                    /\ \A i \in 1..Len(chan'[s]) : sent'[chan'[s][i]].id = sent'[s].id
  BY Zenon DEF SameId
<1>1. CASE s \notin 1..Len(sent)
  <2>1. s \in wire' /\ s \in Messages
    BY <1>1, NewOnWire, Zenon
  <2>2. got'[s] = <<>> /\ chan'[s] = <<>>
    BY <2>1, NewStep, Zenon DEF NewIsUntouched, Untouched
  <2> QED
    BY <2>2
<1>2. CASE s \in 1..Len(sent)
  <2>1. s \in Messages /\ \A n \in 1..Len(sent) : sent'[n] = sent[n]
    BY <1>0, <1>2, Frame, SentType, Zenon
  <2>2. /\ \A i \in 1..Len(got[s]) : got[s][i] \in 1..Len(sent)
        /\ \A i \in 1..Len(chan[s]) : chan[s][i] \in 1..Len(sent)
    BY <2>1, PacketTypes, Zenon
  <2>3. /\ \A i \in 1..Len(got[s]) : sent[got[s][i]].id = sent[s].id
        /\ \A i \in 1..Len(chan[s]) : sent[chan[s][i]].id = sent[s].id
    BY <1>0, <1>2, Zenon DEF SameId
  <2>4. /\ \A i \in 1..Len(got[s]) : sent'[got[s][i]].id = sent'[s].id
        /\ \A i \in 1..Len(chan[s]) : sent'[chan[s][i]].id = sent'[s].id
    BY <1>2, <2>1, <2>2, <2>3, Zenon
  <2>5. CASE Kept(s) \/ Cut(s)
    BY <2>4, <2>5 DEF Kept, Cut
  <2>6. CASE Gives(s)
    <3>1. ASSUME NEW i \in 1..Len(got'[s]) PROVE sent'[got'[s][i]].id = sent'[s].id
      <4>1. \/ i \in 1..Len(got[s]) /\ got'[s][i] = got[s][i]
            \/ 1 \in 1..Len(chan[s]) /\ got'[s][i] = chan[s][1]
        BY <2>6, Zenon DEF Gives
      <4> QED
        BY <2>4, <4>1, Zenon
    <3>2. ASSUME NEW i \in 1..Len(chan'[s]) PROVE sent'[chan'[s][i]].id = sent'[s].id
      <4>1. i + 1 \in 1..Len(chan[s]) /\ chan'[s][i] = chan[s][i + 1]
        BY <2>6, Zenon DEF Gives
      <4> QED
        BY <2>4, <4>1, Zenon
    <3> QED
      BY <3>1, <3>2, Zenon
  <2>7. CASE Gets(s)
    <3>1. loop.message \in 1..Len(sent) /\ sent[loop.message].id = sent[s].id
      BY <1>0, <2>7, InputsFacts, Zenon DEF Gets, LoopBusy, Inputs
    <3>2. sent'[loop.message].id = sent'[s].id
      BY <1>2, <2>1, <3>1, Zenon
    <3> QED
      BY <2>4, <2>7, <3>2, SMTT(20) DEF Gets
  <2> QED
    BY <1>0, <2>1, <2>5, <2>6, <2>7, PacketCases, Zenon
<1> QED
  BY <1>1, <1>2, Zenon

\* No message is a packet of a session twice.
LEMMA DistinctStep ==
    ASSUME IInv, [Next]_vars
    PROVE  Distinct'
<1>0. TypeOK /\ LoopBusy /\ Distinct
  BY Zenon DEF IInv, LoopInv
<1> SUFFICES ASSUME NEW s \in Messages
             PROVE  /\ \A i, j \in 1..Len(got'[s]) : got'[s][i] = got'[s][j] => i = j
                    /\ \A i, j \in 1..Len(chan'[s]) : chan'[s][i] = chan'[s][j] => i = j
                    /\ \A i \in 1..Len(got'[s]), j \in 1..Len(chan'[s]) : got'[s][i] # chan'[s][j]
  BY Zenon DEF Distinct
<1>1. /\ \A i, j \in 1..Len(got[s]) : got[s][i] = got[s][j] => i = j
      /\ \A i, j \in 1..Len(chan[s]) : chan[s][i] = chan[s][j] => i = j
      /\ \A i \in 1..Len(got[s]), j \in 1..Len(chan[s]) : got[s][i] # chan[s][j]
  BY <1>0, Zenon DEF Distinct
<1>2. Len(got[s]) \in Nat /\ Len(chan[s]) \in Nat
  BY PacketTypes, Zenon
<1>3. CASE Kept(s)
  BY <1>1, <1>3, Zenon DEF Kept
<1>4. CASE Cut(s)
  BY <1>1, <1>4 DEF Cut
<1>5. CASE Gets(s)
  <2>1. /\ \A i \in 1..Len(got[s]) : got[s][i] # loop.message
        /\ \A i \in 1..Len(chan[s]) : chan[s][i] # loop.message
    BY <1>5, PacketTypes, Zenon DEF Gets, Inputs
  <2>2. /\ got'[s] = got[s]
        /\ \A i \in 1..Len(chan'[s]) :
              \/ i \in 1..Len(chan[s]) /\ chan'[s][i] = chan[s][i]
              \/ i = Len(chan[s]) + 1 /\ chan'[s][i] = loop.message
    BY <1>5, Zenon DEF Gets
  <2>3. \A i, j \in 1..Len(chan'[s]) : chan'[s][i] = chan'[s][j] => i = j
    BY <1>1, <2>1, <2>2, Zenon
  <2>4. \A i \in 1..Len(got'[s]), j \in 1..Len(chan'[s]) : got'[s][i] # chan'[s][j]
    BY <1>1, <2>1, <2>2
  <2> QED
    BY <1>1, <2>2, <2>3, <2>4, Zenon
<1>6. CASE Gives(s)
  <2>1. \A i, j \in 1..Len(got'[s]) : got'[s][i] = got'[s][j] => i = j
    BY <1>1, <1>2, <1>6, SMTT(20) DEF Gives
  <2>2. ASSUME NEW i \in 1..Len(chan'[s]), NEW j \in 1..Len(chan'[s]), chan'[s][i] = chan'[s][j]
        PROVE  i = j
    <3>1. /\ i + 1 \in 1..Len(chan[s]) /\ j + 1 \in 1..Len(chan[s])
          /\ chan[s][i + 1] = chan[s][j + 1]
      BY <1>6, <2>2, Zenon DEF Gives
    <3>2. i + 1 = j + 1
      BY <1>1, <3>1, Zenon
    <3> QED
      BY <3>2
  <2>3. ASSUME NEW i \in 1..Len(got'[s]), NEW j \in 1..Len(chan'[s])
        PROVE  got'[s][i] # chan'[s][j]
    <3>1. j + 1 \in 1..Len(chan[s]) /\ chan'[s][j] = chan[s][j + 1] /\ 1 \in 1..Len(chan[s]) /\ j + 1 # 1
      BY <1>6 DEF Gives
    <3>2. CASE i \in 1..Len(got[s])
      <4>1. got'[s][i] = got[s][i]
        BY <1>6, <3>2, Zenon DEF Gives
      <4> QED
        BY <1>1, <3>1, <3>2, <4>1, Zenon
    <3>3. CASE i = Len(got[s]) + 1
      <4>1. got'[s][i] = chan[s][1]
        BY <1>6, <3>3, Zenon DEF Gives
      <4> QED
        BY <1>1, <3>1, <4>1, Zenon
    <3> QED
      BY <1>6, <3>2, <3>3, Zenon DEF Gives
  <2> QED
    BY <2>1, <2>2, <2>3, Zenon
<1> QED
  BY <1>0, <1>3, <1>4, <1>5, <1>6, PacketCases, Zenon

\* A packet connection that somebody can read from does not lose its packets.
LEMMA EmptyStays ==
    ASSUME IInv, [Next]_vars, NEW s \in Messages, Readable(s), Readable(s)',
           got'[s] = <<>>, chan'[s] = <<>>
    PROVE  got[s] = <<>> /\ chan[s] = <<>> /\ (Inputs => s # loop.session)
<1>0. TypeOK /\ LoopBusy /\ Once
  BY Zenon DEF IInv, LoopInv
<1>1. ~Gives(s)
  <2>1. Len(got[s]) \in Nat
    BY PacketTypes, Zenon
  <2> QED
    BY <2>1 DEF Gives
<1>2. Inputs => s # loop.session
  BY <1>0, InputsFacts, Zenon
<1>3. ~Gets(s)
  BY <1>2, Zenon DEF Gets
<1>4. ASSUME NEW r \in held, Release(r) PROVE chan'[s] = chan[s]
  <2>1. s # r
    BY <1>0, <1>4, ReleaseReadable, Zenon
  <2> QED
    BY <1>0, <1>4, <2>1, Zenon DEF Release, TypeOK
<1>5. CASE ServerDropped
  <2>1. s \in held
    BY <1>5, DroppedReadable, Zenon
  <2>2. chan'[s] = chan[s] /\ got' = got
    BY <1>5, <2>1, Zenon DEF ServerDropped
  <2> QED
    BY <1>2, <2>2, Zenon
<1>6. ASSUME NEW r \in held, Recv(r) PROVE chan'[s] = chan[s]
  <2>1. CASE s = r
    BY <1>0, <1>1, <1>6, <2>1, RecvFacts DEF Gives
  <2>2. CASE s # r
    BY <1>0, <1>6, <2>2, RecvFacts, Zenon
  <2> QED
    BY <2>1, <2>2, Zenon
<1>7. ASSUME Inputs PROVE chan'[s] = chan[s]
  BY <1>0, <1>2, <1>7, InputsFacts, Zenon
<1>8. chan' = chan \/ ServerDropped \/ Inputs \/ \E r \in held : Recv(r) \/ Release(r)
  BY <1>0, StepCases, Zenon DEF SendMessage, Takes, Quiet, PushSession, Accept, PushStream, sessionVars
<1>9. chan'[s] = chan[s] \/ ServerDropped
  BY <1>4, <1>6, <1>7, <1>8, Zenon
<1>10. got'[s] = got[s]
  BY <1>0, <1>1, <1>3, PacketCases, Zenon DEF Kept, Cut
<1> QED
  BY <1>2, <1>5, <1>9, <1>10, Zenon

\* The packets of a session begin with the one that opened it.
LEMMA OpenedStep ==
    ASSUME IInv, [Next]_vars
    PROVE  Opened'
<1>0. TypeOK /\ LoopBusy /\ LoopPushes /\ LoopInputs /\ Table /\ Once /\ Opened
  BY Zenon DEF IInv, LoopInv
<1> SUFFICES ASSUME NEW s \in 1..Len(sent'), sent'[s].effect = "packet"
             PROVE  /\ got'[s] # <<>> => got'[s][1] = s
                    /\ got'[s] = <<>> /\ chan'[s] # <<>> => chan'[s][1] = s
                    /\ Readable(s)' /\ got'[s] = <<>> /\ chan'[s] = <<>> =>
                          loop'.at = "input" /\ loop'.message = s
  BY Zenon DEF Opened
<1>1. CASE s \notin 1..Len(sent)
  <2>1. s \in wire' /\ s \in Messages
    BY <1>1, NewOnWire, Zenon
  <2>2. got'[s] = <<>> /\ chan'[s] = <<>> /\ ~Readable(s)'
    BY <2>1, NewStep, Zenon DEF NewIsUntouched, Untouched
  <2> QED
    BY <2>2, Zenon
<1>2. CASE s \in 1..Len(sent)
  <2>1. s \in Messages /\ sent'[s] = sent[s]
    BY <1>0, <1>2, Frame, SentType, Zenon
  <2>2. /\ got[s] # <<>> => got[s][1] = s
        /\ got[s] = <<>> /\ chan[s] # <<>> => chan[s][1] = s
        /\ Readable(s) /\ got[s] = <<>> /\ chan[s] = <<>> =>
              loop.at = "input" /\ loop.message = s
    BY <1>0, <1>2, <2>1, Zenon DEF Opened
  <2>3. /\ Len(got[s]) \in Nat /\ Len(chan[s]) \in Nat
        /\ got[s] = <<>> <=> Len(got[s]) = 0
        /\ chan[s] = <<>> <=> Len(chan[s]) = 0
    BY <2>1, PacketTypes, Zenon
  <2>4. /\ Len(got'[s]) \in Nat /\ Len(chan'[s]) \in Nat
        /\ got'[s] = <<>> <=> Len(got'[s]) = 0
        /\ chan'[s] = <<>> <=> Len(chan'[s]) = 0
    <3>1. got'[s] \in Seq(Messages) /\ chan'[s] \in Seq(Messages)
      BY <1>0, <2>1, TypeStep, Zenon DEF IInv, TypeOK
    <3> QED
      BY <3>1
  <2>5. /\ got'[s] # <<>> => got'[s][1] = s
        /\ got'[s] = <<>> /\ chan'[s] # <<>> => chan'[s][1] = s
    <3>1. CASE Kept(s)
      BY <2>2, <3>1, Zenon DEF Kept
    <3>2. CASE Cut(s)
      BY <2>2, <3>2, Zenon DEF Cut
    <3>3. CASE Gives(s)
      <4>1. CASE got[s] # <<>>
        <5>1. 1 \in 1..Len(got[s])
          BY <2>3, <4>1
        <5> QED
          BY <2>2, <2>3, <2>4, <3>3, <4>1, <5>1 DEF Gives
      <4>2. CASE got[s] = <<>>
        <5>1. Len(got[s]) = 0 /\ chan[s] # <<>>
          BY <2>3, <3>3, <4>2 DEF Gives
        <5>2. got'[s][1] = chan[s][1] /\ Len(got'[s]) = 1
          BY <3>3, <5>1 DEF Gives
        <5> QED
          BY <2>2, <2>4, <4>2, <5>1, <5>2
      <4> QED
        BY <4>1, <4>2, Zenon
    <3>4. CASE Gets(s)
      <4>1. got'[s] = got[s]
        BY <3>4, Zenon DEF Gets
      <4>2. CASE chan[s] # <<>>
        BY <2>2, <3>4, <4>1, <4>2, Zenon DEF Gets
      <4>3. CASE chan[s] = <<>>
        <5> SUFFICES ASSUME got[s] = <<>>, chan'[s] # <<>> PROVE chan'[s][1] = s
          BY <2>2, <4>1, Zenon
        <5>1. Readable(s)
          BY <3>4, <4>3, Zenon DEF Gets
        <5>2. loop.message = s
          BY <2>2, <4>3, <5>1, Zenon
        <5>3. 1 \in 1..Len(chan'[s]) /\ 1 \notin 1..Len(chan[s])
          BY <2>3, <2>4, <4>3
        <5> QED
          BY <3>4, <5>2, <5>3, Zenon DEF Gets
      <4> QED
        BY <4>2, <4>3, Zenon
    <3> QED
      BY <1>0, <2>1, <3>1, <3>2, <3>3, <3>4, PacketCases, Zenon
  <2>6. ASSUME Readable(s)', got'[s] = <<>>, chan'[s] = <<>>
        PROVE  loop'.at = "input" /\ loop'.message = s
    <3>1. CASE PushSession /\ s = loop.session
      BY <1>0, <3>1, Zenon DEF PushSession, LoopPushes, TypeOK
    <3>2. CASE Readable(s)
      <4>1. got[s] = <<>> /\ chan[s] = <<>> /\ (Inputs => s # loop.session)
        BY <2>1, <2>6, <3>2, EmptyStays, Zenon
      <4>2. loop.at = "input" /\ loop.message = s
        BY <2>2, <3>2, <4>1, Zenon
      <4>3. loop.session = s
        <5>1. udp_sessions[sent[s].id] = s
          BY <1>0, <2>1, <3>2, Zenon DEF Table
        <5>2. /\ udp_sessions[sent[loop.session].id] = loop.session
              /\ sent[loop.session].id = sent[s].id
          BY <1>0, <4>2, Zenon DEF LoopInputs, LoopBusy
        <5> QED
          BY <5>1, <5>2, Zenon
      <4>4. ~Inputs /\ sent[loop.message].effect = "packet"
        BY <2>1, <4>1, <4>2, <4>3, Zenon
      <4>5. loop' = loop
        <5>1. ~PushSession /\ ~\E x \in wire : Takes(x)
          BY <4>2, Zenon DEF PushSession, Takes
        <5>2. Accept \/ ServerDropped => loop' = loop
          BY Zenon DEF Accept, ServerDropped, loopVars
        <5>3. \A t \in Streams : PushStream(t) => loop' = loop
          BY Zenon DEF PushStream, loopVars
        <5>4. \A r \in held : Recv(r) \/ Release(r) => loop' = loop
          BY Zenon DEF Recv, Release, loopVars
        <5>5. \A i \in Ids, e \in Effects : SendMessage(i, e) => loop' = loop
          BY Zenon DEF SendMessage, loopVars
        <5> QED
          BY <1>0, <4>2, <4>4, <5>1, <5>2, <5>3, <5>4, <5>5, StepCases, Zenon
      <4> QED
        BY <4>2, <4>5, Zenon
    <3> QED
      BY <1>0, <2>6, <3>1, <3>2, ReadableStep, Zenon
  <2> QED
    BY <2>5, <2>6, Zenon
<1> QED
  BY <1>1, <1>2, Zenon

-----------------------------------------------------------------------------
\* The inductive invariant holds at first,
LEMMA InvInit == Init => IInv
<1> SUFFICES ASSUME Init PROVE IInv
  BY Zenon
<1>1. TypeOK
  BY TypeInit, Zenon
<1>2. /\ sent = <<>> /\ wire = {} /\ loop = Idle /\ udp_sessions = [i \in Ids |-> 0]
      /\ queue = <<>> /\ held = {} /\ chan = [s \in Messages |-> <<>>]
      /\ got = [s \in Messages |-> <<>>]
  BY Zenon DEF Init
<1>3. /\ Len(sent) = 0 /\ Len(queue) = 0
      /\ loop.at = "select" /\ loop.message = 0 /\ loop.session = 0
      /\ \A s \in Messages : chan[s] = <<>> /\ got[s] = <<>> /\ s # 0
      /\ \A i \in Ids : udp_sessions[i] = 0
  BY <1>2 DEF Idle, Messages
<1>4. \A s : ~Readable(s) /\ ~Queued(s)
  BY <1>2, <1>3 DEF Readable, Queued
<1>5. \A n : ~Passed(n)
  BY <1>3 DEF Passed
<1>6. \A n \in Messages : Untouched(n)
  BY <1>3, <1>4, Zenon DEF Untouched
<1>7. NewIsUntouched
  BY <1>3, <1>5, <1>6, Zenon DEF NewIsUntouched
<1>8. LoopInv
  BY <1>3, Zenon DEF LoopInv, LoopIdle, LoopBusy, LoopPushes, LoopInputs
<1>9. Table /\ Once
  BY <1>3, <1>4 DEF Table, Once
<1>10. SameId /\ Distinct /\ Opened
  BY <1>3 DEF SameId, Distinct, Opened
<1> QED
  BY <1>1, <1>7, <1>8, <1>9, <1>10, Zenon DEF IInv

\* and every step keeps it.
LEMMA InvStep == IInv /\ [Next]_vars => IInv'
<1> SUFFICES ASSUME IInv, [Next]_vars PROVE IInv'
  BY Zenon
<1>1. TypeOK'
  BY TypeStep, Zenon DEF IInv, LoopInv
<1> QED
  BY <1>1, NewStep, LoopStep, TableStep, OnceStep, SameIdStep, DistinctStep, OpenedStep, Zenon DEF IInv

\* The inductive invariant holds in every reachable state.
LEMMA InvAlways == Spec => []IInv
<1>1. Spec => Init /\ [][Next]_vars
  BY Zenon DEF Spec
<1> QED
  BY <1>1, InvInit, InvStep, PTL

\* The state of a server connection is always well formed: for any number of
\* ids and any capacity of the queues, a session id has one packet connection
\* at a time, wherever the loop of serve_connection and the application are.
THEOREM OneSessionPerId == Spec => []WellFormed
<1>1. IInv => WellFormed
  <2> SUFFICES ASSUME IInv PROVE WellFormed
    BY Zenon
  <2>0. TypeOK /\ LoopBusy /\ LoopIdle /\ LoopPushes /\ LoopInputs /\ Table
    BY Zenon DEF IInv, LoopInv
  <2>1. /\ Len(sent) \in Nat /\ 1..Len(sent) \subseteq Messages
        /\ loop.at \in {"select", "push", "input", "ended"}
    BY <2>0, SentType, Zenon DEF TypeOK
  <2>2. ASSUME NEW s \in 1..Len(sent), NEW t \in 1..Len(sent), Readable(s), Strong(t),
               sent[s].id = sent[t].id
        PROVE  s = t
    <3>1. udp_sessions[sent[s].id] = s
      BY <2>0, <2>1, <2>2, Zenon DEF Table
    <3>2. CASE Readable(t)
      BY <2>0, <2>1, <2>2, <3>1, <3>2, Zenon DEF Table
    <3>3. CASE loop.session = t
      <4>1. loop.session # 0
        BY <2>1, <3>3
      <4>2. CASE loop.at = "push"
        BY <2>0, <2>2, <3>1, <3>3, <4>2, Zenon DEF LoopPushes
      <4>3. CASE loop.at = "input"
        BY <2>0, <2>2, <3>1, <3>3, <4>3, Zenon DEF LoopInputs
      <4> QED
        BY <2>0, <2>1, <4>1, <4>2, <4>3, Zenon DEF LoopIdle
    <3> QED
      BY <2>2, <3>2, <3>3, Zenon DEF Strong
  <2>3. OneSession
    BY <2>2, Zenon DEF OneSession, Strong
  <2> QED
    BY <2>0, <2>3, Zenon DEF WellFormed
<1> QED
  BY <1>1, InvAlways, PTL

\* Elements of a concatenation.
LEMMA ConcatFacts ==
    ASSUME NEW S, NEW p \in Seq(S), NEW q \in Seq(S)
    PROVE  /\ p \o q # <<>> => IF p # <<>> THEN (p \o q)[1] = p[1]
                               ELSE q # <<>> /\ (p \o q)[1] = q[1]
           /\ \A i \in 1..Len(p \o q) :
                 \/ i \in 1..Len(p) /\ (p \o q)[i] = p[i]
                 \/ i - Len(p) \in 1..Len(q) /\ (p \o q)[i] = q[i - Len(p)] /\ i > Len(p)
           /\ Len(p) \in Nat /\ Len(q) \in Nat
  OBVIOUS

\* The packets of a session come from its id, none comes twice, and the first
\* is the one that opened it, whenever the application gets hold of it.
THEOREM SessionsBegin == Spec => []SessionBeginsWithItsPacket
<1>1. IInv => SessionBeginsWithItsPacket
  <2> SUFFICES ASSUME IInv, NEW s \in 1..Len(sent)
               PROVE  LET packets == got[s] \o chan[s]
                      IN  /\ packets # <<>> /\ sent[s].effect = "packet" => packets[1] = s
                          /\ \A i \in 1..Len(packets) :
                                /\ sent[packets[i]].id = sent[s].id
                                /\ \A j \in 1..(i - 1) : packets[j] # packets[i]
    BY Zenon DEF SessionBeginsWithItsPacket
  <2> DEFINE packets == got[s] \o chan[s]
  <2>0. TypeOK /\ SameId /\ Distinct /\ Opened /\ s \in Messages
    BY SentType, Zenon DEF IInv
  <2>1. got[s] \in Seq(Messages) /\ chan[s] \in Seq(Messages)
    BY <2>0, Zenon DEF TypeOK
  <2>2. /\ packets # <<>> => IF got[s] # <<>> THEN packets[1] = got[s][1]
                             ELSE chan[s] # <<>> /\ packets[1] = chan[s][1]
        /\ \A i \in 1..Len(packets) :
              \/ i \in 1..Len(got[s]) /\ packets[i] = got[s][i]
              \/ i - Len(got[s]) \in 1..Len(chan[s]) /\ packets[i] = chan[s][i - Len(got[s])]
                 /\ i > Len(got[s])
        /\ Len(got[s]) \in Nat /\ Len(chan[s]) \in Nat
    BY <2>1, ConcatFacts, Zenon
  <2>3. Len(packets) \in Nat
    <3>1. \A S : \A p, q \in Seq(S) : Len(p \o q) \in Nat
      OBVIOUS
    <3> QED
      BY <2>1, <3>1, Zenon
  <2> HIDE DEF packets
  <2>4. packets # <<>> /\ sent[s].effect = "packet" => packets[1] = s
    BY <2>0, <2>2, Zenon DEF Opened
  <2>5. \A i \in 1..Len(packets) : sent[packets[i]].id = sent[s].id
    <3>1. /\ \A i \in 1..Len(got[s]) : sent[got[s][i]].id = sent[s].id
          /\ \A i \in 1..Len(chan[s]) : sent[chan[s][i]].id = sent[s].id
      BY <2>0, Zenon DEF SameId
    <3> QED
      BY <2>2, <3>1, Zenon
  <2>6. ASSUME NEW i \in 1..Len(packets), NEW j \in 1..(i - 1), packets[j] = packets[i]
        PROVE  FALSE
    <3>1. j \in 1..Len(packets) /\ j # i /\ j < i
      BY <2>3
    <3>2. /\ \A k, l \in 1..Len(got[s]) : got[s][k] = got[s][l] => k = l
          /\ \A k, l \in 1..Len(chan[s]) : chan[s][k] = chan[s][l] => k = l
          /\ \A k \in 1..Len(got[s]), l \in 1..Len(chan[s]) : got[s][k] # chan[s][l]
      BY <2>0, Zenon DEF Distinct
    <3>3. CASE i \in 1..Len(got[s]) /\ packets[i] = got[s][i]
      <4>1. j \in 1..Len(got[s]) /\ packets[j] = got[s][j]
        BY <2>2, <3>1, <3>3
      <4> QED
        BY <2>6, <3>1, <3>2, <3>3, <4>1, Zenon
    <3>4. CASE i - Len(got[s]) \in 1..Len(chan[s]) /\ packets[i] = chan[s][i - Len(got[s])]
      <4>1. CASE j \in 1..Len(got[s]) /\ packets[j] = got[s][j]
        BY <2>6, <3>2, <3>4, <4>1, Zenon
      <4>2. CASE j - Len(got[s]) \in 1..Len(chan[s]) /\ packets[j] = chan[s][j - Len(got[s])]
        <5>1. i - Len(got[s]) = j - Len(got[s])
          BY <2>6, <3>2, <3>4, <4>2, Zenon
        <5> QED
          BY <2>2, <3>1, <5>1
      <4> QED
        BY <2>2, <3>1, <4>1, <4>2, Zenon
    <3> QED
      BY <2>2, <3>3, <3>4, Zenon
  <2> QED
    BY <2>4, <2>5, <2>6, Zenon DEF packets
<1> QED
  BY <1>1, InvAlways, PTL
=============================================================================
