-------------------------- MODULE TransportProofs --------------------------
(***************************************************************************)
(* Proofs about what a connection carries, for any values: the website a   *)
(* server shows to a client it does not know; the frames of proxied        *)
(* streams, read as they were written wherever quinn cuts them; and the    *)
(* streams themselves.                                                     *)
(***************************************************************************)
EXTENDS ConnectionStreams, Integers, TLAPS

(***************************************************************************)
(* Numbers and sequences.                                                  *)
(***************************************************************************)

\* The sum of two numbers.
LEMMA SumNat ==
    ASSUME NEW a \in Nat, NEW b \in Nat
    PROVE  a + b \in Nat
OBVIOUS

\* What is at least a number beyond a bound is beyond it.
LEMMA Beyond ==
    ASSUME NEW a \in Nat, NEW b \in Nat, NEW c \in Nat, a <= b, a > c
    PROVE  b > c
OBVIOUS

\* What is not beyond a bound is within it.
LEMMA Within ==
    ASSUME NEW a \in Nat, NEW c \in Nat, ~(a > c)
    PROVE  a <= c
OBVIOUS

\* The empty sequence.
LEMMA NilSeq == <<>> \in Seq(Nat) /\ Len(<<>>) = 0
OBVIOUS

\* A sequence of one.
LEMMA OneSeq ==
    ASSUME NEW n \in Nat
    PROVE  <<n>> \in Seq(Nat) /\ Len(<<n>>) = 1 /\ <<n>>[1] = n
OBVIOUS

\* A sequence that is longer by one.
LEMMA AppendSeq ==
    ASSUME NEW s \in Seq(Nat), NEW n \in Nat
    PROVE  Append(s, n) \in Seq(Nat)
OBVIOUS

\* What is left of a sequence once n elements are taken off.
Left(s, n, rest) ==
    /\ rest \in Seq(Nat) /\ Len(rest) = Len(s) - n /\ Len(rest) \in Nat
    /\ \A i \in 1..Len(rest) : rest[i] = s[n + i]

\* The part of a sequence behind its first n elements.
LEMMA SuffixElements ==
    ASSUME NEW s \in Seq(Nat), NEW n \in Nat, n <= Len(s), NEW rest,
           rest = SubSeq(s, n + 1, Len(s))
    PROVE  Left(s, n, rest)
<1>1. rest \in Seq(Nat) /\ Len(rest) = Len(s) - n /\ Len(rest) \in Nat
  OBVIOUS
<1>2. ASSUME NEW i \in 1..Len(rest) PROVE rest[i] = s[n + i]
  BY <1>1
<1> QED
  BY <1>1, <1>2, Zenon DEF Left

-----------------------------------------------------------------------------
(***************************************************************************)
(* The masquerade.                                                         *)
(***************************************************************************)

\* Pieces that lead from one sum to another. A witness of all sums on the way
\* stands for the recursion.
AddUp(from, parts, total) ==
    \E f \in [0..Len(parts) -> 0..total] :
        /\ f[0] = from /\ f[Len(parts)] = total
        /\ \A i \in 1..Len(parts) : f[i] = f[i - 1] + parts[i]

Stages == {"none", "receiving", "handling", "responding", "sending", "finishing", "done", "failed"}

ToAnswer == Responses \cup {Empty(0), Empty(404), Empty(413)}

Answer == [status : Nat, length : SUBSET Nat, hop : SUBSET HopHeaders, data : Nat,
           finished : BOOLEAN]

MasqueradeTypeOK ==
    /\ header \in [Requests -> {"none", "partial", "whole", "malformed", "reset"}]
    /\ chunks \in [Requests -> Seq(Nat)]
    /\ sent \in [Requests -> Nat]
    /\ task \in [Requests -> Stages]
    /\ body \in [Requests -> Nat]
    /\ handed \in [Requests -> SUBSET Nat]
    /\ response \in [Requests -> ToAnswer]
    /\ answer \in [Requests -> Answer]

\* A request has no task before its header has come, a body ends only behind a
\* whole header, and nothing is left of a request that was given up.
HeaderInv(r) ==
    /\ task[r] # "none" => header[r] # "none"
    /\ r \in ended => header[r] = "whole"
    /\ header[r] = "reset" => chunks[r] = <<>>

\* While a task collects a body, what it has and what is on its way are all of
\* it; what it hands on is that sum, and what it refuses exceeds the limit.
BodyInv(r) ==
    /\ body[r] <= MaxBody
    /\ task[r] \in {"none", "receiving"} /\ header[r] # "reset" =>
           AddUp(body[r], chunks[r], sent[r])
    /\ task[r] = "handling" => handed[r] # {}
    /\ handed[r] # {} => r \in ended /\ handed[r] = {sent[r]}
    /\ response[r].status = 413 => handed[r] # {} \/ sent[r] > MaxBody

\* What has been answered so far, by the stage of the task.
AnswerInv(r) ==
    /\ task[r] \in {"none", "receiving", "handling", "responding"} => answer[r] = Unanswered
    /\ task[r] \in {"sending", "finishing", "done"} =>
           /\ answer[r].status = response[r].status
           /\ answer[r].length = ContentLength(r)
           /\ "Transfer-Encoding" \notin answer[r].hop
    /\ task[r] = "sending" => HasData(r) /\ answer[r].data = 0
    /\ task[r] \in {"finishing", "done"} =>
           answer[r].data = IF HasData(r) THEN response[r].body ELSE 0
    /\ answer[r].finished => task[r] = "done"

RequestInv(r) == HeaderInv(r) /\ BodyInv(r) /\ AnswerInv(r)

\* Requests are taken in turn, and a request that is being resolved has no task yet.
LoopInv ==
    /\ taken \in Nat
    /\ loop = "resolving" => taken \in Requests
    /\ \A r \in Requests : task[r] # "none" => r <= taken /\ (loop = "resolving" => r # taken)

MasqueradeInv == MasqueradeTypeOK /\ LoopInv /\ \A r \in Requests : RequestInv(r)

\* No pieces lead from a sum to itself only.
LEMMA AddNothing ==
    ASSUME NEW from \in Nat, NEW total \in Nat
    PROVE  AddUp(from, <<>>, total) <=> from = total
<1>1. Len(<<>>) = 0 /\ 0..0 = {0} /\ 1..0 = {}
  OBVIOUS
<1>2. ASSUME from = total PROVE AddUp(from, <<>>, total)
  <2> DEFINE f == [i \in 0..0 |-> total]
  <2>1. f \in [0..Len(<<>>) -> 0..total] /\ f[0] = from /\ f[Len(<<>>)] = total
    BY <1>1, <1>2
  <2>2. \A i \in 1..Len(<<>>) : f[i] = f[i - 1] + <<>>[i]
    BY <1>1, Zenon
  <2> HIDE DEF f
  <2> QED
    BY <2>1, <2>2, Zenon DEF AddUp
<1> QED
  BY <1>1, <1>2, Zenon DEF AddUp

\* One more piece.
LEMMA AddOne ==
    ASSUME NEW from \in Nat, NEW parts \in Seq(Nat), NEW total \in Nat, NEW n \in Nat,
           AddUp(from, parts, total)
    PROVE  AddUp(from, Append(parts, n), total + n)
<1> DEFINE more == Append(parts, n)
<1>1. PICK f \in [0..Len(parts) -> 0..total] :
          /\ f[0] = from /\ f[Len(parts)] = total
          /\ \A i \in 1..Len(parts) : f[i] = f[i - 1] + parts[i]
  BY Zenon DEF AddUp
<1>2. /\ Len(parts) \in Nat /\ Len(more) = Len(parts) + 1 /\ more[Len(parts) + 1] = n
      /\ \A i \in 1..Len(parts) : more[i] = parts[i]
  OBVIOUS
<1> DEFINE g == [i \in 0..(Len(parts) + 1) |-> IF i = Len(parts) + 1 THEN total + n ELSE f[i]]
<1>3. g \in [0..Len(more) -> 0..(total + n)]
  <2>1. \A i \in 0..(Len(parts) + 1) : i = Len(parts) + 1 \/ i \in 0..Len(parts)
    BY <1>2
  <2>2. \A i \in 0..(Len(parts) + 1) : g[i] \in 0..(total + n)
    BY <1>1, <2>1
  <2> QED
    BY <1>2, <2>2, Zenon
<1>4. g[0] = from /\ g[Len(more)] = total + n
  BY <1>1, <1>2
<1>5. \A i \in 1..Len(more) : g[i] = g[i - 1] + more[i]
  <2> SUFFICES ASSUME NEW i \in 1..Len(more) PROVE  g[i] = g[i - 1] + more[i]
    BY Zenon
  <2>1. CASE i = Len(parts) + 1
    BY <1>1, <1>2, <2>1
  <2>2. CASE i \in 1..Len(parts)
    <3>1. i \in 0..Len(parts) /\ i - 1 \in 0..Len(parts) /\ i # Len(parts) + 1 /\ i - 1 # Len(parts) + 1
      BY <1>2, <2>2
    <3>2. g[i] = f[i] /\ g[i - 1] = f[i - 1]
      BY <1>2, <3>1
    <3> QED
      BY <1>1, <1>2, <2>2, <3>2, Zenon
  <2> QED
    BY <1>2, <2>1, <2>2
<1> HIDE DEF g
<1> QED
  BY <1>3, <1>4, <1>5, Zenon DEF AddUp

\* The first piece is taken off; the sum it leads to is within the total.
LEMMA TakeOne ==
    ASSUME NEW from \in Nat, NEW parts \in Seq(Nat), NEW total \in Nat, parts # <<>>,
           AddUp(from, parts, total)
    PROVE  /\ from + Head(parts) <= total
           /\ AddUp(from + Head(parts), Tail(parts), total)
           /\ Head(parts) \in Nat /\ Tail(parts) \in Seq(Nat)
<1>1. PICK f \in [0..Len(parts) -> 0..total] :
          /\ f[0] = from /\ f[Len(parts)] = total
          /\ \A i \in 1..Len(parts) : f[i] = f[i - 1] + parts[i]
  BY Zenon DEF AddUp
<1> DEFINE rest == Tail(parts)
<1>2. /\ Len(parts) \in Nat /\ Len(parts) >= 1 /\ Len(rest) = Len(parts) - 1
      /\ Head(parts) = parts[1] /\ Head(parts) \in Nat
      /\ \A i \in 1..Len(rest) : rest[i] = parts[i + 1]
  OBVIOUS
<1>3. f[1] = from + Head(parts) /\ f[1] \in 0..total
  <2>1. 1 \in 1..Len(parts) /\ 1 \in 0..Len(parts) /\ 1 - 1 = 0
    BY <1>2
  <2> QED
    BY <1>1, <1>2, <2>1, Zenon
<1> DEFINE g == [i \in 0..Len(rest) |-> f[i + 1]]
<1>4. \A i \in 0..Len(rest) : i + 1 \in 0..Len(parts)
  BY <1>2
<1>5. g \in [0..Len(rest) -> 0..total]
  BY <1>1, <1>4, Zenon
<1>6. g[0] = from + Head(parts) /\ g[Len(rest)] = total
  BY <1>1, <1>2, <1>3
<1>7. \A i \in 1..Len(rest) : g[i] = g[i - 1] + rest[i]
  <2> SUFFICES ASSUME NEW i \in 1..Len(rest) PROVE  g[i] = g[i - 1] + rest[i]
    BY Zenon
  <2>1. /\ i \in 0..Len(rest) /\ i - 1 \in 0..Len(rest) /\ i + 1 \in 1..Len(parts)
        /\ (i - 1) + 1 = i /\ (i + 1) - 1 = i
    BY <1>2
  <2>2. g[i] = f[i + 1] /\ g[i - 1] = f[i]
    BY <2>1, Zenon
  <2> QED
    BY <1>1, <1>2, <2>1, <2>2, Zenon
<1> HIDE DEF g, rest
<1>8. AddUp(from + Head(parts), rest, total)
  BY <1>5, <1>6, <1>7, Zenon DEF AddUp
<1>9. Tail(parts) \in Seq(Nat)
  OBVIOUS
<1>10. from + Head(parts) <= total
  BY <1>3
<1> QED
  BY <1>2, <1>8, <1>9, <1>10, Zenon DEF rest

\* What is answered has the fields that the response is made from.
LEMMA ResponseFields ==
    ASSUME NEW a \in ToAnswer
    PROVE  /\ a.status \in Nat /\ a.body \in Nat
           /\ a.length \in SUBSET Nat /\ a.hop \in SUBSET HopHeaders
BY MasqueradeAssumption DEF ToAnswer, Empty

\* A request that a step leaves alone.
Same(q) ==
    /\ header'[q] = header[q] /\ chunks'[q] = chunks[q] /\ sent'[q] = sent[q]
    /\ task'[q] = task[q] /\ body'[q] = body[q] /\ handed'[q] = handed[q]
    /\ response'[q] = response[q] /\ answer'[q] = answer[q]
    /\ (q \in ended') = (q \in ended) /\ (q \in head') = (q \in head)

\* It keeps its invariant.
LEMMA SameKeeps ==
    ASSUME NEW q, Same(q), RequestInv(q)
    PROVE  RequestInv(q)'
<1>1. HeaderInv(q)'
  BY Zenon DEF Same, RequestInv, HeaderInv
<1>2. BodyInv(q)'
  BY DEF Same, RequestInv, BodyInv
<1>3. AnswerInv(q)'
  BY Zenon DEF Same, RequestInv, AnswerInv, ContentLength, HasData
<1> QED
  BY <1>1, <1>2, <1>3, Zenon DEF RequestInv

\* The initial states.
LEMMA MasqueradeStarts == MasqueradeInit => MasqueradeInv
<1> SUFFICES ASSUME MasqueradeInit PROVE MasqueradeInv
  BY Zenon
<1>1. MasqueradeTypeOK
  <2>1. Empty(0) \in ToAnswer /\ Unanswered \in Answer /\ "none" \in Stages
    BY Zenon DEF ToAnswer, Answer, Unanswered, Stages
  <2>2. <<>> \in Seq(Nat) /\ {} \in SUBSET Nat
    OBVIOUS
  <2> QED
    BY <2>1, <2>2, Zenon DEF MasqueradeInit, MasqueradeTypeOK
<1>3. LoopInv
  BY Zenon DEF MasqueradeInit, LoopInv
<1>2. ASSUME NEW r \in Requests PROVE RequestInv(r)
  <2>1. HeaderInv(r)
    BY Zenon DEF MasqueradeInit, HeaderInv
  <2>2. BodyInv(r)
    BY AddNothing, MasqueradeAssumption DEF MasqueradeInit, BodyInv, Empty
  <2>3. AnswerInv(r)
    BY Zenon DEF MasqueradeInit, AnswerInv, Unanswered
  <2> QED
    BY <2>1, <2>2, <2>3, Zenon DEF RequestInv
<1> QED
  BY <1>1, <1>2, <1>3, Zenon DEF MasqueradeInv

\* A request is opened: it has no task yet, so its method is still free.
LEMMA OpenKeeps ==
    ASSUME MasqueradeInv, NEW r \in Requests, NEW found \in {"partial", "malformed"},
           NEW isHead \in BOOLEAN, Open(r, found, isHead)
    PROVE  MasqueradeInv'
<1>1. MasqueradeTypeOK'
  BY Zenon DEF MasqueradeInv, MasqueradeTypeOK, Open, taskVars
<1>2. ASSUME NEW q \in Requests, q # r PROVE RequestInv(q)'
  <2>1. Same(q)
    BY <1>2 DEF MasqueradeInv, MasqueradeTypeOK, Open, taskVars, Same
  <2> QED
    BY <2>1, SameKeeps, Zenon DEF MasqueradeInv
<1>3. RequestInv(r)'
  <2>1. /\ header[r] = "none" /\ header'[r] = found /\ task[r] = "none" /\ r \notin ended
        /\ HeaderInv(r) /\ BodyInv(r) /\ AnswerInv(r)
    BY Zenon DEF MasqueradeInv, MasqueradeTypeOK, Open, RequestInv, HeaderInv
  <2>2. HeaderInv(r)'
    BY <2>1, Zenon DEF Open, taskVars, HeaderInv
  <2>3. BodyInv(r)'
    BY <2>1, Zenon DEF Open, taskVars, BodyInv
  <2>4. AnswerInv(r)'
    BY <2>1, Zenon DEF Open, taskVars, AnswerInv, Unanswered
  <2> QED
    BY <2>2, <2>3, <2>4, Zenon DEF RequestInv
<1>4. LoopInv'
  BY Zenon DEF MasqueradeInv, LoopInv, Open, taskVars
<1> QED
  BY <1>1, <1>2, <1>3, <1>4, Zenon DEF MasqueradeInv

\* The other steps of the client.
LEMMA ClientKeeps ==
    ASSUME MasqueradeInv, NEW r \in Requests,
           \/ CompleteHeader(r)
           \/ \E n \in Chunks : SendChunk(r, n)
           \/ EndBody(r)
           \/ Abort(r)
    PROVE  MasqueradeInv'
<1>0. /\ MasqueradeTypeOK /\ LoopInv /\ HeaderInv(r) /\ BodyInv(r) /\ AnswerInv(r)
      /\ \A q \in Requests : RequestInv(q)
  BY Zenon DEF MasqueradeInv, RequestInv
<1>1. CASE CompleteHeader(r)
  <2>1. MasqueradeTypeOK'
    BY <1>0, <1>1, Zenon DEF MasqueradeTypeOK, CompleteHeader, taskVars
  <2>2. ASSUME NEW q \in Requests, q # r PROVE RequestInv(q)'
    <3>1. Same(q)
      BY <1>0, <1>1, <2>2, Zenon DEF MasqueradeTypeOK, CompleteHeader, taskVars, Same
    <3> QED
      BY <1>0, <3>1, SameKeeps, Zenon
  <2>3. HeaderInv(r)' /\ BodyInv(r)'
    BY <1>0, <1>1, Zenon DEF MasqueradeTypeOK, CompleteHeader, taskVars, HeaderInv, BodyInv
  <2>4. AnswerInv(r)'
    BY <1>0, <1>1, Zenon DEF CompleteHeader, taskVars, AnswerInv, ContentLength, HasData
  <2>7. LoopInv'
    BY <1>0, <1>1, Zenon DEF LoopInv, CompleteHeader, taskVars
  <2> QED
    BY <2>1, <2>2, <2>3, <2>4, <2>7, Zenon DEF MasqueradeInv, RequestInv
<1>2. ASSUME NEW n \in Chunks, SendChunk(r, n) PROVE MasqueradeInv'
  <2>0. n \in Nat
    BY MasqueradeAssumption, Zenon
  <2>1. MasqueradeTypeOK'
    <3>1. Append(chunks[r], n) \in Seq(Nat) /\ sent[r] + n \in Nat
      BY <1>0, <2>0, AppendSeq, SumNat, Zenon DEF MasqueradeTypeOK
    <3> QED
      BY <1>0, <1>2, <3>1, Zenon DEF MasqueradeTypeOK, SendChunk, taskVars
  <2>2. ASSUME NEW q \in Requests, q # r PROVE RequestInv(q)'
    <3>1. Same(q)
      BY <1>0, <1>2, <2>2, Zenon DEF MasqueradeTypeOK, SendChunk, taskVars, Same
    <3> QED
      BY <1>0, <3>1, SameKeeps, Zenon
  <2>3. /\ header[r] = "whole" /\ r \notin ended /\ header' = header /\ ended' = ended
        /\ task' = task /\ body' = body /\ handed' = handed /\ response' = response
        /\ chunks'[r] = Append(chunks[r], n) /\ sent'[r] = sent[r] + n
    BY <1>0, <1>2, Zenon DEF MasqueradeTypeOK, SendChunk, taskVars
  <2>4. HeaderInv(r)'
    BY <1>0, <2>3, Zenon DEF HeaderInv
  <2>5. BodyInv(r)'
    <3>1. task[r] \in {"none", "receiving"} => AddUp(body[r], chunks'[r], sent'[r])
      <4>1. /\ body[r] \in Nat /\ chunks[r] \in Seq(Nat) /\ sent[r] \in Nat
        BY <1>0, Zenon DEF MasqueradeTypeOK
      <4>2. task[r] \in {"none", "receiving"} => AddUp(body[r], chunks[r], sent[r])
        BY <1>0, <2>3, Zenon DEF BodyInv
      <4> QED
        BY <2>0, <2>3, <4>1, <4>2, AddOne, Zenon
    <3>2. sent[r] > MaxBody => sent'[r] > MaxBody
      BY <1>0, <2>0, <2>3, MasqueradeAssumption DEF MasqueradeTypeOK
    <3> QED
      BY <1>0, <2>3, <3>1, <3>2, Zenon DEF BodyInv
  <2>6. AnswerInv(r)'
    BY <1>0, <1>2, Zenon DEF SendChunk, taskVars, AnswerInv, ContentLength, HasData
  <2>7. LoopInv'
    BY <1>0, <1>2, Zenon DEF LoopInv, SendChunk, taskVars
  <2> QED
    BY <2>1, <2>2, <2>4, <2>5, <2>6, <2>7, Zenon DEF MasqueradeInv, RequestInv
<1>3. CASE EndBody(r)
  <2>1. MasqueradeTypeOK'
    BY <1>0, <1>3, Zenon DEF MasqueradeTypeOK, EndBody, taskVars
  <2>2. ASSUME NEW q \in Requests, q # r PROVE RequestInv(q)'
    <3>1. Same(q)
      BY <1>0, <1>3, <2>2 DEF MasqueradeTypeOK, EndBody, taskVars, Same
    <3> QED
      BY <1>0, <3>1, SameKeeps, Zenon
  <2>3. HeaderInv(r)' /\ BodyInv(r)'
    BY <1>0, <1>3, Zenon DEF MasqueradeTypeOK, EndBody, taskVars, HeaderInv, BodyInv
  <2>4. AnswerInv(r)'
    BY <1>0, <1>3, Zenon DEF EndBody, taskVars, AnswerInv, ContentLength, HasData
  <2>7. LoopInv'
    BY <1>0, <1>3, Zenon DEF LoopInv, EndBody, taskVars
  <2> QED
    BY <2>1, <2>2, <2>3, <2>4, <2>7, Zenon DEF MasqueradeInv, RequestInv
<1>4. CASE Abort(r)
  <2>1. MasqueradeTypeOK'
    <3>1. <<>> \in Seq(Nat)
      OBVIOUS
    <3> QED
      BY <1>0, <1>4, <3>1, Zenon DEF MasqueradeTypeOK, Abort, taskVars
  <2>2. ASSUME NEW q \in Requests, q # r PROVE RequestInv(q)'
    <3>1. Same(q)
      BY <1>0, <1>4, <2>2, Zenon DEF MasqueradeTypeOK, Abort, taskVars, Same
    <3> QED
      BY <1>0, <3>1, SameKeeps, Zenon
  <2>3. HeaderInv(r)' /\ BodyInv(r)'
    BY <1>0, <1>4, Zenon DEF MasqueradeTypeOK, Abort, taskVars, HeaderInv, BodyInv
  <2>4. AnswerInv(r)'
    BY <1>0, <1>4, Zenon DEF Abort, taskVars, AnswerInv, ContentLength, HasData
  <2>7. LoopInv'
    BY <1>0, <1>4, Zenon DEF LoopInv, Abort, taskVars
  <2> QED
    BY <2>1, <2>2, <2>3, <2>4, <2>7, Zenon DEF MasqueradeInv, RequestInv
<1> QED
  BY <1>1, <1>2, <1>3, <1>4, Zenon

\* The request loop only starts tasks, of requests whose header is whole.
LEMMA LoopKeeps ==
    ASSUME MasqueradeInv, ClientLeaves \/ LoopStep
    PROVE  MasqueradeInv'
<1>0. MasqueradeTypeOK /\ LoopInv /\ \A q \in Requests : RequestInv(q)
  BY Zenon DEF MasqueradeInv
<1>1. ASSUME UNCHANGED <<requestVars, taskVars>>, LoopInv'
      PROVE  MasqueradeInv'
  <2>1. MasqueradeTypeOK'
    BY <1>0, <1>1, Zenon DEF MasqueradeTypeOK, requestVars, taskVars
  <2>2. ASSUME NEW q \in Requests PROVE RequestInv(q)'
    <3>1. Same(q)
      BY <1>1, Zenon DEF requestVars, taskVars, Same
    <3> QED
      BY <1>0, <3>1, SameKeeps, Zenon
  <2> QED
    BY <1>1, <2>1, <2>2, Zenon DEF MasqueradeInv
<1>2. CASE ClientLeaves
  <2>1. LoopInv'
    BY <1>0, <1>2, Zenon DEF LoopInv, ClientLeaves, taskVars
  <2> QED
    BY <1>1, <1>2, <2>1, Zenon DEF ClientLeaves
<1>3. ASSUME NEW r \in Requests, TakeRequest(r) PROVE MasqueradeInv'
  <2>1. LoopInv'
    BY <1>0, <1>3, MasqueradeAssumption DEF LoopInv, TakeRequest, taskVars
  <2> QED
    BY <1>1, <1>3, <2>1, Zenon DEF TakeRequest
<1>4. CASE LoopEnds
  <2>1. LoopInv'
    BY <1>0, <1>4, Zenon DEF LoopInv, LoopEnds, taskVars
  <2> QED
    BY <1>1, <1>4, <2>1, Zenon DEF LoopEnds
<1>5. CASE Resolve
  <2>0. taken \in Requests /\ header[taken] = "whole" /\ task[taken] = "none" /\ RequestInv(taken)
    BY <1>0, <1>5, Zenon DEF Resolve, LoopInv
  <2>1. MasqueradeTypeOK'
    BY <1>0, <1>5, <2>0, Zenon DEF MasqueradeTypeOK, Resolve, requestVars, Stages
  <2>2. ASSUME NEW q \in Requests, q # taken PROVE RequestInv(q)'
    <3>1. Same(q)
      BY <1>0, <1>5, <2>0, <2>2, Zenon DEF MasqueradeTypeOK, Resolve, requestVars, Same
    <3> QED
      BY <1>0, <3>1, SameKeeps, Zenon
  <2>3. HeaderInv(taken)' /\ BodyInv(taken)'
    BY <1>0, <1>5, <2>0, Zenon DEF MasqueradeTypeOK, Resolve, requestVars, RequestInv, HeaderInv, BodyInv
  <2>4. AnswerInv(taken)'
    BY <1>0, <1>5, <2>0, Zenon DEF MasqueradeTypeOK, Resolve, RequestInv, AnswerInv, Unanswered
  <2>5. LoopInv'
    BY <1>0, <1>5, <2>0, MasqueradeAssumption DEF MasqueradeTypeOK, LoopInv, Resolve
  <2>6. RequestInv(taken)' /\ taken' = taken
    BY <1>5, <2>3, <2>4, Zenon DEF RequestInv, Resolve
  <2>7. ASSUME NEW q \in Requests PROVE RequestInv(q)'
    BY <2>2, <2>6, Zenon
  <2> QED
    BY <2>1, <2>5, <2>7, Zenon DEF MasqueradeInv
<1> QED
  BY <1>2, <1>3, <1>4, <1>5, Zenon DEF LoopStep

\* A step of a task touches only its own request, and its stage was not "none".
Own(r) ==
    /\ task[r] # "none" /\ task'[r] # "none"
    /\ \A q \in Requests : q # r => Same(q)
    /\ UNCHANGED <<taken, loop, header, ended, head, sent>>

\* So the rest of the invariant needs no looking at.
LEMMA OwnKeeps ==
    ASSUME MasqueradeInv, NEW r \in Requests, Own(r), MasqueradeTypeOK', RequestInv(r)'
    PROVE  MasqueradeInv'
<1>1. LoopInv'
  BY Zenon DEF MasqueradeInv, LoopInv, Own, Same
<1>2. ASSUME NEW q \in Requests, q # r PROVE RequestInv(q)'
  BY <1>2, SameKeeps, Zenon DEF MasqueradeInv, Own
<1> QED
  BY <1>1, <1>2, Zenon DEF MasqueradeInv

\* A piece of the body is taken in, or is one too many.
LEMMA ReceiveKeeps ==
    ASSUME MasqueradeInv, NEW r \in Requests, Receive(r)
    PROVE  MasqueradeInv'
<1>0. MasqueradeTypeOK /\ HeaderInv(r) /\ BodyInv(r) /\ AnswerInv(r) /\ MaxBody \in Nat
  BY MasqueradeAssumption, Zenon DEF MasqueradeInv, RequestInv
<1>1. /\ body[r] \in Nat /\ chunks[r] \in Seq(Nat) /\ chunks[r] # <<>> /\ sent[r] \in Nat
      /\ task[r] = "receiving" /\ header[r] # "reset"
      /\ AddUp(body[r], chunks[r], sent[r])
  BY <1>0, Zenon DEF MasqueradeTypeOK, Receive, HeaderInv, BodyInv
<1>2. /\ body[r] + Head(chunks[r]) <= sent[r]
      /\ AddUp(body[r] + Head(chunks[r]), Tail(chunks[r]), sent[r])
      /\ Head(chunks[r]) \in Nat /\ Tail(chunks[r]) \in Seq(Nat)
  BY <1>1, TakeOne, Zenon
<1>3. Own(r)
  BY <1>0, <1>1 DEF MasqueradeTypeOK, Receive, Own, Same
<1>4. HeaderInv(r)'
  BY <1>0, <1>1, Zenon DEF MasqueradeTypeOK, Receive, HeaderInv
<1>5. CASE TooLarge(r)
  <2>1. MasqueradeTypeOK'
    <3>1. Empty(413) \in ToAnswer /\ "responding" \in Stages
      BY DEF ToAnswer, Stages
    <3>2. /\ response' = [response EXCEPT ![r] = Empty(413)]
          /\ task' = [task EXCEPT ![r] = "responding"]
          /\ chunks' = [chunks EXCEPT ![r] = Tail(chunks[r])]
          /\ UNCHANGED <<header, sent, body, handed, answer>>
      BY <1>5, Zenon DEF Receive
    <3>3. response' \in [Requests -> ToAnswer] /\ task' \in [Requests -> Stages]
      BY <1>0, <3>1, <3>2, Zenon DEF MasqueradeTypeOK
    <3> QED
      BY <1>0, <1>2, <3>2, <3>3, Zenon DEF MasqueradeTypeOK
  <2>2. BodyInv(r)'
    <3>1. sent[r] > MaxBody
      BY <1>0, <1>1, <1>2, <1>5, SumNat, Beyond, Zenon DEF TooLarge
    <3> QED
      BY <1>0, <1>5, <3>1 DEF MasqueradeTypeOK, Receive, BodyInv
  <2>3. AnswerInv(r)'
    BY <1>0, <1>1, <1>5, Zenon DEF MasqueradeTypeOK, Receive, AnswerInv, Unanswered
  <2> QED
    BY <1>3, <1>4, <2>1, <2>2, <2>3, OwnKeeps, Zenon DEF RequestInv
<1>6. CASE ~TooLarge(r)
  <2>1. MasqueradeTypeOK'
    <3>1. body[r] + Head(chunks[r]) \in Nat
      BY <1>1, <1>2, SumNat, Zenon
    <3> QED
      BY <1>0, <1>2, <1>6, <3>1, Zenon DEF MasqueradeTypeOK, Receive
  <2>2. BodyInv(r)'
    <3>1. body[r] + Head(chunks[r]) <= MaxBody
      BY <1>0, <1>1, <1>2, <1>6, SumNat, Within, Zenon DEF TooLarge
    <3>2. /\ body'[r] = body[r] + Head(chunks[r]) /\ chunks'[r] = Tail(chunks[r])
          /\ sent' = sent /\ task' = task /\ header' = header /\ handed' = handed
          /\ response' = response /\ ended' = ended
      BY <1>0, <1>6, Zenon DEF MasqueradeTypeOK, Receive
    <3> QED
      BY <1>0, <1>2, <3>1, <3>2, Zenon DEF BodyInv
  <2>3. AnswerInv(r)'
    BY <1>0, <1>1, <1>6, Zenon DEF MasqueradeTypeOK, Receive, AnswerInv, Unanswered
  <2> QED
    BY <1>3, <1>4, <2>1, <2>2, <2>3, OwnKeeps, Zenon DEF RequestInv
<1> QED
  BY <1>5, <1>6, Zenon

\* The whole body goes to the handler; without one, to nobody.
LEMMA HandleKeeps ==
    ASSUME MasqueradeInv, NEW r \in Requests, Handle(r)
    PROVE  MasqueradeInv'
<1>0. MasqueradeTypeOK /\ HeaderInv(r) /\ BodyInv(r) /\ AnswerInv(r)
  BY Zenon DEF MasqueradeInv, RequestInv
<1>1. /\ task[r] = "receiving" /\ r \in ended /\ header[r] = "whole" /\ body[r] = sent[r]
      /\ body[r] \in Nat
  <2>1. /\ task[r] = "receiving" /\ r \in ended /\ header[r] = "whole" /\ chunks[r] = <<>>
        /\ body[r] \in Nat /\ sent[r] \in Nat /\ AddUp(body[r], chunks[r], sent[r])
    BY <1>0, Zenon DEF MasqueradeTypeOK, Handle, HeaderInv, BodyInv
  <2> QED
    BY <2>1, AddNothing, Zenon
<1>2. Own(r)
  BY <1>0, <1>1 DEF MasqueradeTypeOK, Handle, requestVars, Own, Same
<1>3. HeaderInv(r)'
  BY <1>0, <1>1, Zenon DEF MasqueradeTypeOK, Handle, requestVars, HeaderInv
<1>4. MasqueradeTypeOK'
  <2>1. Empty(404) \in ToAnswer /\ "responding" \in Stages /\ "handling" \in Stages
    BY DEF ToAnswer, Stages
  <2> QED
    <3>1. UNCHANGED <<header, chunks, sent, body, answer>>
      BY Zenon DEF Handle, requestVars
    <3>2. handed' \in [Requests -> SUBSET Nat]
      <4>1. {body[r]} \in SUBSET Nat
        BY <1>1, Zenon
      <4> QED
        BY <1>0, <4>1, Zenon DEF MasqueradeTypeOK, Handle
    <3>3. task' \in [Requests -> Stages]
      BY <1>0, <2>1, Zenon DEF MasqueradeTypeOK, Handle
    <3>4. response' \in [Requests -> ToAnswer]
      <4>1. CASE handler
        BY <1>0, <4>1, Zenon DEF MasqueradeTypeOK, Handle
      <4>2. CASE ~handler
        <5>1. response' = [response EXCEPT ![r] = Empty(404)]
          BY <4>2, Zenon DEF Handle
        <5> QED
          BY <1>0, <2>1, <5>1, Zenon DEF MasqueradeTypeOK
      <4> QED
        BY <4>1, <4>2, Zenon
    <3> QED
      BY <1>0, <3>1, <3>2, <3>3, <3>4, Zenon DEF MasqueradeTypeOK
<1>5. BodyInv(r)'
  <2>1. UNCHANGED <<header, ended, chunks, sent, body>>
    BY Zenon DEF Handle, requestVars
  <2>2. CASE handler
    <3>1. /\ handed'[r] = {body[r]} /\ task'[r] = "handling" /\ response' = response
      BY <1>0, <2>2, Zenon DEF MasqueradeTypeOK, Handle
    <3>2. handed'[r] # {} /\ handed'[r] = {sent'[r]} /\ r \in ended'
      BY <1>1, <2>1, <3>1, Zenon
    <3>3. body'[r] <= MaxBody
      BY <1>0, <2>1, Zenon DEF BodyInv
    <3> QED
      BY <3>1, <3>2, <3>3, Zenon DEF BodyInv
  <2>3. CASE ~handler
    <3>1. /\ handed' = handed /\ task'[r] = "responding" /\ response'[r].status = 404
      BY <1>0, <2>3 DEF MasqueradeTypeOK, Handle, Empty
    <3> QED
      BY <1>0, <1>1, <2>1, <3>1 DEF BodyInv
  <2> QED
    BY <2>2, <2>3, Zenon
<1>6. AnswerInv(r)'
  BY <1>0, <1>1, Zenon DEF MasqueradeTypeOK, Handle, AnswerInv, Unanswered
<1> QED
  BY <1>2, <1>3, <1>4, <1>5, <1>6, OwnKeeps, Zenon DEF RequestInv

\* The handler answers what it likes, also 413, but only a body it was given.
LEMMA HandlerAnswersKeeps ==
    ASSUME MasqueradeInv, NEW r \in Requests, NEW a \in Responses, HandlerAnswers(r, a)
    PROVE  MasqueradeInv'
<1>0. MasqueradeTypeOK /\ HeaderInv(r) /\ BodyInv(r) /\ AnswerInv(r)
  BY Zenon DEF MasqueradeInv, RequestInv
<1>1. task[r] = "handling" /\ handed[r] # {}
  BY <1>0, Zenon DEF HandlerAnswers, BodyInv
<1>2. Own(r)
  BY <1>0, <1>1, Zenon DEF MasqueradeTypeOK, HandlerAnswers, requestVars, Own, Same
<1>3. HeaderInv(r)'
  BY <1>0, <1>1, Zenon DEF MasqueradeTypeOK, HandlerAnswers, requestVars, HeaderInv
<1>4. MasqueradeTypeOK'
  <2>1. a \in ToAnswer /\ "responding" \in Stages
    BY Zenon DEF ToAnswer, Stages
  <2> QED
    BY <1>0, <2>1, Zenon DEF MasqueradeTypeOK, HandlerAnswers, requestVars
<1>5. BodyInv(r)'
  BY <1>0, <1>1, Zenon DEF MasqueradeTypeOK, HandlerAnswers, requestVars, BodyInv
<1>6. AnswerInv(r)'
  BY <1>0, <1>1, Zenon DEF MasqueradeTypeOK, HandlerAnswers, AnswerInv, Unanswered
<1> QED
  BY <1>2, <1>3, <1>4, <1>5, <1>6, OwnKeeps, Zenon DEF RequestInv

\* The header of the response is corrected before it is sent.
LEMMA SendHeaderKeeps ==
    ASSUME MasqueradeInv, NEW r \in Requests, SendHeader(r)
    PROVE  MasqueradeInv'
<1>0. MasqueradeTypeOK /\ HeaderInv(r) /\ BodyInv(r) /\ AnswerInv(r)
  BY Zenon DEF MasqueradeInv, RequestInv
<1>1. /\ task[r] = "responding" /\ answer[r] = Unanswered
      /\ task'[r] = IF HasData(r) THEN "sending" ELSE "finishing"
      /\ answer'[r].status = response[r].status /\ answer'[r].length = ContentLength(r)
      /\ "Transfer-Encoding" \notin answer'[r].hop /\ answer'[r].data = 0 /\ ~answer'[r].finished
  <2>1. task[r] = "responding" /\ answer[r] = Unanswered
    BY <1>0, Zenon DEF SendHeader, AnswerInv
  <2>2. task'[r] = IF HasData(r) THEN "sending" ELSE "finishing"
    BY <1>0, Zenon DEF MasqueradeTypeOK, SendHeader
  <2>3. answer'[r] = [answer[r] EXCEPT !.status = response[r].status,
                                       !.length = ContentLength(r),
                                       !.hop = response[r].hop \ Removed]
    BY <1>0, Zenon DEF MasqueradeTypeOK, SendHeader
  <2> QED
    BY <2>1, <2>2, <2>3 DEF Unanswered, Removed
<1>2. Own(r)
  BY <1>0, <1>1, Zenon DEF MasqueradeTypeOK, SendHeader, requestVars, Own, Same
<1>3. HeaderInv(r)'
  BY <1>0, <1>1, Zenon DEF MasqueradeTypeOK, SendHeader, requestVars, HeaderInv
<1>4. MasqueradeTypeOK'
  <2>1. /\ response[r].status \in Nat /\ ContentLength(r) \in SUBSET Nat
        /\ response[r].hop \ Removed \in SUBSET HopHeaders
    BY <1>0, ResponseFields, Zenon DEF MasqueradeTypeOK, ContentLength
  <2>2. task' \in [Requests -> Stages]
    BY <1>0, Zenon DEF MasqueradeTypeOK, SendHeader, Stages
  <2>3. answer' \in [Requests -> Answer]
    <3>1. \A x \in Answer, n \in Nat, l \in SUBSET Nat, h \in SUBSET HopHeaders :
             [x EXCEPT !.status = n, !.length = l, !.hop = h] \in Answer
      BY Zenon DEF Answer
    <3> QED
      BY <1>0, <2>1, <3>1, Zenon DEF MasqueradeTypeOK, SendHeader
  <2> QED
    BY <1>0, <2>2, <2>3, Zenon DEF MasqueradeTypeOK, SendHeader, requestVars
<1>5. BodyInv(r)'
  BY <1>0, <1>1, Zenon DEF MasqueradeTypeOK, SendHeader, requestVars, BodyInv
<1>6. AnswerInv(r)'
  <2>1. UNCHANGED <<head, response>>
    BY Zenon DEF SendHeader, requestVars
  <2>2. (HasData(r)' <=> HasData(r)) /\ ContentLength(r)' = ContentLength(r)
    BY <2>1, Zenon DEF HasData, ContentLength
  <2> QED
    BY <1>1, <2>1, <2>2, Zenon DEF AnswerInv
<1> QED
  BY <1>2, <1>3, <1>4, <1>5, <1>6, OwnKeeps, Zenon DEF RequestInv

\* The rest of the response, or its failure.
LEMMA AnswerKeeps ==
    ASSUME MasqueradeInv, NEW r \in Requests, SendData(r) \/ Finish(r) \/ TaskFails(r)
    PROVE  MasqueradeInv'
<1>0. /\ MasqueradeTypeOK /\ HeaderInv(r) /\ BodyInv(r) /\ AnswerInv(r)
      /\ response[r].body \in Nat
  BY ResponseFields, Zenon DEF MasqueradeInv, RequestInv, MasqueradeTypeOK
<1>1. /\ UNCHANGED <<head, response>>
      /\ HasData(r)' <=> HasData(r)
      /\ ContentLength(r)' = ContentLength(r)
  BY Zenon DEF SendData, Finish, TaskFails, requestVars, HasData, ContentLength
<1>2. Own(r)
  BY <1>0, Zenon DEF MasqueradeTypeOK, SendData, Finish, TaskFails, requestVars, Own, Same
<1>3. HeaderInv(r)'
  BY <1>0, Zenon DEF MasqueradeTypeOK, SendData, Finish, TaskFails, requestVars, HeaderInv
<1>4. BodyInv(r)'
  BY <1>0 DEF MasqueradeTypeOK, SendData, Finish, TaskFails, requestVars, BodyInv
<1>5. MasqueradeTypeOK'
  <2>1. UNCHANGED <<header, chunks, sent, body, handed, response>>
    BY Zenon DEF SendData, Finish, TaskFails, requestVars
  <2>2. task' \in [Requests -> Stages]
    BY <1>0, Zenon DEF MasqueradeTypeOK, SendData, Finish, TaskFails, Stages
  <2>3. answer' \in [Requests -> Answer]
    <3>1. \A x \in Answer, d \in Nat : [x EXCEPT !.data = d] \in Answer
      BY Zenon DEF Answer
    <3>2. \A x \in Answer : [x EXCEPT !.finished = TRUE] \in Answer
      BY Zenon DEF Answer
    <3>3. CASE SendData(r)
      BY <1>0, <3>1, <3>3, Zenon DEF MasqueradeTypeOK, SendData
    <3>4. CASE Finish(r)
      BY <1>0, <3>2, <3>4, Zenon DEF MasqueradeTypeOK, Finish
    <3>5. CASE TaskFails(r)
      BY <1>0, <3>5, Zenon DEF MasqueradeTypeOK, TaskFails
    <3> QED
      BY <3>3, <3>4, <3>5, Zenon
  <2> QED
    BY <1>0, <2>1, <2>2, <2>3, Zenon DEF MasqueradeTypeOK
<1>6. AnswerInv(r)'
  <2>1. CASE SendData(r)
    BY <1>0, <1>1, <2>1 DEF MasqueradeTypeOK, SendData, AnswerInv, Answer
  <2>2. CASE Finish(r)
    BY <1>0, <1>1, <2>2, Zenon DEF MasqueradeTypeOK, Finish, AnswerInv, Answer
  <2>3. CASE TaskFails(r)
    BY <1>0, <1>1, <2>3, Zenon DEF MasqueradeTypeOK, TaskFails, AnswerInv, Answer
  <2> QED
    BY <2>1, <2>2, <2>3, Zenon
<1> QED
  BY <1>2, <1>3, <1>4, <1>5, <1>6, OwnKeeps, Zenon DEF RequestInv

\* The invariant of the masquerade, on any connection.
LEMMA MasqueradeInvariant == Spec => []MasqueradeInv
<1>1. Init => MasqueradeInv
  BY MasqueradeStarts, Zenon DEF Init
<1>2. MasqueradeInv /\ [Next]_vars => MasqueradeInv'
  <2> SUFFICES ASSUME MasqueradeInv, [Next]_vars PROVE MasqueradeInv'
    BY Zenon
  <2>1. CASE UNCHANGED masqueradeVars
    <3>1. MasqueradeTypeOK'
      BY <2>1, Zenon DEF MasqueradeInv, MasqueradeTypeOK, masqueradeVars, requestVars, taskVars
    <3>2. LoopInv'
      BY <2>1, Zenon DEF MasqueradeInv, LoopInv, masqueradeVars, taskVars
    <3>3. ASSUME NEW q \in Requests PROVE RequestInv(q)'
      <4>1. Same(q)
        BY <2>1, Zenon DEF masqueradeVars, requestVars, taskVars, Same
      <4> QED
        BY <4>1, SameKeeps, Zenon DEF MasqueradeInv
    <3> QED
      BY <3>1, <3>2, <3>3, Zenon DEF MasqueradeInv
  <2>2. CASE MasqueradeNext
    BY Zenon, <2>2, OpenKeeps, ClientKeeps, LoopKeeps, ReceiveKeeps, HandleKeeps, HandlerAnswersKeeps,
       SendHeaderKeeps, AnswerKeeps DEF MasqueradeNext, TaskStep
  <2> QED
    BY <2>1, <2>2, Zenon DEF Next, Proxy, Website, vars
<1> QED
  BY <1>1, <1>2, PTL DEF Spec

(***************************************************************************)
(* A handler of the masquerade is given a body whole or not at all, no     *)
(* task collects more than MAX_MASQUERADE_REQUEST_SIZE, and the server     *)
(* says 413 only to what exceeds it, for any bodies, cut in any way, on    *)
(* any number of streams that are reset and answered in any order.         *)
(***************************************************************************)
THEOREM MasqueradeBodiesWhole == Spec => []BodiesWhole
<1>1. MasqueradeInv => BodiesWhole
  BY Zenon DEF MasqueradeInv, RequestInv, BodyInv, BodiesWhole
<1> QED
  BY <1>1, MasqueradeInvariant, PTL

(***************************************************************************)
(* Whatever a handler answers, the framing of the masquerade's response is *)
(* consistent: announced length and data agree, a HEAD or a status without *)
(* a body gets none, and there is no Transfer-Encoding.                    *)
(***************************************************************************)
THEOREM MasqueradeAnswersConsistent == Spec => []AnswersConsistent
<1>1. MasqueradeInv => AnswersConsistent
  <2> SUFFICES ASSUME MasqueradeInv, NEW r \in Requests, answer[r].finished
               PROVE  /\ "Transfer-Encoding" \notin answer[r].hop
                      /\ r \in head \/ ~BodyAllowed(answer[r].status) => answer[r].data = 0
                      /\ r \notin head => answer[r].length =
                             (IF BodyAllowed(answer[r].status) THEN {answer[r].data} ELSE {})
    BY Zenon DEF AnswersConsistent
  <2>1. AnswerInv(r) /\ response[r].body \in Nat
    BY ResponseFields, Zenon DEF MasqueradeInv, MasqueradeTypeOK, RequestInv
  <2> QED
    BY <2>1 DEF AnswerInv, ContentLength, HasData
<1> QED
  BY <1>1, MasqueradeInvariant, PTL

-----------------------------------------------------------------------------
(***************************************************************************)
(* Variable-length integers.                                               *)
(***************************************************************************)
Bytes == 0..255

Agree(a, b) == Len(a) = Len(b) /\ \A i \in 1..Len(a) : a[i] = b[i]

\* Sequences are equal when their elements are.
LEMMA SameSeq ==
    ASSUME NEW a \in Seq(Nat), NEW b \in Seq(Nat), Agree(a, b)
    PROVE  a = b
<1>1. Len(a) = Len(b) /\ \A i \in 1..Len(a) : a[i] = b[i]
  BY Zenon DEF Agree
<1>2. a = [i \in 1..Len(a) |-> a[i]]
  OBVIOUS
<1>3. b = [i \in 1..Len(b) |-> b[i]]
  OBVIOUS
<1>4. [i \in 1..Len(a) |-> a[i]] = [i \in 1..Len(b) |-> b[i]]
  BY <1>1, Zenon
<1> QED
  BY <1>2, <1>3, <1>4, Zenon

\* Bytes are numbers.
LEMMA BytesAreNumbers ==
    ASSUME NEW p \in Seq(Bytes)
    PROVE  /\ p \in Seq(Nat)
           /\ \A i \in 1..Len(p) : p[i] \in Bytes
<1>1. Len(p) \in Nat /\ \A i \in 1..Len(p) : p[i] \in Bytes
    OBVIOUS
<1>2. \A i \in 1..Len(p) : p[i] \in Nat
    <2>1. \A b \in Bytes : b \in Nat
        BY DEF Bytes
    <2> QED
        BY <1>1, <2>1, Zenon
<1>3. p = [i \in 1..Len(p) |-> p[i]]
    OBVIOUS
<1>4. [i \in 1..Len(p) |-> p[i]] \in Seq(Nat)
    BY <1>1, <1>2
<1> QED
    BY <1>1, <1>3, <1>4, Zenon

(***************************************************************************)
(* Sequences put together.                                                 *)
(***************************************************************************)

\* The elements of two sequences put together.
LEMMA ConcatElements ==
    ASSUME NEW a \in Seq(Nat), NEW b \in Seq(Nat)
    PROVE  /\ a \o b \in Seq(Nat) /\ Len(a \o b) = Len(a) + Len(b)
           /\ \A i \in 1..Len(a) : (a \o b)[i] = a[i]
           /\ \A i \in 1..Len(b) : (a \o b)[Len(a) + i] = b[i]
OBVIOUS

Associate(a, b, c) == a \o (b \o c) = (a \o b) \o c

\* Putting sequences together associates.
LEMMA Associates ==
    ASSUME NEW a \in Seq(Nat), NEW b \in Seq(Nat), NEW c \in Seq(Nat)
    PROVE  Associate(a, b, c)
BY SMTT(30) DEF Associate

Five(a, b, c, d, e) == (((a \o b) \o c) \o d) \o e = a \o (b \o (c \o (d \o e)))

\* Five sequences, put together from the left or from the right.
LEMMA FiveParts ==
    ASSUME NEW a \in Seq(Nat), NEW b \in Seq(Nat), NEW c \in Seq(Nat), NEW d \in Seq(Nat),
           NEW e \in Seq(Nat)
    PROVE  Five(a, b, c, d, e)
<1>1. PICK ab, de, cde : ab = a \o b /\ de = d \o e /\ cde = c \o de
  BY Zenon
<1>2. ab \in Seq(Nat) /\ de \in Seq(Nat) /\ cde \in Seq(Nat) /\ ab \o c \in Seq(Nat)
  BY <1>1
<1>3. Associate(ab \o c, d, e) /\ Associate(ab, c, de) /\ Associate(a, b, cde)
  BY <1>2, Associates, Zenon
<1> QED
  BY <1>1, <1>3, Zenon DEF Associate, Five

\* The two parts of a sequence that was put together.
LEMMA Parts ==
    ASSUME NEW a \in Seq(Nat), NEW b \in Seq(Nat), NEW s, s = a \o b
    PROVE  /\ Len(s) = Len(a) + Len(b) /\ ~(Len(s) < Len(a))
           /\ SubSeq(s, 1, Len(a)) = a /\ SubSeq(s, Len(a) + 1, Len(s)) = b
<1>1. /\ Len(a) \in Nat /\ Len(b) \in Nat /\ s \in Seq(Nat) /\ Len(s) = Len(a) + Len(b)
      /\ \A i \in 1..Len(a) : s[i] = a[i]
      /\ \A i \in 1..Len(b) : s[Len(a) + i] = b[i]
  BY ConcatElements
<1> DEFINE u == SubSeq(s, 1, Len(a))
           w == SubSeq(s, Len(a) + 1, Len(s))
<1>2. u \in Seq(Nat) /\ Len(u) = Len(a) /\ \A i \in 1..Len(u) : u[i] = s[i]
  BY <1>1
<1>3. w \in Seq(Nat) /\ Len(w) = Len(b) /\ \A i \in 1..Len(w) : w[i] = s[Len(a) + i]
  <2>1. w \in Seq(Nat) /\ Len(w) = Len(b)
    BY <1>1
  <2>2. ASSUME NEW i \in 1..Len(w) PROVE w[i] = s[Len(a) + i]
    BY <1>1, <2>1
  <2> QED
    BY <2>1, <2>2, Zenon
<1> HIDE DEF u, w
<1>4. u = a
  BY <1>1, <1>2, SameSeq, Zenon DEF Agree
<1>5. w = b
  BY <1>1, <1>3, SameSeq, Zenon DEF Agree
<1> QED
  BY <1>1, <1>4, <1>5 DEF u, w

\* A reader that takes off a prefix leaves the rest.
LEMMA PrefixOff ==
    ASSUME NEW p \in Seq(Bytes), NEW rest \in Seq(Nat)
    PROVE  LET s == p \o rest IN
           /\ s \in Seq(Nat) /\ Len(s) = Len(p) + Len(rest)
           /\ \A i \in 1..Len(p) : s[i] = p[i]
           /\ SubSeq(s, Len(p) + 1, Len(s)) = rest
<1> DEFINE s == p \o rest
           t == SubSeq(s, Len(p) + 1, Len(s))
<1>0. p \in Seq(Nat)
    BY BytesAreNumbers, Zenon
<1>1. s \in Seq(Nat) /\ Len(s) = Len(p) + Len(rest) /\ Len(p) \in Nat /\ Len(rest) \in Nat
    BY <1>0
<1>2. \A i \in 1..Len(s) : s[i] = IF i <= Len(p) THEN p[i] ELSE rest[i - Len(p)]
    BY <1>1
<1>3. t \in Seq(Nat) /\ Len(t) = Len(rest)
    BY <1>1
<1>4. \A i \in 1..Len(t) : t[i] = rest[i]
    BY <1>1, <1>2, <1>3
<1>5. t = rest
    BY <1>3, <1>4, SameSeq, Zenon DEF Agree
<1> QED
    BY <1>1, <1>2, <1>5

\* The last byte of a number is what its quotient by 256 leaves.
LEMMA Digit ==
    ASSUME NEW v \in Nat
    PROVE  /\ v \div 256 \in Nat
           /\ v - (v \div 256) * 256 \in Bytes
           /\ v % 256 = v - (v \div 256) * 256
<1>1. v \div 256 \in Nat /\ v - (v \div 256) * 256 \in Bytes
    BY SMT DEF Bytes
<1>2. ASSUME NEW q \in Nat, NEW r \in Bytes, v = q * 256 + r
      PROVE  v % 256 = r
    BY <1>2, SMT DEF Bytes
<1>3. v = (v \div 256) * 256 + (v - (v \div 256) * 256)
    BY <1>1, SMT
<1> QED
    BY <1>1, <1>2, <1>3, SMT

\* Dividing by 256 twice is dividing by 65536, and so on.
LEMMA DivTwice ==
    ASSUME NEW v \in Nat
    PROVE  /\ v \div 65536 = (v \div 256) \div 256
           /\ v \div 16777216 = (v \div 65536) \div 256
           /\ (v \div 65536) \div 65536 = (v \div 16777216) \div 256
BY SMTT(30)

\* The same for a given quotient.
LEMMA DigitOf ==
    ASSUME NEW v \in Nat, NEW q, q = v \div 256
    PROVE  q \in Nat /\ v - q * 256 \in Bytes /\ v % 256 = v - q * 256
BY Digit, SMT

High(v) == (v \div 65536) \div 65536

\* The bytes of Quad, and the number they make up.
LEMMA QuadHolds ==
    ASSUME NEW v \in Nat
    PROVE  /\ High(v) \in Nat
           /\ \E a, b, c, d \in Bytes :
                 /\ Quad(v) = <<a, b, c, d>>
                 /\ v = (((High(v) * 256 + a) * 256 + b) * 256 + c) * 256 + d
<1>1. PICK q1, q2, q3, q4 : /\ q1 = v \div 256 /\ q2 = v \div 65536
                            /\ q3 = v \div 16777216 /\ q4 = High(v)
    BY SMT
<1>2. q1 = v \div 256 /\ q2 = q1 \div 256 /\ q3 = q2 \div 256 /\ q4 = q3 \div 256
    BY <1>1, DivTwice, SMT DEF High
<1>3. Quad(v) = <<q3 % 256, q2 % 256, q1 % 256, v % 256>>
    BY <1>1, SMT DEF Quad
<1>4. q1 \in Nat /\ v - q1 * 256 \in Bytes /\ v % 256 = v - q1 * 256
    <2>1. v \in Nat /\ q1 = v \div 256
        BY <1>2, Zenon
    <2> QED
        BY <2>1, DigitOf
<1>5. q2 \in Nat /\ q1 - q2 * 256 \in Bytes /\ q1 % 256 = q1 - q2 * 256
    <2>1. q1 \in Nat /\ q2 = q1 \div 256
        BY <1>4, <1>2, Zenon
    <2> QED
        BY <2>1, DigitOf
<1>6. q3 \in Nat /\ q2 - q3 * 256 \in Bytes /\ q2 % 256 = q2 - q3 * 256
    <2>1. q2 \in Nat /\ q3 = q2 \div 256
        BY <1>5, <1>2, Zenon
    <2> QED
        BY <2>1, DigitOf
<1>7. q4 \in Nat /\ q3 - q4 * 256 \in Bytes /\ q3 % 256 = q3 - q4 * 256
    <2>1. q3 \in Nat /\ q4 = q3 \div 256
        BY <1>6, <1>2, Zenon
    <2> QED
        BY <2>1, DigitOf
<1>8. v = (((q4 * 256 + (q3 - q4 * 256)) * 256 + (q2 - q3 * 256)) * 256
              + (q1 - q2 * 256)) * 256 + (v - q1 * 256)
    BY <1>4, <1>5, <1>6, <1>7, SMT
<1>9. Quad(v) = <<q3 - q4 * 256, q2 - q3 * 256, q1 - q2 * 256, v - q1 * 256>>
    BY <1>3, <1>4, <1>5, <1>6, <1>7, SMT
<1>10. \E a, b, c, d \in Bytes :
          /\ Quad(v) = <<a, b, c, d>>
          /\ v = (((High(v) * 256 + a) * 256 + b) * 256 + c) * 256 + d
    <2> q3 - q4 * 256 \in Bytes /\ q2 - q3 * 256 \in Bytes
        BY <1>6, <1>7, Zenon
    <2> q1 - q2 * 256 \in Bytes /\ v - q1 * 256 \in Bytes
        BY <1>4, <1>5
    <2> WITNESS q3 - q4 * 256 \in Bytes, q2 - q3 * 256 \in Bytes,
                q1 - q2 * 256 \in Bytes, v - q1 * 256 \in Bytes
    <2> QED
        BY <1>1, <1>8, <1>9, SMT
<1>11. High(v) \in Nat
    BY <1>1, <1>7, SMT
<1> QED
    BY <1>10, <1>11, SMT

\* The bytes of a number in its four lengths, and the number they stand for.
Six == 0..63

Lead(k, a) == k * 64 + a

Two(a, b) == <<Lead(1, a), b>>
Four(a, b, c, d) == <<Lead(2, a), b, c, d>>
Eight(e, f, g, h, a, b, c, d) == <<Lead(3, e), f, g, h>> \o <<a, b, c, d>>

TwoValue(a, b) == a * 256 + b
FourValue(a, b, c, d) == ((a * 256 + b) * 256 + c) * 256 + d
EightValue(e, f, g, h, a, b, c, d) ==
    (((((((e * 256 + f) * 256 + g) * 256 + h) * 256 + a) * 256 + b) * 256 + c) * 256 + d)

\* The first byte tells the length, and keeps six bits of the number.
LEMMA FirstByte ==
    ASSUME NEW a \in Six
    PROVE  /\ VarintLength(a) = 1 /\ a % 64 = a /\ a \in Bytes
           /\ VarintLength(Lead(1, a)) = 2 /\ Lead(1, a) % 64 = a /\ Lead(1, a) \in Bytes
           /\ VarintLength(Lead(2, a)) = 4 /\ Lead(2, a) % 64 = a /\ Lead(2, a) \in Bytes
           /\ VarintLength(Lead(3, a)) = 8 /\ Lead(3, a) % 64 = a /\ Lead(3, a) \in Bytes
<1>1. a \div 64 = 0 /\ (64 + a) \div 64 = 1 /\ (128 + a) \div 64 = 2 /\ (192 + a) \div 64 = 3
    BY SMT DEF Six
<1>2. a % 64 = a /\ (64 + a) % 64 = a /\ (128 + a) % 64 = a /\ (192 + a) % 64 = a
    BY SMT DEF Six
<1>3. VarintLength(a) = 1 /\ VarintLength(64 + a) = 2
    BY <1>1, SMT DEF VarintLength
<1>4. VarintLength(128 + a) = 4 /\ VarintLength(192 + a) = 8
    BY <1>1, SMT DEF VarintLength
<1>5. Lead(1, a) = 64 + a /\ Lead(2, a) = 128 + a /\ Lead(3, a) = 192 + a
    BY SMT DEF Lead, Six
<1>6. a \in Bytes /\ Lead(1, a) \in Bytes /\ Lead(2, a) \in Bytes /\ Lead(3, a) \in Bytes
    BY SMT DEF Lead, Six, Bytes
<1> QED
    BY <1>2, <1>3, <1>4, <1>5, <1>6, SMT

\* What EncodeVarint writes, in its four cases.
Written(v) ==
    \/ v \in Six /\ EncodeVarint(v) = <<v>>
    \/ \E a \in Six, b \in Bytes : EncodeVarint(v) = Two(a, b) /\ v = TwoValue(a, b)
    \/ \E a \in Six, b, c, d \in Bytes :
          EncodeVarint(v) = Four(a, b, c, d) /\ v = FourValue(a, b, c, d)
    \/ \E e \in Six, f, g, h, a, b, c, d \in Bytes :
          /\ EncodeVarint(v) = Eight(e, f, g, h, a, b, c, d)
          /\ v = EightValue(e, f, g, h, a, b, c, d)

\* EncodeVarint, by the ranges its branches tell apart.
LEMMA EncodedBytes ==
    ASSUME NEW v \in Nat, Encodable(v)
    PROVE  Written(v)
<1>1. CASE v < 64
    <2>1. EncodeVarint(v) = <<v>>
        BY <1>1, SMT DEF EncodeVarint
    <2>2. v \in Six
        BY <1>1, SMT DEF Six
    <2> QED
        BY <2>1, <2>2, Zenon DEF Written
<1>2. CASE ~(v < 64) /\ v < 16384
    <2>1. EncodeVarint(v) = <<64 + v \div 256, v % 256>>
        BY <1>2, SMT DEF EncodeVarint
    <2>2. v \div 256 \in 0..63
        BY <1>2, SMT
    <2>3. v % 256 \in Bytes /\ v % 256 = v - (v \div 256) * 256
        BY Digit
    <2>4. PICK b \in Bytes : b = v % 256 /\ b = v - (v \div 256) * 256
        BY <2>3, Zenon
    <2>5. PICK a \in Six : a = v \div 256
        BY <2>2, SMT DEF Six
    <2>6. v = TwoValue(a, b)
        BY <2>2, <2>4, <2>5, SMT DEF TwoValue
    <2>7. EncodeVarint(v) = Two(a, b)
        BY <2>1, <2>4, <2>5, SMT DEF Two, Lead
    <2> QED
        BY <2>6, <2>7, Zenon DEF Written
<1>3. CASE ~(v < 64) /\ ~(v < 16384) /\ v < 1073741824
    <2>1. PICK a, b, c, d \in Bytes :
             /\ Quad(v) = <<a, b, c, d>>
             /\ v = (((High(v) * 256 + a) * 256 + b) * 256 + c) * 256 + d
        BY QuadHolds, SMT
    <2>2. High(v) \in Nat
        BY QuadHolds, SMT
    <2>3. High(v) = 0 /\ a \in 0..63
        <3>1. High(v) = 0
            BY <1>3, SMT DEF High
        <3>2. v >= a * 16777216
            BY <2>1, <2>2, SMT DEF Bytes
        <3> QED
            BY <1>3, <3>1, <3>2, SMT DEF Bytes
    <2>4. EncodeVarint(v) = Marked(128, Quad(v))
        BY <1>3, SMT DEF EncodeVarint
    <2>5. EncodeVarint(v) = Four(a, b, c, d)
        BY <2>1, <2>4, SMT DEF Marked, Four, Lead
    <2>6. v = FourValue(a, b, c, d)
        BY <2>1, <2>3, SMT DEF Bytes, FourValue
    <2>7. a \in Six
        BY <2>3, SMT DEF Six
    <2> QED
        BY <2>5, <2>6, <2>7, Zenon DEF Written
<1>4. CASE ~(v < 64) /\ ~(v < 16384) /\ ~(v < 1073741824)
    <2>1. PICK a, b, c, d \in Bytes :
             /\ Quad(v) = <<a, b, c, d>>
             /\ v = (((High(v) * 256 + a) * 256 + b) * 256 + c) * 256 + d
        BY QuadHolds, SMT
    <2>2. High(v) \in Nat
        BY QuadHolds, SMT
    <2>3. PICK e, f, g, h \in Bytes :
             /\ Quad(High(v)) = <<e, f, g, h>>
             /\ High(v) = (((High(High(v)) * 256 + e) * 256 + f) * 256 + g) * 256 + h
        BY <2>2, QuadHolds, SMT
    <2>4. High(High(v)) \in Nat
        BY <2>2, QuadHolds, SMT
    <2>5. High(v) < 1073741824
        BY SMTT(30) DEF High, Encodable
    <2>6. High(High(v)) = 0 /\ e \in 0..63
        <3>1. High(High(v)) = 0
            BY <2>2, <2>5, SMT DEF High
        <3>2. High(v) >= e * 16777216
            BY <2>3, <2>4, SMT DEF Bytes
        <3> QED
            BY <2>2, <2>5, <3>1, <3>2, SMT DEF Bytes
    <2>7. EncodeVarint(v) = Marked(192, Quad(High(v))) \o Quad(v)
        BY <1>4, SMT DEF EncodeVarint, High
    <2>8. EncodeVarint(v) = Eight(e, f, g, h, a, b, c, d)
        <3>1. Marked(192, Quad(High(v))) = <<192 + e, f, g, h>>
            BY <2>3, SMT DEF Marked
        <3>2. Lead(3, e) = 192 + e
            BY <2>6, SMT DEF Lead
        <3> QED
            BY <2>1, <2>7, <3>1, <3>2, Zenon DEF Eight
    <2>9. High(v) = ((e * 256 + f) * 256 + g) * 256 + h
        BY <2>3, <2>6, SMTT(30) DEF Bytes
    <2>10. v = EightValue(e, f, g, h, a, b, c, d)
        BY <2>1, <2>2, <2>9, SMT DEF Bytes, EightValue
    <2>11. e \in Six
        BY <2>6, SMT DEF Six
    <2> QED
        BY <2>8, <2>10, <2>11, Zenon DEF Written
<1> QED
    BY <1>1, <1>2, <1>3, <1>4, SMT

\* A number whose bytes are p is read back, and what follows is left.
LEMMA ReadBack ==
    ASSUME NEW p \in Seq(Bytes), NEW rest \in Seq(Nat), NEW s, s = p \o rest, NEW v,
           NEW k \in {1, 2, 4, 8}, Len(p) = k, VarintLength(p[1]) = k, VarintValue(s) = v
    PROVE  DecodeVarint(s) = Ok(v, rest)
<1>1. /\ s \in Seq(Nat) /\ Len(s) = Len(p) + Len(rest)
      /\ \A i \in 1..Len(p) : s[i] = p[i]
      /\ SubSeq(s, Len(p) + 1, Len(s)) = rest
    BY PrefixOff, Zenon
<1>2. Len(rest) \in Nat /\ 1 \in 1..Len(p)
    OBVIOUS
<1>3. s[1] = p[1] /\ s # <<>> /\ ~(Len(s) < Len(p))
    BY <1>1, <1>2
<1>4. DecodeVarint(s) = Ok(VarintValue(s), SubSeq(s, Len(p) + 1, Len(s)))
    BY <1>3, Zenon DEF DecodeVarint
<1> QED
    BY <1>1, <1>4, Zenon

\* What VarintValue makes of one byte.
LEMMA ValueOfOne ==
    ASSUME NEW s, NEW a \in Six, s[1] = a
    PROVE  VarintValue(s) = a
<1>1. VarintLength(a) = 1 /\ a % 64 = a
    BY FirstByte, Zenon
<1> QED
    BY <1>1, SMT DEF VarintValue

\* What VarintValue makes of two bytes.
LEMMA ValueOfTwo ==
    ASSUME NEW s, NEW a \in Six, NEW b \in Bytes, s[1] = Lead(1, a), s[2] = b
    PROVE  VarintValue(s) = TwoValue(a, b)
<1>1. VarintLength(Lead(1, a)) = 2 /\ Lead(1, a) % 64 = a
    BY FirstByte, Zenon
<1> QED
    BY <1>1, SMT DEF VarintValue, TwoValue

\* What VarintValue makes of four bytes.
LEMMA ValueOfFour ==
    ASSUME NEW s, NEW a \in Six, s[1] = Lead(2, a)
    PROVE  VarintValue(s) = FourValue(a, s[2], s[3], s[4])
<1>1. VarintLength(Lead(2, a)) = 4 /\ Lead(2, a) % 64 = a
    BY FirstByte, Zenon
<1>2. VarintValue(s) = Word(a, s, 1)
    BY <1>1, SMT DEF VarintValue
<1> QED
    BY <1>2, SMT DEF Word, FourValue

\* What VarintValue makes of eight bytes.
LEMMA ValueOfEight ==
    ASSUME NEW s, NEW e \in Six, s[1] = Lead(3, e), \A i \in 2..8 : s[i] \in Bytes
    PROVE  VarintValue(s) = EightValue(e, s[2], s[3], s[4], s[5], s[6], s[7], s[8])
<1> DEFINE f == s[2]  g == s[3]  h == s[4]  a == s[5]  b == s[6]  c == s[7]  d == s[8]
<1>0. f \in Bytes /\ g \in Bytes /\ h \in Bytes /\ a \in Bytes /\ b \in Bytes /\ c \in Bytes /\ d \in Bytes
    BY SMT
<1>1. VarintLength(Lead(3, e)) = 8 /\ Lead(3, e) % 64 = e
    BY FirstByte, Zenon
<1>2. VarintValue(s) = Word(e, s, 1) * 65536 * 65536 + Word(s[5], s, 5)
    BY <1>1, SMT DEF VarintValue
<1>3. Word(e, s, 1) = FourValue(e, f, g, h) /\ Word(s[5], s, 5) = FourValue(a, b, c, d)
    BY SMTT(30) DEF Word, FourValue
<1> HIDE DEF f, g, h, a, b, c, d
<1>4. PICK w \in Nat : w = FourValue(e, f, g, h)
    <2>1. e \in Nat /\ f \in Nat /\ g \in Nat /\ h \in Nat
        BY <1>0, SMT DEF Bytes, Six
    <2>2. PICK i \in Nat : i = e * 256 + f
        BY <2>1, SMT
    <2>3. PICK j \in Nat : j = i * 256 + g
        BY <2>1, <2>2, SMT
    <2>4. PICK k \in Nat : k = j * 256 + h
        BY <2>1, <2>3, SMT
    <2> QED
        BY <2>2, <2>3, <2>4, SMT DEF FourValue
<1>5. w * 65536 * 65536 + FourValue(a, b, c, d)
        = (((w * 256 + a) * 256 + b) * 256 + c) * 256 + d
    BY <1>0, SMTT(30) DEF Bytes, FourValue
<1>6. VarintValue(s) = (((w * 256 + a) * 256 + b) * 256 + c) * 256 + d
    BY <1>2, <1>3, <1>4, <1>5, SMT DEF a
<1>7. VarintValue(s) = EightValue(e, f, g, h, a, b, c, d)
    BY <1>4, <1>6, SMT DEF FourValue, EightValue
<1> QED
    BY <1>7, Zenon DEF f, g, h, a, b, c, d

\* A number of one byte is read back.
LEMMA ReadOne ==
    ASSUME NEW a \in Six, NEW rest \in Seq(Nat)
    PROVE  DecodeVarint(<<a>> \o rest) = Ok(a, rest)
<1>1. a \in Bytes /\ VarintLength(a) = 1
    BY FirstByte, Zenon
<1>2. PICK p : p = <<a>>
    BY Zenon
<1>3. p \in Seq(Bytes) /\ Len(p) = 1 /\ p[1] = a
    BY <1>1, <1>2, SMT
<1>4. PICK s : s = p \o rest
    BY Zenon
<1>5. 1 \in {1, 2, 4, 8}
    BY Zenon
<1>6. s[1] = a
    <2>1. \A i \in 1..Len(p) : s[i] = p[i]
        BY <1>3, <1>4, PrefixOff, Zenon
    <2> QED
        BY <1>3, <2>1, SMT
<1>7. VarintValue(s) = a
    BY <1>6, ValueOfOne, Zenon
<1>8. DecodeVarint(s) = Ok(a, rest)
    BY <1>1, <1>3, <1>4, <1>5, <1>7, ReadBack, Zenon
<1> QED
    BY <1>2, <1>4, <1>8, Zenon

\* A number of two bytes is read back.
LEMMA ReadTwo ==
    ASSUME NEW a \in Six, NEW b \in Bytes, NEW rest \in Seq(Nat)
    PROVE  DecodeVarint(Two(a, b) \o rest) = Ok(TwoValue(a, b), rest)
<1>1. Lead(1, a) \in Bytes /\ VarintLength(Lead(1, a)) = 2
    BY FirstByte, Zenon
<1>2. PICK p : p = Two(a, b)
    BY Zenon
<1>3. p \in Seq(Bytes) /\ Len(p) = 2 /\ p[1] = Lead(1, a) /\ p[2] = b
    BY <1>1, <1>2, SMT DEF Two
<1>4. PICK s : s = p \o rest
    BY Zenon
<1>5. 2 \in {1, 2, 4, 8}
    BY Zenon
<1>6. s[1] = Lead(1, a) /\ s[2] = b
    <2>1. \A i \in 1..Len(p) : s[i] = p[i]
        BY <1>3, <1>4, PrefixOff, Zenon
    <2> QED
        BY <1>3, <2>1, SMT
<1>7. VarintValue(s) = TwoValue(a, b)
    BY <1>6, ValueOfTwo, Zenon
<1>8. DecodeVarint(s) = Ok(TwoValue(a, b), rest)
    BY <1>1, <1>3, <1>4, <1>5, <1>7, ReadBack, Zenon
<1> QED
    BY <1>2, <1>4, <1>8, Zenon

\* A number of four bytes is read back.
LEMMA ReadFour ==
    ASSUME NEW a \in Six, NEW b \in Bytes, NEW c \in Bytes, NEW d \in Bytes,
           NEW rest \in Seq(Nat)
    PROVE  DecodeVarint(Four(a, b, c, d) \o rest) = Ok(FourValue(a, b, c, d), rest)
<1>1. Lead(2, a) \in Bytes /\ VarintLength(Lead(2, a)) = 4
    BY FirstByte, Zenon
<1>2. PICK p : p = Four(a, b, c, d)
    BY Zenon
<1>3. p \in Seq(Bytes) /\ Len(p) = 4 /\ p[1] = Lead(2, a) /\ p[2] = b /\ p[3] = c /\ p[4] = d
    BY <1>1, <1>2, SMT DEF Four
<1>4. PICK s : s = p \o rest
    BY Zenon
<1>5. 4 \in {1, 2, 4, 8}
    BY Zenon
<1>6. s[1] = Lead(2, a) /\ s[2] = b /\ s[3] = c /\ s[4] = d
    <2>1. \A i \in 1..Len(p) : s[i] = p[i]
        BY <1>3, <1>4, PrefixOff, Zenon
    <2> QED
        BY <1>3, <2>1, SMT
<1>7. VarintValue(s) = FourValue(a, b, c, d)
    <2>1. VarintValue(s) = FourValue(a, s[2], s[3], s[4])
        BY <1>6, ValueOfFour, Zenon
    <2> QED
        BY <1>6, <2>1, Zenon
<1>8. DecodeVarint(s) = Ok(FourValue(a, b, c, d), rest)
    BY <1>1, <1>3, <1>4, <1>5, <1>7, ReadBack, Zenon
<1> QED
    BY <1>2, <1>4, <1>8, Zenon

\* A number of eight bytes is read back.
LEMMA ReadEight ==
    ASSUME NEW e \in Six, NEW p \in Seq(Bytes), Len(p) = 8, p[1] = Lead(3, e),
           NEW rest \in Seq(Nat)
    PROVE  DecodeVarint(p \o rest)
           = Ok(EightValue(e, p[2], p[3], p[4], p[5], p[6], p[7], p[8]), rest)
<1>1. VarintLength(p[1]) = 8
    BY FirstByte, Zenon
<1>2. PICK s : s = p \o rest
    BY Zenon
<1>3. 8 \in {1, 2, 4, 8}
    BY Zenon
<1>4. \A i \in 1..Len(p) : s[i] = p[i]
    BY <1>2, PrefixOff, Zenon
<1>5. /\ s[1] = Lead(3, e) /\ s[2] = p[2] /\ s[3] = p[3] /\ s[4] = p[4]
      /\ s[5] = p[5] /\ s[6] = p[6] /\ s[7] = p[7] /\ s[8] = p[8]
    BY <1>4, SMT
<1>6. \A i \in 2..8 : s[i] \in Bytes
    <2>1. \A i \in 1..Len(p) : p[i] \in Bytes
        BY BytesAreNumbers, Zenon
    <2>2. ASSUME NEW i \in 2..8 PROVE i \in 1..Len(p)
        BY SMT
    <2> QED
        BY <1>4, <2>1, <2>2, Zenon
<1>7. VarintValue(s) = EightValue(e, s[2], s[3], s[4], s[5], s[6], s[7], s[8])
    BY <1>5, <1>6, ValueOfEight, Zenon
<1>8. VarintValue(s) = EightValue(e, p[2], p[3], p[4], p[5], p[6], p[7], p[8])
    BY <1>5, <1>7, Zenon
<1>9. DecodeVarint(s) = Ok(EightValue(e, p[2], p[3], p[4], p[5], p[6], p[7], p[8]), rest)
    BY <1>1, <1>2, <1>3, <1>8, ReadBack, Zenon
<1> QED
    BY <1>2, <1>9, Zenon

\* Every number of at most 62 bits that varint::encode writes is what
\* varint::read returns, and the bytes behind it stay unread.
THEOREM VarintRoundTrip ==
    ASSUME NEW v \in Nat, Encodable(v), NEW rest \in Seq(Nat)
    PROVE  DecodeVarint(EncodeVarint(v) \o rest) = Ok(v, rest)
<1>1. Written(v)
    BY EncodedBytes, Zenon
<1>2. CASE v \in Six /\ EncodeVarint(v) = <<v>>
    BY <1>2, ReadOne, Zenon
<1>3. CASE \E a \in Six, b \in Bytes : EncodeVarint(v) = Two(a, b) /\ v = TwoValue(a, b)
    <2>1. PICK a \in Six, b \in Bytes : EncodeVarint(v) = Two(a, b) /\ v = TwoValue(a, b)
        BY <1>3, Zenon
    <2> QED
        BY <2>1, ReadTwo, Zenon
<1>4. CASE \E a \in Six, b, c, d \in Bytes :
              EncodeVarint(v) = Four(a, b, c, d) /\ v = FourValue(a, b, c, d)
    <2>1. PICK a \in Six, b, c, d \in Bytes :
              EncodeVarint(v) = Four(a, b, c, d) /\ v = FourValue(a, b, c, d)
        BY <1>4, Zenon
    <2>2. DecodeVarint(Four(a, b, c, d) \o rest) = Ok(FourValue(a, b, c, d), rest)
        BY ReadFour
    <2> QED
        BY <2>1, <2>2, Zenon
<1>5. CASE \E e \in Six, f, g, h, a, b, c, d \in Bytes :
              /\ EncodeVarint(v) = Eight(e, f, g, h, a, b, c, d)
              /\ v = EightValue(e, f, g, h, a, b, c, d)
    <2>1. PICK e \in Six, f, g, h, a, b, c, d \in Bytes :
              /\ EncodeVarint(v) = Eight(e, f, g, h, a, b, c, d)
              /\ v = EightValue(e, f, g, h, a, b, c, d)
        BY <1>5, Zenon
    <2>2. PICK p : p = Eight(e, f, g, h, a, b, c, d)
        BY Zenon
    <2>3. Lead(3, e) \in Bytes
        BY FirstByte, Zenon
    <2>4. /\ p \in Seq(Bytes) /\ Len(p) = 8
          /\ p[1] = Lead(3, e) /\ p[2] = f /\ p[3] = g /\ p[4] = h
          /\ p[5] = a /\ p[6] = b /\ p[7] = c /\ p[8] = d
        BY <2>2, <2>3, SMT DEF Eight
    <2>5. DecodeVarint(p \o rest)
            = Ok(EightValue(e, p[2], p[3], p[4], p[5], p[6], p[7], p[8]), rest)
        BY <2>4, ReadEight, Zenon
    <2>6. DecodeVarint(p \o rest) = Ok(EightValue(e, f, g, h, a, b, c, d), rest)
        BY <2>4, <2>5, Zenon
    <2> QED
        BY <2>1, <2>2, <2>6, Zenon
<1> QED
    BY <1>1, <1>2, <1>3, <1>4, <1>5, Zenon DEF Written

\* The first byte of a number tells how many there are.
LEMMA EncodedShape ==
    ASSUME NEW v \in Nat, Encodable(v)
    PROVE  LET e == EncodeVarint(v) IN
           e \in Seq(Nat) /\ Len(e) >= 1 /\ VarintLength(e[1]) = Len(e)
<1> DEFINE e == EncodeVarint(v)
<1>1. Written(v)
  BY EncodedBytes, Zenon
<1>2. CASE v \in Six /\ e = <<v>>
  <2>1. VarintLength(v) = 1
    BY <1>2, FirstByte, Zenon
  <2> QED
    BY <1>2, <2>1
<1>3. ASSUME NEW a \in Six, NEW b \in Bytes, e = Two(a, b)
      PROVE  e \in Seq(Nat) /\ Len(e) >= 1 /\ VarintLength(e[1]) = Len(e)
  <2>1. VarintLength(Lead(1, a)) = 2 /\ Lead(1, a) \in Bytes
    BY FirstByte, Zenon
  <2> QED
    BY <1>3, <2>1 DEF Two, Bytes
<1>4. ASSUME NEW a \in Six, NEW b \in Bytes, NEW c \in Bytes, NEW d \in Bytes, e = Four(a, b, c, d)
      PROVE  e \in Seq(Nat) /\ Len(e) >= 1 /\ VarintLength(e[1]) = Len(e)
  <2>1. VarintLength(Lead(2, a)) = 4 /\ Lead(2, a) \in Bytes
    BY FirstByte, Zenon
  <2> QED
    BY <1>4, <2>1 DEF Four, Bytes
<1>5. ASSUME NEW x \in Six, NEW f \in Bytes, NEW g \in Bytes, NEW h \in Bytes,
             NEW a \in Bytes, NEW b \in Bytes, NEW c \in Bytes, NEW d \in Bytes,
             e = Eight(x, f, g, h, a, b, c, d)
      PROVE  e \in Seq(Nat) /\ Len(e) >= 1 /\ VarintLength(e[1]) = Len(e)
  <2>1. VarintLength(Lead(3, x)) = 8 /\ Lead(3, x) \in Bytes
    BY FirstByte, Zenon
  <2>2. PICK p, q : p = <<Lead(3, x), f, g, h>> /\ q = <<a, b, c, d>>
    BY Zenon
  <2>3. /\ p \in Seq(Nat) /\ Len(p) = 4 /\ p[1] = Lead(3, x)
        /\ q \in Seq(Nat) /\ Len(q) = 4
    BY <2>1, <2>2 DEF Bytes
  <2>4. p \o q \in Seq(Nat) /\ Len(p \o q) = 8 /\ (p \o q)[1] = p[1]
    <3>1. p \o q \in Seq(Nat) /\ Len(p \o q) = Len(p) + Len(q)
          /\ \A i \in 1..Len(p) : (p \o q)[i] = p[i]
      BY <2>3, ConcatElements, Zenon
    <3> QED
      BY <2>3, <3>1
  <2>5. e = p \o q
    BY <1>5, <2>2, Zenon DEF Eight
  <2> QED
    BY <2>1, <2>3, <2>4, <2>5
<1> HIDE DEF e
<1> QED
  BY <1>1, <1>2, <1>3, <1>4, <1>5, Zenon DEF Written, e

(***************************************************************************)
(* What readers do with bytes cut anywhere. Of a stream that is e and then *)
(* x, p has arrived and t has not: a reader of e waits for more, or has e  *)
(* whole, and then leaves exactly what came behind it.                     *)
(***************************************************************************)
Reads(result, p, t, e, value, x) ==
    \/ result = More /\ Len(p) < Len(e)
    \/ \E rest \in Seq(Nat) : p = e \o rest /\ rest \o t = x /\ result = Ok(value, rest)

Splits(p, t, e, x) ==
    \/ Len(p) < Len(e) /\ \A i \in 1..Len(p) : p[i] = e[i]
    \/ \E rest \in Seq(Nat) : p = e \o rest /\ rest \o t = x

\* What arrived falls short of e or goes beyond it.
LEMMA Split ==
    ASSUME NEW p \in Seq(Nat), NEW t \in Seq(Nat), NEW e \in Seq(Nat), NEW x \in Seq(Nat),
           p \o t = e \o x
    PROVE  Splits(p, t, e, x)
<1>0. /\ Len(p) \in Nat /\ Len(t) \in Nat /\ Len(e) \in Nat /\ Len(x) \in Nat
      /\ Len(p) + Len(t) = Len(e) + Len(x)
  <2>1. Len(p \o t) = Len(p) + Len(t) /\ Len(e \o x) = Len(e) + Len(x)
    OBVIOUS
  <2> QED
    BY <2>1
<1>1. /\ \A i \in 1..Len(p) : (p \o t)[i] = p[i]
      /\ \A i \in 1..Len(t) : (p \o t)[Len(p) + i] = t[i]
      /\ \A i \in 1..Len(e) : (e \o x)[i] = e[i]
      /\ \A i \in 1..Len(x) : (e \o x)[Len(e) + i] = x[i]
  BY ConcatElements, Zenon
<1>2. CASE Len(p) < Len(e)
  <2>1. \A i \in 1..Len(p) : i \in 1..Len(e)
    BY <1>0, <1>2
  <2> QED
    BY <1>1, <1>2, <2>1, Zenon DEF Splits
<1>3. CASE Len(p) >= Len(e)
  <2>0. PICK rest : rest = SubSeq(p, Len(e) + 1, Len(p))
    BY Zenon
  <2>1. /\ rest \in Seq(Nat) /\ Len(rest) = Len(p) - Len(e) /\ Len(rest) \in Nat
        /\ \A i \in 1..Len(rest) : rest[i] = p[Len(e) + i]
    <3>1. Len(e) <= Len(p)
      BY <1>0, <1>3
    <3>2. Left(p, Len(e), rest)
      BY <1>0, <2>0, <3>1, SuffixElements, Zenon
    <3> QED
      BY <3>2, Zenon DEF Left
  <2>2. /\ e \o rest \in Seq(Nat) /\ Len(e \o rest) = Len(p)
        /\ rest \o t \in Seq(Nat) /\ Len(rest \o t) = Len(x)
    <3>1. /\ e \o rest \in Seq(Nat) /\ Len(e \o rest) = Len(e) + Len(rest)
          /\ rest \o t \in Seq(Nat) /\ Len(rest \o t) = Len(rest) + Len(t)
      BY <2>1, ConcatElements, Zenon
    <3> QED
      BY <1>0, <2>1, <3>1
  <2>3. /\ \A i \in 1..Len(e) : (e \o rest)[i] = e[i]
        /\ \A i \in 1..Len(rest) : (e \o rest)[Len(e) + i] = rest[i]
        /\ \A i \in 1..Len(rest) : (rest \o t)[i] = rest[i]
        /\ \A i \in 1..Len(t) : (rest \o t)[Len(rest) + i] = t[i]
    BY <2>1, ConcatElements, Zenon
  <2>4. \A i \in 1..Len(p) : (e \o rest)[i] = p[i]
    <3> SUFFICES ASSUME NEW i \in 1..Len(p) PROVE  (e \o rest)[i] = p[i]
      BY Zenon
    <3>1. CASE i \in 1..Len(e)
      BY <1>1, <2>3, <3>1
    <3>2. CASE i \notin 1..Len(e)
      <4>1. PICK k : k = i - Len(e)
        BY Zenon
      <4>2. k \in 1..Len(rest) /\ i = Len(e) + k
        BY <1>0, <2>1, <3>2, <4>1
      <4> QED
        BY <2>1, <2>3, <4>2, Zenon
    <3> QED
      BY <3>1, <3>2, Zenon
  <2>5. \A i \in 1..Len(x) : (rest \o t)[i] = x[i]
    <3> SUFFICES ASSUME NEW i \in 1..Len(x) PROVE  (rest \o t)[i] = x[i]
      BY Zenon
    <3>1. CASE i \in 1..Len(rest)
      <4>1. Len(e) + i \in 1..Len(p)
        BY <1>0, <2>1, <3>1
      <4> QED
        BY <1>1, <2>1, <2>3, <3>1, <4>1
    <3>2. CASE i \notin 1..Len(rest)
      <4>1. PICK k : k = i - Len(rest)
        BY Zenon
      <4>2. k \in 1..Len(t) /\ i = Len(rest) + k /\ Len(p) + k = Len(e) + i
        BY <1>0, <2>1, <3>2, <4>1
      <4>3. (rest \o t)[i] = t[k] /\ (p \o t)[Len(p) + k] = t[k]
        BY <1>1, <2>3, <4>2, Zenon
      <4>4. (e \o x)[Len(e) + i] = x[i]
        BY <1>1, Zenon
      <4> QED
        BY <4>2, <4>3, <4>4, Zenon
    <3> QED
      BY <3>1, <3>2, Zenon
  <2>6. p = e \o rest
    <3>1. PICK u : u = e \o rest
      BY Zenon
    <3>2. u \in Seq(Nat) /\ Agree(p, u)
      BY <2>2, <2>4, <3>1, Zenon DEF Agree
    <3> QED
      BY <3>1, <3>2, SameSeq, Zenon
  <2>7. rest \o t = x
    <3>1. PICK u : u = rest \o t
      BY Zenon
    <3>2. u \in Seq(Nat) /\ Agree(u, x)
      BY <2>2, <2>5, <3>1, Zenon DEF Agree
    <3> QED
      BY <3>1, <3>2, SameSeq, Zenon
  <2> QED
    BY <2>1, <2>6, <2>7, Zenon DEF Splits
<1>4. Len(p) < Len(e) \/ Len(p) >= Len(e)
  BY <1>0
<1> QED
  BY <1>2, <1>3, <1>4, Zenon

\* A number of a stream cut anywhere.
LEMMA VarintReads ==
    ASSUME NEW v \in Nat, Encodable(v), NEW p \in Seq(Nat), NEW t \in Seq(Nat),
           NEW x \in Seq(Nat), p \o t = EncodeVarint(v) \o x
    PROVE  Reads(DecodeVarint(p), p, t, EncodeVarint(v), v, x)
<1>1. PICK e : e = EncodeVarint(v)
  BY Zenon
<1>2. e \in Seq(Nat) /\ Len(e) >= 1 /\ VarintLength(e[1]) = Len(e)
  BY <1>1, EncodedShape, Zenon
<1>3. CASE Len(p) < Len(e) /\ \A i \in 1..Len(p) : p[i] = e[i]
  <2>1. p = <<>> \/ Len(p) < VarintLength(p[1])
    <3>1. p = <<>> \/ 1 \in 1..Len(p)
      OBVIOUS
    <3> QED
      BY <1>2, <1>3, <3>1, Zenon
  <2>2. DecodeVarint(p) = More
    BY <2>1, Zenon DEF DecodeVarint
  <2> QED
    BY <1>1, <1>3, <2>2, Zenon DEF Reads
<1>4. ASSUME NEW rest \in Seq(Nat), p = e \o rest, rest \o t = x
      PROVE  Reads(DecodeVarint(p), p, t, e, v, x)
  <2>1. DecodeVarint(e \o rest) = Ok(v, rest)
    BY <1>1, VarintRoundTrip, Zenon
  <2> QED
    BY <1>4, <2>1, Zenon DEF Reads
<1>5. p \o t = e \o x
  BY <1>1, Zenon
<1>6. Splits(p, t, e, x)
  BY <1>2, <1>5, Split, Zenon
<1> QED
  BY <1>1, <1>3, <1>4, <1>6, Zenon DEF Splits

\* So many bytes of a stream cut anywhere.
LEMMA TakeReads ==
    ASSUME NEW e \in Seq(Nat), NEW p \in Seq(Nat), NEW t \in Seq(Nat), NEW x \in Seq(Nat),
           p \o t = e \o x
    PROVE  Reads(Take(p, Len(e)), p, t, e, e, x)
<1>1. CASE Len(p) < Len(e)
  BY <1>1, Zenon DEF Reads, Take
<1>2. ASSUME NEW rest \in Seq(Nat), p = e \o rest, rest \o t = x
      PROVE  Reads(Take(p, Len(e)), p, t, e, e, x)
  <2>1. /\ Len(p) = Len(e) + Len(rest) /\ ~(Len(p) < Len(e))
        /\ SubSeq(p, Len(e) + 1, Len(p)) = rest /\ SubSeq(p, 1, Len(e)) = e
    BY <1>2, Parts
  <2>2. Take(p, Len(e)) = Ok(e, rest)
    BY <2>1, Zenon DEF Take
  <2> QED
    BY <1>2, <2>2, Zenon DEF Reads
<1>3. Len(p) < Len(e) \/ \E rest \in Seq(Nat) : p = e \o rest /\ rest \o t = x
  <2>1. Splits(p, t, e, x)
    BY Split, Zenon
  <2> QED
    BY <2>1, Zenon DEF Splits
<1> QED
  BY <1>1, <1>2, <1>3, Zenon

\* A reader that goes on where the first one stopped.
GoesOn(first, value, t, e, x, result, final) ==
    /\ first = More => result = More
    /\ \A rest \in Seq(Nat) : first = Ok(value, rest) /\ rest \o t = e \o x =>
           Reads(result, rest, t, e, final, x)

\* Readers in turn read what was written in turn.
LEMMA Chain ==
    ASSUME NEW p \in Seq(Nat), NEW t \in Seq(Nat), NEW e1 \in Seq(Nat), NEW e2 \in Seq(Nat),
           NEW x \in Seq(Nat), NEW first, NEW value, NEW result, NEW final,
           Reads(first, p, t, e1, value, e2 \o x),
           GoesOn(first, value, t, e2, x, result, final)
    PROVE  Reads(result, p, t, e1 \o e2, final, x)
<1>0. /\ Len(p) \in Nat /\ Len(e1) \in Nat /\ Len(e2) \in Nat
      /\ Len(e1 \o e2) = Len(e1) + Len(e2)
  OBVIOUS
<1>1. CASE first = More /\ Len(p) < Len(e1)
  <2>1. Len(p) < Len(e1 \o e2)
    BY <1>0, <1>1
  <2> QED
    BY <1>1, <2>1, Zenon DEF Reads, GoesOn
<1>2. ASSUME NEW rest \in Seq(Nat), p = e1 \o rest, rest \o t = e2 \o x, first = Ok(value, rest)
      PROVE  Reads(result, p, t, e1 \o e2, final, x)
  <2>1. Reads(result, rest, t, e2, final, x)
    BY <1>2, Zenon DEF GoesOn
  <2>2. CASE result = More /\ Len(rest) < Len(e2)
    <3>1. Len(p) = Len(e1) + Len(rest) /\ Len(rest) \in Nat
      BY <1>2
    <3>2. Len(p) < Len(e1 \o e2)
      BY <1>0, <2>2, <3>1
    <3> QED
      BY <2>2, <3>2, Zenon DEF Reads
  <2>3. ASSUME NEW more \in Seq(Nat), rest = e2 \o more, more \o t = x, result = Ok(final, more)
        PROVE  Reads(result, p, t, e1 \o e2, final, x)
    <3>1. p = (e1 \o e2) \o more
      <4>1. p = e1 \o (e2 \o more)
        BY <1>2, <2>3, Zenon
      <4>2. Associate(e1, e2, more)
        BY Associates, Zenon
      <4> QED
        BY <4>1, <4>2, Zenon DEF Associate
    <3> QED
      BY <2>3, <3>1, Zenon DEF Reads
  <2> QED
    BY <2>1, <2>2, <2>3, Zenon DEF Reads
<1> QED
  BY <1>1, <1>2, Zenon DEF Reads

\* A result that stands for another one, with a value made of its value.
Turns(first, value, result, final) ==
    /\ first = More => result = More
    /\ \A rest \in Seq(Nat) : first = Ok(value, rest) => result = Ok(final, rest)

\* What a reader makes of what another one read.
LEMMA Converts ==
    ASSUME NEW p, NEW t, NEW e, NEW x, NEW first, NEW value, NEW result, NEW final,
           Reads(first, p, t, e, value, x),
           Turns(first, value, result, final)
    PROVE  Reads(result, p, t, e, final, x)
BY Zenon DEF Reads, Turns

\* The type of a request can be encoded.
LEMMA TypeEncodable == FrameType \in Nat /\ Encodable(FrameType)
<1>1. 1025 \div 1073741824 = 0
  BY SMT
<1> QED
  BY <1>1, SMT DEF Encodable, FrameType

\* Copies of a byte are a sequence.
LEMMA CopiesSeq ==
    ASSUME NEW byte \in Nat, NEW n \in Nat
    PROVE  /\ Copies(byte, n) \in Seq(Nat) /\ Len(Copies(byte, n)) = n
           /\ \A i \in 1..n : Copies(byte, n)[i] = byte
BY DEF Copies

\* The three outcomes of a reader can be told apart.
LEMMA Outcomes ==
    /\ More.status # "ok" /\ Bad.status # "ok"
    /\ \A value, rest : /\ Ok(value, rest).status = "ok" /\ Ok(value, rest).value = value
                        /\ Ok(value, rest).rest = rest
BY Zenon DEF More, Bad, Ok

\* The lengths a reader allows can be encoded.
LEMMA PaddingLength ==
    ASSUME NEW n \in 0..MaxPadding
    PROVE  n \in Nat /\ Encodable(n) /\ ~(n > MaxPadding)
<1>1. MaxPadding \in Nat
  BY WireAssumption, SMT
<1>2. n \in Nat /\ n \in 0..MaxPadding /\ ~(n > MaxPadding)
  BY <1>1, SMT
<1> QED
  BY <1>2, LengthsEncodable, Zenon

\* The lengths of addresses that a reader allows can be encoded, too.
LEMMA AddressLength ==
    ASSUME NEW n \in Nat, n <= MaxAddress
    PROVE  Encodable(n) /\ ~(n > MaxAddress)
<1>1. MaxAddress \in Nat
  BY WireAssumption, SMT
<1>2. n \in Nat /\ n \in 0..MaxAddress /\ ~(n > MaxAddress)
  BY <1>1, SMT
<1> QED
  BY <1>2, LengthsEncodable, Zenon

PaddingBytes(n) == EncodeVarint(n) \o Copies(120, n)

\* Padding of a stream cut anywhere.
LEMMA PaddingReads ==
    ASSUME NEW n \in 0..MaxPadding, NEW p \in Seq(Nat), NEW t \in Seq(Nat), NEW x \in Seq(Nat),
           p \o t = PaddingBytes(n) \o x
    PROVE  Reads(TakePadding(p), p, t, PaddingBytes(n), Copies(120, n), x)
<1>1. n \in Nat /\ Encodable(n) /\ ~(n > MaxPadding)
  BY PaddingLength, Zenon
<1>2. PICK e1, e2 : e1 = EncodeVarint(n) /\ e2 = Copies(120, n)
  BY Zenon
<1>3. e1 \in Seq(Nat) /\ e2 \in Seq(Nat) /\ Len(e2) = n
  BY <1>1, <1>2, EncodedShape, CopiesSeq
<1>4. p \o t = e1 \o (e2 \o x) /\ e2 \o x \in Seq(Nat)
  <2>1. Associate(e1, e2, x)
    BY <1>3, Associates, Zenon
  <2>2. e2 \o x \in Seq(Nat)
    BY <1>3, ConcatElements, Zenon
  <2>3. p \o t = (e1 \o e2) \o x
    BY <1>2, Zenon DEF PaddingBytes
  <2> QED
    BY <2>1, <2>2, <2>3, Zenon DEF Associate
<1>5. Reads(DecodeVarint(p), p, t, e1, n, e2 \o x)
  BY <1>1, <1>2, <1>4, VarintReads, Zenon
<1>6. GoesOn(DecodeVarint(p), n, t, e2, x, TakePadding(p), e2)
  <2>1. DecodeVarint(p) = More => TakePadding(p) = More
    BY Outcomes, Zenon DEF TakePadding, Then
  <2>2. ASSUME NEW rest \in Seq(Nat), DecodeVarint(p) = Ok(n, rest), rest \o t = e2 \o x
        PROVE  Reads(TakePadding(p), rest, t, e2, e2, x)
    <3>1. TakePadding(p) = Take(rest, Len(e2))
      BY <1>1, <1>3, <2>2, Outcomes DEF TakePadding, Then
    <3>2. Reads(Take(rest, Len(e2)), rest, t, e2, e2, x)
      BY <1>3, <2>2, TakeReads, Zenon
    <3> QED
      BY <3>1, <3>2, Zenon
  <2> QED
    BY <2>1, <2>2, Zenon DEF GoesOn
<1>7. Reads(TakePadding(p), p, t, e1 \o e2, e2, x)
  BY <1>3, <1>5, <1>6, Chain, Zenon
<1> QED
  BY <1>2, <1>7, Zenon DEF PaddingBytes

Regrouped(p, t, e1, e2, x) == p \o t = e1 \o (e2 \o x) /\ e2 \o x \in Seq(Nat)

\* What follows two parts follows the first one with the second.
LEMMA Regroup ==
    ASSUME NEW p \in Seq(Nat), NEW t \in Seq(Nat), NEW e1 \in Seq(Nat), NEW e2 \in Seq(Nat),
           NEW x \in Seq(Nat), p \o t = (e1 \o e2) \o x
    PROVE  Regrouped(p, t, e1, e2, x)
<1>1. Associate(e1, e2, x)
  BY Associates, Zenon
<1> QED
  BY <1>1 DEF Associate, Regrouped

\* Padding is bytes.
LEMMA PaddingSeq ==
    ASSUME NEW n \in 0..MaxPadding
    PROVE  PaddingBytes(n) \in Seq(Nat)
<1>1. EncodeVarint(n) \in Seq(Nat)
  BY PaddingLength, EncodedShape, Zenon
<1>2. Copies(120, n) \in Seq(Nat)
  BY PaddingLength, CopiesSeq
<1> QED
  BY <1>1, <1>2 DEF PaddingBytes

(***************************************************************************)
(* A Hysteria2 request, stage by stage from its end.                       *)
(***************************************************************************)
EndRequest(text, s) == Then(TakePadding(s), LAMBDA padding, s1 : Ok(ParseText(text), s1))

AfterLength(n, s) ==
    IF n = 0 \/ n > MaxAddress THEN Bad ELSE Then(Take(s, n), EndRequest)

AfterType(type, s) == IF type # FrameType THEN Bad ELSE Then(DecodeVarint(s), AfterLength)

\* The padding at the end of a request, cut anywhere.
LEMMA EndRequestReads ==
    ASSUME NEW n \in 0..MaxPadding, NEW p \in Seq(Nat), NEW t \in Seq(Nat), NEW x \in Seq(Nat),
           p \o t = PaddingBytes(n) \o x, NEW text
    PROVE  Reads(EndRequest(text, p), p, t, PaddingBytes(n), ParseText(text), x)
<1>1. Reads(TakePadding(p), p, t, PaddingBytes(n), Copies(120, n), x)
  BY PaddingReads, Zenon
<1>2. PICK first, result, final, value :
         /\ first = TakePadding(p) /\ result = EndRequest(text, p)
         /\ value = Copies(120, n) /\ final = ParseText(text)
  BY Zenon
<1>3. first = More => result = More
  BY <1>2, Outcomes, Zenon DEF EndRequest, Then
<1>4. \A rest \in Seq(Nat) : first = Ok(value, rest) => result = Ok(final, rest)
  <2> SUFFICES ASSUME NEW rest \in Seq(Nat), first = Ok(value, rest)
               PROVE  result = Ok(final, rest)
    BY Zenon
  <2>1. first.status = "ok" /\ first.rest = rest
    BY Outcomes, Zenon
  <2> QED
    BY <1>2, <2>1, Zenon DEF EndRequest, Then
<1>5. Turns(first, value, result, final)
  BY <1>3, <1>4, Zenon DEF Turns
<1>6. Reads(result, p, t, PaddingBytes(n), final, x)
  BY <1>1, <1>2, <1>5, Converts, Zenon
<1> QED
  BY <1>2, <1>6, Zenon

\* The text of the address and the padding, cut anywhere.
LEMMA AfterLengthReads ==
    ASSUME NEW n \in 0..MaxPadding, NEW p \in Seq(Nat), NEW t \in Seq(Nat), NEW x \in Seq(Nat),
           NEW text \in Seq(Nat), Len(text) # 0, Len(text) <= MaxAddress,
           NEW tail, tail = PaddingBytes(n), p \o t = (text \o tail) \o x
    PROVE  Reads(AfterLength(Len(text), p), p, t, text \o tail, ParseText(text), x)
<1>0. tail \in Seq(Nat)
  BY PaddingSeq, Zenon
<1>1. p \o t = text \o (tail \o x) /\ tail \o x \in Seq(Nat)
  <2>1. Regrouped(p, t, text, tail, x)
    BY <1>0, Regroup, Zenon
  <2> QED
    BY <2>1, Zenon DEF Regrouped
<1>2. Reads(Take(p, Len(text)), p, t, text, text, tail \o x)
  BY <1>1, TakeReads, Zenon
<1>3. PICK first, result, final :
         /\ first = Take(p, Len(text)) /\ result = AfterLength(Len(text), p)
         /\ final = ParseText(text)
  BY Zenon
<1>4. result = Then(first, EndRequest)
  <2>1. ~(Len(text) > MaxAddress)
    BY AddressLength
  <2> QED
    BY <1>3, <2>1, Zenon DEF AfterLength
<1>5. first = More => result = More
  BY <1>4, Outcomes, Zenon DEF Then
<1>6. ASSUME NEW rest \in Seq(Nat), first = Ok(text, rest), rest \o t = tail \o x
      PROVE  Reads(result, rest, t, tail, final, x)
  <2>1. result = EndRequest(text, rest)
    BY <1>4, <1>6, Outcomes, Zenon DEF Then
  <2>2. Reads(EndRequest(text, rest), rest, t, tail, ParseText(text), x)
    BY <1>6, EndRequestReads, Zenon
  <2> QED
    BY <1>3, <2>1, <2>2, Zenon
<1>7. GoesOn(first, text, t, tail, x, result, final)
  BY <1>5, <1>6, Zenon DEF GoesOn
<1>8. Reads(result, p, t, text \o tail, final, x)
  BY <1>0, <1>2, <1>3, <1>7, Chain, Zenon
<1> QED
  BY <1>3, <1>8, Zenon

\* All of a request behind its type, cut anywhere.
LEMMA AfterTypeReads ==
    ASSUME NEW n \in 0..MaxPadding, NEW p \in Seq(Nat), NEW t \in Seq(Nat), NEW x \in Seq(Nat),
           NEW text \in Seq(Nat), Len(text) # 0, Len(text) <= MaxAddress,
           NEW e, e = EncodeVarint(Len(text)), NEW tail, tail = text \o PaddingBytes(n),
           p \o t = (e \o tail) \o x
    PROVE  Reads(AfterType(FrameType, p), p, t, e \o tail, ParseText(text), x)
<1>0. e \in Seq(Nat) /\ Encodable(Len(text)) /\ Len(text) \in Nat
  BY AddressLength, EncodedShape
<1>1. tail \in Seq(Nat)
  BY PaddingSeq
<1>2. p \o t = e \o (tail \o x) /\ tail \o x \in Seq(Nat)
  <2>1. Regrouped(p, t, e, tail, x)
    BY <1>0, <1>1, Regroup, Zenon
  <2> QED
    BY <2>1, Zenon DEF Regrouped
<1>3. Reads(DecodeVarint(p), p, t, e, Len(text), tail \o x)
  BY <1>0, <1>2, VarintReads, Zenon
<1>4. PICK first, result, final, value :
         /\ first = DecodeVarint(p) /\ result = AfterType(FrameType, p)
         /\ final = ParseText(text) /\ value = Len(text)
  BY Zenon
<1>5. result = Then(first, AfterLength)
  BY <1>4, Zenon DEF AfterType
<1>6. first = More => result = More
  BY <1>5, Outcomes, Zenon DEF Then
<1>7. ASSUME NEW rest \in Seq(Nat), first = Ok(value, rest), rest \o t = tail \o x
      PROVE  Reads(result, rest, t, tail, final, x)
  <2>1. result = AfterLength(value, rest)
    BY <1>5, <1>7, Outcomes, Zenon DEF Then
  <2>2. rest \o t = (text \o PaddingBytes(n)) \o x
    BY <1>7, Zenon
  <2>3. Reads(AfterLength(Len(text), rest), rest, t, text \o PaddingBytes(n), ParseText(text), x)
    BY <2>2, AfterLengthReads, Zenon
  <2> QED
    BY <1>4, <2>1, <2>3, Zenon
<1>8. GoesOn(first, value, t, tail, x, result, final)
  BY <1>6, <1>7, Zenon DEF GoesOn
<1>9. Reads(result, p, t, e \o tail, final, x)
  BY <1>0, <1>1, <1>3, <1>4, <1>8, Chain, Zenon
<1> QED
  BY <1>4, <1>9, Zenon

\* What a request for a comes to mean: its host in canonical spelling.
Meaning(a) == [host |-> Canonical[a.host], port |-> a.port]

\* Hosts and ports are numbers.
LEMMA HostFacts ==
    /\ \A h \in Hosts : h \in Nat
    /\ \A h \in Hosts : Length[h] \in Nat /\ Length[h] # 0
    /\ \A p \in Ports : p \in Nat
<1>1. ASSUME NEW h \in Hosts PROVE h \in Nat
  <2>1. Hosts \subseteq 1..255
    BY WireAssumption, Zenon
  <2> QED
    BY <2>1, SMT
<1>2. ASSUME NEW h \in Hosts PROVE Length[h] \in Nat /\ Length[h] # 0
  <2>1. Length \in [Hosts -> Nat \ {0}]
    BY WireAssumption, Zenon
  <2> QED
    BY <2>1, SMT
<1>3. ASSUME NEW p \in Ports PROVE p \in Nat
  BY TcpStreamsAssumption, Zenon
<1> QED
  BY <1>1, <1>2, <1>3, Zenon

\* Hosts and ports are numbers, and a host's text is not empty.
LEMMA DestinationFacts ==
    ASSUME NEW a \in Destinations
    PROVE  /\ a.host \in Hosts /\ a.host \in Nat /\ a.port \in Nat
           /\ Length[a.host] \in Nat /\ Length[a.host] # 0 /\ 1 <= Length[a.host]
<1>1. a.host \in Hosts /\ a.port \in Ports
  BY Zenon DEF Destinations
<1>2. Length[a.host] \in Nat /\ Length[a.host] # 0
  BY <1>1, HostFacts, Zenon
<1> QED
  BY <1>1, <1>2, HostFacts

\* The text of a destination, and what it is read as.
LEMMA TextFacts ==
    ASSUME NEW a \in Destinations
    PROVE  Text(a) \in Seq(Nat) /\ Len(Text(a)) # 0 /\ ParseText(Text(a)) = Meaning(a)
<1>1. /\ a.host \in Nat /\ a.port \in Nat /\ Length[a.host] \in Nat /\ 1 <= Length[a.host]
  BY DestinationFacts, Zenon
<1>2. PICK c, n : c = Copies(a.host, Length[a.host]) /\ n = Length[a.host]
  BY Zenon
<1>3. c \in Seq(Nat) /\ Len(c) = n /\ \A i \in 1..n : c[i] = a.host
  BY <1>1, <1>2, CopiesSeq, Zenon
<1>4. PICK x : x = Text(a)
  BY Zenon
<1>5. x = Append(c, a.port) /\ n \in Nat /\ 1 <= n /\ 1 \in 1..n
  BY <1>1, <1>2, <1>4 DEF Text
<1>6. x \in Seq(Nat) /\ Len(x) = n + 1 /\ x[1] = a.host /\ x[n + 1] = a.port
  BY <1>1, <1>3, <1>5
<1>7. ParseText(x) = Meaning(a)
  BY <1>6, Zenon DEF ParseText, Meaning
<1> QED
  BY <1>4, <1>5, <1>6, <1>7

\* A request is its type, the length of the text, the text, and padding.
LEMMA RequestParts ==
    ASSUME NEW a \in Destinations, Len(Text(a)) <= MaxAddress, NEW n \in 0..MaxPadding
    PROVE  /\ EncodeRequest(a, n) = EncodeVarint(FrameType)
                 \o (EncodeVarint(Len(Text(a))) \o (Text(a) \o PaddingBytes(n)))
           /\ EncodeVarint(FrameType) \in Seq(Nat)
           /\ EncodeVarint(Len(Text(a))) \in Seq(Nat)
<1>1. PICK e1, e2, e3, e4, e5 :
         /\ e1 = EncodeVarint(FrameType) /\ e2 = EncodeVarint(Len(Text(a))) /\ e3 = Text(a)
         /\ e4 = EncodeVarint(n) /\ e5 = Copies(120, n)
  BY Zenon
<1>2. e1 \in Seq(Nat)
  BY <1>1, TypeEncodable, EncodedShape, Zenon
<1>3. e3 \in Seq(Nat) /\ Len(e3) \in Nat
  BY <1>1, TextFacts
<1>4. e2 \in Seq(Nat)
  BY <1>1, <1>3, AddressLength, EncodedShape, Zenon
<1>5. e4 \in Seq(Nat) /\ e5 \in Seq(Nat)
  BY <1>1, PaddingLength, EncodedShape, CopiesSeq
<1>6. Five(e1, e2, e3, e4, e5)
  BY <1>2, <1>3, <1>4, <1>5, FiveParts, Zenon
<1> QED
  BY <1>1, <1>2, <1>4, <1>6, Zenon DEF EncodeRequest, PaddingBytes, Five

\* A Hysteria2 server understands a request cut anywhere, or waits for more of
\* it, and leaves what was sent behind it.
LEMMA RequestReads ==
    ASSUME NEW a \in Destinations, Len(Text(a)) <= MaxAddress, NEW n \in 0..MaxPadding,
           NEW p \in Seq(Nat), NEW t \in Seq(Nat), NEW x \in Seq(Nat),
           p \o t = EncodeRequest(a, n) \o x
    PROVE  Reads(ParseRequest(p), p, t, EncodeRequest(a, n), Meaning(a), x)
<1>1. PICK text : text = Text(a)
  BY Zenon
<1>2. text \in Seq(Nat) /\ Len(text) # 0 /\ ParseText(text) = Meaning(a) /\ Len(text) <= MaxAddress
  BY <1>1, TextFacts, Zenon
<1>3. PICK e, l, tail :
         e = EncodeVarint(FrameType) /\ l = EncodeVarint(Len(text))
           /\ tail = l \o (text \o PaddingBytes(n))
  BY Zenon
<1>4. EncodeRequest(a, n) = e \o tail /\ e \in Seq(Nat) /\ l \in Seq(Nat)
  BY <1>1, <1>3, RequestParts, Zenon
<1>5. tail \in Seq(Nat)
  <2>1. PaddingBytes(n) \in Seq(Nat)
    BY PaddingSeq, Zenon
  <2> QED
    BY <1>2, <1>3, <1>4, <2>1
<1>6. p \o t = e \o (tail \o x) /\ tail \o x \in Seq(Nat)
  <2>0. p \o t = (e \o tail) \o x
    BY <1>4, Zenon
  <2>1. Regrouped(p, t, e, tail, x)
    BY <1>4, <1>5, <2>0, Regroup, Zenon
  <2> QED
    BY <2>1, Zenon DEF Regrouped
<1>7. Reads(DecodeVarint(p), p, t, e, FrameType, tail \o x)
  BY <1>3, <1>6, TypeEncodable, VarintReads, Zenon
<1>8. PICK first, result, final :
         first = DecodeVarint(p) /\ result = ParseRequest(p) /\ final = Meaning(a)
  BY Zenon
<1>9. result = Then(first, AfterType)
  BY <1>8, Zenon DEF ParseRequest, AfterType, AfterLength, EndRequest, Then
<1>10. first = More => result = More
  BY <1>9, Outcomes, Zenon DEF Then
<1>11. ASSUME NEW rest \in Seq(Nat), first = Ok(FrameType, rest), rest \o t = tail \o x
       PROVE  Reads(result, rest, t, tail, final, x)
  <2>1. result = AfterType(FrameType, rest)
    BY <1>9, <1>11, Outcomes, Zenon DEF Then
  <2>2. PICK rear : rear = text \o PaddingBytes(n)
    BY Zenon
  <2>3. tail = l \o rear /\ rest \o t = (l \o rear) \o x
    BY <1>3, <1>11, <2>2, Zenon
  <2>4. Reads(AfterType(FrameType, rest), rest, t, l \o rear, ParseText(text), x)
    BY <1>2, <1>3, <2>2, <2>3, AfterTypeReads, Zenon
  <2> QED
    BY <1>2, <1>8, <2>1, <2>3, <2>4, Zenon
<1>12. GoesOn(first, FrameType, t, tail, x, result, final)
  BY <1>10, <1>11, Zenon DEF GoesOn
<1>13. Reads(result, p, t, e \o tail, final, x)
  BY <1>4, <1>5, <1>7, <1>8, <1>12, Chain, Zenon
<1> QED
  BY <1>4, <1>8, <1>13, Zenon

(***************************************************************************)
(* A Hysteria2 response, stage by stage from its end. `status` is what     *)
(* read_exact returned for the first byte.                                 *)
(***************************************************************************)
EndResponse(status, s) == Then(TakePadding(s), LAMBDA padding, s1 : Ok(status[1], s1))

AfterMessageLength(status, n, s) ==
    IF n > MaxAddress THEN Bad ELSE Then(Take(s, n), LAMBDA message, s1 : EndResponse(status, s1))

AfterStatus(status, s) == Then(DecodeVarint(s), LAMBDA n, s1 : AfterMessageLength(status, n, s1))

\* The padding at the end of a response, cut anywhere.
LEMMA EndResponseReads ==
    ASSUME NEW n \in 0..MaxPadding, NEW p \in Seq(Nat), NEW t \in Seq(Nat), NEW x \in Seq(Nat),
           p \o t = PaddingBytes(n) \o x, NEW status
    PROVE  Reads(EndResponse(status, p), p, t, PaddingBytes(n), status[1], x)
<1>1. Reads(TakePadding(p), p, t, PaddingBytes(n), Copies(120, n), x)
  BY PaddingReads, Zenon
<1>2. PICK first, result, final, value :
         /\ first = TakePadding(p) /\ result = EndResponse(status, p)
         /\ value = Copies(120, n) /\ final = status[1]
  BY Zenon
<1>3. first = More => result = More
  BY <1>2, Outcomes, Zenon DEF EndResponse, Then
<1>4. \A rest \in Seq(Nat) : first = Ok(value, rest) => result = Ok(final, rest)
  <2> SUFFICES ASSUME NEW rest \in Seq(Nat), first = Ok(value, rest)
               PROVE  result = Ok(final, rest)
    BY Zenon
  <2>1. first.status = "ok" /\ first.rest = rest
    BY Outcomes, Zenon
  <2> QED
    BY <1>2, <2>1, Zenon DEF EndResponse, Then
<1>5. Turns(first, value, result, final)
  BY <1>3, <1>4, Zenon DEF Turns
<1>6. Reads(result, p, t, PaddingBytes(n), final, x)
  BY <1>1, <1>2, <1>5, Converts, Zenon
<1> QED
  BY <1>2, <1>6, Zenon

\* The message of a response and its padding, cut anywhere.
LEMMA AfterMessageLengthReads ==
    ASSUME NEW n \in 0..MaxPadding, NEW p \in Seq(Nat), NEW t \in Seq(Nat), NEW x \in Seq(Nat),
           NEW message \in Seq(Nat), Len(message) <= MaxAddress, NEW status,
           NEW tail, tail = PaddingBytes(n), p \o t = (message \o tail) \o x
    PROVE  Reads(AfterMessageLength(status, Len(message), p), p, t, message \o tail, status[1], x)
<1>0. tail \in Seq(Nat)
  BY PaddingSeq, Zenon
<1>1. p \o t = message \o (tail \o x) /\ tail \o x \in Seq(Nat)
  <2>1. Regrouped(p, t, message, tail, x)
    BY <1>0, Regroup, Zenon
  <2> QED
    BY <2>1, Zenon DEF Regrouped
<1>2. Reads(Take(p, Len(message)), p, t, message, message, tail \o x)
  BY <1>1, TakeReads, Zenon
<1>3. PICK first, result, final :
         /\ first = Take(p, Len(message)) /\ result = AfterMessageLength(status, Len(message), p)
         /\ final = status[1]
  BY Zenon
<1>4. result = Then(first, LAMBDA m, s : EndResponse(status, s))
  <2>1. ~(Len(message) > MaxAddress)
    BY AddressLength
  <2> QED
    BY <1>3, <2>1, Zenon DEF AfterMessageLength
<1>5. first = More => result = More
  BY <1>4, Outcomes, Zenon DEF Then
<1>6. ASSUME NEW rest \in Seq(Nat), first = Ok(message, rest), rest \o t = tail \o x
      PROVE  Reads(result, rest, t, tail, final, x)
  <2>1. result = EndResponse(status, rest)
    BY <1>4, <1>6, Outcomes, Zenon DEF Then
  <2>2. Reads(EndResponse(status, rest), rest, t, tail, status[1], x)
    BY <1>6, EndResponseReads, Zenon
  <2> QED
    BY <1>3, <2>1, <2>2, Zenon
<1>7. GoesOn(first, message, t, tail, x, result, final)
  BY <1>5, <1>6, Zenon DEF GoesOn
<1>8. Reads(result, p, t, message \o tail, final, x)
  BY <1>0, <1>2, <1>3, <1>7, Chain, Zenon
<1> QED
  BY <1>3, <1>8, Zenon

\* All of a response behind its status, cut anywhere.
LEMMA AfterStatusReads ==
    ASSUME NEW n \in 0..MaxPadding, NEW p \in Seq(Nat), NEW t \in Seq(Nat), NEW x \in Seq(Nat),
           NEW message \in Seq(Nat), Len(message) <= MaxAddress, NEW status,
           NEW e, e = EncodeVarint(Len(message)), NEW tail, tail = message \o PaddingBytes(n),
           p \o t = (e \o tail) \o x
    PROVE  Reads(AfterStatus(status, p), p, t, e \o tail, status[1], x)
<1>0. e \in Seq(Nat) /\ Encodable(Len(message)) /\ Len(message) \in Nat
  BY AddressLength, EncodedShape
<1>1. tail \in Seq(Nat)
  BY PaddingSeq
<1>2. p \o t = e \o (tail \o x) /\ tail \o x \in Seq(Nat)
  <2>1. Regrouped(p, t, e, tail, x)
    BY <1>0, <1>1, Regroup, Zenon
  <2> QED
    BY <2>1, Zenon DEF Regrouped
<1>3. Reads(DecodeVarint(p), p, t, e, Len(message), tail \o x)
  BY <1>0, <1>2, VarintReads, Zenon
<1>4. PICK first, result, final, value :
         /\ first = DecodeVarint(p) /\ result = AfterStatus(status, p)
         /\ final = status[1] /\ value = Len(message)
  BY Zenon
<1>5. result = Then(first, LAMBDA k, s : AfterMessageLength(status, k, s))
  BY <1>4, Zenon DEF AfterStatus
<1>6. first = More => result = More
  BY <1>5, Outcomes, Zenon DEF Then
<1>7. ASSUME NEW rest \in Seq(Nat), first = Ok(value, rest), rest \o t = tail \o x
      PROVE  Reads(result, rest, t, tail, final, x)
  <2>1. result = AfterMessageLength(status, value, rest)
    BY <1>5, <1>7, Outcomes, Zenon DEF Then
  <2>2. PICK rear : rear = PaddingBytes(n)
    BY Zenon
  <2>3. tail = message \o rear /\ rest \o t = (message \o rear) \o x
    BY <1>7, <2>2, Zenon
  <2>4. Reads(AfterMessageLength(status, Len(message), rest), rest, t, message \o rear,
              status[1], x)
    BY <2>2, <2>3, AfterMessageLengthReads, Zenon
  <2> QED
    BY <1>4, <2>1, <2>3, <2>4, Zenon
<1>8. GoesOn(first, value, t, tail, x, result, final)
  BY <1>6, <1>7, Zenon DEF GoesOn
<1>9. Reads(result, p, t, e \o tail, final, x)
  BY <1>0, <1>1, <1>3, <1>4, <1>8, Chain, Zenon
<1> QED
  BY <1>4, <1>9, Zenon

\* The response of a status: to refuse, with a message of one byte.
Message(status) == Copies(99, status)

Response(status, n) == EncodeResponse(status, Message(status), n)

\* A response is its status, the length of the message, the message, and padding.
LEMMA ResponseParts ==
    ASSUME NEW status \in {0, 1}, NEW n \in 0..MaxPadding
    PROVE  /\ Response(status, n) = <<status>>
                \o (EncodeVarint(Len(Message(status))) \o (Message(status) \o PaddingBytes(n)))
           /\ EncodeVarint(Len(Message(status))) \in Seq(Nat)
           /\ Message(status) \in Seq(Nat) /\ Len(Message(status)) <= MaxAddress
<1>1. PICK e1, e2, e3, e4, e5 :
         /\ e1 = <<status>> /\ e2 = EncodeVarint(Len(e3)) /\ e3 = Message(status)
         /\ e4 = EncodeVarint(n) /\ e5 = Copies(120, n)
  BY Zenon
<1>2. status \in Nat /\ status <= 1 /\ 99 \in Nat /\ 120 \in Nat
  OBVIOUS
<1>3. e1 \in Seq(Nat)
  BY <1>1, <1>2
<1>4. e3 \in Seq(Nat) /\ Len(e3) = status
  BY <1>1, <1>2, CopiesSeq DEF Message
<1>5. Len(e3) \in Nat /\ Len(e3) <= MaxAddress
  <2>1. MaxAddress \in Nat \ {0}
    BY WireAssumption, Zenon
  <2> QED
    BY <1>2, <1>4, <2>1
<1>6. e2 \in Seq(Nat)
  BY <1>1, <1>5, AddressLength, EncodedShape, Zenon
<1>7. e4 \in Seq(Nat) /\ e5 \in Seq(Nat)
  BY <1>1, PaddingLength, EncodedShape, CopiesSeq
<1>8. Five(e1, e2, e3, e4, e5)
  BY <1>3, <1>4, <1>6, <1>7, FiveParts, Zenon
<1> QED
  BY <1>1, <1>4, <1>5, <1>6, <1>8, Zenon DEF Response, EncodeResponse, PaddingBytes, Five

\* A Hysteria2 client understands a response cut anywhere, or waits for more of
\* it, and leaves what was sent behind it.
LEMMA ResponseReads ==
    ASSUME NEW status \in {0, 1}, NEW n \in 0..MaxPadding,
           NEW p \in Seq(Nat), NEW t \in Seq(Nat), NEW x \in Seq(Nat),
           p \o t = Response(status, n) \o x
    PROVE  Reads(ParseResponse(p), p, t, Response(status, n), status, x)
<1>1. PICK e, m, l, tail :
         /\ e = <<status>> /\ m = Message(status) /\ l = EncodeVarint(Len(m))
         /\ tail = l \o (m \o PaddingBytes(n))
  BY Zenon
<1>2. e \in Seq(Nat) /\ Len(e) = 1 /\ e[1] = status
  BY <1>1
<1>3. /\ Response(status, n) = e \o tail /\ l \in Seq(Nat) /\ m \in Seq(Nat)
      /\ Len(m) <= MaxAddress
  BY <1>1, ResponseParts, Zenon
<1>4. tail \in Seq(Nat)
  <2>1. PaddingBytes(n) \in Seq(Nat)
    BY PaddingSeq, Zenon
  <2> QED
    BY <1>1, <1>3, <2>1
<1>5. p \o t = e \o (tail \o x) /\ tail \o x \in Seq(Nat)
  <2>0. p \o t = (e \o tail) \o x
    BY <1>3, Zenon
  <2>1. Regrouped(p, t, e, tail, x)
    BY <1>2, <1>4, <2>0, Regroup, Zenon
  <2> QED
    BY <2>1, Zenon DEF Regrouped
<1>6. Reads(Take(p, 1), p, t, e, e, tail \o x)
  <2>1. Reads(Take(p, Len(e)), p, t, e, e, tail \o x)
    BY <1>2, <1>5, TakeReads, Zenon
  <2> QED
    BY <1>2, <2>1, Zenon
<1>7. PICK first, result : first = Take(p, 1) /\ result = ParseResponse(p)
  BY Zenon
<1>8. result = Then(first, AfterStatus)
  BY <1>7, Zenon DEF ParseResponse, AfterStatus, AfterMessageLength, EndResponse, Then
<1>9. first = More => result = More
  BY <1>8, Outcomes, Zenon DEF Then
<1>10. ASSUME NEW rest \in Seq(Nat), first = Ok(e, rest), rest \o t = tail \o x
       PROVE  Reads(result, rest, t, tail, status, x)
  <2>1. result = AfterStatus(e, rest)
    BY <1>8, <1>10, Outcomes, Zenon DEF Then
  <2>2. PICK rear : rear = m \o PaddingBytes(n)
    BY Zenon
  <2>3. tail = l \o rear /\ rest \o t = (l \o rear) \o x
    BY <1>1, <1>10, <2>2, Zenon
  <2>4. Reads(AfterStatus(e, rest), rest, t, l \o rear, e[1], x)
    BY <1>1, <1>3, <2>2, <2>3, AfterStatusReads, Zenon
  <2> QED
    BY <1>2, <2>1, <2>3, <2>4, Zenon
<1>11. GoesOn(first, e, t, tail, x, result, status)
  BY <1>9, <1>10, Zenon DEF GoesOn
<1>12. Reads(result, p, t, e \o tail, status, x)
  BY <1>2, <1>4, <1>6, <1>7, <1>11, Chain, Zenon
<1> QED
  BY <1>3, <1>7, <1>12, Zenon

(***************************************************************************)
(* A CONNECT request of ShadowQUIC and SunnyQUIC, stage by stage.          *)
(***************************************************************************)
Octets(h) ==
    Copies(h, CASE Form[h] = "v4" -> 4 [] Form[h] = "v6" -> 16 [] OTHER -> Length[h])

HostBytes(h) ==
    CASE Form[h] = "v4" -> Copies(h, 4)
      [] Form[h] = "v6" -> Copies(h, 16)
      [] OTHER -> <<Length[h]>> \o Copies(h, Length[h])

PortBytes(port) == <<port \div 256, port % 256>>

AfterPort(octets, port, s) ==
    IF octets = <<>> THEN Bad
    ELSE Ok([host |-> Canonical[octets[1]], port |-> port[1] * 256 + port[2]], s)

AfterHost(octets, s) == Then(Take(s, 2), LAMBDA port, s1 : AfterPort(octets, port, s1))

AfterKind(kind, s) == Then(TakeHost(kind[1], s), AfterHost)

AfterOpcode(opcode, s) == IF opcode # <<SqConnect>> THEN Bad ELSE DecodeAddress(s)

\* So many copies of a byte of a stream cut anywhere.
LEMMA CopiesReads ==
    ASSUME NEW h \in Nat, NEW n \in Nat, NEW p \in Seq(Nat), NEW t \in Seq(Nat),
           NEW x \in Seq(Nat), NEW e, e = Copies(h, n), p \o t = e \o x
    PROVE  e \in Seq(Nat) /\ Reads(Take(p, n), p, t, e, e, x)
<1>1. e \in Seq(Nat) /\ Len(e) = n
  BY CopiesSeq, Zenon
<1>2. Reads(Take(p, Len(e)), p, t, e, e, x)
  BY <1>1, TakeReads, Zenon
<1> QED
  BY <1>1, <1>2, Zenon

\* The bytes of a name: their number, then they.
LEMMA NameReads ==
    ASSUME NEW h \in Nat, NEW n \in Nat, NEW p \in Seq(Nat), NEW t \in Seq(Nat),
           NEW x \in Seq(Nat), NEW e1, e1 = <<n>>, NEW e2, e2 = Copies(h, n),
           p \o t = (e1 \o e2) \o x
    PROVE  Reads(TakeHost(3, p), p, t, e1 \o e2, e2, x)
<1>1. e1 \in Seq(Nat) /\ Len(e1) = 1 /\ e1[1] = n
  OBVIOUS
<1>2. e2 \in Seq(Nat)
  BY CopiesSeq, Zenon
<1>3. p \o t = e1 \o (e2 \o x) /\ e2 \o x \in Seq(Nat)
  <2>1. Regrouped(p, t, e1, e2, x)
    BY <1>1, <1>2, Regroup, Zenon
  <2> QED
    BY <2>1, Zenon DEF Regrouped
<1>4. Reads(Take(p, 1), p, t, e1, e1, e2 \o x)
  <2>1. Reads(Take(p, Len(e1)), p, t, e1, e1, e2 \o x)
    BY <1>1, <1>3, TakeReads, Zenon
  <2> QED
    BY <1>1, <2>1, Zenon
<1>5. PICK first, result : first = Take(p, 1) /\ result = TakeHost(3, p)
  BY Zenon
<1>6. result = Then(first, LAMBDA k, s : Take(s, k[1]))
  BY <1>5 DEF TakeHost, Then
<1>7. first = More => result = More
  BY <1>6, Outcomes, Zenon DEF Then
<1>8. ASSUME NEW rest \in Seq(Nat), first = Ok(e1, rest), rest \o t = e2 \o x
      PROVE  Reads(result, rest, t, e2, e2, x)
  <2>1. result = Take(rest, e1[1])
    BY <1>6, <1>8, Outcomes, Zenon DEF Then
  <2>2. Reads(Take(rest, n), rest, t, e2, e2, x)
    BY <1>8, CopiesReads, Zenon
  <2> QED
    BY <1>1, <2>1, <2>2, Zenon
<1>9. GoesOn(first, e1, t, e2, x, result, e2)
  BY <1>7, <1>8, Zenon DEF GoesOn
<1>10. Reads(result, p, t, e1 \o e2, e2, x)
  BY <1>1, <1>2, <1>4, <1>5, <1>9, Chain, Zenon
<1> QED
  BY <1>5, <1>10, Zenon

\* The bytes of a host that can be encoded.
LEMMA HostReads ==
    ASSUME NEW a \in Destinations, AddressEncodes(a), NEW h, h = a.host,
           NEW p \in Seq(Nat), NEW t \in Seq(Nat), NEW x \in Seq(Nat),
           NEW e, e = HostBytes(h), p \o t = e \o x
    PROVE  Reads(TakeHost(AddressKind(h), p), p, t, e, Octets(h), x)
<1>1. h \in Hosts /\ h \in Nat /\ Length[h] \in Nat
  BY DestinationFacts, Zenon
<1>2. CASE Form[h] = "v4"
  <2>1. AddressKind(h) = 1 /\ e = Copies(h, 4) /\ Octets(h) = Copies(h, 4)
    BY <1>2 DEF AddressKind, HostBytes, Octets
  <2>2. TakeHost(1, p) = Take(p, 4) /\ 4 \in Nat
    BY DEF TakeHost
  <2>3. Reads(Take(p, 4), p, t, e, e, x)
    BY <1>1, <2>1, <2>2, CopiesReads, Zenon
  <2> QED
    BY <2>1, <2>2, <2>3, Zenon
<1>3. CASE Form[h] = "v6"
  <2>1. AddressKind(h) = 4 /\ e = Copies(h, 16) /\ Octets(h) = Copies(h, 16)
    BY <1>3 DEF AddressKind, HostBytes, Octets
  <2>2. TakeHost(4, p) = Take(p, 16) /\ 16 \in Nat
    BY DEF TakeHost
  <2>3. Reads(Take(p, 16), p, t, e, e, x)
    BY <1>1, <2>1, <2>2, CopiesReads, Zenon
  <2> QED
    BY <2>1, <2>2, <2>3, Zenon
<1>4. CASE Form[h] = "name"
  <2>1. AddressKind(h) = 3 /\ Octets(h) = Copies(h, Length[h])
    BY <1>4 DEF AddressKind, Octets
  <2>2. PICK e1, e2 : e1 = <<Length[h]>> /\ e2 = Copies(h, Length[h])
    BY Zenon
  <2>3. e = e1 \o e2
    BY <1>4, <2>2, Zenon DEF HostBytes
  <2>4. p \o t = (e1 \o e2) \o x
    BY <2>3, Zenon
  <2>5. Reads(TakeHost(3, p), p, t, e1 \o e2, e2, x)
    BY <1>1, <2>2, <2>4, NameReads, Zenon
  <2> QED
    BY <2>1, <2>2, <2>3, <2>5, Zenon
<1>5. Form[h] \in {"v4", "v6", "name"}
  BY Zenon DEF AddressEncodes
<1> QED
  BY <1>2, <1>3, <1>4, <1>5, Zenon

\* The host's bytes are bytes, at least one, each the host's number.
LEMMA HostSeq ==
    ASSUME NEW a \in Destinations, NEW h, h = a.host
    PROVE  /\ HostBytes(h) \in Seq(Nat) /\ Octets(h) \in Seq(Nat)
           /\ Octets(h) # <<>> /\ Octets(h)[1] = h
<1>1. h \in Nat /\ Length[h] \in Nat /\ 1 <= Length[h]
  BY DestinationFacts, Zenon
<1>2. PICK n : n = CASE Form[h] = "v4" -> 4 [] Form[h] = "v6" -> 16 [] OTHER -> Length[h]
  BY Zenon
<1>3. n \in Nat /\ 1 <= n /\ 1 \in 1..n
  BY <1>1, <1>2
<1>4. PICK c : c = Copies(h, n)
  BY Zenon
<1>5. c \in Seq(Nat) /\ Len(c) = n /\ c[1] = h
  BY <1>1, <1>3, <1>4, CopiesSeq, Zenon
<1>6. c # <<>>
  BY <1>3, <1>5
<1>7. Octets(h) = c
  BY <1>2, <1>4, Zenon DEF Octets
<1>8. HostBytes(h) \in Seq(Nat)
  <2>1. \A k \in Nat : Copies(h, k) \in Seq(Nat)
    BY <1>1, CopiesSeq, Zenon
  <2>2. Copies(h, 4) \in Seq(Nat) /\ Copies(h, 16) \in Seq(Nat) /\ Copies(h, Length[h]) \in Seq(Nat)
    <3>1. 4 \in Nat /\ 16 \in Nat
      BY Zenon
    <3> QED
      BY <1>1, <2>1, <3>1, Zenon
  <2>3. <<Length[h]>> \o Copies(h, Length[h]) \in Seq(Nat)
    BY <1>1, <2>2
  <2> QED
    BY <2>2, <2>3, Zenon DEF HostBytes
<1> QED
  BY <1>5, <1>6, <1>7, <1>8, Zenon

\* The number made of two bytes.
Made(port, q, r) == q \in Nat /\ r \in Nat /\ q * 256 + r = port

\* A port is made of its two bytes.
LEMMA PortDigits ==
    ASSUME NEW port \in Nat, NEW q, q = port \div 256, NEW r, r = port % 256
    PROVE  Made(port, q, r)
<1>1. q \in Nat /\ port - q * 256 \in Bytes /\ r = port - q * 256
  BY DigitOf
<1> QED
  BY <1>1, SMT DEF Bytes, Made

\* The port behind a host, cut anywhere.
LEMMA AfterHostReads ==
    ASSUME NEW port \in Nat, NEW octets, octets # <<>>, NEW p \in Seq(Nat), NEW t \in Seq(Nat),
           NEW x \in Seq(Nat), NEW e, e = PortBytes(port), p \o t = e \o x
    PROVE  Reads(AfterHost(octets, p), p, t, e,
                 [host |-> Canonical[octets[1]], port |-> port], x)
<1>1. e \in Seq(Nat) /\ Len(e) = 2 /\ e[1] * 256 + e[2] = port
  <2>1. Made(port, port \div 256, port % 256)
    BY PortDigits, Zenon
  <2>2. PICK q, r : e = <<q, r>> /\ Made(port, q, r)
    BY <2>1, Zenon DEF PortBytes
  <2> QED
    BY <2>2 DEF Made
<1>2. Reads(Take(p, 2), p, t, e, e, x)
  <2>1. Reads(Take(p, Len(e)), p, t, e, e, x)
    BY <1>1, TakeReads, Zenon
  <2> QED
    BY <1>1, <2>1, Zenon
<1>3. PICK first, result, final :
         /\ first = Take(p, 2) /\ result = AfterHost(octets, p)
         /\ final = [host |-> Canonical[octets[1]], port |-> port]
  BY Zenon
<1>4. first = More => result = More
  BY <1>3, Outcomes, Zenon DEF AfterHost, Then
<1>5. \A rest \in Seq(Nat) : first = Ok(e, rest) => result = Ok(final, rest)
  <2>1. \A rest \in Seq(Nat) : first = Ok(e, rest) => result = AfterPort(octets, e, rest)
    BY <1>3, Outcomes DEF AfterHost, Then
  <2>2. \A rest \in Seq(Nat) : AfterPort(octets, e, rest) = Ok(final, rest)
    BY <1>1, <1>3, Zenon DEF AfterPort
  <2> QED
    BY <2>1, <2>2, Zenon
<1>6. Turns(first, e, result, final)
  BY <1>4, <1>5, Zenon DEF Turns
<1>7. Reads(first, p, t, e, e, x)
  BY <1>2, <1>3, Zenon
<1>8. Reads(result, p, t, e, final, x)
  BY <1>6, <1>7, Converts, Zenon
<1> QED
  BY <1>3, <1>8, Zenon

\* The host and the port of an address, cut anywhere.
LEMMA AfterKindReads ==
    ASSUME NEW a \in Destinations, AddressEncodes(a), NEW h, h = a.host,
           NEW kind, kind[1] = AddressKind(h),
           NEW p \in Seq(Nat), NEW t \in Seq(Nat), NEW x \in Seq(Nat),
           NEW e, e = HostBytes(h), NEW tail, tail = PortBytes(a.port), p \o t = (e \o tail) \o x
    PROVE  Reads(AfterKind(kind, p), p, t, e \o tail, Meaning(a), x)
<1>1. e \in Seq(Nat) /\ Octets(h) # <<>> /\ Octets(h)[1] = h
  BY HostSeq, Zenon
<1>2. tail \in Seq(Nat) /\ a.port \in Nat
  BY DestinationFacts DEF PortBytes
<1>3. p \o t = e \o (tail \o x) /\ tail \o x \in Seq(Nat)
  <2>1. Regrouped(p, t, e, tail, x)
    BY <1>1, <1>2, Regroup, Zenon
  <2> QED
    BY <2>1, Zenon DEF Regrouped
<1>4. Reads(TakeHost(AddressKind(h), p), p, t, e, Octets(h), tail \o x)
  BY <1>3, HostReads, Zenon
<1>5. PICK first, result, octets, final :
         /\ first = TakeHost(AddressKind(h), p) /\ result = AfterKind(kind, p)
         /\ octets = Octets(h) /\ final = Meaning(a)
  BY Zenon
<1>6. result = Then(first, AfterHost)
  BY <1>5, Zenon DEF AfterKind
<1>7. first = More => result = More
  BY <1>6, Outcomes, Zenon DEF Then
<1>8. ASSUME NEW rest \in Seq(Nat), first = Ok(octets, rest), rest \o t = tail \o x
      PROVE  Reads(result, rest, t, tail, final, x)
  <2>1. result = AfterHost(octets, rest)
    BY <1>6, <1>8, Outcomes, Zenon DEF Then
  <2>2. octets # <<>> /\ octets[1] = h
    BY <1>1, <1>5, Zenon
  <2>3. Reads(AfterHost(octets, rest), rest, t, tail,
              [host |-> Canonical[octets[1]], port |-> a.port], x)
    BY <1>2, <1>8, <2>2, AfterHostReads, Zenon
  <2>4. [host |-> Canonical[octets[1]], port |-> a.port] = final
    BY <1>5, <2>2, Zenon DEF Meaning
  <2> QED
    BY <2>1, <2>3, <2>4, Zenon
<1>9. GoesOn(first, octets, t, tail, x, result, final)
  BY <1>7, <1>8, Zenon DEF GoesOn
<1>10. Reads(result, p, t, e \o tail, final, x)
  BY <1>1, <1>2, <1>4, <1>5, <1>9, Chain, Zenon
<1> QED
  BY <1>5, <1>10, Zenon

\* An address is its kind, the host and the port.
LEMMA AddressParts ==
    ASSUME NEW a \in Destinations, AddressEncodes(a), NEW h, h = a.host
    PROVE  /\ EncodeAddress(a) = <<AddressKind(h)>> \o (HostBytes(h) \o PortBytes(a.port))
           /\ AddressKind(h) \in Nat /\ HostBytes(h) \in Seq(Nat)
           /\ PortBytes(a.port) \in Seq(Nat)
<1>1. PICK e1, e2, e3 : e1 = <<AddressKind(h)>> /\ e2 = HostBytes(h) /\ e3 = PortBytes(a.port)
  BY Zenon
<1>2. AddressKind(h) \in Nat
  <2>1. Form[h] \in {"v4", "v6", "name"}
    BY Zenon DEF AddressEncodes
  <2>2. AddressKind(h) \in {1, 3, 4}
    BY <2>1 DEF AddressKind
  <2> QED
    BY <2>2
<1>3. e1 \in Seq(Nat)
  BY <1>1, <1>2
<1>4. e2 \in Seq(Nat)
  BY <1>1, HostSeq, Zenon
<1>5. e3 \in Seq(Nat)
  BY <1>1, DestinationFacts DEF PortBytes
<1>6. EncodeAddress(a) = (e1 \o e2) \o e3
  BY <1>1, Zenon DEF EncodeAddress, HostBytes, PortBytes
<1>7. Associate(e1, e2, e3)
  BY <1>3, <1>4, <1>5, Associates, Zenon
<1> QED
  BY <1>1, <1>2, <1>4, <1>5, <1>6, <1>7, Zenon DEF Associate

\* A SQuic address, cut anywhere.
LEMMA AddressReads ==
    ASSUME NEW a \in Destinations, AddressEncodes(a),
           NEW p \in Seq(Nat), NEW t \in Seq(Nat), NEW x \in Seq(Nat),
           p \o t = EncodeAddress(a) \o x
    PROVE  Reads(DecodeAddress(p), p, t, EncodeAddress(a), Meaning(a), x)
<1>1. PICK h, e, e2, e3, tail :
         /\ h = a.host /\ e = <<AddressKind(h)>> /\ e2 = HostBytes(h) /\ e3 = PortBytes(a.port)
         /\ tail = e2 \o e3
  BY Zenon
<1>2. EncodeAddress(a) = e \o tail /\ AddressKind(h) \in Nat
  BY <1>1, AddressParts, Zenon
<1>3. e \in Seq(Nat) /\ Len(e) = 1 /\ e[1] = AddressKind(h)
  BY <1>1, <1>2
<1>4. tail \in Seq(Nat)
  <2>1. e2 \in Seq(Nat) /\ e3 \in Seq(Nat)
    BY <1>1, AddressParts, Zenon
  <2> QED
    BY <1>1, <2>1
<1>5. p \o t = e \o (tail \o x) /\ tail \o x \in Seq(Nat)
  <2>0. p \o t = (e \o tail) \o x
    BY <1>2, Zenon
  <2>1. Regrouped(p, t, e, tail, x)
    BY <1>3, <1>4, <2>0, Regroup, Zenon
  <2> QED
    BY <2>1, Zenon DEF Regrouped
<1>6. Reads(Take(p, 1), p, t, e, e, tail \o x)
  <2>1. Reads(Take(p, Len(e)), p, t, e, e, tail \o x)
    BY <1>3, <1>5, TakeReads, Zenon
  <2> QED
    BY <1>3, <2>1, Zenon
<1>7. PICK first, result, final :
         first = Take(p, 1) /\ result = DecodeAddress(p) /\ final = Meaning(a)
  BY Zenon
<1>8. result = Then(first, AfterKind)
  BY <1>7, Zenon DEF DecodeAddress, AfterKind, AfterHost, AfterPort, Then
<1>9. first = More => result = More
  BY <1>8, Outcomes, Zenon DEF Then
<1>10. ASSUME NEW rest \in Seq(Nat), first = Ok(e, rest), rest \o t = tail \o x
       PROVE  Reads(result, rest, t, tail, final, x)
  <2>1. result = AfterKind(e, rest)
    BY <1>8, <1>10, Outcomes, Zenon DEF Then
  <2>2. rest \o t = (e2 \o e3) \o x
    BY <1>1, <1>10, Zenon
  <2>3. Reads(AfterKind(e, rest), rest, t, e2 \o e3, Meaning(a), x)
    BY <1>1, <1>3, <2>2, AfterKindReads, Zenon
  <2> QED
    BY <1>1, <1>7, <2>1, <2>3, Zenon
<1>11. GoesOn(first, e, t, tail, x, result, final)
  BY <1>9, <1>10, Zenon DEF GoesOn
<1>12. Reads(result, p, t, e \o tail, final, x)
  BY <1>3, <1>4, <1>6, <1>7, <1>11, Chain, Zenon
<1> QED
  BY <1>2, <1>7, <1>12, Zenon

\* Addresses are bytes.
LEMMA AddressSeq ==
    ASSUME NEW a \in Destinations, AddressEncodes(a)
    PROVE  EncodeAddress(a) \in Seq(Nat)
<1>1. PICK h, e1, e2, e3 :
         h = a.host /\ e1 = <<AddressKind(h)>> /\ e2 = HostBytes(h) /\ e3 = PortBytes(a.port)
  BY Zenon
<1>2. EncodeAddress(a) = e1 \o (e2 \o e3) /\ AddressKind(h) \in Nat /\ e2 \in Seq(Nat) /\ e3 \in Seq(Nat)
  BY <1>1, AddressParts, Zenon
<1> QED
  BY <1>1, <1>2

\* A SQuic server understands a CONNECT cut anywhere, or waits for more of it,
\* and leaves what was sent behind it.
LEMMA ConnectReads ==
    ASSUME NEW a \in Destinations, AddressEncodes(a),
           NEW p \in Seq(Nat), NEW t \in Seq(Nat), NEW x \in Seq(Nat),
           p \o t = EncodeConnect(a) \o x
    PROVE  Reads(ParseConnect(p), p, t, EncodeConnect(a), Meaning(a), x)
<1>1. PICK e, tail : e = <<SqConnect>> /\ tail = EncodeAddress(a)
  BY Zenon
<1>2. EncodeConnect(a) = e \o tail /\ tail \in Seq(Nat)
  BY <1>1, AddressSeq, Zenon DEF EncodeConnect
<1>3. e \in Seq(Nat) /\ Len(e) = 1
  BY <1>1 DEF SqConnect
<1>5. p \o t = e \o (tail \o x) /\ tail \o x \in Seq(Nat)
  <2>0. p \o t = (e \o tail) \o x
    BY <1>2, Zenon
  <2>1. Regrouped(p, t, e, tail, x)
    BY <1>2, <1>3, <2>0, Regroup, Zenon
  <2> QED
    BY <2>1, Zenon DEF Regrouped
<1>6. Reads(Take(p, 1), p, t, e, e, tail \o x)
  <2>1. Reads(Take(p, Len(e)), p, t, e, e, tail \o x)
    BY <1>3, <1>5, TakeReads, Zenon
  <2> QED
    BY <1>3, <2>1, Zenon
<1>7. PICK first, result, final :
         first = Take(p, 1) /\ result = ParseConnect(p) /\ final = Meaning(a)
  BY Zenon
<1>8. result = Then(first, AfterOpcode)
  BY <1>7, Zenon DEF ParseConnect, AfterOpcode, Then
<1>9. first = More => result = More
  BY <1>8, Outcomes, Zenon DEF Then
<1>10. ASSUME NEW rest \in Seq(Nat), first = Ok(e, rest), rest \o t = tail \o x
       PROVE  Reads(result, rest, t, tail, final, x)
  <2>1. result = DecodeAddress(rest)
    BY <1>1, <1>8, <1>10, Outcomes, Zenon DEF Then, AfterOpcode
  <2>2. Reads(DecodeAddress(rest), rest, t, tail, Meaning(a), x)
    BY <1>1, <1>10, AddressReads, Zenon
  <2> QED
    BY <1>7, <2>1, <2>2, Zenon
<1>11. GoesOn(first, e, t, tail, x, result, final)
  BY <1>9, <1>10, Zenon DEF GoesOn
<1>12. Reads(result, p, t, e \o tail, final, x)
  BY <1>2, <1>3, <1>6, <1>7, <1>11, Chain, Zenon
<1> QED
  BY <1>2, <1>7, <1>12, Zenon

(***************************************************************************)
(* Bytes that applications write, and pieces of frames.                    *)
(***************************************************************************)
Stream(w) == [i \in 1..w |-> Data(i)]

\* The bytes an application has written, and those with one more.
LEMMA StreamGrows ==
    ASSUME NEW w \in Nat
    PROVE  /\ Stream(w) \in Seq(Nat) /\ Len(Stream(w)) = w
           /\ Data(w + 1) \in Nat
           /\ Stream(w + 1) = Stream(w) \o <<Data(w + 1)>>
<1>1. Stream(w) \in Seq(Nat) /\ Len(Stream(w)) = w /\ \A i \in 1..w : Stream(w)[i] = Data(i)
  BY DEF Stream, Data
<1>2. /\ Stream(w + 1) \in Seq(Nat) /\ Len(Stream(w + 1)) = w + 1
      /\ \A i \in 1..(w + 1) : Stream(w + 1)[i] = Data(i)
  BY DEF Stream, Data
<1>3. Data(w + 1) \in Nat
  BY DEF Data
<1>4. PICK a, b, d : a = Stream(w) /\ b = Stream(w + 1) /\ d = Data(w + 1)
  BY Zenon
<1>5. PICK u : u = a \o <<d>>
  BY Zenon
<1>6. /\ u \in Seq(Nat) /\ Len(u) = w + 1 /\ u[w + 1] = d
      /\ \A i \in 1..w : u[i] = a[i]
  <2>1. PICK one : one = <<d>>
    BY Zenon
  <2>2. one \in Seq(Nat) /\ Len(one) = 1 /\ one[1] = d /\ 1 \in 1..Len(one)
    BY <1>3, <1>4, <2>1
  <2>3. a \in Seq(Nat) /\ Len(a) = w /\ u = a \o one
    BY <1>1, <1>4, <1>5, <2>1, Zenon
  <2>4. /\ u \in Seq(Nat) /\ Len(u) = Len(a) + Len(one)
        /\ \A i \in 1..Len(a) : u[i] = a[i]
        /\ \A i \in 1..Len(one) : u[Len(a) + i] = one[i]
    BY <2>2, <2>3, ConcatElements, Zenon
  <2> QED
    BY <2>2, <2>3, <2>4, Zenon
<1>7. Agree(b, u)
  <2>1. ASSUME NEW i \in 1..(w + 1) PROVE b[i] = u[i]
    <3>1. CASE i = w + 1
      BY <1>2, <1>4, <1>6, <3>1, Zenon
    <3>2. CASE i \in 1..w
      BY <1>1, <1>2, <1>4, <1>6, <3>2, Zenon
    <3> QED
      BY <3>1, <3>2
  <2> QED
    BY <1>2, <1>4, <1>6, <2>1, Zenon DEF Agree
<1>8. b = u
  BY <1>2, <1>4, <1>6, <1>7, SameSeq, Zenon
<1> QED
  BY <1>1, <1>3, <1>4, <1>5, <1>8, Zenon

\* Before anything is written.
LEMMA NothingWritten == Stream(0) = <<>>
BY DEF Stream

\* What begins the bytes written is the bytes written, as far as it goes.
LEMMA BeginsStream ==
    ASSUME NEW a \in Seq(Nat), NEW t \in Seq(Nat), NEW w \in Nat, a \o t = Stream(w)
    PROVE  a = [i \in 1..Len(a) |-> Data(i)] /\ Len(a) <= w
<1>1. Len(Stream(w)) = w /\ \A i \in 1..w : Stream(w)[i] = Data(i)
  BY DEF Stream
<1>2. Len(a) \in Nat /\ Len(a) <= w /\ \A i \in 1..Len(a) : (a \o t)[i] = a[i]
  <2>1. Len(a \o t) = Len(a) + Len(t) /\ Len(a) \in Nat /\ Len(t) \in Nat
    OBVIOUS
  <2>2. \A i \in 1..Len(a) : (a \o t)[i] = a[i]
    BY ConcatElements, Zenon
  <2> QED
    BY <1>1, <2>1, <2>2
<1>3. \A i \in 1..Len(a) : a[i] = Data(i)
  BY <1>1, <1>2
<1> QED
  BY <1>2, <1>3

\* Nothing added.
LEMMA Nil ==
    ASSUME NEW a \in Seq(Nat)
    PROVE  a \o <<>> = a /\ <<>> \o a = a
OBVIOUS

\* Two parts of nothing are nothing.
LEMMA NothingSplits ==
    ASSUME NEW a \in Seq(Nat), NEW b \in Seq(Nat), a \o b = <<>>
    PROVE  a = <<>> /\ b = <<>>
<1>1. Len(a \o b) = Len(a) + Len(b) /\ Len(a) \in Nat /\ Len(b) \in Nat
  OBVIOUS
<1>2. Len(a) = 0 /\ Len(b) = 0
  BY <1>1
<1> QED
  BY <1>2

Cut(a, b, c) == b \in Seq(Nat) /\ c \in Seq(Nat) /\ b \o c = a

\* A piece and what is left.
LEMMA PieceCut ==
    ASSUME NEW a \in Seq(Nat), NEW n \in 1..Len(a)
    PROVE  /\ Cut(a, SubSeq(a, 1, n), SubSeq(a, n + 1, Len(a)))
           /\ (n < Len(a)) <=> (SubSeq(a, n + 1, Len(a)) # <<>>)
<1>0. Len(a) \in Nat /\ n \in Nat /\ n <= Len(a) /\ 1 <= n
  OBVIOUS
<1>1. PICK b, c : b = SubSeq(a, 1, n) /\ c = SubSeq(a, n + 1, Len(a))
  BY Zenon
<1>2. b \in Seq(Nat) /\ Len(b) = n /\ \A i \in 1..n : b[i] = a[i]
  BY <1>0, <1>1
<1>3. c \in Seq(Nat) /\ Len(c) = Len(a) - n /\ \A i \in 1..Len(c) : c[i] = a[n + i]
  <2>1. c \in Seq(Nat) /\ Len(c) = Len(a) - n
    BY <1>0, <1>1
  <2>2. ASSUME NEW i \in 1..Len(c) PROVE c[i] = a[n + i]
    BY <1>0, <1>1, <2>1
  <2> QED
    BY <2>1, <2>2, Zenon
<1>4. PICK u : u = b \o c
  BY Zenon
<1>5. /\ u \in Seq(Nat) /\ Len(u) = Len(b) + Len(c)
      /\ \A i \in 1..Len(b) : u[i] = b[i]
      /\ \A i \in 1..Len(c) : u[Len(b) + i] = c[i]
  BY <1>2, <1>3, <1>4, ConcatElements, Zenon
<1>6. Agree(u, a)
  <2>0. Len(u) = Len(a)
    BY <1>0, <1>2, <1>3, <1>5
  <2>1. ASSUME NEW i \in 1..Len(u) PROVE u[i] = a[i]
    <3>1. CASE i \in 1..n
      BY <1>2, <1>5, <3>1, Zenon
    <3>2. CASE i \notin 1..n
      <4>1. PICK k : k = i - n
        BY Zenon
      <4>2. k \in 1..Len(c) /\ i = n + k
        BY <1>0, <1>3, <2>0, <3>2, <4>1
      <4> QED
        BY <1>2, <1>3, <1>5, <4>2, Zenon
    <3> QED
      BY <3>1, <3>2, Zenon
  <2> QED
    BY <2>0, <2>1, Zenon DEF Agree
<1>7. u = a
  BY <1>5, <1>6, SameSeq, Zenon
<1>8. Len(c) = 0 <=> c = <<>>
  BY <1>3
<1>9. (n < Len(a)) <=> (c # <<>>)
  BY <1>0, <1>3, <1>8
<1> QED
  BY <1>1, <1>2, <1>3, <1>4, <1>7, <1>9, Zenon DEF Cut

\* The first byte and what is left.
LEMMA HeadCut ==
    ASSUME NEW a \in Seq(Nat), a # <<>>
    PROVE  Head(a) \in Nat /\ Tail(a) \in Seq(Nat) /\ Cut(a, <<Head(a)>>, Tail(a))
<1>1. Head(a) \in Nat /\ Tail(a) \in Seq(Nat) /\ <<Head(a)>> \in Seq(Nat)
  OBVIOUS
<1>2. <<Head(a)>> \o Tail(a) = a
  OBVIOUS
<1> QED
  BY <1>1, <1>2, Zenon DEF Cut

\* Writing one more byte.
LEMMA AppendConcat ==
    ASSUME NEW a \in Seq(Nat), NEW d \in Nat
    PROVE  Append(a, d) = a \o <<d>> /\ <<d>> \in Seq(Nat)
OBVIOUS

(***************************************************************************)
(* Requests of either framing; h says that the framing is Hysteria2's.     *)
(***************************************************************************)
EncodesAs(h, a) == IF h THEN Len(Text(a)) <= MaxAddress ELSE AddressEncodes(a)

FrameOf(h, a, n) == IF h THEN EncodeRequest(a, n) ELSE EncodeConnect(a)

ParseAs(h, p) == IF h THEN ParseRequest(p) ELSE ParseConnect(p)

\* Requests are bytes, at least one.
LEMMA FrameSeq ==
    ASSUME NEW h, NEW a \in Destinations, EncodesAs(h, a), NEW n \in 0..MaxPadding
    PROVE  FrameOf(h, a, n) \in Seq(Nat) /\ FrameOf(h, a, n) # <<>>
<1>0. ASSUME NEW e \in Seq(Nat), NEW tail \in Seq(Nat), Len(e) >= 1
      PROVE  e \o tail \in Seq(Nat) /\ e \o tail # <<>>
  <2>1. e \o tail \in Seq(Nat) /\ Len(e \o tail) = Len(e) + Len(tail) /\ Len(tail) \in Nat
        /\ Len(e) \in Nat
    OBVIOUS
  <2>2. Len(e \o tail) # 0
    BY <1>0, <2>1
  <2> QED
    BY <2>1, <2>2
<1>1. CASE h
  <2>1. PICK e, tail : e = EncodeVarint(FrameType)
                         /\ tail = EncodeVarint(Len(Text(a))) \o (Text(a) \o PaddingBytes(n))
    BY Zenon
  <2>2. Len(Text(a)) <= MaxAddress
    BY <1>1, Zenon DEF EncodesAs
  <2>3. EncodeRequest(a, n) = e \o tail /\ EncodeVarint(Len(Text(a))) \in Seq(Nat)
    BY <2>1, <2>2, RequestParts, Zenon
  <2>4. e \in Seq(Nat) /\ Len(e) >= 1
    BY <2>1, TypeEncodable, EncodedShape, Zenon
  <2>5. Text(a) \in Seq(Nat) /\ PaddingBytes(n) \in Seq(Nat)
    BY TextFacts, PaddingSeq, Zenon
  <2>6. tail \in Seq(Nat)
    BY <2>1, <2>3, <2>5
  <2> QED
    BY <1>0, <1>1, <2>3, <2>4, <2>6, Zenon DEF FrameOf
<1>2. CASE ~h
  <2>1. PICK e, tail : e = <<SqConnect>> /\ tail = EncodeAddress(a)
    BY Zenon
  <2>2. AddressEncodes(a)
    BY <1>2, Zenon DEF EncodesAs
  <2>3. tail \in Seq(Nat)
    BY <2>1, <2>2, AddressSeq, Zenon
  <2>4. e \in Seq(Nat) /\ Len(e) >= 1
    BY <2>1 DEF SqConnect
  <2>5. EncodeConnect(a) = e \o tail
    BY <2>1, Zenon DEF EncodeConnect
  <2> QED
    BY <1>0, <1>2, <2>3, <2>4, <2>5, Zenon DEF FrameOf
<1> QED
  BY <1>1, <1>2, Zenon

\* A server understands a request cut anywhere.
LEMMA FrameReads ==
    ASSUME NEW h, NEW a \in Destinations, EncodesAs(h, a), NEW n \in 0..MaxPadding,
           NEW p \in Seq(Nat), NEW t \in Seq(Nat), NEW x \in Seq(Nat),
           p \o t = FrameOf(h, a, n) \o x
    PROVE  Reads(ParseAs(h, p), p, t, FrameOf(h, a, n), Meaning(a), x)
<1>1. CASE h
  <2>1. Len(Text(a)) <= MaxAddress /\ FrameOf(h, a, n) = EncodeRequest(a, n)
          /\ ParseAs(h, p) = ParseRequest(p)
    BY <1>1, Zenon DEF EncodesAs, FrameOf, ParseAs
  <2>2. p \o t = EncodeRequest(a, n) \o x
    BY <2>1, Zenon
  <2>3. Reads(ParseRequest(p), p, t, EncodeRequest(a, n), Meaning(a), x)
    BY <2>1, <2>2, RequestReads, Zenon
  <2> QED
    BY <2>1, <2>3, Zenon
<1>2. CASE ~h
  <2>1. AddressEncodes(a) /\ FrameOf(h, a, n) = EncodeConnect(a)
          /\ ParseAs(h, p) = ParseConnect(p)
    BY <1>2, Zenon DEF EncodesAs, FrameOf, ParseAs
  <2>2. p \o t = EncodeConnect(a) \o x
    BY <2>1, Zenon
  <2>3. Reads(ParseConnect(p), p, t, EncodeConnect(a), Meaning(a), x)
    BY <2>1, <2>2, ConnectReads, Zenon
  <2> QED
    BY <2>1, <2>3, Zenon
<1> QED
  BY <1>1, <1>2, Zenon

\* Before anything arrived there is no request.
LEMMA NothingArrived ==
    ASSUME NEW h
    PROVE  ParseAs(h, <<>>) = More /\ ParseResponse(<<>>) = More
<1>1. DecodeVarint(<<>>) = More
  BY Zenon DEF DecodeVarint
<1>2. Take(<<>>, 1) = More
  BY DEF Take
<1>3. ParseRequest(<<>>) = More
  BY <1>1, Outcomes, Zenon DEF ParseRequest, Then
<1>4. ParseConnect(<<>>) = More /\ ParseResponse(<<>>) = More
  BY <1>2, Outcomes, Zenon DEF ParseConnect, ParseResponse, Then
<1> QED
  BY <1>3, <1>4, Zenon DEF ParseAs

\* A response is bytes, at least one.
LEMMA ResponseSeq ==
    ASSUME NEW status \in {0, 1}, NEW n \in 0..MaxPadding
    PROVE  Response(status, n) \in Seq(Nat) /\ Response(status, n) # <<>>
<1>1. PICK e, m, l, pad : /\ e = <<status>> /\ m = Message(status) /\ l = EncodeVarint(Len(m))
                          /\ pad = PaddingBytes(n)
  BY Zenon
<1>2. Response(status, n) = e \o (l \o (m \o pad)) /\ l \in Seq(Nat) /\ m \in Seq(Nat)
  BY <1>1, ResponseParts, Zenon
<1>3. pad \in Seq(Nat)
  BY <1>1, PaddingSeq, Zenon
<1>4. e \in Seq(Nat) /\ Len(e) = 1
  BY <1>1
<1>5. PICK tail : tail = l \o (m \o pad)
  BY Zenon
<1>6. tail \in Seq(Nat) /\ Len(tail) \in Nat
  BY <1>2, <1>3, <1>5
<1>7. e \o tail \in Seq(Nat) /\ Len(e \o tail) = Len(e) + Len(tail)
  BY <1>4, <1>6, ConcatElements, Zenon
<1>8. e \o tail # <<>>
  <2>1. Len(e \o tail) # 0
    BY <1>4, <1>6, <1>7
  <2> QED
    BY <2>1
<1> QED
  BY <1>2, <1>5, <1>7, <1>8, Zenon

(***************************************************************************)
(* The invariant of a proxied stream, over the values of its variables: c  *)
(* and v for the client and the server, w for the destination asked, g for *)
(* the one understood, o and u for the request not yet written and the     *)
(* bytes on their way up, r and d for the same down, wc and ws for the     *)
(* bytes written, rc and rs for the bytes read.                            *)
(***************************************************************************)
ClientLabel == {"idle", "requesting", "awaiting", "open", "failed", "dropped"}

ServerLabel == {"none", "reading", "responding", "refusing", "queued", "accepted", "failed",
                "dropped"}

Unread == {"none", "reading"}

Serving == {"responding", "refusing", "queued", "accepted"}

\* What was read begins what was written.
Begins(a, w) == \E t \in Seq(Nat) : a \o t = Stream(w)

\* The server has understood nothing yet, or what was asked for.
Understands(c, w, v, g) ==
    /\ v \in Unread \/ c = "idle" => g = Nowhere
    /\ v \in Serving \cup {"dropped"} =>
           w \in Destinations /\ g = Meaning(w) /\ c \notin {"idle", "requesting"}
    /\ g = Nowhere \/ (w \in Destinations /\ g = Meaning(w))

\* Up to the request, what arrived and what is still to come make up the
\* request and the bytes written behind it.
Sent(h, c, w, o, u, wc) ==
    /\ w \in Destinations /\ EncodesAs(h, w)
    /\ \E n \in 0..MaxPadding, t \in Seq(Nat) :
         /\ u \o t = FrameOf(h, w, n) \o Stream(wc)
         /\ c = "requesting" => t = o
         /\ c \in {"awaiting", "open"} => t = <<>>

\* Behind it, what was read, what arrived and what is still to come are the
\* bytes written.
Flows(c, u, wc, rs) ==
    \E t \in Seq(Nat) : rs \o (u \o t) = Stream(wc) /\ (c \in {"awaiting", "open"} => t = <<>>)

Upstream(h, c, w, o, u, v, wc, rs) ==
    /\ c = "idle" => v \in Unread \cup {"failed"} /\ u = <<>>
    /\ c \in {"idle", "requesting"} => wc = 0
    /\ c = "requesting" => o # <<>>
    /\ ~h => c # "awaiting"
    /\ v \in Unread => rs = <<>> /\ ((c \in {"idle", "failed"} /\ u = <<>>) \/ Sent(h, c, w, o, u, wc))
    /\ v \in Serving => Flows(c, u, wc, rs)
    /\ Begins(rs, wc)

\* What the client has of the response, and what it has not, is the response
\* and the bytes written behind it.
Answered(v, r, d, ws) ==
    /\ v \in Serving \cup {"dropped"}
    /\ \E n \in 0..MaxPadding, status \in {0, 1} :
         /\ d \o r = Response(status, n) \o Stream(ws)
         /\ v \in {"responding", "queued", "accepted"} => status = 0
         /\ v = "refusing" => status = 1
         /\ v \in {"responding", "refusing"} => ws = 0
         /\ v \in {"queued", "accepted", "dropped"} => r = <<>>

Downstream(h, c, v, r, d, ws, rc) ==
    /\ v \in Unread \/ c = "idle" => d = <<>> /\ r = <<>> /\ ws = 0 /\ rc = <<>>
    /\ v \in {"responding", "refusing"} => h
    /\ v = "responding" => r # <<>>
    /\ h /\ c \in {"requesting", "awaiting"} =>
           rc = <<>> /\ ((v \in Unread \cup {"failed"} /\ d = <<>>) \/ Answered(v, r, d, ws))
    /\ c = "open" \/ (~h /\ c = "requesting") => rc \o d = Stream(ws)
    /\ h /\ c = "open" => v \in {"queued", "accepted", "dropped"}
    /\ Begins(rc, ws)

StreamInv(s) ==
    /\ Understands(client[s], want[s], server[s], got[s])
    /\ Upstream(Hysteria2, client[s], want[s], out[s], up[s], server[s],
                written[s].client, read[s].server)
    /\ Downstream(Hysteria2, client[s], server[s], serverOut[s], down[s],
                  written[s].server, read[s].client)

TcpShape ==
    /\ client \in [Streams -> ClientLabel] /\ server \in [Streams -> ServerLabel]
    /\ want \in [Streams -> Destinations \cup {Nowhere}]
    /\ got \in [Streams -> Destinations \cup {Nowhere}]
    /\ out \in [Streams -> Seq(Nat)] /\ up \in [Streams -> Seq(Nat)]
    /\ serverOut \in [Streams -> Seq(Nat)] /\ down \in [Streams -> Seq(Nat)]
    /\ written \in [Streams -> [client : Nat, server : Nat]]
    /\ read \in [Streams -> [client : Seq(Nat), server : Seq(Nat)]]

TcpInv == TcpShape /\ \A s \in Streams : StreamInv(s)

(***************************************************************************)
(* What each step does to the bytes on their way up.                       *)
(***************************************************************************)
\* One more byte behind what begins the stream.
LEMMA BeginsGrows ==
    ASSUME NEW a \in Seq(Nat), NEW w \in Nat, Begins(a, w)
    PROVE  Begins(a, w + 1)
<1>1. PICK t \in Seq(Nat) : a \o t = Stream(w)
  BY Zenon DEF Begins
<1>2. PICK d : d = <<Data(w + 1)>>
  BY Zenon
<1>3. d \in Seq(Nat) /\ Stream(w + 1) = Stream(w) \o d
  BY <1>2, StreamGrows
<1>4. Associate(a, t, d)
  BY <1>3, Associates, Zenon
<1>5. a \o (t \o d) = Stream(w + 1)
  BY <1>1, <1>3, <1>4, Zenon DEF Associate
<1>6. t \o d \in Seq(Nat)
  BY <1>3
<1> QED
  BY <1>5, <1>6, Zenon DEF Begins

\* connect begins to send a request, or fails before it sends anything.
LEMMA ConnectUp ==
    ASSUME NEW h, NEW w, NEW o, NEW u, NEW v, NEW wc, NEW rs,
           Upstream(h, "idle", w, o, u, v, wc, rs), NEW a \in Destinations,
           NEW n \in 0..MaxPadding
    PROVE  /\ EncodesAs(h, a) => Upstream(h, "requesting", a, FrameOf(h, a, n), u, v, wc, rs)
           /\ Upstream(h, "failed", a, o, u, v, wc, rs)
<1>1. /\ v \in Unread \cup {"failed"} /\ u = <<>> /\ wc = 0 /\ Begins(rs, wc)
      /\ v \in Unread => rs = <<>>
  BY Zenon DEF Upstream
<1>2. v \notin Serving
  BY <1>1, Zenon DEF Unread, Serving
<1>3. ASSUME EncodesAs(h, a)
      PROVE  Upstream(h, "requesting", a, FrameOf(h, a, n), u, v, wc, rs)
  <2>1. PICK f : f = FrameOf(h, a, n)
    BY Zenon
  <2>2. f \in Seq(Nat) /\ f # <<>>
    BY <1>3, <2>1, FrameSeq, Zenon
  <2>3. u \o f = f \o Stream(wc)
    <3>1. Stream(wc) = <<>>
      BY <1>1, NothingWritten, Zenon
    <3> QED
      BY <1>1, <2>2, <3>1, Nil, Zenon
  <2>4. Sent(h, "requesting", a, f, u, wc)
    BY <1>3, <2>1, <2>2, <2>3, Zenon DEF Sent
  <2> QED
    BY <1>1, <1>2, <2>1, <2>2, <2>4, Zenon DEF Upstream
<1>4. Upstream(h, "failed", a, o, u, v, wc, rs)
  BY <1>1, <1>2, Zenon DEF Upstream
<1> QED
  BY <1>3, <1>4, Zenon

\* The request, but for its end, is on its way, or all of it.
Requested(h, k) == IF k # <<>> THEN "requesting" ELSE IF h THEN "awaiting" ELSE "open"

\* A piece of the request is written.
LEMMA WriteRequestUp ==
    ASSUME NEW h, NEW w, NEW o, NEW u \in Seq(Nat), NEW v, NEW wc \in Nat, NEW rs,
           Upstream(h, "requesting", w, o, u, v, wc, rs), v \notin Serving,
           NEW b, NEW k, Cut(o, b, k)
    PROVE  Upstream(h, Requested(h, k), w, k, u \o b, v, wc, rs)
<1>0. PICK c : c = Requested(h, k)
  BY Zenon
<1>1. /\ c \in {"requesting", "awaiting", "open"} /\ (c = "requesting" => k # <<>>)
      /\ (c \in {"awaiting", "open"} => k = <<>>) /\ (~h => c # "awaiting")
  BY <1>0, Zenon DEF Requested
<1>2. wc = 0 /\ Begins(rs, wc)
  BY Zenon DEF Upstream
<1>3. ASSUME v \in Unread PROVE rs = <<>> /\ Sent(h, c, w, k, u \o b, wc)
  <2>1. rs = <<>> /\ Sent(h, "requesting", w, o, u, wc)
    BY <1>3, Zenon DEF Upstream
  <2>2. PICK n \in 0..MaxPadding : u \o o = FrameOf(h, w, n) \o Stream(wc)
    BY <2>1, Zenon DEF Sent
  <2>3. b \in Seq(Nat) /\ k \in Seq(Nat) /\ b \o k = o
    BY Zenon DEF Cut
  <2>4. Associate(u, b, k)
    BY <2>3, Associates, Zenon
  <2>5. (u \o b) \o k = FrameOf(h, w, n) \o Stream(wc)
    BY <2>2, <2>3, <2>4, Zenon DEF Associate
  <2> QED
    BY <1>1, <2>1, <2>3, <2>5, Zenon DEF Sent
<1>4. Upstream(h, c, w, k, u \o b, v, wc, rs)
  BY <1>1, <1>2, <1>3, Zenon DEF Upstream
<1> QED
  BY <1>0, <1>4, Zenon

\* The client leaves: what it wrote is still read, as far as it goes.
LEMMA LeaveStreamUp ==
    ASSUME NEW h, NEW c \in {"requesting", "awaiting", "open"}, NEW w, NEW o, NEW u, NEW v,
           NEW wc, NEW rs, Upstream(h, c, w, o, u, v, wc, rs), NEW l \in {"failed", "dropped"}
    PROVE  Upstream(h, l, w, <<>>, u, v, wc, rs)
<1>1. /\ l \notin {"idle", "requesting", "awaiting", "open"}
      /\ c \notin {"idle", "failed"}
  BY Zenon
<1>2. ASSUME v \in Unread PROVE rs = <<>> /\ Sent(h, l, w, <<>>, u, wc)
  <2>1. rs = <<>> /\ Sent(h, c, w, o, u, wc)
    BY <1>1, <1>2, Zenon DEF Upstream
  <2> QED
    BY <1>1, <2>1, Zenon DEF Sent
<1>3. v \in Serving => Flows(l, u, wc, rs)
  BY <1>1, Zenon DEF Upstream, Flows
<1> QED
  BY <1>1, <1>2, <1>3, Zenon DEF Upstream

\* A client that waits for a response has written all of its request.
LEMMA ReadResponseUp ==
    ASSUME NEW h, NEW w, NEW o, NEW u, NEW v, NEW wc, NEW rs,
           Upstream(h, "awaiting", w, o, u, v, wc, rs)
    PROVE  h /\ Upstream(h, "open", w, o, u, v, wc, rs)
<1>0. "awaiting" \notin {"idle", "failed"} /\ "open" # "requesting"
  BY Zenon
<1>1. v \in Unread => rs = <<>> /\ Sent(h, "open", w, o, u, wc)
  BY <1>0, Zenon DEF Upstream, Sent
<1>2. v \in Serving => Flows("open", u, wc, rs)
  BY Zenon DEF Upstream, Flows
<1> QED
  BY <1>1, <1>2, Zenon DEF Upstream

\* The client writes a byte behind its request.
LEMMA ClientWritesUp ==
    ASSUME NEW h, NEW w, NEW o, NEW u \in Seq(Nat), NEW v, NEW wc \in Nat, NEW rs \in Seq(Nat),
           Upstream(h, "open", w, o, u, v, wc, rs)
    PROVE  Upstream(h, "open", w, o, Append(u, Data(wc + 1)), v, wc + 1, rs)
<1>1. PICK d, x : d = <<Data(wc + 1)>> /\ x = u \o d
  BY Zenon
<1>2. d \in Seq(Nat) /\ Stream(wc + 1) = Stream(wc) \o d /\ Stream(wc) \in Seq(Nat)
  BY <1>1, StreamGrows
<1>3. Append(u, Data(wc + 1)) = x /\ x \in Seq(Nat)
  BY <1>1, <1>2, StreamGrows, AppendConcat
<1>4. ASSUME v \in Unread PROVE rs = <<>> /\ Sent(h, "open", w, o, x, wc + 1)
  <2>1. rs = <<>> /\ Sent(h, "open", w, o, u, wc)
    BY <1>4, Zenon DEF Upstream
  <2>2. PICK n \in 0..MaxPadding : u \o <<>> = FrameOf(h, w, n) \o Stream(wc)
    BY <2>1, Zenon DEF Sent
  <2>3. PICK f : f = FrameOf(h, w, n)
    BY Zenon
  <2>4. f \in Seq(Nat)
    BY <2>1, <2>3, FrameSeq, Zenon DEF Sent
  <2>5. u = f \o Stream(wc)
    BY <2>2, <2>3, Nil, Zenon
  <2>6. Associate(f, Stream(wc), d)
    BY <1>2, <2>4, Associates, Zenon
  <2>7. x \o <<>> = f \o Stream(wc + 1)
    BY <1>1, <1>2, <1>3, <2>5, <2>6, Nil, Zenon DEF Associate
  <2>8. <<>> \in Seq(Nat) /\ "open" # "requesting"
    OBVIOUS
  <2> QED
    BY <2>1, <2>3, <2>7, <2>8, Zenon DEF Sent
<1>5. ASSUME v \in Serving PROVE Flows("open", x, wc + 1, rs)
  <2>1. rs \o (u \o <<>>) = Stream(wc)
    BY <1>5, Zenon DEF Upstream, Flows
  <2>2. rs \o u = Stream(wc)
    BY <2>1, Nil, Zenon
  <2>3. Associate(rs, u, d)
    BY <1>2, Associates, Zenon
  <2>4. rs \o (x \o <<>>) = Stream(wc + 1)
    BY <1>1, <1>2, <1>3, <2>2, <2>3, Nil, Zenon DEF Associate
  <2>5. <<>> \in Seq(Nat)
    BY NilSeq, Zenon
  <2> QED
    BY <2>4, <2>5, Zenon DEF Flows
<1>6. Begins(rs, wc + 1)
  BY BeginsGrows, Zenon DEF Upstream
<1>7. Upstream(h, "open", w, o, x, v, wc + 1, rs)
  BY <1>4, <1>5, <1>6, Zenon DEF Upstream
<1> QED
  BY <1>3, <1>7, Zenon

\* The server accepts the stream and has read nothing of it.
LEMMA AcceptBiUp ==
    ASSUME NEW h, NEW c, NEW w, NEW o, NEW u, NEW wc, NEW rs,
           Upstream(h, c, w, o, u, "none", wc, rs)
    PROVE  Upstream(h, c, w, o, u, "reading", wc, rs)
BY Zenon DEF Upstream, Unread, Serving

\* The server leaves and reads nothing more.
LEMMA LeaveServerUp ==
    ASSUME NEW h, NEW c, NEW w, NEW o, NEW u, NEW v, NEW wc, NEW rs,
           Upstream(h, c, w, o, u, v, wc, rs), NEW l \in {"failed", "dropped"},
           l = "dropped" => c # "idle"
    PROVE  Upstream(h, c, w, o, <<>>, l, wc, rs)
BY Zenon DEF Upstream, Unread, Serving

\* The server goes from one stage of serving the stream to another.
LEMMA ServingUp ==
    ASSUME NEW h, NEW c, NEW w, NEW o, NEW u, NEW v \in Serving, NEW wc, NEW rs,
           Upstream(h, c, w, o, u, v, wc, rs), NEW l \in Serving, c # "idle"
    PROVE  Upstream(h, c, w, o, u, l, wc, rs)
<1>1. l \notin Unread
  BY Zenon DEF Unread, Serving
<1> QED
  BY <1>1, Zenon DEF Upstream

\* The request has come whole, and what is behind it is what the client wrote.
Complete(h, c, w, o, u, v, wc, rs) ==
    \E rest \in Seq(Nat), n \in 0..MaxPadding :
        /\ ParseAs(h, u) = Ok(Meaning(w), rest) /\ u = FrameOf(h, w, n) \o rest
        /\ w \in Destinations /\ c \notin {"idle", "requesting"}
        /\ \A l \in Serving : Upstream(h, c, w, o, rest, l, wc, rs)

\* A server that can read a request has the one the client sent, whole.
LEMMA ReadRequestUp ==
    ASSUME NEW h, NEW c, NEW w, NEW o \in Seq(Nat), NEW u \in Seq(Nat), NEW wc \in Nat, NEW rs,
           Upstream(h, c, w, o, u, "reading", wc, rs), ParseAs(h, u).status = "ok"
    PROVE  Complete(h, c, w, o, u, "reading", wc, rs)
<1>1. rs = <<>> /\ ((c \in {"idle", "failed"} /\ u = <<>>) \/ Sent(h, c, w, o, u, wc))
  BY Zenon DEF Upstream, Unread
<1>2. u # <<>>
  BY NothingArrived, Outcomes, Zenon
<1>3. w \in Destinations /\ EncodesAs(h, w)
  BY <1>1, <1>2, Zenon DEF Sent
<1>4. PICK n \in 0..MaxPadding, t \in Seq(Nat) :
         /\ u \o t = FrameOf(h, w, n) \o Stream(wc)
         /\ c = "requesting" => t = o
         /\ c \in {"awaiting", "open"} => t = <<>>
  BY <1>1, <1>2, Zenon DEF Sent
<1>5. Stream(wc) \in Seq(Nat)
  BY StreamGrows, Zenon
<1>6. Reads(ParseAs(h, u), u, t, FrameOf(h, w, n), Meaning(w), Stream(wc))
  BY <1>3, <1>4, <1>5, FrameReads, Zenon
<1>7. PICK rest \in Seq(Nat) :
         /\ u = FrameOf(h, w, n) \o rest /\ rest \o t = Stream(wc)
         /\ ParseAs(h, u) = Ok(Meaning(w), rest)
  BY <1>6, Outcomes, Zenon DEF Reads
<1>8. c # "idle"
  BY <1>2, Zenon DEF Upstream
<1>9. c # "requesting"
  <2>1. SUFFICES ASSUME c = "requesting" PROVE FALSE
    BY Zenon
  <2>2. wc = 0 /\ o # <<>>
    BY <2>1, Zenon DEF Upstream
  <2>3. rest \o t = <<>>
    BY <1>7, <2>2, NothingWritten, Zenon
  <2>4. t = <<>>
    BY <2>3, NothingSplits, Zenon
  <2> QED
    BY <1>4, <2>1, <2>2, <2>4, Zenon
<1>10. ASSUME NEW l \in Serving PROVE Upstream(h, c, w, o, rest, l, wc, rs)
  <2>1. rest \o t \in Seq(Nat)
    BY <1>5, <1>7, Zenon
  <2>2. rs \o (rest \o t) = Stream(wc)
    BY <1>1, <1>7, <2>1, Nil, Zenon
  <2>3. Flows(c, rest, wc, rs)
    BY <1>4, <2>2, Zenon DEF Flows
  <2>4. l \notin Unread
    BY Zenon DEF Unread, Serving
  <2>5. Begins(rs, wc) /\ (~h => c # "awaiting")
    BY Zenon DEF Upstream
  <2> QED
    BY <1>8, <1>9, <2>3, <2>4, <2>5 DEF Upstream
<1> QED
  BY <1>3, <1>7, <1>8, <1>9, <1>10, Zenon DEF Complete

\* The server reads a byte from behind the request.
LEMMA ServerReadsUp ==
    ASSUME NEW h, NEW c, NEW w, NEW o, NEW u \in Seq(Nat), NEW v \in Serving, NEW wc,
           NEW rs \in Seq(Nat), Upstream(h, c, w, o, u, v, wc, rs), c # "idle", u # <<>>
    PROVE  Upstream(h, c, w, o, Tail(u), v, wc, Append(rs, Head(u)))
<1>1. PICK b, k, a : b = <<Head(u)>> /\ k = Tail(u) /\ a = rs \o b
  BY Zenon
<1>2. Head(u) \in Nat /\ b \in Seq(Nat) /\ k \in Seq(Nat) /\ b \o k = u
  BY <1>1, HeadCut, Zenon DEF Cut
<1>3. Append(rs, Head(u)) = a /\ a \in Seq(Nat)
  BY <1>1, <1>2, AppendConcat
<1>4. PICK t \in Seq(Nat) :
         rs \o (u \o t) = Stream(wc) /\ (c \in {"awaiting", "open"} => t = <<>>)
  BY Zenon DEF Upstream, Flows
<1>5. k \o t \in Seq(Nat)
  BY <1>2
<1>6. Associate(b, k, t) /\ Associate(rs, b, k \o t)
  BY <1>2, <1>5, Associates, Zenon
<1>7. a \o (k \o t) = Stream(wc)
  BY <1>1, <1>2, <1>4, <1>6, Zenon DEF Associate
<1>8. Flows(c, k, wc, a) /\ Begins(a, wc)
  BY <1>4, <1>5, <1>7, Zenon DEF Flows, Begins
<1>9. v \notin Unread
  BY Zenon DEF Unread, Serving
<1>10. Upstream(h, c, w, o, k, v, wc, a)
  BY <1>8, <1>9, Zenon DEF Upstream
<1> QED
  BY <1>1, <1>3, <1>10, Zenon

(***************************************************************************)
(* What each step does to the bytes on their way down.                     *)
(***************************************************************************)
LEMMA ConnectDown ==
    ASSUME NEW h, NEW v \in Unread \cup {"failed"}, NEW r, NEW d, NEW ws, NEW rc,
           Downstream(h, "idle", v, r, d, ws, rc), NEW l \in {"requesting", "failed"}
    PROVE  Downstream(h, l, v, r, d, ws, rc)
<1>1. d = <<>> /\ r = <<>> /\ ws = 0 /\ rc = <<>> /\ Begins(rc, ws)
  BY Zenon DEF Downstream
<1>2. rc \o d = Stream(ws)
  BY <1>1, NothingWritten
<1>3. v \notin {"responding", "refusing"}
  BY Zenon DEF Unread
<1> QED
  BY <1>1, <1>2, <1>3, Zenon DEF Downstream

\* A client that sends its request has read nothing.
LEMMA WriteRequestDown ==
    ASSUME NEW h, NEW v, NEW r, NEW d, NEW ws, NEW rc, NEW k,
           Downstream(h, "requesting", v, r, d, ws, rc)
    PROVE  Downstream(h, Requested(h, k), v, r, d, ws, rc)
<1>0. PICK c : c = Requested(h, k)
  BY Zenon
<1>1. c \in {"requesting", "awaiting"} \/ (~h /\ c = "open")
  BY <1>0, Zenon DEF Requested
<1>2. ~h /\ c = "awaiting" => FALSE
  BY <1>0, Zenon DEF Requested
<1>3. Downstream(h, c, v, r, d, ws, rc)
  BY <1>1, <1>2, Zenon DEF Downstream
<1> QED
  BY <1>0, <1>3, Zenon

\* The client leaves and reads nothing more.
LEMMA LeaveStreamDown ==
    ASSUME NEW h, NEW c \in {"requesting", "awaiting", "open"}, NEW v, NEW r, NEW d, NEW ws,
           NEW rc, Downstream(h, c, v, r, d, ws, rc), NEW l \in {"failed", "dropped"}
    PROVE  Downstream(h, l, v, r, <<>>, ws, rc)
BY Zenon DEF Downstream

\* A client that reads a response of status 0 has the one of a server that serves
\* the stream, whole, and leaves what is behind it.
LEMMA ReadResponseDown ==
    ASSUME NEW h, h, NEW v, NEW r \in Seq(Nat), NEW d \in Seq(Nat), NEW ws \in Nat, NEW rc,
           Downstream(h, "awaiting", v, r, d, ws, rc), NEW p, p = ParseResponse(d),
           p.status = "ok", p.value = 0
    PROVE  p.rest \in Seq(Nat) /\ Downstream(h, "open", v, r, p.rest, ws, rc)
<1>1. rc = <<>> /\ ((v \in Unread \cup {"failed"} /\ d = <<>>) \/ Answered(v, r, d, ws))
  BY Zenon DEF Downstream
<1>2. d # <<>>
  BY NothingArrived, Outcomes, Zenon
<1>3. v \in Serving \cup {"dropped"} /\ Answered(v, r, d, ws)
  BY <1>1, <1>2, Zenon DEF Answered
<1>4. PICK n \in 0..MaxPadding, status \in {0, 1} :
         /\ d \o r = Response(status, n) \o Stream(ws)
         /\ v \in {"responding", "queued", "accepted"} => status = 0
         /\ v = "refusing" => status = 1
         /\ v \in {"responding", "refusing"} => ws = 0
         /\ v \in {"queued", "accepted", "dropped"} => r = <<>>
  BY <1>3, Zenon DEF Answered
<1>5. Stream(ws) \in Seq(Nat)
  BY StreamGrows, Zenon
<1>6. Reads(p, d, r, Response(status, n), status, Stream(ws))
  BY <1>4, <1>5, ResponseReads, Zenon
<1>7. PICK rest \in Seq(Nat) : rest \o r = Stream(ws) /\ p = Ok(status, rest)
  BY <1>6, Outcomes, Zenon DEF Reads
<1>8. p.rest = rest /\ status = 0
  <2>1. PICK q : q = Ok(status, rest)
    BY Zenon
  <2>2. q.rest = rest /\ q.value = status
    BY <2>1, Zenon DEF Ok
  <2>3. q = p
    BY <1>7, <2>1, Zenon
  <2> QED
    BY <2>2, <2>3, Zenon
<1>9. v \notin {"responding", "refusing"}
  <2>1. v # "refusing"
    BY <1>4, <1>8
  <2>2. ASSUME v = "responding" PROVE FALSE
    <3>1. r # <<>> /\ ws = 0
      BY <1>4, <2>2, Zenon DEF Downstream
    <3>2. rest \o r = <<>>
      BY <1>7, <3>1, NothingWritten, Zenon
    <3> QED
      BY <3>1, <3>2, NothingSplits, Zenon
  <2> QED
    BY <2>1, <2>2, Zenon
<1>10. v \in {"queued", "accepted", "dropped"} /\ v \notin Unread
  BY <1>3, <1>9, Zenon DEF Serving, Unread
<1>11. rc \o rest = Stream(ws)
  BY <1>1, <1>4, <1>7, <1>10, Nil, Zenon
<1>12. Begins(rc, ws)
  BY Zenon DEF Downstream
<1>13. Downstream(h, "open", v, r, rest, ws, rc)
  BY <1>9, <1>10, <1>11, <1>12 DEF Downstream
<1> QED
  BY <1>8, <1>13, Zenon

\* The client reads a byte from behind the response.
LEMMA ClientReadsDown ==
    ASSUME NEW h, NEW v, NEW r, NEW d \in Seq(Nat), NEW ws \in Nat, NEW rc \in Seq(Nat),
           Downstream(h, "open", v, r, d, ws, rc), d # <<>>
    PROVE  Downstream(h, "open", v, r, Tail(d), ws, Append(rc, Head(d)))
<1>1. PICK b, k, a : b = <<Head(d)>> /\ k = Tail(d) /\ a = rc \o b
  BY Zenon
<1>2. Head(d) \in Nat /\ b \in Seq(Nat) /\ k \in Seq(Nat) /\ b \o k = d
  BY <1>1, HeadCut, Zenon DEF Cut
<1>3. Append(rc, Head(d)) = a
  BY <1>1, <1>2, AppendConcat, Zenon
<1>4. rc \o d = Stream(ws) /\ v \notin Unread
  BY Zenon DEF Downstream
<1>5. Associate(rc, b, k)
  BY <1>2, Associates, Zenon
<1>6. a \o k = Stream(ws)
  BY <1>1, <1>2, <1>4, <1>5, Zenon DEF Associate
<1>7. Begins(a, ws)
  BY <1>2, <1>6, Zenon DEF Begins
<1>8. Downstream(h, "open", v, r, k, ws, a)
  BY <1>4, <1>6, <1>7, Zenon DEF Downstream
<1> QED
  BY <1>1, <1>3, <1>8, Zenon

\* The server accepts the stream and has sent nothing.
LEMMA AcceptBiDown ==
    ASSUME NEW h, NEW c, NEW r, NEW d, NEW ws, NEW rc, Downstream(h, c, "none", r, d, ws, rc)
    PROVE  Downstream(h, c, "reading", r, d, ws, rc)
<1>1. /\ "none" \in Unread /\ "reading" \in Unread
      /\ "none" \notin Serving \cup {"dropped"}
  BY Zenon DEF Unread, Serving
<1>2. ~Answered("none", r, d, ws)
  BY <1>1, Zenon DEF Answered
<1> QED
  BY <1>1, <1>2, Zenon DEF Downstream

\* The server gives up a request and has sent nothing.
LEMMA RequestFailsDown ==
    ASSUME NEW h, NEW c, NEW r, NEW d, NEW ws, NEW rc, Downstream(h, c, "reading", r, d, ws, rc)
    PROVE  Downstream(h, c, "failed", <<>>, d, ws, rc)
<1>1. "reading" \in Unread /\ "failed" \notin Unread
  BY Zenon DEF Unread
<1> QED
  BY <1>1, Zenon DEF Downstream

\* The server makes its response.
LEMMA ReadRequestDown ==
    ASSUME NEW h, NEW c, c \notin {"idle", "requesting"}, NEW r, NEW d, NEW ws, NEW rc,
           Downstream(h, c, "reading", r, d, ws, rc)
    PROVE  /\ \A status \in {0, 1}, n \in 0..MaxPadding :
                h => Downstream(h, c, IF status = 0 THEN "responding" ELSE "refusing",
                                Response(status, n), d, ws, rc)
           /\ ~h => Downstream(h, c, "queued", r, d, ws, rc)
<1>1. "reading" \in Unread /\ "queued" \notin Unread
  BY Zenon DEF Unread
<1>2. d = <<>> /\ r = <<>> /\ ws = 0 /\ rc = <<>> /\ Begins(rc, ws)
  BY <1>1, Zenon DEF Downstream
<1>3. ASSUME NEW status \in {0, 1}, NEW n \in 0..MaxPadding, h
      PROVE  Downstream(h, c, IF status = 0 THEN "responding" ELSE "refusing",
                        Response(status, n), d, ws, rc)
  <2>1. PICK v, f : v = (IF status = 0 THEN "responding" ELSE "refusing") /\ f = Response(status, n)
    BY Zenon
  <2>2. f \in Seq(Nat) /\ f # <<>>
    BY <2>1, ResponseSeq, Zenon
  <2>3. /\ v \in {"responding", "refusing"} /\ (v = "responding" => status = 0)
        /\ (v = "refusing" => status = 1)
    BY <2>1, Zenon
  <2>4. v \in Serving /\ v \notin Unread /\ v \notin {"queued", "accepted", "dropped"}
    BY <2>3, Zenon DEF Serving, Unread
  <2>5. d \o f = Response(status, n) \o Stream(ws)
    BY <1>2, <2>1, <2>2, NothingWritten, Nil, Zenon
  <2>6. Answered(v, f, d, ws)
    BY <1>2, <2>3, <2>4, <2>5, Zenon DEF Answered
  <2>7. c # "open"
    BY <1>3, Zenon DEF Downstream
  <2>8. Downstream(h, c, v, f, d, ws, rc)
    BY <1>2, <1>3, <2>2, <2>4, <2>6, <2>7, Zenon DEF Downstream
  <2> QED
    BY <2>1, <2>8, Zenon
<1>4. ~h => Downstream(h, c, "queued", r, d, ws, rc)
  BY <1>1, <1>2, Zenon DEF Downstream
<1> QED
  BY <1>3, <1>4, Zenon

\* A server that has written its response whole goes on to serve the stream.
Responded(v, k) == IF k = <<>> /\ v = "responding" THEN "queued" ELSE v

\* A piece of the response is written.
LEMMA WriteResponseDown ==
    ASSUME NEW h, NEW c, c \notin {"idle", "requesting"}, NEW v \in {"responding", "refusing"},
           NEW r, NEW d \in Seq(Nat), NEW ws, NEW rc, Downstream(h, c, v, r, d, ws, rc),
           NEW b, NEW k, Cut(r, b, k)
    PROVE  Downstream(h, c, Responded(v, k), k, d \o b, ws, rc)
<1>0. PICK l : l = Responded(v, k)
  BY Zenon
<1>1. /\ l \in {"responding", "refusing", "queued"} /\ (l = "responding" => v = l /\ k # <<>>)
      /\ (l = "queued" => k = <<>> /\ v = "responding") /\ (l = "refusing" => v = l)
  BY <1>0, Zenon DEF Responded
<1>2. v \in Serving /\ v \notin Unread /\ l \in Serving /\ l \notin Unread
  BY <1>1, Zenon DEF Serving, Unread
<1>3. h /\ c # "open" /\ Begins(rc, ws)
  BY Zenon DEF Downstream
<1>4. ASSUME c = "awaiting" PROVE rc = <<>> /\ Answered(l, k, d \o b, ws)
  <2>1. rc = <<>> /\ Answered(v, r, d, ws)
    BY <1>2, <1>3, <1>4, Zenon DEF Downstream
  <2>2. PICK n \in 0..MaxPadding, status \in {0, 1} :
           /\ d \o r = Response(status, n) \o Stream(ws)
           /\ v = "responding" => status = 0
           /\ v = "refusing" => status = 1
           /\ ws = 0
    BY <2>1, Zenon DEF Answered
  <2>3. b \in Seq(Nat) /\ k \in Seq(Nat) /\ b \o k = r
    BY Zenon DEF Cut
  <2>4. Associate(d, b, k)
    BY <2>3, Associates, Zenon
  <2>5. (d \o b) \o k = Response(status, n) \o Stream(ws)
    BY <2>2, <2>3, <2>4, Zenon DEF Associate
  <2>6. /\ l \in {"responding", "queued", "accepted"} => status = 0
        /\ l = "refusing" => status = 1
        /\ l \in {"queued", "accepted", "dropped"} => k = <<>>
    BY <1>1, <2>2, Zenon
  <2> QED
    BY <1>2, <2>1, <2>2, <2>5, <2>6, Zenon DEF Answered
<1>5. Downstream(h, c, l, k, d \o b, ws, rc)
  BY <1>1, <1>2, <1>3, <1>4 DEF Downstream
<1> QED
  BY <1>0, <1>5, Zenon

\* The client has left, and the server cannot write its response.
LEMMA ResponseFailsDown ==
    ASSUME NEW h, NEW c \in {"dropped", "failed"}, NEW v, NEW r, NEW d, NEW ws, NEW rc,
           Downstream(h, c, v, r, d, ws, rc)
    PROVE  Downstream(h, c, "failed", <<>>, d, ws, rc)
BY Zenon DEF Downstream, Unread

\* The server drops the stream, and what it wrote is still read.
LEMMA DropServerDown ==
    ASSUME NEW h, NEW c, c \notin {"idle", "requesting"}, NEW v, NEW r, NEW d, NEW ws, NEW rc,
           Downstream(h, c, v, r, d, ws, rc),
           (v = "refusing" /\ r = <<>>) \/ v \in {"queued", "accepted"}
    PROVE  Downstream(h, c, "dropped", <<>>, d, ws, rc)
<1>1. v \notin Unread \cup {"failed"} /\ "dropped" \notin Unread
  BY Zenon DEF Unread
<1>2. ASSUME Answered(v, r, d, ws) PROVE Answered("dropped", <<>>, d, ws)
  <2>1. PICK n \in 0..MaxPadding, status \in {0, 1} :
           d \o r = Response(status, n) \o Stream(ws) /\ r = <<>>
    BY <1>2, Zenon DEF Answered
  <2>2. "dropped" \notin {"responding", "refusing", "queued", "accepted"}
    BY Zenon
  <2> QED
    BY <2>1, <2>2, Zenon DEF Answered
<1>3. h /\ c = "awaiting" => rc = <<>> /\ Answered("dropped", <<>>, d, ws)
  BY <1>1, <1>2, Zenon DEF Downstream
<1>4. (c = "open" => rc \o d = Stream(ws)) /\ Begins(rc, ws)
  BY Zenon DEF Downstream
<1> QED
  BY <1>1, <1>3, <1>4, Zenon DEF Downstream

\* The stream goes to the server's application.
LEMMA AcceptStreamDown ==
    ASSUME NEW h, NEW c, c \notin {"idle", "requesting"}, NEW r, NEW d, NEW ws, NEW rc,
           Downstream(h, c, "queued", r, d, ws, rc)
    PROVE  Downstream(h, c, "accepted", r, d, ws, rc)
<1>1. "queued" \notin Unread \cup {"failed"} /\ "accepted" \notin Unread /\ "accepted" \in Serving
  BY Zenon DEF Unread, Serving
<1>2. ASSUME Answered("queued", r, d, ws) PROVE Answered("accepted", r, d, ws)
  BY <1>1, <1>2, Zenon DEF Answered
<1>3. h /\ c = "awaiting" => rc = <<>> /\ Answered("accepted", r, d, ws)
  BY <1>1, <1>2, Zenon DEF Downstream
<1>4. (c = "open" => rc \o d = Stream(ws)) /\ Begins(rc, ws)
  BY Zenon DEF Downstream
<1> QED
  BY <1>1, <1>3, <1>4, Zenon DEF Downstream

\* The server writes a byte behind its response.
LEMMA ServerWritesDown ==
    ASSUME NEW h, NEW c, c \notin {"idle", "requesting"}, NEW r, NEW d \in Seq(Nat),
           NEW ws \in Nat, NEW rc \in Seq(Nat), Downstream(h, c, "accepted", r, d, ws, rc)
    PROVE  Downstream(h, c, "accepted", r, Append(d, Data(ws + 1)), ws + 1, rc)
<1>0. "accepted" \notin Unread \cup {"failed"} /\ "accepted" \in Serving
  BY Zenon DEF Unread, Serving
<1>1. PICK b, x : b = <<Data(ws + 1)>> /\ x = d \o b
  BY Zenon
<1>2. b \in Seq(Nat) /\ Stream(ws + 1) = Stream(ws) \o b /\ Stream(ws) \in Seq(Nat)
  BY <1>1, StreamGrows
<1>3. Append(d, Data(ws + 1)) = x /\ x \in Seq(Nat)
  BY <1>1, <1>2, StreamGrows, AppendConcat
<1>4. ASSUME h, c = "awaiting" PROVE rc = <<>> /\ Answered("accepted", r, x, ws + 1)
  <2>1. rc = <<>> /\ Answered("accepted", r, d, ws)
    BY <1>0, <1>4, Zenon DEF Downstream
  <2>2. PICK n \in 0..MaxPadding, status \in {0, 1} :
           d \o r = Response(status, n) \o Stream(ws) /\ status = 0 /\ r = <<>>
    BY <2>1, Zenon DEF Answered
  <2>3. PICK f : f = Response(status, n)
    BY Zenon
  <2>4. f \in Seq(Nat)
    BY <2>3, ResponseSeq, Zenon
  <2>5. Associate(f, Stream(ws), b)
    BY <1>2, <2>4, Associates, Zenon
  <2>6. x \o r = f \o Stream(ws + 1)
    BY <1>1, <1>2, <1>3, <2>2, <2>3, <2>5, Nil, Zenon DEF Associate
  <2>7. "accepted" \notin {"responding", "refusing"}
    BY Zenon
  <2> QED
    BY <1>0, <2>1, <2>2, <2>3, <2>6, <2>7, Zenon DEF Answered
<1>5. ASSUME c = "open" PROVE rc \o x = Stream(ws + 1)
  <2>1. rc \o d = Stream(ws)
    BY <1>5, Zenon DEF Downstream
  <2>2. Associate(rc, d, b)
    BY <1>2, Associates, Zenon
  <2> QED
    BY <1>1, <1>2, <2>1, <2>2, Zenon DEF Associate
<1>6. Begins(rc, ws + 1)
  BY BeginsGrows, Zenon DEF Downstream
<1>7. Downstream(h, c, "accepted", r, x, ws + 1, rc)
  BY <1>0, <1>4, <1>5, <1>6 DEF Downstream
<1> QED
  BY <1>3, <1>7, Zenon

(***************************************************************************)
(* A step of a stream gives its variables new values and leaves the other  *)
(* streams alone.                                                          *)
(***************************************************************************)
Moves(s, c, w, o, u, v, g, r, d, wc, ws, rc, rs) ==
    /\ framing' = framing
    /\ client' = [client EXCEPT ![s] = c] /\ want' = [want EXCEPT ![s] = w]
    /\ out' = [out EXCEPT ![s] = o] /\ up' = [up EXCEPT ![s] = u]
    /\ server' = [server EXCEPT ![s] = v] /\ got' = [got EXCEPT ![s] = g]
    /\ serverOut' = [serverOut EXCEPT ![s] = r] /\ down' = [down EXCEPT ![s] = d]
    /\ written' = [written EXCEPT ![s] = [client |-> wc, server |-> ws]]
    /\ read' = [read EXCEPT ![s] = [client |-> rc, server |-> rs]]

StreamTypes(c, w, o, u, v, g, r, d, wc, ws, rc, rs) ==
    /\ c \in ClientLabel /\ v \in ServerLabel
    /\ w \in Destinations \cup {Nowhere} /\ g \in Destinations \cup {Nowhere}
    /\ o \in Seq(Nat) /\ u \in Seq(Nat) /\ r \in Seq(Nat) /\ d \in Seq(Nat)
    /\ wc \in Nat /\ ws \in Nat /\ rc \in Seq(Nat) /\ rs \in Seq(Nat)

\* What a step that leaves a variable alone writes into it.
Untouched(s) ==
    /\ client = [client EXCEPT ![s] = client[s]] /\ want = [want EXCEPT ![s] = want[s]]
    /\ out = [out EXCEPT ![s] = out[s]] /\ up = [up EXCEPT ![s] = up[s]]
    /\ server = [server EXCEPT ![s] = server[s]] /\ got = [got EXCEPT ![s] = got[s]]
    /\ serverOut = [serverOut EXCEPT ![s] = serverOut[s]] /\ down = [down EXCEPT ![s] = down[s]]
    /\ written = [written EXCEPT ![s] = [client |-> written[s].client,
                                         server |-> written[s].server]]
    /\ read = [read EXCEPT ![s] = [client |-> read[s].client, server |-> read[s].server]]

\* What the invariant says of one stream.
LEMMA StreamFacts ==
    ASSUME TcpInv, NEW s \in Streams
    PROVE  /\ StreamTypes(client[s], want[s], out[s], up[s], server[s], got[s], serverOut[s],
                          down[s], written[s].client, written[s].server, read[s].client,
                          read[s].server)
           /\ Understands(client[s], want[s], server[s], got[s])
           /\ Upstream(Hysteria2, client[s], want[s], out[s], up[s], server[s],
                       written[s].client, read[s].server)
           /\ Downstream(Hysteria2, client[s], server[s], serverOut[s], down[s],
                         written[s].server, read[s].client)
           /\ Untouched(s)
<1>1. TcpShape
  BY Zenon DEF TcpInv
<1>2. Untouched(s)
  BY <1>1, Zenon DEF TcpShape, Untouched
<1>3. /\ client[s] \in ClientLabel /\ server[s] \in ServerLabel
      /\ want[s] \in Destinations \cup {Nowhere} /\ got[s] \in Destinations \cup {Nowhere}
  BY <1>1, Zenon DEF TcpShape
<1>4. out[s] \in Seq(Nat) /\ up[s] \in Seq(Nat) /\ serverOut[s] \in Seq(Nat) /\ down[s] \in Seq(Nat)
  BY <1>1, Zenon DEF TcpShape
<1>5. /\ written[s].client \in Nat /\ written[s].server \in Nat
      /\ read[s].client \in Seq(Nat) /\ read[s].server \in Seq(Nat)
  BY <1>1, Zenon DEF TcpShape
<1>6. StreamInv(s)
  BY Zenon DEF TcpInv
<1> QED
  BY <1>2, <1>3, <1>4, <1>5, <1>6, Zenon DEF StreamInv, StreamTypes

\* A step of one stream, from what holds of the new values.
LEMMA StreamMoved ==
    ASSUME TcpInv, NEW s \in Streams,
           NEW c, NEW w, NEW o, NEW u, NEW v, NEW g, NEW r, NEW d, NEW wc, NEW ws, NEW rc, NEW rs,
           Moves(s, c, w, o, u, v, g, r, d, wc, ws, rc, rs),
           StreamTypes(c, w, o, u, v, g, r, d, wc, ws, rc, rs),
           Understands(c, w, v, g), Upstream(Hysteria2, c, w, o, u, v, wc, rs),
           Downstream(Hysteria2, c, v, r, d, ws, rc)
    PROVE  TcpInv'
<1>0. TcpShape /\ \A q \in Streams : StreamInv(q)
  BY Zenon DEF TcpInv
<1>1. /\ client' \in [Streams -> ClientLabel] /\ server' \in [Streams -> ServerLabel]
  BY <1>0, Zenon DEF TcpShape, Moves, StreamTypes
<1>2. /\ want' \in [Streams -> Destinations \cup {Nowhere}]
      /\ got' \in [Streams -> Destinations \cup {Nowhere}]
  BY <1>0, Zenon DEF TcpShape, Moves, StreamTypes
<1>3. /\ out' \in [Streams -> Seq(Nat)] /\ up' \in [Streams -> Seq(Nat)]
  BY <1>0, Zenon DEF TcpShape, Moves, StreamTypes
<1>4. /\ serverOut' \in [Streams -> Seq(Nat)] /\ down' \in [Streams -> Seq(Nat)]
  BY <1>0, Zenon DEF TcpShape, Moves, StreamTypes
<1>5. written' \in [Streams -> [client : Nat, server : Nat]]
  BY <1>0, Zenon DEF TcpShape, Moves, StreamTypes
<1>6. read' \in [Streams -> [client : Seq(Nat), server : Seq(Nat)]]
  BY <1>0, Zenon DEF TcpShape, Moves, StreamTypes
<1>7. TcpShape'
  BY <1>1, <1>2, <1>3, <1>4, <1>5, <1>6, Zenon DEF TcpShape
<1>8. Hysteria2' = Hysteria2
  BY Zenon DEF Moves, Hysteria2
<1>9. ASSUME NEW q \in Streams PROVE StreamInv(q)'
  <2>1. CASE q = s
    <3>1. client'[s] = c /\ want'[s] = w /\ out'[s] = o /\ up'[s] = u
      BY <1>0, Zenon DEF TcpShape, Moves
    <3>2. server'[s] = v /\ got'[s] = g /\ serverOut'[s] = r /\ down'[s] = d
      BY <1>0, Zenon DEF TcpShape, Moves
    <3>3. /\ written'[s].client = wc /\ written'[s].server = ws
          /\ read'[s].client = rc /\ read'[s].server = rs
      BY <1>0, Zenon DEF TcpShape, Moves
    <3> QED
      BY <1>8, <2>1, <3>1, <3>2, <3>3, Zenon DEF StreamInv
  <2>2. CASE q # s
    <3>1. client'[q] = client[q] /\ want'[q] = want[q] /\ out'[q] = out[q] /\ up'[q] = up[q]
      BY <1>0, <2>2, Zenon DEF TcpShape, Moves
    <3>2. /\ server'[q] = server[q] /\ got'[q] = got[q] /\ serverOut'[q] = serverOut[q]
          /\ down'[q] = down[q]
      BY <1>0, <2>2, Zenon DEF TcpShape, Moves
    <3>3. written'[q] = written[q] /\ read'[q] = read[q]
      BY <1>0, <2>2, Zenon DEF TcpShape, Moves
    <3> QED
      BY <1>0, <1>8, <3>1, <3>2, <3>3, Zenon DEF StreamInv
  <2> QED
    BY <2>1, <2>2, Zenon
<1> QED
  BY <1>7, <1>9, Zenon DEF TcpInv

(***************************************************************************)
(* Every action preserves the invariant.                                   *)
(***************************************************************************)
\* A meaning is a destination.
LEMMA MeaningFacts ==
    ASSUME NEW a \in Destinations
    PROVE  Meaning(a) \in Destinations
<1>1. a.host \in Hosts /\ a.port \in Ports
  BY Zenon DEF Destinations
<1>2. Canonical[a.host] \in Hosts
  BY <1>1, WireAssumption, Zenon
<1> QED
  BY <1>1, <1>2 DEF Meaning, Destinations

\* connect encodes a request for the destination, or fails.
LEMMA ConnectKeeps ==
    ASSUME TcpInv, NEW s \in Streams, NEW a \in Destinations, NEW padding \in Paddings,
           Connect(s, a, padding)
    PROVE  TcpInv'
<1>1. client[s] = "idle" /\ padding \in 0..MaxPadding
  BY TcpStreamsAssumption, Zenon DEF Connect
<1>2. /\ StreamTypes("idle", want[s], out[s], up[s], server[s], got[s], serverOut[s],
                     down[s], written[s].client, written[s].server, read[s].client,
                     read[s].server)
      /\ Understands("idle", want[s], server[s], got[s])
      /\ Upstream(Hysteria2, "idle", want[s], out[s], up[s], server[s],
                  written[s].client, read[s].server)
      /\ Downstream(Hysteria2, "idle", server[s], serverOut[s], down[s],
                    written[s].server, read[s].client)
      /\ Untouched(s)
  BY <1>1, StreamFacts, Zenon
<1>3. server[s] \in Unread \cup {"failed"} /\ got[s] = Nowhere
  BY <1>2, Zenon DEF Upstream, Understands
<1>4. server[s] \notin Serving \cup {"dropped"}
  BY <1>3, Zenon DEF Unread, Serving
<1>5. \A l \in ClientLabel : Understands(l, a, server[s], got[s])
  BY <1>3, <1>4, Zenon DEF Understands
<1>6. /\ EncodesAs(Hysteria2, a) =>
           Upstream(Hysteria2, "requesting", a, FrameOf(Hysteria2, a, padding), up[s], server[s],
                    written[s].client, read[s].server)
      /\ Upstream(Hysteria2, "failed", a, out[s], up[s], server[s], written[s].client,
                  read[s].server)
  BY <1>1, <1>2, ConnectUp, Zenon
<1>7. \A l \in {"requesting", "failed"} :
          Downstream(Hysteria2, l, server[s], serverOut[s], down[s], written[s].server,
                     read[s].client)
  BY <1>2, <1>3, ConnectDown, Zenon
<1>8. "requesting" \in ClientLabel /\ "failed" \in ClientLabel
  BY Zenon DEF ClientLabel
<1>9. Encodes(a) <=> EncodesAs(Hysteria2, a)
  BY Zenon DEF Encodes, EncodesAs
<1>10. CASE Encodes(a)
  <2>1. PICK f : f = FrameOf(Hysteria2, a, padding)
    BY Zenon
  <2>2. f \in Seq(Nat)
    BY <1>1, <1>9, <1>10, <2>1, FrameSeq, Zenon
  <2>3. StreamTypes("requesting", a, f, up[s], server[s], got[s], serverOut[s], down[s],
                    written[s].client, written[s].server, read[s].client, read[s].server)
    BY <1>2, <1>8, <2>2, Zenon DEF StreamTypes
  <2>4. Moves(s, "requesting", a, f, up[s], server[s], got[s], serverOut[s], down[s],
              written[s].client, written[s].server, read[s].client, read[s].server)
    BY <1>2, <1>10, <2>1, Zenon DEF Moves, Connect, Untouched, FrameOf, serverVars, dataVars
  <2>5. /\ Upstream(Hysteria2, "requesting", a, f, up[s], server[s], written[s].client,
                    read[s].server)
        /\ Understands("requesting", a, server[s], got[s])
        /\ Downstream(Hysteria2, "requesting", server[s], serverOut[s], down[s],
                      written[s].server, read[s].client)
    BY <1>5, <1>6, <1>7, <1>8, <1>9, <1>10, <2>1, Zenon
  <2> QED
    BY <2>3, <2>4, <2>5, StreamMoved, Zenon
<1>11. CASE ~Encodes(a)
  <2>1. StreamTypes("failed", a, out[s], up[s], server[s], got[s], serverOut[s], down[s],
                    written[s].client, written[s].server, read[s].client, read[s].server)
    BY <1>2, <1>8, Zenon DEF StreamTypes
  <2>2. Moves(s, "failed", a, out[s], up[s], server[s], got[s], serverOut[s], down[s],
              written[s].client, written[s].server, read[s].client, read[s].server)
    BY <1>2, <1>11, Zenon DEF Moves, Connect, Untouched, serverVars, dataVars
  <2>3. Understands("failed", a, server[s], got[s])
        /\ Downstream(Hysteria2, "failed", server[s], serverOut[s], down[s],
                      written[s].server, read[s].client)
    BY <1>5, <1>7, <1>8, Zenon
  <2> QED
    BY <1>6, <2>1, <2>2, <2>3, StreamMoved, Zenon
<1> QED
  BY <1>10, <1>11, Zenon

\* The client writes a piece of the request.
LEMMA WriteRequestKeeps ==
    ASSUME TcpInv, NEW s \in Streams, NEW n \in Piece(out[s]), WriteRequest(s, n)
    PROVE  TcpInv'
<1>1. client[s] = "requesting"
  BY Zenon DEF WriteRequest
<1>2. /\ StreamTypes("requesting", want[s], out[s], up[s], server[s], got[s], serverOut[s],
                     down[s], written[s].client, written[s].server, read[s].client,
                     read[s].server)
      /\ Understands("requesting", want[s], server[s], got[s])
      /\ Upstream(Hysteria2, "requesting", want[s], out[s], up[s], server[s],
                  written[s].client, read[s].server)
      /\ Downstream(Hysteria2, "requesting", server[s], serverOut[s], down[s],
                    written[s].server, read[s].client)
      /\ Untouched(s)
  BY <1>1, StreamFacts, Zenon
<1>3. out[s] \in Seq(Nat) /\ n \in 1..Len(out[s]) /\ up[s] \in Seq(Nat) /\ written[s].client \in Nat
  BY <1>2, Zenon DEF StreamTypes, Piece
<1>4. PICK b, k, c : /\ b = SubSeq(out[s], 1, n) /\ k = SubSeq(out[s], n + 1, Len(out[s]))
                     /\ c = Requested(Hysteria2, k)
  BY Zenon
<1>5. Cut(out[s], b, k) /\ ((n < Len(out[s])) <=> (k # <<>>))
  BY <1>3, <1>4, PieceCut, Zenon
<1>6. server[s] \notin Serving \cup {"dropped"}
  BY <1>2, Zenon DEF Understands
<1>7. Upstream(Hysteria2, c, want[s], k, up[s] \o b, server[s], written[s].client, read[s].server)
  BY <1>2, <1>3, <1>4, <1>5, <1>6, WriteRequestUp, Zenon
<1>8. Downstream(Hysteria2, c, server[s], serverOut[s], down[s], written[s].server, read[s].client)
  BY <1>2, <1>4, WriteRequestDown, Zenon
<1>9. Understands(c, want[s], server[s], got[s])
  <2>1. c # "idle"
    BY <1>4, Zenon DEF Requested
  <2> QED
    BY <1>2, <1>6, <2>1, Zenon DEF Understands
<1>10. StreamTypes(c, want[s], k, up[s] \o b, server[s], got[s], serverOut[s], down[s],
                   written[s].client, written[s].server, read[s].client, read[s].server)
  <2>1. c \in ClientLabel
    BY <1>4, Zenon DEF Requested, ClientLabel
  <2>2. b \in Seq(Nat) /\ k \in Seq(Nat)
    BY <1>5, Zenon DEF Cut
  <2>3. up[s] \o b \in Seq(Nat)
    BY <1>3, <2>2, ConcatElements, Zenon
  <2> QED
    BY <1>2, <2>1, <2>2, <2>3, Zenon DEF StreamTypes
<1>11. Moves(s, c, want[s], k, up[s] \o b, server[s], got[s], serverOut[s], down[s],
             written[s].client, written[s].server, read[s].client, read[s].server)
  <2>1. c = IF n < Len(out[s]) THEN "requesting" ELSE IF Hysteria2 THEN "awaiting" ELSE "open"
    BY <1>4, <1>5, Zenon DEF Requested
  <2>2. /\ client' = [client EXCEPT ![s] = c] /\ up' = [up EXCEPT ![s] = up[s] \o b]
        /\ out' = [out EXCEPT ![s] = k]
    BY <1>4, <2>1, Zenon DEF WriteRequest
  <2> QED
    BY <1>2, <2>2, Zenon DEF Moves, WriteRequest, Untouched, serverVars, dataVars
<1> QED
  BY <1>7, <1>8, <1>9, <1>10, <1>11, StreamMoved, Zenon

ClientOnly(f, s, x) ==
    [f EXCEPT ![s].client = x] = [f EXCEPT ![s] = [client |-> x, server |-> f[s].server]]

\* Writing the one field of a pair leaves the other alone.
LEMMA ClientField ==
    ASSUME NEW S, NEW f \in [Streams -> [client : S, server : S]], NEW s \in Streams, NEW x
    PROVE  ClientOnly(f, s, x)
<1>1. PICK p : p = f[s] /\ p \in [client : S, server : S]
  BY Zenon
<1>2. [p EXCEPT !.client = x] = [client |-> x, server |-> p.server]
  BY <1>1
<1> QED
  BY <1>1, <1>2, Zenon DEF ClientOnly

ServerOnly(f, s, x) ==
    [f EXCEPT ![s].server = x] = [f EXCEPT ![s] = [client |-> f[s].client, server |-> x]]

\* And so does writing the other.
LEMMA ServerField ==
    ASSUME NEW S, NEW f \in [Streams -> [client : S, server : S]], NEW s \in Streams, NEW x
    PROVE  ServerOnly(f, s, x)
<1>1. PICK p : p = f[s] /\ p \in [client : S, server : S]
  BY Zenon
<1>2. [p EXCEPT !.server = x] = [client |-> p.client, server |-> x]
  BY <1>1
<1> QED
  BY <1>1, <1>2, Zenon DEF ServerOnly

\* The client lets go of the stream.
LEMMA LeaveStreamKeeps ==
    ASSUME TcpInv, NEW s \in Streams, NEW l \in {"failed", "dropped"},
           client[s] \in {"requesting", "awaiting", "open"}, LeaveStream(s, l)
    PROVE  TcpInv'
<1>1. /\ StreamTypes(client[s], want[s], out[s], up[s], server[s], got[s], serverOut[s], down[s],
                      written[s].client, written[s].server, read[s].client, read[s].server)
      /\ Understands(client[s], want[s], server[s], got[s])
      /\ Upstream(Hysteria2, client[s], want[s], out[s], up[s], server[s], written[s].client,
                   read[s].server)
      /\ Downstream(Hysteria2, client[s], server[s], serverOut[s], down[s], written[s].server,
                     read[s].client)
      /\ Untouched(s)
  BY StreamFacts, Zenon
<1>2. Upstream(Hysteria2, l, want[s], <<>>, up[s], server[s], written[s].client, read[s].server)
  BY <1>1, LeaveStreamUp, Zenon
<1>3. Downstream(Hysteria2, l, server[s], serverOut[s], <<>>, written[s].server, read[s].client)
  BY <1>1, LeaveStreamDown, Zenon
<1>4. l \notin {"idle", "requesting"} /\ l \in ClientLabel /\ client[s] # "idle"
  BY Zenon DEF ClientLabel
<1>5. <<>> \in Seq(Nat)
  BY NilSeq, Zenon
<1>6. Understands(l, want[s], server[s], got[s])
  BY <1>1, <1>4, Zenon DEF Understands
<1>7. StreamTypes(l, want[s], <<>>, up[s], server[s], got[s], serverOut[s], <<>>,
                  written[s].client, written[s].server, read[s].client, read[s].server)
  BY <1>1, <1>4, <1>5, Zenon DEF StreamTypes
<1>8. Moves(s, l, want[s], <<>>, up[s], server[s], got[s], serverOut[s], <<>>, written[s].client,
            written[s].server, read[s].client, read[s].server)
  BY <1>1, Zenon DEF Moves, LeaveStream, Untouched, serverVars, dataVars
<1> QED
  BY <1>2, <1>3, <1>6, <1>7, <1>8, StreamMoved, Zenon

\* The client reads the response.
LEMMA ReadResponseKeeps ==
    ASSUME TcpInv, NEW s \in Streams, ReadResponse(s)
    PROVE  TcpInv'
<1>0. client[s] = "awaiting"
  BY Zenon DEF ReadResponse
<1>1. PICK p : p = ParseResponse(down[s])
  BY Zenon
<1>2. CASE p.status = "ok" /\ p.value = 0 /\ ~LeaveStream(s, "failed")
  <2>1. /\ StreamTypes("awaiting", want[s], out[s], up[s], server[s], got[s], serverOut[s], down[s],
                        written[s].client, written[s].server, read[s].client, read[s].server)
        /\ Understands("awaiting", want[s], server[s], got[s])
        /\ Upstream(Hysteria2, "awaiting", want[s], out[s], up[s], server[s], written[s].client,
                     read[s].server)
        /\ Downstream(Hysteria2, "awaiting", server[s], serverOut[s], down[s], written[s].server,
                       read[s].client)
        /\ Untouched(s)
    BY <1>0, StreamFacts, Zenon
  <2>2. /\ serverOut[s] \in Seq(Nat) /\ down[s] \in Seq(Nat) /\ written[s].server \in Nat
    BY <2>1, Zenon DEF StreamTypes
  <2>3. Hysteria2 /\ Upstream(Hysteria2, "open", want[s], out[s], up[s], server[s],
                                 written[s].client, read[s].server)
    BY <2>1, ReadResponseUp, Zenon
  <2>4. p.rest \in Seq(Nat) /\ Downstream(Hysteria2, "open", server[s], serverOut[s], p.rest,
                                           written[s].server, read[s].client)
    BY <1>1, <1>2, <2>1, <2>2, <2>3, ReadResponseDown, Zenon
  <2>5. "awaiting" \notin {"idle", "requesting"} /\ "open" \notin {"idle", "requesting"}
    BY Zenon
  <2>6. Understands("open", want[s], server[s], got[s])
    BY <2>1, <2>5, Zenon DEF Understands
  <2>7. "open" \in ClientLabel
    BY Zenon DEF ClientLabel
  <2>8. StreamTypes("open", want[s], out[s], up[s], server[s], got[s], serverOut[s], p.rest,
                    written[s].client, written[s].server, read[s].client, read[s].server)
    BY <2>1, <2>4, <2>7, Zenon DEF StreamTypes
  <2>9. Moves(s, "open", want[s], out[s], up[s], server[s], got[s], serverOut[s], p.rest,
              written[s].client, written[s].server, read[s].client, read[s].server)
    BY <1>1, <1>2, <2>1, Zenon
       DEF Moves, ReadResponse, Untouched, serverVars, dataVars
  <2> QED
    BY <2>3, <2>4, <2>6, <2>8, <2>9, StreamMoved, Zenon
<1>3. CASE LeaveStream(s, "failed")
  <2>1. "failed" \in {"failed", "dropped"} /\ client[s] \in {"requesting", "awaiting", "open"}
    BY <1>0, Zenon
  <2> QED
    BY <1>3, <2>1, LeaveStreamKeeps, Zenon
<1> QED
  BY <1>1, <1>2, <1>3, Zenon DEF ReadResponse

\* The client's application writes a byte.
LEMMA ClientWritesKeeps ==
    ASSUME TcpInv, NEW s \in Streams, ClientWrites(s)
    PROVE  TcpInv'
<1>0. client[s] = "open"
  BY Zenon DEF ClientWrites
<1>1. /\ StreamTypes("open", want[s], out[s], up[s], server[s], got[s], serverOut[s], down[s],
                      written[s].client, written[s].server, read[s].client, read[s].server)
      /\ Understands("open", want[s], server[s], got[s])
      /\ Upstream(Hysteria2, "open", want[s], out[s], up[s], server[s], written[s].client,
                   read[s].server)
      /\ Downstream(Hysteria2, "open", server[s], serverOut[s], down[s], written[s].server,
                     read[s].client)
      /\ Untouched(s)
  BY <1>0, StreamFacts, Zenon
<1>2. up[s] \in Seq(Nat) /\ written[s].client \in Nat /\ read[s].server \in Seq(Nat)
  BY <1>1, Zenon DEF StreamTypes
<1>3. Upstream(Hysteria2, "open", want[s], out[s], Append(up[s], Data(written[s].client + 1)),
               server[s], written[s].client + 1, read[s].server)
  BY <1>1, <1>2, ClientWritesUp, Zenon
<1>4. /\ Append(up[s], Data(written[s].client + 1)) \in Seq(Nat)
      /\ written[s].client + 1 \in Nat
  <2>1. Data(written[s].client + 1) \in Nat
    BY <1>2, StreamGrows, Zenon
  <2>2. 1 \in Nat
    OBVIOUS
  <2> QED
    BY <1>2, <2>1, <2>2, AppendSeq, SumNat, Zenon
<1>5. StreamTypes("open", want[s], out[s], Append(up[s], Data(written[s].client + 1)), server[s],
                  got[s], serverOut[s], down[s], written[s].client + 1, written[s].server,
                  read[s].client, read[s].server)
  BY <1>1, <1>4, Zenon DEF StreamTypes
<1>6. written' = [written EXCEPT ![s] = [client |-> written[s].client + 1,
                                         server |-> written[s].server]]
  <2>1. written \in [Streams -> [client : Nat, server : Nat]]
    BY Zenon DEF TcpInv, TcpShape
  <2>2. PICK x : x = written[s].client + 1
    BY Zenon
  <2>3. written' = [written EXCEPT ![s].client = x]
    BY <2>2, Zenon DEF ClientWrites
  <2>4. ClientOnly(written, s, x)
    BY <2>1, ClientField, Zenon
  <2> QED
    BY <2>2, <2>3, <2>4, Zenon DEF ClientOnly
<1>7. Moves(s, "open", want[s], out[s], Append(up[s], Data(written[s].client + 1)), server[s],
            got[s], serverOut[s], down[s], written[s].client + 1, written[s].server,
            read[s].client, read[s].server)
  BY <1>0, <1>1, <1>6, Zenon
     DEF Moves, ClientWrites, Untouched, clientVars, serverVars
<1> QED
  BY <1>1, <1>3, <1>5, <1>7, StreamMoved, Zenon

\* The client's application reads a byte.
LEMMA ClientReadsKeeps ==
    ASSUME TcpInv, NEW s \in Streams, ClientReads(s)
    PROVE  TcpInv'
<1>0. client[s] = "open" /\ down[s] # <<>>
  BY Zenon DEF ClientReads
<1>1. /\ StreamTypes("open", want[s], out[s], up[s], server[s], got[s], serverOut[s], down[s],
                      written[s].client, written[s].server, read[s].client, read[s].server)
      /\ Understands("open", want[s], server[s], got[s])
      /\ Upstream(Hysteria2, "open", want[s], out[s], up[s], server[s], written[s].client,
                   read[s].server)
      /\ Downstream(Hysteria2, "open", server[s], serverOut[s], down[s], written[s].server,
                     read[s].client)
      /\ Untouched(s)
  BY <1>0, StreamFacts, Zenon
<1>2. down[s] \in Seq(Nat) /\ written[s].server \in Nat /\ read[s].client \in Seq(Nat)
  BY <1>1, Zenon DEF StreamTypes
<1>3. Downstream(Hysteria2, "open", server[s], serverOut[s], Tail(down[s]), written[s].server,
                 Append(read[s].client, Head(down[s])))
  BY <1>0, <1>1, <1>2, ClientReadsDown, Zenon
<1>4. Tail(down[s]) \in Seq(Nat) /\ Append(read[s].client, Head(down[s])) \in Seq(Nat)
  <2>1. Tail(down[s]) \in Seq(Nat) /\ Head(down[s]) \in Nat
    BY <1>0, <1>2, HeadCut, Zenon
  <2> QED
    BY <1>2, <2>1, AppendSeq, Zenon
<1>5. StreamTypes("open", want[s], out[s], up[s], server[s], got[s], serverOut[s], Tail(down[s]),
                  written[s].client, written[s].server, Append(read[s].client, Head(down[s])),
                  read[s].server)
  BY <1>1, <1>4, Zenon DEF StreamTypes
<1>6. read' = [read EXCEPT ![s] = [client |-> Append(read[s].client, Head(down[s])),
                                   server |-> read[s].server]]
  <2>1. read \in [Streams -> [client : Seq(Nat), server : Seq(Nat)]]
    BY Zenon DEF TcpInv, TcpShape
  <2>2. PICK x : x = Append(read[s].client, Head(down[s]))
    BY Zenon
  <2>3. read' = [read EXCEPT ![s].client = x]
    BY <2>2, Zenon DEF ClientReads
  <2>4. ClientOnly(read, s, x)
    BY <2>1, ClientField, Zenon
  <2> QED
    BY <2>2, <2>3, <2>4, Zenon DEF ClientOnly
<1>7. Moves(s, "open", want[s], out[s], up[s], server[s], got[s], serverOut[s], Tail(down[s]),
            written[s].client, written[s].server, Append(read[s].client, Head(down[s])),
            read[s].server)
  BY <1>0, <1>1, <1>6, Zenon
     DEF Moves, ClientReads, Untouched, clientVars, serverVars
<1> QED
  BY <1>1, <1>3, <1>5, <1>7, StreamMoved, Zenon

\* The server accepts the stream.
LEMMA AcceptBiKeeps ==
    ASSUME TcpInv, NEW s \in Streams, AcceptBi(s)
    PROVE  TcpInv'
<1>0. server[s] = "none"
  BY Zenon DEF AcceptBi
<1>1. /\ StreamTypes(client[s], want[s], out[s], up[s], "none", got[s], serverOut[s], down[s],
                      written[s].client, written[s].server, read[s].client, read[s].server)
      /\ Understands(client[s], want[s], "none", got[s])
      /\ Upstream(Hysteria2, client[s], want[s], out[s], up[s], "none", written[s].client,
                   read[s].server)
      /\ Downstream(Hysteria2, client[s], "none", serverOut[s], down[s], written[s].server,
                     read[s].client)
      /\ Untouched(s)
  BY <1>0, StreamFacts, Zenon
<1>2. Upstream(Hysteria2, client[s], want[s], out[s], up[s], "reading", written[s].client,
               read[s].server)
  BY <1>1, AcceptBiUp, Zenon
<1>3. Downstream(Hysteria2, client[s], "reading", serverOut[s], down[s], written[s].server,
                 read[s].client)
  BY <1>1, AcceptBiDown, Zenon
<1>4. /\ "none" \in Unread /\ "reading" \in Unread /\ "reading" \in ServerLabel
      /\ "reading" \notin Serving \cup {"dropped"}
  BY Zenon DEF Unread, Serving, ServerLabel
<1>5. Understands(client[s], want[s], "reading", got[s])
  BY <1>1, <1>4, Zenon DEF Understands
<1>6. StreamTypes(client[s], want[s], out[s], up[s], "reading", got[s], serverOut[s], down[s],
                  written[s].client, written[s].server, read[s].client, read[s].server)
  BY <1>1, <1>4, Zenon DEF StreamTypes
<1>7. Moves(s, client[s], want[s], out[s], up[s], "reading", got[s], serverOut[s], down[s],
            written[s].client, written[s].server, read[s].client, read[s].server)
  BY <1>1, Zenon DEF Moves, AcceptBi, Untouched, clientVars, dataVars
<1> QED
  BY <1>2, <1>3, <1>5, <1>6, <1>7, StreamMoved, Zenon

\* The server lets go of the stream.
LEMMA LeaveServerKeeps ==
    ASSUME TcpInv, NEW s \in Streams, NEW l \in {"failed", "dropped"},
           LeaveServer(s, l), server[s] \notin {"none", "failed", "dropped"},
           l = "dropped" => server[s] \in Serving,
           Downstream(Hysteria2, client[s], l, <<>>, down[s], written[s].server, read[s].client)
    PROVE  TcpInv'
<1>1. /\ StreamTypes(client[s], want[s], out[s], up[s], server[s], got[s], serverOut[s], down[s],
                      written[s].client, written[s].server, read[s].client, read[s].server)
      /\ Understands(client[s], want[s], server[s], got[s])
      /\ Upstream(Hysteria2, client[s], want[s], out[s], up[s], server[s], written[s].client,
                   read[s].server)
      /\ Downstream(Hysteria2, client[s], server[s], serverOut[s], down[s], written[s].server,
                     read[s].client)
      /\ Untouched(s)
  BY StreamFacts, Zenon
<1>2. /\ l = "dropped" => l \in Serving \cup {"dropped"}
      /\ l \notin Unread /\ l \notin Serving /\ l \in ServerLabel
  BY Zenon DEF Serving, Unread, ServerLabel
<1>3. Understands(client[s], want[s], l, got[s])
  BY <1>1, <1>2, Zenon DEF Understands
<1>4. l = "dropped" => client[s] # "idle"
  BY <1>1, Zenon DEF Understands
<1>5. Upstream(Hysteria2, client[s], want[s], out[s], <<>>, l, written[s].client, read[s].server)
  BY <1>1, <1>4, LeaveServerUp, Zenon
<1>6. <<>> \in Seq(Nat)
  BY NilSeq, Zenon
<1>7. StreamTypes(client[s], want[s], out[s], <<>>, l, got[s], <<>>, down[s], written[s].client,
                  written[s].server, read[s].client, read[s].server)
  BY <1>1, <1>2, <1>6, Zenon DEF StreamTypes
<1>8. Moves(s, client[s], want[s], out[s], <<>>, l, got[s], <<>>, down[s], written[s].client,
            written[s].server, read[s].client, read[s].server)
  BY <1>1, Zenon DEF Moves, LeaveServer, Untouched, clientVars, dataVars
<1> QED
  BY <1>3, <1>5, <1>7, <1>8, StreamMoved, Zenon

\* The server cannot understand the request.
LEMMA RequestFailsKeeps ==
    ASSUME TcpInv, NEW s \in Streams, RequestFails(s)
    PROVE  TcpInv'
<1>1. server[s] = "reading" /\ LeaveServer(s, "failed")
  BY Zenon DEF RequestFails
<1>2. Downstream(Hysteria2, client[s], "reading", serverOut[s], down[s], written[s].server,
                 read[s].client)
  BY <1>1, StreamFacts, Zenon
<1>3. Downstream(Hysteria2, client[s], "failed", <<>>, down[s], written[s].server, read[s].client)
  BY <1>2, RequestFailsDown, Zenon
<1>4. server[s] \notin {"none", "failed", "dropped"} /\ "failed" # "dropped"
  BY <1>1, Zenon
<1> QED
  BY <1>1, <1>3, <1>4, LeaveServerKeeps, Zenon

\* The server cannot write its response.
LEMMA ResponseFailsKeeps ==
    ASSUME TcpInv, NEW s \in Streams, ResponseFails(s)
    PROVE  TcpInv'
<1>1. /\ server[s] \in {"responding", "refusing"} /\ client[s] \in {"dropped", "failed"}
      /\ LeaveServer(s, "failed")
  BY Zenon DEF ResponseFails
<1>2. Downstream(Hysteria2, client[s], server[s], serverOut[s], down[s], written[s].server,
                 read[s].client)
  BY StreamFacts, Zenon
<1>3. Downstream(Hysteria2, client[s], "failed", <<>>, down[s], written[s].server, read[s].client)
  BY <1>1, <1>2, ResponseFailsDown, Zenon
<1>4. server[s] \notin {"none", "failed", "dropped"} /\ "failed" # "dropped"
  BY <1>1, Zenon
<1> QED
  BY <1>1, <1>3, <1>4, LeaveServerKeeps, Zenon

\* The server's application, or the refusing handler, drops the stream.
LEMMA DropServerStreamKeeps ==
    ASSUME TcpInv, NEW s \in Streams, DropServerStream(s)
    PROVE  TcpInv'
<1>1. /\ (server[s] = "refusing" /\ serverOut[s] = <<>>) \/ server[s] \in {"queued", "accepted"}
      /\ LeaveServer(s, "dropped")
  BY Zenon DEF DropServerStream
<1>2. server[s] \in Serving /\ server[s] \notin {"none", "failed", "dropped"}
  BY <1>1, Zenon DEF Serving
<1>3. /\ Downstream(Hysteria2, client[s], server[s], serverOut[s], down[s], written[s].server,
                    read[s].client)
      /\ Understands(client[s], want[s], server[s], got[s])
  BY StreamFacts, Zenon
<1>4. client[s] \notin {"idle", "requesting"}
  BY <1>2, <1>3, Zenon DEF Understands
<1>5. Downstream(Hysteria2, client[s], "dropped", <<>>, down[s], written[s].server, read[s].client)
  BY <1>1, <1>3, <1>4, DropServerDown, Zenon
<1> QED
  BY <1>1, <1>2, <1>5, LeaveServerKeeps, Zenon

\* The server understands the request.
LEMMA ReadRequestKeeps ==
    ASSUME TcpInv, NEW s \in Streams, NEW padding \in Paddings, NEW status \in {0, 1},
           ReadRequest(s, padding, status)
    PROVE  TcpInv'
<1>0. server[s] = "reading" /\ Understood(s).status = "ok" /\ padding \in 0..MaxPadding
  BY TcpStreamsAssumption, Zenon DEF ReadRequest
<1>1. /\ StreamTypes(client[s], want[s], out[s], up[s], "reading", got[s], serverOut[s], down[s],
                      written[s].client, written[s].server, read[s].client, read[s].server)
      /\ Understands(client[s], want[s], "reading", got[s])
      /\ Upstream(Hysteria2, client[s], want[s], out[s], up[s], "reading", written[s].client,
                   read[s].server)
      /\ Downstream(Hysteria2, client[s], "reading", serverOut[s], down[s], written[s].server,
                     read[s].client)
      /\ Untouched(s)
  BY <1>0, StreamFacts, Zenon
<1>2. out[s] \in Seq(Nat) /\ up[s] \in Seq(Nat) /\ written[s].client \in Nat
  BY <1>1, Zenon DEF StreamTypes
<1>3. Understood(s) = ParseAs(Hysteria2, up[s])
  BY Zenon DEF Understood, ParseAs
<1>4. Complete(Hysteria2, client[s], want[s], out[s], up[s], "reading", written[s].client,
               read[s].server)
  BY <1>0, <1>1, <1>2, <1>3, ReadRequestUp, Zenon
<1>5. PICK rest \in Seq(Nat) :
         /\ Understood(s) = Ok(Meaning(want[s]), rest)
         /\ want[s] \in Destinations /\ client[s] \notin {"idle", "requesting"}
         /\ \A l \in Serving : Upstream(Hysteria2, client[s], want[s], out[s], rest, l,
                                       written[s].client, read[s].server)
  BY <1>3, <1>4, Zenon DEF Complete
<1>6. Understood(s).value = Meaning(want[s]) /\ Understood(s).rest = rest
  <2>1. PICK q, m : m = Meaning(want[s]) /\ q = Ok(m, rest)
    BY Zenon
  <2>2. q.value = m /\ q.rest = rest
    BY <2>1, Zenon DEF Ok
  <2> QED
    BY <1>5, <2>1, <2>2, Zenon
<1>7. PICK l, f :
         /\ l = IF Hysteria2 THEN IF status = 0 THEN "responding" ELSE "refusing" ELSE "queued"
         /\ f = IF Hysteria2 THEN Response(status, padding) ELSE serverOut[s]
  BY Zenon
<1>8. l \in Serving /\ l \notin Unread /\ l \in ServerLabel
  BY <1>7, Zenon DEF Serving, Unread, ServerLabel
<1>9. f \in Seq(Nat)
  BY <1>0, <1>1, <1>7, ResponseSeq, Zenon DEF StreamTypes
<1>10. Downstream(Hysteria2, client[s], l, f, down[s], written[s].server, read[s].client)
  <2>1. /\ \A a \in {0, 1}, n \in 0..MaxPadding :
             Hysteria2 => Downstream(Hysteria2, client[s], IF a = 0 THEN "responding" ELSE
                                     "refusing", Response(a, n), down[s], written[s].server,
                                     read[s].client)
        /\ ~Hysteria2 => Downstream(Hysteria2, client[s], "queued", serverOut[s], down[s],
                                    written[s].server, read[s].client)
    BY <1>1, <1>5, ReadRequestDown, Zenon
  <2> QED
    BY <1>0, <1>7, <2>1, Zenon
<1>11. Upstream(Hysteria2, client[s], want[s], out[s], rest, l, written[s].client, read[s].server)
  BY <1>5, <1>8, Zenon
<1>12. Understands(client[s], want[s], l, Meaning(want[s]))
  BY <1>5, <1>8, Zenon DEF Understands
<1>13. StreamTypes(client[s], want[s], out[s], rest, l, Meaning(want[s]), f, down[s],
                   written[s].client, written[s].server, read[s].client, read[s].server)
  <2>1. Meaning(want[s]) \in Destinations
    BY <1>5, MeaningFacts, Zenon
  <2> QED
    BY <1>1, <1>8, <1>9, <2>1, Zenon DEF StreamTypes
<1>14. Moves(s, client[s], want[s], out[s], rest, l, Meaning(want[s]), f, down[s],
             written[s].client, written[s].server, read[s].client, read[s].server)
  <2>1. server' = [server EXCEPT ![s] = l]
    BY <1>7, Zenon DEF ReadRequest
  <2>2. serverOut' = [serverOut EXCEPT ![s] = f]
    BY <1>1, <1>7, Zenon DEF ReadRequest, Response, Message, Untouched
  <2> QED
    BY <1>1, <1>6, <2>1, <2>2, Zenon DEF Moves, ReadRequest, Untouched, clientVars, dataVars
<1> QED
  BY <1>10, <1>11, <1>12, <1>13, <1>14, StreamMoved, Zenon

\* The server writes a piece of its response.
LEMMA WriteResponseKeeps ==
    ASSUME TcpInv, NEW s \in Streams, NEW n \in Piece(serverOut[s]), WriteResponse(s, n)
    PROVE  TcpInv'
<1>0. server[s] \in {"responding", "refusing"}
  BY Zenon DEF WriteResponse
<1>1. /\ StreamTypes(client[s], want[s], out[s], up[s], server[s], got[s], serverOut[s], down[s],
                      written[s].client, written[s].server, read[s].client, read[s].server)
      /\ Understands(client[s], want[s], server[s], got[s])
      /\ Upstream(Hysteria2, client[s], want[s], out[s], up[s], server[s], written[s].client,
                   read[s].server)
      /\ Downstream(Hysteria2, client[s], server[s], serverOut[s], down[s], written[s].server,
                     read[s].client)
      /\ Untouched(s)
  BY StreamFacts, Zenon
<1>2. serverOut[s] \in Seq(Nat) /\ n \in 1..Len(serverOut[s]) /\ down[s] \in Seq(Nat)
  BY <1>1, Zenon DEF StreamTypes, Piece
<1>3. PICK b, k, l : /\ b = SubSeq(serverOut[s], 1, n)
                     /\ k = SubSeq(serverOut[s], n + 1, Len(serverOut[s]))
                     /\ l = Responded(server[s], k)
  BY Zenon
<1>4. Cut(serverOut[s], b, k) /\ ((n < Len(serverOut[s])) <=> (k # <<>>))
  BY <1>2, <1>3, PieceCut, Zenon
<1>5. server[s] \in Serving /\ l \in Serving /\ l \notin Unread /\ l \in ServerLabel
  BY <1>0, <1>3, Zenon DEF Serving, Unread, ServerLabel, Responded
<1>6. /\ client[s] \notin {"idle", "requesting"} /\ client[s] # "idle"
      /\ want[s] \in Destinations /\ got[s] = Meaning(want[s])
  <2>1. /\ client[s] \notin {"idle", "requesting"}
        /\ want[s] \in Destinations /\ got[s] = Meaning(want[s])
    BY <1>1, <1>5, Zenon DEF Understands
  <2> QED
    BY <2>1, Zenon
<1>7. Downstream(Hysteria2, client[s], l, k, down[s] \o b, written[s].server, read[s].client)
  BY <1>0, <1>1, <1>2, <1>3, <1>4, <1>6, WriteResponseDown, Zenon
<1>8. Upstream(Hysteria2, client[s], want[s], out[s], up[s], l, written[s].client, read[s].server)
  BY <1>1, <1>5, <1>6, ServingUp, Zenon
<1>9. Understands(client[s], want[s], l, got[s])
  BY <1>5, <1>6, Zenon DEF Understands
<1>10. StreamTypes(client[s], want[s], out[s], up[s], l, got[s], k, down[s] \o b,
                   written[s].client, written[s].server, read[s].client, read[s].server)
  <2>1. b \in Seq(Nat) /\ k \in Seq(Nat)
    BY <1>4, Zenon DEF Cut
  <2>2. down[s] \o b \in Seq(Nat)
    BY <1>2, <2>1, ConcatElements, Zenon
  <2> QED
    BY <1>1, <1>5, <2>1, <2>2, Zenon DEF StreamTypes
<1>11. Moves(s, client[s], want[s], out[s], up[s], l, got[s], k, down[s] \o b, written[s].client,
             written[s].server, read[s].client, read[s].server)
  <2>1. (n = Len(serverOut[s])) <=> (k = <<>>)
    BY <1>2, <1>4
  <2>2. l = IF n = Len(serverOut[s]) /\ server[s] = "responding" THEN "queued" ELSE server[s]
    BY <1>3, <2>1, Zenon DEF Responded
  <2>3. /\ server' = [server EXCEPT ![s] = l] /\ down' = [down EXCEPT ![s] = down[s] \o b]
        /\ serverOut' = [serverOut EXCEPT ![s] = k]
    BY <1>3, <2>2, Zenon DEF WriteResponse
  <2> QED
    BY <1>1, <2>3, Zenon DEF Moves, WriteResponse, Untouched, clientVars, dataVars
<1> QED
  BY <1>7, <1>8, <1>9, <1>10, <1>11, StreamMoved, Zenon

\* The server's application takes the stream.
LEMMA AcceptStreamKeeps ==
    ASSUME TcpInv, NEW s \in Streams, AcceptStream(s)
    PROVE  TcpInv'
<1>0. server[s] = "queued"
  BY Zenon DEF AcceptStream
<1>1. /\ StreamTypes(client[s], want[s], out[s], up[s], "queued", got[s], serverOut[s], down[s],
                      written[s].client, written[s].server, read[s].client, read[s].server)
      /\ Understands(client[s], want[s], "queued", got[s])
      /\ Upstream(Hysteria2, client[s], want[s], out[s], up[s], "queued", written[s].client,
                   read[s].server)
      /\ Downstream(Hysteria2, client[s], "queued", serverOut[s], down[s], written[s].server,
                     read[s].client)
      /\ Untouched(s)
  BY <1>0, StreamFacts, Zenon
<1>2. /\ "queued" \in Serving /\ "accepted" \in Serving /\ "accepted" \notin Unread
      /\ "accepted" \in ServerLabel
  BY Zenon DEF Serving, Unread, ServerLabel
<1>3. /\ client[s] \notin {"idle", "requesting"} /\ client[s] # "idle"
      /\ want[s] \in Destinations /\ got[s] = Meaning(want[s])
  <2>1. /\ client[s] \notin {"idle", "requesting"}
        /\ want[s] \in Destinations /\ got[s] = Meaning(want[s])
    BY <1>1, <1>2, Zenon DEF Understands
  <2> QED
    BY <2>1, Zenon
<1>4. Upstream(Hysteria2, client[s], want[s], out[s], up[s], "accepted", written[s].client,
               read[s].server)
  BY <1>1, <1>2, <1>3, ServingUp, Zenon
<1>5. Downstream(Hysteria2, client[s], "accepted", serverOut[s], down[s], written[s].server,
                 read[s].client)
  BY <1>1, <1>3, AcceptStreamDown, Zenon
<1>6. Understands(client[s], want[s], "accepted", got[s])
  BY <1>2, <1>3, Zenon DEF Understands
<1>7. StreamTypes(client[s], want[s], out[s], up[s], "accepted", got[s], serverOut[s], down[s],
                  written[s].client, written[s].server, read[s].client, read[s].server)
  BY <1>1, <1>2, Zenon DEF StreamTypes
<1>8. Moves(s, client[s], want[s], out[s], up[s], "accepted", got[s], serverOut[s], down[s],
            written[s].client, written[s].server, read[s].client, read[s].server)
  BY <1>1, Zenon DEF Moves, AcceptStream, Untouched, clientVars, dataVars
<1> QED
  BY <1>4, <1>5, <1>6, <1>7, <1>8, StreamMoved, Zenon

\* The server's application writes a byte.
LEMMA ServerWritesKeeps ==
    ASSUME TcpInv, NEW s \in Streams, ServerWrites(s)
    PROVE  TcpInv'
<1>0. server[s] = "accepted"
  BY Zenon DEF ServerWrites
<1>1. /\ StreamTypes(client[s], want[s], out[s], up[s], "accepted", got[s], serverOut[s], down[s],
                      written[s].client, written[s].server, read[s].client, read[s].server)
      /\ Understands(client[s], want[s], "accepted", got[s])
      /\ Upstream(Hysteria2, client[s], want[s], out[s], up[s], "accepted", written[s].client,
                   read[s].server)
      /\ Downstream(Hysteria2, client[s], "accepted", serverOut[s], down[s], written[s].server,
                     read[s].client)
      /\ Untouched(s)
  BY <1>0, StreamFacts, Zenon
<1>2. "accepted" \in Serving
  BY Zenon DEF Serving
<1>3. client[s] \notin {"idle", "requesting"} /\ client[s] # "idle"
  <2>1. client[s] \notin {"idle", "requesting"}
    BY <1>1, <1>2, Zenon DEF Understands
  <2> QED
    BY <2>1, Zenon
<1>4. down[s] \in Seq(Nat) /\ written[s].server \in Nat /\ read[s].client \in Seq(Nat)
  BY <1>1, Zenon DEF StreamTypes
<1>5. Downstream(Hysteria2, client[s], "accepted", serverOut[s], Append(down[s],
                 Data(written[s].server + 1)), written[s].server + 1, read[s].client)
  BY <1>1, <1>3, <1>4, ServerWritesDown, Zenon
<1>6. /\ Append(down[s], Data(written[s].server + 1)) \in Seq(Nat)
      /\ written[s].server + 1 \in Nat
  <2>1. Data(written[s].server + 1) \in Nat
    BY <1>4, StreamGrows, Zenon
  <2> QED
    BY <1>4, <2>1
<1>7. StreamTypes(client[s], want[s], out[s], up[s], "accepted", got[s], serverOut[s],
                  Append(down[s], Data(written[s].server + 1)), written[s].client,
                  written[s].server + 1, read[s].client, read[s].server)
  BY <1>1, <1>6, Zenon DEF StreamTypes
<1>8. written' = [written EXCEPT ![s] = [client |-> written[s].client,
                                         server |-> written[s].server + 1]]
  <2>1. written \in [Streams -> [client : Nat, server : Nat]]
    BY Zenon DEF TcpInv, TcpShape
  <2>2. PICK x : x = written[s].server + 1
    BY Zenon
  <2>3. written' = [written EXCEPT ![s].server = x]
    BY <2>2, Zenon DEF ServerWrites
  <2>4. ServerOnly(written, s, x)
    BY <2>1, ServerField, Zenon
  <2> QED
    BY <2>2, <2>3, <2>4, Zenon DEF ServerOnly
<1>9. Moves(s, client[s], want[s], out[s], up[s], "accepted", got[s], serverOut[s], Append(down[s],
            Data(written[s].server + 1)), written[s].client, written[s].server + 1, read[s].client,
            read[s].server)
  BY <1>0, <1>1, <1>8, Zenon
     DEF Moves, ServerWrites, Untouched, clientVars, serverVars
<1> QED
  BY <1>1, <1>5, <1>7, <1>9, StreamMoved, Zenon

\* The server's application reads a byte.
LEMMA ServerReadsKeeps ==
    ASSUME TcpInv, NEW s \in Streams, ServerReads(s)
    PROVE  TcpInv'
<1>0. server[s] = "accepted" /\ up[s] # <<>>
  BY Zenon DEF ServerReads
<1>1. /\ StreamTypes(client[s], want[s], out[s], up[s], "accepted", got[s], serverOut[s], down[s],
                      written[s].client, written[s].server, read[s].client, read[s].server)
      /\ Understands(client[s], want[s], "accepted", got[s])
      /\ Upstream(Hysteria2, client[s], want[s], out[s], up[s], "accepted", written[s].client,
                   read[s].server)
      /\ Downstream(Hysteria2, client[s], "accepted", serverOut[s], down[s], written[s].server,
                     read[s].client)
      /\ Untouched(s)
  BY <1>0, StreamFacts, Zenon
<1>2. "accepted" \in Serving
  BY Zenon DEF Serving
<1>3. client[s] \notin {"idle", "requesting"} /\ client[s] # "idle"
  <2>1. client[s] \notin {"idle", "requesting"}
    BY <1>1, <1>2, Zenon DEF Understands
  <2> QED
    BY <2>1, Zenon
<1>4. up[s] \in Seq(Nat) /\ read[s].server \in Seq(Nat)
  BY <1>1, Zenon DEF StreamTypes
<1>5. Upstream(Hysteria2, client[s], want[s], out[s], Tail(up[s]), "accepted", written[s].client,
               Append(read[s].server, Head(up[s])))
  BY <1>0, <1>1, <1>2, <1>3, <1>4, ServerReadsUp, Zenon
<1>6. Tail(up[s]) \in Seq(Nat) /\ Append(read[s].server, Head(up[s])) \in Seq(Nat)
  <2>1. Tail(up[s]) \in Seq(Nat) /\ Head(up[s]) \in Nat
    BY <1>0, <1>4, HeadCut, Zenon
  <2> QED
    BY <1>4, <2>1
<1>7. StreamTypes(client[s], want[s], out[s], Tail(up[s]), "accepted", got[s], serverOut[s],
                  down[s], written[s].client, written[s].server, read[s].client,
                  Append(read[s].server, Head(up[s])))
  BY <1>1, <1>6, Zenon DEF StreamTypes
<1>8. read' = [read EXCEPT ![s] = [client |-> read[s].client,
                                   server |-> Append(read[s].server, Head(up[s]))]]
  <2>1. read \in [Streams -> [client : Seq(Nat), server : Seq(Nat)]]
    BY Zenon DEF TcpInv, TcpShape
  <2>2. PICK x : x = Append(read[s].server, Head(up[s]))
    BY Zenon
  <2>3. read' = [read EXCEPT ![s].server = x]
    BY <2>2, Zenon DEF ServerReads
  <2>4. ServerOnly(read, s, x)
    BY <2>1, ServerField, Zenon
  <2> QED
    BY <2>2, <2>3, <2>4, Zenon DEF ServerOnly
<1>9. Moves(s, client[s], want[s], out[s], Tail(up[s]), "accepted", got[s], serverOut[s], down[s],
            written[s].client, written[s].server, read[s].client, Append(read[s].server,
            Head(up[s])))
  BY <1>0, <1>1, <1>8, Zenon
     DEF Moves, ServerReads, Untouched, clientVars, serverVars
<1> QED
  BY <1>1, <1>5, <1>7, <1>9, StreamMoved, Zenon

\* Every step of the proxied streams preserves the invariant.
LEMMA TcpStep ==
    ASSUME TcpInv, TcpNext
    PROVE  TcpInv'
<1>1. PICK s \in Streams :
        \/ \E a \in Destinations, padding \in Paddings : Connect(s, a, padding)
        \/ ClientStep(s) \/ DropClientStream(s) \/ ClientWrites(s) \/ ClientReads(s)
        \/ ServerStep(s) \/ AcceptStream(s) \/ DropServerStream(s)
        \/ ServerWrites(s) \/ ServerReads(s)
  BY Zenon DEF TcpNext
<1>2. CASE \E a \in Destinations, padding \in Paddings : Connect(s, a, padding)
  BY <1>2, ConnectKeeps, Zenon
<1>3. CASE ClientStep(s)
  BY <1>3, WriteRequestKeeps, ReadResponseKeeps, Zenon DEF ClientStep
<1>4. CASE DropClientStream(s)
  <2>1. /\ client[s] \in {"requesting", "awaiting", "open"} /\ LeaveStream(s, "dropped")
        /\ "dropped" \in {"failed", "dropped"}
    BY <1>4, Zenon DEF DropClientStream
  <2> QED
    BY <2>1, LeaveStreamKeeps, Zenon
<1>5. CASE ClientWrites(s) \/ ClientReads(s)
  BY <1>5, ClientWritesKeeps, ClientReadsKeeps, Zenon
<1>6. CASE ServerStep(s)
  BY <1>6, AcceptBiKeeps, RequestFailsKeeps, ResponseFailsKeeps, ReadRequestKeeps,
     WriteResponseKeeps, DropServerStreamKeeps, Zenon DEF ServerStep
<1>7. CASE AcceptStream(s) \/ DropServerStream(s)
  BY <1>7, AcceptStreamKeeps, DropServerStreamKeeps, Zenon
<1>8. CASE ServerWrites(s) \/ ServerReads(s)
  BY <1>8, ServerWritesKeeps, ServerReadsKeeps, Zenon
<1> QED
  BY <1>1, <1>2, <1>3, <1>4, <1>5, <1>6, <1>7, <1>8, Zenon

\* The invariant holds of streams that have not been used.
LEMMA TcpStarts ==
    ASSUME TcpInit
    PROVE  TcpInv
<1>1. TcpShape
  <2>1. <<>> \in Seq(Nat) /\ 0 \in Nat /\ "idle" \in ClientLabel /\ "none" \in ServerLabel
    BY DEF ClientLabel, ServerLabel
  <2>2. Nowhere \in Destinations \cup {Nowhere}
    BY Zenon
  <2>3. client \in [Streams -> ClientLabel] /\ server \in [Streams -> ServerLabel]
    BY <2>1, Zenon DEF TcpInit
  <2>4. /\ want \in [Streams -> Destinations \cup {Nowhere}]
        /\ got \in [Streams -> Destinations \cup {Nowhere}]
    BY <2>2, Zenon DEF TcpInit
  <2>5. /\ out \in [Streams -> Seq(Nat)] /\ up \in [Streams -> Seq(Nat)]
        /\ serverOut \in [Streams -> Seq(Nat)] /\ down \in [Streams -> Seq(Nat)]
    BY <2>1, Zenon DEF TcpInit
  <2>6. written \in [Streams -> [client : Nat, server : Nat]]
    BY <2>1, Zenon DEF TcpInit
  <2>7. read \in [Streams -> [client : Seq(Nat), server : Seq(Nat)]]
    BY <2>1, Zenon DEF TcpInit
  <2> QED
    BY <2>3, <2>4, <2>5, <2>6, <2>7, Zenon DEF TcpShape
<1>2. ASSUME NEW s \in Streams PROVE StreamInv(s)
  <2>1. /\ client[s] = "idle" /\ server[s] = "none" /\ got[s] = Nowhere
        /\ up[s] = <<>> /\ serverOut[s] = <<>> /\ down[s] = <<>>
    BY Zenon DEF TcpInit
  <2>2. /\ written[s].client = 0 /\ written[s].server = 0
        /\ read[s].client = <<>> /\ read[s].server = <<>>
    BY Zenon DEF TcpInit
  <2>3. Begins(<<>>, 0)
    <3>1. <<>> \in Seq(Nat) /\ <<>> \o <<>> = <<>>
      OBVIOUS
    <3> QED
      BY <3>1, NothingWritten, Zenon DEF Begins
  <2>4. /\ "none" \in Unread /\ "none" \notin Serving \cup {"dropped"}
        /\ "none" \notin {"responding", "refusing"}
    BY Zenon DEF Unread, Serving
  <2>5. Understands("idle", want[s], "none", Nowhere)
    BY <2>4, Zenon DEF Understands
  <2>6. Upstream(Hysteria2, "idle", want[s], out[s], <<>>, "none", 0, <<>>)
    BY <2>3, <2>4 DEF Upstream
  <2>7. Downstream(Hysteria2, "idle", "none", <<>>, <<>>, 0, <<>>)
    BY <2>3, <2>4, Zenon DEF Downstream
  <2> QED
    BY <2>1, <2>2, <2>5, <2>6, <2>7, Zenon DEF StreamInv
<1> QED
  BY <1>1, <1>2, Zenon DEF TcpInv

\* A request understood is for the destination asked.
LEMMA TcpInvRight ==
    ASSUME TcpInv
    PROVE  RightDestination
<1>1. SUFFICES ASSUME NEW s \in Streams,
                      NEW asked,
                      asked = [want[s] EXCEPT !.host = IF want[s] = Nowhere THEN 0
                                                       ELSE Canonical[want[s].host]]
               PROVE  /\ got[s] \in {Nowhere, asked}
                      /\ Hysteria2 /\ client[s] = "open" =>
                           got[s] = asked /\ server[s] \in {"queued", "accepted", "dropped"}
  BY Zenon DEF RightDestination
<1>2. /\ Understands(client[s], want[s], server[s], got[s])
      /\ Downstream(Hysteria2, client[s], server[s], serverOut[s], down[s],
                    written[s].server, read[s].client)
  BY StreamFacts, Zenon
<1>3. ASSUME want[s] \in Destinations PROVE asked = Meaning(want[s])
  <2>1. PICK a : a = want[s]
    BY Zenon
  <2>2. a.host \in Hosts /\ a \in [host : Hosts, port : Ports]
    BY <1>3, <2>1 DEF Destinations
  <2>3. 0 \notin Hosts
    <3>1. Hosts \subseteq 1..255
      BY WireAssumption, Zenon
    <3> QED
      BY <3>1, SMT
  <2>4. a # Nowhere
    BY <2>2, <2>3 DEF Nowhere
  <2>5. asked = [a EXCEPT !.host = Canonical[a.host]]
    BY <1>1, <2>1, <2>4, Zenon
  <2>6. [a EXCEPT !.host = Canonical[a.host]] = [host |-> Canonical[a.host], port |-> a.port]
    BY <2>2
  <2> QED
    BY <2>1, <2>5, <2>6, Zenon DEF Meaning
<1>4. got[s] \in {Nowhere, asked}
  BY <1>2, <1>3, Zenon DEF Understands
<1>5. ASSUME Hysteria2, client[s] = "open"
      PROVE  got[s] = asked /\ server[s] \in {"queued", "accepted", "dropped"}
  <2>1. server[s] \in {"queued", "accepted", "dropped"}
    BY <1>2, <1>5, Zenon DEF Downstream
  <2>2. server[s] \in Serving \cup {"dropped"}
    BY <2>1, Zenon DEF Serving
  <2>3. want[s] \in Destinations /\ got[s] = Meaning(want[s])
    BY <1>2, <2>2, Zenon DEF Understands
  <2> QED
    BY <1>3, <2>1, <2>3, Zenon
<1> QED
  BY <1>4, <1>5, Zenon

\* Applications read what was written.
LEMMA TcpInvIntact ==
    ASSUME TcpInv
    PROVE  StreamsIntact
<1>1. SUFFICES ASSUME NEW s \in Streams
               PROVE  /\ read[s].server = [i \in 1..Len(read[s].server) |-> Data(i)]
                      /\ Len(read[s].server) <= written[s].client
                      /\ read[s].client = [i \in 1..Len(read[s].client) |-> Data(i)]
                      /\ Len(read[s].client) <= written[s].server
  BY Zenon DEF StreamsIntact
<1>2. /\ written[s].client \in Nat /\ written[s].server \in Nat
      /\ read[s].client \in Seq(Nat) /\ read[s].server \in Seq(Nat)
  BY StreamFacts, Zenon DEF StreamTypes
<1>3. Begins(read[s].server, written[s].client) /\ Begins(read[s].client, written[s].server)
  BY StreamFacts, Zenon DEF Upstream, Downstream
<1>4. ASSUME NEW a \in Seq(Nat), NEW w \in Nat, Begins(a, w)
      PROVE  a = [i \in 1..Len(a) |-> Data(i)] /\ Len(a) <= w
  <2>1. PICK t \in Seq(Nat) : a \o t = Stream(w)
    BY <1>4, Zenon DEF Begins
  <2> QED
    BY <2>1, BeginsStream, Zenon
<1> QED
  BY <1>2, <1>3, <1>4, Zenon

\* The invariant of the proxied streams is inductive.
LEMMA TcpInvariant == Spec => []TcpInv
<1>1. Init => TcpInv
  BY TcpStarts, Zenon DEF Init
<1>2. ASSUME TcpInv, [Next]_vars PROVE TcpInv'
  <2>1. CASE TcpNext
    BY <1>2, <2>1, TcpStep, Zenon
  <2>2. CASE UNCHANGED tcpVars
    <3>1. /\ framing' = framing /\ client' = client /\ want' = want /\ out' = out /\ up' = up
          /\ server' = server /\ got' = got /\ serverOut' = serverOut /\ down' = down
          /\ written' = written /\ read' = read
      BY <2>2, Zenon DEF tcpVars
    <3>2. TcpShape'
      BY <1>2, <3>1, Zenon DEF TcpInv, TcpShape
    <3>3. ASSUME NEW s \in Streams PROVE StreamInv(s)'
      BY <1>2, <3>1, Zenon DEF TcpInv, StreamInv, Hysteria2
    <3> QED
      BY <3>2, <3>3, Zenon DEF TcpInv
  <2>3. TcpNext \/ UNCHANGED tcpVars
    BY <1>2, Zenon DEF Next, Proxy, Website, vars
  <2> QED
    BY <2>1, <2>2, <2>3
<1> QED
  BY <1>1, <1>2, PTL DEF Spec

\* The server dials the destination that the client asked for, whatever the
\* lengths of the address and of the padding and wherever quinn cut the
\* request, and connect of a Hysteria2 client returns a stream only when the
\* server understood the request and did not refuse it.
THEOREM StreamsReachTheirDestination == Spec => []RightDestination
BY TcpInvariant, TcpInvRight, PTL

\* What an application reads from a proxied stream is what the other one
\* wrote, from the first byte on: request, response and padding are consumed
\* to the byte, and nothing behind them is eaten.
THEOREM ProxiedBytesArriveIntact == Spec => []StreamsIntact
BY TcpInvariant, TcpInvIntact, PTL
=============================================================================
