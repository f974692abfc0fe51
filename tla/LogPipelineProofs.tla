------------------------- MODULE LogPipelineProofs -------------------------
(***************************************************************************)
(* Proofs about LogPipeline. Three facts make the pipeline right whatever  *)
(* waits in it: the slots a view covers have been filled, each request     *)
(* takes the lines up where the previous one left them, and the history of *)
(* the client has one request in the pipeline, at a known stage.           *)
(***************************************************************************)
EXTENDS LogPipeline, SequenceTheorems, TLAPS

\* The lines of the buffer, and those of the views that wait, are lines.
Filled ==
    /\ \A j \in 1 .. size : _buffer[j] \in Lines
    /\ \A i \in DOMAIN nextReqs :
           \A j \in 1 .. nextReqs[i].len : arrays[nextReqs[i].array][j] \in Lines

\* Only inserts carry lines.
OnlyInsertsCarry ==
    /\ inFlight.op # "insert" => inFlight.rows = <<>>
    /\ \A i \in DOMAIN nextReqs : nextReqs[i].op # "insert" => nextReqs[i].len = 0

HistoryOps == {"create", "step", "delete"}

\* The history has at most one request in the pipeline.
OneHistoryRequest ==
    /\ phase # "history" => inFlight.op \notin HistoryOps
    /\ \A i \in DOMAIN nextReqs :
           nextReqs[i].op \in HistoryOps =>
               /\ phase = "history" /\ inFlight.op \notin HistoryOps
               /\ \A j \in DOMAIN nextReqs : nextReqs[j].op \in HistoryOps => i = j

\* What the client has received when a request of its history waits for its execution,
\* unless it has left.
Stage(op, upto) ==
    /\ op = "create" => received = <<>> /\ upto = since
    /\ op = "step" => closed \/ Len(received) + Len(cursor) = since
    /\ op = "delete" => closed \/ Len(received) = since

\* The same when its result is about to be handled.
ResultStage ==
    /\ inFlight.op = "create" => received = <<>> /\ Len(cursor) = since
    /\ inFlight.op = "step" =>
          \/ closed
          \/ /\ Len(received) + Len(block) + Len(cursor) = since
             /\ Len(block) # BlockSize => cursor = <<>>
    /\ inFlight.op = "delete" => closed \/ Len(received) = since

HistoryStage ==
    /\ \A i \in DOMAIN nextReqs : Stage(nextReqs[i].op, nextReqs[i].upto)
    /\ IF answered THEN ResultStage ELSE Stage(inFlight.op, inFlight.upto)

\* Real time lines start where the history ends.
RealtimeFollows ==
    /\ phase = "none" => received = <<>> /\ realtimeBuffer = <<>>
    /\ phase = "history" => params.history
    /\ phase = "sending" => params.realtime
    /\ phase = "history" /\ params.realtime =>
          /\ Len(realtimeBuffer) = emitted - since
          /\ \A i \in 1 .. (emitted - since) : realtimeBuffer[i] = since + i

IInv ==
    /\ TypeOK /\ NoLineUncounted /\ HistoryMeetsRealtime
    /\ Filled /\ OnlyInsertsCarry
    /\ OneHistoryRequest /\ HistoryStage /\ RealtimeFollows

-----------------------------------------------------------------------------
(***************************************************************************)
(* Sequences of requests.                                                  *)
(***************************************************************************)

\* The views of the requests are within the arrays, and cover lines.
Good(q, arrs) ==
    \A i \in DOMAIN q :
        /\ q[i].array \in DOMAIN arrs
        /\ q[i].len \in 0 .. Len(arrs[q[i].array])
        /\ \A j \in 1 .. q[i].len : arrs[q[i].array][j] \in Lines
        /\ q[i].op # "insert" => q[i].len = 0

\* Each request starts where the one before it ends, from the line p to the line e.
Chain(q, p, e) ==
    /\ \A i \in DOMAIN q : q[i].upto = (IF i = 1 THEN p ELSE q[i - 1].upto) + q[i].len
    /\ e = IF q = <<>> THEN p ELSE q[Len(q)].upto

LEMMA GoodConcat ==
  ASSUME NEW q \in Seq(Waiting), NEW r \in Seq(Waiting), NEW arrs, Good(q, arrs), Good(r, arrs)
  PROVE  q \o r \in Seq(Waiting) /\ Good(q \o r, arrs)
<1>1. q \o r \in Seq(Waiting)
  OBVIOUS
<1>2. ASSUME NEW i \in DOMAIN (q \o r)
      PROVE  (i \in DOMAIN q /\ (q \o r)[i] = q[i])
             \/ (i - Len(q) \in DOMAIN r /\ (q \o r)[i] = r[i - Len(q)])
  OBVIOUS
<1> QED BY <1>1, <1>2 DEF Good

LEMMA ChainConcat ==
  ASSUME NEW q \in Seq(Waiting), NEW r \in Seq(Waiting), NEW p \in Nat, NEW e \in Nat,
         NEW f \in Nat,
         Chain(q, p, e), Chain(r, e, f)
  PROVE  Chain(q \o r, p, f)
<1> DEFINE s == q \o r
<1>0. /\ s \in Seq(Waiting) /\ Len(s) = Len(q) + Len(r) /\ Len(q) \in Nat /\ Len(r) \in Nat
      /\ DOMAIN s = 1 .. Len(s) /\ DOMAIN q = 1 .. Len(q) /\ DOMAIN r = 1 .. Len(r)
      /\ \A i \in 1 .. Len(q) : s[i] = q[i]
      /\ \A i \in 1 .. Len(r) : s[Len(q) + i] = r[i]
      /\ (q = <<>> <=> Len(q) = 0) /\ (r = <<>> <=> Len(r) = 0)
  OBVIOUS
<1> HIDE DEF s
<1>1. ASSUME NEW i \in DOMAIN s
      PROVE  s[i].upto = (IF i = 1 THEN p ELSE s[i - 1].upto) + s[i].len
  <2>1. CASE i <= Len(q)
    BY <1>0, <2>1 DEF Chain
  <2>2. CASE i > Len(q)
    <3> DEFINE j == i - Len(q)
    <3>1. j \in 1 .. Len(r) /\ s[i] = r[j]
      BY <1>0, <2>2
    <3>2. CASE j = 1
      <4>1. r[1].upto = e + r[1].len
        BY <1>0, <3>1, <3>2 DEF Chain
      <4>2. e = IF i = 1 THEN p ELSE s[i - 1].upto
        BY <1>0, <3>2 DEF Chain
      <4> QED BY <3>1, <3>2, <4>1, <4>2
    <3>3. CASE j # 1
      <4>1. r[j].upto = r[j - 1].upto + r[j].len
        BY <1>0, <3>1, <3>3 DEF Chain
      <4>2. j - 1 \in 1 .. Len(r) /\ i - 1 = Len(q) + (j - 1) /\ i # 1
        BY <1>0, <3>1, <3>3
      <4>3. s[i - 1] = r[j - 1]
        BY <1>0, <4>2
      <4> QED BY <3>1, <4>1, <4>2, <4>3
    <3> QED BY <3>2, <3>3
  <2> QED BY <1>0, <2>1, <2>2
<1>2. f = IF s = <<>> THEN p ELSE s[Len(s)].upto
  <2>1. s = <<>> <=> Len(s) = 0
    BY <1>0
  <2>2. CASE r = <<>>
    BY <1>0, <2>1, <2>2 DEF Chain
  <2>3. CASE r # <<>>
    <3>1. Len(r) \in 1 .. Len(r) /\ s[Len(s)] = r[Len(r)] /\ s # <<>>
      BY <1>0, <2>1, <2>3
    <3> QED BY <3>1, <2>3 DEF Chain
  <2> QED BY <2>2, <2>3
<1> QED BY <1>1, <1>2 DEF Chain, s

\* What write_first() leaves: the first request in the pipe with its lines, the others
\* in the queue.
LEMMA WriteFirst ==
  ASSUME NEW q \in Seq(Waiting), NEW arrs \in Seq(Seq(0 .. MaxLogs)),
         NEW p \in Nat, NEW e \in Nat,
         Good(q, arrs), Chain(q, p, e), write_first(q, arrs)
  PROVE  /\ inFlight' \in Written /\ nextReqs' \in Seq(Waiting)
         /\ Good(nextReqs', arrs)
         /\ q = <<>> => inFlight' = NoRequest /\ nextReqs' = <<>> /\ p = e
         /\ q # <<>> => /\ inFlight'.op = q[1].op /\ inFlight'.op \in Ops
                        /\ inFlight'.upto = q[1].upto
                        /\ inFlight'.upto = p + Len(inFlight'.rows)
                        /\ inFlight'.op # "insert" => inFlight'.rows = <<>>
                        /\ nextReqs' = Tail(q)
                        /\ Chain(nextReqs', inFlight'.upto, e)
<1>1. CASE q = <<>>
  <2>1. inFlight' = NoRequest /\ nextReqs' = <<>>
    BY <1>1 DEF write_first
  <2>2. <<>> \in Seq(Lines)
    OBVIOUS
  <2> QED BY <1>1, <2>1, <2>2 DEF Good, Chain, Written, NoRequest, Ops
<1>2. CASE q # <<>>
  <2> DEFINE h == q[1]
             rows == SubSeq(arrs[h.array], 1, h.len)
  <2>1. /\ 1 \in DOMAIN q /\ h \in Waiting
        /\ nextReqs' = Tail(q)
        /\ inFlight' = [op |-> h.op, rows |-> rows, upto |-> h.upto]
    <3>1. 1 \in DOMAIN q /\ h \in Waiting /\ Head(q) = h
      BY <1>2
    <3>2. nextReqs' = Tail(q) /\ inFlight' = _write_task(Head(q), arrs)
      BY <1>2 DEF write_first
    <3> QED BY <3>1, <3>2 DEF _write_task
  <2>2. /\ Len(Tail(q)) = Len(q) - 1 /\ Tail(q) \in Seq(Waiting)
        /\ \A i \in DOMAIN Tail(q) :
               Tail(q)[i] = q[i + 1] /\ i + 1 \in DOMAIN q /\ i \in Nat \ {0}
    BY <1>2
  <2>3. /\ h.array \in DOMAIN arrs /\ h.len \in 0 .. Len(arrs[h.array])
        /\ \A j \in 1 .. h.len : arrs[h.array][j] \in Lines
        /\ h.op # "insert" => h.len = 0
        /\ h.op \in Ops /\ h.upto \in Nat
        /\ h.upto = p + h.len
    BY <2>1 DEF Good, Chain, Waiting
  <2>4. arrs[h.array] \in Seq(0 .. MaxLogs)
    BY <2>3
  <2>5. rows \in Seq(Lines) /\ Len(rows) = h.len
    <3> DEFINE a == arrs[h.array]
               n == h.len
    <3>1. a \in Seq(0 .. MaxLogs) /\ n \in 0 .. Len(a) /\ \A j \in 1 .. n : a[j] \in Lines
      BY <2>3, <2>4
    <3> HIDE DEF a, n
    <3>2. SubSeq(a, 1, n) \in Seq(Lines) /\ Len(SubSeq(a, 1, n)) = n
      BY <3>1
    <3> QED BY <3>2 DEF a, n
  <2>6. Good(nextReqs', arrs)
    BY <2>1, <2>2 DEF Good
  <2>7. Chain(nextReqs', h.upto, e)
    <3>1. \A i \in DOMAIN Tail(q) :
              Tail(q)[i].upto = (IF i = 1 THEN h.upto ELSE Tail(q)[i - 1].upto) + Tail(q)[i].len
      BY <2>2 DEF Chain
    <3>2. e = IF Tail(q) = <<>> THEN h.upto ELSE Tail(q)[Len(Tail(q))].upto
      <4>1. e = q[Len(q)].upto
        BY <1>2 DEF Chain
      <4>2. CASE Tail(q) = <<>>
        <5>1. Len(Tail(q)) = 0
          BY <4>2, EmptySeq
        <5>2. Len(q) = 1
          <6> DEFINE n == Len(Tail(q))
          <6>1. n = 0 /\ n = Len(q) - 1 /\ Len(q) \in Nat
            BY <2>2, <5>1, LenProperties
          <6> HIDE DEF n
          <6> QED BY <6>1
        <5> QED BY <4>1, <4>2, <5>2
      <4>3. CASE Tail(q) # <<>>
        BY <2>2, <4>1, <4>3
      <4> QED BY <4>2, <4>3
    <3> QED BY <2>1, <3>1, <3>2 DEF Chain
  <2>8. Len(rows) = 0 => rows = <<>>
    BY <2>5
  <2> HIDE DEF rows, h
  <2>9. inFlight' \in Written
    BY <2>1, <2>3, <2>5 DEF Written, Ops
  <2> QED BY <1>2, <2>1, <2>2, <2>3, <2>5, <2>6, <2>7, <2>8, <2>9 DEF h
<1> QED BY <1>1, <1>2

-----------------------------------------------------------------------------
(***************************************************************************)
(* The connector.                                                          *)
(***************************************************************************)

\* What the invariant says of the queue, in the terms of the lemmas above.
LEMMA Queue ==
  ASSUME TypeOK, NoLineUncounted, Filled, OnlyInsertsCarry
  PROVE  /\ nextReqs \in Seq(Waiting) /\ Good(nextReqs, arrays) /\ emitted - size \in Nat
         /\ inFlight = NoRequest => nextReqs = <<>> /\ ~answered
         /\ inFlight # NoRequest =>
               /\ inFlight.op # "none"
               /\ inFlight.upto \in Nat /\ Chain(nextReqs, inFlight.upto, emitted - size)
<1>1. nextReqs \in Seq(Waiting) /\ Len(nextReqs) \in Nat /\ DOMAIN nextReqs = 1 .. Len(nextReqs)
  BY DEF TypeOK
<1>2. Good(nextReqs, arrays)
  BY DEF Good, TypeOK, Filled, OnlyInsertsCarry
<1>3. inFlight = NoRequest => nextReqs = <<>> /\ ~answered /\ emitted - size \in Nat
  BY LenProperties DEF TypeOK, NoRequest, NoLineUncounted
<1>4. ASSUME inFlight # NoRequest
      PROVE  /\ inFlight.op # "none" /\ emitted - size \in Nat
             /\ inFlight.upto \in Nat /\ Chain(nextReqs, inFlight.upto, emitted - size)
  <2>1. inFlight.op # "none" /\ inFlight.upto \in Nat
    BY <1>4 DEF TypeOK, Written
  <2>2. \A i \in DOMAIN nextReqs :
            nextReqs[i].upto = (IF i = 1 THEN inFlight.upto ELSE nextReqs[i - 1].upto)
                               + nextReqs[i].len
    <3>1. ASSUME NEW i \in DOMAIN nextReqs
          PROVE  lines_upto(i) = nextReqs[i].upto
                 /\ lines_upto(i - 1) = IF i = 1 THEN inFlight.upto ELSE nextReqs[i - 1].upto
      BY <1>1 DEF lines_upto
    <3> QED BY <1>4, <3>1 DEF NoLineUncounted
  <2>3. emitted - size = IF nextReqs = <<>> THEN inFlight.upto ELSE nextReqs[Len(nextReqs)].upto
    BY <1>1, <1>4, EmptySeq DEF NoLineUncounted, lines_upto
  <2>4. nextReqs # <<>> => nextReqs[Len(nextReqs)] \in Waiting
    BY <1>1, EmptySeq, ElementOfSeq
  <2> QED BY <2>1, <2>2, <2>3, <2>4 DEF Chain, Waiting
<1> QED BY <1>1, <1>2, <1>3, <1>4

\* The property about the lines, from the chain of the requests.
LEMMA ChainCounts ==
  ASSUME nextReqs' \in Seq(Waiting), inFlight' # NoRequest,
         Chain(nextReqs', inFlight'.upto, emitted' - size'),
         Len(db') = inFlight'.upto - IF answered' THEN 0 ELSE Len(inFlight'.rows)
  PROVE  NoLineUncounted'
<1>1. Len(nextReqs') \in Nat /\ DOMAIN nextReqs' = 1 .. Len(nextReqs')
  OBVIOUS
<1>2. ASSUME NEW i \in DOMAIN nextReqs'
      PROVE  lines_upto(i)' = lines_upto(i - 1)' + nextReqs'[i].len
  <2>1. /\ lines_upto(i)' = nextReqs'[i].upto
        /\ lines_upto(i - 1)' = IF i = 1 THEN inFlight'.upto ELSE nextReqs'[i - 1].upto
    BY <1>1 DEF lines_upto
  <2> QED BY <2>1 DEF Chain
<1>3. lines_upto(Len(nextReqs))' = emitted' - size'
  <2>1. CASE nextReqs' = <<>>
    BY <2>1, EmptySeq DEF Chain, lines_upto
  <2>2. CASE nextReqs' # <<>>
    BY <1>1, <2>2, EmptySeq DEF Chain, lines_upto
  <2> QED BY <2>1, <2>2
<1> QED BY <1>2, <1>3 DEF NoLineUncounted

\* What the queue and the pipe keep
ConnectorOK ==
    /\ inFlight \in Written /\ nextReqs \in Seq(Waiting) /\ Good(nextReqs, arrays)
    /\ inFlight.op = "none" => inFlight = NoRequest /\ nextReqs = <<>> /\ ~answered
    /\ inFlight.op # "insert" => inFlight.rows = <<>>
    /\ NoLineUncounted

\* send_task(): new requests follow the others, or the first one is written.
LEMMA SendTasks ==
  ASSUME TypeOK, NoLineUncounted, Filled, OnlyInsertsCarry,
         NEW r \in Seq(Waiting), NEW e \in Nat, arrays' \in Seq(Seq(0 .. MaxLogs)),
         Good(nextReqs, arrays'), Good(r, arrays'),
         Chain(r, emitted - size, e), e = emitted' - size',
         send_tasks(r, arrays'), UNCHANGED <<db, answered>>
  PROVE  /\ ConnectorOK'
         /\ \/ inFlight' = inFlight /\ inFlight # NoRequest /\ nextReqs' = nextReqs \o r
            \/ /\ inFlight = NoRequest /\ nextReqs = <<>>
               /\ r = <<>> /\ inFlight' = NoRequest /\ nextReqs' = <<>>
            \/ /\ inFlight = NoRequest /\ nextReqs = <<>>
               /\ r # <<>> /\ nextReqs' = Tail(r)
               /\ inFlight'.op = r[1].op /\ inFlight'.upto = r[1].upto
<1> DEFINE p == emitted - size
<1>1. CASE inFlight = NoRequest
  <2>1. /\ write_first(r, arrays') /\ nextReqs = <<>> /\ ~answered /\ p \in Nat
        /\ Len(db) = p
    BY <1>1, Queue DEF send_tasks, NoLineUncounted
  <2>2. /\ inFlight' \in Written /\ nextReqs' \in Seq(Waiting)
        /\ Good(nextReqs', arrays')
        /\ r = <<>> => inFlight' = NoRequest /\ nextReqs' = <<>> /\ p = e
        /\ r # <<>> => /\ inFlight'.op = r[1].op /\ inFlight'.op \in Ops
                       /\ inFlight'.upto = r[1].upto
                       /\ inFlight'.upto = p + Len(inFlight'.rows)
                       /\ inFlight'.op # "insert" => inFlight'.rows = <<>>
                       /\ nextReqs' = Tail(r)
                       /\ Chain(nextReqs', inFlight'.upto, e)
    <3> HIDE DEF p
    <3>1. Chain(r, p, e)
      BY DEF p
    <3> QED BY <2>1, <3>1, WriteFirst
  <2>3. CASE r = <<>>
    <3>1. inFlight' = NoRequest /\ nextReqs' = <<>> /\ Len(db') = emitted' - size'
      BY <2>1, <2>2, <2>3
    <3> QED BY <1>1, <2>1, <2>2, <2>3, <3>1 DEF ConnectorOK, NoLineUncounted, NoRequest
  <2>4. CASE r # <<>>
    <3>1. inFlight'.op # "none" /\ inFlight' # NoRequest
      BY <2>2, <2>4 DEF Ops, NoRequest
    <3>2. Len(inFlight'.rows) \in Nat
      BY <2>2, LenProperties DEF Written
    <3>3. Len(db') = inFlight'.upto - IF answered' THEN 0 ELSE Len(inFlight'.rows)
      BY <2>1, <2>2, <2>4, <3>2
    <3>4. NoLineUncounted'
      BY <2>2, <2>4, <3>1, <3>3, ChainCounts
    <3> QED BY <1>1, <2>1, <2>2, <2>4, <3>1, <3>4 DEF ConnectorOK
  <2> QED BY <2>3, <2>4
<1>2. CASE inFlight # NoRequest
  <2>1. /\ inFlight' = inFlight /\ nextReqs' = nextReqs \o r
        /\ nextReqs \in Seq(Waiting) /\ inFlight.op # "none"
        /\ inFlight.upto \in Nat /\ p \in Nat /\ Chain(nextReqs, inFlight.upto, p)
        /\ Len(db) = inFlight.upto - IF answered THEN 0 ELSE Len(inFlight.rows)
    BY <1>2, Queue DEF send_tasks, NoLineUncounted
  <2>2. nextReqs' \in Seq(Waiting) /\ Good(nextReqs', arrays')
    BY <2>1, GoodConcat
  <2>3. Chain(nextReqs', inFlight'.upto, e)
    <3> HIDE DEF p
    <3>1. Chain(r, p, e)
      BY DEF p
    <3> QED BY <2>1, <3>1, ChainConcat
  <2>4. NoLineUncounted'
    BY <1>2, <2>1, <2>2, <2>3, ChainCounts
  <2>5. inFlight' \in Written /\ (inFlight'.op # "insert" => inFlight'.rows = <<>>)
    BY <2>1 DEF TypeOK, OnlyInsertsCarry
  <2> QED BY <1>2, <2>1, <2>2, <2>4, <2>5 DEF ConnectorOK
<1> QED BY <1>1, <1>2

\* A result frees the pipe for the next request, the callback's own one included.
LEMMA ResultHandled ==
  ASSUME TypeOK, NoLineUncounted, Filled, OnlyInsertsCarry,
         NEW r \in Seq(Waiting), Good(r, arrays), result(r),
         Chain(r, emitted - size, emitted - size)
  PROVE  /\ ConnectorOK' /\ answered' = FALSE /\ nextReqs \o r \in Seq(Waiting)
         /\ \/ nextReqs \o r = <<>> /\ inFlight' = NoRequest /\ nextReqs' = <<>>
            \/ /\ nextReqs \o r # <<>> /\ nextReqs' = Tail(nextReqs \o r)
               /\ inFlight'.op = (nextReqs \o r)[1].op
               /\ inFlight'.upto = (nextReqs \o r)[1].upto
<1> DEFINE p == emitted - size
           q == nextReqs \o r
<1>1. /\ answered /\ answered' = FALSE /\ write_first(q, arrays)
      /\ UNCHANGED <<emitted, arrays, size, db, cursor, cursorOpen>>
  BY DEF result, logBuffer, database
<1>2. /\ nextReqs \in Seq(Waiting) /\ Good(nextReqs, arrays) /\ p \in Nat
      /\ inFlight # NoRequest /\ inFlight.upto \in Nat /\ Chain(nextReqs, inFlight.upto, p)
      /\ Len(db) = inFlight.upto
  BY <1>1, Queue DEF NoLineUncounted
<1>3. q \in Seq(Waiting) /\ Good(q, arrays) /\ Chain(q, inFlight.upto, p)
  <2> HIDE DEF p
  <2>1. Chain(r, p, p)
    BY DEF p
  <2> QED BY <1>2, <2>1, GoodConcat, ChainConcat
<1>4. arrays \in Seq(Seq(0 .. MaxLogs))
  BY DEF TypeOK
<1> HIDE DEF q
<1>5. /\ inFlight' \in Written /\ nextReqs' \in Seq(Waiting)
      /\ Good(nextReqs', arrays')
      /\ q = <<>> => inFlight' = NoRequest /\ nextReqs' = <<>> /\ inFlight.upto = p
      /\ q # <<>> => /\ inFlight'.op = q[1].op /\ inFlight'.op \in Ops
                     /\ inFlight'.upto = q[1].upto
                     /\ inFlight'.upto = inFlight.upto + Len(inFlight'.rows)
                     /\ inFlight'.op # "insert" => inFlight'.rows = <<>>
                     /\ nextReqs' = Tail(q)
                     /\ Chain(nextReqs', inFlight'.upto, p)
  <2> HIDE DEF p
  <2> QED BY <1>1, <1>2, <1>3, <1>4, WriteFirst
<1>6. CASE q = <<>>
  <2>1. inFlight' = NoRequest /\ nextReqs' = <<>> /\ Len(db') = emitted' - size'
    BY <1>1, <1>2, <1>5, <1>6
  <2> QED BY <1>1, <1>3, <1>5, <1>6, <2>1 DEF ConnectorOK, NoLineUncounted, NoRequest, q
<1>7. CASE q # <<>>
  <2>1. inFlight'.op # "none" /\ inFlight' # NoRequest
    BY <1>5, <1>7 DEF Ops, NoRequest
  <2>2. Len(inFlight'.rows) \in Nat
    BY <1>5, LenProperties DEF Written
  <2>3. Len(db') = inFlight'.upto - IF answered' THEN 0 ELSE Len(inFlight'.rows)
    BY <1>1, <1>2, <1>5, <1>7, <2>2
  <2>4. NoLineUncounted'
    BY <1>1, <1>5, <1>7, <2>1, <2>3, ChainCounts
  <2> QED BY <1>1, <1>3, <1>5, <1>7, <2>1, <2>4 DEF ConnectorOK, q
<1> QED BY <1>6, <1>7

-----------------------------------------------------------------------------
(***************************************************************************)
(* The arrays.                                                             *)
(***************************************************************************)

\* Concatenation, by the two parts of the result
LEMMA Concat ==
  ASSUME NEW S, NEW s \in Seq(S), NEW t \in Seq(S)
  PROVE  /\ s \o t \in Seq(S) /\ Len(s \o t) = Len(s) + Len(t)
         /\ \A i \in 1 .. Len(s) : (s \o t)[i] = s[i]
         /\ \A i \in 1 .. Len(t) : (s \o t)[Len(s) + i] = t[i]
OBVIOUS

\* The lines of the buffer followed by the new ones
LEMMA ArrayStart ==
  ASSUME NEW S, Lines \subseteq S, NEW b \in Seq(S), NEW m \in 0 .. Len(b),
         NEW lines \in Seq(Lines), \A j \in 1 .. m : b[j] \in Lines
  PROVE  /\ SubSeq(b, 1, m) \o lines \in Seq(S)
         /\ Len(SubSeq(b, 1, m) \o lines) = m + Len(lines)
         /\ \A j \in 1 .. (m + Len(lines)) : (SubSeq(b, 1, m) \o lines)[j] \in Lines
<1> DEFINE a == SubSeq(b, 1, m)
<1>1. /\ a \in Seq(S) /\ Len(a) = m /\ \A j \in 1 .. m : a[j] = b[j]
      /\ m \in Nat
  OBVIOUS
<1>2. /\ lines \in Seq(S) /\ Len(lines) \in Nat /\ \A j \in 1 .. Len(lines) : lines[j] \in Lines
  BY SeqMonotonic, ElementOfSeq, LenProperties
<1> HIDE DEF a
<1>3. /\ a \o lines \in Seq(S) /\ Len(a \o lines) = m + Len(lines)
      /\ \A i \in 1 .. m : (a \o lines)[i] = a[i]
      /\ \A i \in 1 .. Len(lines) : (a \o lines)[m + i] = lines[i]
  <2>1. /\ a \o lines \in Seq(S) /\ Len(a \o lines) = Len(a) + Len(lines)
        /\ \A i \in 1 .. Len(a) : (a \o lines)[i] = a[i]
        /\ \A i \in 1 .. Len(lines) : (a \o lines)[Len(a) + i] = lines[i]
    <3>1. a \in Seq(S) /\ lines \in Seq(S)
      BY <1>1, <1>2
    <3> QED BY <3>1, Concat
  <2> QED BY <1>1, <2>1
<1> DEFINE c == a \o lines
<1> HIDE DEF c
<1>4. ASSUME NEW j \in 1 .. (m + Len(lines))
      PROVE  c[j] \in Lines
  <2>1. CASE j <= m
    BY <1>1, <1>3, <2>1 DEF c
  <2>2. CASE ~(j <= m)
    <3>1. j - m \in 1 .. Len(lines) /\ m + (j - m) = j
      BY <1>1, <1>2, <2>2
    <3>2. c[m + (j - m)] = lines[j - m]
      BY <1>3, <3>1 DEF c
    <3> QED BY <1>2, <3>1, <3>2
  <2> QED BY <2>1, <2>2
<1> QED BY <1>3, <1>4 DEF a, c

\* followed by the rest of the array
LEMMA ArrayRest ==
  ASSUME NEW S, NEW b \in Seq(S), NEW c \in Seq(S), Len(c) <= Len(b)
  PROVE  LET d == c \o SubSeq(b, Len(c) + 1, Len(b)) IN
         /\ d \in Seq(S) /\ Len(d) = Len(b)
         /\ \A j \in 1 .. Len(b) : d[j] = IF j <= Len(c) THEN c[j] ELSE b[j]
<1> DEFINE n == Len(c)
           z == SubSeq(b, n + 1, Len(b))
           d == c \o z
<1>1. /\ z \in Seq(S) /\ Len(z) = Len(b) - n /\ Len(b) \in Nat /\ n \in Nat
      /\ \A j \in 1 .. Len(z) : z[j] = b[n + j]
  OBVIOUS
<1> HIDE DEF z, d
<1>2. /\ d \in Seq(S) /\ Len(d) = n + Len(z)
      /\ \A i \in 1 .. n : d[i] = c[i]
      /\ \A i \in 1 .. Len(z) : d[n + i] = z[i]
  <2>1. /\ c \o z \in Seq(S) /\ Len(c \o z) = Len(c) + Len(z)
        /\ \A i \in 1 .. Len(c) : (c \o z)[i] = c[i]
        /\ \A i \in 1 .. Len(z) : (c \o z)[Len(c) + i] = z[i]
    <3>1. c \in Seq(S) /\ z \in Seq(S)
      BY <1>1
    <3> QED BY <3>1, Concat
  <2> QED BY <1>1, <2>1 DEF d
<1> HIDE DEF n
<1>3. ASSUME NEW j \in 1 .. Len(b)
      PROVE  d[j] = IF j <= n THEN c[j] ELSE b[j]
  <2>1. CASE j <= n
    BY <1>2, <2>1
  <2>2. CASE ~(j <= n)
    <3>1. j - n \in 1 .. Len(z) /\ n + (j - n) = j
      BY <1>1, <2>2
    <3>2. d[n + (j - n)] = z[j - n] /\ z[j - n] = b[n + (j - n)]
      BY <1>1, <1>2, <3>1
    <3> QED BY <2>2, <3>1, <3>2
  <2> QED BY <2>1, <2>2
<1>4. d \in Seq(S) /\ Len(d) = Len(b)
  BY <1>1, <1>2
<1> QED BY <1>3, <1>4 DEF d, z, n

\* append() keeps the content of the views, and puts the new lines after the others.
LEMMA AppendKeepsViews ==
  ASSUME TypeOK, Filled, Good(nextReqs, arrays), NEW k \in Nat, NEW lines \in Seq(Lines),
         Len(lines) = k
  PROVE  LET arrs == append(lines) IN
         /\ arrs \in Seq(Seq(0 .. MaxLogs)) /\ arrs # <<>> /\ Len(arrs) \in DOMAIN arrs
         /\ size + k \in 0 .. Len(arrs[Len(arrs)])
         /\ \A j \in 1 .. (size + k) : arrs[Len(arrs)][j] \in Lines
         /\ Good(nextReqs, arrs)
<1> DEFINE L == Len(arrays)
           b == arrays[L]
           c == SubSeq(b, 1, size) \o lines
           d == c \o SubSeq(b, size + k + 1, Len(b))
           arrs == append(lines)
<1>1. /\ arrays \in Seq(Seq(0 .. MaxLogs)) /\ L \in Nat \ {0} /\ L \in DOMAIN arrays
      /\ DOMAIN arrays = 1 .. L
      /\ b \in Seq(0 .. MaxLogs) /\ size \in 0 .. Len(b) /\ size \in Nat /\ Len(b) \in Nat
      /\ \A j \in 1 .. size : b[j] \in Lines
      /\ nextReqs \in Seq(Waiting)
  BY EmptySeq, LenProperties DEF TypeOK, Filled, _buffer
<1>2. /\ c \in Seq(0 .. MaxLogs) /\ Len(c) = size + k
      /\ \A j \in 1 .. (size + k) : c[j] \in Lines
      /\ size + k <= Len(b) =>
            /\ d \in Seq(0 .. MaxLogs) /\ Len(d) = Len(b)
            /\ \A j \in 1 .. (size + k) : d[j] \in Lines
            /\ \A j \in 1 .. Len(b) : b[j] \in Lines => d[j] \in Lines
  <2> HIDE DEF b
  <2> DEFINE S == 0 .. MaxLogs
  <2>1. Lines \subseteq S
    BY LogPipelineAssumption DEF Lines
  <2>2. b \in Seq(S) /\ size \in 0 .. Len(b) /\ \A j \in 1 .. size : b[j] \in Lines
    BY <1>1
  <2> HIDE DEF S, b
  <2>3. /\ c \in Seq(S) /\ Len(c) = size + k
        /\ \A j \in 1 .. (size + k) : c[j] \in Lines
    BY <2>1, <2>2, ArrayStart
  <2> HIDE DEF c
  <2>4. ASSUME size + k <= Len(b)
        PROVE  /\ d \in Seq(S) /\ Len(d) = Len(b)
               /\ \A j \in 1 .. (size + k) : d[j] \in Lines
               /\ \A j \in 1 .. Len(b) : b[j] \in Lines => d[j] \in Lines
    <3> DEFINE n == size + k
    <3>1. n \in Nat /\ n <= Len(b) /\ Len(c) = n /\ \A j \in 1 .. n : c[j] \in Lines
      BY <1>1, <2>3, <2>4
    <3>2. d = c \o SubSeq(b, Len(c) + 1, Len(b))
      BY <3>1
    <3> HIDE DEF n, d
    <3>3. /\ d \in Seq(S) /\ Len(d) = Len(b)
          /\ \A j \in 1 .. n : d[j] \in Lines
          /\ \A j \in 1 .. Len(b) : b[j] \in Lines => d[j] \in Lines
      <4> DEFINE e == c \o SubSeq(b, Len(c) + 1, Len(b))
      <4>0. c \in Seq(S) /\ b \in Seq(S) /\ Len(c) <= Len(b)
        BY <2>2, <2>3, <3>1
      <4>1. /\ e \in Seq(S) /\ Len(e) = Len(b)
            /\ \A j \in 1 .. Len(b) : e[j] = IF j <= Len(c) THEN c[j] ELSE b[j]
        BY <4>0, ArrayRest
      <4> HIDE DEF e
      <4>2. d = e
        BY <3>2 DEF e
      <4> QED BY <1>1, <3>1, <4>1, <4>2
    <3> QED BY <3>3 DEF n
  <2> QED BY <2>3, <2>4 DEF S
<1>3. arrs = IF size + k > Len(b) THEN Append(arrays, c) ELSE [arrays EXCEPT ![L] = d]
  BY DEF append, _buffer
<1> HIDE DEF b, c, d, arrs, L
<1>4. CASE size + k > Len(b)
  <2>1. /\ arrs \in Seq(Seq(0 .. MaxLogs)) /\ Len(arrs) = L + 1 /\ arrs[L + 1] = c
        /\ DOMAIN arrs = 1 .. (L + 1) /\ arrs # <<>>
        /\ \A i \in 1 .. L : arrs[i] = arrays[i]
    <3>1. arrs = Append(arrays, c)
      BY <1>3, <1>4
    <3>2. /\ arrs \in Seq(Seq(0 .. MaxLogs)) /\ Len(arrs) = L + 1 /\ arrs[L + 1] = c
          /\ \A i \in 1 .. L : arrs[i] = arrays[i]
      BY <1>1, <1>2, <3>1, AppendProperties DEF L
    <3> QED BY <1>1, <3>2, EmptySeq, LenProperties
  <2>2. Good(nextReqs, arrs)
    BY SMTT(20), <1>1, <2>1 DEF Good
  <2> QED BY <1>1, <1>2, <1>4, <2>1, <2>2 DEF arrs
<1>5. CASE ~(size + k > Len(b))
  <2>1. /\ arrs \in Seq(Seq(0 .. MaxLogs)) /\ Len(arrs) = L /\ arrs[L] = d
        /\ DOMAIN arrs = 1 .. L /\ arrs # <<>>
        /\ \A i \in 1 .. L : i # L => arrs[i] = arrays[i]
    <3>1. arrs = [arrays EXCEPT ![L] = d] /\ d \in Seq(0 .. MaxLogs)
      BY <1>1, <1>2, <1>3, <1>5
    <3>2. /\ arrs \in Seq(Seq(0 .. MaxLogs)) /\ Len(arrs) = L
          /\ DOMAIN arrs = 1 .. L /\ arrs[L] = d
          /\ \A i \in 1 .. L : i # L => arrs[i] = arrays[i]
      BY <1>1, <3>1 DEF L
    <3> QED BY <1>1, <3>2, EmptySeq
  <2>2. size + k <= Len(b)
    BY <1>1, <1>5
  <2>3. ASSUME NEW i \in DOMAIN nextReqs
        PROVE  /\ nextReqs[i].array \in DOMAIN arrs
               /\ nextReqs[i].len \in 0 .. Len(arrs[nextReqs[i].array])
               /\ \A j \in 1 .. nextReqs[i].len : arrs[nextReqs[i].array][j] \in Lines
               /\ nextReqs[i].op # "insert" => nextReqs[i].len = 0
    <3> DEFINE v == nextReqs[i].array
               n == nextReqs[i].len
    <3>1. v \in 1 .. L /\ n \in 0 .. Len(arrays[v]) /\ \A j \in 1 .. n : arrays[v][j] \in Lines
      BY <1>1 DEF Good
    <3>2. nextReqs[i].op # "insert" => nextReqs[i].len = 0
      BY DEF Good
    <3> HIDE DEF v, n
    <3>3. CASE v = L
      <4>1. Len(arrays[v]) = Len(b) /\ arrs[v] = d /\ arrays[v] = b
        BY <2>1, <3>3 DEF b
      <4> QED BY <1>1, <1>2, <2>1, <2>2, <3>1, <3>2, <4>1 DEF v, n
    <3>4. CASE v # L
      BY <2>1, <3>1, <3>2, <3>4 DEF v, n
    <3> QED BY <3>3, <3>4
  <2> QED BY <1>1, <1>2, <2>1, <2>2, <2>3 DEF Good, arrs
<1> QED BY <1>4, <1>5

-----------------------------------------------------------------------------
(***************************************************************************)
(* The history of the client.                                              *)
(***************************************************************************)

\* Requests that are not about the history do not disturb it.
LEMMA SendKeepsHistory ==
  ASSUME TypeOK, OneHistoryRequest, HistoryStage, NEW r \in Seq(Waiting),
         \A i \in DOMAIN r : r[i].op \notin HistoryOps,
         phase = "history" => phase' = "history" /\ UNCHANGED <<received, since, closed>>,
         UNCHANGED <<answered, block, cursor>>,
         \/ inFlight' = inFlight /\ inFlight # NoRequest /\ nextReqs' = nextReqs \o r
         \/ /\ inFlight = NoRequest /\ nextReqs = <<>>
            /\ r = <<>> /\ inFlight' = NoRequest /\ nextReqs' = <<>>
         \/ /\ inFlight = NoRequest /\ nextReqs = <<>>
            /\ r # <<>> /\ nextReqs' = Tail(r)
            /\ inFlight'.op = r[1].op /\ inFlight'.upto = r[1].upto
  PROVE  OneHistoryRequest' /\ HistoryStage'
<1>1. CASE inFlight' = inFlight /\ inFlight # NoRequest /\ nextReqs' = nextReqs \o r
  <2>1. nextReqs \in Seq(Waiting) /\ Len(nextReqs) \in Nat
    BY DEF TypeOK
  <2>2. ASSUME NEW i \in DOMAIN nextReqs', nextReqs'[i].op \in HistoryOps
        PROVE  i \in DOMAIN nextReqs /\ nextReqs'[i] = nextReqs[i]
    BY <1>1, <2>1, <2>2
  <2>3. OneHistoryRequest'
    BY <1>1, <2>2 DEF OneHistoryRequest
  <2>4. ASSUME NEW i \in DOMAIN nextReqs'
        PROVE  Stage(nextReqs[i].op, nextReqs[i].upto)'
    <3>1. CASE nextReqs'[i].op \in HistoryOps
      <4>1. i \in DOMAIN nextReqs /\ nextReqs'[i] = nextReqs[i] /\ phase = "history"
        BY <2>2, <3>1 DEF OneHistoryRequest
      <4>2. Stage(nextReqs[i].op, nextReqs[i].upto)
        BY <4>1 DEF HistoryStage
      <4> QED BY <4>1, <4>2 DEF Stage
    <3>2. CASE nextReqs'[i].op \notin HistoryOps
      BY <3>2 DEF Stage, HistoryOps
    <3> QED BY <3>1, <3>2
  <2>5. IF answered' THEN ResultStage' ELSE Stage(inFlight.op, inFlight.upto)'
    <3>1. CASE inFlight.op \in HistoryOps
      <4>1. phase = "history"
        BY <3>1 DEF OneHistoryRequest
      <4> QED BY <1>1, <4>1 DEF HistoryStage, ResultStage, Stage
    <3>2. CASE inFlight.op \notin HistoryOps
      BY <1>1, <3>2 DEF ResultStage, Stage, HistoryOps
    <3> QED BY <3>1, <3>2
  <2> QED BY <2>3, <2>4, <2>5 DEF HistoryStage
<1>2. CASE inFlight = NoRequest /\ r = <<>> /\ inFlight' = NoRequest /\ nextReqs' = <<>>
  BY <1>2 DEF OneHistoryRequest, HistoryStage, Stage, ResultStage, NoRequest, HistoryOps
<1>3. CASE /\ inFlight = NoRequest /\ r # <<>> /\ nextReqs' = Tail(r)
           /\ inFlight'.op = r[1].op /\ inFlight'.upto = r[1].upto
  <2>1. inFlight'.op \notin HistoryOps
    BY <1>3
  <2>2. ASSUME NEW i \in DOMAIN nextReqs' PROVE nextReqs'[i].op \notin HistoryOps
    BY <1>3
  <2> QED BY <2>1, <2>2 DEF OneHistoryRequest, HistoryStage, Stage, ResultStage, HistoryOps
<1> QED BY <1>1, <1>2, <1>3

\* The stage after a step, for a request known before it
StageNext(op, upto) ==
    /\ op = "create" => received' = <<>> /\ upto = since'
    /\ op = "step" => closed' \/ Len(received') + Len(cursor') = since'
    /\ op = "delete" => closed' \/ Len(received') = since'

\* The first of the requests is written, and the history is at its stage.
LEMMA WriteKeepsHistory ==
  ASSUME NEW q \in Seq(Waiting), answered' = FALSE,
         \A i \in DOMAIN q : q[i].op \in HistoryOps =>
             /\ phase' = "history" /\ StageNext(q[i].op, q[i].upto)
             /\ \A j \in DOMAIN q : q[j].op \in HistoryOps => i = j,
         \/ q = <<>> /\ inFlight' = NoRequest /\ nextReqs' = <<>>
         \/ /\ q # <<>> /\ nextReqs' = Tail(q)
            /\ inFlight'.op = q[1].op /\ inFlight'.upto = q[1].upto
  PROVE  OneHistoryRequest' /\ HistoryStage'
<1>1. CASE q = <<>> /\ inFlight' = NoRequest /\ nextReqs' = <<>>
  BY <1>1 DEF OneHistoryRequest, HistoryStage, Stage, ResultStage, NoRequest, HistoryOps
<1>2. CASE /\ q # <<>> /\ nextReqs' = Tail(q)
           /\ inFlight'.op = q[1].op /\ inFlight'.upto = q[1].upto
  <2>1. 1 \in DOMAIN q /\ Len(q) \in Nat
    BY <1>2
  <2>2. ASSUME NEW i \in DOMAIN nextReqs'
        PROVE  i + 1 \in DOMAIN q /\ nextReqs'[i] = q[i + 1] /\ i \in Nat \ {0}
    BY <1>2, <2>1
  <2>3. OneHistoryRequest'
    <3>1. phase' # "history" => inFlight'.op \notin HistoryOps
      BY <1>2, <2>1
    <3>2. ASSUME NEW i \in DOMAIN nextReqs', nextReqs'[i].op \in HistoryOps
          PROVE  /\ phase' = "history" /\ inFlight'.op \notin HistoryOps
                 /\ \A j \in DOMAIN nextReqs' : nextReqs'[j].op \in HistoryOps => i = j
      <4>1. i + 1 \in DOMAIN q /\ q[i + 1].op \in HistoryOps /\ i \in Nat \ {0}
        BY <2>2, <3>2
      <4>2. phase' = "history" /\ q[1].op \notin HistoryOps
        BY <2>1, <4>1
      <4>3. ASSUME NEW j \in DOMAIN nextReqs', nextReqs'[j].op \in HistoryOps PROVE i = j
        <5>1. j + 1 \in DOMAIN q /\ q[j + 1].op \in HistoryOps /\ j \in Nat \ {0}
          BY <2>2, <4>3
        <5> QED BY <4>1, <5>1
      <4> QED BY <1>2, <4>2, <4>3
    <3> QED BY <3>1, <3>2 DEF OneHistoryRequest
  <2>4. ASSUME NEW i \in DOMAIN q
        PROVE  StageNext(q[i].op, q[i].upto)
    <3>1. CASE q[i].op \in HistoryOps
      BY <3>1
    <3>2. CASE q[i].op \notin HistoryOps
      BY <3>2 DEF StageNext, HistoryOps
    <3> QED BY <3>1, <3>2
  <2>5. Stage(inFlight.op, inFlight.upto)'
    BY <1>2, <2>1, <2>4 DEF Stage, StageNext
  <2>6. ASSUME NEW i \in DOMAIN nextReqs'
        PROVE  Stage(nextReqs[i].op, nextReqs[i].upto)'
    BY <2>2, <2>4 DEF Stage, StageNext
  <2> QED BY <2>3, <2>5, <2>6 DEF HistoryStage
<1> QED BY <1>1, <1>2

\* After f lines, the sequence has those from b + 1 to e.
Follows(s, f, b, e) == Len(s) = f + (e - b) /\ \A i \in 1 .. (e - b) : s[f + i] = b + i

LEMMA MoreLines ==
  ASSUME NEW s \in Seq(Lines), NEW t \in Seq(Lines),
         NEW f \in Nat, NEW g \in Nat, NEW e \in 0 .. g, NEW b \in 0 .. e,
         Follows(s, f, b, e), Follows(t, 0, e, g)
  PROVE  s \o t \in Seq(Lines) /\ Follows(s \o t, f, b, g)
<1> DEFINE u == s \o t
<1>1. /\ u \in Seq(Lines) /\ Len(u) = Len(s) + Len(t)
      /\ \A i \in 1 .. Len(s) : u[i] = s[i]
      /\ \A i \in 1 .. Len(t) : u[Len(s) + i] = t[i]
  BY Concat
<1> HIDE DEF u
<1>2. /\ Len(s) = f + (e - b) /\ \A i \in 1 .. (e - b) : s[f + i] = b + i
      /\ Len(t) = g - e /\ \A i \in 1 .. (g - e) : t[i] = e + i
  BY DEF Follows
<1>3. Len(u) = f + (g - b)
  BY <1>1, <1>2
<1>4. ASSUME NEW i \in 1 .. (g - b)
      PROVE  u[f + i] = b + i
  <2>1. CASE i <= e - b
    <3>1. f + i \in 1 .. Len(s) /\ i \in 1 .. (e - b)
      BY <1>2, <2>1
    <3> QED BY <1>1, <1>2, <3>1
  <2>2. CASE ~(i <= e - b)
    <3> DEFINE j == i - (e - b)
    <3>1. j \in 1 .. Len(t) /\ j \in 1 .. (g - e) /\ Len(s) + j = f + i /\ e + j = b + i
      BY <1>2, <2>2
    <3> HIDE DEF j
    <3>2. u[Len(s) + j] = t[j] /\ t[j] = e + j
      BY <1>1, <1>2, <3>1
    <3> QED BY <3>1, <3>2
  <2> QED BY <2>1, <2>2
<1> QED BY <1>1, <1>3, <1>4 DEF u, Follows

-----------------------------------------------------------------------------
(***************************************************************************)
(* The steps.                                                              *)
(***************************************************************************)

LEMMA InitInv == Init => IInv
<1> SUFFICES ASSUME Init PROVE IInv
  OBVIOUS
<1> DEFINE a == [i \in 1 .. (2 * PendingSize) |-> 0]
<1>1. a \in Seq(0 .. MaxLogs) /\ arrays = <<a>>
  BY LogPipelineAssumption DEF Init
<1> HIDE DEF a
<1>2. /\ arrays \in Seq(Seq(0 .. MaxLogs)) /\ arrays # <<>> /\ Len(arrays) = 1
      /\ Len(arrays[Len(arrays)]) \in Nat
  BY <1>1
<1>3. NoRequest \in Written
  BY DEF NoRequest, Written
<1>4. TypeOK
  <2>1. <<>> \in Seq(Lines) /\ <<>> \in Seq(Waiting) /\ Len(<<>>) = 0 /\ DOMAIN <<>> = {}
    BY EmptySeq
  <2>2. /\ size \in 0 .. Len(_buffer) /\ emitted \in 0 .. MaxLogs /\ since \in 0 .. emitted
        /\ flushEvents \in Nat
    BY <1>2, LogPipelineAssumption DEF Init, _buffer
  <2>3. /\ db \in Seq(Lines) /\ cursor \in Seq(Lines)
        /\ block \in Seq(Lines) /\ Len(block) <= BlockSize
        /\ received \in Seq(Lines) /\ realtimeBuffer \in Seq(Lines)
    BY <2>1, LogPipelineAssumption DEF Init
  <2>4. /\ nextReqs \in Seq(Waiting) /\ nextReqs = <<>>
        /\ inFlight = NoRequest /\ inFlight \in Written
    BY <1>3, <2>1 DEF Init
  <2>5. /\ answered = FALSE /\ cursorOpen = FALSE /\ closed = FALSE /\ phase = "none"
        /\ params = [history |-> FALSE, realtime |-> FALSE]
    BY DEF Init
  <2> QED BY <1>2, <2>1, <2>2, <2>3, <2>4, <2>5 DEF TypeOK
<1>5. NoLineUncounted /\ HistoryMeetsRealtime
  BY DEF NoLineUncounted, HistoryMeetsRealtime, Init, NoRequest
<1>6. /\ Filled /\ OnlyInsertsCarry /\ OneHistoryRequest /\ RealtimeFollows
  BY DEF Filled, OnlyInsertsCarry, OneHistoryRequest, RealtimeFollows, Init, NoRequest,
         HistoryOps
<1>7. HistoryStage
  BY DEF HistoryStage, Stage, ResultStage, Init, NoRequest
<1> QED BY <1>4, <1>5, <1>6, <1>7 DEF IInv

\* The parts of the invariant about the requests and the lines they carry
PipelineOK ==
    /\ nextReqs \in Seq(Waiting)
    /\ \A i \in DOMAIN nextReqs :
           /\ nextReqs[i].array \in DOMAIN arrays
           /\ nextReqs[i].len \in 0 .. Len(arrays[nextReqs[i].array])
    /\ inFlight \in Written
    /\ inFlight.op = "none" => inFlight = NoRequest /\ nextReqs = <<>> /\ ~answered
    /\ NoLineUncounted /\ Filled /\ OnlyInsertsCarry

LEMMA PipelineParts == PipelineOK' => NoLineUncounted' /\ Filled' /\ OnlyInsertsCarry'
BY DEF PipelineOK

\* What the connector keeps, in the terms of the invariant
LEMMA ConnectorKept ==
  ASSUME ConnectorOK', arrays' \in Seq(Seq(0 .. MaxLogs)), arrays' # <<>>,
         \A j \in 1 .. size' : _buffer'[j] \in Lines
  PROVE  PipelineOK'
BY DEF ConnectorOK, Good, Filled, OnlyInsertsCarry, PipelineOK

\* An insert of the lines of the buffer takes them up where the requests before it stop.
LEMMA InsertChains ==
  ASSUME NEW arrs \in Seq(Seq(0 .. MaxLogs)), arrs # <<>>, NEW n \in Nat, NEW p \in Nat,
         n <= Len(arrs[Len(arrs)]), \A j \in 1 .. n : arrs[Len(arrs)][j] \in Lines
  PROVE  LET r == insert_multiple_logs(arrs, n, p + n) IN
         /\ r \in Seq(Waiting) /\ Good(r, arrs) /\ Chain(r, p, p + n)
         /\ \A i \in DOMAIN r : r[i].op \notin HistoryOps
<1> DEFINE r == insert_multiple_logs(arrs, n, p + n)
<1>1. CASE n = 0
  <2>1. r = <<>>
    BY <1>1 DEF insert_multiple_logs
  <2> HIDE DEF r
  <2>2. r \in Seq(Waiting) /\ DOMAIN r = {}
    BY <2>1
  <2>3. Good(r, arrs) /\ Chain(r, p, p + n)
    BY <1>1, <2>1, <2>2 DEF Good, Chain
  <2> QED BY <2>2, <2>3 DEF r
<1>2. CASE n # 0
  <2> DEFINE x == [op |-> "insert", array |-> Len(arrs), len |-> n, upto |-> p + n]
  <2>1. r = <<x>>
    BY <1>2 DEF insert_multiple_logs
  <2>2. Len(arrs) \in DOMAIN arrs /\ Len(arrs) \in Nat
    BY EmptySeq, LenProperties
  <2>3. x \in Waiting
    BY <2>2 DEF Waiting, Ops
  <2>4. r \in Seq(Waiting) /\ r # <<>> /\ Len(r) = 1 /\ DOMAIN r = {1} /\ r[1] = x
    <3> HIDE DEF x, r
    <3>1. /\ <<x>> \in Seq(Waiting) /\ <<x>> # <<>> /\ Len(<<x>>) = 1
          /\ DOMAIN <<x>> = {1} /\ <<x>>[1] = x
      BY <2>3
    <3> QED BY <2>1, <3>1
  <2>5. Len(arrs[Len(arrs)]) \in Nat
    BY <2>2, ElementOfSeq, LenProperties
  <2> HIDE DEF r
  <2>6. Good(r, arrs)
    BY <2>2, <2>4, <2>5 DEF Good
  <2>7. Chain(r, p, p + n)
    BY <2>4 DEF Chain
  <2> QED BY <2>4, <2>6, <2>7 DEF HistoryOps, r
<1> QED BY <1>1, <1>2

\* The request of the history that handle_params() or a callback submits
LEMMA HistoryRequest ==
  ASSUME TypeOK, NEW op \in HistoryOps, NEW p \in Nat
  PROVE  LET r == << request(op, p) >> IN
         /\ r \in Seq(Waiting) /\ Len(r) = 1 /\ r[1] = request(op, p)
         /\ Good(r, arrays) /\ Chain(r, p, p)
<1> DEFINE r == << request(op, p) >>
<1>1. request(op, p) \in Waiting /\ request(op, p).op = op /\ request(op, p).upto = p
      /\ request(op, p).len = 0 /\ request(op, p).array = 1
  BY DEF request, Waiting, Ops, HistoryOps
<1>2. r \in Seq(Waiting) /\ r # <<>> /\ Len(r) = 1 /\ DOMAIN r = {1} /\ r[1] = request(op, p)
  BY <1>1
<1>3. 1 \in DOMAIN arrays /\ Len(arrays[1]) \in Nat
  BY EmptySeq, LenProperties, ElementOfSeq DEF TypeOK
<1> HIDE DEF r
<1>4. Good(r, arrays) /\ Chain(r, p, p)
  BY <1>1, <1>2, <1>3 DEF Good, Chain
<1> QED BY <1>2, <1>4 DEF r

\* The parts of the invariant about the lines that a client receives
LEMMA ClientLogs ==
  ASSUME IInv, NEW lines \in Seq(Lines), NEW e \in Nat, emitted <= e, e <= MaxLogs,
         Follows(lines, 0, emitted, e), client_log(lines), emitted' = e
  PROVE  /\ HistoryMeetsRealtime' /\ RealtimeFollows'
         /\ realtimeBuffer' \in Seq(Lines) /\ received' \in Seq(Lines)
         /\ phase' \in {"none", "history", "sending", "over"}
         /\ params' = params /\ since' = since /\ closed' = closed
         /\ phase = "history" => phase' = "history" /\ received' = received
<1>1. /\ emitted \in Nat /\ since \in 0 .. emitted /\ since \in 0 .. e /\ emitted \in 0 .. e
      /\ received \in Seq(Lines) /\ realtimeBuffer \in Seq(Lines)
      /\ phase \in {"none", "history", "sending", "over"}
  BY LogPipelineAssumption DEF IInv, TypeOK
<1>2. params' = params /\ since' = since /\ closed' = closed
  BY DEF client_log
<1> DEFINE first == IF params.history THEN since ELSE 0
<1>3. first \in Nat
  BY <1>1
<1>4. phase = "sending" /\ ~closed => Follows(received, first, since, emitted)
  BY DEF IInv, HistoryMeetsRealtime, Follows
<1>5. phase = "history" /\ params.realtime => Follows(realtimeBuffer, 0, since, emitted)
  BY <1>1 DEF IInv, RealtimeFollows, Follows
<1>6. CASE params.realtime /\ phase = "history"
  <2>1. realtimeBuffer' = realtimeBuffer \o lines /\ phase' = phase /\ received' = received
    BY <1>6 DEF client_log
  <2>2. realtimeBuffer' \in Seq(Lines) /\ Follows(realtimeBuffer', 0, since, e)
    BY <1>1, <1>5, <1>6, <2>1, MoreLines
  <2> QED BY <1>1, <1>2, <1>6, <2>1, <2>2
         DEF HistoryMeetsRealtime, RealtimeFollows, Follows, IInv
<1>7. CASE params.realtime /\ phase = "sending" /\ closed
  BY <1>1, <1>2, <1>7 DEF client_log, HistoryMeetsRealtime, RealtimeFollows, IInv
<1>8. CASE params.realtime /\ phase = "sending" /\ ~closed
  <2>1. received' = received \o lines /\ phase' = phase /\ realtimeBuffer' = realtimeBuffer
    BY <1>8 DEF client_log
  <2>2. received' \in Seq(Lines) /\ Follows(received', first, since, e)
    <3>1. Follows(received, first, since, emitted)
      BY <1>4, <1>8
    <3> HIDE DEF first
    <3> QED BY <1>1, <1>3, <2>1, <3>1, MoreLines
  <2>3. HistoryMeetsRealtime'
    BY <1>2, <2>2 DEF HistoryMeetsRealtime, Follows
  <2>4. RealtimeFollows'
    BY <1>2, <1>8, <2>1 DEF RealtimeFollows
  <2> QED BY <1>1, <1>2, <1>8, <2>1, <2>2, <2>3, <2>4
<1>9. CASE ~params.realtime \/ phase \notin {"history", "sending"}
  <2>1. received' = received /\ phase' = phase /\ realtimeBuffer' = realtimeBuffer
    BY <1>9 DEF client_log
  <2>2. phase # "sending"
    BY <1>9 DEF IInv, RealtimeFollows
  <2> QED BY <1>1, <1>2, <1>9, <2>1, <2>2 DEF HistoryMeetsRealtime, RealtimeFollows, IInv
<1> QED BY <1>1, <1>6, <1>7, <1>8, <1>9

LEMMA LogStep ==
  ASSUME IInv, NEW k \in 1 .. MaxBatch, Log(k)
  PROVE  IInv'
<1> DEFINE lines == [i \in 1 .. k |-> emitted + i]
           arrs == append(lines)
           n == size + k
           p == emitted - size
           e == emitted + k
<1>1. /\ TypeOK /\ NoLineUncounted /\ Filled /\ OnlyInsertsCarry
      /\ OneHistoryRequest /\ HistoryStage
  BY DEF IInv
<1>2. /\ emitted \in Nat /\ size \in Nat /\ k \in Nat \ {0} /\ flushEvents \in Nat
      /\ e \in 0 .. MaxLogs /\ emitted' = e /\ arrays' = arrs
      /\ since \in 0 .. emitted
      /\ UNCHANGED <<answered, block, db, cursor, cursorOpen>>
      /\ client_log(lines)
  BY <1>1, LogPipelineAssumption DEF TypeOK, Log, database, _buffer
<1>3. lines \in Seq(Lines) /\ Len(lines) = k /\ Follows(lines, 0, emitted, e)
  <2>1. \A i \in 1 .. k : emitted + i \in Lines
    BY <1>2, LogPipelineAssumption DEF Lines
  <2>2. lines \in Seq(Lines) /\ Len(lines) = k /\ \A i \in 1 .. k : lines[i] = emitted + i
    BY <1>2, <2>1
  <2> QED BY <1>2, <2>2 DEF Follows
<1> HIDE DEF lines
<1>4. /\ nextReqs \in Seq(Waiting) /\ Good(nextReqs, arrays) /\ p \in Nat
      /\ inFlight = NoRequest => nextReqs = <<>> /\ ~answered
      /\ inFlight # NoRequest =>
            inFlight.op # "none" /\ inFlight.upto \in Nat /\ Chain(nextReqs, inFlight.upto, p)
  BY <1>1, Queue
<1>5. /\ arrs \in Seq(Seq(0 .. MaxLogs)) /\ arrs # <<>> /\ n \in 0 .. Len(arrs[Len(arrs)])
      /\ \A j \in 1 .. n : arrs[Len(arrs)][j] \in Lines
      /\ Good(nextReqs, arrs)
  <2> HIDE DEF arrs
  <2>1. k \in Nat
    BY <1>2
  <2> QED BY <1>1, <1>3, <1>4, <2>1, AppendKeepsViews, Zenon DEF arrs
<1>6. /\ HistoryMeetsRealtime' /\ RealtimeFollows'
      /\ realtimeBuffer' \in Seq(Lines) /\ received' \in Seq(Lines)
      /\ phase' \in {"none", "history", "sending", "over"}
      /\ params' = params /\ since' = since /\ closed' = closed
      /\ phase = "history" => phase' = "history" /\ received' = received
  <2>1. e \in Nat /\ emitted <= e /\ e <= MaxLogs
    BY <1>2, LogPipelineAssumption
  <2> HIDE DEF e
  <2> QED BY <1>2, <1>3, <2>1, ClientLogs
<1>7. arrays' \in Seq(Seq(0 .. MaxLogs)) /\ arrays' # <<>> /\ Good(nextReqs, arrays')
  BY <1>2, <1>5
<1>8. CASE n >= PendingSize
  <2> DEFINE r == insert_multiple_logs(arrs, n, e)
  <2>1. size' = 0 /\ send_tasks(r, arrays') /\ flushEvents' = flushEvents
    BY <1>2, <1>8 DEF Log, lines
  <2>2. p + n = e /\ n \in Nat /\ e \in Nat /\ n <= Len(arrs[Len(arrs)]) /\ e = emitted' - size'
    BY <1>2, <1>5, <2>1
  <2>3. /\ r \in Seq(Waiting) /\ Good(r, arrays') /\ Chain(r, p, e)
        /\ \A i \in DOMAIN r : r[i].op \notin HistoryOps
    <3> HIDE DEF p, n, e, arrs
    <3> QED BY <1>2, <1>4, <1>5, <2>2, InsertChains
  <2> HIDE DEF r
  <2>4. /\ ConnectorOK'
        /\ \/ inFlight' = inFlight /\ inFlight # NoRequest /\ nextReqs' = nextReqs \o r
           \/ /\ inFlight = NoRequest /\ nextReqs = <<>>
              /\ r = <<>> /\ inFlight' = NoRequest /\ nextReqs' = <<>>
           \/ /\ inFlight = NoRequest /\ nextReqs = <<>>
              /\ r # <<>> /\ nextReqs' = Tail(r)
              /\ inFlight'.op = r[1].op /\ inFlight'.upto = r[1].upto
    <3> HIDE DEF e
    <3> QED BY <1>1, <1>2, <1>7, <2>1, <2>2, <2>3, SendTasks
  <2>5. OneHistoryRequest' /\ HistoryStage'
    BY <1>1, <1>2, <1>6, <2>3, <2>4, SendKeepsHistory
  <2>6. \A j \in 1 .. size' : _buffer'[j] \in Lines
    BY <2>1
  <2>7. size' \in 0 .. Len(_buffer')
    <3>1. Len(_buffer') \in Nat
      BY <1>7, EmptySeq, LenProperties, ElementOfSeq DEF _buffer
    <3> QED BY <2>1, <3>1
  <2>8. PipelineOK'
    BY <1>7, <2>4, <2>6, ConnectorKept
  <2>9. TypeOK'
    BY <1>1, <1>2, <1>6, <1>7, <2>1, <2>7, <2>8 DEF TypeOK, PipelineOK
  <2> QED BY <1>6, <2>5, <2>8, <2>9, PipelineParts DEF IInv
<1>9. CASE ~(n >= PendingSize)
  <2>1. /\ size' = n /\ flushEvents' \in Nat /\ nextReqs' = nextReqs /\ inFlight' = inFlight
    BY <1>2, <1>9 DEF Log, lines
  <2>2. emitted' - size' = emitted - size
    BY <1>2, <2>1
  <2>3. ConnectorOK'
    <3>1. NoLineUncounted'
      <4>1. CASE inFlight = NoRequest
        BY <1>1, <1>2, <2>1, <2>2, <4>1 DEF NoLineUncounted
      <4>2. CASE inFlight # NoRequest
        <5>1. /\ Chain(nextReqs', inFlight'.upto, emitted' - size') /\ inFlight' # NoRequest
              /\ nextReqs' \in Seq(Waiting)
          <6> HIDE DEF p
          <6>1. emitted' - size' = p
            BY <2>2 DEF p
          <6> QED BY <1>4, <2>1, <4>2, <6>1
        <5>2. Len(db') = inFlight'.upto - IF answered' THEN 0 ELSE Len(inFlight'.rows)
          BY <1>1, <1>2, <2>1, <4>2 DEF NoLineUncounted
        <5> QED BY <5>1, <5>2, ChainCounts
      <4> QED BY <4>1, <4>2
    <3> QED BY <1>1, <1>2, <1>7, <2>1, <3>1 DEF ConnectorOK, TypeOK, OnlyInsertsCarry
  <2>4. OneHistoryRequest' /\ HistoryStage'
    <3>1. OneHistoryRequest'
      BY <1>1, <1>6, <2>1 DEF OneHistoryRequest
    <3>2. CASE phase = "history"
      <4>1. UNCHANGED <<received, since, closed, cursor, block, answered, nextReqs, inFlight>>
        BY <1>2, <1>6, <2>1, <3>2
      <4>2. ASSUME NEW i \in DOMAIN nextReqs'
            PROVE  Stage(nextReqs[i].op, nextReqs[i].upto)'
        <5>1. Stage(nextReqs[i].op, nextReqs[i].upto)
          BY <1>1, <4>1 DEF HistoryStage
        <5> QED BY <4>1, <5>1 DEF Stage
      <4>3. CASE answered
        <5>1. ResultStage
          BY <1>1, <4>3 DEF HistoryStage
        <5>2. ResultStage'
          BY <4>1, <5>1 DEF ResultStage
        <5>3. answered'
          BY <1>2, <4>3
        <5> QED BY <3>1, <4>2, <5>2, <5>3 DEF HistoryStage
      <4>4. CASE ~answered
        <5>1. Stage(inFlight.op, inFlight.upto)
          BY <1>1, <4>4 DEF HistoryStage
        <5>2. Stage(inFlight.op, inFlight.upto)'
          BY <4>1, <5>1 DEF Stage
        <5>3. ~answered'
          BY <1>2, <4>4
        <5> QED BY <3>1, <4>2, <5>2, <5>3 DEF HistoryStage
      <4> QED BY <4>3, <4>4
    <3>3. CASE phase # "history"
      BY <1>1, <2>1, <3>3 DEF OneHistoryRequest, HistoryStage, Stage, ResultStage, HistoryOps
    <3> QED BY <3>1, <3>2, <3>3
  <2>5. \A j \in 1 .. size' : _buffer'[j] \in Lines
    BY <1>2, <1>5, <2>1 DEF _buffer
  <2>6. size' \in 0 .. Len(_buffer')
    BY <1>2, <1>5, <2>1 DEF _buffer
  <2>7. PipelineOK'
    BY <1>7, <2>3, <2>5, ConnectorKept
  <2>8. TypeOK'
    BY <1>1, <1>2, <1>6, <1>7, <2>1, <2>6, <2>7 DEF TypeOK, PipelineOK
  <2> QED BY <1>6, <2>4, <2>7, <2>8, PipelineParts DEF IInv
<1> QED BY <1>8, <1>9

LEMMA PlannedFlushStep == ASSUME IInv, PlannedFlush PROVE IInv'
<1> DEFINE r == insert_multiple_logs(arrays, size, emitted)
           p == emitted - size
<1>1. /\ TypeOK /\ NoLineUncounted /\ Filled /\ OnlyInsertsCarry
      /\ OneHistoryRequest /\ HistoryStage
  BY DEF IInv
<1>2. /\ emitted \in Nat /\ size \in Nat /\ flushEvents' \in Nat /\ size' = 0
      /\ UNCHANGED <<emitted, arrays, answered, block, db, cursor, cursorOpen>>
      /\ UNCHANGED <<phase, params, realtimeBuffer, received, since, closed>>
      /\ send_tasks(r, arrays)
  BY SMTT(20), <1>1, LogPipelineAssumption DEF TypeOK, PlannedFlush, database, client, _buffer
<1>3. /\ nextReqs \in Seq(Waiting) /\ Good(nextReqs, arrays) /\ p \in Nat
  BY <1>1, Queue
<1>4. /\ arrays \in Seq(Seq(0 .. MaxLogs)) /\ arrays # <<>> /\ size <= Len(arrays[Len(arrays)])
      /\ \A j \in 1 .. size : arrays[Len(arrays)][j] \in Lines
      /\ Len(arrays[Len(arrays)]) \in Nat
  BY <1>1 DEF TypeOK, Filled, _buffer
<1>5. p + size = emitted /\ emitted = emitted' - size'
  BY <1>2
<1>6. /\ r \in Seq(Waiting) /\ Good(r, arrays) /\ Chain(r, p, emitted)
      /\ \A i \in DOMAIN r : r[i].op \notin HistoryOps
  <2> HIDE DEF p
  <2> QED BY <1>2, <1>3, <1>4, <1>5, InsertChains
<1> HIDE DEF r
<1>7. /\ ConnectorOK'
      /\ \/ inFlight' = inFlight /\ inFlight # NoRequest /\ nextReqs' = nextReqs \o r
         \/ /\ inFlight = NoRequest /\ nextReqs = <<>>
            /\ r = <<>> /\ inFlight' = NoRequest /\ nextReqs' = <<>>
         \/ /\ inFlight = NoRequest /\ nextReqs = <<>>
            /\ r # <<>> /\ nextReqs' = Tail(r)
            /\ inFlight'.op = r[1].op /\ inFlight'.upto = r[1].upto
  <2>1. /\ arrays' \in Seq(Seq(0 .. MaxLogs)) /\ Good(nextReqs, arrays') /\ Good(r, arrays')
        /\ send_tasks(r, arrays') /\ UNCHANGED <<db, answered>>
    BY <1>2, <1>3, <1>4, <1>6
  <2> QED BY <1>1, <1>2, <1>5, <1>6, <2>1, SendTasks
<1>8. OneHistoryRequest' /\ HistoryStage'
  BY <1>1, <1>2, <1>6, <1>7, SendKeepsHistory
<1>9. PipelineOK'
  BY <1>2, <1>4, <1>7, ConnectorKept
<1>10. TypeOK'
  BY <1>1, <1>2, <1>4, <1>9 DEF TypeOK, _buffer, PipelineOK
<1>11. HistoryMeetsRealtime' /\ RealtimeFollows'
  BY <1>2 DEF IInv, HistoryMeetsRealtime, RealtimeFollows
<1> QED BY <1>8, <1>9, <1>10, <1>11, PipelineParts DEF IInv

\* A request of the history follows requests of others.
LEMMA HistoryLast ==
  ASSUME NEW s \in Seq(Waiting), NEW t \in Seq(Waiting), Len(t) = 1,
         \A i \in DOMAIN s : s[i].op \notin HistoryOps
  PROVE  /\ s \o t \in Seq(Waiting) /\ s \o t # <<>>
         /\ \A i \in DOMAIN (s \o t) :
                (s \o t)[i].op \in HistoryOps => i = Len(s) + 1 /\ (s \o t)[i] = t[1]
<1>1. s \o t \in Seq(Waiting) /\ Len(s \o t) = Len(s) + 1 /\ Len(s) \in Nat
  <2>1. s \o t \in Seq(Waiting) /\ Len(s \o t) = Len(s) + Len(t)
    BY ConcatProperties
  <2>2. Len(s) \in Nat
    BY LenProperties
  <2> QED BY <2>1, <2>2
<1>2. ASSUME NEW i \in DOMAIN (s \o t), (s \o t)[i].op \in HistoryOps
      PROVE  i = Len(s) + 1 /\ (s \o t)[i] = t[1]
  <2>1. CASE i <= Len(s)
    <3>1. i \in DOMAIN s /\ (s \o t)[i] = s[i]
      BY <2>1
    <3> QED BY <1>2, <3>1
  <2>2. CASE ~(i <= Len(s))
    BY <1>1, <2>2
  <2> QED BY <2>1, <2>2
<1> QED BY <1>1, <1>2

LEMMA SubscribeStep ==
  ASSUME IInv, NEW history \in BOOLEAN, NEW realtime \in BOOLEAN, Subscribe(history, realtime)
  PROVE  IInv'
<1> DEFINE i == insert_multiple_logs(arrays, size, emitted)
           c == << request("create", emitted) >>
           r == i \o c
           p == emitted - size
<1>1. /\ TypeOK /\ NoLineUncounted /\ Filled /\ OnlyInsertsCarry
      /\ OneHistoryRequest /\ HistoryStage
  BY DEF IInv
<1>2. /\ emitted \in Nat /\ emitted <= MaxLogs /\ size \in Nat
      /\ phase = "none" /\ received = <<>>
      /\ realtimeBuffer = <<>>
      /\ UNCHANGED <<emitted, arrays, flushEvents, answered, block, db, cursor, cursorOpen>>
      /\ UNCHANGED <<realtimeBuffer, received, closed>>
      /\ params' = [history |-> history, realtime |-> realtime] /\ since' = emitted
      /\ history \/ realtime
  BY <1>1, LogPipelineAssumption
     DEF TypeOK, Subscribe, database, _buffer, IInv, RealtimeFollows
<1>3. /\ nextReqs \in Seq(Waiting) /\ Good(nextReqs, arrays) /\ p \in Nat
      /\ inFlight = NoRequest => nextReqs = <<>> /\ ~answered
  BY <1>1, Queue
<1>4. /\ arrays \in Seq(Seq(0 .. MaxLogs)) /\ arrays # <<>> /\ size <= Len(arrays[Len(arrays)])
      /\ \A j \in 1 .. size : arrays[Len(arrays)][j] \in Lines
      /\ Len(arrays[Len(arrays)]) \in Nat
  BY <1>1 DEF TypeOK, Filled, _buffer
<1>5. p + size = emitted
  BY <1>2
<1>6. /\ inFlight.op \notin HistoryOps
      /\ \A j \in DOMAIN nextReqs : nextReqs[j].op \notin HistoryOps
  BY <1>1, <1>2 DEF OneHistoryRequest
<1>7. CASE history
  <2>1. /\ phase' = "history" /\ size' = 0 /\ send_tasks(r, arrays)
    BY <1>7 DEF Subscribe, subscribe_reqs
  <2>2. /\ i \in Seq(Waiting) /\ Good(i, arrays) /\ Chain(i, p, emitted)
        /\ \A j \in DOMAIN i : i[j].op \notin HistoryOps
    <3> HIDE DEF p
    <3> QED BY <1>2, <1>3, <1>4, <1>5, InsertChains
  <2>3. /\ c \in Seq(Waiting) /\ Len(c) = 1 /\ c[1] = request("create", emitted)
        /\ Good(c, arrays) /\ Chain(c, emitted, emitted)
    <3>1. "create" \in HistoryOps
      BY DEF HistoryOps
    <3> QED BY <1>1, <1>2, <3>1, HistoryRequest
  <2> HIDE DEF i, c
  <2>4. r \in Seq(Waiting) /\ Good(r, arrays)
    BY <2>2, <2>3, GoodConcat
  <2>5. Chain(r, p, emitted)
    <3> HIDE DEF p
    <3> QED BY <1>2, <1>3, <2>2, <2>3, ChainConcat
  <2>6. /\ r # <<>>
        /\ \A j \in DOMAIN r : r[j].op \in HistoryOps => j = Len(i) + 1 /\ r[j] = c[1]
    BY <2>2, <2>3, HistoryLast
  <2> HIDE DEF r
  <2>7. /\ ConnectorOK'
        /\ \/ inFlight' = inFlight /\ inFlight # NoRequest /\ nextReqs' = nextReqs \o r
           \/ /\ inFlight = NoRequest /\ nextReqs = <<>>
              /\ r = <<>> /\ inFlight' = NoRequest /\ nextReqs' = <<>>
           \/ /\ inFlight = NoRequest /\ nextReqs = <<>>
              /\ r # <<>> /\ nextReqs' = Tail(r)
              /\ inFlight'.op = r[1].op /\ inFlight'.upto = r[1].upto
    <3>1. /\ arrays' \in Seq(Seq(0 .. MaxLogs)) /\ Good(nextReqs, arrays') /\ Good(r, arrays')
          /\ send_tasks(r, arrays') /\ UNCHANGED <<db, answered>>
          /\ emitted = emitted' - size'
      BY <1>2, <1>3, <1>4, <2>1, <2>4
    <3> QED BY <1>1, <1>2, <2>4, <2>5, <3>1, SendTasks
  <2>8. ASSUME NEW x, x = request("create", emitted)
        PROVE  StageNext(x.op, x.upto)
    BY <1>2, <2>8 DEF StageNext, request
  <2>9. OneHistoryRequest' /\ HistoryStage'
    <3>1. CASE inFlight' = inFlight /\ inFlight # NoRequest /\ nextReqs' = nextReqs \o r
      <4>1. ASSUME NEW j \in DOMAIN nextReqs', nextReqs'[j].op \in HistoryOps
            PROVE  j = Len(nextReqs) + Len(i) + 1 /\ nextReqs'[j] = c[1]
        <5>1. CASE j <= Len(nextReqs)
          <6>1. j \in DOMAIN nextReqs /\ nextReqs'[j] = nextReqs[j]
            BY <1>3, <3>1, <5>1
          <6> QED BY <1>6, <4>1, <6>1
        <5>2. CASE ~(j <= Len(nextReqs))
          <6>1. j - Len(nextReqs) \in DOMAIN r /\ nextReqs'[j] = r[j - Len(nextReqs)]
            BY <1>3, <2>4, <3>1, <5>2
          <6>2. j - Len(nextReqs) = Len(i) + 1 /\ nextReqs'[j] = c[1]
            BY <2>6, <4>1, <6>1
          <6>3. Len(nextReqs) \in Nat /\ Len(i) \in Nat /\ j \in Nat
            BY <1>3, <2>2, <2>4, <3>1, LenProperties, ConcatProperties
          <6> QED BY <6>2, <6>3
        <5> QED BY <5>1, <5>2
      <4>2. OneHistoryRequest'
        BY <1>6, <2>1, <3>1, <4>1 DEF OneHistoryRequest
      <4>3. ASSUME NEW j \in DOMAIN nextReqs'
            PROVE  Stage(nextReqs[j].op, nextReqs[j].upto)'
        <5>1. CASE nextReqs'[j].op \in HistoryOps
          BY <1>2, <2>3, <4>1, <5>1 DEF Stage, request
        <5>2. CASE nextReqs'[j].op \notin HistoryOps
          BY <5>2 DEF Stage, HistoryOps
        <5> QED BY <5>1, <5>2
      <4>4. IF answered' THEN ResultStage' ELSE Stage(inFlight.op, inFlight.upto)'
        BY <1>6, <3>1 DEF Stage, ResultStage, HistoryOps
      <4> QED BY <4>2, <4>3, <4>4 DEF HistoryStage
    <3>2. CASE inFlight = NoRequest
      <4>1. answered' = FALSE
        BY <1>1, <1>2, <1>3, <3>2 DEF TypeOK
      <4>2. \A j \in DOMAIN r : r[j].op \in HistoryOps =>
                /\ phase' = "history" /\ StageNext(r[j].op, r[j].upto)
                /\ \A l \in DOMAIN r : r[l].op \in HistoryOps => j = l
        <5>1. ASSUME NEW j \in DOMAIN r, r[j].op \in HistoryOps
              PROVE  /\ phase' = "history" /\ StageNext(r[j].op, r[j].upto)
                     /\ \A l \in DOMAIN r : r[l].op \in HistoryOps => j = l
          <6>1. r[j] = request("create", emitted) /\ j = Len(i) + 1
            BY <2>3, <2>6, <5>1
          <6>2. StageNext(r[j].op, r[j].upto)
            BY <2>8, <6>1
          <6>3. \A l \in DOMAIN r : r[l].op \in HistoryOps => j = l
            BY <2>6, <6>1
          <6> QED BY <2>1, <6>2, <6>3
        <5> QED BY <5>1
      <4>3. \/ r = <<>> /\ inFlight' = NoRequest /\ nextReqs' = <<>>
            \/ /\ r # <<>> /\ nextReqs' = Tail(r)
               /\ inFlight'.op = r[1].op /\ inFlight'.upto = r[1].upto
        BY <2>7, <3>2
      <4> QED BY <2>4, <4>1, <4>2, <4>3, WriteKeepsHistory
    <3> QED BY <2>7, <3>1, <3>2
  <2>10. PipelineOK'
    BY <1>2, <1>4, <2>1, <2>7, ConnectorKept
  <2>11. TypeOK'
    BY <1>1, <1>2, <1>4, <2>1, <2>10 DEF TypeOK, _buffer, PipelineOK
  <2>12. HistoryMeetsRealtime' /\ RealtimeFollows'
    BY <1>2, <1>7, <2>1, EmptySeq DEF HistoryMeetsRealtime, RealtimeFollows
  <2> QED BY <2>9, <2>10, <2>11, <2>12, PipelineParts DEF IInv
<1>8. CASE ~history
  <2>1. phase' = "sending" /\ UNCHANGED <<size, nextReqs, inFlight>>
    BY <1>8 DEF Subscribe
  <2>2. TypeOK'
    BY <1>1, <1>2, <2>1 DEF TypeOK, _buffer, PipelineOK
  <2>3. NoLineUncounted' /\ Filled' /\ OnlyInsertsCarry'
    BY <1>1, <1>2, <2>1 DEF NoLineUncounted, lines_upto, Filled, _buffer, OnlyInsertsCarry
  <2>4. OneHistoryRequest' /\ HistoryStage'
    BY <1>6, <2>1 DEF OneHistoryRequest, HistoryStage, Stage, ResultStage, HistoryOps
  <2>5. HistoryMeetsRealtime' /\ RealtimeFollows'
    BY <1>2, <1>8, <2>1, EmptySeq DEF HistoryMeetsRealtime, RealtimeFollows
  <2> QED BY <2>2, <2>3, <2>4, <2>5, PipelineParts DEF IInv
<1> QED BY <1>7, <1>8

LEMMA DisconnectStep == ASSUME IInv, Disconnect PROVE IInv'
<1>1. /\ closed' = TRUE
      /\ UNCHANGED <<emitted, arrays, size, flushEvents, nextReqs, inFlight, answered, block>>
      /\ UNCHANGED <<db, cursor, cursorOpen, phase, params, realtimeBuffer, received, since>>
  BY DEF Disconnect, logBuffer, connector, database
<1>2. TypeOK'
  BY <1>1 DEF IInv, TypeOK, _buffer
<1>3. NoLineUncounted' /\ HistoryMeetsRealtime'
  BY <1>1 DEF IInv, NoLineUncounted, lines_upto, HistoryMeetsRealtime
<1>4. Filled' /\ OnlyInsertsCarry' /\ OneHistoryRequest' /\ RealtimeFollows'
  BY <1>1 DEF IInv, Filled, _buffer, OnlyInsertsCarry, OneHistoryRequest, RealtimeFollows
<1>5. HistoryStage'
  <2>1. ASSUME NEW i \in DOMAIN nextReqs'
        PROVE  Stage(nextReqs[i].op, nextReqs[i].upto)'
    <3>1. Stage(nextReqs[i].op, nextReqs[i].upto)
      BY <1>1 DEF IInv, HistoryStage
    <3> QED BY <1>1, <3>1 DEF Stage
  <2>2. CASE answered
    <3>1. ResultStage
      BY <2>2 DEF IInv, HistoryStage
    <3>2. ResultStage'
      BY <1>1, <3>1 DEF ResultStage
    <3>3. answered'
      BY <1>1, <2>2
    <3> QED BY <2>1, <3>2, <3>3 DEF HistoryStage
  <2>3. CASE ~answered
    <3>1. Stage(inFlight.op, inFlight.upto)
      BY <2>3 DEF IInv, HistoryStage
    <3>2. Stage(inFlight.op, inFlight.upto)'
      BY <1>1, <3>1 DEF Stage
    <3>3. ~answered'
      BY <1>1, <2>3
    <3> QED BY <2>1, <3>2, <3>3 DEF HistoryStage
  <2> QED BY <2>2, <2>3
<1> QED BY <1>2, <1>3, <1>4, <1>5 DEF IInv

\* A block is a part of the rows of the cursor, and the others stay.
LEMMA Fetched ==
  ASSUME cursor \in Seq(Lines)
  PROVE  LET rest == SubSeq(cursor, Len(fetched) + 1, Len(cursor)) IN
         /\ fetched \in Seq(Lines) /\ Len(fetched) <= BlockSize
         /\ rest \in Seq(Lines)
         /\ Len(fetched) + Len(rest) = Len(cursor)
         /\ Len(fetched) # BlockSize => rest = <<>>
<1> DEFINE n == IF Len(cursor) < BlockSize THEN Len(cursor) ELSE BlockSize
           rest == SubSeq(cursor, n + 1, Len(cursor))
<1>1. Len(cursor) \in Nat /\ n \in 0 .. Len(cursor) /\ n <= BlockSize /\ BlockSize \in Nat
      /\ (n # BlockSize => n = Len(cursor))
  BY LogPipelineAssumption, LenProperties
<1>2. fetched = SubSeq(cursor, 1, n)
  BY DEF fetched
<1> HIDE DEF n
<1>3. fetched \in Seq(Lines) /\ Len(fetched) = n
  BY <1>1, <1>2
<1>4. rest \in Seq(Lines) /\ Len(rest) = Len(cursor) - n
  BY <1>1
<1>5. n = Len(cursor) => rest = <<>>
  BY <1>1, <1>4, EmptySeq
<1> HIDE DEF rest
<1>6. rest = SubSeq(cursor, Len(fetched) + 1, Len(cursor))
  BY <1>3 DEF rest
<1>7. Len(fetched) <= BlockSize /\ Len(fetched) + Len(rest) = Len(cursor)
      /\ (Len(fetched) # BlockSize => rest = <<>>)
  BY <1>1, <1>3, <1>4, <1>5
<1> QED BY <1>3, <1>4, <1>6, <1>7

LEMMA DbExecutesStep == ASSUME IInv, DbExecutes PROVE IInv'
<1>1. /\ TypeOK /\ NoLineUncounted /\ Filled /\ OnlyInsertsCarry
      /\ OneHistoryRequest /\ HistoryStage
  BY DEF IInv
<1>2. /\ inFlight # NoRequest /\ ~answered /\ answered' = TRUE
      /\ UNCHANGED <<emitted, arrays, size, flushEvents, nextReqs, inFlight>>
      /\ UNCHANGED <<phase, params, realtimeBuffer, received, since, closed>>
  BY DEF DbExecutes, logBuffer, client
<1>3. /\ inFlight.op \in Ops /\ inFlight.upto \in Nat /\ inFlight.rows \in Seq(Lines)
      /\ db \in Seq(Lines) /\ cursor \in Seq(Lines) /\ block \in Seq(Lines)
      /\ Len(db) \in Nat /\ Len(inFlight.rows) \in Nat /\ Len(block) <= BlockSize
  BY <1>1, <1>2, LenProperties DEF TypeOK, Written
<1>4. Len(db) = inFlight.upto - Len(inFlight.rows)
  BY <1>1, <1>2 DEF NoLineUncounted
<1>5. Stage(inFlight.op, inFlight.upto)
  BY <1>1, <1>2 DEF HistoryStage
<1>6. inFlight.op # "insert" => Len(db) = inFlight.upto
  BY <1>1, <1>3, <1>4, EmptySeq DEF OnlyInsertsCarry
<1>7. /\ db' \in Seq(Lines) /\ Len(db') = inFlight.upto
      /\ cursor' \in Seq(Lines) /\ cursorOpen' \in BOOLEAN
      /\ block' \in Seq(Lines) /\ Len(block') <= BlockSize
      /\ ResultStage'
      /\ inFlight.op \notin HistoryOps => cursor' = cursor
  <2>1. CASE inFlight.op = "insert"
    <3>1. db' = db \o inFlight.rows /\ UNCHANGED <<cursor, cursorOpen, block>>
      BY <2>1 DEF DbExecutes
    <3>2. db' \in Seq(Lines) /\ Len(db') = Len(db) + Len(inFlight.rows)
      BY <1>3, <3>1, ConcatProperties
    <3>3. ResultStage'
      BY <1>2, <2>1 DEF ResultStage
    <3>4. Len(db') = inFlight.upto
      BY <1>3, <1>4, <3>2
    <3> QED BY <1>1, <1>3, <3>1, <3>2, <3>3, <3>4 DEF TypeOK
  <2>2. CASE inFlight.op = "create"
    <3>1. cursor' = db /\ cursorOpen' = TRUE /\ UNCHANGED <<db, block>>
      BY <2>2 DEF DbExecutes
    <3>2. ResultStage'
      BY <1>2, <1>5, <1>6, <2>2, <3>1 DEF ResultStage, Stage
    <3> QED BY <1>3, <1>6, <2>2, <3>1, <3>2 DEF HistoryOps
  <2>3. CASE inFlight.op = "step"
    <3>1. /\ block' = fetched /\ cursor' = SubSeq(cursor, Len(fetched) + 1, Len(cursor))
          /\ UNCHANGED <<db, cursorOpen>>
      BY <2>3 DEF DbExecutes
    <3>2. /\ block' \in Seq(Lines) /\ Len(block') <= BlockSize /\ cursor' \in Seq(Lines)
          /\ Len(block') + Len(cursor') = Len(cursor)
          /\ Len(block') # BlockSize => cursor' = <<>>
      BY <1>3, <3>1, Fetched
    <3>3. closed \/ Len(received) + Len(cursor) = since
      BY <1>5, <2>3 DEF Stage
    <3>4. Len(received) \in Nat /\ Len(block') \in Nat /\ Len(cursor') \in Nat
      BY <1>1, <3>2, LenProperties DEF TypeOK
    <3>5. closed \/ Len(received) + Len(block') + Len(cursor') = since
      BY <3>2, <3>3, <3>4
    <3>6. ResultStage'
      BY <1>2, <2>3, <3>2, <3>5 DEF ResultStage
    <3> QED BY <1>1, <1>3, <1>6, <2>3, <3>1, <3>2, <3>6 DEF TypeOK, HistoryOps
  <2>4. CASE inFlight.op = "delete"
    <3>1. cursor' = <<>> /\ cursorOpen' = FALSE /\ UNCHANGED <<db, block>>
      BY <2>4 DEF DbExecutes
    <3>2. ResultStage'
      BY <1>2, <1>5, <2>4, <3>1 DEF ResultStage, Stage
    <3> QED BY <1>3, <1>6, <2>4, <3>1, <3>2, EmptySeq DEF HistoryOps
  <2> QED BY <1>3, <2>1, <2>2, <2>3, <2>4 DEF Ops
<1>8. TypeOK'
  <2>1. inFlight.op # "none"
    BY <1>3 DEF Ops
  <2> QED BY <1>1, <1>2, <1>7, <2>1 DEF TypeOK, _buffer
<1>9. NoLineUncounted'
  <2>1. \A i \in DOMAIN nextReqs :
            lines_upto(i)' = lines_upto(i) /\ lines_upto(i - 1)' = lines_upto(i - 1)
    BY <1>2 DEF lines_upto
  <2>2. lines_upto(Len(nextReqs))' = lines_upto(Len(nextReqs))
    BY <1>2 DEF lines_upto
  <2> QED BY <1>1, <1>2, <1>3, <1>7, <2>1, <2>2 DEF NoLineUncounted
<1>10. Filled' /\ OnlyInsertsCarry' /\ OneHistoryRequest'
  BY <1>1, <1>2 DEF Filled, _buffer, OnlyInsertsCarry, OneHistoryRequest
<1>11. HistoryMeetsRealtime' /\ RealtimeFollows'
  BY <1>2 DEF IInv, HistoryMeetsRealtime, RealtimeFollows
<1>12. HistoryStage'
  <2>1. ASSUME NEW i \in DOMAIN nextReqs'
        PROVE  Stage(nextReqs[i].op, nextReqs[i].upto)'
    <3>1. CASE nextReqs[i].op \in HistoryOps
      <4>1. inFlight.op \notin HistoryOps
        BY <1>1, <1>2, <3>1 DEF OneHistoryRequest
      <4>2. Stage(nextReqs[i].op, nextReqs[i].upto)
        BY <1>1, <1>2 DEF HistoryStage
      <4> QED BY <1>2, <1>7, <4>1, <4>2 DEF Stage
    <3>2. CASE nextReqs[i].op \notin HistoryOps
      BY <1>2, <3>2 DEF Stage, HistoryOps
    <3> QED BY <3>1, <3>2
  <2>2. answered'
    BY <1>2
  <2> QED BY <1>7, <2>1, <2>2 DEF HistoryStage
<1> QED BY <1>8, <1>9, <1>10, <1>11, <1>12 DEF IInv

\* A result and the request its callback submits, which is the one of the history if any.
LEMMA ResultKeeps ==
  ASSUME IInv, NEW r \in Seq(Waiting), Good(r, arrays), Chain(r, emitted - size, emitted - size),
         result(r), phase = "history" => phase' \in {"history", "sending", "over"},
         \/ /\ r = <<>> /\ inFlight.op \notin HistoryOps
            /\ UNCHANGED <<phase, received, since, closed>>
         \/ r = <<>> /\ inFlight.op \in HistoryOps
         \/ /\ Len(r) = 1 /\ inFlight.op \in HistoryOps
            /\ phase' = "history" /\ StageNext(r[1].op, r[1].upto)
  PROVE  /\ PipelineOK'
         /\ answered' = FALSE
         /\ UNCHANGED <<emitted, arrays, size, flushEvents, db, cursor, cursorOpen>>
         /\ OneHistoryRequest' /\ HistoryStage'
<1> DEFINE q == nextReqs \o r
<1>1. /\ TypeOK /\ NoLineUncounted /\ Filled /\ OnlyInsertsCarry
      /\ OneHistoryRequest /\ HistoryStage
  BY DEF IInv
<1>2. /\ UNCHANGED <<emitted, arrays, size, flushEvents, db, cursor, cursorOpen>>
      /\ answered /\ answered' = FALSE
  BY DEF result, logBuffer, database
<1>3. /\ ConnectorOK' /\ q \in Seq(Waiting)
      /\ \/ q = <<>> /\ inFlight' = NoRequest /\ nextReqs' = <<>>
         \/ /\ q # <<>> /\ nextReqs' = Tail(q)
            /\ inFlight'.op = q[1].op /\ inFlight'.upto = q[1].upto
  BY <1>1, ResultHandled
<1>4. nextReqs \in Seq(Waiting) /\ arrays \in Seq(Seq(0 .. MaxLogs)) /\ arrays # <<>>
  BY <1>1 DEF TypeOK
<1>5. \A j \in 1 .. size' : _buffer'[j] \in Lines
  BY <1>1, <1>2 DEF Filled, _buffer
<1>6. PipelineOK'
  BY <1>2, <1>3, <1>4, <1>5, ConnectorKept
<1>7. ASSUME NEW i \in DOMAIN q, q[i].op \in HistoryOps
      PROVE  /\ phase' = "history" /\ StageNext(q[i].op, q[i].upto)
             /\ \A j \in DOMAIN q : q[j].op \in HistoryOps => i = j
  <2>1. CASE /\ r = <<>> /\ inFlight.op \notin HistoryOps
             /\ UNCHANGED <<phase, received, since, closed>>
    <3>1. q = nextReqs
      BY <1>4, <2>1, ConcatEmptySeq
    <3> HIDE DEF q
    <3>2. /\ phase = "history"
          /\ \A j \in DOMAIN q : q[j].op \in HistoryOps => i = j
      BY <1>1, <1>7, <3>1 DEF OneHistoryRequest
    <3>3. Stage(q[i].op, q[i].upto)
      BY <1>1, <1>7, <3>1 DEF HistoryStage
    <3> QED BY <1>2, <2>1, <3>2, <3>3 DEF Stage, StageNext
  <2>2. ASSUME inFlight.op \in HistoryOps
        PROVE  \A j \in DOMAIN nextReqs : nextReqs[j].op \notin HistoryOps
    BY <1>1, <2>2 DEF OneHistoryRequest
  <2>3. CASE r = <<>> /\ inFlight.op \in HistoryOps
    <3>1. q = nextReqs
      BY <1>4, <2>3, ConcatEmptySeq
    <3> HIDE DEF q
    <3> QED BY <1>7, <2>2, <2>3, <3>1
  <2>4. CASE /\ Len(r) = 1 /\ inFlight.op \in HistoryOps
             /\ phase' = "history" /\ StageNext(r[1].op, r[1].upto)
    <3>1. \A j \in DOMAIN q : q[j].op \in HistoryOps => j = Len(nextReqs) + 1 /\ q[j] = r[1]
      BY <1>4, <2>2, <2>4, HistoryLast
    <3> HIDE DEF q
    <3>2. q[i] = r[1] /\ \A j \in DOMAIN q : q[j].op \in HistoryOps => i = j
      BY <1>7, <3>1
    <3> QED BY <2>4, <3>2
  <2> QED BY <2>1, <2>3, <2>4
<1>8. OneHistoryRequest' /\ HistoryStage'
  <2> HIDE DEF q
  <2>1. \A i \in DOMAIN q : q[i].op \in HistoryOps =>
            /\ phase' = "history" /\ StageNext(q[i].op, q[i].upto)
            /\ \A j \in DOMAIN q : q[j].op \in HistoryOps => i = j
    BY <1>7
  <2> QED BY <1>2, <1>3, <2>1, WriteKeepsHistory
<1> QED BY <1>2, <1>6, <1>8

\* No request: nothing to say of it
LEMMA NoNewRequest ==
  ASSUME IInv
  PROVE  /\ <<>> \in Seq(Waiting) /\ Good(<<>>, arrays)
         /\ Chain(<<>>, emitted - size, emitted - size)
<1>1. <<>> \in Seq(Waiting) /\ DOMAIN <<>> = {}
  OBVIOUS
<1> QED BY <1>1 DEF Good, Chain

LEMMA InsertResultStep == ASSUME IInv, InsertResult PROVE IInv'
<1>1. /\ inFlight.op \notin HistoryOps /\ result(<<>>)
      /\ UNCHANGED <<block, phase, params, realtimeBuffer, received, since, closed>>
  BY DEF InsertResult, HistoryOps, client
<1>2. /\ PipelineOK'
      /\ answered' = FALSE
      /\ UNCHANGED <<emitted, arrays, size, flushEvents, db, cursor, cursorOpen>>
      /\ OneHistoryRequest' /\ HistoryStage'
  BY <1>1, NoNewRequest, ResultKeeps
<1>3. TypeOK'
  BY <1>1, <1>2 DEF IInv, TypeOK, _buffer, PipelineOK
<1>4. HistoryMeetsRealtime' /\ RealtimeFollows'
  BY <1>1, <1>2 DEF IInv, HistoryMeetsRealtime, RealtimeFollows
<1> QED BY <1>2, <1>3, <1>4, PipelineParts DEF IInv

\* The result of a request of the history: the client waits for its history.
LEMMA InHistory ==
  ASSUME IInv, answered, inFlight.op \in HistoryOps
  PROVE  /\ phase = "history" /\ params.history /\ ResultStage
         /\ emitted - size \in Nat /\ TypeOK
         /\ Len(received) \in Nat /\ Len(block) \in Nat /\ Len(cursor) \in Nat
<1>1. TypeOK /\ NoLineUncounted /\ Filled /\ OnlyInsertsCarry
  BY DEF IInv
<1>2. phase = "history" /\ ResultStage /\ params.history
  BY DEF IInv, OneHistoryRequest, HistoryStage, RealtimeFollows
<1>3. emitted - size \in Nat
  BY <1>1, Queue
<1> QED BY <1>1, <1>2, <1>3, LenProperties DEF TypeOK

LEMMA CreateResultStep == ASSUME IInv, CreateResult PROVE IInv'
<1> DEFINE p == emitted - size
           r == << request("step", p) >>
<1>1. /\ inFlight.op = "create" /\ inFlight.op \in HistoryOps /\ result(r) /\ answered
      /\ UNCHANGED <<block, phase, params, realtimeBuffer, received, since, closed>>
  BY DEF CreateResult, HistoryOps, client, result
<1>2. phase = "history" /\ ResultStage /\ p \in Nat /\ TypeOK /\ Len(cursor) \in Nat
  BY <1>1, InHistory
<1>3. /\ r \in Seq(Waiting) /\ Len(r) = 1 /\ r[1] = request("step", p)
      /\ Good(r, arrays) /\ Chain(r, p, p)
  <2>1. "step" \in HistoryOps
    BY DEF HistoryOps
  <2> HIDE DEF p
  <2> QED BY <1>2, <2>1, HistoryRequest
<1>4. received = <<>> /\ Len(cursor) = since
  BY <1>1, <1>2 DEF ResultStage
<1>5. cursor' = cursor
  BY <1>1 DEF result, database
<1>6. StageNext(r[1].op, r[1].upto)
  BY <1>1, <1>2, <1>3, <1>4, <1>5, EmptySeq DEF StageNext, request
<1> HIDE DEF r
<1>7. /\ PipelineOK'
      /\ answered' = FALSE
      /\ UNCHANGED <<emitted, arrays, size, flushEvents, db, cursor, cursorOpen>>
      /\ OneHistoryRequest' /\ HistoryStage'
  BY <1>1, <1>2, <1>3, <1>6, ResultKeeps
<1>8. TypeOK'
  BY <1>1, <1>2, <1>7 DEF TypeOK, _buffer, PipelineOK
<1>9. HistoryMeetsRealtime' /\ RealtimeFollows'
  BY <1>1, <1>7 DEF IInv, HistoryMeetsRealtime, RealtimeFollows
<1> QED BY <1>7, <1>8, <1>9, PipelineParts DEF IInv

LEMMA StepResultStep == ASSUME IInv, StepResult PROVE IInv'
<1> DEFINE p == emitted - size
           op == IF should_continue THEN "step" ELSE "delete"
           r == << request(op, p) >>
<1>1. /\ inFlight.op = "step" /\ inFlight.op \in HistoryOps /\ result(r) /\ answered
      /\ received' = (IF closed THEN received ELSE received \o block) /\ block' = <<>>
      /\ UNCHANGED <<phase, params, realtimeBuffer, since, closed>>
  BY DEF StepResult, HistoryOps, client, result
<1>2. /\ phase = "history" /\ ResultStage /\ p \in Nat /\ TypeOK
      /\ Len(received) \in Nat /\ Len(block) \in Nat /\ Len(cursor) \in Nat
      /\ received \in Seq(Lines) /\ block \in Seq(Lines) /\ since \in Nat
  BY <1>1, InHistory, LogPipelineAssumption DEF TypeOK
<1>3. op \in HistoryOps
  BY DEF HistoryOps
<1>4. /\ r \in Seq(Waiting) /\ Len(r) = 1 /\ r[1] = request(op, p)
      /\ Good(r, arrays) /\ Chain(r, p, p)
  <2> HIDE DEF p, op
  <2> QED BY <1>2, <1>3, HistoryRequest
<1>5. /\ received' \in Seq(Lines)
      /\ closed \/ Len(received') = Len(received) + Len(block)
  BY <1>1, <1>2, ConcatProperties
<1>6. /\ closed \/ Len(received) + Len(block) + Len(cursor) = since
      /\ closed \/ Len(block) = BlockSize \/ cursor = <<>>
  BY <1>1, <1>2 DEF ResultStage
<1>7. cursor' = cursor
  BY <1>1 DEF result, database
<1>8. StageNext(op, p)
  <2>1. CASE closed
    BY <1>1, <2>1 DEF StageNext, should_continue
  <2>2. CASE ~closed /\ Len(block) = BlockSize
    BY <1>1, <1>2, <1>5, <1>6, <1>7, <2>2 DEF StageNext, should_continue
  <2>3. CASE ~closed /\ Len(block) # BlockSize
    <3>1. Len(cursor) = 0
      BY <1>6, <2>3, EmptySeq
    <3>2. Len(received') = since
      BY <1>2, <1>5, <1>6, <2>3, <3>1
    <3>3. op = "delete"
      BY <2>3 DEF should_continue
    <3> QED BY <1>1, <3>2, <3>3 DEF StageNext
  <2> QED BY <2>1, <2>2, <2>3
<1>9. StageNext(r[1].op, r[1].upto)
  <2> HIDE DEF op, p, r
  <2> QED BY <1>4, <1>8 DEF request
<1> HIDE DEF r
<1>10. /\ PipelineOK'
       /\ answered' = FALSE
       /\ UNCHANGED <<emitted, arrays, size, flushEvents, db, cursor, cursorOpen>>
       /\ OneHistoryRequest' /\ HistoryStage'
  BY <1>1, <1>2, <1>4, <1>9, ResultKeeps
<1>11. TypeOK'
  <2>1. <<>> \in Seq(Lines) /\ Len(<<>>) = 0
    OBVIOUS
  <2>2. block' \in Seq(Lines) /\ Len(block') <= BlockSize
    BY <1>1, <2>1, LogPipelineAssumption
  <2> QED BY <1>1, <1>2, <1>5, <1>10, <2>2 DEF TypeOK, _buffer, PipelineOK
<1>12. HistoryMeetsRealtime' /\ RealtimeFollows'
  BY <1>1, <1>2, <1>10 DEF IInv, HistoryMeetsRealtime, RealtimeFollows
<1> QED BY <1>10, <1>11, <1>12, PipelineParts DEF IInv

LEMMA DeleteResultStep == ASSUME IInv, DeleteResult PROVE IInv'
<1>1. /\ inFlight.op = "delete" /\ inFlight.op \in HistoryOps /\ result(<<>>) /\ answered
      /\ UNCHANGED <<block, params, since>>
      /\ IF params.realtime
         THEN /\ phase' = "sending"
              /\ received' = (IF closed THEN received ELSE received \o realtimeBuffer)
              /\ realtimeBuffer' = <<>> /\ closed' = closed
         ELSE phase' = "over" /\ closed' = TRUE /\ UNCHANGED <<received, realtimeBuffer>>
  BY DEF DeleteResult, HistoryOps, result
<1>2. /\ phase = "history" /\ params.history /\ ResultStage /\ TypeOK
      /\ received \in Seq(Lines) /\ realtimeBuffer \in Seq(Lines)
      /\ emitted \in Nat /\ since \in 0 .. emitted /\ since \in Nat
      /\ closed \in BOOLEAN
  BY <1>1, InHistory, LogPipelineAssumption DEF TypeOK
<1>3. /\ PipelineOK'
      /\ answered' = FALSE
      /\ UNCHANGED <<emitted, arrays, size, flushEvents, db, cursor, cursorOpen>>
      /\ OneHistoryRequest' /\ HistoryStage'
  <2>1. phase' \in {"history", "sending", "over"}
    BY <1>1
  <2> QED BY <1>1, <2>1, NoNewRequest, ResultKeeps
<1>4. /\ received' \in Seq(Lines) /\ realtimeBuffer' \in Seq(Lines) /\ closed' \in BOOLEAN
      /\ HistoryMeetsRealtime'
  <2>1. CASE params.realtime /\ ~closed
    <3>1. received' = received \o realtimeBuffer /\ realtimeBuffer' = <<>> /\ closed' = closed
      BY <1>1, <2>1
    <3>2. Len(received) = since
      BY <1>1, <1>2, <2>1 DEF ResultStage
    <3>3. Follows(received, since, since, since)
      BY <1>2, <3>2 DEF Follows
    <3>4. Follows(realtimeBuffer, 0, since, emitted)
      BY <1>2, <2>1 DEF IInv, RealtimeFollows, Follows
    <3>5. received' \in Seq(Lines) /\ Follows(received', since, since, emitted)
      <4>1. since \in 0 .. since
        BY <1>2
      <4> QED BY <1>2, <3>1, <3>3, <3>4, <4>1, MoreLines
    <3>6. <<>> \in Seq(Lines)
      OBVIOUS
    <3> QED BY <1>1, <1>2, <1>3, <3>1, <3>5, <3>6 DEF HistoryMeetsRealtime, Follows
  <2>2. CASE params.realtime /\ closed
    <3>1. received' = received /\ realtimeBuffer' = <<>> /\ closed' = closed
      BY <1>1, <2>2
    <3>2. <<>> \in Seq(Lines)
      OBVIOUS
    <3> QED BY <1>2, <2>2, <3>1, <3>2 DEF HistoryMeetsRealtime
  <2>3. CASE ~params.realtime
    BY <1>1, <1>2, <2>3 DEF HistoryMeetsRealtime
  <2> QED BY <2>1, <2>2, <2>3
<1>5. RealtimeFollows'
  BY <1>1 DEF RealtimeFollows
<1>6. TypeOK'
  <2>1. phase' \in {"none", "history", "sending", "over"}
    BY <1>1
  <2> QED BY <1>1, <1>2, <1>3, <1>4, <2>1 DEF TypeOK, _buffer, PipelineOK
<1> QED BY <1>3, <1>4, <1>5, <1>6, PipelineParts DEF IInv

LEMMA StutterStep == ASSUME IInv, UNCHANGED vars PROVE IInv'
<1>1. /\ UNCHANGED <<emitted, arrays, size, flushEvents, nextReqs, inFlight, answered, block>>
      /\ UNCHANGED <<db, cursor, cursorOpen, phase, params, realtimeBuffer, received, since, closed>>
  BY DEF vars
<1> QED BY <1>1 DEF IInv, TypeOK, _buffer, NoLineUncounted, lines_upto, HistoryMeetsRealtime, Filled,
              OnlyInsertsCarry, OneHistoryRequest, HistoryStage, Stage, ResultStage, RealtimeFollows

LEMMA NextInv == IInv /\ [Next]_vars => IInv'
<1> SUFFICES ASSUME IInv, [Next]_vars PROVE IInv'
  OBVIOUS
<1>1. ASSUME NEW k \in 1 .. MaxBatch, Log(k) PROVE IInv'
  BY <1>1, LogStep
<1>2. CASE PlannedFlush
  BY <1>2, PlannedFlushStep
<1>3. ASSUME NEW history \in BOOLEAN, NEW realtime \in BOOLEAN, Subscribe(history, realtime)
      PROVE  IInv'
  BY <1>3, SubscribeStep
<1>4. CASE Disconnect
  BY <1>4, DisconnectStep
<1>5. CASE DbExecutes
  BY <1>5, DbExecutesStep
<1>6. CASE InsertResult
  BY <1>6, InsertResultStep
<1>7. CASE CreateResult
  BY <1>7, CreateResultStep
<1>8. CASE StepResult
  BY <1>8, StepResultStep
<1>9. CASE DeleteResult
  BY <1>9, DeleteResultStep
<1>10. CASE UNCHANGED vars
  BY <1>10, StutterStep
<1> QED BY <1>1, <1>2, <1>3, <1>4, <1>5, <1>6, <1>7, <1>8, <1>9, <1>10 DEF Next

-----------------------------------------------------------------------------
THEOREM Invariance == Spec => []IInv
<1>1. Init => IInv
  BY InitInv
<1>2. IInv /\ [Next]_vars => IInv'
  BY NextInv
<1> QED BY <1>1, <1>2, PTL DEF Spec

\* The variables keep their types: the views that wait are within their arrays, and the
\* queue of the connector is empty when the pipe is (logs.py:19-51, process.py:592-625).
THEOREM TypeCorrect == Spec => []TypeOK
<1>1. IInv => TypeOK
  BY DEF IInv
<1> QED BY <1>1, Invariance, PTL

\* Whatever is logged, flushed or asked while inserts wait, as many lines are in the
\* table, in the pipe, in the queue or in the buffer as were logged (logs.py:62-79).
THEOREM LinesCounted == Spec => []NoLineUncounted
<1>1. IInv => NoLineUncounted
  BY DEF IInv
<1> QED BY <1>1, Invariance, PTL

\* However the requests of the history and the lines logged meanwhile interleave, the
\* client gets the history, then what was logged since it asked for it (logs.py:399-472).
THEOREM HistoryJoined == Spec => []HistoryMeetsRealtime
<1>1. IInv => HistoryMeetsRealtime
  BY DEF IInv
<1> QED BY <1>1, Invariance, PTL
=============================================================================
