---------------------------- MODULE LogPipeline ----------------------------
(***************************************************************************)
(* The way of a log line in server-main (main/logs.py): the buffer of the  *)
(* lines that wait to be inserted in the database, the connector to the    *)
(* database process, which has one request answered at a time              *)
(* (process.py), and a client of "walt log show", which reads the history  *)
(* through a cursor and the new lines in real time.                        *)
(*                                                                         *)
(* A line is its rank. An array of numpy is a sequence; a view of it is    *)
(* the number of the array and a length, and a request holds such a view   *)
(* until the connector pickles it into the pipe. The streams of the lines, *)
(* and the filters of the client on them, are left out.                    *)
(***************************************************************************)
EXTENDS Naturals, Sequences, SequencesExt

CONSTANTS
    PendingSize,   \* LOG_PENDING_SIZE
    BlockSize,     \* DB_LOGS_BLOCK_SIZE
    MaxBatch,      \* bound on the number of lines logged at once
    MaxLogs        \* bound on the number of lines logged

ASSUME LogPipelineAssumption ==
    /\ PendingSize \in Nat \ {0}
    /\ BlockSize \in Nat \ {0}
    /\ MaxBatch \in Nat \ {0}
    /\ MaxLogs \in Nat

VARIABLES
    emitted,      \* number of lines given to LogsHub.log()
    arrays,       \* the arrays pending_records had: the last one is its _buffer
    size,         \* pending_records.size
    flushEvents,  \* number of planned calls of flush()
    nextReqs,     \* connector._next_reqs: the requests that wait
    inFlight,     \* the request written in the pipe, until its result is handled
    answered,     \* the database process has executed it
    block,        \* the rows of its result, when it steps the cursor
    db,           \* table logs
    cursor,       \* rows the cursor has not returned yet
    cursorOpen,   \* the cursor exists
    phase,        \* LogsToSocketHandler: "none", "history", "sending" or "over"
    params,       \* history and realtime, as the client asked
    realtimeBuffer,
    received,     \* lines sent to the client
    since,        \* emitted, when the client subscribed
    closed        \* the socket of the client is closed

vars == <<emitted, arrays, size, flushEvents, nextReqs, inFlight, answered, block, db,
          cursor, cursorOpen, phase, params, realtimeBuffer, received, since, closed>>

logBuffer == <<emitted, arrays, size, flushEvents>>
connector == <<nextReqs, inFlight, answered, block>>
database == <<db, cursor, cursorOpen>>
client == <<phase, params, realtimeBuffer, received, since, closed>>

NoRequest == [op |-> "none", rows |-> <<>>, upto |-> 0]
Ops == {"insert", "create", "step", "delete"}

_buffer == arrays[Len(arrays)]

Lines == 1 .. MaxLogs

\* A request that waits, as submitted, and a request in the pipe. History: upto is the
\* number of lines logged up to those it carries, or that were submitted before it.
Waiting == [op : Ops, array : Nat, len : Nat, upto : Nat]
Written == [op : Ops \cup {"none"}, rows : Seq(Lines), upto : Nat]

TypeOK ==
    /\ emitted \in 0 .. MaxLogs
    /\ arrays \in Seq(Seq(0 .. MaxLogs)) /\ arrays # <<>>
    /\ size \in 0 .. Len(_buffer)
    /\ flushEvents \in Nat
    /\ nextReqs \in Seq(Waiting)
    /\ \A i \in DOMAIN nextReqs :
           /\ nextReqs[i].array \in DOMAIN arrays
           /\ nextReqs[i].len \in 0 .. Len(arrays[nextReqs[i].array])
    /\ inFlight \in Written
    /\ inFlight.op = "none" => inFlight = NoRequest /\ nextReqs = <<>> /\ ~answered
    /\ answered \in BOOLEAN
    /\ db \in Seq(Lines) /\ cursor \in Seq(Lines)
    /\ block \in Seq(Lines) /\ Len(block) <= BlockSize
    /\ received \in Seq(Lines) /\ realtimeBuffer \in Seq(Lines)
    /\ cursorOpen \in BOOLEAN
    /\ phase \in {"none", "history", "sending", "over"}
    /\ params \in [history : BOOLEAN, realtime : BOOLEAN]
    /\ since \in 0 .. emitted
    /\ closed \in BOOLEAN

Init ==
    /\ emitted = 0
    /\ arrays = << [i \in 1 .. (2 * PendingSize) |-> 0] >>
    /\ size = 0
    /\ flushEvents = 0
    /\ nextReqs = <<>>
    /\ inFlight = NoRequest
    /\ answered = FALSE
    /\ block = <<>>
    /\ db = <<>>
    /\ cursor = <<>>
    /\ cursorOpen = FALSE
    /\ phase = "none"
    /\ params = [history |-> FALSE, realtime |-> FALSE]
    /\ realtimeBuffer = <<>>
    /\ received = <<>>
    /\ since = 0
    /\ closed = FALSE

-----------------------------------------------------------------------------
(***************************************************************************)
(* LogsBuffer                                                              *)
(***************************************************************************)

\* append(): the arrays once the lines are in _buffer, which is replaced by a
\* larger one when it is too short
append(lines) ==
    LET new_size == size + Len(lines) IN
    IF new_size > Len(_buffer)
    THEN Append(arrays, SubSeq(_buffer, 1, size) \o lines)
    ELSE [arrays EXCEPT ![Len(arrays)] =
             SubSeq(_buffer, 1, size) \o lines \o SubSeq(_buffer, new_size + 1, Len(_buffer))]

\* flush() with n lines in the buffer, when it has some: pop() gives a view of them
insert_multiple_logs(arrs, n, upto) ==
    IF n = 0 THEN <<>>
    ELSE << [op |-> "insert", array |-> Len(arrs), len |-> n, upto |-> upto] >>

(***************************************************************************)
(* RPCProcessConnector                                                     *)
(***************************************************************************)

request(op, upto) == [op |-> op, array |-> 1, len |-> 0, upto |-> upto]

\* _write_task(): the arguments are pickled with the content the view has now
_write_task(req, arrs) ==
    [op |-> req.op, rows |-> SubSeq(arrs[req.array], 1, req.len), upto |-> req.upto]

\* The first request of the queue is written, when there is one.
write_first(reqs, arrs) ==
    /\ inFlight' = IF reqs = <<>> THEN NoRequest ELSE _write_task(Head(reqs), arrs)
    /\ nextReqs' = IF reqs = <<>> THEN <<>> ELSE Tail(reqs)

\* Variant with a bug: the request in flight is not waited for.
send_tasks_Unserialized(reqs, arrs) ==
    IF reqs = <<>> THEN UNCHANGED <<inFlight, nextReqs>> ELSE write_first(nextReqs \o reqs, arrs)

\* send_task() of each of reqs
send_tasks(reqs, arrs) ==
    IF inFlight = NoRequest
    THEN write_first(reqs, arrs)
    ELSE /\ nextReqs' = nextReqs \o reqs
         /\ UNCHANGED inFlight

-----------------------------------------------------------------------------
\* LogsToSocketHandler.log(). A send on a closed socket has the handler removed.
client_log(lines) ==
    /\ IF params.realtime /\ phase = "history"
       THEN realtimeBuffer' = realtimeBuffer \o lines
       ELSE UNCHANGED realtimeBuffer
    /\ IF params.realtime /\ phase = "sending"
       THEN IF closed
            THEN phase' = "over" /\ UNCHANGED received
            ELSE received' = received \o lines /\ UNCHANGED phase
       ELSE UNCHANGED <<phase, received>>
    /\ UNCHANGED <<params, since, closed>>

\* Variant with a bug: a flush is planned only after an earlier one has been done.
plan_flush_Once(n, lines) == emitted = 0

\* "elif self.pending_records.size == logs.size": the buffer was empty
plan_flush(n, lines) == n = Len(lines)

\* LogsHub.log(): LogsToDBHandler.log() and LogsToSocketHandler.log()
Log(k) ==
    LET lines == [i \in 1 .. k |-> emitted + i]
        arrs == append(lines)
        n == size + k IN
    /\ emitted + k <= MaxLogs
    /\ emitted' = emitted + k
    /\ arrays' = arrs
    /\ IF n >= PendingSize
       THEN /\ size' = 0
            /\ send_tasks(insert_multiple_logs(arrs, n, emitted + k), arrs)
            /\ UNCHANGED flushEvents
       ELSE /\ size' = n
            /\ flushEvents' = IF plan_flush(n, lines) THEN flushEvents + 1 ELSE flushEvents
            /\ UNCHANGED <<nextReqs, inFlight>>
    /\ client_log(lines)
    /\ UNCHANGED <<answered, block, database>>

\* the planned event, BUFFERING_DELAY_SECS later
PlannedFlush ==
    /\ flushEvents > 0
    /\ flushEvents' = flushEvents - 1
    /\ size' = 0
    /\ send_tasks(insert_multiple_logs(arrays, size, emitted), arrays)
    /\ UNCHANGED <<emitted, arrays, answered, block, database, client>>

\* Variant with a bug: the cursor is created before the last lines are inserted.
subscribe_reqs_CreateFirst ==
    << request("create", emitted) >> \o insert_multiple_logs(arrays, size, emitted)

\* stream_db_logs(): "ensure all past logs are commited"
subscribe_reqs ==
    insert_multiple_logs(arrays, size, emitted) \o << request("create", emitted) >>

\* handle_params()
Subscribe(history, realtime) ==
    /\ phase = "none"
    /\ history \/ realtime
    /\ params' = [history |-> history, realtime |-> realtime]
    /\ since' = emitted
    /\ IF history
       THEN /\ phase' = "history"
            /\ size' = 0
            /\ send_tasks(subscribe_reqs, arrays)
       ELSE /\ phase' = "sending"
            /\ UNCHANGED <<size, nextReqs, inFlight>>
    /\ UNCHANGED <<emitted, arrays, flushEvents, answered, block, database,
                   realtimeBuffer, received, closed>>

\* The client goes away: handle_event() returns False and the loop closes the socket.
Disconnect ==
    /\ phase \in {"history", "sending"}
    /\ ~closed
    /\ closed' = TRUE
    /\ UNCHANGED <<logBuffer, connector, database, phase, params, realtimeBuffer,
                   received, since>>

-----------------------------------------------------------------------------
\* fetchmany(DB_LOGS_BLOCK_SIZE)
fetched == SubSeq(cursor, 1, IF Len(cursor) < BlockSize THEN Len(cursor) ELSE BlockSize)

\* The database process executes the request: insert_multiple_logs(),
\* create_server_logs_cursor() (the cursor holds the rows of that time),
\* step_server_cursor() or delete_server_cursor().
DbExecutes ==
    /\ inFlight # NoRequest
    /\ ~answered
    /\ answered' = TRUE
    /\ \/ /\ inFlight.op = "insert"
          /\ db' = db \o inFlight.rows
          /\ UNCHANGED <<cursor, cursorOpen, block>>
       \/ /\ inFlight.op = "create"
          /\ cursor' = db
          /\ cursorOpen' = TRUE
          /\ UNCHANGED <<db, block>>
       \/ /\ inFlight.op = "step"
          /\ block' = fetched
          /\ cursor' = SubSeq(cursor, Len(fetched) + 1, Len(cursor))
          /\ UNCHANGED <<db, cursorOpen>>
       \/ /\ inFlight.op = "delete"
          /\ cursor' = <<>>
          /\ cursorOpen' = FALSE
          /\ UNCHANGED <<db, block>>
    /\ UNCHANGED <<logBuffer, nextReqs, inFlight, client>>

\* handle_next_event() on a result: the next request is written, then the callback
\* may submit another one.
result(reqs) ==
    /\ answered
    /\ answered' = FALSE
    /\ write_first(nextReqs \o reqs, arrays)
    /\ UNCHANGED <<logBuffer, database>>

InsertResult ==
    /\ inFlight.op = "insert"
    /\ result(<<>>)
    /\ UNCHANGED <<block, client>>

\* _wf_save_cursor_name(), _wf_step_server_cursor()
CreateResult ==
    /\ inFlight.op = "create"
    /\ result(<< request("step", emitted - size) >>)
    /\ UNCHANGED <<block, client>>

\* Variant with a bug: an incomplete block does not end the stream.
should_continue_Always == ~closed

\* the block was sent, and it was full
should_continue == Len(block) = BlockSize /\ ~closed

\* _wf_process_logs_block(), then the next block or _wf_delete_server_cursor()
StepResult ==
    /\ inFlight.op = "step"
    /\ received' = IF closed THEN received ELSE received \o block
    /\ block' = <<>>
    /\ result(<< request(IF should_continue THEN "step" ELSE "delete", emitted - size) >>)
    /\ UNCHANGED <<phase, params, realtimeBuffer, since, closed>>

\* _wf_end_db_logs(): "we can flush the buffer of realtime logs"
DeleteResult ==
    /\ inFlight.op = "delete"
    /\ result(<<>>)
    /\ IF params.realtime
       THEN /\ phase' = "sending"
            /\ received' = IF closed THEN received ELSE received \o realtimeBuffer
            /\ realtimeBuffer' = <<>>
            /\ UNCHANGED closed
       ELSE /\ phase' = "over"
            /\ closed' = TRUE
            /\ UNCHANGED <<received, realtimeBuffer>>
    /\ UNCHANGED <<block, params, since>>

Next ==
    \/ \E k \in 1 .. MaxBatch : Log(k)
    \/ PlannedFlush
    \/ \E history, realtime \in BOOLEAN : Subscribe(history, realtime)
    \/ Disconnect
    \/ DbExecutes
    \/ InsertResult
    \/ CreateResult
    \/ StepResult
    \/ DeleteResult

Spec == Init /\ [][Next]_vars

\* The event loop fires planned events and handles results, the database process
\* executes requests. Nobody has to log, subscribe or disconnect.
Fairness ==
    /\ WF_vars(PlannedFlush)
    /\ WF_vars(DbExecutes)
    /\ WF_vars(InsertResult \/ CreateResult \/ StepResult \/ DeleteResult)

FairSpec == Spec /\ Fairness

-----------------------------------------------------------------------------
(***************************************************************************)
(* Properties                                                              *)
(***************************************************************************)

\* The lines an insert carries, as they stand now
carried(req) == IF req.op = "insert" THEN SubSeq(arrays[req.array], 1, req.len) ELSE <<>>

\* All lines: stored, on their way to the database process, in the queue of the
\* connector, in the buffer.
pipeline ==
    db \o (IF answered THEN <<>> ELSE inFlight.rows)
       \o FlattenSeq([i \in DOMAIN nextReqs |-> carried(nextReqs[i])])
       \o SubSeq(_buffer, 1, size)

\* Number of lines in the table once the requests up to the i-th that waits are executed
lines_upto(i) == IF i = 0 THEN inFlight.upto ELSE nextReqs[i].upto

\* Every insert keeps the place of its lines, whatever is logged, flushed or asked while
\* it waits: as many lines are in the table, or on their way to it in the order of the
\* requests, or in the buffer, as were logged (logs.py:62-79, process.py:496-501,
\* 611-618).
NoLineUncounted ==
    /\ inFlight = NoRequest => Len(db) = emitted - size
    /\ inFlight # NoRequest =>
          /\ Len(db) = inFlight.upto - IF answered THEN 0 ELSE Len(inFlight.rows)
          /\ \A i \in DOMAIN nextReqs : lines_upto(i) = lines_upto(i - 1) + nextReqs[i].len
          /\ lines_upto(Len(nextReqs)) = emitted - size

\* "Logs cause many inserts in db, so we buffer them during a limited time and then
\* possibly insert many of them at once" (logs.py:53-55): every line that is logged
\* is stored once, in order.
LinesStoredOnce == pipeline = [i \in 1 .. emitted |-> i]

\* The history and the real time of a client join exactly: the history has as many
\* lines as were logged when it subscribed, the lines logged since follow in order
\* (logs.py:399-406, 440-472).
HistoryMeetsRealtime ==
    phase = "sending" /\ ~closed =>
        LET first == IF params.history THEN since ELSE 0 IN
        /\ Len(received) = first + (emitted - since)
        /\ \A i \in 1 .. (emitted - since) : received[first + i] = since + i

\* The buffer is flushed in a limited time: a line is followed in the table by as
\* many as were logged (logs.py:62-71).
LinesReachTable == \A k \in 1 .. MaxLogs : (emitted >= k) ~> (Len(db) >= k)

\* The history ends, whether the client stays or not, and no cursor is left behind
\* (logs.py:424-453).
HistoryEnds == (phase = "history") ~> (phase # "history" /\ ~cursorOpen)
=============================================================================
