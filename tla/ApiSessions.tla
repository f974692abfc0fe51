---------------------------- MODULE ApiSessions ----------------------------
(***************************************************************************)
(* The API sessions of clients. A client has one connection to server-hub  *)
(* (hub/client.py); the hub submits its requests to server-main over a     *)
(* pipe (process.py), and server-main calls the client back, through the   *)
(* hub, while it works on a request (main/apisession.py, main/task.py).    *)
(*                                                                         *)
(* The hub never waits. Server-main does: a call to a client runs a nested *)
(* event loop until the result is there, so its handlers form a stack. The *)
(* requests are of two kinds: those that print a few lines and return, and *)
(* "walt node wait", which ends when the nodes have booted: flush()        *)
(* (main/nodes/wait.py) sends labels to the clients that wait.             *)
(***************************************************************************)
EXTENDS Naturals, Sequences, FiniteSets

CONSTANTS
    Sessions,
    NoTask,
    Commands,       \* kinds of requests of each client
    MaxRequests,    \* bound on the requests of a client
    MaxPrints,      \* bound on the lines printed
    MaxEvents       \* bound on the boot events

Tasks == Sessions \X (1..MaxRequests)

ASSUME ApiSessionsAssumption ==
    /\ NoTask \notin Tasks
    /\ Commands \in [Sessions -> SUBSET {"print", "wait"}]
    /\ MaxRequests \in Nat /\ MaxPrints \in Nat /\ MaxEvents \in Nat

VARIABLES
    client,         \* what each client does
    requested,      \* number of requests each client sent
    link,           \* its connection, as the system of the hub knows it
    toClient,       \* data for the client, not read yet
    fromClient,     \* data of the client, not read yet
    session,        \* hub: state of the APISessionManager of each client
    sent,           \* hub: sessions that submitted a task
    callStack,      \* hub: stack_of_client_tasks of each session
    submitted,      \* hub: submitted_tasks
    ignored,        \* history: tasks whose exception the hub ignored
    hubBatch,       \* hub: messages drained from the pipe, still to handle
    mainToHub,      \* pipe
    hubToMain,      \* pipe
    stack,          \* main: handlers under way
    sessions,       \* main: APISession.SESSIONS
    username,       \* main: _cached_username of each session
    waiting,        \* main: tasks of WaitInfo
    failed,         \* exception that left the event loop of the hub or of main
    revived,        \* history: sessions created again after they were destroyed
    destroyed,      \* history: sessions main was asked to destroy
    printed,        \* number of lines printed so far
    events          \* number of boot events so far

clientVars == <<client, requested, fromClient>>
hubVars == <<session, sent, callStack, submitted, ignored, hubBatch>>
mainVars == <<stack, sessions, username, waiting, revived, destroyed, printed, events>>
vars == <<clientVars, link, toClient, hubVars, mainToHub, hubToMain, mainVars, failed>>

Kinds == {"print", "wait"}
Calls == {"print", "get_username", "set_busy_label"}
Depths == Nat \ {0}

\* What a call returns: what the client answered, None, or an exception.
Answers == Calls \cup {"None", "exception"}

ToClient == [type : {"call"}, what : Calls] \cup [type : {"result"}]
FromClient == [type : {"request"}, kind : Kinds] \cup [type : {"answer"}, what : Calls]

\* A call is named by the depth of the handler that waits for it.
ToHub == [type : {"result"}, task : Tasks, raised : BOOLEAN]
    \cup [type : {"call"}, task : Tasks, depth : Depths, what : Calls]
ToMain == [type : {"result"}, depth : Depths, value : Answers]
    \cup [type : {"run"}, task : Tasks, kind : Kinds]
    \cup [type : {"destroy"}, session : Sessions]

\* A call forwarded to the client; over once it has been answered to main.
ClientTask == [depth : Depths, over : BOOLEAN]

\* A handler: the messages drained from the pipe, a task, or a boot event; labels
\* are the tasks flush() has still to notify. It may wait for a call about a task;
\* answer is its entry in connector.results.
Frame == [job : {"batch", "event"} \cup Kinds, todo : Seq(ToMain),
          task : Tasks \cup {NoTask}, labels : SUBSET Tasks,
          call : Calls \cup {"none"}, answer : Answers \cup {"none"}]

TypeOK ==
    /\ client \in [Sessions -> {"ready", "waiting", "gone"}]
    /\ requested \in [Sessions -> 0..MaxRequests]
    /\ link \in [Sessions -> {"open", "left", "reset"}]
    /\ toClient \in [Sessions -> Seq(ToClient)]
    /\ fromClient \in [Sessions -> Seq(FromClient)]
    /\ session \in [Sessions -> {"open", "shut", "closed", "aborted"}]
    /\ sent \in SUBSET Sessions
    /\ callStack \in [Sessions -> Seq(ClientTask)]
    /\ submitted \in SUBSET Tasks
    /\ ignored \in SUBSET Tasks
    /\ hubBatch \in Seq(ToHub)
    /\ mainToHub \in Seq(ToHub)
    /\ hubToMain \in Seq(ToMain)
    /\ stack \in Seq(Frame)
    /\ sessions \in SUBSET Sessions
    /\ username \in [Sessions -> {"unknown", "known", "None"}]
    /\ waiting \in SUBSET Tasks
    /\ failed \in {"no", "lookup", "twice", "exception"}
    /\ revived \in SUBSET Sessions
    /\ destroyed \in SUBSET Sessions
    /\ printed \in 0..MaxPrints
    /\ events \in 0..MaxEvents

Init ==
    /\ client = [s \in Sessions |-> "ready"]
    /\ requested = [s \in Sessions |-> 0]
    /\ link = [s \in Sessions |-> "open"]
    /\ toClient = [s \in Sessions |-> <<>>]
    /\ fromClient = [s \in Sessions |-> <<>>]
    /\ session = [s \in Sessions |-> "open"]
    /\ sent = {}
    /\ callStack = [s \in Sessions |-> <<>>]
    /\ submitted = {} /\ ignored = {}
    /\ hubBatch = <<>> /\ mainToHub = <<>> /\ hubToMain = <<>>
    /\ stack = <<>>
    /\ sessions = {}
    /\ username = [s \in Sessions |-> "unknown"]
    /\ waiting = {}
    /\ failed = "no"
    /\ revived = {} /\ destroyed = {}
    /\ printed = 0 /\ events = 0

\* handle_next_event(): a stable sort, results first
sorted(messages) ==
    LET is_result(i) == messages[i].type = "result"
        before(i, j) == IF is_result(i) <=> is_result(j) THEN i < j ELSE is_result(i)
        rank(j) == Cardinality({i \in DOMAIN messages : before(i, j)}) + 1
    IN  [p \in DOMAIN messages |-> messages[CHOOSE j \in DOMAIN messages : rank(j) = p]]

result(depth, value) == [type |-> "result", depth |-> depth, value |-> value]

-----------------------------------------------------------------------------
\* Clients

\* A command sends a request, and waits for its result.
ClientRequests(s, kind) ==
    /\ client[s] = "ready" /\ requested[s] < MaxRequests
    /\ client' = [client EXCEPT ![s] = "waiting"]
    /\ requested' = [requested EXCEPT ![s] = @ + 1]
    /\ fromClient' = [fromClient EXCEPT ![s] = Append(@, [type |-> "request", kind |-> kind])]
    /\ UNCHANGED <<link, toClient, hubVars, mainToHub, hubToMain, mainVars, failed>>

\* wait_api_result(): calls are answered in order until the result is there.
ClientReads(s) ==
    /\ client[s] = "waiting" /\ toClient[s] # <<>>
    /\ LET m == Head(toClient[s]) IN
       IF m.type = "result"
       THEN client' = [client EXCEPT ![s] = "ready"] /\ UNCHANGED fromClient
       ELSE /\ fromClient' = [fromClient EXCEPT ![s] =
                                Append(@, [type |-> "answer", what |-> m.what])]
            /\ UNCHANGED client
    /\ toClient' = [toClient EXCEPT ![s] = Tail(@)]
    /\ UNCHANGED <<requested, link, hubVars, mainToHub, hubToMain, mainVars, failed>>

\* The command ends or is killed. Data it did not read resets the connection.
ClientLeaves(s) ==
    /\ client[s] # "gone"
    /\ client' = [client EXCEPT ![s] = "gone"]
    /\ link' = [link EXCEPT ![s] = IF toClient[s] = <<>> THEN "left" ELSE "reset"]
    /\ toClient' = [toClient EXCEPT ![s] = <<>>]
    /\ UNCHANGED <<requested, fromClient, hubVars, mainToHub, hubToMain, mainVars, failed>>

-----------------------------------------------------------------------------
\* Hub

\* api_channel.write(): what a client that left does not read resets the connection
written(s, m) ==
    /\ toClient' = IF link[s] # "open" THEN toClient
                   ELSE [toClient EXCEPT ![s] = Append(@, m)]
    /\ link' = IF link[s] = "left" THEN [link EXCEPT ![s] = "reset"] ELSE link

\* Number of calls that close() leaves unanswered: it answers the last one first, and
\* stops at one that is over already (assertion of RPCTask.return_result()).
left(calls) ==
    Cardinality({i \in DOMAIN calls : \E j \in DOMAIN calls : j >= i /\ calls[j].over})

\* Variant of all_over: the calls answered are not marked
all_over_Not(calls) == calls

all_over(calls) == [i \in DOMAIN calls |-> [calls[i] EXCEPT !.over = TRUE]]

\* Variant of none_results: close() forgets the calls in progress
none_results_Dropped(calls) == <<>>

none_results(calls) ==
    [i \in DOMAIN calls |-> result(calls[Len(calls) + 1 - i].depth, "None")]

\* Variant of destroy_session: only when no call was in progress
destroy_session_Idle(s) ==
    IF s \in sent /\ callStack[s] = <<>> THEN <<[type |-> "destroy", session |-> s]>> ELSE <<>>

destroy_session(s) ==
    IF s \in sent THEN <<[type |-> "destroy", session |-> s]>> ELSE <<>>

\* close() of a session whose stack_of_client_tasks is calls
close(s, calls) ==
    LET kept == left(calls)
        answered == SubSeq(calls, kept + 1, Len(calls)) IN
    /\ callStack' = [callStack EXCEPT ![s] = SubSeq(calls, 1, kept) \o all_over(answered)]
    /\ hubToMain' = hubToMain \o none_results(answered)
         \o IF kept = 0 THEN destroy_session(s) ELSE <<>>

\* remove_listener(): an exception of close() is ignored
removed(s, calls) ==
    /\ close(s, calls)
    /\ session' = [session EXCEPT ![s] = IF @ = "shut" \/ left(calls) = 0 THEN "closed"
                                         ELSE "aborted"]

HubReadsPipe ==
    /\ failed = "no" /\ hubBatch = <<>> /\ mainToHub # <<>>
    /\ hubBatch' = sorted(mainToHub)
    /\ mainToHub' = <<>>
    /\ UNCHANGED <<clientVars, link, toClient, session, sent, callStack, submitted, ignored,
                   hubToMain, mainVars, failed>>

\* The result of a task: return_result() of the session. An exception is ignored, as
\* record_task() defines no exception_cb.
HubHandlesResult ==
    /\ failed = "no" /\ hubBatch # <<>> /\ Head(hubBatch).type = "result"
    /\ LET t == Head(hubBatch).task
           s == t[1]
           raised == Head(hubBatch).raised
           returned == ~raised /\ session[s] \in {"open", "aborted"} IN
       /\ submitted' = submitted \ {t}
       /\ ignored' = IF raised THEN ignored \cup {t} ELSE ignored
       /\ \/ /\ ~returned
             /\ UNCHANGED <<link, toClient, session, callStack, hubToMain, failed>>
          \/ /\ returned /\ link[s] # "reset"
             /\ written(s, [type |-> "result"])
             /\ UNCHANGED <<session, callStack, hubToMain, failed>>
          \/ /\ returned /\ link[s] = "reset"
             /\ close(s, callStack[s])
             /\ IF left(callStack[s]) = 0
                THEN session' = [session EXCEPT ![s] = "shut"] /\ UNCHANGED failed
                ELSE failed' = "twice" /\ UNCHANGED session
             /\ UNCHANGED <<link, toClient>>
    /\ hubBatch' = Tail(hubBatch)
    /\ UNCHANGED <<clientVars, sent, mainToHub, mainVars>>

\* Variant of known: the session is looked up, not the task
known_Any(t) == TRUE

\* Main may call about a task whose result it has sent already: the lookup of the
\* task in submitted_tasks then fails, out of any handler of exceptions.
known(t) == t \in submitted

\* Variant of refused: the closed socket is not tested
refused_Never(s) == FALSE

refused(s) == session[s] \in {"shut", "closed"}

\* A call to a client: handle_api_call(), forward_requester_request(). When the
\* connection is reset the exception is not the one that is caught: it is returned,
\* and the call stays in the stack.
HubHandlesCall ==
    /\ failed = "no" /\ hubBatch # <<>> /\ Head(hubBatch).type = "call"
    /\ LET m == Head(hubBatch)
           s == m.task[1]
           breaks == session[s] \in {"open", "aborted"} /\ link[s] = "reset"
           stacked(over) == [callStack EXCEPT ![s] =
                                Append(@, [depth |-> m.depth, over |-> over])] IN
       \/ /\ ~known(m.task)
          /\ failed' = "lookup"
          /\ UNCHANGED <<link, toClient, callStack, hubBatch, hubToMain>>
       \/ /\ known(m.task) /\ refused(s)
          /\ hubToMain' = Append(hubToMain, result(m.depth, "None"))
          /\ hubBatch' = Tail(hubBatch)
          /\ UNCHANGED <<link, toClient, callStack, failed>>
       \/ /\ known(m.task) /\ ~refused(s) /\ ~breaks
          /\ callStack' = stacked(FALSE)
          /\ written(s, [type |-> "call", what |-> m.what])
          /\ hubBatch' = Tail(hubBatch)
          /\ UNCHANGED <<hubToMain, failed>>
       \/ /\ known(m.task) /\ breaks
          /\ callStack' = stacked(TRUE)
          /\ hubToMain' = Append(hubToMain, result(m.depth, "exception"))
          /\ hubBatch' = Tail(hubBatch)
          /\ UNCHANGED <<link, toClient, failed>>
    /\ UNCHANGED <<clientVars, session, sent, submitted, ignored, mainToHub, mainVars>>

\* handle_client_message(): a request is submitted, an answer is the result of the
\* last call forwarded.
HubReadsClient(s) ==
    /\ failed = "no" /\ hubBatch = <<>>
    /\ session[s] = "open" /\ fromClient[s] # <<>>
    /\ fromClient' = [fromClient EXCEPT ![s] = Tail(@)]
    /\ LET m == Head(fromClient[s])
           t == <<s, requested[s]>>
           calls == callStack[s]
           last == calls[Len(calls)]
           others == SubSeq(calls, 1, Len(calls) - 1) IN
       \/ /\ m.type = "request"
          /\ sent' = sent \cup {s}
          /\ submitted' = submitted \cup {t}
          /\ hubToMain' = Append(hubToMain, [type |-> "run", task |-> t, kind |-> m.kind])
          /\ UNCHANGED <<session, callStack>>
       \/ /\ m.type = "answer" /\ calls # <<>> /\ ~last.over
          /\ callStack' = [callStack EXCEPT ![s] = others]
          /\ hubToMain' = Append(hubToMain, result(last.depth, m.what))
          /\ UNCHANGED <<session, sent, submitted>>
       \/ /\ m.type = "answer" /\ (calls = <<>> \/ last.over)
          /\ removed(s, IF calls = <<>> THEN calls ELSE others)
          /\ UNCHANGED <<sent, submitted>>
    /\ UNCHANGED <<client, requested, link, toClient, ignored, hubBatch, mainToHub, mainVars,
                   failed>>

\* The connection is closed by the client, or by return_result().
HubRemovesClient(s) ==
    /\ failed = "no" /\ hubBatch = <<>>
    /\ \/ session[s] = "open" /\ fromClient[s] = <<>> /\ link[s] # "open"
       \/ session[s] = "shut"
    /\ removed(s, callStack[s])
    /\ UNCHANGED <<clientVars, link, toClient, sent, submitted, ignored, hubBatch, mainToHub,
                   mainVars, failed>>

-----------------------------------------------------------------------------
\* Main

top == stack[Len(stack)]

pop == SubSeq(stack, 1, Len(stack) - 1)

with_top(frame) == [stack EXCEPT ![Len(stack)] = frame]

NoFrame == [job |-> "batch", todo |-> <<>>, task |-> NoTask, labels |-> {},
            call |-> "none", answer |-> "none"]

\* The event loop runs, the first one or the one of a call whose result is awaited.
Idle == failed = "no" /\ (stack # <<>> => top.call # "none" /\ top.answer = "none")

Running == failed = "no" /\ stack # <<>> /\ top.call = "none"

\* handle_next_event() drains the pipe.
MainReadsPipe ==
    /\ Idle /\ hubToMain # <<>>
    /\ stack' = Append(stack, [NoFrame EXCEPT !.todo = sorted(hubToMain)])
    /\ hubToMain' = <<>>
    /\ UNCHANGED <<clientVars, link, toClient, hubVars, mainToHub, sessions, username, waiting,
                   revived, destroyed, printed, events, failed>>

\* The next message, or the end of handle_next_event().
MainHandlesMessage ==
    /\ Running /\ top.job = "batch"
    /\ LET m == Head(top.todo)
           rest == with_top([top EXCEPT !.todo = Tail(@)]) IN
       \/ /\ top.todo = <<>>
          /\ stack' = pop
          /\ UNCHANGED <<sessions, waiting, revived, destroyed>>
       \/ /\ top.todo # <<>> /\ m.type = "result"
          /\ stack' = [rest EXCEPT ![m.depth].answer = m.value]
          /\ UNCHANGED <<sessions, waiting, revived, destroyed>>
       \/ /\ top.todo # <<>> /\ m.type = "run"
          /\ stack' = Append(rest, [NoFrame EXCEPT !.job = m.kind, !.task = m.task,
                      !.labels = IF m.kind = "wait" THEN {m.task} ELSE {}])
          /\ waiting' = IF m.kind = "wait" THEN waiting \cup {m.task} ELSE waiting
          /\ sessions' = sessions \cup {m.task[1]}
          /\ revived' = revived \cup ({m.task[1]} \cap destroyed)
          /\ UNCHANGED destroyed
       \/ /\ top.todo # <<>> /\ m.type = "destroy"
          /\ stack' = rest
          /\ sessions' = sessions \ {m.session}
          /\ destroyed' = destroyed \cup {m.session}
          /\ UNCHANGED <<waiting, revived>>
    /\ UNCHANGED <<clientVars, link, toClient, hubVars, mainToHub, hubToMain, username,
                   printed, events, failed>>

call(t, what) ==
    /\ mainToHub' = Append(mainToHub, [type |-> "call", task |-> t, depth |-> Len(stack),
                                       what |-> what])
    /\ stack' = with_top([top EXCEPT !.task = t, !.call = what])

\* requester.stdout.write() in a task
TaskPrints ==
    /\ Running /\ top.job = "print" /\ printed < MaxPrints
    /\ printed' = printed + 1
    /\ call(top.task, "print")
    /\ UNCHANGED <<clientVars, link, toClient, hubVars, hubToMain, sessions, username, waiting,
                   revived, destroyed, events, failed>>

task_result(t, raised) == [type |-> "result", task |-> t, raised |-> raised]

\* The task ends: its result, or the exception it raised, is returned (run(), task.py).
TaskReturns(raised) ==
    /\ Running /\ top.job = "print"
    /\ stack' = pop
    /\ mainToHub' = Append(mainToHub, task_result(top.task, raised))
    /\ UNCHANGED <<clientVars, link, toClient, hubVars, hubToMain, sessions, username, waiting,
                   revived, destroyed, printed, events, failed>>

-----------------------------------------------------------------------------
\* Tasks that wait for nodes

\* The loop of flush(): get_username(), then set_busy_label() unless the client is
\* known to be gone. One task is finished before the next one.
Notify(t) ==
    /\ Running /\ top.job \in {"wait", "event"}
    /\ t \in top.labels /\ top.task \in {NoTask, t}
    /\ \/ /\ username[t[1]] = "unknown"
          /\ call(t, "get_username")
       \/ /\ username[t[1]] = "known"
          /\ call(t, "set_busy_label")
       \/ /\ username[t[1]] = "None"
          /\ stack' = with_top([top EXCEPT !.labels = @ \ {t}, !.task = NoTask])
          /\ UNCHANGED mainToHub
    /\ UNCHANGED <<clientVars, link, toClient, hubVars, hubToMain, sessions, username, waiting,
                   revived, destroyed, printed, events, failed>>

\* The end of flush()
FlushEnds ==
    /\ Running /\ top.job \in {"wait", "event"} /\ top.labels = {}
    /\ stack' = pop
    /\ UNCHANGED <<clientVars, link, toClient, hubVars, mainToHub, hubToMain, sessions, username,
                   waiting, revived, destroyed, printed, events, failed>>

orders(S) ==
    {q \in [1..Cardinality(S) -> S] : \A i, j \in 1..Cardinality(S) : q[i] = q[j] => i = j}

\* Nodes have booted: flush() of node_bootup_event() ends the tasks that have all
\* their nodes and notifies the others. _bg_processing prevents two of them.
BootEvent(ended, labels) ==
    /\ Idle /\ events < MaxEvents
    /\ \A d \in DOMAIN stack : stack[d].job # "event"
    /\ ended \cup labels # {} /\ ended \cap labels = {}
    /\ events' = events + 1
    /\ waiting' = waiting \ ended
    /\ \E q \in orders(ended) :
           mainToHub' = mainToHub \o [i \in DOMAIN q |-> task_result(q[i], FALSE)]
    /\ stack' = Append(stack, [NoFrame EXCEPT !.job = "event", !.labels = labels])
    /\ UNCHANGED <<clientVars, link, toClient, hubVars, hubToMain, sessions, username, revived,
                   destroyed, printed, failed>>

\* get_username() of main/apisession.py
cached(answer) == IF answer = "get_username" THEN "known" ELSE "None"

\* sync_runner() returns, in the handler that called. An exception ends a task, and is
\* what the task returns; the one of a task that waits is dropped, it is asynchronous.
CallReturns ==
    /\ failed = "no" /\ stack # <<>> /\ top.answer # "none"
    /\ LET back == [top EXCEPT !.call = "none", !.answer = "none"]
           s == top.task[1] IN
       \/ /\ top.answer # "exception" /\ top.call = "get_username"
          /\ username' = [username EXCEPT ![s] = cached(top.answer)]
          /\ stack' = with_top(back)
          /\ UNCHANGED <<mainToHub, failed>>
       \/ /\ top.answer # "exception" /\ top.call = "set_busy_label"
          /\ stack' = with_top([back EXCEPT !.labels = @ \ {top.task}, !.task = NoTask])
          /\ UNCHANGED <<username, mainToHub, failed>>
       \/ /\ top.answer # "exception" /\ top.call = "print"
          /\ stack' = with_top(back)
          /\ UNCHANGED <<username, mainToHub, failed>>
       \/ /\ top.answer = "exception" /\ top.job = "print"
          /\ stack' = pop
          /\ mainToHub' = Append(mainToHub, task_result(top.task, TRUE))
          /\ UNCHANGED <<username, failed>>
       \/ /\ top.answer = "exception" /\ top.job = "wait"
          /\ stack' = pop
          /\ UNCHANGED <<username, mainToHub, failed>>
       \/ /\ top.answer = "exception" /\ top.job = "event"
          /\ failed' = "exception"
          /\ UNCHANGED <<username, stack, mainToHub>>
    /\ UNCHANGED <<clientVars, link, toClient, hubVars, hubToMain, sessions, waiting, revived,
                   destroyed, printed, events>>

-----------------------------------------------------------------------------
ClientStep ==
    \E s \in Sessions :
        ClientReads(s) \/ ClientLeaves(s) \/ \E kind \in Commands[s] : ClientRequests(s, kind)

HubStep ==
    \/ HubReadsPipe \/ HubHandlesResult \/ HubHandlesCall
    \/ \E s \in Sessions : HubReadsClient(s) \/ HubRemovesClient(s)

MainStep ==
    \/ MainReadsPipe \/ MainHandlesMessage
    \/ TaskPrints \/ FlushEnds \/ CallReturns
    \/ \E raised \in BOOLEAN : TaskReturns(raised)
    \/ \E t \in Tasks : Notify(t)

Next ==
    \/ ClientStep \/ HubStep \/ MainStep
    \/ \E ended, labels \in SUBSET waiting : BootEvent(ended, labels)

\* The loops of both processes run, and a client that waits reads what it is sent.
Fairness ==
    /\ WF_vars(MainStep)
    /\ WF_vars(HubReadsPipe) /\ WF_vars(HubHandlesResult) /\ WF_vars(HubHandlesCall)
    /\ \A s \in Sessions :
           /\ WF_vars(HubReadsClient(s)) /\ WF_vars(HubRemovesClient(s))
           /\ WF_vars(ClientReads(s))

Spec == Init /\ [][Next]_vars

FairSpec == Spec /\ Fairness

-----------------------------------------------------------------------------
\* Properties

calls_of(messages, d) ==
    {i \in DOMAIN messages : messages[i].type = "call" /\ messages[i].depth = d}

results_of(messages, d) ==
    {i \in DOMAIN messages : messages[i].type = "result" /\ messages[i].depth = d}

stacked_for(s, d) == {i \in DOMAIN callStack[s] : callStack[s][i] = [depth |-> d, over |-> FALSE]}

\* Number of places where the call of the handler at depth d is: the pipes, the hub,
\* the client, the messages that main has still to handle, the results
places(d) ==
    Cardinality(calls_of(mainToHub, d)) + Cardinality(calls_of(hubBatch, d))
    + Cardinality(UNION {{s} \X stacked_for(s, d) : s \in Sessions})
    + Cardinality(results_of(hubToMain, d))
    + Cardinality(UNION {{e} \X results_of(stack[e].todo, d) : e \in DOMAIN stack})
    + IF stack[d].answer # "none" THEN 1 ELSE 0

\* A call that a handler of server-main waits for is in exactly one place, as a call or
\* as its result: it is never lost, and never answered twice, even when the client
\* leaves, when the connection is reset under a write, or when close() answers the
\* calls the client will not answer (stack_of_client_tasks, hub/client.py).
CallInOnePlace ==
    \A d \in DOMAIN stack : places(d) = IF stack[d].call # "none" THEN 1 ELSE 0

\* A client that does not wait for a result is sent nothing: the calls made for its
\* request by other handlers (flush() of the boot events, nested or not) reach it
\* before its result, or do not reach it (handle_api_call(), process.py).
ClientsExpectCalls == \A s \in Sessions : client[s] = "ready" => toClient[s] = <<>>

to_destroy(s) ==
    \/ \E i \in DOMAIN hubToMain : hubToMain[i] = [type |-> "destroy", session |-> s]
    \/ \E d \in DOMAIN stack : \E i \in DOMAIN stack[d].todo :
           stack[d].todo[i] = [type |-> "destroy", session |-> s]

\* Main keeps a session (APISession.SESSIONS, with its exit stack and its image sets)
\* only for a client that is connected, or until the destroy_session on its way is
\* handled. The exceptions are a task handled after the destroy_session of its session,
\* left in the batch of an outer handler, and a close() that an assertion interrupted.
SessionsFollowClients ==
    \A s \in sessions :
        \/ session[s] = "open" \/ to_destroy(s)
        \/ s \in revived \/ session[s] = "aborted" \/ failed # "no"

\* An exception left an event loop, or left a close() half-way.
stuck == failed # "no" \/ \E s \in Sessions : session[s] = "aborted"

\* The handlers of main do not wait for ever for a client: it answers, or leaves and
\* the hub answers for it, and the nested loops end (sync_runner(), process.py).
CallsReturn == []<>(stack = <<>> \/ stuck)

\* A client that waits for the result of its request gets it, or leaves, except while
\* the nodes it waits for have not booted: no order of the messages, of the calls to
\* the other clients and of their departures leaves it without (_write_task()). The code
\* does leave it without when its task raises: handle_next_event() of the hub prints a
\* warning, drops the task and calls nothing (process.py:507-520), so the client waits until
\* its user interrupts it (ignored).
RequestsAnswered ==
    \A s \in Sessions :
        []<>(\/ client[s] # "waiting" \/ <<s, requested[s]>> \in waiting
             \/ <<s, requested[s]>> \in ignored \/ stuck)
=============================================================================
