------------------------------ MODULE NodeWait ------------------------------
(***************************************************************************)
(* Boot events of nodes and the clients that wait for them: the background *)
(* process of the boot status (main/nodes/status.py), the tables of        *)
(* "walt node wait" (main/nodes/wait.py) and the command itself            *)
(* (main/nodes/manager.py).                                                *)
(*                                                                         *)
(* The handlers of server-main run in one event loop, but a call to a      *)
(* client runs a nested loop until the client answers, and other handlers  *)
(* run in it: stack is the stack of these nested loops. A handler that was *)
(* suspended by a call only goes on when its frame is the top again.       *)
(*                                                                         *)
(* Boot timeouts are here only as a moment when a check may reboot nodes,  *)
(* and powersave as a set of nodes that are turned off.                    *)
(***************************************************************************)
EXTENDS Naturals, Sequences

CONSTANTS
    Nodes,
    Tasks,          \* tasks of "walt node wait" commands, one per command
    NoTask,         \* no call to a client under way
    MaxEvents       \* bound on the number of reports and of timers

ASSUME NodeWaitAssumption ==
    /\ NoTask \notin Tasks
    /\ MaxEvents \in Nat

VARIABLES
    booted,         \* _booted_macs
    events,         \* _booted_events: reports, each about some nodes
    bgProcessing,   \* _bg_processing
    rebooting,      \* _bg_process called reboot_nodes(), which did not call back yet
    stack,          \* handlers that called a client, the last one on top
    tasks,          \* WaitInfo.tasks
    tidToMacs,      \* WaitInfo.tid_to_macs
    macToTids,      \* WaitInfo.mac_to_tids
    named,          \* keys of WaitInfo.mac_to_name
    command,        \* progress of each command
    view,           \* what the command saw when it started
    asleep,         \* nodes powersave turned off
    reported,       \* history: nodes the last report about them said booted
    overtaken,      \* history: nodes already booted when the task started to await them
    handled         \* number of reports and timers so far

vars == <<booted, events, bgProcessing, rebooting, stack, tasks, tidToMacs, macToTids,
          named, command, view, asleep, reported, overtaken, handled>>

status == <<booted, events, bgProcessing, rebooting, reported>>
waitInfo == <<tasks, tidToMacs, macToTids, named>>

Report == [nodes : SUBSET Nodes, booted : BOOLEAN]

\* What wait() saw of its nodes: not_booted, and off_nodes of wf_wakeup_nodes().
View == [notBooted : SUBSET Nodes, off : SUBSET Nodes]

\* job "bg": _bg_process(), with the nodes it has still to announce, the nodes
\* that went down, and the labels flush() has still to send. job "wake" or
\* "wait": the handler of a command. sending: the client being called.
Frame == [job : {"bg", "wake", "wait"}, todo : SUBSET Nodes, downs : SUBSET Nodes,
          labels : SUBSET Tasks, sending : Tasks \cup {NoTask}]

TypeOK ==
    /\ booted \in SUBSET Nodes
    /\ events \in Seq(Report)
    /\ bgProcessing \in BOOLEAN
    /\ rebooting \in BOOLEAN
    /\ stack \in Seq(Frame)
    /\ tasks \in SUBSET Tasks
    /\ tidToMacs \in [Tasks -> SUBSET Nodes]
    /\ macToTids \in [Nodes -> SUBSET Tasks]
    /\ named \in SUBSET Nodes
    /\ command \in [Tasks -> {"idle", "waking", "waiting", "answered"}]
    /\ view \in [Tasks -> View]
    /\ asleep \in SUBSET Nodes
    /\ reported \in SUBSET Nodes
    /\ overtaken \in [Tasks -> SUBSET Nodes]
    /\ handled \in Nat

\* Init: the daemon has just started, no node has connected yet; powersave
\* starts with all its nodes on.
Init ==
    /\ booted = {}
    /\ events = <<>>
    /\ bgProcessing = FALSE
    /\ rebooting = FALSE
    /\ stack = <<>>
    /\ tasks = {}
    /\ tidToMacs = [t \in Tasks |-> {}]
    /\ macToTids = [n \in Nodes |-> {}]
    /\ named = {}
    /\ command = [t \in Tasks |-> "idle"]
    /\ view = [t \in Tasks |-> [notBooted |-> {}, off |-> {}]]
    /\ asleep = {}
    /\ reported = {}
    /\ overtaken = [t \in Tasks |-> {}]
    /\ handled = 0

-----------------------------------------------------------------------------
\* The stack of nested loops

top == stack[Len(stack)]

below(s) == [i \in 1..(Len(s) - 1) |-> s[i]]

replaceTop(frame) == [stack EXCEPT ![Len(stack)] = frame]

\* A handler may start: the event loop runs, the first one or a nested one.
Idle == stack # <<>> => top.sending # NoTask

\* The handler on top of the stack is running.
Running == stack # <<>> /\ top.sending = NoTask

call(job, t) ==
    [job |-> job, todo |-> {}, downs |-> {}, labels |-> {}, sending |-> t]

-----------------------------------------------------------------------------
\* _bg_process()

about(evts, n) == {i \in DOMAIN evts : n \in evts[i].nodes}

\* Variant with a bug: the events are not flipped, the first one wins.
retained_First(evts, n) ==
    evts[CHOOSE i \in about(evts, n) : \A j \in about(evts, n) : i <= j].booted

\* "if we have several events for one ip, consider the last one only"
retained(evts, n) ==
    evts[CHOOSE i \in about(evts, n) : \A j \in about(evts, n) : j <= i].booted

\* "ignore events not changing current status", given the nodes booted so far
ups(evts, up) == {n \in Nodes \ up : about(evts, n) # {} /\ retained(evts, n)}
downs(evts, up) == {n \in up : about(evts, n) # {} /\ ~retained(evts, n)}

\* _bg_process() up to the announcement of the booted nodes. Its caller leaves
\* evts in _booted_events, up in _booted_macs, and runs above the loops under.
BgProcess(evts, up, under) ==
    /\ bgProcessing' = TRUE
    /\ events' = <<>>
    /\ booted' = up \cup ups(evts, up)
    /\ stack' = Append(under, [job |-> "bg", todo |-> ups(evts, up),
                               downs |-> downs(evts, up), labels |-> {},
                               sending |-> NoTask])

\* Variant with a bug: _bg_process() does not look at _bg_processing.
planBgProcess_Reentrant(evts, up, processing, under) ==
    IF evts # <<>> THEN BgProcess(evts, up, under)
    ELSE events' = evts /\ booted' = up /\ bgProcessing' = processing /\ stack' = under

\* _plan_bg_process(), with _bg_processing as the caller leaves it
planBgProcess(evts, up, processing, under) ==
    IF evts # <<>> /\ ~processing THEN BgProcess(evts, up, under)
    ELSE events' = evts /\ booted' = up /\ bgProcessing' = processing /\ stack' = under

\* add_booted_event(), called when a node connects or its connection is lost,
\* and change_nodes_bootup_status(), called when nodes are rebooted or when
\* powersave turned them off (powersave is then TRUE).
AddEvents(nodes, isBooted, powersave) ==
    /\ Idle
    /\ handled < MaxEvents
    /\ handled' = handled + 1
    /\ powersave => ~isBooted
    /\ asleep' = IF powersave THEN asleep \cup nodes ELSE asleep
    /\ reported' = IF isBooted THEN reported \cup nodes ELSE reported \ nodes
    /\ planBgProcess(Append(events, [nodes |-> nodes, booted |-> isBooted]),
                     booted, bgProcessing, stack)
    /\ UNCHANGED <<rebooting, waitInfo, command, view, overtaken>>

\* The event loop calls _bg_process() at the time of the next boot check.
TimerFires ==
    /\ Idle
    /\ handled < MaxEvents
    /\ handled' = handled + 1
    /\ ~bgProcessing
    /\ BgProcess(events, booted, stack)
    /\ UNCHANGED <<rebooting, waitInfo, command, view, asleep, reported, overtaken>>

\* Variant with a bug: the entry of mac_to_tids is not deleted.
forgetWaiters_Kept(n) == macToTids

\* "del self.mac_to_tids[node.mac]"
forgetWaiters(n) == [macToTids EXCEPT ![n] = {}]

\* Variant with a bug: the loop stops at the first task.
notified_First(n) ==
    IF macToTids[n] = {} THEN {} ELSE {CHOOSE t \in macToTids[n] : TRUE}

\* "for tid in tids"
notified(n) == macToTids[n]

\* Variant with a bug: the set is tested before the node is removed from it.
completed_Early(n) == {t \in notified(n) : tidToMacs[t] = {}}

\* tasks no more associated with any awaited node
completed(n) == {t \in notified(n) : tidToMacs[t] = {n}}

\* node_bootup_event() for one more booted node, with the tasks it ends and the
\* labels it has to send; powersave.node_bootup_event() turns its port on again.
Announce(n) ==
    LET tids == notified(n)
        ended == completed(n)
    IN  /\ Running
        /\ top.job = "bg"
        /\ top.labels = {}
        /\ n \in top.todo
        /\ stack' = replaceTop([top EXCEPT !.todo = @ \ {n}, !.labels = tids \ ended])
        /\ macToTids' = forgetWaiters(n)
        /\ named' = IF tids = {} THEN named ELSE named \ {n}
        /\ tidToMacs' = [t \in Tasks |-> IF t \in tids THEN tidToMacs[t] \ {n}
                                         ELSE tidToMacs[t]]
        /\ tasks' = tasks \ ended
        /\ command' = [t \in Tasks |-> IF t \in ended THEN "answered" ELSE command[t]]
        /\ asleep' = asleep \ {n}
        /\ UNCHANGED <<status, view, overtaken, handled>>

\* The loop of flush() calls the client of one more task.
SendLabel(t) ==
    /\ Running
    /\ top.job = "bg"
    /\ t \in top.labels
    /\ stack' = replaceTop([top EXCEPT !.labels = @ \ {t}, !.sending = t])
    /\ UNCHANGED <<status, waitInfo, command, view, asleep, overtaken, handled>>

\* The client called last answers, or is found disconnected: its caller goes on.
ClientAnswers ==
    /\ stack # <<>>
    /\ top.sending # NoTask
    /\ stack' = IF top.job = "bg" THEN replaceTop([top EXCEPT !.sending = NoTask])
                ELSE below(stack)
    /\ UNCHANGED <<status, waitInfo, command, view, asleep, overtaken, handled>>

\* The end of _bg_process(): the nodes that went down, then the boot check, which
\* may find nodes to reboot.
BgEnds ==
    LET up == booted \ top.downs
    IN  /\ Running
        /\ top.job = "bg"
        /\ top.todo = {}
        /\ top.labels = {}
        /\ \/ /\ up # Nodes
              /\ rebooting' = TRUE
              /\ booted' = up
              /\ stack' = below(stack)
              /\ UNCHANGED <<events, bgProcessing>>
           \/ /\ planBgProcess(events, up, FALSE, below(stack))
              /\ UNCHANGED rebooting
        /\ UNCHANGED <<waitInfo, command, view, asleep, reported, overtaken, handled>>

\* Variant with a bug: the callback does not plan the next _bg_process().
resume_Unplanned == bgProcessing' = FALSE /\ UNCHANGED <<events, booted, stack>>

\* cb() of _bg_process()
resume == planBgProcess(events, booted, FALSE, stack)

\* reboot_nodes() calls back.
RebootEnds ==
    /\ Idle
    /\ rebooting
    /\ rebooting' = FALSE
    /\ resume
    /\ UNCHANGED <<waitInfo, command, view, asleep, reported, overtaken, handled>>

-----------------------------------------------------------------------------
\* "walt node wait"

\* nodes that are booted but not announced yet
Announcing == UNION {stack[i].todo : i \in DOMAIN stack}

\* wf_wait(), for the nodes that were not booted when the command started
Register(t, notBooted) ==
    /\ command' = [command EXCEPT ![t] = "waiting"]
    /\ tasks' = tasks \cup {t}
    /\ tidToMacs' = [tidToMacs EXCEPT ![t] = notBooted]
    /\ macToTids' = [n \in Nodes |-> IF n \in notBooted THEN macToTids[n] \cup {t}
                                     ELSE macToTids[n]]
    /\ named' = named \cup notBooted
    /\ overtaken' = [overtaken EXCEPT ![t] = (notBooted \cap booted) \ Announcing]
    /\ stack' = Append(stack, call("wait", t))

\* wait(), up to wf_wait() when no node is in powersave, up to the message of
\* wf_wakeup_nodes() otherwise
Wait(t, nodes) ==
    LET notBooted == nodes \ booted
    IN  /\ Idle
        /\ command[t] = "idle"
        /\ \/ /\ notBooted = {}
              /\ command' = [command EXCEPT ![t] = "answered"]
              /\ UNCHANGED <<waitInfo, view, stack, overtaken>>
           \/ /\ notBooted # {}
              /\ nodes \cap asleep = {}
              /\ Register(t, notBooted)
              /\ UNCHANGED view
           \/ /\ notBooted # {}
              /\ nodes \cap asleep # {}
              /\ command' = [command EXCEPT ![t] = "waking"]
              /\ view' = [view EXCEPT ![t] = [notBooted |-> notBooted,
                                              off |-> nodes \cap asleep]]
              /\ stack' = Append(stack, call("wake", t))
              /\ UNCHANGED <<waitInfo, overtaken>>
        /\ UNCHANGED <<status, asleep, handled>>

\* The PoE commands of wf_wakeup_nodes() have ended, some may have failed: wf_wait().
WakeUpEnds(t, woken) ==
    /\ Idle
    /\ command[t] = "waking"
    /\ \A i \in DOMAIN stack : stack[i] # call("wake", t)
    /\ woken \subseteq view[t].off
    /\ asleep' = asleep \ woken
    /\ Register(t, view[t].notBooted)
    /\ UNCHANGED <<status, view, handled>>

-----------------------------------------------------------------------------
Reports ==
    \E nodes \in SUBSET Nodes \ {{}}, isBooted \in BOOLEAN, powersave \in BOOLEAN :
        AddEvents(nodes, isBooted, powersave)

Commands == \E t \in Tasks, nodes \in SUBSET Nodes \ {{}} : Wait(t, nodes)

Resumes ==
    \/ \E n \in Nodes : Announce(n)
    \/ \E t \in Tasks : SendLabel(t)
    \/ BgEnds

Next ==
    \/ Reports
    \/ TimerFires
    \/ Commands
    \/ Resumes
    \/ ClientAnswers
    \/ RebootEnds
    \/ \E t \in Tasks, woken \in SUBSET Nodes : WakeUpEnds(t, woken)

\* A handler that runs goes on, a client that is called answers or the hub answers
\* for it once it has left, and commands on switches end.
Fairness ==
    /\ WF_vars(Resumes)
    /\ WF_vars(ClientAnswers)
    /\ WF_vars(RebootEnds)
    /\ \A t \in Tasks : WF_vars(\E woken \in SUBSET Nodes : WakeUpEnds(t, woken))

Spec == Init /\ [][Next]_vars /\ Fairness

-----------------------------------------------------------------------------
\* The boot status is processed by at most one _bg_process(), from its start to
\* the end of the reboots it decided, whatever the nested loops run meanwhile:
\* _bg_processing says so exactly.
bgFrames == {i \in DOMAIN stack : stack[i].job = "bg"}

OneBgProcess ==
    /\ bgProcessing <=> rebooting \/ bgFrames # {}
    /\ rebooting => bgFrames = {}
    /\ \A i, j \in bgFrames : i = j

\* The tables of WaitInfo agree whenever a handler may start: no task is kept
\* without a node to await, no node without a name to show, and no command is
\* left waiting out of the tables (node_bootup_event, wf_wait).
WaitTablesAgree ==
    /\ \A t \in Tasks, n \in Nodes : t \in macToTids[n] <=> n \in tidToMacs[t]
    /\ \A t \in Tasks : t \in tasks <=> tidToMacs[t] # {}
    /\ \A n \in Nodes : n \in named <=> macToTids[n] # {}
    /\ \A t \in Tasks : command[t] = "waiting" <=> t \in tasks

\* flush() never looks up a task that ended since it copied the messages to send
\* ("self.tasks[tid]" would raise and stop the daemon): while its calls are under
\* way, no nested handler ends a task that it still has to call.
LabelsSendable == \A i \in DOMAIN stack : stack[i].labels \subseteq tasks

\* A client only awaits nodes whose boot is still to come or to be announced, but
\* for the nodes that booted while other nodes of the command were woken up
\* (status.py: "unblock any related walt node wait command").
AwaitedNotBooted ==
    \A t \in tasks : tidToMacs[t] \subseteq (Nodes \ booted) \cup Announcing \cup overtaken[t]

\* When nothing is pending, each node has the status that was reported last, even
\* though the downs are applied after the calls that announce the boots.
StatusIsLastReport == events = <<>> /\ bgFrames = {} => booted = reported

\* Every report is processed: none waits for a later event or timer to be noticed
\* (_plan_bg_process when a background process or its reboots are over).
ReportsProcessed == events # <<>> ~> events = <<>>

\* A command whose nodes are all booted is answered, unless one of them booted
\* during the wake-up.
WaitersAnswered ==
    \A t \in Tasks :
        command[t] = "waiting" /\ overtaken[t] = {} /\ tidToMacs[t] \subseteq booted
            ~> command[t] = "answered"

\* The same without the exception: "walt node wait" ends when its nodes are booted.
BootedNodesUnblock ==
    \A t \in Tasks :
        command[t] = "waiting" /\ tidToMacs[t] \subseteq booted ~> command[t] = "answered"

=============================================================================
