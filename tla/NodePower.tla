----------------------------- MODULE NodePower -----------------------------
(***************************************************************************)
(* The power of nodes: boot status (BootStatus), power savings (Powersave),*)
(* and the workflows that send commands to nodes and to the ports of the   *)
(* switches (main/nodes/reboot.py, netservice.py, powersave.py, main/poe.py)*)
(* composed with the nodes themselves, which boot, connect, fail and are   *)
(* moved from port to port.                                                *)
(*                                                                         *)
(* A workflow is a job: the job "check" of powersave, "boot" for the nodes *)
(* whose boot timeout is over, "restore" for the ports left off by the     *)
(* previous daemon, one job per node found at another port, and one per    *)
(* request of a client. Between the answers it waits for, any handler may  *)
(* run; the steps from one wait to the next are one handler.               *)
(*                                                                         *)
(* Virtual nodes, the hard reboots made by the client and the settings     *)
(* boot.timeout, boot.retries and poe.reboots do not change here.          *)
(***************************************************************************)
EXTENDS BootStatus, Powersave

CONSTANTS
    Requests,       \* requests of clients
    InitialPlug,    \* port of each node when the daemon starts
    MaxFaults       \* bound on the commands and nodes that fail, on the moves of nodes
                    \* and on the restarts of the daemon

ASSUME NodePowerAssumption ==
    /\ InitialPlug \in [Nodes -> Ports]
    /\ \A m, n \in Nodes : InitialPlug[m] = InitialPlug[n] => m = n
    /\ {"check", "boot", "restore"} \cap (Nodes \cup Requests) = {}
    /\ Nodes \cap Requests = {}
    /\ MaxFaults \in Nat

VARIABLES
    plug,           \* port where each node is connected
    powered,        \* ports that give power
    conn,           \* last connection of each node to the server
    stale,          \* nodes with an older connection whose loss is not detected yet
    st,             \* tables of the boot status
    pw,             \* tables of powersave
    off,            \* table poeoff: ports turned off, and why
    location,       \* table topology: port of each node, if known
    jobs,           \* workflows under way
    asked,          \* requests made so far
    doubtful,       \* history: ports with a command to turn them off that was obeyed when the
                    \* daemon was killed and not recorded, with one that was obeyed and
                    \* reported as failed, or with commands of two jobs at once
    rearmed,        \* history: nodes that are not free with a power-off timeout
    unwatched,      \* history: nodes whose retries were reset, with no check planned since
    overtaken,      \* history: nodes already up again when they are known to be stopped
    untimed,        \* history: nodes located anew while they had no power-off timeout, and
                    \* given none since
    faults          \* number of faults so far

vars == <<plug, powered, conn, stale, st, pw, off, location, jobs, asked, doubtful,
          rearmed, unwatched, overtaken, untimed, faults>>

network == <<plug, powered, conn, stale>>

Slots == {"check", "boot", "restore"} \cup Nodes \cup Requests

Kinds == {"none", "check", "reboot", "wake", "moved", "restore", "rescan"}

\* A workflow at a step that concerns nodes. It waits for the answers about todo
\* (nodes in step "soft", ports in steps "off" and "on"); ok are those that
\* succeeded so far. already_off are the nodes to power on again whose port was
\* off before; at are the ports the workflow knows.
Job == [kind : Kinds, step : {"idle", "soft", "off", "delay", "on"},
        nodes : SUBSET Nodes, todo : SUBSET (Nodes \cup Ports),
        ok : SUBSET (Nodes \cup Ports), already_off : SUBSET Nodes,
        at : [Nodes -> Ports \cup {Unknown}]]

Rows == [port : Ports, reason : Reasons]

TypeOK ==
    /\ plug \in [Nodes -> Ports]
    /\ powered \in SUBSET Ports
    /\ conn \in [Nodes -> {"none", "new", "up", "lost", "unseen"}]
    /\ stale \in SUBSET Nodes
    /\ st \in Statuses
    /\ pw \in PowerStates
    /\ off \in SUBSET Rows
    /\ location \in [Nodes -> Ports \cup {Unknown}]
    /\ jobs \in [Slots -> Job]
    /\ asked \in SUBSET Requests
    /\ doubtful \in SUBSET Ports
    /\ rearmed \in SUBSET Nodes
    /\ unwatched \in SUBSET Nodes
    /\ overtaken \in SUBSET Nodes
    /\ untimed \in SUBSET Nodes
    /\ faults \in 0..MaxFaults

Nowhere == [n \in Nodes |-> Unknown]

NoJob == [kind |-> "none", step |-> "idle", nodes |-> {}, todo |-> {}, ok |-> {},
          already_off |-> {}, at |-> Nowhere]

\* Init: first start of the daemon, all nodes have their default image and their
\* power; no node has connected yet, a rescan has located them.
Init ==
    /\ plug = InitialPlug
    /\ powered = Ports
    /\ conn = [n \in Nodes |-> "none"]
    /\ stale = {}
    /\ st = restored
    /\ pw = restored_power(Nodes)
    /\ off = {}
    /\ location = InitialPlug
    /\ jobs = [j \in Slots |-> NoJob]
    /\ asked = {}
    /\ doubtful = {} /\ rearmed = {} /\ unwatched = {} /\ overtaken = {} /\ untimed = {}
    /\ faults = 0

-----------------------------------------------------------------------------
\* Workflows. A handler turns the tables and the workflows w into others.

server == [st |-> st, pw |-> pw, off |-> off, location |-> location, jobs |-> jobs,
           rearmed |-> rearmed]

offs_of(w) == off_macs(w.off, w.location, Reasons)

restrict(l, S) == [n \in Nodes |-> IF n \in S THEN l[n] ELSE Unknown]

\* A workflow that sends a command to the ports of the nodes S.
command(kind, step, S, already_off, l) ==
    [kind |-> kind, step |-> step, nodes |-> S, todo |-> {l[n] : n \in S}, ok |-> {},
     already_off |-> already_off, at |-> restrict(l, S \cup already_off)]

\* A workflow that turns ports on, whatever is there: restore_poe_on_all_ports()
\* and wf_rescan_restore_poe_on_switch_ports()
restore_ports(kind, ports) ==
    IF ports = {} THEN NoJob
    ELSE [NoJob EXCEPT !.kind = kind, !.step = "on", !.todo = ports]

\* wf_hard_reboot_nodes() up to its first command; without any, it ends at once
hard_reboot(S, w) ==
    LET R == S \cap poe_rebootable(w.location)
        already_off == R \cap offs_of(w) IN
    IF R = {} THEN NoJob
    ELSE IF R = already_off THEN command("reboot", "on", R, {}, w.location)
    ELSE command("reboot", "off", R \ already_off, already_off, w.location)

report(s, S, event) ==
    [s EXCEPT !.pending = [n \in Nodes |-> IF n \in S THEN event ELSE @[n]]]

\* _bg_process() and what it calls: node_bootup_event() of powersave for the
\* nodes that are booted and recorded off, reboot_nodes() for the failing ones
process(w, s, failing) ==
    LET moved == goUp(s) \cap offs_of(w)
        seen == moved_event(w.pw, moved) IN
    [w EXCEPT
        !.st = bg_process(s, failing, poe_rebootable(w.location)),
        !.pw = IF failing = {} THEN seen ELSE reboot_event(seen, failing),
        !.rearmed = @ \cup (moved \ w.pw.free),
        !.jobs = [j \in Slots |->
            IF j \in moved THEN command("moved", "on", {j}, {}, w.location)
            ELSE IF j = "boot" /\ failing # {} THEN hard_reboot(failing, w) ELSE @[j]]]

\* _plan_bg_process() with the status s. A boot timeout that is over by then would
\* be found by BgTimer just after, with the same effect.
settle(w, s) ==
    IF s.processing \/ s.pending = NoEvent THEN [w EXCEPT !.st = plan(s)]
    ELSE process(w, s, {})

-----------------------------------------------------------------------------
\* What a workflow does once it has all the answers it waited for: each operator
\* gives the world after the handlers that run up to its next wait. The job of w
\* still is the one that has just been answered.

\* Variant with a bug: the rows are removed even if the command failed.
recorded_Always(o, job, reason) ==
    IF job.step = "on"
    THEN {row \in o : row.port \notin job.ok \cup {job.at[n] : n \in job.nodes}}
    ELSE o \cup [port : job.ok, reason : {reason}]

\* record_poe_ports_status(), where the command succeeded
recorded(o, job, reason) ==
    IF job.step = "on" THEN {row \in o : row.port \notin job.ok}
    ELSE o \cup [port : job.ok, reason : {reason}]

nodes_ok(job) == {n \in job.nodes : job.at[n] \in job.ok}

\* The failures of _wf_after_toggle_power_on_nodes(): two more hours
retry_later(w, S) ==
    [w EXCEPT !.pw = reset_timeouts(@, S), !.rearmed = @ \cup (S \ w.pw.free)]

\* record_nodes_boot_start() of some nodes, for what it plans
boot_starts(w, S) == IF S = {} THEN w ELSE settle(w, w.st)

goes_down(w, S, cause) == IF S = {} THEN w ELSE settle(w, report(w.st, S, cause))

\* _check() and the commands it starts
checked(w, expired) ==
    LET offs == offs_of(w)
        rebootable == poe_rebootable(w.location)
        S == expired \ offs IN
    [w EXCEPT !.pw = check(@, expired, offs, rebootable),
              !.rearmed = @ \cup ((S \ rebootable) \ w.pw.free),
              !.jobs["check"] = IF S \cap rebootable = {} THEN NoJob
                  ELSE command("check", "off", S \cap rebootable, {}, w.location)]

\* the end of the commands of a check, then _wf_recurse_check()
after_check(w) ==
    LET job == w.jobs["check"]
        late == retry_later([w EXCEPT !.off = recorded(@, job, "powersave")],
                            job.nodes \ nodes_ok(job)) IN
    checked(goes_down(late, nodes_ok(job), "powersave"), {})

\* the end of a wake up, or of the command to the old port of a moved node
after_toggle_on(w, j) ==
    LET job == w.jobs[j]
        late == retry_later([w EXCEPT !.off = recorded(@, job, "none")],
                            job.nodes \ nodes_ok(job))
        on == boot_starts(late, nodes_ok(job)) IN
    [on EXCEPT !.pw = plan_check(@), !.jobs[j] = NoJob]

after_moved(w, j) == [after_toggle_on(w, j) EXCEPT !.location[j] = Unknown]

\* _wf_end_of_restore_poe(), _wf_after_rescan_restore_poe()
after_restore(w, j) ==
    LET on == [w EXCEPT !.off = recorded(@, w.jobs[j], "none"), !.jobs[j] = NoJob] IN
    IF w.jobs[j].kind = "restore" THEN on
    ELSE [on EXCEPT !.pw = rescan_restore_poe_event(@, offs_of(on))]

\* The end of reboot_nodes(): the callback of the boot check resumes _bg_process()
reboot_ends(w, j) ==
    LET over == [w EXCEPT !.jobs[j] = NoJob]
        idle == [w.st EXCEPT !.processing = FALSE] IN
    IF j = "boot" THEN settle(over, idle) ELSE over

\* wf_poe_after_poweron(), wf_reply_requester()
after_poweron(w, j) ==
    LET job == w.jobs[j]
        on == [w EXCEPT !.off = recorded(@, job, "none")] IN
    reboot_ends(boot_starts(on, nodes_ok(job)), j)

\* wf_poe_poweron() of the nodes S
power_on(w, j, S) ==
    IF S = {} THEN reboot_ends(w, j)
    ELSE [w EXCEPT !.jobs[j] = command("reboot", "on", S, {}, w.jobs[j].at)]

\* wf_poe_after_poweroff()
after_poweroff(w, j) ==
    LET job == w.jobs[j]
        down == goes_down([w EXCEPT !.off = recorded(@, job, "hard-reboot")],
                          nodes_ok(job), "other") IN
    IF nodes_ok(job) = {} THEN power_on(down, j, job.already_off)
    ELSE [down EXCEPT !.jobs[j] =
            [NoJob EXCEPT !.kind = "reboot", !.step = "delay",
                          !.nodes = nodes_ok(job) \cup job.already_off,
                          !.at = restrict(job.at, nodes_ok(job) \cup job.already_off)]]

\* wf_softreboot_callback(), then the hard reboot of the others
after_soft(w, j) ==
    LET job == w.jobs[j]
        down == IF job.ok = {} THEN w
                ELSE boot_starts(goes_down(w, job.ok, "other"), job.ok) IN
    [down EXCEPT !.jobs[j] = hard_reboot(job.nodes \ job.ok, down)]

\* the nodes that a workflow stopped
stopped(job) ==
    CASE job.step = "soft" -> job.ok \cap Nodes
      [] job.step = "off" -> nodes_ok(job)
      [] OTHER -> {}

resumed(w, j) ==
    LET job == w.jobs[j] IN
    CASE job.kind = "check" -> after_check(w)
      [] job.kind = "wake" -> after_toggle_on(w, j)
      [] job.kind = "moved" -> after_moved(w, j)
      [] job.kind \in {"restore", "rescan"} -> after_restore(w, j)
      [] job.kind = "reboot" /\ job.step = "soft" -> after_soft(w, j)
      [] job.kind = "reboot" /\ job.step = "off" -> after_poweroff(w, j)
      [] job.kind = "reboot" /\ job.step = "on" -> after_poweron(w, j)

-----------------------------------------------------------------------------
\* History

ports_of(job) ==
    IF job.step = "soft" THEN {}
    ELSE ((job.todo \cup job.ok) \cap Ports)
         \cup ({job.at[n] : n \in job.nodes \cup job.already_off} \ {Unknown})

shared(js) ==
    {p \in Ports : \E i, j \in Slots : i # j /\ p \in ports_of(js[i]) \cap ports_of(js[j])}

\* The handler leaves the tables and workflows w; reset are the nodes whose boot
\* retries it reset, doubts the ports whose state the daemon may not know.
BecomesWith(w, reset, doubts) ==
    /\ st' = w.st /\ pw' = w.pw /\ off' = w.off /\ location' = w.location
    /\ jobs' = w.jobs /\ rearmed' = w.rearmed
    /\ unwatched' = {n \in unwatched \cup reset :
                        n \in monitored(w.st) /\ ~w.st.planned /\ ~w.st.processing}
    /\ doubtful' = doubtful \cup doubts \cup shared(w.jobs)
    /\ untimed' = untimed \ w.pw.timed

Becomes(w) == BecomesWith(w, {}, {})

-----------------------------------------------------------------------------
\* The nodes

cut(S) == [n \in Nodes |-> IF n \notin S \/ conn[n] \in {"none", "unseen"} THEN conn[n]
                           ELSE IF conn[n] = "new" THEN "unseen" ELSE "lost"]

plugged(p) == {n \in Nodes : plug[n] = p}

\* A node boots, or connects again: walt-notify-bootup on the node.
NodeConnects(n) ==
    /\ plug[n] \in powered /\ conn[n] \notin {"new", "up"}
    /\ conn' = [conn EXCEPT ![n] = "new"]
    /\ stale' = IF conn[n] = "lost" THEN stale \cup {n} ELSE stale
    /\ UNCHANGED <<plug, powered, st, pw, off, location, jobs, asked, doubtful, rearmed,
                   unwatched, overtaken, untimed, faults>>

\* First byte on the connection (one moved node at a time is being handled).
NodeConfirms(n) ==
    /\ conn[n] = "new" /\ jobs[n].step = "idle"
    /\ conn' = [conn EXCEPT ![n] = "up"]
    /\ Becomes(settle(server, report(st, {n}, "up")))
    /\ overtaken' = overtaken \ {n}
    /\ UNCHANGED <<plug, powered, stale, asked, faults>>

\* The event loop finds that the connection is lost, and it is the last one.
LossDetected(n) ==
    /\ conn[n] = "lost"
    /\ conn' = [conn EXCEPT ![n] = "none"]
    /\ Becomes(settle(server, report(st, {n}, "other")))
    /\ UNCHANGED <<plug, powered, stale, asked, overtaken, faults>>

\* Variant with a bug: the loss of an older connection is reported as well.
StaleLossDetected_Reported(n) ==
    /\ n \in stale
    /\ stale' = stale \ {n}
    /\ Becomes(settle(server, report(st, {n}, "other")))
    /\ UNCHANGED <<plug, powered, conn, asked, overtaken, faults>>

\* It is an older one.
StaleLossDetected(n) ==
    /\ n \in stale
    /\ stale' = stale \ {n}
    /\ UNCHANGED <<plug, powered, conn, st, pw, off, location, jobs, asked, doubtful,
                   rearmed, unwatched, overtaken, untimed, faults>>

\* The node fails or reboots by itself.
NodeFails(n) ==
    /\ faults < MaxFaults /\ conn[n] \in {"new", "up"}
    /\ faults' = faults + 1
    /\ conn' = cut({n})
    /\ UNCHANGED <<plug, powered, stale, st, pw, off, location, jobs, asked, doubtful,
                   rearmed, unwatched, overtaken, untimed>>

\* The node is unplugged and plugged at another port.
Move(n, p) ==
    /\ faults < MaxFaults /\ plugged(p) = {}
    /\ faults' = faults + 1
    /\ plug' = [plug EXCEPT ![n] = p]
    /\ conn' = cut({n})
    /\ UNCHANGED <<powered, stale, st, pw, off, location, jobs, asked, doubtful, rearmed,
                   unwatched, overtaken, untimed>>

\* report_lldp_neighbor() once the node is running, or a rescan of its switch
NodeLocated(n) ==
    /\ plug[n] \in powered /\ location[n] # plug[n]
    /\ location' = [m \in Nodes |-> IF m = n THEN plug[n]
                                    ELSE IF location[m] = plug[n] THEN Unknown ELSE location[m]]
    /\ untimed' = IF n \in pw.timed THEN untimed ELSE untimed \cup {n}
    /\ UNCHANGED <<network, st, pw, off, jobs, asked, doubtful, rearmed, unwatched,
                   overtaken, faults>>

-----------------------------------------------------------------------------
\* Timers

\* The planned call of _bg_process(), when the boot timeout of some nodes is over
BgTimer(failing) ==
    /\ st.planned /\ ~st.processing
    /\ failing # {} /\ failing \subseteq monitored(st)
    /\ Becomes(process(server, st, failing))
    /\ UNCHANGED <<network, asked, overtaken, faults>>

\* The nodes whose two hours may be over: not the free nodes that a workflow works
\* on, as their timeouts have just been reset.
may_expire ==
    {n \in pw.timed : n \in pw.free =>
        \A j \in Slots : n \notin jobs[j].nodes /\ location[n] \notin ports_of(jobs[j])}

\* The planned call of _check(), when the two hours of some nodes are over
CheckTimer(expired) ==
    /\ pw.check = "planned"
    /\ expired # {} /\ expired \subseteq may_expire
    /\ Becomes(checked(server, expired))
    /\ UNCHANGED <<network, asked, overtaken, faults>>

\* The end of the delay between power off and power on
DelayEnds(j) ==
    /\ jobs[j].step = "delay"
    /\ Becomes(power_on(server, j, jobs[j].nodes))
    /\ UNCHANGED <<network, asked, overtaken, faults>>

-----------------------------------------------------------------------------
\* Answers

\* One answer among those the workflow waits for.
answered(j, x, ok) ==
    [server EXCEPT !.jobs[j].todo = @ \ {x}, !.jobs[j].ok = IF ok THEN @ \cup {x} ELSE @]

\* The node answers a soft reboot request, and reboots, or the request fails.
SoftRebootAnswered(j, n, ok) ==
    /\ jobs[j].step = "soft" /\ n \in jobs[j].todo
    /\ ok => plug[n] \in powered
    /\ conn' = IF ok THEN cut({n}) ELSE conn
    /\ Becomes(answered(j, n, ok))
    /\ UNCHANGED <<plug, powered, stale, asked, overtaken, faults>>

effect(step, p) == IF step = "on" THEN powered \cup {p} ELSE powered \ {p}

CommandSucceeds(j, p) ==
    /\ jobs[j].step \in {"off", "on"} /\ p \in jobs[j].todo
    /\ powered' = effect(jobs[j].step, p)
    /\ conn' = IF jobs[j].step = "off" THEN cut(plugged(p)) ELSE conn
    /\ Becomes(answered(j, p, TRUE))
    /\ UNCHANGED <<plug, stale, asked, overtaken, faults>>

\* The switch may have obeyed, its answer being lost.
CommandFails(j, p, obeyed) ==
    /\ faults < MaxFaults
    /\ jobs[j].step \in {"off", "on"} /\ p \in jobs[j].todo
    /\ faults' = faults + 1
    /\ powered' = IF obeyed THEN effect(jobs[j].step, p) ELSE powered
    /\ conn' = IF obeyed /\ jobs[j].step = "off" THEN cut(plugged(p)) ELSE conn
    /\ BecomesWith(answered(j, p, FALSE), {}, IF obeyed THEN {p} ELSE {})
    /\ UNCHANGED <<plug, stale, asked, overtaken>>

\* All are there. The workflow may concern nodes and ports that are not modelled,
\* so their answers may come long after those of the nodes that are.
Proceeds(j) ==
    /\ jobs[j].step \in {"soft", "off", "on"} /\ jobs[j].todo = {}
    /\ Becomes(resumed(server, j))
    /\ overtaken' = overtaken \cup {n \in stopped(jobs[j]) : conn[n] = "up"}
    /\ UNCHANGED <<network, asked, faults>>

-----------------------------------------------------------------------------
\* Requests of clients

Asks(r) == r \notin asked /\ asked' = asked \cup {r}

\* reboot_nodes(), for "walt node reboot" and after "walt node boot"
Reboot(r, S, hard_only) ==
    /\ Asks(r)
    /\ LET targets == S \ offs_of(server)
           w == [server EXCEPT !.st = reset_retries(@, S), !.pw = reboot_event(@, S)]
           job == IF hard_only \/ targets = {} THEN hard_reboot(S, w)
                  ELSE [NoJob EXCEPT !.kind = "reboot", !.step = "soft", !.nodes = S,
                                     !.todo = targets] IN
       BecomesWith([w EXCEPT !.jobs[r] = job], S, {})
    /\ UNCHANGED <<network, overtaken, faults>>

\* wf_wakeup_nodes(), for "walt node wait"
WakeUp(r, S) ==
    /\ Asks(r) /\ ~(S \subseteq st.booted)
    /\ LET asleep == S \cap off_macs(off, location, {"powersave"})
           used == record_usage(pw, S) IN
       Becomes(IF asleep = {} THEN [server EXCEPT !.pw = plan_check(used)]
               ELSE [server EXCEPT !.pw = used,
                         !.jobs[r] = command("wake", "on", asleep, {}, location)])
    /\ UNCHANGED <<network, overtaken, faults>>

\* set_image(), for "walt node boot", acquire and release
SetImage(r, n, is_default_image) ==
    /\ Asks(r)
    /\ Becomes([server EXCEPT !.pw = set_image_event(@, n, is_default_image),
                              !.rearmed = @ \ {n}])
    /\ UNCHANGED <<network, overtaken, faults>>

\* device_rescan(), up to the scan itself
Rescan(r) ==
    /\ Asks(r)
    /\ Becomes([server EXCEPT !.jobs[r] = restore_ports("rescan", {row.port : row \in off})])
    /\ UNCHANGED <<network, overtaken, faults>>

\* The daemon is killed and starts again; some of the commands to switches it had
\* launched are obeyed. The images of nodes and the tables of the database remain.
Restart(obeyed) ==
    LET launched(step) == UNION {jobs[j].todo : j \in {i \in Slots : jobs[i].step = step}}
        turned_off == obeyed \cap launched("off")
        unrecorded == UNION {jobs[j].ok : j \in {i \in Slots : jobs[i].step = "off"}} IN
    /\ faults < MaxFaults
    /\ obeyed \subseteq launched("off") \cup launched("on")
    /\ faults' = faults + 1
    /\ powered' = (powered \ turned_off) \cup (obeyed \cap launched("on"))
    /\ conn' = [n \in Nodes |-> "none"] /\ stale' = {}
    /\ BecomesWith([server EXCEPT
            !.st = restored, !.pw = restored_power(pw.free), !.rearmed = {},
            !.jobs = [j \in Slots |-> IF j # "restore" THEN NoJob
                        ELSE restore_ports("restore", {row.port : row \in off})]],
            {}, turned_off \cup unrecorded)
    /\ UNCHANGED <<plug, asked, overtaken>>

-----------------------------------------------------------------------------
NodeStep ==
    \E n \in Nodes :
        \/ NodeConnects(n) \/ NodeConfirms(n) \/ NodeFails(n) \/ NodeLocated(n)
        \/ LossDetected(n) \/ StaleLossDetected(n)
        \/ \E p \in Ports : Move(n, p)

TimerStep ==
    \/ \E S \in SUBSET Nodes : BgTimer(S) \/ CheckTimer(S)
    \/ \E j \in Slots : DelayEnds(j)

AnswerStep ==
    \E j \in Slots :
        \/ \E n \in Nodes, ok \in BOOLEAN : SoftRebootAnswered(j, n, ok)
        \/ Proceeds(j)
        \/ \E p \in Ports : CommandSucceeds(j, p)
        \/ \E p \in Ports, obeyed \in BOOLEAN : CommandFails(j, p, obeyed)

RequestStep ==
    \E r \in Requests :
        \/ \E S \in SUBSET Nodes \ {{}} :
               (\E hard_only \in BOOLEAN : Reboot(r, S, hard_only)) \/ WakeUp(r, S)
        \/ \E n \in Nodes, is_default_image \in BOOLEAN : SetImage(r, n, is_default_image)
        \/ Rescan(r)

Next ==
    \/ NodeStep \/ TimerStep \/ AnswerStep \/ RequestStep
    \/ \E obeyed \in SUBSET Ports : Restart(obeyed)

WorkflowStep ==
    \E j \in Slots :
        \/ DelayEnds(j) \/ Proceeds(j)
        \/ \E n \in Nodes, ok \in BOOLEAN : SoftRebootAnswered(j, n, ok)
        \/ \E p \in Ports : CommandSucceeds(j, p)

BootCheckDue == st.planned /\ ~st.processing /\ monitored(st) # {}
PowerCheckDue == pw.check = "planned" /\ may_expire \cap poe_rebootable(location) # {}
WorkflowUnderWay == \E j \in Slots : jobs[j].step # "idle"

\* Commands, requests to nodes, delays and planned checks all end in time; nodes
\* may do anything. This is weak fairness of three actions, with the state
\* predicates that enable them written out: TLC needs too long to find them from
\* the actions.
Fairness ==
    /\ []<>~BootCheckDue \/ []<><<\E S \in SUBSET Nodes : BgTimer(S)>>_vars
    /\ []<>~PowerCheckDue \/ []<><<\E S \in SUBSET Nodes : CheckTimer(S)>>_vars
    /\ []<>~WorkflowUnderWay \/ []<><<WorkflowStep>>_vars

Spec == Init /\ [][Next]_vars

FairSpec == Spec /\ Fairness

-----------------------------------------------------------------------------
\* Once its events are processed, the status of a node is the one of its last
\* connection (node_bootup_event(), handle_event() and close() in status.py): a
\* node whose connection is confirmed is booted, a booted node has a connection
\* whose loss is not detected yet. The loss of an older connection changes
\* nothing. Nodes known to be stopped after they are up again are the exception.
StatusFollowsConnections ==
    \A n \in Nodes :
        /\ conn[n] = "up" /\ st.pending[n] = "none" => n \in st.booted \cup overtaken
        /\ n \in st.booted => conn[n] # "none" \/ st.pending[n] \in Causes

\* A port that gives no power is in table poeoff, or the workflow that turned it off is to
\* record it (record_poe_ports_status()), whatever the order of the answers and of the
\* workflows: the next daemon finds it (restore_poe_on_all_ports()). The code breaks this in
\* three cases: a daemon killed between a command that is obeyed and its record, which is
\* made when all parallel commands are over (poe.py:105), a command obeyed but reported as
\* failed, and two workflows on one port.
PortsOffKnown ==
    \A p \in Ports \ powered :
        \/ p \in {row.port : row \in off}
        \/ \E j \in Slots : jobs[j].step = "off" /\ p \in jobs[j].ok
        \/ p \in doubtful

\* While the boot of a node is awaited, a call of _bg_process() is planned or one
\* is under way (_plan_bg_process()). Only the retries given by reboot_nodes() to
\* a node that had none left wait for the next event.
MonitorPlanned ==
    \A n \in monitored(st) : st.planned \/ st.processing \/ n \in unwatched

\* Nodes to be turned off after two hours are free ones (_record_node_usage(),
\* set_image_event()), whatever is under way when a user takes one. A command that
\* fails, a node that moved or one that is not located re-arms any node.
OwnedNotTimed == pw.timed \subseteq pw.free \cup rearmed

\* No node is waited for for ever: the daemon reboots it until it boots, or the
\* boot retries are over (_bg_boot_check()).
RetriesSpent == \A n \in Nodes : []<>(n \notin monitored(st) \ unwatched)

\* A free node does not keep its power for ever: it is turned off, or taken, at
\* last (_plan_check(), _check(), _wf_recurse_check()). The daemon needs to know
\* where it is, and two cases of the code are left out: a node whose timeout is consumed
\* or not set because its port was off or is being turned off, that LLDP finds at another
\* port before it connects (powersave.py:173 sees no node off, untimed), and a node whose
\* port is recorded off although it gives power, after two workflows on it (doubtful).
FreeTurnedOff ==
    \A n \in Nodes :
        []<>(\/ n \notin pw.free \/ plug[n] \notin powered
             \/ location[n] # plug[n] \/ n \in untimed
             \/ n \in offs_of(server) /\ plug[n] \in doubtful)
=============================================================================
