--------------------------- MODULE NodePowerProofs ---------------------------
(***************************************************************************)
(* Proofs about NodePower, for any number of nodes and ports. A handler    *)
(* turns a world into another: Sound says what each of them keeps, whatever*)
(* the rest of the system is, which the record c describes (powered,       *)
(* doubtful, unwatched, conn, overtaken). One lemma for each operator of   *)
(* NodePower that computes a world, then one step for each action.         *)
(***************************************************************************)
EXTENDS NodePower, TLAPS

-----------------------------------------------------------------------------
\* Workflows

\* What a workflow of each slot may be, and the steps where it may wait
SlotKinds(j) ==
    CASE j = "check" -> {"none", "check"}
      [] j = "boot" -> {"none", "reboot"}
      [] j = "restore" -> {"none", "restore"}
      [] j \in Nodes -> {"none", "moved"}
      [] OTHER -> {"none", "reboot", "wake", "rescan"}

KindSteps(kind) ==
    CASE kind = "none" -> {"idle"}
      [] kind = "check" -> {"off"}
      [] kind = "reboot" -> {"soft", "off", "delay", "on"}
      [] OTHER -> {"on"}

\* A command is sent to ports that the workflow knows, a soft reboot to nodes.
JobOK(job) ==
    /\ job \in Job
    /\ job.step \in KindSteps(job.kind)
    /\ job.step = "idle" => job = NoJob
    /\ job.step = "soft" => job.todo \cup job.ok \subseteq Nodes
    /\ job.step \in {"off", "delay", "on"} =>
           /\ job.todo \cup job.ok \subseteq Ports
           /\ \A n \in job.nodes \cup job.already_off : job.at[n] \in Ports

World == [st : Statuses, pw : PowerStates, off : SUBSET Rows,
          location : [Nodes -> Ports \cup {Unknown}], jobs : [Slots -> Job],
          rearmed : SUBSET Nodes]

WorldOK(w) ==
    /\ w \in World
    /\ \A j \in Slots : JobOK(w.jobs[j]) /\ w.jobs[j].kind \in SlotKinds(j)

\* The reboots of the boot check are those _bg_process() waits for, the commands of
\* the check of powersave are those of _next_check.
SlotsUsed(w) ==
    /\ w.jobs["boot"].step # "idle" => w.st.processing
    /\ w.jobs["check"].step # "idle" => w.pw.check = "running"

-----------------------------------------------------------------------------
\* What the handlers keep

Owned(w) == w.pw.timed \subseteq w.pw.free \cup w.rearmed

Watched(s, c) ==
    \A n \in monitored(s) : s.planned \/ s.processing \/ n \in c.unwatched

\* StatusFollowsConnections, and what the events still to be processed say
Followed(s, c) ==
    \A n \in Nodes :
        /\ c.conn[n] = "up" /\ s.pending[n] = "none" => n \in s.booted \cup c.overtaken
        /\ c.conn[n] = "up" /\ s.pending[n] \in Causes => n \in c.overtaken
        /\ n \in s.booted => c.conn[n] # "none" \/ s.pending[n] \in Causes
        /\ s.pending[n] = "up" => c.conn[n] # "none"

rows(w) == {row.port : row \in w.off}

\* A port without power is recorded, or a workflow has just turned it off.
OffKnown(w, c) ==
    \A p \in Ports \ c.powered :
        \/ p \in rows(w) \/ p \in c.doubtful
        \/ \E j \in Slots : w.jobs[j].step = "off" /\ p \in w.jobs[j].ok

\* What a workflow has turned on has its power.
OnPowered(w, c) ==
    \A j \in Slots : w.jobs[j].step = "on" => w.jobs[j].ok \subseteq c.powered \cup c.doubtful

Sound(w, c) ==
    /\ WorldOK(w) /\ SlotsUsed(w)
    /\ Owned(w) /\ Watched(w.st, c) /\ Followed(w.st, c)
    /\ OffKnown(w, c) /\ OnPowered(w, c)

-----------------------------------------------------------------------------
\* The rest of the system

context == [powered |-> powered, doubtful |-> doubtful, unwatched |-> unwatched,
            conn |-> conn, overtaken |-> overtaken]

SoundNow == Sound(server, context)

\* Ports that two workflows work on are known to be doubtful.
SharedDoubtful == shared(jobs) \subseteq doubtful

RequestsFirst == \A r \in Requests \ asked : jobs[r].step = "idle"

IInv ==
    /\ TypeOK /\ SoundNow
    /\ SharedDoubtful /\ RequestsFirst

-----------------------------------------------------------------------------
\* Slots of the workflows are distinct (main/nodes/powersave.py, status.py, main/poe.py).
LEMMA SlotNames ==
    /\ {"check", "boot", "restore"} \subseteq Slots /\ Nodes \subseteq Slots
    /\ Requests \subseteq Slots
    /\ SlotKinds("check") = {"none", "check"} /\ SlotKinds("boot") = {"none", "reboot"}
    /\ SlotKinds("restore") = {"none", "restore"}
    /\ \A n \in Nodes : /\ n \notin {"check", "boot", "restore"} \cup Requests
                        /\ SlotKinds(n) = {"none", "moved"}
    /\ \A r \in Requests : /\ r \notin {"check", "boot", "restore"} \cup Nodes
                           /\ SlotKinds(r) = {"none", "reboot", "wake", "rescan"}
BY NodePowerAssumption DEF Slots, SlotKinds

\* The handlers of the boot status keep its tables (BootStatus).
LEMMA StatusTypes ==
    ASSUME NEW s \in Statuses
    PROVE  /\ plan(s) \in Statuses
           /\ [s EXCEPT !.processing = FALSE] \in Statuses
           /\ \A S \in SUBSET Nodes : reset_retries(s, S) \in Statuses
           /\ \A S \in SUBSET Nodes, e \in {"up"} \cup Causes : report(s, S, e) \in Statuses
           /\ after_events(s) \in Statuses
<1>1. plan(s) \in Statuses /\ [s EXCEPT !.processing = FALSE] \in Statuses
    BY DEF plan, Statuses
<1>2. ASSUME NEW S \in SUBSET Nodes PROVE reset_retries(s, S) \in Statuses
    BY RetriesAssumption DEF reset_retries, Statuses
<1>3. ASSUME NEW S \in SUBSET Nodes, NEW e \in {"up"} \cup Causes
             PROVE report(s, S, e) \in Statuses
    BY DEF report, Statuses
<1>4. after_events(s) \in Statuses
    <2>1. goDown(s) \subseteq Nodes /\ goUp(s) \subseteq Nodes
        BY DEF goDown, goUp, Statuses
    <2>2. \A n \in goDown(s) : s.pending[n] \in Causes
        BY DEF goDown
    <2>3. [n \in Nodes |-> IF n \in goDown(s) THEN s.pending[n]
          ELSE s.cause[n]] \in [Nodes -> Causes]
        BY <2>2 DEF Statuses
    <2>4. [n \in Nodes |-> IF n \in goDown(s) THEN Retries[n]
          ELSE s.remaining[n]] \in [Nodes -> Nat]
        BY RetriesAssumption DEF Statuses
    <2> QED
        BY <2>1, <2>3, <2>4 DEF after_events, Statuses, NoEvent
<1> QED
    BY <1>1, <1>2, <1>3, <1>4

\* _bg_process() keeps the tables: a node that fails had a boot retry left.
LEMMA BgProcess ==
    ASSUME NEW s \in Statuses, NEW failing \in SUBSET monitored(s), NEW rebootable
    PROVE  LET t == bg_process(s, failing, rebootable) IN
           /\ t \in Statuses
           /\ t.booted = (s.booted \cup goUp(s)) \ goDown(s) /\ t.pending = NoEvent
           /\ t.processing <=> failing \cap rebootable # {}
           /\ monitored(t) # {} => t.planned \/ t.processing
<1> DEFINE counted == [after_events(s) EXCEPT
            !.planned = FALSE,
            !.remaining = [n \in Nodes |-> IF n \in failing THEN @[n] - 1 ELSE @[n]]]
           t == bg_process(s, failing, rebootable)
<1>1. after_events(s) \in Statuses
    BY StatusTypes
<1>2. \A n \in failing : n \in Nodes /\ n \notin goDown(s) /\ s.remaining[n] # 0
    BY DEF monitored, goDown
<1>3. \A n \in failing : after_events(s).remaining[n] \in Nat \ {0}
    BY <1>2 DEF after_events, Statuses
<1>4. counted \in Statuses
    <2> DEFINE a == after_events(s)
               left == [n \in Nodes |-> IF n \in failing THEN a.remaining[n] - 1
                       ELSE a.remaining[n]]
    <2>1. a \in Statuses /\ \A n \in failing : a.remaining[n] \in Nat \ {0}
        BY <1>1, <1>3
    <2>2. counted = [a EXCEPT !.planned = FALSE, !.remaining = left]
        OBVIOUS
    <2> HIDE DEF a, counted
    <2>3. left \in [Nodes -> Nat]
        BY <2>1 DEF Statuses
    <2> HIDE DEF left
    <2> QED
        BY <2>1, <2>2, <2>3 DEF Statuses
<1>5. counted.booted = (s.booted \cup goUp(s)) \ goDown(s) /\ counted.pending = NoEvent
    BY DEF after_events, Statuses
<1>6. CASE failing \cap rebootable # {}
    <2>1. t = [counted EXCEPT !.processing = TRUE]
        BY <1>6 DEF bg_process
    <2> QED
        BY <2>1, <1>4, <1>5, <1>6 DEF Statuses
<1>7. CASE failing \cap rebootable = {}
    <2> DEFINE u == [counted EXCEPT !.processing = FALSE]
    <2>1. t = plan(u)
        BY <1>7 DEF bg_process
    <2>2. u \in Statuses /\ u.booted = counted.booted /\ u.pending = counted.pending
          /\ u.processing = FALSE
        BY <1>4 DEF Statuses
    <2>3. t \in Statuses /\ t.booted = u.booted /\ t.pending = u.pending /\ t.processing = FALSE
          /\ t.planned = (u.planned \/ monitored(u) # {}) /\ monitored(t) = monitored(u)
        <3> HIDE DEF u, t, counted
        <3>1. t = [u EXCEPT !.planned = u.planned \/ monitored(u) # {}]
            BY <2>1, <2>2 DEF plan
        <3>2. /\ t \in Statuses /\ t.booted = u.booted /\ t.pending = u.pending
              /\ t.processing = u.processing /\ t.planned = (u.planned \/ monitored(u) # {})
              /\ t.remaining = u.remaining /\ t.cause = u.cause
            BY <3>1, <2>2 DEF Statuses
        <3> QED
            BY <3>2, <2>2 DEF monitored
    <2> QED
        BY <2>2, <2>3, <1>5, <1>7
<1> QED
    BY <1>6, <1>7

\* The handlers of powersave keep its tables (Powersave).
LEMMA PowerTypes ==
    ASSUME NEW pw2 \in PowerStates
    PROVE  /\ plan_check(pw2) \in PowerStates
           /\ plan_check(pw2).free = pw2.free /\ plan_check(pw2).timed = pw2.timed
           /\ pw2.check = "running" => plan_check(pw2).check = "running"
           /\ \A S \in SUBSET Nodes :
                  /\ reset_timeouts(pw2, S) \in PowerStates
                  /\ reset_timeouts(pw2, S).free = pw2.free
                  /\ reset_timeouts(pw2, S).timed = pw2.timed \cup S
                  /\ reset_timeouts(pw2, S).check = pw2.check
BY DEF plan_check, reset_timeouts, PowerStates

-----------------------------------------------------------------------------
\* A workflow that begins with a command is well formed when the ports of its nodes are
\* known (main/poe.py).
LEMMA CommandOK ==
    ASSUME NEW kind, NEW step, NEW S \in SUBSET Nodes, NEW A \in SUBSET Nodes,
           NEW l \in [Nodes -> Ports \cup {Unknown}],
           \A n \in S \cup A : l[n] \in Ports,
           kind \in Kinds \ {"none"}, step \in {"off", "on"}, step \in KindSteps(kind)
    PROVE  LET job == command(kind, step, S, A, l) IN
           JobOK(job) /\ job.kind = kind /\ job.step = step /\ job.ok = {}
<1> DEFINE job == command(kind, step, S, A, l)
<1>1. /\ job.kind = kind /\ job.step = step /\ job.ok = {} /\ job.nodes = S
      /\ job.already_off = A
      /\ job.todo = {l[n] : n \in S} /\ job.at = restrict(l, S \cup A)
    BY DEF command
<1>2. job.at \in [Nodes -> Ports \cup {Unknown}] /\ \A n \in S \cup A : job.at[n] \in Ports
    BY <1>1 DEF restrict
<1>3. job.todo \subseteq Ports
    BY <1>1
<1>4. job \in Job
    BY <1>1, <1>2, <1>3 DEF Job, command
<1> QED
    BY <1>1, <1>2, <1>3, <1>4 DEF JobOK

\* So is the first command of a hard reboot (main/nodes/reboot.py).
LEMMA HardRebootOK ==
    ASSUME NEW S \in SUBSET Nodes, NEW w, WorldOK(w)
    PROVE  LET job == hard_reboot(S, w) IN
           /\ JobOK(job) /\ job.kind \in {"none", "reboot"} /\ job.ok = {}
           /\ job.step # "idle" => S \cap poe_rebootable(w.location) # {}
<1> DEFINE R == S \cap poe_rebootable(w.location)
           already_off == R \cap offs_of(w)
           job == hard_reboot(S, w)
<1>1. w.location \in [Nodes -> Ports \cup {Unknown}]
    BY DEF WorldOK, World
<1>2. R \subseteq Nodes /\ already_off \subseteq R /\ \A n \in R : w.location[n] \in Ports
    BY <1>1 DEF poe_rebootable
<1>3. "off" \in KindSteps("reboot") /\ "on" \in KindSteps("reboot")
    BY DEF KindSteps
<1>4. CASE R = {}
    <2>1. job = NoJob
        BY <1>4 DEF hard_reboot
    <2>2. JobOK(NoJob)
        BY DEF JobOK, NoJob, Job, KindSteps, Kinds, Nowhere
    <2> QED
        BY <2>1, <2>2 DEF NoJob
<1>5. CASE R # {} /\ R = already_off
    <2>1. job = command("reboot", "on", R, {}, w.location)
        BY <1>5 DEF hard_reboot
    <2>2. /\ R \in SUBSET Nodes /\ {} \in SUBSET Nodes
          /\ \A n \in R \cup {} : w.location[n] \in Ports
          /\ "reboot" \in Kinds \ {"none"} /\ "on" \in {"off", "on"}
        BY <1>2 DEF Kinds
    <2> HIDE DEF R, job
    <2>3. JobOK(job) /\ job.kind = "reboot" /\ job.ok = {}
        BY <2>1, <2>2, <1>1, <1>3, CommandOK
    <2> QED
        BY <2>3, <1>5 DEF R, job
<1>6. CASE R # {} /\ R # already_off
    <2>1. job = command("reboot", "off", R \ already_off, already_off, w.location)
        BY <1>6 DEF hard_reboot
    <2> DEFINE on == R \ already_off
    <2>2. /\ on \in SUBSET Nodes /\ already_off \in SUBSET Nodes
          /\ \A n \in on \cup already_off : w.location[n] \in Ports
          /\ "reboot" \in Kinds \ {"none"} /\ "off" \in {"off", "on"}
        BY <1>2 DEF Kinds
    <2>3. job = command("reboot", "off", on, already_off, w.location)
        BY <2>1 DEF on
    <2> HIDE DEF R, job, already_off, on
    <2>4. JobOK(job) /\ job.kind = "reboot" /\ job.ok = {}
        <3>1. /\ "off" \in KindSteps("reboot") /\ w.location \in [Nodes -> Ports \cup {Unknown}]
            BY <1>1, <1>3
        <3> QED
            BY <2>2, <2>3, <3>1, CommandOK, SMTT(30)
    <2> QED
        BY <2>4, <1>6 DEF R, job
<1> QED
    BY <1>4, <1>5, <1>6

\* The workflow that does nothing (main/workflow.py).
LEMMA NoJobOK == JobOK(NoJob) /\ NoJob.kind = "none" /\ NoJob.step = "idle" /\ NoJob.ok = {}
BY DEF JobOK, NoJob, Job, KindSteps, Kinds, Nowhere

\* A node recorded off is located (get_poe_off_macs(), main/poe.py).
LEMMA OffsLocated ==
    ASSUME NEW w, WorldOK(w), NEW reasons
    PROVE  \A n \in off_macs(w.off, w.location, reasons) : n \in Nodes /\ w.location[n] \in Ports
BY DEF WorldOK, World, off_macs, Rows

-----------------------------------------------------------------------------
\* What a new status must say for the handlers to keep what they keep: the conjuncts of
\* Sound that are not about the status.
Grounds(w, c) ==
    /\ WorldOK(w) /\ Owned(w) /\ OffKnown(w, c) /\ OnPowered(w, c)
    /\ w.jobs["check"].step # "idle" => w.pw.check = "running"

\* _bg_process() (main/nodes/status.py): booted nodes follow the events, the nodes that
\* boot at another port are re-armed, those that fail are rebooted.
LEMMA ProcessSound ==
    ASSUME NEW w, NEW c, Grounds(w, c), NEW s \in Statuses, Followed(s, c),
           NEW failing \in SUBSET monitored(s), w.jobs["boot"].step = "idle"
    PROVE  Sound(process(w, s, failing), c)
<1> DEFINE moved == goUp(s) \cap offs_of(w)
           seen == moved_event(w.pw, moved)
           reb == poe_rebootable(w.location)
           v == process(w, s, failing)
<1>1. v = [w EXCEPT
        !.st = bg_process(s, failing, reb),
        !.pw = IF failing = {} THEN seen ELSE reboot_event(seen, failing),
        !.rearmed = @ \cup (moved \ w.pw.free),
        !.jobs = [j \in Slots |->
            IF j \in moved THEN command("moved", "on", {j}, {}, w.location)
            ELSE IF j = "boot" /\ failing # {} THEN hard_reboot(failing, w) ELSE @[j]]]
    BY DEF process
<1>2. w \in World /\ failing \subseteq Nodes /\ moved \subseteq Nodes
    BY DEF Grounds, WorldOK, monitored, goUp
<1> DEFINE t == bg_process(s, failing, reb)
           q == IF failing = {} THEN seen ELSE reboot_event(seen, failing)
           js == [j \in Slots |->
                    IF j \in moved THEN command("moved", "on", {j}, {}, w.location)
                    ELSE IF j = "boot" /\ failing # {} THEN hard_reboot(failing, w)
                    ELSE w.jobs[j]]
<1>3. /\ v.st = t /\ v.pw = q /\ v.rearmed = w.rearmed \cup (moved \ w.pw.free) /\ v.jobs = js
      /\ v.off = w.off /\ v.location = w.location
      /\ v = [st |-> t, pw |-> q, off |-> w.off, location |-> w.location, jobs |-> js,
              rearmed |-> w.rearmed \cup (moved \ w.pw.free)]
    BY <1>1, <1>2 DEF World
<1> HIDE DEF v, js, q, t
<1>4. /\ t \in Statuses
      /\ t.booted = (s.booted \cup goUp(s)) \ goDown(s) /\ t.pending = NoEvent
      /\ t.processing <=> failing \cap reb # {}
      /\ monitored(t) # {} => t.planned \/ t.processing
    BY BgProcess DEF t
<1>5. /\ q \in PowerStates
      /\ w.pw.check = "running" => q.check = "running"
      /\ q.timed \subseteq q.free \cup w.rearmed \cup (moved \ w.pw.free)
    <2>1. w.pw \in PowerStates /\ w.pw.timed \subseteq w.pw.free \cup w.rearmed
        BY <1>2 DEF World, Grounds, Owned
    <2>2. /\ seen \in PowerStates /\ seen.free = w.pw.free
          /\ seen.timed \subseteq w.pw.timed \cup moved
          /\ w.pw.check = "running" => seen.check = "running"
        BY <2>1, <1>2, PowerTypes DEF moved_event
    <2>3. CASE failing = {}
        BY <2>3, <2>1, <2>2 DEF q
    <2>4. CASE failing # {}
        <3>1. q = plan_check(reset_timeouts(seen, failing \cap seen.free))
            BY <2>4 DEF q, reboot_event, record_usage
        <3>2. failing \cap seen.free \in SUBSET Nodes
            BY <1>2
        <3> HIDE DEF seen
        <3> DEFINE u == reset_timeouts(seen, failing \cap seen.free)
        <3>3. /\ u \in PowerStates /\ u.free = seen.free /\ u.check = seen.check
              /\ u.timed = seen.timed \cup (failing \cap seen.free)
            BY <2>2, <3>2, PowerTypes
        <3> HIDE DEF u
        <3>4. /\ q \in PowerStates /\ q.free = u.free /\ q.timed = u.timed
              /\ u.check = "running" => q.check = "running"
            BY <3>1, <3>3, PowerTypes DEF u
        <3> QED
            BY <2>1, <2>2, <3>3, <3>4
    <2> QED
        BY <2>3, <2>4
<1>6. ASSUME NEW j \in Slots
      PROVE  /\ JobOK(js[j]) /\ js[j].kind \in SlotKinds(j)
             /\ js[j] = w.jobs[j] \/ (js[j].ok = {} /\ w.jobs[j].step # "off")
    <2>1. JobOK(w.jobs[j]) /\ w.jobs[j].kind \in SlotKinds(j)
        BY DEF Grounds, WorldOK
    <2>2. CASE j \in moved
        <3>1. js[j] = command("moved", "on", {j}, {}, w.location)
            BY <2>2 DEF js
        <3>2. w.location \in [Nodes -> Ports \cup {Unknown}] /\ w.location[j] \in Ports
            BY <1>2, <2>2, OffsLocated DEF World, Grounds, offs_of
        <3>3. "on" \in KindSteps("moved") /\ "moved" \in Kinds \ {"none"}
            BY DEF KindSteps, Kinds
        <3>4. {j} \in SUBSET Nodes /\ {} \in SUBSET Nodes
              /\ \A n \in {j} \cup {} : w.location[n] \in Ports
            BY <3>2, <2>2, <1>2
        <3>5. j \in Nodes /\ SlotKinds(j) = {"none", "moved"}
            BY <2>2, <1>2, SlotNames
        <3>6. w.jobs[j].kind \in {"none", "moved"} /\ w.jobs[j].step \in KindSteps(w.jobs[j].kind)
            <4>1. w.jobs[j].step \in KindSteps(w.jobs[j].kind)
                BY <2>1 DEF JobOK
            <4> QED
                BY ONLY <2>1, <3>5, <4>1
        <3>7. w.jobs[j].step # "off"
            BY <3>6 DEF KindSteps
        <3> HIDE DEF moved
        <3>8. JobOK(js[j]) /\ js[j].kind = "moved" /\ js[j].ok = {}
            BY <3>1, <3>2, <3>3, <3>4, CommandOK
        <3> QED
            BY <3>5, <3>7, <3>8
    <2>3. CASE j \notin moved /\ j = "boot" /\ failing # {}
        <3>1. js[j] = hard_reboot(failing, w)
            BY <2>3 DEF js
        <3>2. JobOK(js[j]) /\ js[j].kind \in {"none", "reboot"} /\ js[j].ok = {}
            BY <3>1, <1>2, HardRebootOK DEF Grounds
        <3>3. SlotKinds(j) = {"none", "reboot"} /\ w.jobs[j].step # "off"
            BY <2>3, SlotNames
        <3> QED
            BY <3>2, <3>3
    <2>4. CASE j \notin moved /\ ~(j = "boot" /\ failing # {})
        BY <2>1, <2>4 DEF js
    <2> QED
        BY <2>2, <2>3, <2>4
<1>7. WorldOK(v)
    <2>1. js \in [Slots -> Job]
        BY <1>6 DEF js, JobOK
    <2>3. /\ w.off \in SUBSET Rows /\ w.location \in [Nodes -> Ports \cup {Unknown}]
          /\ w.rearmed \cup (moved \ w.pw.free) \in SUBSET Nodes
        BY <1>2 DEF World
    <2> HIDE DEF moved
    <2>2. v \in World
        BY <1>3, <1>4, <1>5, <2>1, <2>3 DEF World
    <2> QED
        BY <2>2, <1>3, <1>6 DEF WorldOK
<1>8. SlotsUsed(v)
    <2>1. js["boot"].step # "idle" => t.processing
        <3>1. "boot" \notin moved /\ "boot" \in Slots
            BY <1>2, SlotNames
        <3>2. CASE failing = {}
            BY <3>1, <3>2 DEF js
        <3>3. CASE failing # {}
            <4>1. js["boot"] = hard_reboot(failing, w)
                BY <3>1, <3>3 DEF js
            <4> QED
                BY <4>1, <1>2, <1>4, HardRebootOK DEF Grounds, reb
        <3> QED
            BY <3>2, <3>3
    <2>2. js["check"] = w.jobs["check"]
        BY <1>2, SlotNames DEF js
    <2> QED
        BY <2>1, <2>2, <1>3, <1>5 DEF SlotsUsed, Grounds
<1>9. Owned(v)
    BY <1>3, <1>5 DEF Owned
<1>10. Watched(v.st, c)
    BY <1>3, <1>4 DEF Watched
<1>11. Followed(v.st, c)
    <2> SUFFICES ASSUME NEW n \in Nodes
                 PROVE  /\ c.conn[n] = "up" => n \in t.booted \cup c.overtaken
                        /\ n \in t.booted => c.conn[n] # "none"
                        /\ t.pending[n] = "none"
        BY <1>3 DEF Followed, Causes
    <2>1. s.pending[n] \in {"none", "up"} \cup Causes
        BY DEF Statuses
    <2>2. t.pending[n] = "none"
        BY <1>4 DEF NoEvent
    <2> QED
        BY <1>4, <2>1, <2>2 DEF Followed, goUp, goDown, Causes
<1>12. OffKnown(v, c)
    BY <1>3, <1>6 DEF OffKnown, Grounds, rows
<1>13. OnPowered(v, c)
    BY <1>3, <1>6 DEF OnPowered, Grounds
<1> QED
    BY <1>7, <1>8, <1>9, <1>10, <1>11, <1>12, <1>13 DEF Sound, v

\* _plan_bg_process() (main/nodes/status.py) keeps all of it, whatever the new status is,
\* as long as the workflow of a boot check has its status in process.
LEMMA SettleSound ==
    ASSUME NEW w, NEW c, Grounds(w, c), NEW s \in Statuses, Followed(s, c),
           w.jobs["boot"].step # "idle" => s.processing
    PROVE  Sound(settle(w, s), c)
<1>1. CASE s.processing \/ s.pending = NoEvent
    <2> DEFINE t == plan(s)
    <2>1. settle(w, s) = [w EXCEPT !.st = t]
        BY <1>1 DEF settle
    <2>2. /\ t \in Statuses /\ t.booted = s.booted /\ t.pending = s.pending
          /\ t.processing <=> s.processing
          /\ monitored(t) # {} => t.planned \/ t.processing
        BY DEF plan, Statuses, monitored
    <2> HIDE DEF t
    <2> DEFINE v == [w EXCEPT !.st = t]
    <2>3. w \in World
        BY DEF Grounds, WorldOK
    <2>4. /\ v \in World /\ v.st = t /\ v.pw = w.pw /\ v.off = w.off /\ v.location = w.location
          /\ v.jobs = w.jobs /\ v.rearmed = w.rearmed
        BY <2>2, <2>3 DEF World
    <2> HIDE DEF v
    <2>5. WorldOK(v) /\ SlotsUsed(v)
        BY <2>2, <2>4 DEF Grounds, WorldOK, SlotsUsed
    <2>6. Owned(v) /\ OffKnown(v, c) /\ OnPowered(v, c)
        BY <2>4 DEF Grounds, Owned, OffKnown, OnPowered, rows
    <2>7. Watched(v.st, c)
        BY <2>2, <2>4 DEF Watched
    <2>8. Followed(v.st, c)
        BY <2>2, <2>4 DEF Followed
    <2> QED
        BY <2>1, <2>5, <2>6, <2>7, <2>8 DEF Sound, v
<1>2. CASE ~(s.processing \/ s.pending = NoEvent)
    <2>1. settle(w, s) = process(w, s, {})
        BY <1>2 DEF settle
    <2>2. {} \in SUBSET monitored(s)
        OBVIOUS
    <2>3. Sound(process(w, s, {}), c)
        BY <1>2, <2>2, ProcessSound
    <2> QED
        BY <2>1, <2>3
<1> QED
    BY <1>1, <1>2

\* It changes neither the tables of the database nor the workflows, except that it
\* starts those of moved nodes.
LEMMA SettleFrame ==
    ASSUME NEW w, WorldOK(w), NEW s \in Statuses
    PROVE  LET v == settle(w, s) IN
           /\ v.off = w.off /\ v.location = w.location
           /\ \A j \in Slots \ Nodes : v.jobs[j] = w.jobs[j]
           /\ w.pw.check = "running" => v.pw.check = "running"
<1> DEFINE v == settle(w, s)
           moved == goUp(s) \cap offs_of(w)
<1>1. w \in World /\ moved \subseteq Nodes
    BY DEF WorldOK, goUp
<1>2. CASE s.processing \/ s.pending = NoEvent
    BY <1>1, <1>2 DEF settle, World
<1>3. CASE ~(s.processing \/ s.pending = NoEvent)
    <2>1. v = process(w, s, {})
        BY <1>3 DEF settle
    <2>2. /\ v.off = w.off /\ v.location = w.location /\ v.pw = moved_event(w.pw, moved)
          /\ \A j \in Slots \ moved : v.jobs[j] = w.jobs[j]
        BY <1>1, <2>1 DEF process, World
    <2>3. w.pw \in PowerStates
        BY <1>1 DEF World
    <2> HIDE DEF v, moved
    <2>4. w.pw.check = "running" => moved_event(w.pw, moved).check = "running"
        BY <1>1, <2>3, PowerTypes DEF moved_event
    <2> QED
        BY <1>1, <2>2, <2>4 DEF v
<1> QED
    BY <1>2, <1>3

\* A handler that changes the tables of powersave and one workflow.
LEMMA Changed ==
    ASSUME NEW w, NEW v, NEW c, NEW j \in Slots, Sound(w, c),
           v \in [st : {w.st}, pw : PowerStates, off : {w.off}, location : {w.location},
                  jobs : {[w.jobs EXCEPT ![j] = v.jobs[j]]}, rearmed : SUBSET Nodes],
           Owned(v), SlotsUsed(v),
           JobOK(v.jobs[j]), v.jobs[j].kind \in SlotKinds(j),
           \/ v.jobs[j] = w.jobs[j]
           \/ /\ v.jobs[j].step = "on" => v.jobs[j].ok = {}
              /\ w.jobs[j].step = "off"
                 => w.jobs[j].ok \subseteq rows(w) \cup c.powered \cup c.doubtful
    PROVE  Sound(v, c)
<1>1. /\ v.st = w.st /\ v.pw \in PowerStates /\ v.off = w.off /\ v.location = w.location
      /\ v.rearmed \in SUBSET Nodes /\ v.jobs = [w.jobs EXCEPT ![j] = v.jobs[j]]
      /\ v = [st |-> v.st, pw |-> v.pw, off |-> v.off, location |-> v.location, jobs |-> v.jobs,
              rearmed |-> v.rearmed]
    OBVIOUS
<1>2. /\ w.st \in Statuses /\ w.off \in SUBSET Rows
      /\ w.location \in [Nodes -> Ports \cup {Unknown}]
      /\ w.jobs \in [Slots -> Job]
    BY DEF Sound, WorldOK, World
<1>3. \A i \in Slots : i # j => v.jobs[i] = w.jobs[i]
    BY <1>1, <1>2
<1>4. v.jobs[j] \in Job
    BY DEF JobOK
<1>5. WorldOK(v)
    <2>1. v.jobs \in [Slots -> Job]
        BY <1>1, <1>2, <1>4
    <2>2. v \in World
        BY <1>1, <1>2, <2>1 DEF World
    <2> QED
        BY <2>2, <1>3 DEF WorldOK, Sound
<1>6. OffKnown(v, c)
    <2> SUFFICES ASSUME NEW p \in Ports \ c.powered, p \notin rows(w), p \notin c.doubtful
                 PROVE  \E i \in Slots : v.jobs[i].step = "off" /\ p \in v.jobs[i].ok
        BY <1>1 DEF OffKnown, rows
    <2>1. PICK i \in Slots : w.jobs[i].step = "off" /\ p \in w.jobs[i].ok
        BY DEF Sound, OffKnown
    <2> QED
        BY <2>1, <1>3
<1>7. OnPowered(v, c)
    BY <1>3 DEF Sound, OnPowered
<1> QED
    BY <1>1, <1>5, <1>6, <1>7 DEF Sound

-----------------------------------------------------------------------------
\* The parts of handlers

\* What settle leaves alone
Settled(v, w) ==
    /\ v.off = w.off /\ v.location = w.location
    /\ \A j \in Slots \ Nodes : v.jobs[j] = w.jobs[j]
    /\ w.pw.check = "running" => v.pw.check = "running"

\* What the handlers of workflow j leave alone
OthersKept(v, w, j) == \A r \in Requests \ {j} : v.jobs[r] = w.jobs[r]

\* record_poe_ports_status() (main/poe.py) keeps a row for each port that is off.
LEMMA RecordedSound ==
    ASSUME NEW w, NEW c, Sound(w, c), NEW j \in Slots, w.jobs[j].step \in {"off", "on"},
           NEW reason, w.jobs[j].step = "off" => reason \in Reasons
    PROVE  LET v == [w EXCEPT !.off = recorded(@, w.jobs[j], reason)] IN
           /\ Sound(v, c)
           /\ v.st = w.st /\ v.pw = w.pw /\ v.jobs = w.jobs /\ v.location = w.location
           /\ v.rearmed = w.rearmed
           /\ w.jobs[j].step = "off" => w.jobs[j].ok \subseteq rows(v)
<1> DEFINE job == w.jobs[j]
           o == recorded(w.off, job, reason)
           v == [w EXCEPT !.off = o]
<1>1. w \in World /\ WorldOK(w) /\ JobOK(job)
    BY DEF Sound, WorldOK
<1>2. /\ v.st = w.st /\ v.pw = w.pw /\ v.jobs = w.jobs /\ v.location = w.location
      /\ v.rearmed = w.rearmed /\ v.off = o
    BY <1>1 DEF World
<1>3. w.off \in SUBSET Rows /\ job.ok \subseteq Ports
    BY <1>1 DEF World, JobOK
<1>4. o \in SUBSET Rows
    BY <1>3 DEF recorded, Rows
<1>5. /\ job.step = "off" => rows(w) \cup job.ok \subseteq rows(v)
      /\ job.step = "on" => rows(w) \ job.ok \subseteq rows(v)
    <2>1. CASE job.step = "off"
        <3>1. v.off = w.off \cup [port : job.ok, reason : {reason}]
            BY <1>2, <2>1 DEF recorded
        <3> HIDE DEF v, o
        <3>2. ASSUME NEW p \in job.ok PROVE p \in rows(v)
            <4>1. [port |-> p, reason |-> reason] \in v.off
                BY <3>1
            <4> QED
                BY <4>1 DEF rows
        <3>3. rows(w) \subseteq rows(v)
            BY <3>1 DEF rows
        <3> QED
            BY <2>1, <3>2, <3>3
    <2>2. CASE job.step = "on"
        <3>1. v.off = {row \in w.off : row.port \notin job.ok}
            BY <1>2, <2>2 DEF recorded
        <3> HIDE DEF v, o
        <3> QED
            BY <2>2, <3>1 DEF rows
    <2> QED
        BY <2>1, <2>2
<1>6. v \in World
    BY <1>1, <1>4 DEF World
<1> HIDE DEF v, o
<1>7. WorldOK(v) /\ SlotsUsed(v) /\ Owned(v) /\ Watched(v.st, c) /\ Followed(v.st, c)
    BY <1>1, <1>2, <1>6 DEF Sound, WorldOK, SlotsUsed, Owned
<1>8. OnPowered(v, c)
    BY <1>2 DEF Sound, OnPowered
<1>9. OffKnown(v, c)
    <2>1. job.step = "on" => job.ok \subseteq c.powered \cup c.doubtful
        BY DEF Sound, OnPowered
    <2> QED
        BY <1>2, <1>5, <2>1 DEF Sound, OffKnown
<1> QED
    BY <1>2, <1>5, <1>7, <1>8, <1>9 DEF Sound, v, o

\* Two more hours (main/nodes/powersave.py)
LEMMA RetryLaterSound ==
    ASSUME NEW w, NEW c, Sound(w, c), NEW S \in SUBSET Nodes
    PROVE  LET v == retry_later(w, S) IN
           /\ Sound(v, c)
           /\ v.st = w.st /\ v.off = w.off /\ v.location = w.location /\ v.jobs = w.jobs
           /\ v.pw.check = w.pw.check
<1> DEFINE q == reset_timeouts(w.pw, S)
           v == retry_later(w, S)
<1>1. w \in World /\ w.pw \in PowerStates /\ WorldOK(w)
    BY DEF Sound, WorldOK, World
<1>2. q \in PowerStates /\ q.free = w.pw.free /\ q.timed = w.pw.timed \cup S
      /\ q.check = w.pw.check
    BY <1>1, PowerTypes
<1>3. v = [w EXCEPT !.pw = q, !.rearmed = @ \cup (S \ w.pw.free)]
    BY DEF retry_later
<1> HIDE DEF q, v
<1>4. /\ v.st = w.st /\ v.off = w.off /\ v.location = w.location /\ v.jobs = w.jobs
      /\ v.pw = q /\ v.rearmed = w.rearmed \cup (S \ w.pw.free)
    BY <1>1, <1>3 DEF World
<1>5. w.jobs = [w.jobs EXCEPT !["check"] = v.jobs["check"]] /\ "check" \in Slots
    BY <1>1, <1>4, SlotNames DEF World
<1>6. v \in [st : {w.st}, pw : PowerStates, off : {w.off}, location : {w.location},
             jobs : {[w.jobs EXCEPT !["check"] = v.jobs["check"]]}, rearmed : SUBSET Nodes]
    BY <1>1, <1>2, <1>3, <1>5 DEF World
<1>7. Owned(v) /\ SlotsUsed(v)
    BY <1>2, <1>4 DEF Sound, Owned, SlotsUsed
<1>8. JobOK(v.jobs["check"]) /\ v.jobs["check"].kind \in SlotKinds("check")
    BY <1>1, <1>4, <1>5 DEF WorldOK
<1>9. Sound(v, c)
    BY <1>4, <1>5, <1>6, <1>7, <1>8, Changed
<1> QED
    BY <1>2, <1>4, <1>9 DEF v

\* Nodes are known to be stopped (main/nodes/status.py).
LEMMA GoesDownSound ==
    ASSUME NEW w, NEW c, Sound(w, c), NEW S \in SUBSET Nodes, NEW cause \in Causes,
           \A n \in S : c.conn[n] = "up" => n \in c.overtaken
    PROVE  Sound(goes_down(w, S, cause), c) /\ Settled(goes_down(w, S, cause), w)
<1>1. WorldOK(w) /\ w.st \in Statuses
    BY DEF Sound, WorldOK, World
<1>2. CASE S = {}
    BY <1>2 DEF goes_down, Settled
<1>3. CASE S # {}
    <2> DEFINE s == report(w.st, S, cause)
    <2>1. goes_down(w, S, cause) = settle(w, s)
        BY <1>3 DEF goes_down
    <2>2. s \in Statuses
        <3>1. cause \in {"up"} \cup Causes
            OBVIOUS
        <3> QED
            BY <1>1, <3>1, StatusTypes
    <2>3. /\ s.processing = w.st.processing /\ s.booted = w.st.booted
          /\ \A n \in Nodes : s.pending[n] = IF n \in S THEN cause ELSE w.st.pending[n]
        BY <1>1 DEF report, Statuses
    <2> HIDE DEF s
    <2>4. Followed(s, c)
        BY <1>1, <2>3 DEF Sound, Followed, Causes
    <2>5. Grounds(w, c) /\ (w.jobs["boot"].step # "idle" => s.processing)
        BY <2>3 DEF Sound, Grounds, SlotsUsed
    <2>6. Sound(settle(w, s), c)
        BY <2>2, <2>4, <2>5, SettleSound
    <2>7. Settled(settle(w, s), w)
        BY <1>1, <2>2, SettleFrame DEF Settled
    <2> QED
        BY <2>1, <2>6, <2>7
<1> QED
    BY <1>2, <1>3

\* record_nodes_boot_start() (main/nodes/status.py)
LEMMA BootStartsSound ==
    ASSUME NEW w, NEW c, Sound(w, c), NEW S \in SUBSET Nodes
    PROVE  Sound(boot_starts(w, S), c) /\ Settled(boot_starts(w, S), w)
<1>1. WorldOK(w) /\ w.st \in Statuses /\ Grounds(w, c) /\ Followed(w.st, c)
    BY DEF Sound, WorldOK, World, Grounds, SlotsUsed
<1>2. w.jobs["boot"].step # "idle" => w.st.processing
    BY DEF Sound, SlotsUsed
<1>3. Sound(settle(w, w.st), c)
    BY <1>1, <1>2, SettleSound
<1>4. Settled(settle(w, w.st), w)
    BY <1>1, SettleFrame DEF Settled
<1> QED
    BY <1>3, <1>4 DEF boot_starts, Settled

\* _check() (main/nodes/powersave.py): the nodes it turns off have no timeout meanwhile.
LEMMA CheckedSound ==
    ASSUME NEW w, NEW c, Sound(w, c), NEW expired \in SUBSET Nodes,
           w.jobs["check"].step = "off" =>
               w.jobs["check"].ok \subseteq rows(w) \cup c.powered \cup c.doubtful
    PROVE  Sound(checked(w, expired), c) /\ OthersKept(checked(w, expired), w, "check")
<1> DEFINE offs == offs_of(w)
           reb == poe_rebootable(w.location)
           S == expired \ offs
           q == check(w.pw, expired, offs, reb)
           J == IF S \cap reb = {} THEN NoJob
                ELSE command("check", "off", S \cap reb, {}, w.location)
           v == checked(w, expired)
           r == w.rearmed \cup ((S \ reb) \ w.pw.free)
<1>1. w \in World /\ w.pw \in PowerStates /\ WorldOK(w) /\ "check" \in Slots
    BY SlotNames DEF Sound, WorldOK, World
<1>2. v = [w EXCEPT !.pw = q, !.rearmed = r, !.jobs["check"] = J]
    BY DEF checked
<1>3. /\ q \in PowerStates /\ q.timed \subseteq q.free \cup r
      /\ J.step # "idle" => q.check = "running"
    <2> DEFINE rest == [w.pw EXCEPT !.timed = (@ \ expired) \cup (S \ reb)]
    <2>1. w.pw.timed \subseteq w.pw.free \cup w.rearmed
        BY DEF Sound, Owned
    <2>2. rest \in PowerStates /\ rest.free = w.pw.free /\ rest.timed \subseteq rest.free \cup r
        BY <1>1, <2>1 DEF PowerStates
    <2>3. CASE S \cap reb = {}
        <3> DEFINE u == [rest EXCEPT !.check = "none"]
        <3>1. u \in PowerStates /\ u.free = rest.free /\ u.timed = rest.timed
            BY <2>2 DEF PowerStates
        <3>2. q = plan_check(u) /\ J = NoJob
            BY <2>3 DEF check
        <3> HIDE DEF u, q, rest, J
        <3>3. q \in PowerStates /\ q.free = u.free /\ q.timed = u.timed
            BY <3>1, <3>2, PowerTypes
        <3> QED
            BY <2>2, <3>1, <3>2, <3>3, NoJobOK
    <2>4. CASE S \cap reb # {}
        <3>1. q = [rest EXCEPT !.check = "running"]
            BY <2>4 DEF check
        <3> HIDE DEF rest, q
        <3>2. q \in PowerStates /\ q.free = rest.free /\ q.timed = rest.timed
              /\ q.check = "running"
            BY <2>2, <3>1 DEF PowerStates
        <3> QED
            BY <2>2, <3>2
    <2> QED
        BY <2>3, <2>4
<1>4. JobOK(J) /\ J.kind \in {"none", "check"} /\ J.ok = {}
    <2>1. CASE S \cap reb = {}
        BY <2>1, NoJobOK
    <2>2. CASE S \cap reb # {}
        <3> DEFINE T == S \cap reb
        <3>1. J = command("check", "off", T, {}, w.location)
            BY <2>2
        <3>2. /\ T \in SUBSET Nodes /\ {} \in SUBSET Nodes
              /\ \A n \in T \cup {} : w.location[n] \in Ports
              /\ w.location \in [Nodes -> Ports \cup {Unknown}]
              /\ "check" \in Kinds \ {"none"} /\ "off" \in {"off", "on"}
              /\ "off" \in KindSteps("check")
            BY <1>1 DEF World, poe_rebootable, Kinds, KindSteps
        <3> HIDE DEF T, J
        <3>3. JobOK(J) /\ J.kind = "check" /\ J.ok = {}
            BY <3>1, <3>2, CommandOK
        <3> QED
            BY <3>3
    <2> QED
        BY <2>1, <2>2
<1>5. r \in SUBSET Nodes
    BY <1>1 DEF World
<1> HIDE DEF q, J, v, r, S, offs, reb
<1>6. /\ v.st = w.st /\ v.off = w.off /\ v.location = w.location
      /\ v.pw = q /\ v.rearmed = r /\ v.jobs = [w.jobs EXCEPT !["check"] = J]
      /\ v.jobs["check"] = J
      /\ \A i \in Slots \ {"check"} : v.jobs[i] = w.jobs[i]
    BY <1>1, <1>2 DEF World
<1>7. v \in [st : {w.st}, pw : PowerStates, off : {w.off}, location : {w.location},
             jobs : {[w.jobs EXCEPT !["check"] = v.jobs["check"]]}, rearmed : SUBSET Nodes]
    BY <1>1, <1>2, <1>3, <1>5, <1>6 DEF World
<1>8. Owned(v) /\ SlotsUsed(v)
    BY <1>3, <1>6, SlotNames DEF Sound, Owned, SlotsUsed
<1>9. Sound(v, c)
    BY <1>1, <1>4, <1>6, <1>7, <1>8, Changed, SlotNames
<1>10. OthersKept(v, w, "check")
    BY <1>6, SlotNames DEF OthersKept
<1> QED
    BY <1>9, <1>10 DEF v

\* A workflow goes on to another command, or ends: what it has turned off must be recorded.
LEMMA JobSet ==
    ASSUME NEW w, NEW c, Sound(w, c), NEW j \in Slots, NEW J,
           JobOK(J), J.kind \in SlotKinds(j), J.ok = {},
           w.jobs[j].step = "off"
           => w.jobs[j].ok \subseteq rows(w) \cup c.powered \cup c.doubtful,
           j = "boot" /\ J.step # "idle" => w.st.processing,
           j = "check" => J.step = "idle"
    PROVE  Sound([w EXCEPT !.jobs[j] = J], c) /\ OthersKept([w EXCEPT !.jobs[j] = J], w, j)
<1> DEFINE v == [w EXCEPT !.jobs[j] = J]
<1>1. w \in World
    BY DEF Sound, WorldOK
<1>2. /\ v.st = w.st /\ v.off = w.off /\ v.location = w.location /\ v.pw = w.pw
      /\ v.rearmed = w.rearmed /\ v.jobs = [w.jobs EXCEPT ![j] = J] /\ v.jobs[j] = J
      /\ \A i \in Slots \ {j} : v.jobs[i] = w.jobs[i]
    BY <1>1 DEF World
<1>3. v \in [st : {w.st}, pw : PowerStates, off : {w.off}, location : {w.location},
             jobs : {[w.jobs EXCEPT ![j] = v.jobs[j]]}, rearmed : SUBSET Nodes]
    BY <1>1, <1>2 DEF World
<1> HIDE DEF v
<1>4. Owned(v) /\ SlotsUsed(v)
    BY <1>2, SlotNames DEF Sound, Owned, SlotsUsed
<1>5. Sound(v, c)
    BY <1>2, <1>3, <1>4, Changed
<1>6. OthersKept(v, w, j)
    BY <1>2, SlotNames DEF OthersKept
<1> QED
    BY <1>5, <1>6 DEF v

\* The events and the nodes whose commands succeeded
LEMMA NodesOK ==
    ASSUME NEW job, JobOK(job)
    PROVE  /\ nodes_ok(job) \in SUBSET Nodes /\ job.nodes \in SUBSET Nodes
           /\ job.nodes \ nodes_ok(job) \in SUBSET Nodes /\ job.already_off \in SUBSET Nodes
           /\ job.at \in [Nodes -> Ports \cup {Unknown}]
BY DEF JobOK, Job, nodes_ok

\* Workflow j of w has all its answers; nodes it stopped are not known to be up.
Resumes(w, c, j) ==
    /\ Sound(w, c) /\ w.jobs[j].step # "idle"
    /\ \A n \in stopped(w.jobs[j]) : c.conn[n] = "up" => n \in c.overtaken

\* A workflow is the one of its slot.
LEMMA SlotsOf ==
    ASSUME NEW w, WorldOK(w), NEW j \in Slots
    PROVE  /\ JobOK(w.jobs[j])
           /\ w.jobs[j].kind = "check" => j = "check" /\ w.jobs[j].step = "off"
           /\ w.jobs[j].kind = "wake" => j \in Requests /\ w.jobs[j].step = "on"
           /\ w.jobs[j].kind = "moved" => j \in Nodes /\ w.jobs[j].step = "on"
           /\ w.jobs[j].kind = "restore" => j = "restore" /\ w.jobs[j].step = "on"
           /\ w.jobs[j].kind = "rescan" => j \in Requests /\ w.jobs[j].step = "on"
           /\ w.jobs[j].kind = "reboot" => /\ j \in {"boot"} \cup Requests
                                           /\ w.jobs[j].step \in {"soft", "off", "delay", "on"}
           /\ w.jobs[j].kind = "none" => w.jobs[j].step = "idle"
           /\ w.jobs[j].kind
              \in {"none", "check", "reboot", "wake", "moved", "restore", "rescan"}
<1>1. JobOK(w.jobs[j]) /\ w.jobs[j].kind \in SlotKinds(j)
    BY DEF WorldOK
<1>2. w.jobs[j].kind \in Kinds /\ w.jobs[j].step \in KindSteps(w.jobs[j].kind)
    BY <1>1 DEF JobOK, Job
<1>3. j \in {"check", "boot", "restore"} \cup Nodes \cup Requests
    BY DEF Slots
<1>4. /\ j \in Requests => SlotKinds(j) = {"none", "reboot", "wake", "rescan"}
      /\ j \in Nodes => SlotKinds(j) = {"none", "moved"}
      /\ j = "check" => SlotKinds(j) = {"none", "check"}
      /\ j = "boot" => SlotKinds(j) = {"none", "reboot"}
      /\ j = "restore" => SlotKinds(j) = {"none", "restore"}
    BY SlotNames
<1> QED
    BY <1>1, <1>2, <1>3, <1>4 DEF Kinds, KindSteps

\* The end of the commands of a check (main/nodes/powersave.py)
LEMMA AfterCheckSound ==
    ASSUME NEW w, NEW c, Resumes(w, c, "check")
    PROVE  Sound(after_check(w), c) /\ OthersKept(after_check(w), w, "check")
<1> DEFINE job == w.jobs["check"]
           a == [w EXCEPT !.off = recorded(@, job, "powersave")]
           late == retry_later(a, job.nodes \ nodes_ok(job))
           down == goes_down(late, nodes_ok(job), "powersave")
<1>1. Sound(w, c) /\ WorldOK(w) /\ "check" \in Slots
    BY SlotNames DEF Resumes, Sound
<1>2. JobOK(job) /\ job.step = "off"
    BY <1>1, SlotsOf, SlotNames DEF Resumes, WorldOK
<1>3. Sound(a, c) /\ a.jobs = w.jobs /\ job.ok \subseteq rows(a)
    BY <1>1, <1>2, RecordedSound DEF Reasons
<1>4. /\ nodes_ok(job) \in SUBSET Nodes /\ job.nodes \ nodes_ok(job) \in SUBSET Nodes
      /\ "powersave" \in Causes /\ \A n \in nodes_ok(job) : c.conn[n] = "up" => n \in c.overtaken
    BY <1>2, NodesOK DEF Resumes, stopped, Causes
<1> HIDE DEF a, late, down
<1>5. Sound(late, c) /\ late.off = a.off /\ late.jobs = a.jobs
    BY <1>3, <1>4, RetryLaterSound DEF late
<1>6. Sound(down, c) /\ Settled(down, late)
    BY <1>4, <1>5, GoesDownSound DEF down
<1>7. down.jobs["check"].ok \subseteq rows(down) \cup c.powered \cup c.doubtful
    <2>1. down.jobs["check"] = job /\ rows(down) = rows(a)
        BY <1>1, <1>3, <1>5, <1>6, SlotNames DEF Settled, rows
    <2> QED
        BY <2>1, <1>3
<1>8. {} \in SUBSET Nodes
    OBVIOUS
<1>9. Sound(checked(down, {}), c) /\ OthersKept(checked(down, {}), down, "check")
    BY <1>6, <1>7, <1>8, CheckedSound
<1>10. OthersKept(checked(down, {}), w, "check")
    BY <1>3, <1>5, <1>6, <1>9, SlotNames DEF OthersKept, Settled
<1> QED
    BY <1>9, <1>10 DEF after_check, a, late, down

\* The end of a wake up or of the command to the old port of a moved node
\* (main/nodes/powersave.py)
LEMMA AfterToggleOnSound ==
    ASSUME NEW w, NEW c, NEW j \in Requests \cup Nodes, Resumes(w, c, j), w.jobs[j].step = "on"
    PROVE  Sound(after_toggle_on(w, j), c) /\ OthersKept(after_toggle_on(w, j), w, j)
<1> DEFINE job == w.jobs[j]
           a == [w EXCEPT !.off = recorded(@, job, "none")]
           late == retry_later(a, job.nodes \ nodes_ok(job))
           on == boot_starts(late, nodes_ok(job))
           v == after_toggle_on(w, j)
<1>1. Sound(w, c) /\ WorldOK(w) /\ j \in Slots /\ j \notin {"boot", "check"}
    BY SlotNames DEF Resumes, Sound
<1>2. JobOK(job)
    BY <1>1 DEF WorldOK
<1>3. Sound(a, c) /\ a.jobs = w.jobs
    BY <1>1, RecordedSound
<1>4. nodes_ok(job) \in SUBSET Nodes /\ job.nodes \ nodes_ok(job) \in SUBSET Nodes
    BY <1>2, NodesOK
<1>5. v = [on EXCEPT !.pw = plan_check(@), !.jobs[j] = NoJob]
    BY DEF after_toggle_on
<1> HIDE DEF a, late, on, v
<1>6. Sound(late, c) /\ late.jobs = a.jobs
    BY <1>3, <1>4, RetryLaterSound DEF late
<1>7. Sound(on, c) /\ Settled(on, late)
    BY <1>4, <1>6, BootStartsSound DEF on
<1>8. on \in World /\ on.pw \in PowerStates /\ WorldOK(on)
    BY <1>7 DEF Sound, WorldOK, World
<1>9. on.jobs[j].step # "off"
    <2>1. CASE j \in Nodes
        <3>1. on.jobs[j].kind \in SlotKinds(j) /\ on.jobs[j].step \in KindSteps(on.jobs[j].kind)
            BY <1>1, <1>8 DEF WorldOK, JobOK
        <3> QED
            BY <2>1, <3>1, SlotNames DEF KindSteps
    <2>2. CASE j \notin Nodes
        BY <2>2, <1>1, <1>3, <1>6, <1>7 DEF Settled
    <2> QED
        BY <2>1, <2>2
<1> DEFINE q == plan_check(on.pw)
<1>10. /\ q \in PowerStates /\ q.free = on.pw.free /\ q.timed = on.pw.timed
       /\ on.pw.check = "running" => q.check = "running"
    BY <1>8, PowerTypes
<1> HIDE DEF q
<1>11. v = [on EXCEPT !.pw = q, !.jobs[j] = NoJob]
    BY <1>5 DEF q
<1>12. /\ v.st = on.st /\ v.off = on.off /\ v.location = on.location /\ v.pw = q
       /\ v.rearmed = on.rearmed /\ v.jobs[j] = NoJob
       /\ \A i \in Slots \ {j} : v.jobs[i] = on.jobs[i]
       /\ v.jobs = [on.jobs EXCEPT ![j] = NoJob]
    BY <1>1, <1>8, <1>11 DEF World
<1>13. v \in [st : {on.st}, pw : PowerStates, off : {on.off}, location : {on.location},
              jobs : {[on.jobs EXCEPT ![j] = v.jobs[j]]}, rearmed : SUBSET Nodes]
    BY <1>8, <1>10, <1>11, <1>12 DEF World
<1>14. Owned(v) /\ SlotsUsed(v)
    BY <1>1, <1>7, <1>10, <1>12, SlotNames DEF Sound, Owned, SlotsUsed
<1>15. JobOK(v.jobs[j]) /\ v.jobs[j].kind \in SlotKinds(j) /\ v.jobs[j].ok = {}
    BY <1>12, NoJobOK, SlotNames
<1>16. Sound(v, c)
    BY <1>1, <1>7, <1>9, <1>13, <1>14, <1>15, Changed
<1>17. OthersKept(v, w, j)
    BY <1>3, <1>6, <1>7, <1>12, SlotNames DEF OthersKept, Settled
<1> QED
    BY <1>16, <1>17 DEF v

\* Then the node is no longer known to be at that port (main/nodes/powersave.py).
LEMMA AfterMovedSound ==
    ASSUME NEW w, NEW c, NEW j \in Nodes, Resumes(w, c, j), w.jobs[j].step = "on"
    PROVE  Sound(after_moved(w, j), c) /\ OthersKept(after_moved(w, j), w, j)
<1> DEFINE u == after_toggle_on(w, j)
           v == [u EXCEPT !.location[j] = Unknown]
<1>1. Sound(u, c) /\ OthersKept(u, w, j)
    BY AfterToggleOnSound
<1>2. after_moved(w, j) = v
    BY DEF after_moved
<1> HIDE DEF u
<1>3. u \in World
    BY <1>1 DEF Sound, WorldOK
<1>4. /\ v \in World /\ v.st = u.st /\ v.pw = u.pw /\ v.off = u.off /\ v.jobs = u.jobs
      /\ v.rearmed = u.rearmed
    BY <1>3 DEF World
<1> HIDE DEF v
<1>5. Sound(v, c)
    BY <1>1, <1>4 DEF Sound, WorldOK, SlotsUsed, Owned, OffKnown, OnPowered, rows
<1> QED
    BY <1>1, <1>2, <1>4, <1>5 DEF OthersKept

\* The end of restore_poe_on_all_ports() or of the same for a rescan (main/poe.py)
LEMMA AfterRestoreSound ==
    ASSUME NEW w, NEW c, NEW j \in {"restore"} \cup Requests, Resumes(w, c, j),
           w.jobs[j].step = "on"
    PROVE  Sound(after_restore(w, j), c) /\ OthersKept(after_restore(w, j), w, j)
<1> DEFINE a == [w EXCEPT !.off = recorded(@, w.jobs[j], "none")]
           on == [a EXCEPT !.jobs[j] = NoJob]
           q == rescan_restore_poe_event(on.pw, offs_of(on))
           v == [on EXCEPT !.pw = q]
<1>1. Sound(w, c) /\ WorldOK(w) /\ w \in World /\ j \in Slots /\ j \notin {"boot", "check"}
    BY SlotNames DEF Resumes, Sound, WorldOK
<1>2. Sound(a, c) /\ a.jobs = w.jobs
    BY <1>1, RecordedSound
<1>3. /\ on = [w EXCEPT !.off = recorded(@, w.jobs[j], "none"), !.jobs[j] = NoJob]
      /\ after_restore(w, j) = IF w.jobs[j].kind = "restore" THEN on ELSE v
    BY <1>1 DEF after_restore, World
<1> HIDE DEF a
<1>4. Sound(on, c) /\ OthersKept(on, a, j)
    <2>1. NoJob.kind \in SlotKinds(j)
        BY NoJobOK, SlotNames
    <2> QED
        BY <1>1, <1>2, <2>1, NoJobOK, JobSet
<1> HIDE DEF on
<1>5. on \in World /\ on.pw \in PowerStates /\ WorldOK(on)
      /\ on.pw.timed \subseteq on.pw.free \cup on.rearmed
    BY <1>4 DEF Sound, WorldOK, World, Owned
<1>6. /\ q \in PowerStates /\ q.free = on.pw.free /\ q.timed \subseteq on.pw.timed \cup q.free
      /\ on.pw.check = "running" => q.check = "running"
    <2> DEFINE S == on.pw.free \ offs_of(on)
               u == reset_timeouts(on.pw, S)
    <2>1. S \in SUBSET Nodes /\ q = plan_check(u)
        BY <1>5 DEF rescan_restore_poe_event, PowerStates
    <2>2. S \subseteq on.pw.free
        OBVIOUS
    <2> HIDE DEF S, q
    <2>3. /\ u \in PowerStates /\ u.free = on.pw.free /\ u.timed = on.pw.timed \cup S
          /\ u.check = on.pw.check
        BY <1>5, <2>1, PowerTypes
    <2> HIDE DEF u
    <2>4. /\ q \in PowerStates /\ q.free = u.free /\ q.timed = u.timed
          /\ u.check = "running" => q.check = "running"
        BY <2>1, <2>3, PowerTypes
    <2> QED
        BY <2>2, <2>3, <2>4
<1> HIDE DEF q
<1>7. /\ v.st = on.st /\ v.off = on.off /\ v.location = on.location /\ v.pw = q
      /\ v.rearmed = on.rearmed /\ v.jobs = on.jobs
      /\ v.jobs = [on.jobs EXCEPT ![j] = v.jobs[j]]
    BY <1>1, <1>5 DEF World
<1>8. v \in [st : {on.st}, pw : PowerStates, off : {on.off}, location : {on.location},
             jobs : {[on.jobs EXCEPT ![j] = v.jobs[j]]}, rearmed : SUBSET Nodes]
    BY <1>5, <1>6, <1>7 DEF World
<1> HIDE DEF v
<1>9. Owned(v) /\ SlotsUsed(v)
    BY <1>4, <1>5, <1>6, <1>7 DEF Sound, Owned, SlotsUsed
<1>10. JobOK(v.jobs[j]) /\ v.jobs[j].kind \in SlotKinds(j)
    BY <1>1, <1>5, <1>7 DEF WorldOK
<1>11. Sound(v, c)
    BY <1>1, <1>4, <1>7, <1>8, <1>9, <1>10, Changed
<1>12. OthersKept(on, w, j) /\ OthersKept(v, w, j)
    BY <1>2, <1>4, <1>7 DEF OthersKept
<1> QED
    BY <1>3, <1>4, <1>11, <1>12

\* reboot_nodes() ends (main/nodes/reboot.py): the boot check goes on.
LEMMA RebootEndsSound ==
    ASSUME NEW w, NEW c, Sound(w, c), NEW j \in Slots,
           w.jobs[j].step = "off"
           => w.jobs[j].ok \subseteq rows(w) \cup c.powered \cup c.doubtful
    PROVE  Sound(reboot_ends(w, j), c) /\ OthersKept(reboot_ends(w, j), w, j)
<1> DEFINE over == [w EXCEPT !.jobs[j] = NoJob]
           idle == [w.st EXCEPT !.processing = FALSE]
<1>1. w \in World /\ w.st \in Statuses
    BY DEF Sound, WorldOK, World
<1>2. Sound(over, c) /\ OthersKept(over, w, j)
    <2>1. NoJob.kind \in SlotKinds(j)
        BY NoJobOK, SlotNames DEF Slots
    <2> QED
        BY <2>1, NoJobOK, JobSet
<1>3. CASE j # "boot"
    BY <1>2, <1>3 DEF reboot_ends
<1>4. CASE j = "boot"
    <2>1. reboot_ends(w, j) = settle(over, idle)
        BY <1>4 DEF reboot_ends
    <2>2. over.jobs["boot"].step = "idle"
        BY <1>1, <1>4, NoJobOK DEF World
    <2> HIDE DEF over
    <2>3. Grounds(over, c)
        BY <1>2 DEF Sound, Grounds, SlotsUsed
    <2>4. idle \in Statuses
        BY <1>1, StatusTypes
    <2>5. Followed(idle, c)
        BY <1>1 DEF Followed, Sound, Statuses
    <2> HIDE DEF idle
    <2>6. Sound(settle(over, idle), c)
        BY <2>2, <2>3, <2>4, <2>5, SettleSound
    <2>7. Settled(settle(over, idle), over)
        BY <2>3, <2>4, SettleFrame DEF Settled, Grounds
    <2>8. OthersKept(settle(over, idle), w, j)
        BY <1>2, <2>7, SlotNames DEF OthersKept, Settled
    <2> QED
        BY <2>1, <2>6, <2>8
<1> QED
    BY <1>3, <1>4

\* wf_poe_poweron() (main/poe.py)
LEMMA PowerOnSound ==
    ASSUME NEW w, NEW c, Sound(w, c), NEW j \in Slots, NEW S \in SUBSET Nodes,
           w.jobs[j].kind = "reboot", \A n \in S : w.jobs[j].at[n] \in Ports,
           w.jobs[j].step = "off"
           => w.jobs[j].ok \subseteq rows(w) \cup c.powered \cup c.doubtful
    PROVE  Sound(power_on(w, j, S), c) /\ OthersKept(power_on(w, j, S), w, j)
<1>1. WorldOK(w) /\ JobOK(w.jobs[j]) /\ w.jobs[j].step # "idle"
    <2>1. WorldOK(w) /\ JobOK(w.jobs[j])
        BY DEF Sound, WorldOK
    <2> QED
        BY <2>1 DEF JobOK, KindSteps
<1>2. CASE S = {}
    BY <1>2, RebootEndsSound DEF power_on
<1>3. CASE S # {}
    <2> DEFINE l == w.jobs[j].at
               J == command("reboot", "on", S, {}, l)
    <2>1. power_on(w, j, S) = [w EXCEPT !.jobs[j] = J]
        BY <1>3 DEF power_on
    <2>2. /\ l \in [Nodes -> Ports \cup {Unknown}] /\ {} \in SUBSET Nodes
          /\ \A n \in S \cup {} : l[n] \in Ports
          /\ "reboot" \in Kinds \ {"none"} /\ "on" \in {"off", "on"}
          /\ "on" \in KindSteps("reboot")
        BY <1>1 DEF JobOK, Job, Kinds, KindSteps
    <2> HIDE DEF l
    <2>3. JobOK(J) /\ J.kind = "reboot" /\ J.ok = {}
        BY <2>2, CommandOK
    <2> HIDE DEF J
    <2>4. "reboot" \in SlotKinds(j) /\ j # "check"
        BY <1>1, SlotsOf, SlotNames
    <2>5. j = "boot" => w.st.processing
        BY <1>1 DEF Sound, SlotsUsed
    <2>6. Sound([w EXCEPT !.jobs[j] = J], c) /\ OthersKept([w EXCEPT !.jobs[j] = J], w, j)
        BY <2>3, <2>4, <2>5, JobSet
    <2> QED
        BY <2>1, <2>6
<1> QED
    BY <1>2, <1>3

\* wf_poe_after_poweron() (main/poe.py)
LEMMA AfterPowerOnSound ==
    ASSUME NEW w, NEW c, NEW j \in Slots, Resumes(w, c, j),
           w.jobs[j].kind = "reboot", w.jobs[j].step = "on"
    PROVE  Sound(after_poweron(w, j), c) /\ OthersKept(after_poweron(w, j), w, j)
<1> DEFINE job == w.jobs[j]
           a == [w EXCEPT !.off = recorded(@, job, "none")]
           on == boot_starts(a, nodes_ok(job))
<1>1. Sound(w, c) /\ WorldOK(w) /\ JobOK(job)
    BY DEF Resumes, Sound, WorldOK
<1>2. j \notin Nodes
    BY <1>1, SlotsOf, SlotNames
<1>3. Sound(a, c) /\ a.jobs = w.jobs
  <2>1. w.jobs[j].step \in {"off", "on"} /\ w.jobs[j].step # "off" /\ j \in Slots
    BY DEF Resumes
  <2>2. LET v == [w EXCEPT !.off = recorded(@, w.jobs[j], "none")] IN
        Sound(v, c) /\ v.jobs = w.jobs
    BY <1>1, <2>1, RecordedSound
  <2> QED
    BY <2>2
<1>4. nodes_ok(job) \in SUBSET Nodes
    BY <1>1, NodesOK
<1> HIDE DEF a, on
<1>5. Sound(on, c) /\ Settled(on, a)
    BY <1>3, <1>4, BootStartsSound DEF on
<1>6. on.jobs[j].step # "off"
    BY <1>2, <1>3, <1>5 DEF Settled
<1>7. Sound(reboot_ends(on, j), c) /\ OthersKept(reboot_ends(on, j), on, j)
    BY <1>5, <1>6, RebootEndsSound
<1>8. OthersKept(reboot_ends(on, j), w, j)
    BY <1>3, <1>5, <1>7, SlotNames DEF OthersKept, Settled
<1> QED
    BY <1>7, <1>8 DEF after_poweron, a, on

\* wf_poe_after_poweroff() (main/poe.py): what it turned off is recorded, and it waits or
\* goes on with the nodes that were off.
LEMMA AfterPowerOffSound ==
    ASSUME NEW w, NEW c, NEW j \in Slots, Resumes(w, c, j),
           w.jobs[j].kind = "reboot", w.jobs[j].step = "off"
    PROVE  Sound(after_poweroff(w, j), c) /\ OthersKept(after_poweroff(w, j), w, j)
<1> DEFINE job == w.jobs[j]
           a == [w EXCEPT !.off = recorded(@, job, "hard-reboot")]
           down == goes_down(a, nodes_ok(job), "other")
           up == nodes_ok(job) \cup job.already_off
           J == [NoJob EXCEPT !.kind = "reboot", !.step = "delay", !.nodes = up,
                              !.at = restrict(job.at, up)]
<1>1. Sound(w, c) /\ WorldOK(w) /\ JobOK(job)
    BY DEF Resumes, Sound, WorldOK
<1>2. j \notin Nodes /\ j # "check"
      /\ SlotKinds(j) \in {{"none", "reboot"}, {"none", "reboot", "wake", "rescan"}}
    BY <1>1, SlotsOf, SlotNames
<1>3. Sound(a, c) /\ a.jobs = w.jobs /\ job.ok \subseteq rows(a)
    BY <1>1, RecordedSound DEF Reasons
<1>4. /\ nodes_ok(job) \in SUBSET Nodes /\ job.already_off \in SUBSET Nodes
      /\ "other" \in Causes /\ \A n \in nodes_ok(job) : c.conn[n] = "up" => n \in c.overtaken
    BY <1>1, NodesOK DEF Resumes, stopped, Causes
<1>5. \A n \in up : job.at[n] \in Ports
    BY <1>1, <1>4 DEF JobOK, nodes_ok
<1> HIDE DEF a, down
<1>6. Sound(down, c) /\ Settled(down, a)
    BY <1>3, <1>4, GoesDownSound DEF down
<1>7. down.jobs[j] = job /\ job.ok \subseteq rows(down)
    BY <1>2, <1>3, <1>6 DEF Settled, rows
<1>8. OthersKept(down, w, j)
    BY <1>3, <1>6, SlotNames DEF OthersKept, Settled
<1>9. CASE nodes_ok(job) = {}
    <2>1. after_poweroff(w, j) = power_on(down, j, job.already_off)
        BY <1>9 DEF after_poweroff, down, a
    <2>2. \A n \in job.already_off : down.jobs[j].at[n] \in Ports
        BY <1>5, <1>7
    <2> HIDE DEF job
    <2>3. /\ Sound(power_on(down, j, job.already_off), c)
          /\ OthersKept(power_on(down, j, job.already_off), down, j)
        BY <1>4, <1>6, <1>7, <2>2, PowerOnSound DEF job
    <2> QED
        BY <1>8, <2>1, <2>3 DEF OthersKept
<1>10. CASE nodes_ok(job) # {}
    <2>1. after_poweroff(w, j) = [down EXCEPT !.jobs[j] = J]
        BY <1>10 DEF after_poweroff, down, a
    <2>2. /\ J.kind = "reboot" /\ J.step = "delay" /\ J.nodes = up /\ J.ok = {} /\ J.todo = {}
          /\ J.already_off = {} /\ J.at = restrict(job.at, up)
        BY DEF NoJob
    <2>3. J.at \in [Nodes -> Ports \cup {Unknown}] /\ \A n \in up : J.at[n] \in Ports
        <3>1. job.at \in [Nodes -> Ports \cup {Unknown}] /\ up \subseteq Nodes
            BY <1>1, <1>4, NodesOK
        <3>2. \A n \in Nodes : restrict(job.at, up)[n] = IF n \in up THEN job.at[n] ELSE Unknown
            BY DEF restrict
        <3>3. restrict(job.at, up) \in [Nodes -> Ports \cup {Unknown}]
            BY <3>1 DEF restrict
        <3> HIDE DEF J, job, up
        <3> QED
            BY <1>5, <2>2, <3>1, <3>2, <3>3
    <2>4. J \in Job
        BY <1>4, <2>2, <2>3 DEF NoJob, Job, Kinds
    <2> HIDE DEF J
    <2>5. JobOK(J)
        BY <2>2, <2>3, <2>4 DEF JobOK, KindSteps
    <2>6. J.kind \in SlotKinds(j)
        BY <1>2, <2>2
    <2>7. j = "boot" => down.st.processing
        BY <1>6, <1>7, <1>1 DEF Sound, SlotsUsed
    <2>8. Sound([down EXCEPT !.jobs[j] = J], c)
          /\ OthersKept([down EXCEPT !.jobs[j] = J], down, j)
        BY <1>2, <1>6, <1>7, <2>2, <2>5, <2>6, <2>7, JobSet
    <2> QED
        BY <1>8, <2>1, <2>8 DEF OthersKept
<1> QED
    BY <1>9, <1>10

\* wf_softreboot_callback() (main/nodes/reboot.py, netservice.py)
LEMMA AfterSoftSound ==
    ASSUME NEW w, NEW c, NEW j \in Slots, Resumes(w, c, j),
           w.jobs[j].kind = "reboot", w.jobs[j].step = "soft"
    PROVE  Sound(after_soft(w, j), c) /\ OthersKept(after_soft(w, j), w, j)
<1> DEFINE job == w.jobs[j]
           reported == goes_down(w, job.ok, "other")
           down == IF job.ok = {} THEN w ELSE boot_starts(reported, job.ok)
           J == hard_reboot(job.nodes \ job.ok, down)
<1>1. Sound(w, c) /\ WorldOK(w) /\ JobOK(job)
    BY DEF Resumes, Sound, WorldOK
<1>2. j \notin Nodes /\ j # "check"
      /\ SlotKinds(j) \in {{"none", "reboot"}, {"none", "reboot", "wake", "rescan"}}
    BY <1>1, SlotsOf, SlotNames
<1>3. /\ job.ok \in SUBSET Nodes /\ job.nodes \ job.ok \in SUBSET Nodes /\ "other" \in Causes
      /\ \A n \in job.ok : c.conn[n] = "up" => n \in c.overtaken
    BY <1>1, NodesOK DEF Resumes, stopped, Causes, JobOK
<1> HIDE DEF reported, down
<1>4. Sound(reported, c) /\ Settled(reported, w)
    BY <1>1, <1>3, GoesDownSound DEF reported
<1>5. Sound(boot_starts(reported, job.ok), c) /\ Settled(boot_starts(reported, job.ok), reported)
    BY <1>3, <1>4, BootStartsSound
<1>6. Sound(down, c) /\ down.jobs[j] = job /\ OthersKept(down, w, j)
    BY <1>1, <1>2, <1>4, <1>5, SlotNames DEF down, Settled, OthersKept
<1>7. WorldOK(down)
    BY <1>6 DEF Sound
<1>8. JobOK(J) /\ J.kind \in SlotKinds(j) /\ J.ok = {}
    <2>1. JobOK(J) /\ J.kind \in {"none", "reboot"} /\ J.ok = {}
        BY <1>3, <1>7, HardRebootOK
    <2> QED
        BY <1>2, <2>1
<1>9. j = "boot" => down.st.processing
    BY <1>6 DEF Sound, SlotsUsed
<1> HIDE DEF J
<1>10. Sound([down EXCEPT !.jobs[j] = J], c) /\ OthersKept([down EXCEPT !.jobs[j] = J], down, j)
    BY <1>2, <1>6, <1>8, <1>9, JobSet
<1>11. OthersKept([down EXCEPT !.jobs[j] = J], w, j)
    BY <1>6, <1>10 DEF OthersKept
<1> QED
    BY <1>10, <1>11 DEF after_soft, down, reported, J

\* Whatever workflow goes on, with the answers it waited for
LEMMA ResumedSound ==
    ASSUME NEW w, NEW c, NEW j \in Slots, Resumes(w, c, j), w.jobs[j].step # "delay"
    PROVE  Sound(resumed(w, j), c) /\ OthersKept(resumed(w, j), w, j)
<1> DEFINE job == w.jobs[j]
<1>1. WorldOK(w) /\ job.step # "idle"
    BY DEF Resumes, Sound
<1>2. CASE job.kind = "check"
    <2>1. j = "check"
        BY <1>1, <1>2, SlotsOf
    <2>2. resumed(w, j) = after_check(w)
        BY <1>2 DEF resumed
    <2>3. Resumes(w, c, "check")
        BY <2>1
    <2>4. Sound(after_check(w), c) /\ OthersKept(after_check(w), w, "check")
        BY <2>3, AfterCheckSound
    <2> QED
        BY <2>1, <2>2, <2>4
<1>3. CASE job.kind = "wake"
    <2>1. j \in Requests \cup Nodes /\ job.step = "on"
        BY <1>1, <1>3, SlotsOf
    <2> QED
        BY <1>3, <2>1, AfterToggleOnSound DEF resumed
<1>4. CASE job.kind = "moved"
    <2>1. j \in Nodes /\ job.step = "on"
        BY <1>1, <1>4, SlotsOf
    <2> QED
        BY <1>4, <2>1, AfterMovedSound DEF resumed
<1>5. CASE job.kind \in {"restore", "rescan"}
    <2>1. j \in {"restore"} \cup Requests /\ job.step = "on"
        BY <1>1, <1>5, SlotsOf
    <2> QED
        BY <1>5, <2>1, AfterRestoreSound DEF resumed
<1>6. CASE job.kind = "reboot"
    <2>1. job.step \in {"soft", "off", "on"}
        BY <1>1, <1>6, SlotsOf
    <2>2. CASE job.step = "soft"
        BY <1>6, <2>2, AfterSoftSound DEF resumed
    <2>3. CASE job.step = "off"
        BY <1>6, <2>3, AfterPowerOffSound DEF resumed
    <2>4. CASE job.step = "on"
        BY <1>6, <2>4, AfterPowerOnSound DEF resumed
    <2> QED
        BY <2>1, <2>2, <2>3, <2>4
<1> QED
    BY <1>1, <1>2, <1>3, <1>4, <1>5, <1>6, SlotsOf

-----------------------------------------------------------------------------
\* The steps of the system

\* Sound only depends on what may be doubted, is not watched, or has a connection.
LEMMA ContextGrows ==
    ASSUME NEW w, NEW c, NEW d, Sound(w, c),
           d.powered = c.powered, c.doubtful \subseteq d.doubtful,
           c.unwatched \subseteq d.unwatched, c.overtaken \subseteq d.overtaken,
           \A n \in Nodes : /\ d.conn[n] = "up" => c.conn[n] = "up"
                            /\ d.conn[n] = "none" => c.conn[n] = "none"
    PROVE  Sound(w, d)
<1>1. Watched(w.st, d) /\ OffKnown(w, d) /\ OnPowered(w, d)
    BY DEF Sound, Watched, OffKnown, OnPowered
<1>2. Followed(w.st, d)
    BY DEF Sound, Followed
<1> QED
    BY <1>1, <1>2 DEF Sound

\* A handler that leaves a sound world leaves a sound state (BecomesWith).
LEMMA Becoming ==
    ASSUME TypeOK, NEW w, NEW d, Sound(w, d),
           NEW reset \in SUBSET Nodes, NEW doubts \in SUBSET Ports,
           BecomesWith(w, reset, doubts),
           d.powered = powered', d.conn = conn', d.doubtful \subseteq doubtful',
           d.unwatched \subseteq unwatched \cup reset, d.overtaken \subseteq overtaken'
    PROVE  /\ SoundNow' /\ SharedDoubtful'
           /\ server' = w
           /\ st' \in Statuses /\ pw' \in PowerStates /\ off' \in SUBSET Rows
           /\ location' \in [Nodes -> Ports \cup {Unknown}] /\ jobs' \in [Slots -> Job]
           /\ rearmed' \in SUBSET Nodes /\ unwatched' \in SUBSET Nodes
           /\ doubtful' \in SUBSET Ports /\ untimed' \in SUBSET Nodes
<1> DEFINE e == [powered |-> powered', doubtful |-> doubtful', unwatched |-> unwatched',
                 conn |-> conn', overtaken |-> overtaken']
<1>1. w \in World
    BY DEF Sound, WorldOK
<1>2. /\ server' = w
      /\ st' \in Statuses /\ pw' \in PowerStates /\ off' \in SUBSET Rows
      /\ location' \in [Nodes -> Ports \cup {Unknown}] /\ jobs' \in [Slots -> Job]
      /\ rearmed' \in SUBSET Nodes
    BY <1>1 DEF World, server, BecomesWith
<1>3. unwatched' \in SUBSET Nodes /\ doubtful' \in SUBSET Ports /\ untimed' \in SUBSET Nodes
    BY DEF BecomesWith, TypeOK, shared
<1>4. Sound(w, e)
    <2>1. Watched(w.st, e)
        BY DEF Sound, Watched, BecomesWith
    <2>2. OffKnown(w, e) /\ OnPowered(w, e)
        BY DEF Sound, OffKnown, OnPowered
    <2>3. Followed(w.st, e)
        BY DEF Sound, Followed
    <2> QED
        BY <2>1, <2>2, <2>3 DEF Sound
<1>5. context' = e
    BY DEF context
<1>6. SoundNow'
    BY <1>2, <1>4, <1>5 DEF SoundNow
<1>7. SharedDoubtful'
    <2>1. shared(jobs') \subseteq doubtful'
        BY DEF BecomesWith
    <2> QED
        BY <2>1 DEF SharedDoubtful
<1> QED
    BY <1>2, <1>3, <1>6, <1>7

\* The tables of powersave change, and nothing else (main/nodes/powersave.py).
LEMMA PowerSet ==
    ASSUME NEW w, NEW c, Sound(w, c), NEW q \in PowerStates, NEW r \in SUBSET Nodes,
           q.timed \subseteq q.free \cup r, w.pw.check = "running" => q.check = "running",
           NEW v, v = [st |-> w.st, pw |-> q, off |-> w.off, location |-> w.location,
                       jobs |-> w.jobs, rearmed |-> r]
    PROVE  Sound(v, c) /\ v.jobs = w.jobs
<1>1. w \in World /\ WorldOK(w) /\ "check" \in Slots
    BY SlotNames DEF Sound, WorldOK
<1>2. /\ v.st = w.st /\ v.off = w.off /\ v.location = w.location /\ v.jobs = w.jobs
      /\ v.pw = q /\ v.rearmed = r /\ v.jobs = [w.jobs EXCEPT !["check"] = v.jobs["check"]]
    BY <1>1 DEF World
<1>3. v \in [st : {w.st}, pw : PowerStates, off : {w.off}, location : {w.location},
             jobs : {[w.jobs EXCEPT !["check"] = v.jobs["check"]]}, rearmed : SUBSET Nodes]
    BY <1>1, <1>2 DEF World
<1>4. Owned(v) /\ SlotsUsed(v)
    BY <1>2 DEF Sound, Owned, SlotsUsed
<1>5. JobOK(v.jobs["check"]) /\ v.jobs["check"].kind \in SlotKinds("check")
    BY <1>1, <1>2 DEF WorldOK
<1>6. Sound(v, c)
    BY <1>1, <1>2, <1>3, <1>4, <1>5, Changed
<1> QED
    BY <1>2, <1>6

\* The fields of the world and of its context, and what the invariant says of them
LEMMA Here ==
    ASSUME IInv
    PROVE  /\ server.st = st /\ server.pw = pw /\ server.off = off /\ server.location = location
           /\ server.jobs = jobs /\ server.rearmed = rearmed
           /\ context.powered = powered /\ context.doubtful = doubtful
           /\ context.unwatched = unwatched /\ context.conn = conn
           /\ context.overtaken = overtaken
           /\ Sound(server, context) /\ WorldOK(server) /\ server \in World
           /\ Grounds(server, context)
           /\ \A j \in Slots : JobOK(jobs[j]) /\ jobs[j].kind \in SlotKinds(j)
           /\ jobs["boot"].step # "idle" => st.processing
           /\ jobs["check"].step # "idle" => pw.check = "running"
<1>1. /\ server.st = st /\ server.pw = pw /\ server.off = off /\ server.location = location
      /\ server.jobs = jobs /\ server.rearmed = rearmed
    BY DEF server
<1>2. /\ context.powered = powered /\ context.doubtful = doubtful
      /\ context.unwatched = unwatched /\ context.conn = conn /\ context.overtaken = overtaken
    BY DEF context
<1>3. Sound(server, context)
    BY DEF IInv, SoundNow
<1> QED
    BY <1>1, <1>2, <1>3 DEF Sound, WorldOK, SlotsUsed, Grounds

\* Connections that are lost (NodeFails, Move, the commands to nodes and switches)
LEMMA CutConnections ==
    ASSUME TypeOK, NEW S
    PROVE  /\ cut(S) \in [Nodes -> {"none", "new", "up", "lost", "unseen"}]
           /\ \A n \in Nodes : /\ cut(S)[n] = "up" => conn[n] = "up"
                               /\ cut(S)[n] = "none" => conn[n] = "none"
BY DEF cut, TypeOK

\* The variables that no handler of the daemon changes
Outside ==
    /\ plug \in [Nodes -> Ports] /\ powered \in SUBSET Ports
    /\ conn \in [Nodes -> {"none", "new", "up", "lost", "unseen"}] /\ stale \in SUBSET Nodes
    /\ asked \in SUBSET Requests /\ overtaken \in SUBSET Nodes
    /\ faults \in 0..MaxFaults

\* A handler that leaves a sound world keeps the invariant (main/nodes, main/poe.py).
LEMMA HandlerKeeps ==
    ASSUME IInv, NEW w, NEW d, Sound(w, d),
           NEW reset \in SUBSET Nodes, NEW doubts \in SUBSET Ports,
           BecomesWith(w, reset, doubts),
           d.powered = powered', d.conn = conn', d.doubtful \subseteq doubtful',
           d.unwatched \subseteq unwatched \cup reset, d.overtaken \subseteq overtaken',
           Outside', \A r \in Requests \ asked' : w.jobs[r].step = "idle"
    PROVE  IInv'
<1>1. TypeOK
    BY DEF IInv
<1>2. /\ SoundNow' /\ SharedDoubtful' /\ server' = w
      /\ st' \in Statuses /\ pw' \in PowerStates /\ off' \in SUBSET Rows
      /\ location' \in [Nodes -> Ports \cup {Unknown}] /\ jobs' \in [Slots -> Job]
      /\ rearmed' \in SUBSET Nodes /\ unwatched' \in SUBSET Nodes /\ doubtful' \in SUBSET Ports
      /\ untimed' \in SUBSET Nodes
    BY <1>1, Becoming
<1>3. TypeOK'
    BY <1>2 DEF TypeOK, Outside
<1>4. RequestsFirst'
    BY DEF RequestsFirst, BecomesWith
<1> QED
    BY <1>2, <1>3, <1>4 DEF IInv

\* What happens to nodes alone (main/nodes knows nothing of it) keeps the invariant.
LEMMA NetworkKeeps ==
    ASSUME IInv, Outside',
           UNCHANGED <<powered, st, pw, off, location, jobs, asked, doubtful, rearmed,
                       unwatched, overtaken, untimed>>,
           \A n \in Nodes : /\ conn'[n] = "up" => conn[n] = "up"
                            /\ conn'[n] = "none" => conn[n] = "none"
    PROVE  IInv'
<1>1. Sound(server, context)
    BY DEF IInv, SoundNow
<1> DEFINE d == [powered |-> powered, doubtful |-> doubtful, unwatched |-> unwatched,
                 conn |-> conn', overtaken |-> overtaken]
<1>2. Sound(server, d)
    <2>1. /\ d.powered = context.powered /\ context.doubtful \subseteq d.doubtful
          /\ context.unwatched \subseteq d.unwatched /\ context.overtaken \subseteq d.overtaken
          /\ \A n \in Nodes : /\ d.conn[n] = "up" => context.conn[n] = "up"
                              /\ d.conn[n] = "none" => context.conn[n] = "none"
        BY DEF context
    <2> HIDE DEF d
    <2> QED
        BY <1>1, <2>1, ContextGrows
<1>3. server' = server /\ context' = d
    BY DEF server, context
<1>4. SoundNow'
    BY <1>2, <1>3 DEF SoundNow
<1>5. TypeOK' /\ SharedDoubtful' /\ RequestsFirst'
    BY DEF IInv, TypeOK, Outside, SharedDoubtful, RequestsFirst
<1> QED
    BY <1>4, <1>5 DEF IInv

\* Nodes connect, fail, are moved and located (status.py, expose of topology.py).
LEMMA NodesKeep ==
    ASSUME IInv, NEW n \in Nodes,
           \/ NodeConnects(n) \/ NodeFails(n) \/ StaleLossDetected(n)
           \/ \E p \in Ports : Move(n, p)
    PROVE  IInv'
<1>1. TypeOK
    BY DEF IInv
<1>2. CASE NodeConnects(n)
    <2>1. Outside'
        BY <1>1, <1>2 DEF NodeConnects, TypeOK, Outside
    <2> QED
        BY <1>1, <1>2, <2>1, NetworkKeeps DEF NodeConnects, TypeOK
<1>3. CASE NodeFails(n)
    <2>1. Outside'
        BY <1>1, <1>3, CutConnections, NodePowerAssumption DEF NodeFails, TypeOK, Outside
    <2> QED
        BY <1>1, <1>3, <2>1, CutConnections, NetworkKeeps DEF NodeFails
<1>4. CASE StaleLossDetected(n)
    <2>1. Outside'
        BY <1>1, <1>4 DEF StaleLossDetected, TypeOK, Outside
    <2> QED
        BY <1>4, <2>1, NetworkKeeps DEF StaleLossDetected
<1>5. ASSUME NEW p \in Ports, Move(n, p) PROVE IInv'
    <2>1. Outside'
        BY <1>1, <1>5, CutConnections, NodePowerAssumption DEF Move, TypeOK, Outside
    <2> QED
        BY <1>1, <1>5, <2>1, CutConnections, NetworkKeeps DEF Move
<1> QED
    BY <1>2, <1>3, <1>4, <1>5

\* The location of a node only matters to the commands that are to come (topology.py).
LEMMA LocatedKeeps ==
    ASSUME IInv, NEW n \in Nodes, NodeLocated(n)
    PROVE  IInv'
<1>1. TypeOK /\ Sound(server, context)
    BY DEF IInv, SoundNow
<1>2. /\ st' = st /\ pw' = pw /\ off' = off /\ jobs' = jobs /\ rearmed' = rearmed
      /\ location' \in [Nodes -> Ports \cup {Unknown}] /\ context' = context
    BY <1>1 DEF NodeLocated, TypeOK, context, network
<1> DEFINE v == [st |-> st, pw |-> pw, off |-> off, location |-> location', jobs |-> jobs,
                 rearmed |-> rearmed]
<1>3. server' = v
    BY <1>2 DEF server
<1>4. Sound(v, context)
    <2>1. /\ v.st = server.st /\ v.pw = server.pw /\ v.off = server.off /\ v.jobs = server.jobs
          /\ v.rearmed = server.rearmed
        BY DEF server
    <2>2. v \in World
        BY <1>1, <1>2 DEF World, TypeOK
    <2> HIDE DEF v
    <2> QED
        BY <1>1, <2>1, <2>2 DEF Sound, WorldOK, SlotsUsed, Owned, OffKnown, OnPowered, rows
<1>5. SoundNow'
    BY <1>2, <1>3, <1>4 DEF SoundNow
<1>6. TypeOK' /\ SharedDoubtful' /\ RequestsFirst'
    BY <1>1, <1>2 DEF IInv, NodeLocated, TypeOK, network, SharedDoubtful, RequestsFirst
<1> QED
    BY <1>5, <1>6 DEF IInv

\* A connection is confirmed, or the last one is lost (main/nodes/status.py).
LEMMA ReportsKeep ==
    ASSUME IInv, NEW n \in Nodes, NodeConfirms(n) \/ LossDetected(n)
    PROVE  IInv'
<1>1. TypeOK /\ Sound(server, context)
    BY DEF IInv, SoundNow
<1> DEFINE event == IF NodeConfirms(n) THEN "up" ELSE "other"
           s == report(st, {n}, event)
           d == [powered |-> powered, doubtful |-> doubtful, unwatched |-> unwatched,
                 conn |-> conn', overtaken |-> overtaken']
           w == settle(server, s)
<1>2. s \in Statuses
    <2>1. event \in {"up"} \cup Causes /\ {n} \in SUBSET Nodes /\ st \in Statuses
        BY <1>1 DEF Causes, TypeOK
    <2> HIDE DEF event
    <2> QED
        BY <2>1, StatusTypes
<1>3. /\ s.processing = st.processing /\ s.booted = st.booted
      /\ \A m \in Nodes : s.pending[m] = IF m = n THEN event ELSE st.pending[m]
    BY <1>1 DEF report, TypeOK, Statuses
<1>4. Followed(server.st, context)
    BY <1>1 DEF Sound
<1>5. /\ server.st = st /\ context.conn = conn /\ context.overtaken = overtaken
      /\ d.conn = conn' /\ d.overtaken = overtaken'
      /\ d.powered = context.powered /\ d.doubtful = context.doubtful
    BY DEF server, context
<1> HIDE DEF s, d, event
<1>6. \/ /\ NodeConfirms(n) /\ event = "up" /\ conn' = [conn EXCEPT ![n] = "up"]
         /\ overtaken' = overtaken \ {n}
      \/ /\ LossDetected(n) /\ event = "other" /\ conn' = [conn EXCEPT ![n] = "none"]
         /\ overtaken' = overtaken
    BY DEF event, NodeConfirms, LossDetected
<1>7. Followed(s, d)
    <2> SUFFICES ASSUME NEW m \in Nodes
                 PROVE  /\ d.conn[m] = "up" /\ s.pending[m] = "none"
                           => m \in s.booted \cup d.overtaken
                        /\ d.conn[m] = "up" /\ s.pending[m] \in Causes => m \in d.overtaken
                        /\ m \in s.booted => d.conn[m] # "none" \/ s.pending[m] \in Causes
                        /\ s.pending[m] = "up" => d.conn[m] # "none"
        BY DEF Followed
    <2>1. CASE m = n
        BY <1>1, <1>3, <1>5, <1>6, <2>1 DEF TypeOK, Causes
    <2>2. CASE m # n
        <3>1. d.conn[m] = context.conn[m] /\ (m \in d.overtaken <=> m \in context.overtaken)
            BY <1>1, <1>5, <1>6, <2>2 DEF TypeOK
        <3> QED
            BY <1>3, <1>4, <1>5, <2>2, <3>1 DEF Followed
    <2> QED
        BY <2>1, <2>2
<1>8. Grounds(server, d) /\ (server.jobs["boot"].step # "idle" => s.processing)
    BY <1>1, <1>3, <1>5 DEF Sound, Grounds, SlotsUsed, OffKnown, OnPowered
<1>9. Sound(w, d) /\ Settled(w, server)
    <2>1. Sound(settle(server, s), d)
        BY <1>2, <1>7, <1>8, SettleSound
    <2>2. Settled(settle(server, s), server)
        BY <1>1, <1>2, SettleFrame DEF Settled, Sound
    <2> QED
        BY <2>1, <2>2
<1>10. Becomes(w) /\ UNCHANGED <<plug, powered, stale, asked, faults>>
    BY <1>6 DEF NodeConfirms, LossDetected, w, s
<1>11. Outside'
    BY <1>1, <1>6, <1>10 DEF TypeOK, Outside
<1>12. \A r \in Requests \ asked' : w.jobs[r].step = "idle"
    BY <1>9, <1>10, SlotNames DEF Settled, IInv, RequestsFirst, server
<1> HIDE DEF w
<1>13. BecomesWith(w, {}, {}) /\ {} \in SUBSET Nodes /\ {} \in SUBSET Ports
    BY <1>10 DEF Becomes
<1>14. /\ d.powered = powered' /\ d.doubtful \subseteq doubtful'
       /\ d.unwatched \subseteq unwatched \cup {}
    BY <1>10, <1>13 DEF d, BecomesWith
<1> QED
    BY <1>5, <1>9, <1>11, <1>12, <1>13, <1>14, HandlerKeeps

\* A handler that changes nothing outside the daemon
LEMMA DaemonKeeps ==
    ASSUME IInv, NEW w, Sound(w, context), Becomes(w),
           UNCHANGED <<network, asked, overtaken, faults>>,
           \A r \in Requests \ asked : w.jobs[r].step = "idle"
    PROVE  IInv'
<1>1. BecomesWith(w, {}, {}) /\ {} \in SUBSET Nodes /\ {} \in SUBSET Ports
    BY DEF Becomes
<1>2. /\ context.powered = powered' /\ context.conn = conn'
      /\ context.doubtful \subseteq doubtful' /\ context.unwatched \subseteq unwatched \cup {}
      /\ context.overtaken \subseteq overtaken'
    BY DEF context, network, BecomesWith, Becomes
<1>3. Outside'
    BY DEF IInv, TypeOK, Outside, network
<1>4. \A r \in Requests \ asked' : w.jobs[r].step = "idle"
    OBVIOUS
<1> QED
    BY <1>1, <1>2, <1>3, <1>4, HandlerKeeps

\* The planned calls of _bg_process() and _check(), and the delay of hard reboots
LEMMA TimersKeep ==
    ASSUME IInv,
           \/ \E S \in SUBSET Nodes : BgTimer(S) \/ CheckTimer(S)
           \/ \E j \in Slots : DelayEnds(j)
    PROVE  IInv'
<1>1. \A r \in Requests \ asked : server.jobs[r].step = "idle"
    BY DEF IInv, RequestsFirst, server
<1>2. /\ TypeOK /\ Sound(server, context) /\ Grounds(server, context) /\ WorldOK(server)
      /\ server \in World /\ server.st = st /\ server.pw = pw /\ server.jobs = jobs
      /\ server.location = location /\ st \in Statuses
    BY Here DEF IInv, TypeOK
<1>3. ASSUME NEW S \in SUBSET Nodes, BgTimer(S) PROVE IInv'
    <2> DEFINE w == process(server, st, S)
    <2>1. S \in SUBSET monitored(st) /\ server.jobs["boot"].step = "idle"
          /\ Followed(st, context)
        BY <1>2, <1>3 DEF BgTimer, Sound, SlotsUsed
    <2>2. Sound(w, context)
        BY <1>2, <2>1, ProcessSound
    <2>3. \A r \in Requests \ asked : w.jobs[r].step = "idle"
        <3> SUFFICES ASSUME NEW r \in Requests \ asked PROVE w.jobs[r] = server.jobs[r]
            BY <1>1
        <3>1. r \in Slots /\ r \notin Nodes /\ r # "boot"
            BY SlotNames
        <3>2. goUp(st) \subseteq Nodes
            BY DEF goUp
        <3> QED
            BY <1>2, <3>1, <3>2 DEF process, World
    <2>4. Becomes(w) /\ UNCHANGED <<network, asked, overtaken, faults>>
        BY <1>3 DEF BgTimer
    <2> HIDE DEF w
    <2> QED
        BY <2>2, <2>3, <2>4, DaemonKeeps
<1>4. ASSUME NEW S \in SUBSET Nodes, CheckTimer(S) PROVE IInv'
    <2> DEFINE w == checked(server, S)
    <2>1. server.jobs["check"].step = "idle"
        BY <1>2, <1>4, Here DEF CheckTimer
    <2>2. Sound(w, context) /\ OthersKept(w, server, "check")
        BY <1>2, <2>1, CheckedSound
    <2>3. \A r \in Requests \ asked : w.jobs[r].step = "idle"
        BY <1>1, <2>2, SlotNames DEF OthersKept
    <2>4. Becomes(w) /\ UNCHANGED <<network, asked, overtaken, faults>>
        BY <1>4 DEF CheckTimer
    <2> HIDE DEF w
    <2> QED
        BY <2>2, <2>3, <2>4, DaemonKeeps
<1>5. ASSUME NEW j \in Slots, DelayEnds(j) PROVE IInv'
    <2> DEFINE S == jobs[j].nodes
               w == power_on(server, j, S)
    <2>1. JobOK(jobs[j]) /\ jobs[j].step = "delay" /\ jobs[j].kind = "reboot"
        BY <1>2, <1>5, SlotsOf DEF DelayEnds
    <2>2. S \in SUBSET Nodes /\ \A n \in S : server.jobs[j].at[n] \in Ports
        BY <1>2, <2>1 DEF JobOK, Job
    <2>3. Becomes(w) /\ UNCHANGED <<network, asked, overtaken, faults>>
        BY <1>5 DEF DelayEnds
    <2> HIDE DEF S
    <2>4. Sound(w, context) /\ OthersKept(w, server, j)
        BY <1>2, <2>1, <2>2, PowerOnSound
    <2>5. \A r \in Requests \ asked : w.jobs[r].step = "idle"
        BY <1>1, <1>2, <2>1, <2>4 DEF OthersKept
    <2> HIDE DEF w
    <2> QED
        BY <2>3, <2>4, <2>5, DaemonKeeps
<1> QED
    BY <1>3, <1>4, <1>5

\* A workflow gets one of the answers it waits for (reboot.py, main/poe.py).
LEMMA AnsweredSound ==
    ASSUME IInv, NEW j \in Slots, NEW x \in jobs[j].todo, NEW ok \in BOOLEAN, NEW d,
           jobs[j].step \in {"soft", "off", "on"},
           doubtful \subseteq d.doubtful, d.unwatched = unwatched, d.overtaken = overtaken,
           \A n \in Nodes : /\ d.conn[n] = "up" => conn[n] = "up"
                            /\ d.conn[n] = "none" => conn[n] = "none",
           \A p \in powered : \/ p \in d.powered \cup d.doubtful
                              \/ ok /\ jobs[j].step = "off" /\ p = x,
           ok /\ jobs[j].step = "on" => x \in d.powered \cup d.doubtful
    PROVE  Sound(answered(j, x, ok), d)
<1> DEFINE v == answered(j, x, ok)
           J == [jobs[j] EXCEPT !.todo = @ \ {x}, !.ok = IF ok THEN @ \cup {x} ELSE @]
<1>1. /\ TypeOK /\ Sound(server, context) /\ WorldOK(server) /\ server \in World
      /\ JobOK(jobs[j]) /\ jobs[j].kind \in SlotKinds(j)
    BY Here DEF IInv
<1>2. /\ J \in Job /\ J.step = jobs[j].step /\ J.kind = jobs[j].kind /\ J.nodes = jobs[j].nodes
      /\ J.todo = jobs[j].todo \ {x} /\ J.ok = IF ok THEN jobs[j].ok \cup {x} ELSE jobs[j].ok
      /\ J.at = jobs[j].at /\ J.already_off = jobs[j].already_off
    BY <1>1 DEF JobOK, Job
<1> HIDE DEF J
<1>3. JobOK(J)
    BY <1>1, <1>2 DEF JobOK
<1>4. /\ v.st = st /\ v.pw = pw /\ v.off = off /\ v.location = location /\ v.rearmed = rearmed
      /\ v.jobs = [jobs EXCEPT ![j] = J] /\ v.jobs[j] = J /\ v \in World
      /\ \A i \in Slots \ {j} : v.jobs[i] = jobs[i]
    <2>1. v = [server EXCEPT !.jobs[j] = J]
        BY <1>1 DEF answered, J, server, TypeOK, Job
    <2>2. v = [server EXCEPT !.jobs = [jobs EXCEPT ![j] = J]]
        BY <2>1 DEF server
    <2>3. jobs \in [Slots -> Job] /\ [jobs EXCEPT ![j] = J] \in [Slots -> Job]
        BY <1>1, <1>2 DEF TypeOK
    <2> HIDE DEF v
    <2> QED
        BY <1>1, <2>2, <2>3 DEF server, World
<1> HIDE DEF v
<1>5. WorldOK(v)
    BY <1>1, <1>3, <1>4, <1>2 DEF WorldOK, server
<1>6. SlotsUsed(v) /\ Owned(v)
    BY <1>1, <1>2, <1>4 DEF Sound, SlotsUsed, Owned, server
<1>7. Watched(v.st, d) /\ Followed(v.st, d)
    BY <1>1, <1>4 DEF Sound, Watched, Followed, server, context
<1>8. OffKnown(v, d)
    <2> SUFFICES ASSUME NEW p \in Ports \ d.powered, p \notin rows(v), p \notin d.doubtful
                 PROVE  \E i \in Slots : v.jobs[i].step = "off" /\ p \in v.jobs[i].ok
        BY DEF OffKnown
    <2>1. CASE p \in powered
        BY <1>2, <1>4, <2>1
    <2>2. CASE p \notin powered
        <3>1. PICK i \in Slots : jobs[i].step = "off" /\ p \in jobs[i].ok
            BY <1>1, <1>4, <2>2 DEF Sound, OffKnown, rows, server, context
        <3> QED
            BY <1>2, <1>4, <3>1
    <2> QED
        BY <2>1, <2>2
<1>9. OnPowered(v, d)
    <2> SUFFICES ASSUME NEW i \in Slots, v.jobs[i].step = "on", NEW p \in v.jobs[i].ok
                 PROVE  p \in d.powered \cup d.doubtful
        BY DEF OnPowered
    <2>1. CASE p = x /\ i = j /\ ok
        BY <1>2, <1>4, <2>1
    <2>2. CASE ~(p = x /\ i = j /\ ok)
        <3>1. jobs[i].step = "on" /\ p \in jobs[i].ok
            BY <1>2, <1>4, <2>2
        <3>2. p \in powered \cup doubtful
            BY <1>1, <3>1 DEF Sound, OnPowered, server, context
        <3>3. CASE ok /\ jobs[j].step = "off" /\ p = x
            <4>1. i # j /\ p \in Ports
                BY <1>1, <3>1, <3>3 DEF JobOK
            <4>2. p \in ports_of(jobs[i]) /\ p \in ports_of(jobs[j])
                BY <3>1, <3>3, <4>1 DEF ports_of
            <4>3. p \in shared(jobs)
                BY <4>1, <4>2 DEF shared
            <4> QED
                BY <4>3 DEF IInv, SharedDoubtful
        <3> QED
            BY <3>2, <3>3
    <2> QED
        BY <2>1, <2>2
<1> QED
    BY <1>5, <1>6, <1>7, <1>8, <1>9 DEF Sound, v

\* The answers of nodes and switches, or their failures
LEMMA AnswersKeep ==
    ASSUME IInv, NEW j \in Slots,
           \/ \E n \in Nodes, ok \in BOOLEAN : SoftRebootAnswered(j, n, ok)
           \/ \E p \in Ports : CommandSucceeds(j, p)
           \/ \E p \in Ports, obeyed \in BOOLEAN : CommandFails(j, p, obeyed)
    PROVE  IInv'
<1>1. TypeOK /\ {} \in SUBSET Nodes /\ {} \in SUBSET Ports
    BY DEF IInv
<1>2. ASSUME NEW x, NEW ok \in BOOLEAN
      PROVE  x \in jobs[j].todo /\ jobs[j].step # "idle" =>
                 \A r \in Requests \ asked : answered(j, x, ok).jobs[r].step = "idle"
    <2> SUFFICES ASSUME x \in jobs[j].todo, jobs[j].step # "idle", NEW r \in Requests \ asked
                 PROVE  answered(j, x, ok).jobs[r] = jobs[r]
        BY DEF IInv, RequestsFirst
    <2>1. r # j /\ r \in Slots
        BY SlotNames DEF IInv, RequestsFirst
    <2> QED
        BY <1>1, <2>1 DEF answered, server, TypeOK
<1>3. ASSUME NEW n \in Nodes, NEW ok \in BOOLEAN, SoftRebootAnswered(j, n, ok) PROVE IInv'
    <2> DEFINE w == answered(j, n, ok)
               d == [powered |-> powered, doubtful |-> doubtful, unwatched |-> unwatched,
                     conn |-> conn', overtaken |-> overtaken]
    <2>1. /\ jobs[j].step = "soft" /\ n \in jobs[j].todo
          /\ \A m \in Nodes : /\ d.conn[m] = "up" => conn[m] = "up"
                              /\ d.conn[m] = "none" => conn[m] = "none"
        BY <1>1, <1>3, CutConnections DEF SoftRebootAnswered
    <2>2. /\ doubtful \subseteq d.doubtful /\ d.unwatched = unwatched /\ d.overtaken = overtaken
          /\ d.powered = powered /\ d.conn = conn'
        OBVIOUS
    <2>3. BecomesWith(w, {}, {}) /\ powered' = powered /\ overtaken' = overtaken
          /\ asked' = asked
        BY <1>3 DEF SoftRebootAnswered, Becomes
    <2>4. Outside'
        BY <1>1, <1>3, CutConnections DEF SoftRebootAnswered, TypeOK, Outside
    <2>5. d.doubtful \subseteq doubtful'
        BY <2>3 DEF BecomesWith
    <2> HIDE DEF d
    <2>6. Sound(answered(j, n, ok), d)
        BY <2>1, <2>2, AnsweredSound
    <2>7. \A r \in Requests \ asked' : w.jobs[r].step = "idle"
        BY <1>2, <2>1, <2>3
    <2> QED
        BY <1>1, <2>2, <2>3, <2>4, <2>5, <2>6, <2>7, HandlerKeeps
<1>4. ASSUME NEW p \in Ports, CommandSucceeds(j, p) PROVE IInv'
    <2> DEFINE w == answered(j, p, TRUE)
               d == [powered |-> powered', doubtful |-> doubtful \cup shared(w.jobs),
                     unwatched |-> unwatched, conn |-> conn', overtaken |-> overtaken]
    <2>1. /\ jobs[j].step \in {"off", "on"} /\ p \in jobs[j].todo
          /\ powered' = effect(jobs[j].step, p)
          /\ \A m \in Nodes : /\ d.conn[m] = "up" => conn[m] = "up"
                              /\ d.conn[m] = "none" => conn[m] = "none"
        BY <1>1, <1>4, CutConnections DEF CommandSucceeds
    <2>2. /\ doubtful \subseteq d.doubtful /\ d.unwatched = unwatched /\ d.overtaken = overtaken
          /\ d.powered = powered' /\ d.conn = conn'
        OBVIOUS
    <2>3. BecomesWith(w, {}, {}) /\ overtaken' = overtaken /\ asked' = asked
        BY <1>4 DEF CommandSucceeds, Becomes
    <2>4. Outside'
        BY <1>1, <1>4, CutConnections DEF CommandSucceeds, TypeOK, Outside, effect
    <2>5. d.doubtful \subseteq doubtful'
        BY <2>3 DEF BecomesWith
    <2> HIDE DEF d
    <2>6. /\ \A q \in powered : \/ q \in d.powered \cup d.doubtful
                                \/ jobs[j].step = "off" /\ q = p
          /\ jobs[j].step = "on" => p \in d.powered \cup d.doubtful
        BY <2>1, <2>2 DEF effect
    <2>7. Sound(answered(j, p, TRUE), d)
        <3>1. ASSUME NEW ok \in BOOLEAN, ok PROVE Sound(answered(j, p, ok), d)
            <4>1. /\ jobs[j].step \in {"soft", "off", "on"}
                  /\ \A q \in powered : \/ q \in d.powered \cup d.doubtful
                                        \/ ok /\ jobs[j].step = "off" /\ q = p
                  /\ ok /\ jobs[j].step = "on" => p \in d.powered \cup d.doubtful
                BY <2>1, <2>6, <3>1
            <4>2. /\ p \in jobs[j].todo
                  /\ \A n \in Nodes : /\ d.conn[n] = "up" => conn[n] = "up"
                                      /\ d.conn[n] = "none" => conn[n] = "none"
                BY <2>1
            <4> QED
                BY <2>2, <4>1, <4>2, AnsweredSound
        <3> QED
            BY <3>1
    <2>8. \A r \in Requests \ asked' : w.jobs[r].step = "idle"
        BY <1>2, <2>1, <2>3
    <2> QED
        BY <1>1, <2>2, <2>3, <2>4, <2>5, <2>7, <2>8, HandlerKeeps
<1>5. ASSUME NEW p \in Ports, NEW obeyed \in BOOLEAN, CommandFails(j, p, obeyed) PROVE IInv'
    <2> DEFINE w == answered(j, p, FALSE)
               doubts == IF obeyed THEN {p} ELSE {}
               d == [powered |-> powered', doubtful |-> doubtful \cup doubts,
                     unwatched |-> unwatched, conn |-> conn', overtaken |-> overtaken]
    <2>1. /\ jobs[j].step \in {"off", "on"} /\ p \in jobs[j].todo
          /\ powered' = IF obeyed THEN effect(jobs[j].step, p) ELSE powered
          /\ \A m \in Nodes : /\ d.conn[m] = "up" => conn[m] = "up"
                              /\ d.conn[m] = "none" => conn[m] = "none"
        BY <1>1, <1>5, CutConnections DEF CommandFails
    <2>2. /\ doubtful \subseteq d.doubtful /\ d.unwatched = unwatched /\ d.overtaken = overtaken
          /\ d.powered = powered' /\ d.conn = conn' /\ d.doubtful = doubtful \cup doubts
        OBVIOUS
    <2>3. /\ BecomesWith(w, {}, doubts) /\ overtaken' = overtaken /\ asked' = asked
          /\ doubts \in SUBSET Ports
        BY <1>5 DEF CommandFails
    <2>4. Outside'
        BY <1>1, <1>5, CutConnections, NodePowerAssumption
        DEF CommandFails, TypeOK, Outside, effect
    <2>5. d.doubtful \subseteq doubtful'
        BY <2>3 DEF BecomesWith
    <2> HIDE DEF d
    <2>6. \A q \in powered : q \in d.powered \cup d.doubtful
        BY <2>1, <2>2 DEF effect
    <2> HIDE DEF doubts
    <2>7. Sound(answered(j, p, FALSE), d)
        <3>1. ASSUME NEW ok \in BOOLEAN, ~ok PROVE Sound(answered(j, p, ok), d)
            BY <2>1, <2>2, <2>6, <3>1, AnsweredSound
        <3> QED
            BY <3>1
    <2>8. \A r \in Requests \ asked' : w.jobs[r].step = "idle"
        BY <1>2, <2>1, <2>3
    <2> QED
        BY <1>1, <2>2, <2>3, <2>4, <2>5, <2>7, <2>8, HandlerKeeps
<1> QED
    BY <1>3, <1>4, <1>5

\* A workflow has all its answers, and goes on.
LEMMA ProceedsKeeps ==
    ASSUME IInv, NEW j \in Slots, Proceeds(j)
    PROVE  IInv'
<1> DEFINE w == resumed(server, j)
           d == [powered |-> powered, doubtful |-> doubtful, unwatched |-> unwatched,
                 conn |-> conn, overtaken |-> overtaken']
<1>1. TypeOK /\ Sound(server, context) /\ server.jobs = jobs /\ {} \in SUBSET Nodes
      /\ {} \in SUBSET Ports
    BY Here DEF IInv
<1>2. /\ jobs[j].step \in {"soft", "off", "on"} /\ BecomesWith(w, {}, {})
      /\ overtaken' = overtaken \cup {n \in stopped(jobs[j]) : conn[n] = "up"}
      /\ UNCHANGED <<network, asked, faults>>
    BY DEF Proceeds, Becomes
<1>3. /\ d.powered = powered /\ d.doubtful = doubtful /\ d.unwatched = unwatched
      /\ d.conn = conn /\ d.overtaken = overtaken' /\ d.conn = conn' /\ d.powered = powered'
    BY <1>2 DEF network
<1> HIDE DEF d, w
<1>4. Sound(server, d)
    BY <1>1, <1>2, <1>3, ContextGrows DEF context
<1>5. Resumes(server, d, j)
    BY <1>1, <1>2, <1>3, <1>4 DEF Resumes
<1>6. Sound(resumed(server, j), d) /\ OthersKept(resumed(server, j), server, j)
    BY <1>1, <1>2, <1>5, ResumedSound
<1>7. \A r \in Requests \ asked' : w.jobs[r].step = "idle"
    BY <1>1, <1>2, <1>6 DEF OthersKept, IInv, RequestsFirst, w
<1>8. Outside'
    <2>1. overtaken' \in SUBSET Nodes
        <3>1. JobOK(jobs[j])
            BY Here
        <3>2. stopped(jobs[j]) \subseteq Nodes
            BY <3>1, NodesOK DEF stopped
        <3> QED
            BY <1>1, <1>2, <3>2 DEF TypeOK
    <2> QED
        BY <1>1, <1>2, <2>1 DEF TypeOK, Outside, network
<1>9. d.doubtful \subseteq doubtful' /\ d.unwatched \subseteq unwatched \cup {}
    BY <1>2, <1>3 DEF BecomesWith
<1>10. Sound(w, d)
    BY <1>6 DEF w
<1> QED
    BY <1>1, <1>2, <1>3, <1>7, <1>8, <1>9, <1>10, HandlerKeeps

\* restore_poe_on_all_ports() and the same for a rescan (main/poe.py) are well formed.
LEMMA RestorePortsOK ==
    ASSUME NEW kind \in {"restore", "rescan"}, NEW o \in SUBSET Rows
    PROVE  LET job == restore_ports(kind, {row.port : row \in o}) IN
           JobOK(job) /\ job.kind \in {"none", kind} /\ job.ok = {}
           /\ job.step \in {"idle", "on"}
<1> DEFINE ports == {row.port : row \in o}
           job == restore_ports(kind, ports)
<1>1. ports \subseteq Ports
    BY DEF Rows
<1>2. CASE ports = {}
    BY <1>2, NoJobOK DEF restore_ports
<1>3. CASE ports # {}
    <2>1. job = [NoJob EXCEPT !.kind = kind, !.step = "on", !.todo = ports]
        BY <1>3 DEF restore_ports
    <2> HIDE DEF ports, job
    <2>2. /\ job.kind = kind /\ job.step = "on" /\ job.ok = {} /\ job.todo = ports
          /\ job.nodes = {} /\ job.already_off = {}
        BY <2>1 DEF NoJob
    <2>3. job \in Job
        BY <1>1, <2>1 DEF NoJob, Nowhere, Job, Kinds
    <2>4. JobOK(job)
        BY <1>1, <2>2, <2>3 DEF JobOK, KindSteps
    <2> QED
        BY <2>2, <2>4 DEF job, ports
<1> QED
    BY <1>2, <1>3

\* A request starts a workflow in its own slot, in a world w where it has none.
LEMMA RequestStarts ==
    ASSUME IInv, NEW r \in Requests \ asked, NEW w, NEW c, Sound(w, c), w.jobs = jobs,
           NEW J, JobOK(J), J.kind \in {"none", "reboot", "wake", "rescan"}, J.ok = {}
    PROVE  /\ Sound([w EXCEPT !.jobs[r] = J], c)
           /\ \A q \in Requests \ (asked \cup {r}) : 
                  [w EXCEPT !.jobs[r] = J].jobs[q].step = "idle"
<1>1. /\ r \in Slots /\ r \notin {"boot", "check"} /\ J.kind \in SlotKinds(r)
      /\ w.jobs[r].step = "idle"
    BY SlotNames DEF IInv, RequestsFirst
<1>2. Sound([w EXCEPT !.jobs[r] = J], c) /\ OthersKept([w EXCEPT !.jobs[r] = J], w, r)
    BY <1>1, JobSet
<1> QED
    BY <1>2 DEF OthersKept, IInv, RequestsFirst

\* The request of a client, once its handler has left a sound world
LEMMA RequestKeeps ==
    ASSUME IInv, NEW r \in Requests, Asks(r), NEW w, NEW S \in SUBSET Nodes,
           Sound(w, [context EXCEPT !.unwatched = @ \cup S]), BecomesWith(w, S, {}),
           UNCHANGED <<network, overtaken, faults>>,
           \A q \in Requests \ (asked \cup {r}) : w.jobs[q].step = "idle"
    PROVE  IInv'
<1> DEFINE d == [context EXCEPT !.unwatched = @ \cup S]
<1>1. /\ d.powered = powered' /\ d.conn = conn' /\ d.doubtful \subseteq doubtful'
      /\ d.unwatched \subseteq unwatched \cup S /\ d.overtaken \subseteq overtaken'
    BY DEF context, network, BecomesWith
<1> HIDE DEF d
<1>2. Outside' /\ {} \in SUBSET Ports
    BY DEF IInv, TypeOK, Outside, network, Asks
<1>3. \A q \in Requests \ asked' : w.jobs[q].step = "idle"
    BY DEF Asks
<1>4. Sound(w, d)
    BY DEF d
<1> QED
    BY <1>1, <1>2, <1>3, <1>4, HandlerKeeps

\* reboot_nodes() for a client (main/nodes/reboot.py)
LEMMA RebootKeeps ==
    ASSUME IInv, NEW r \in Requests, NEW S \in SUBSET Nodes, NEW hard_only \in BOOLEAN,
           Reboot(r, S, hard_only)
    PROVE  IInv'
<1> DEFINE s == reset_retries(st, S)
           q == reboot_event(pw, S)
           targets == S \ offs_of(server)
           w == [server EXCEPT !.st = s, !.pw = q]
           soft == [NoJob EXCEPT !.kind = "reboot", !.step = "soft", !.nodes = S,
                                  !.todo = targets]
           job == IF hard_only \/ targets = {} THEN hard_reboot(S, w) ELSE soft
           d == [context EXCEPT !.unwatched = @ \cup S]
<1>1. /\ TypeOK /\ Sound(server, context) /\ server \in World /\ st \in Statuses
      /\ pw \in PowerStates
      /\ server.st = st /\ server.pw = pw /\ server.jobs = jobs /\ server.rearmed = rearmed
    BY Here DEF IInv, TypeOK
<1>2. w = [server EXCEPT !.st = reset_retries(@, S), !.pw = reboot_event(@, S)]
    BY <1>1 DEF World
<1>3. /\ Asks(r) /\ BecomesWith([w EXCEPT !.jobs[r] = job], S, {})
      /\ UNCHANGED <<network, overtaken, faults>>
    BY <1>2 DEF Reboot
<1>4. r \in Requests \ asked
    BY <1>3 DEF Asks
<1>5. /\ s \in Statuses /\ s.booted = st.booted /\ s.pending = st.pending
      /\ s.processing = st.processing /\ s.planned = st.planned
      /\ monitored(s) \subseteq monitored(st) \cup S
    <2>1. s \in Statuses
        BY <1>1, StatusTypes
    <2>2. /\ s.booted = st.booted /\ s.pending = st.pending /\ s.cause = st.cause
          /\ s.processing = st.processing /\ s.planned = st.planned
          /\ \A n \in Nodes \ S : s.remaining[n] = st.remaining[n]
        BY <1>1 DEF reset_retries, Statuses
    <2> HIDE DEF s
    <2> QED
        BY <2>1, <2>2 DEF monitored
<1>6. /\ q \in PowerStates /\ q.free = pw.free /\ q.timed = pw.timed \cup (S \cap pw.free)
      /\ pw.check = "running" => q.check = "running"
    <2> DEFINE T == S \cap pw.free
               u == reset_timeouts(pw, T)
    <2>1. T \in SUBSET Nodes /\ q = plan_check(u)
        BY DEF reboot_event, record_usage
    <2> HIDE DEF T, q
    <2>2. u \in PowerStates /\ u.free = pw.free /\ u.timed = pw.timed \cup T
          /\ u.check = pw.check
        BY <1>1, <2>1, PowerTypes
    <2> HIDE DEF u
    <2>3. /\ q \in PowerStates /\ q.free = u.free /\ q.timed = u.timed
          /\ u.check = "running" => q.check = "running"
        BY <2>1, <2>2, PowerTypes
    <2> QED
        BY <2>2, <2>3 DEF T
<1> HIDE DEF s, q, d
<1>7. /\ w.st = s /\ w.pw = q /\ w.off = server.off /\ w.location = server.location
      /\ w.jobs = jobs /\ w.rearmed = server.rearmed /\ w \in World
    BY <1>1, <1>5, <1>6 DEF World
<1>8. /\ d.powered = context.powered /\ d.doubtful = context.doubtful /\ d.conn = context.conn
      /\ d.overtaken = context.overtaken /\ d.unwatched = context.unwatched \cup S
    BY DEF d, context
<1> HIDE DEF w, targets
<1>9. Sound(w, d)
    <2>1. WorldOK(w) /\ SlotsUsed(w) /\ OffKnown(w, d) /\ OnPowered(w, d)
        BY <1>1, <1>5, <1>6, <1>7, <1>8 DEF Sound, WorldOK, SlotsUsed, OffKnown, OnPowered, rows
    <2>2. Owned(w)
        BY <1>1, <1>6, <1>7 DEF Sound, Owned
    <2>3. Watched(w.st, d)
        BY <1>1, <1>5, <1>7, <1>8 DEF Sound, Watched
    <2>4. Followed(w.st, d)
        BY <1>1, <1>5, <1>7, <1>8 DEF Sound, Followed
    <2> QED
        BY <2>1, <2>2, <2>3, <2>4 DEF Sound
<1>10. JobOK(job) /\ job.kind \in {"none", "reboot"} /\ job.ok = {}
    <2>1. CASE hard_only \/ targets = {}
        <3>1. job = hard_reboot(S, w) /\ WorldOK(w)
            BY <1>9, <2>1 DEF Sound
        <3> HIDE DEF job
        <3> QED
            BY <3>1, HardRebootOK
    <2>2. CASE ~(hard_only \/ targets = {})
        <3>1. job = soft
            BY <2>2
        <3>2. soft \in Job /\ soft.kind = "reboot" /\ soft.step = "soft" /\ soft.ok = {}
              /\ soft.todo = targets
            BY DEF Job, NoJob, Kinds, Nowhere, targets
        <3>3. targets \subseteq Nodes
            BY DEF targets
        <3> HIDE DEF soft, job
        <3> QED
            BY <3>1, <3>2, <3>3 DEF JobOK, KindSteps
    <2> QED
        BY <2>1, <2>2
<1> HIDE DEF job
<1> DEFINE v == [w EXCEPT !.jobs[r] = job]
<1>11. Sound(v, d) /\ \A x \in Requests \ (asked \cup {r}) : v.jobs[x].step = "idle"
    BY <1>4, <1>7, <1>9, <1>10, RequestStarts
<1> HIDE DEF v
<1>12. BecomesWith(v, S, {})
    BY <1>3 DEF v
<1> QED
    BY <1>3, <1>11, <1>12, RequestKeeps DEF d

\* A request that resets no boot retries
LEMMA PlainRequestKeeps ==
    ASSUME IInv, NEW r \in Requests, Asks(r), NEW w, Sound(w, context), Becomes(w),
           UNCHANGED <<network, overtaken, faults>>,
           \A q \in Requests \ (asked \cup {r}) : w.jobs[q].step = "idle"
    PROVE  IInv'
<1>1. context = [context EXCEPT !.unwatched = @ \cup {}]
    BY DEF context
<1>2. Sound(w, [context EXCEPT !.unwatched = @ \cup {}]) /\ {} \in SUBSET Nodes
      /\ BecomesWith(w, {}, {})
    BY <1>1 DEF Becomes
<1> QED
    BY <1>2, RequestKeeps

\* wf_wakeup_nodes() (main/nodes/powersave.py)
LEMMA WakeUpKeeps ==
    ASSUME IInv, NEW r \in Requests, NEW S \in SUBSET Nodes, WakeUp(r, S)
    PROVE  IInv'
<1> DEFINE asleep == S \cap off_macs(off, location, {"powersave"})
           used == record_usage(pw, S)
           q == IF asleep = {} THEN plan_check(used) ELSE used
           v == [server EXCEPT !.pw = q, !.rearmed = rearmed]
           J == IF asleep = {} THEN jobs[r] ELSE command("wake", "on", asleep, {}, location)
           w == [v EXCEPT !.jobs[r] = J]
<1>1. /\ TypeOK /\ Sound(server, context) /\ WorldOK(server) /\ server \in World
      /\ pw \in PowerStates
      /\ server.pw = pw /\ server.jobs = jobs /\ server.rearmed = rearmed
      /\ server.off = off /\ server.location = location /\ rearmed \in SUBSET Nodes
      /\ location \in [Nodes -> Ports \cup {Unknown}] /\ jobs \in [Slots -> Job]
    BY Here DEF IInv, TypeOK
<1>2. r \in Requests \ asked /\ r \in Slots
      /\ UNCHANGED <<network, overtaken, faults>>
      /\ Asks(r)
    BY SlotNames DEF WakeUp, Asks
<1>3. Becomes(w)
    <2>1. Becomes(IF asleep = {} THEN [server EXCEPT !.pw = plan_check(used)]
                  ELSE [server EXCEPT !.pw = used,
                            !.jobs[r] = command("wake", "on", asleep, {}, location)])
        BY DEF WakeUp
    <2>2. CASE asleep = {}
        <3>1. w = [server EXCEPT !.pw = plan_check(used)]
            BY <1>1, <1>2, <2>2 DEF server
        <3> QED
            BY <2>1, <2>2, <3>1
    <2>3. CASE asleep # {}
        <3>1. w = [server EXCEPT !.pw = used, 
                                !.jobs[r] = command("wake", "on", asleep, {}, location)]
            BY <1>1, <1>2, <2>3 DEF server
        <3> QED
            BY <2>1, <2>3, <3>1
    <2> QED
        BY <2>2, <2>3
<1>4. /\ q \in PowerStates /\ q.free = pw.free /\ q.timed = pw.timed \cup (S \cap pw.free)
      /\ pw.check = "running" => q.check = "running"
    <2>1. S \cap pw.free \in SUBSET Nodes /\ used = reset_timeouts(pw, S \cap pw.free)
        BY DEF record_usage
    <2>2. used \in PowerStates /\ used.free = pw.free
          /\ used.timed = pw.timed \cup (S \cap pw.free)
          /\ used.check = pw.check
        BY <1>1, <2>1, PowerTypes
    <2> HIDE DEF used
    <2>3. /\ plan_check(used) \in PowerStates /\ plan_check(used).free = used.free
          /\ plan_check(used).timed = used.timed
          /\ used.check = "running" => plan_check(used).check = "running"
        BY <2>2, PowerTypes
    <2> QED
        BY <2>2, <2>3
<1>5. q.timed \subseteq q.free \cup rearmed
    BY <1>1, <1>4 DEF Sound, Owned
<1> HIDE DEF q
<1>6. Sound(v, context) /\ v.jobs = jobs
    <2>1. /\ v \in World /\ v.st = server.st /\ v.pw = q /\ v.off = server.off
          /\ v.location = server.location /\ v.jobs = server.jobs /\ v.rearmed = rearmed
        BY <1>1, <1>4, <1>5 DEF World
    <2> HIDE DEF v
    <2>2. v = [st |-> server.st, pw |-> q, off |-> server.off, location |-> server.location,
               jobs |-> server.jobs, rearmed |-> rearmed]
        BY <2>1 DEF World
    <2> QED
        BY <1>1, <1>4, <1>5, <2>2, PowerSet
<1>7. JobOK(J) /\ J.kind \in {"none", "wake"} /\ J.ok = {}
    <2>1. CASE asleep = {}
        <3>1. jobs[r] = NoJob
            BY <1>2, Here DEF IInv, RequestsFirst, JobOK
        <3> QED
            BY <2>1, <3>1, NoJobOK
    <2>2. CASE asleep # {}
        <3>1. J = command("wake", "on", asleep, {}, location)
            BY <2>2
        <3>2. \A n \in off_macs(server.off, server.location, {"powersave"}) :
                  n \in Nodes /\ server.location[n] \in Ports
            BY <1>1, OffsLocated
        <3>3. asleep \in SUBSET Nodes /\ {} \in SUBSET Nodes
              /\ \A n \in asleep \cup {} : location[n] \in Ports
            BY <1>1, <3>2
        <3>4. "wake" \in Kinds \ {"none"} /\ "on" \in {"off", "on"} /\ "on" \in KindSteps("wake")
            BY DEF Kinds, KindSteps
        <3> HIDE DEF asleep, J
        <3>5. JobOK(J) /\ J.kind = "wake" /\ J.ok = {}
            BY <1>1, <3>1, <3>3, <3>4, CommandOK
        <3> QED
            BY <3>5
    <2> QED
        BY <2>1, <2>2
<1> HIDE DEF J, v
<1>8. Sound(w, context) /\ \A x \in Requests \ (asked \cup {r}) : w.jobs[x].step = "idle"
    BY <1>2, <1>6, <1>7, RequestStarts
<1> HIDE DEF w
<1> QED
    BY <1>2, <1>3, <1>8, PlainRequestKeeps

\* set_image() (main/nodes/manager.py): a node that is taken has no timeout left.
LEMMA SetImageKeeps ==
    ASSUME IInv, NEW r \in Requests, NEW n \in Nodes, NEW is_default_image \in BOOLEAN,
           SetImage(r, n, is_default_image)
    PROVE  IInv'
<1> DEFINE q == set_image_event(pw, n, is_default_image)
           w == [server EXCEPT !.pw = q, !.rearmed = rearmed \ {n}]
<1>1. /\ TypeOK /\ Sound(server, context) /\ server \in World /\ pw \in PowerStates
      /\ server.pw = pw /\ server.jobs = jobs /\ server.rearmed = rearmed
      /\ rearmed \in SUBSET Nodes
      /\ pw.timed \subseteq pw.free \cup rearmed
    BY Here DEF IInv, TypeOK, Sound, Owned
<1>2. w = [server EXCEPT !.pw = set_image_event(@, n, is_default_image), !.rearmed = @ \ {n}]
    BY <1>1 DEF server
<1>3. Becomes(w) /\ Asks(r) /\ UNCHANGED <<network, overtaken, faults>>
    BY <1>2 DEF SetImage
<1>4. /\ q \in PowerStates /\ q.timed \subseteq q.free \cup (rearmed \ {n})
      /\ pw.check = "running" => q.check = "running"
    <2>1. CASE is_default_image
        <3> DEFINE taken == [pw EXCEPT !.free = @ \cup {n}]
                   u == reset_timeouts(taken, {n})
        <3>1. q = plan_check(u)
            BY <2>1 DEF set_image_event
        <3>2. /\ taken \in PowerStates /\ taken.free = pw.free \cup {n} /\ taken.timed = pw.timed
              /\ taken.check = pw.check /\ {n} \in SUBSET Nodes
            BY <1>1 DEF PowerStates
        <3> HIDE DEF taken, q
        <3>3. u \in PowerStates /\ u.free = taken.free /\ u.timed = taken.timed \cup {n}
              /\ u.check = taken.check
            BY <3>2, PowerTypes
        <3> HIDE DEF u
        <3>4. /\ q \in PowerStates /\ q.free = u.free /\ q.timed = u.timed
              /\ u.check = "running" => q.check = "running"
            BY <3>1, <3>3, PowerTypes
        <3> QED
            BY <1>1, <3>2, <3>3, <3>4
    <2>2. CASE ~is_default_image
        <3>1. q = [pw EXCEPT !.free = @ \ {n}, !.timed = @ \ {n}]
            BY <2>2 DEF set_image_event
        <3> HIDE DEF q
        <3> QED
            BY <1>1, <3>1 DEF PowerStates
    <2> QED
        BY <2>1, <2>2
<1>5. rearmed \ {n} \in SUBSET Nodes
    BY <1>1
<1> HIDE DEF q
<1>6. Sound(w, context) /\ w.jobs = jobs
    <2>1. /\ w \in World /\ w.st = server.st /\ w.pw = q /\ w.off = server.off
          /\ w.location = server.location /\ w.jobs = server.jobs /\ w.rearmed = rearmed \ {n}
        BY <1>1, <1>4, <1>5 DEF World
    <2> HIDE DEF w
    <2>2. w = [st |-> server.st, pw |-> q, off |-> server.off, location |-> server.location,
               jobs |-> server.jobs, rearmed |-> rearmed \ {n}]
        BY <2>1 DEF World
    <2> QED
        BY <1>1, <1>4, <1>5, <2>2, PowerSet
<1>7. \A x \in Requests \ (asked \cup {r}) : w.jobs[x].step = "idle"
    BY <1>6 DEF IInv, RequestsFirst
<1> HIDE DEF w
<1> QED
    BY <1>3, <1>6, <1>7, PlainRequestKeeps

\* device_rescan() (main/network, main/poe.py)
LEMMA RescanKeeps ==
    ASSUME IInv, NEW r \in Requests, Rescan(r)
    PROVE  IInv'
<1> DEFINE J == restore_ports("rescan", {row.port : row \in off})
           w == [server EXCEPT !.jobs[r] = J]
<1>1. Sound(server, context) /\ server.jobs = jobs /\ off \in SUBSET Rows
    BY Here DEF IInv, TypeOK
<1>2. /\ r \in Requests \ asked /\ Asks(r) /\ Becomes(w)
      /\ UNCHANGED <<network, overtaken, faults>>
    BY DEF Rescan, Asks
<1>3. JobOK(J) /\ J.kind \in {"none", "rescan"} /\ J.ok = {}
    BY <1>1, RestorePortsOK
<1> HIDE DEF J
<1>4. Sound(w, context) /\ \A x \in Requests \ (asked \cup {r}) : w.jobs[x].step = "idle"
    BY <1>1, <1>2, <1>3, RequestStarts
<1> HIDE DEF w
<1> QED
    BY <1>2, <1>4, PlainRequestKeeps

\* What a daemon that starts finds: the tables of the database, and no workflow.
LEMMA RestoredTypes ==
    ASSUME NEW free \in SUBSET Nodes
    PROVE  /\ restored \in Statuses /\ restored.booted = {} /\ restored.pending = NoEvent
           /\ monitored(restored) # {} => restored.planned
           /\ restored_power(free) \in PowerStates
           /\ restored_power(free).free = free /\ restored_power(free).timed = free
<1>1. restored \in Statuses
    BY RetriesAssumption DEF restored, Statuses, NoEvent, Causes
<1>2. /\ restored.booted = {} /\ restored.pending = NoEvent
      /\ monitored(restored) # {} => restored.planned
    BY DEF restored, monitored
<1>3. [free |-> free, timed |-> free, check |-> "none"] \in PowerStates
    BY DEF PowerStates
<1> DEFINE p == [free |-> free, timed |-> free, check |-> "none"]
<1>4. p \in PowerStates /\ p.free = free /\ p.timed = free
      /\ restored_power(free) = plan_check(p)
    BY <1>3 DEF restored_power
<1> HIDE DEF p
<1>5. /\ plan_check(p) \in PowerStates /\ plan_check(p).free = p.free
      /\ plan_check(p).timed = p.timed
    BY <1>4, PowerTypes
<1> QED
    BY <1>1, <1>2, <1>4, <1>5

\* The daemon is killed and starts again, while commands to switches are under way
\* (main/server.py, restore_poe_on_all_ports() in main/poe.py).
LEMMA RestartKeeps ==
    ASSUME IInv, NEW obeyed \in SUBSET Ports, Restart(obeyed)
    PROVE  IInv'
<1> DEFINE launched(step) == UNION {jobs[j].todo : j \in {i \in Slots : jobs[i].step = step}}
           turned_off == obeyed \cap launched("off")
           unrecorded == UNION {jobs[j].ok : j \in {i \in Slots : jobs[i].step = "off"}}
           known == turned_off \cup unrecorded
           J == restore_ports("restore", {row.port : row \in off})
           js == [j \in Slots |-> IF j # "restore" THEN NoJob ELSE J]
           q == restored_power(pw.free)
           w == [server EXCEPT !.st = restored, !.pw = q, !.rearmed = {}, !.jobs = js]
           d == [powered |-> powered', doubtful |-> doubtful \cup known, unwatched |-> unwatched,
                 conn |-> conn', overtaken |-> overtaken]
<1>1. /\ TypeOK /\ Sound(server, context) /\ server \in World
      /\ server.off = off /\ server.jobs = jobs /\ off \in SUBSET Rows /\ pw \in PowerStates
      /\ {} \in SUBSET Nodes
    BY Here DEF IInv, TypeOK
<1>2. /\ powered' = (powered \ (obeyed \cap launched("off"))) \cup (obeyed \cap launched("on"))
      /\ conn' = [n \in Nodes |-> "none"] /\ stale' = {} /\ faults' = faults + 1
      /\ faults < MaxFaults
      /\ BecomesWith(w, {}, known) /\ UNCHANGED <<plug, asked, overtaken>>
      /\ obeyed \subseteq launched("off") \cup launched("on")
    BY DEF Restart
<1>3. /\ restored \in Statuses /\ restored.booted = {} /\ restored.pending = NoEvent
      /\ monitored(restored) # {} => restored.planned
      /\ q \in PowerStates /\ q.timed = q.free
    <2>1. pw.free \in SUBSET Nodes
        BY <1>1 DEF PowerStates
    <2> QED
        BY <2>1, RestoredTypes
<1>4. JobOK(J) /\ J.kind \in {"none", "restore"} /\ J.ok = {} /\ J.step \in {"idle", "on"}
    BY <1>1, RestorePortsOK
<1> HIDE DEF q, J
<1>5. \A j \in Slots : /\ JobOK(js[j]) /\ js[j].kind \in SlotKinds(j) /\ js[j].ok = {}
                       /\ js[j].step = "idle" \/ j = "restore"
    <2> SUFFICES ASSUME NEW j \in Slots
                 PROVE  /\ JobOK(js[j]) /\ js[j].kind \in SlotKinds(j) /\ js[j].ok = {}
                        /\ js[j].step = "idle" \/ j = "restore"
        OBVIOUS
    <2>1. CASE j = "restore"
        BY <1>4, <2>1, SlotNames
    <2>2. CASE j # "restore"
        <3>1. js[j] = NoJob
            BY <2>2
        <3>2. "none" \in SlotKinds(j)
            BY SlotNames DEF Slots
        <3> QED
            BY <3>1, <3>2, NoJobOK
    <2> QED
        BY <2>1, <2>2
<1>6. js \in [Slots -> Job]
    BY <1>5 DEF JobOK
<1> HIDE DEF js
<1>7. /\ w \in World /\ w.st = restored /\ w.pw = q /\ w.rearmed = {} /\ w.jobs = js
      /\ w.off = server.off
    BY <1>1, <1>3, <1>6 DEF World
<1>8. known \in SUBSET Ports
    <2>1. \A j \in Slots : JobOK(jobs[j])
        BY Here
    <2>2. \A j \in Slots : jobs[j].step = "off" => jobs[j].ok \subseteq Ports
        BY <2>1 DEF JobOK
    <2> QED
        BY <2>2
<1>9. /\ d.powered = powered' /\ d.doubtful = doubtful \cup known /\ d.unwatched = unwatched
      /\ d.conn = conn' /\ d.overtaken = overtaken
    OBVIOUS
<1> HIDE DEF w, d
<1>10. \A p \in powered \ powered' : p \in known
    <2> SUFFICES ASSUME NEW p \in powered \ powered' PROVE p \in known
        OBVIOUS
    <2>1. p \in turned_off
        BY <1>2
    <2> QED
        BY <2>1
<1>11. OffKnown(w, d)
    <2> SUFFICES ASSUME NEW p \in Ports \ powered', p \notin rows(server)
                 PROVE  p \in doubtful \cup known
        BY <1>7, <1>9 DEF OffKnown, rows
    <2>1. CASE p \in powered
        BY <1>10, <2>1
    <2>2. CASE p \notin powered
        <3>1. p \in doubtful \/ \E j \in Slots : jobs[j].step = "off" /\ p \in jobs[j].ok
            BY <1>1, <2>2 DEF Sound, OffKnown, context
        <3>2. ASSUME NEW j \in Slots, jobs[j].step = "off", p \in jobs[j].ok PROVE p \in known
            BY <3>2
        <3> QED
            BY <3>1, <3>2
    <2> QED
        BY <2>1, <2>2
<1>12. Sound(w, d)
    <2>1. WorldOK(w)
        BY <1>5, <1>7 DEF WorldOK
    <2>2. SlotsUsed(w)
        BY <1>5, <1>7, SlotNames DEF SlotsUsed
    <2>3. Owned(w) /\ OnPowered(w, d)
        BY <1>3, <1>5, <1>7 DEF Owned, OnPowered
    <2>4. Watched(w.st, d)
        BY <1>3, <1>7 DEF Watched
    <2>5. Followed(w.st, d)
        BY <1>2, <1>3, <1>7, <1>9 DEF Followed, NoEvent, Causes
    <2> QED
        BY <1>11, <2>1, <2>2, <2>3, <2>4, <2>5 DEF Sound
<1>13. Outside'
    <2>1. powered' \in SUBSET Ports
        BY <1>1, <1>2 DEF TypeOK
    <2> QED
        BY <1>1, <1>2, <2>1, NodePowerAssumption DEF TypeOK, Outside
<1>14. \A r \in Requests \ asked' : w.jobs[r].step = "idle"
    BY <1>5, <1>7, SlotNames
<1>15. d.doubtful \subseteq doubtful' /\ d.unwatched \subseteq unwatched \cup {}
       /\ d.overtaken \subseteq overtaken'
    BY <1>2, <1>9 DEF BecomesWith
<1> HIDE DEF known
<1> QED
    BY <1>1, <1>2, <1>8, <1>9, <1>12, <1>13, <1>14, <1>15, HandlerKeeps

-----------------------------------------------------------------------------
\* The first start of the daemon
LEMMA InitIInv == Init => IInv
<1> SUFFICES ASSUME Init PROVE IInv
    OBVIOUS
<1>1. /\ restored \in Statuses /\ restored.booted = {} /\ restored.pending = NoEvent
      /\ monitored(restored) # {} => restored.planned
      /\ restored_power(Nodes) \in PowerStates
      /\ restored_power(Nodes).timed = restored_power(Nodes).free
    BY RestoredTypes
<1>2. TypeOK
    <2>1. jobs \in [Slots -> Job]
        BY NoJobOK DEF Init, JobOK
    <2>2. InitialPlug \in [Nodes -> Ports \cup {Unknown}] /\ 0 \in 0..MaxFaults
        BY NodePowerAssumption
    <2> QED
        BY <1>1, <2>1, <2>2, NodePowerAssumption DEF Init, TypeOK
<1>3. \A j \in Slots : jobs[j] = NoJob
    BY DEF Init
<1>4. \A j \in Slots : JobOK(jobs[j]) /\ jobs[j].kind \in SlotKinds(j)
      /\ jobs[j].step = "idle" /\ jobs[j].ok = {}
    <2>1. \A j \in Slots : "none" \in SlotKinds(j)
        BY SlotNames DEF Slots
    <2> QED
        BY <1>3, <2>1, NoJobOK
<1>5. SoundNow
    <2>1. /\ server.st = restored /\ server.pw = restored_power(Nodes) /\ server.jobs = jobs
          /\ server.rearmed = {} /\ context.powered = Ports
          /\ context.conn = [n \in Nodes |-> "none"]
        BY DEF Init, server, context
    <2>2. server \in World
        BY <1>2 DEF TypeOK, World, server
    <2>3. WorldOK(server) /\ SlotsUsed(server)
        BY <1>4, <2>1, <2>2, SlotNames DEF WorldOK, SlotsUsed
    <2>4. Owned(server) /\ OffKnown(server, context) /\ OnPowered(server, context)
        BY <1>1, <1>4, <2>1 DEF Owned, OffKnown, OnPowered
    <2>5. Watched(server.st, context)
        BY <1>1, <2>1 DEF Watched
    <2>6. Followed(server.st, context)
        BY <1>1, <2>1 DEF Followed, NoEvent, Causes
    <2> QED
        BY <2>3, <2>4, <2>5, <2>6 DEF Sound, SoundNow
<1>6. SharedDoubtful
    <2>1. \A j \in Slots : ports_of(jobs[j]) = {}
        BY <1>3 DEF ports_of, NoJob
    <2> QED
        BY <2>1 DEF SharedDoubtful, shared
<1>7. RequestsFirst
    BY <1>4, SlotNames DEF RequestsFirst
<1> QED
    BY <1>2, <1>5, <1>6, <1>7 DEF IInv

\* Each step of the system
LEMMA NextIInv == IInv /\ [Next]_vars => IInv'
<1> SUFFICES ASSUME IInv, [Next]_vars PROVE IInv'
    OBVIOUS
<1>1. CASE NodeStep
    BY <1>1, NodesKeep, LocatedKeeps, ReportsKeep DEF NodeStep
<1>2. CASE TimerStep
    BY <1>2, TimersKeep DEF TimerStep
<1>3. CASE AnswerStep
    BY <1>3, AnswersKeep, ProceedsKeeps DEF AnswerStep
<1>4. CASE RequestStep
    BY <1>4, RebootKeeps, WakeUpKeeps, SetImageKeeps, RescanKeeps DEF RequestStep
<1>5. ASSUME NEW obeyed \in SUBSET Ports, Restart(obeyed) PROVE IInv'
    BY <1>5, RestartKeeps
<1>6. CASE UNCHANGED vars
    <2>1. Outside' /\ SharedDoubtful' /\ TypeOK'
        BY <1>6 DEF IInv, TypeOK, Outside, SharedDoubtful, vars
    <2> QED
        BY <1>6, <2>1, NetworkKeeps DEF vars
<1> QED
    BY <1>1, <1>2, <1>3, <1>4, <1>5, <1>6 DEF Next

\* What the invariant says of the ports, the boots, the owners and the connections
LEMMA InvariantImplies ==
    IInv => TypeOK /\ OwnedNotTimed /\ MonitorPlanned /\ StatusFollowsConnections
    /\ PortsOffKnown
<1> SUFFICES ASSUME IInv
             PROVE  TypeOK /\ OwnedNotTimed /\ MonitorPlanned /\ StatusFollowsConnections
                    /\ PortsOffKnown
    OBVIOUS
<1>1. /\ TypeOK /\ Owned(server) /\ Watched(st, context) /\ Followed(st, context)
      /\ OffKnown(server, context)
    BY DEF IInv, SoundNow, Sound, server
<1>2. OwnedNotTimed
    BY <1>1 DEF Owned, OwnedNotTimed, server
<1>3. MonitorPlanned
    BY <1>1 DEF Watched, MonitorPlanned, context
<1>4. StatusFollowsConnections
    BY <1>1 DEF Followed, StatusFollowsConnections, context
<1>5. PortsOffKnown
    BY <1>1 DEF OffKnown, PortsOffKnown, server, context, rows
<1> QED
    BY <1>1, <1>2, <1>3, <1>4, <1>5

\* The invariant holds in every state.
LEMMA Invariance == Spec => []IInv
BY InitIInv, NextIInv, PTL DEF Spec

\* All tables, workflows and commands keep their types, for any number of nodes, ports and
\* requests (status.py, powersave.py, reboot.py and poe.py of the main process).
THEOREM TypeCorrect == Spec => []TypeOK
BY Invariance, InvariantImplies, PTL

\* Only free nodes, or nodes re-armed by one of the paths told by rearmed, may be turned
\* off after two hours (main/nodes/powersave.py).
THEOREM UsersKeepPower == Spec => []OwnedNotTimed
BY Invariance, InvariantImplies, PTL

\* As long as the boot of a node is awaited, its boot timeout will be looked at
\* (_plan_bg_process() in main/nodes/status.py).
THEOREM BootsMonitored == Spec => []MonitorPlanned
BY Invariance, InvariantImplies, PTL

\* The boot status of nodes follows their connections, but for those known to be stopped
\* after they are up again (main/nodes/status.py).
THEOREM StatusFollows == Spec => []StatusFollowsConnections
BY Invariance, InvariantImplies, PTL

\* A port without power is recorded, or the workflow that turned it off is still to record
\* it (main/poe.py), whatever the order of the answers and of the workflows. The theorem
\* leaves out the ports in doubt, where the code does not ensure it: turned off and not
\* recorded when the daemon was killed, obeyed and reported as failed, or of two workflows.
THEOREM PortsRecorded == Spec => []PortsOffKnown
BY Invariance, InvariantImplies, PTL
=============================================================================
