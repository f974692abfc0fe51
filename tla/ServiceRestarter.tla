-------------------------- MODULE ServiceRestarter --------------------------
(***************************************************************************)
(* The restarter of the DHCP and DNS services (main/network/service.py),   *)
(* together with the update() of the service that owns it                  *)
(* (main/network/dhcpd.py, main/network/named.py) and the part of systemd  *)
(* that the restart command talks to.                                      *)
(*                                                                         *)
(* A configuration is its version: two versions of the file never have the *)
(* same content, except that an update() may find the file up to date.     *)
(***************************************************************************)
EXTENDS Naturals

CONSTANTS
    Callers,       \* workflows that wait for an update (dhcpd.wf_update, named.wf_update)
    MaxVersion,    \* bound on the number of configuration changes
    MaxFailures    \* bound on the number of restart commands that fail

ASSUME ServiceRestarterAssumption ==
    /\ MaxVersion \in Nat
    /\ MaxFailures \in Nat

VARIABLES
    config_version,   \* version of the configuration file
    service_version,  \* version the service is believed to run
    restarting,       \* a restart loop is active
    callbacks,        \* {<<version, caller>>}: the dictionary of callbacks
    command,          \* next_service_version of the command in flight, or NoCommand
    sent,             \* the command in flight has put its job in systemd's queue
    planned,          \* number of planned calls of restart_service_loop
    job,              \* systemd has a restart job in its queue
    loaded,           \* version of the file the service has read
    waiting,          \* callers whose callback was not called yet
    failures,         \* number of restart commands that failed
    lastFailed,       \* the last restart command failed
    started           \* the daemon did its update(force=True) of startup

restarterVars == <<config_version, service_version, restarting, callbacks, command,
                   sent, planned, job, loaded, waiting, failures, lastFailed, started>>

NoCommand == 0   \* a command always carries a version the service does not run: >= 1

RestarterTypeOK ==
    /\ config_version \in Nat
    /\ service_version \in Nat
    /\ restarting \in BOOLEAN
    /\ callbacks \in SUBSET (Nat \X Callers)
    /\ command \in Nat
    /\ sent \in BOOLEAN
    /\ planned \in Nat
    /\ job \in BOOLEAN
    /\ loaded \in Nat
    /\ waiting \in SUBSET Callers
    /\ failures \in Nat
    /\ lastFailed \in BOOLEAN
    /\ started \in BOOLEAN

\* The daemon starts: the versions count from 0 whatever the service runs. When
\* the service is stopped, or still runs an older file because the previous
\* daemon was killed between its write and its restart, loaded is Unknown.
Unknown == MaxVersion + 1

RestarterInit ==
    /\ config_version = 0
    /\ service_version = 0
    /\ restarting = FALSE
    /\ callbacks = {}
    /\ command = NoCommand
    /\ sent = FALSE
    /\ planned = 0
    /\ job = FALSE
    /\ loaded \in {0, Unknown}
    /\ waiting = {}
    /\ failures = 0
    /\ lastFailed = FALSE
    /\ started = FALSE

-----------------------------------------------------------------------------
uptodate == config_version = service_version

\* restart_service_loop(), run on the versions cv and sv
restart_service_loop(cv, sv) ==
    IF cv = sv
    THEN /\ restarting' = FALSE
         /\ command' = NoCommand
    ELSE /\ restarting' = TRUE
         /\ command' = cv            \* ev_loop.do(restart_cmd, callback)

\* Variant with a bug, for the mutation runs: the flag is not tested.
restart_Unguarded(cv, sv, cbs) ==
    /\ callbacks' = callbacks \cup {<<cv, c>> : c \in cbs}
    /\ restart_service_loop(cv, sv)

\* restart(cb) with the versions cv and sv, cbs being the callbacks to add
restart(cv, sv, cbs) ==
    /\ callbacks' = callbacks \cup {<<cv, c>> : c \in cbs}
    /\ IF restarting
       THEN UNCHANGED <<restarting, command>>
       ELSE restart_service_loop(cv, sv)

\* update(force, cb): "changed" tells whether the generated configuration
\* differs from the file.
update(changed, force, cbs) ==
    LET cv == IF changed THEN config_version + 1 ELSE config_version IN
    /\ changed => config_version < MaxVersion
    /\ config_version' = cv
    /\ IF cv # service_version \/ force
       THEN /\ restart(cv, service_version, cbs)
            /\ waiting' = waiting \cup cbs
       ELSE UNCHANGED <<restarting, callbacks, command, waiting>>  \* cb() at once
    /\ UNCHANGED <<service_version, sent, planned, job, loaded, failures, lastFailed>>

\* Server.prepare(): self.dhcpd.update(force=True)
StartupUpdate ==
    /\ ~started
    /\ started' = TRUE
    /\ \E changed \in BOOLEAN : update(changed, TRUE, {})

\* an update with no callback: add_or_update_device(), rename_device(), ...
Update ==
    /\ started
    /\ \E changed \in BOOLEAN : update(changed, FALSE, {})
    /\ UNCHANGED started

\* wf_update(): the workflow goes on when its callback is called
WfUpdate(c) ==
    /\ started
    /\ c \notin waiting
    /\ \E changed \in BOOLEAN : update(changed, FALSE, {c})
    /\ UNCHANGED started

\* The busctl command puts a restart job in systemd's queue.
BusctlQueuesJob ==
    /\ command # NoCommand
    /\ ~sent
    /\ sent' = TRUE
    /\ job' = TRUE
    /\ UNCHANGED <<config_version, service_version, restarting, callbacks, command,
                   planned, loaded, waiting, failures, lastFailed, started>>

\* Variants with a bug: the range stops one version early, the version is read
\* when the command ends, the next call of the loop is forgotten.
called_OffByOne == {e \in callbacks : service_version < e[1] /\ e[1] < command}
served_ReadLate == config_version
replan_Forgotten == planned

\* callback(retcode), called when the restart command ends. The return code is
\* not looked at: a command that failed before it queued its job counts too.
called == {e \in callbacks : service_version < e[1] /\ e[1] <= command}

\* the version that the service runs once the command has ended, and the number
\* of planned calls of the loop
served == command
replan == planned + 1

CommandEnds ==
    /\ command # NoCommand
    /\ sent \/ failures < MaxFailures
    /\ failures' = IF sent THEN failures ELSE failures + 1
    /\ lastFailed' = ~sent
    /\ sent' = FALSE
    /\ service_version' = served
    /\ planned' = replan
    /\ callbacks' = callbacks \ called
    /\ waiting' = waiting \ {e[2] : e \in called}
    /\ command' = NoCommand
    /\ UNCHANGED <<config_version, restarting, job, loaded, started>>

\* the planned event, MIN_DELAY_BETWEEN_SERVICE_RESTARTS later
PlannedLoop ==
    /\ planned > 0
    /\ planned' = planned - 1
    /\ restart_service_loop(config_version, service_version)
    /\ UNCHANGED <<config_version, service_version, callbacks, sent, job, loaded,
                   waiting, failures, lastFailed, started>>

\* systemd restarts (or reloads) the service, which reads the file
SystemdJob ==
    /\ job
    /\ job' = FALSE
    /\ loaded' = config_version
    /\ UNCHANGED <<config_version, service_version, restarting, callbacks,
                   command, sent, planned, waiting, failures, lastFailed, started>>

RestarterNext ==
    \/ StartupUpdate
    \/ Update
    \/ \E c \in Callers : WfUpdate(c)
    \/ BusctlQueuesJob
    \/ CommandEnds
    \/ PlannedLoop
    \/ SystemdJob

\* A command ends, a planned event fires, systemd runs its queue: the
\* event loop and the kernel see to it. Nobody has to call update().
RestarterFairness ==
    /\ WF_restarterVars(BusctlQueuesJob)
    /\ WF_restarterVars(CommandEnds)
    /\ WF_restarterVars(PlannedLoop)
    /\ WF_restarterVars(SystemdJob)
    /\ WF_restarterVars(StartupUpdate)

RestarterSpec == RestarterInit /\ [][RestarterNext]_restarterVars
RestarterFairSpec == RestarterSpec /\ RestarterFairness

-----------------------------------------------------------------------------
(***************************************************************************)
(* Properties                                                              *)
(***************************************************************************)

\* "only one restart command is running at a time" (service.py:10): the
\* "restarting" flag is up exactly when one command is in flight or one call
\* of the loop is planned, and there is never a second one.
OneRestartLoop ==
    /\ planned + (IF command = NoCommand THEN 0 ELSE 1) = (IF restarting THEN 1 ELSE 0)

\* A workflow that waits has its callback recorded under a version that the
\* service does not run yet, and the loop that will call it is active: no
\* callback is left behind by the range() of service.py:78.
NoLostCallback ==
    \A c \in waiting :
        /\ restarting
        /\ \E v \in (service_version + 1) .. config_version : <<v, c>> \in callbacks

\* A workflow that waits for an update is eventually resumed (service.py:77-80).
CallersResumed == \A c \in Callers : (c \in waiting) ~> (c \notin waiting)

\* Once the configuration stops changing, the service ends up running the last
\* file, unless the last restart command failed: the return code is ignored
\* (service.py:67) and nothing retries.
LastVersionServed ==
    \A v \in 1 .. MaxVersion :
        <>[](config_version = v) => <>[](loaded = v \/ lastFailed)
=============================================================================
