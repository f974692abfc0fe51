-------------------------- MODULE NodeRegistration --------------------------
(***************************************************************************)
(* Registration of the nodes (main/server.py, main/devices/manager.py,     *)
(* main/nodes/register.py). A device is recorded when it gets an address.  *)
(* When it says that it is a node, it is registered by a workflow: its     *)
(* default image is downloaded first if it is missing, by the blocking     *)
(* process, and until then the device is recorded as "unknown". Users may  *)
(* forget a device at any time, and the daemon may be restarted.           *)
(*                                                                         *)
(* The nodes have the same model, thus the same default image. The image   *)
(* mounts and the DHCP and DNS services are the subjects of ImageMounts    *)
(* and ServiceRestarter: here an update of the mounts ends at some time,   *)
(* and the configuration of DHCP and DNS is what it was made from.         *)
(***************************************************************************)
EXTENDS Naturals, Sequences

CONSTANTS
    Macs,
    MaxForgets      \* bound on the "walt device forget" in progress for a device

ASSUME NodeRegistrationAssumption == MaxForgets \in Nat

VARIABLES
    db,             \* type of each device in the database
    image,          \* the default image is in the store
    registering,    \* currently_registering_macs
    step,           \* what the registration workflow of each device waits for
    pulls,          \* downloads requested, the first one is in progress
    stored,         \* the download in progress has reached the store
    forgetting,     \* workflows of "forget" that wait for the PoE switch
    status,         \* rows of each device in the table of NodeBootupStatusManager
    exports,        \* nodes whose persistent directory is exported
    conf,           \* types of the devices when DHCP and DNS were last configured
    failed,         \* an exception left the event loop
    missed          \* history: devices forgotten during their registration, or recorded
                    \* as nodes during a download that then failed

Types == {"absent", "unknown", "switch", "node"}

vars == <<db, image, registering, step, pulls, stored, forgetting, status, exports, conf, failed,
          missed>>

\* Each device has its row at most once in the table of the boot status, whatever the
\* order of the registrations, of the downloads and of the forgotten devices:
\* register_node() appends a row without looking for one (main/nodes/status.py).
TypeOK ==
    /\ db \in [Macs -> Types]
    /\ image \in BOOLEAN
    /\ registering \in SUBSET Macs
    /\ step \in [Macs -> {"none", "pull", "mounts"}]
    /\ pulls \in Seq(Macs) /\ stored \in BOOLEAN
    /\ forgetting \in [Macs -> 0..MaxForgets]
    /\ status \in [Macs -> {0, 1}]
    /\ exports \in SUBSET Macs
    /\ conf \in [Macs -> Types]
    /\ failed \in BOOLEAN
    /\ missed \in SUBSET Macs

nodes(types) == {m \in Macs : types[m] = "node"}

Init ==
    /\ db = [m \in Macs |-> "absent"]
    /\ image = FALSE
    /\ registering = {}
    /\ step = [m \in Macs |-> "none"]
    /\ pulls = <<>> /\ stored = FALSE
    /\ forgetting = [m \in Macs |-> 0]
    /\ status = [m \in Macs |-> 0]
    /\ exports = {}
    /\ conf = [m \in Macs |-> "absent"]
    /\ failed = FALSE
    /\ missed = {}

-----------------------------------------------------------------------------
\* Devices.add_or_update() of a device of the given type
recorded(m, type) ==
    IF db[m] = "absent" \/ (db[m] = "unknown" /\ type # "unknown")
    THEN [db EXCEPT ![m] = type] ELSE db

\* The steps of the workflow from the boot status to the image mounts, once the
\* device is recorded as types[m]
enters_mounts(m, types) ==
    /\ status' = [status EXCEPT ![m] = @ + 1]
    /\ exports' = nodes(types)
    /\ step' = [step EXCEPT ![m] = "mounts"]

\* No registration of the device is in progress.
Registrable(m) == m \notin registering

\* A node gets an address and is not known as a node yet. Its type depends on the
\* image. A registration in progress updates DHCP and DNS when it ends.
NodeDetected(m) ==
    /\ ~failed /\ db[m] \in {"absent", "unknown"}
    /\ db' = recorded(m, IF image THEN "node" ELSE "unknown")
    /\ IF Registrable(m)
       THEN /\ registering' = registering \cup {m}
            /\ missed' = missed \ {m}
            /\ \/ /\ image
                  /\ enters_mounts(m, db')
                  /\ UNCHANGED pulls
               \/ /\ ~image
                  /\ step' = [step EXCEPT ![m] = "pull"]
                  /\ pulls' = Append(pulls, m)
                  /\ UNCHANGED <<status, exports>>
       ELSE UNCHANGED <<registering, missed, step, pulls, status, exports>>
    /\ UNCHANGED <<image, stored, forgetting, conf, failed>>

\* A device that does not identify itself gets an address, or is seen on a switch.
DeviceDetected(m) ==
    /\ ~failed /\ db[m] = "absent"
    /\ db' = recorded(m, "unknown")
    /\ conf' = db'
    /\ UNCHANGED <<image, registering, step, pulls, stored, forgetting, status, exports, failed,
                   missed>>

\* A node reports that the device is its LLDP neighbor, or a user says it is a switch:
\* DHCP and DNS keep its previous name.
SwitchIdentified(m) ==
    /\ ~failed /\ db[m] = "unknown"
    /\ db' = recorded(m, "switch")
    /\ UNCHANGED <<image, registering, step, pulls, stored, forgetting, status, exports, conf,
                   failed, missed>>

-----------------------------------------------------------------------------
\* Downloads, one at a time

\* resync_from_registry(), called by the blocking process before its result comes
ImageStored ==
    /\ ~failed /\ pulls # <<>> /\ ~stored
    /\ image' = TRUE /\ stored' = TRUE
    /\ UNCHANGED <<db, registering, step, pulls, forgetting, status, exports, conf, failed,
                   missed>>

\* The rest of the workflow of the registration. A device that is no longer in the
\* database is added again, but its address is unknown: KeyError.
PullSucceeds ==
    /\ ~failed /\ pulls # <<>> /\ stored
    /\ LET m == Head(pulls) IN
       \/ /\ db[m] = "absent"
          /\ failed' = TRUE
          /\ UNCHANGED <<db, pulls, stored, step, status, exports>>
       \/ /\ db[m] # "absent"
          /\ db' = recorded(m, "node")
          /\ enters_mounts(m, db')
          /\ pulls' = Tail(pulls) /\ stored' = FALSE
          /\ UNCHANGED failed
    /\ UNCHANGED <<image, registering, forgetting, conf, missed>>

\* Variant of released: the device is still considered as being registered
released_Not(m) == registering

released(m) == registering \ {m}

\* No registry has the image. The device stays unknown, and DHCP and DNS are not
\* updated; but it is a node already if another download has succeeded.
PullFails ==
    /\ ~failed /\ pulls # <<>> /\ ~stored
    /\ LET m == Head(pulls) IN
       /\ step' = [step EXCEPT ![m] = "none"]
       /\ registering' = released(m)
       /\ missed' = IF db[m] = "node" THEN missed \cup {m} ELSE missed
    /\ pulls' = Tail(pulls)
    /\ UNCHANGED <<db, image, stored, forgetting, status, exports, conf, failed>>

\* The update of the image mounts ends, and the last steps follow.
MountsUpdated(m) ==
    /\ ~failed /\ step[m] = "mounts"
    /\ conf' = db
    /\ registering' = released(m)
    /\ step' = [step EXCEPT ![m] = "none"]
    /\ UNCHANGED <<db, image, pulls, stored, forgetting, status, exports, failed, missed>>

-----------------------------------------------------------------------------
\* The steps of forget_device() after the PoE switch
forgotten(m) ==
    /\ db' = [db EXCEPT ![m] = "absent"]
    /\ conf' = db'
    /\ status' = [status EXCEPT ![m] = 0]
    /\ exports' = nodes(db')
    /\ missed' = IF m \in registering THEN missed \cup {m} ELSE missed

\* "walt device forget". The switch port of a node is powered on first, if it is off.
Forget(m) ==
    /\ ~failed /\ db[m] # "absent"
    /\ \/ /\ forgotten(m)
          /\ UNCHANGED forgetting
       \/ /\ db[m] = "node" /\ forgetting[m] < MaxForgets
          /\ forgetting' = [forgetting EXCEPT ![m] = @ + 1]
          /\ UNCHANGED <<db, conf, status, exports, missed>>
    /\ UNCHANGED <<image, registering, step, pulls, stored, failed>>

ForgetContinues(m) ==
    /\ ~failed /\ forgetting[m] > 0
    /\ forgetting' = [forgetting EXCEPT ![m] = @ - 1]
    /\ forgotten(m)
    /\ UNCHANGED <<image, registering, step, pulls, stored, failed>>

\* Variant of restored: the boot status starts empty
restored_Empty(m) == 0

\* The rows of restore()
restored(m) == IF db[m] = "node" THEN 1 ELSE 0

\* The daemon stops, or ends with an error, and starts again: everything is computed
\* from the database. A download that was over is found in the registry.
Restart ==
    /\ image' \in IF pulls = <<>> THEN {image} ELSE {image, TRUE}
    /\ registering' = {}
    /\ step' = [m \in Macs |-> "none"]
    /\ pulls' = <<>> /\ stored' = FALSE
    /\ forgetting' = [m \in Macs |-> 0]
    /\ status' = [m \in Macs |-> restored(m)]
    /\ exports' = nodes(db)
    /\ conf' = db
    /\ failed' = FALSE
    /\ missed' = {}
    /\ UNCHANGED db

-----------------------------------------------------------------------------
Next ==
    \/ ImageStored \/ PullSucceeds \/ PullFails \/ Restart
    \/ \E m \in Macs :
           \/ NodeDetected(m) \/ DeviceDetected(m) \/ SwitchIdentified(m)
           \/ MountsUpdated(m) \/ Forget(m) \/ ForgetContinues(m)

Spec == Init /\ [][Next]_vars

\* Downloads end, with a result or with a failure, and so do the updates of the mounts.
\* systemd restarts a daemon that failed.
Fairness ==
    /\ WF_vars(ImageStored) /\ WF_vars(PullSucceeds)
    /\ WF_vars(failed /\ Restart)
    /\ \A m \in Macs : WF_vars(MountsUpdated(m))

FairSpec == Spec /\ Fairness

-----------------------------------------------------------------------------
\* Once no registration is in progress for it, a device recorded as a node has all that
\* its registration promises: its row in the boot status, its persistent directory
\* exported, its name and type in DHCP and DNS. It holds whatever the registrations,
\* downloads, forgotten devices and restarts that cross. The exceptions, until the
\* daemon restarts: a device forgotten and detected again during its registration,
\* because the new registration is ignored (main/nodes/register.py), and a device
\* recorded as a node while it waited for its own download, which then failed.
NodesServed ==
    \A m \in nodes(db) :
        m \in registering \cup missed \/ (status[m] = 1 /\ m \in exports /\ conf[m] = "node")

\* No registration lasts for ever: currently_registering_macs is released on each path,
\* otherwise later requests of the device would be ignored.
RegistrationsEnd == \A m \in Macs : []<>(m \notin registering)
=============================================================================
