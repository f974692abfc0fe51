----------------------- MODULE NodeRegistrationProofs -----------------------
(***************************************************************************)
(* Proofs about NodeRegistration, and about ServiceRestarter: a            *)
(* registration ends with an update of DHCP and DNS, which waits for a     *)
(* restart of these services.                                              *)
(*                                                                         *)
(* IInv relates the steps of the workflows to currently_registering_macs   *)
(* and to the queue of downloads: a device in the queue is there once and  *)
(* has no row in the boot status yet, so the single append of              *)
(* register_node() is the first one.                                       *)
(*                                                                         *)
(* RestarterIInv orders the versions of a service: there is one restart    *)
(* loop and no callback is left behind.                                    *)
(***************************************************************************)
EXTENDS NodeRegistration, ServiceRestarter, TLAPS

\* currently_registering_macs holds the devices whose workflow is not over.
StepsRegister == \A m \in Macs : m \in registering <=> step[m] # "none"

\* A device waits for its download exactly when it is in the queue, once.
QueueMatches ==
    /\ \A i, j \in DOMAIN pulls : pulls[i] = pulls[j] => i = j
    /\ \A i \in DOMAIN pulls : step[pulls[i]] = "pull"
    /\ \A m \in Macs : step[m] = "pull" => \E i \in DOMAIN pulls : pulls[i] = m

\* A row in the boot status is that of a device that has left the downloads.
RowsIdentified ==
    \A m \in Macs : status[m] = 1 => db[m] \in {"node", "switch"} /\ step[m] # "pull"

\* What a workflow has done before each step it may wait at.
StepsDone ==
    \A m \in nodes(db) \ missed :
        /\ step[m] # "pull" => status[m] = 1 /\ m \in exports
        /\ step[m] = "none" => conf[m] = "node"

\* A device that is no longer recorded when the mounts are updated has been forgotten.
ForgottenMissed ==
    \A m \in Macs : step[m] = "mounts" /\ db[m] \in {"absent", "unknown"} => m \in missed

IInv ==
    /\ TypeOK /\ StepsRegister /\ QueueMatches
    /\ RowsIdentified /\ StepsDone /\ ForgottenMissed

-----------------------------------------------------------------------------
\* A device enters the queue when its step becomes "pull", and only then (blocking.py).
LEMMA QueueAppend ==
    ASSUME TypeOK, QueueMatches, NEW m \in Macs, step[m] # "pull",
           step' = [step EXCEPT ![m] = "pull"], pulls' = Append(pulls, m)
    PROVE QueueMatches'
<1>1. /\ pulls' \in Seq(Macs) /\ Len(pulls') = Len(pulls) + 1
      /\ \A i \in DOMAIN pulls : pulls'[i] = pulls[i]
      /\ pulls'[Len(pulls) + 1] = m
      /\ DOMAIN pulls' = DOMAIN pulls \cup {Len(pulls) + 1}
    BY DEF TypeOK
<1>2. \A i \in DOMAIN pulls : pulls[i] \in Macs /\ pulls[i] # m
    BY DEF TypeOK, QueueMatches
<1>3. \A i, j \in DOMAIN pulls' : pulls'[i] = pulls'[j] => i = j
    BY <1>1, <1>2 DEF QueueMatches
<1>4. \A i \in DOMAIN pulls' : step'[pulls'[i]] = "pull"
    BY <1>1, <1>2 DEF QueueMatches, TypeOK
<1>5. \A n \in Macs : step'[n] = "pull" => \E i \in DOMAIN pulls' : pulls'[i] = n
    BY <1>1 DEF QueueMatches, TypeOK
<1> QED
    BY <1>3, <1>4, <1>5 DEF QueueMatches

\* The first device leaves the queue when its step is no longer "pull".
LEMMA QueueTail ==
    ASSUME TypeOK, QueueMatches, pulls # <<>>, NEW next \in {"none", "mounts"},
           step' = [step EXCEPT ![Head(pulls)] = next], pulls' = Tail(pulls)
    PROVE QueueMatches'
<1>1. /\ pulls' \in Seq(Macs) /\ Len(pulls') = Len(pulls) - 1
      /\ \A i \in DOMAIN pulls' : pulls'[i] = pulls[i + 1] /\ i + 1 \in DOMAIN pulls \ {1}
      /\ Head(pulls) = pulls[1] /\ 1 \in DOMAIN pulls
      /\ \A i \in DOMAIN pulls : i # 1 => i - 1 \in DOMAIN pulls' /\ pulls'[i - 1] = pulls[i]
    BY DEF TypeOK
<1>2. \A i \in DOMAIN pulls' : pulls'[i] # Head(pulls) /\ pulls'[i] \in Macs
    <2> SUFFICES ASSUME NEW i \in DOMAIN pulls'
                 PROVE pulls'[i] # Head(pulls) /\ pulls'[i] \in Macs
        OBVIOUS
    <2>1. pulls'[i] = pulls[i + 1] /\ i + 1 \in DOMAIN pulls /\ i + 1 # 1 /\ 1 \in DOMAIN pulls
        BY <1>1
    <2>2. pulls[i + 1] # pulls[1]
        BY <2>1 DEF QueueMatches
    <2> QED
        BY <1>1, <2>1, <2>2 DEF TypeOK
<1>3. \A i, j \in DOMAIN pulls' : pulls'[i] = pulls'[j] => i = j
    BY <1>1 DEF QueueMatches
<1>4. \A i \in DOMAIN pulls' : step'[pulls'[i]] = "pull"
    BY <1>1, <1>2 DEF QueueMatches, TypeOK
<1>5. \A n \in Macs : step'[n] = "pull" => \E i \in DOMAIN pulls' : pulls'[i] = n
    <2> SUFFICES ASSUME NEW n \in Macs, step'[n] = "pull"
                 PROVE \E i \in DOMAIN pulls' : pulls'[i] = n
        OBVIOUS
    <2>1. n # Head(pulls) /\ step[n] = "pull"
        BY DEF TypeOK
    <2>2. PICK i \in DOMAIN pulls : pulls[i] = n
        BY <2>1 DEF QueueMatches
    <2> QED
        BY <2>1, <2>2, <1>1
<1> QED
    BY <1>3, <1>4, <1>5 DEF QueueMatches

-----------------------------------------------------------------------------
LEMMA InitInv == Init => IInv
<1> SUFFICES ASSUME Init PROVE IInv
    OBVIOUS
<1>1. /\ pulls \in Seq(Macs) /\ forgetting \in [Macs -> 0..MaxForgets]
      /\ db \in [Macs -> Types] /\ conf \in [Macs -> Types]
    BY NodeRegistrationAssumption DEF Init, Types
<1>2. TypeOK
    BY <1>1 DEF Init, TypeOK
<1>3. StepsRegister /\ QueueMatches /\ RowsIdentified /\ StepsDone /\ ForgottenMissed
    BY DEF Init, StepsRegister, QueueMatches, RowsIdentified, StepsDone, ForgottenMissed, nodes
<1> QED
    BY <1>2, <1>3 DEF IInv

\* The types that add_or_update() may record
LEMMA RecordedType ==
    ASSUME TypeOK, NEW m \in Macs, NEW type \in Types
    PROVE /\ recorded(m, type) \in [Macs -> Types]
          /\ \A n \in Macs \ {m} : recorded(m, type)[n] = db[n]
          /\ recorded(m, type)[m] = IF db[m] = "absent" \/ (db[m] = "unknown" /\ type # "unknown")
                                    THEN type ELSE db[m]
BY DEF recorded, TypeOK

LEMMA NodeDetectedInv ==
    ASSUME IInv, NEW m \in Macs, NodeDetected(m)
    PROVE IInv'
<1> USE DEF IInv
<1> DEFINE type == IF image THEN "node" ELSE "unknown"
<1>1. /\ db[m] \in {"absent", "unknown"} /\ status[m] = 0
      /\ db' = recorded(m, type)
      /\ UNCHANGED <<image, stored, forgetting, conf, failed>>
    BY DEF NodeDetected, RowsIdentified, TypeOK
<1>2. /\ db' \in [Macs -> Types] /\ \A n \in Macs \ {m} : db'[n] = db[n]
      /\ db'[m] \in {"node", "unknown"} /\ (image => db'[m] = "node")
      /\ (~image => db'[m] = "unknown")
    BY <1>1, RecordedType DEF Types, TypeOK
<1>3. CASE Registrable(m) /\ image
    <2>1. /\ registering' = registering \cup {m} /\ missed' = missed \ {m}
          /\ status' = [status EXCEPT ![m] = @ + 1] /\ exports' = nodes(db')
          /\ step' = [step EXCEPT ![m] = "mounts"] /\ pulls' = pulls
        BY <1>3 DEF NodeDetected, enters_mounts
    <2>2. step[m] = "none"
        BY <1>3 DEF Registrable, StepsRegister, TypeOK
    <2>3. TypeOK'
        BY <1>1, <1>2, <2>1 DEF TypeOK, nodes
    <2>4. StepsRegister' /\ QueueMatches'
        BY <2>1, <2>2 DEF StepsRegister, QueueMatches, TypeOK
    <2>5. RowsIdentified' /\ StepsDone' /\ ForgottenMissed'
        BY <1>1, <1>2, <1>3, <2>1 DEF RowsIdentified, StepsDone, ForgottenMissed, nodes, TypeOK
    <2> QED
        BY <2>3, <2>4, <2>5
<1>4. CASE Registrable(m) /\ ~image
    <2>1. /\ registering' = registering \cup {m} /\ missed' = missed \ {m}
          /\ status' = status /\ exports' = exports
          /\ step' = [step EXCEPT ![m] = "pull"] /\ pulls' = Append(pulls, m)
        BY <1>4 DEF NodeDetected
    <2>2. step[m] = "none"
        BY <1>4 DEF Registrable, StepsRegister, TypeOK
    <2>3. TypeOK'
        BY <1>1, <1>2, <2>1 DEF TypeOK
    <2>4. QueueMatches'
        BY <2>1, <2>2, QueueAppend
    <2>5. StepsRegister' /\ RowsIdentified' /\ StepsDone' /\ ForgottenMissed'
        BY <1>1, <1>2, <1>4, <2>1 DEF StepsRegister, RowsIdentified, StepsDone, ForgottenMissed,
                                      nodes, TypeOK
    <2> QED
        BY <2>3, <2>4, <2>5
<1>5. CASE ~Registrable(m)
    <2>1. UNCHANGED <<registering, missed, step, pulls, status, exports>>
        BY <1>5 DEF NodeDetected
    <2>2. step[m] # "none"
        BY <1>5 DEF Registrable, StepsRegister
    <2>3. TypeOK' /\ StepsRegister' /\ QueueMatches'
        BY <1>1, <1>2, <2>1 DEF TypeOK, StepsRegister, QueueMatches
    <2>4. RowsIdentified'
        BY <1>1, <1>2, <2>1 DEF RowsIdentified, TypeOK
    <2>5. StepsDone' /\ ForgottenMissed'
        BY <1>1, <1>2, <2>1, <2>2 DEF StepsDone, ForgottenMissed, nodes, TypeOK
    <2> QED
        BY <2>3, <2>4, <2>5
<1> QED
    BY <1>3, <1>4, <1>5

LEMMA DeviceDetectedInv ==
    ASSUME IInv, NEW m \in Macs, DeviceDetected(m)
    PROVE IInv'
<1> USE DEF IInv
<1>1. /\ db[m] = "absent" /\ db' = recorded(m, "unknown") /\ conf' = db'
      /\ UNCHANGED <<image, registering, step, pulls, stored, forgetting, status, exports,
                     failed, missed>>
    BY DEF DeviceDetected
<1>2. /\ db' \in [Macs -> Types] /\ \A n \in Macs \ {m} : db'[n] = db[n]
      /\ db'[m] = "unknown"
    BY <1>1, RecordedType DEF Types
<1>3. TypeOK' /\ StepsRegister' /\ QueueMatches'
    BY <1>1, <1>2 DEF TypeOK, StepsRegister, QueueMatches
<1>4. RowsIdentified' /\ ForgottenMissed'
    BY <1>1, <1>2 DEF RowsIdentified, ForgottenMissed
<1>5. StepsDone'
    BY <1>1, <1>2 DEF StepsDone, nodes
<1> QED
    BY <1>3, <1>4, <1>5

LEMMA SwitchIdentifiedInv ==
    ASSUME IInv, NEW m \in Macs, SwitchIdentified(m)
    PROVE IInv'
<1> USE DEF IInv
<1>1. /\ db[m] = "unknown" /\ db' = recorded(m, "switch")
      /\ UNCHANGED <<image, registering, step, pulls, stored, forgetting, status, exports, conf,
                     failed, missed>>
    BY DEF SwitchIdentified
<1>2. /\ db' \in [Macs -> Types] /\ \A n \in Macs \ {m} : db'[n] = db[n]
      /\ db'[m] = "switch"
    BY <1>1, RecordedType DEF Types
<1>3. TypeOK' /\ StepsRegister' /\ QueueMatches'
    BY <1>1, <1>2 DEF TypeOK, StepsRegister, QueueMatches
<1>4. RowsIdentified' /\ ForgottenMissed'
    BY <1>1, <1>2 DEF RowsIdentified, ForgottenMissed
<1>5. StepsDone'
    BY <1>1, <1>2 DEF StepsDone, nodes
<1> QED
    BY <1>3, <1>4, <1>5

LEMMA PullSucceedsInv ==
    ASSUME IInv, PullSucceeds
    PROVE IInv'
<1> USE DEF IInv
<1> DEFINE m == Head(pulls)
<1>1. /\ pulls # <<>> /\ m \in Macs /\ step[m] = "pull" /\ status[m] = 0
      /\ UNCHANGED <<image, registering, forgetting, conf, missed>>
    <2>1. pulls # <<>> /\ UNCHANGED <<image, registering, forgetting, conf, missed>>
        BY DEF PullSucceeds
    <2>2. m = pulls[1] /\ 1 \in DOMAIN pulls /\ m \in Macs
        BY <2>1 DEF TypeOK
    <2> QED
        BY <2>1, <2>2 DEF QueueMatches, RowsIdentified, TypeOK
<1>2. CASE db[m] = "absent"
    <2>1. UNCHANGED <<db, pulls, stored, step, status, exports>> /\ failed' \in BOOLEAN
        BY <1>2 DEF PullSucceeds
    <2> QED
        BY <1>1, <2>1 DEF TypeOK, StepsRegister, QueueMatches, RowsIdentified, StepsDone,
                          ForgottenMissed, nodes
<1>3. CASE db[m] # "absent"
    <2>1. /\ db' = recorded(m, "node") /\ pulls' = Tail(pulls) /\ stored' = FALSE
          /\ status' = [status EXCEPT ![m] = @ + 1] /\ exports' = nodes(db')
          /\ step' = [step EXCEPT ![m] = "mounts"] /\ failed' = failed
        BY <1>3 DEF PullSucceeds, enters_mounts
    <2>2. /\ db' \in [Macs -> Types] /\ \A n \in Macs \ {m} : db'[n] = db[n]
          /\ db'[m] \in {"node", "switch"}
        BY <1>1, <1>3, <2>1, RecordedType DEF Types, TypeOK
    <2>3. pulls' \in Seq(Macs)
        BY <1>1, <2>1 DEF TypeOK
    <2>4. TypeOK'
        <3>1. status' \in [Macs -> {0, 1}] /\ step' \in [Macs -> {"none", "pull", "mounts"}]
            BY <1>1, <2>1 DEF TypeOK
        <3>2. exports' \in SUBSET Macs
            BY <2>1 DEF nodes
        <3> QED
            BY <1>1, <2>1, <2>2, <2>3, <3>1, <3>2 DEF TypeOK
    <2>5. QueueMatches'
        BY <1>1, <2>1, QueueTail
    <2>6. StepsRegister' /\ RowsIdentified'
        BY <1>1, <2>1, <2>2 DEF StepsRegister, RowsIdentified, TypeOK
    <2>7. StepsDone' /\ ForgottenMissed'
        BY <1>1, <2>1, <2>2 DEF StepsDone, ForgottenMissed, nodes, TypeOK
    <2> QED
        BY <2>4, <2>5, <2>6, <2>7
<1> QED
    BY <1>2, <1>3

LEMMA PullFailsInv ==
    ASSUME IInv, PullFails
    PROVE IInv'
<1> USE DEF IInv
<1> DEFINE m == Head(pulls)
<1>1. /\ pulls # <<>> /\ step' = [step EXCEPT ![m] = "none"] /\ pulls' = Tail(pulls)
      /\ registering' = registering \ {m}
      /\ missed' = IF db[m] = "node" THEN missed \cup {m} ELSE missed
      /\ UNCHANGED <<db, image, stored, forgetting, status, exports, conf, failed>>
    BY DEF PullFails, released
<1>2. m \in Macs /\ pulls' \in Seq(Macs)
    BY <1>1 DEF TypeOK
<1>3. TypeOK'
    BY <1>1, <1>2 DEF TypeOK
<1>4. QueueMatches'
    BY <1>1, QueueTail
<1>5. StepsRegister' /\ RowsIdentified'
    BY <1>1, <1>2 DEF StepsRegister, RowsIdentified, TypeOK
<1>6. StepsDone' /\ ForgottenMissed'
    BY <1>1, <1>2 DEF StepsDone, ForgottenMissed, nodes, TypeOK
<1> QED
    BY <1>3, <1>4, <1>5, <1>6

LEMMA MountsUpdatedInv ==
    ASSUME IInv, NEW m \in Macs, MountsUpdated(m)
    PROVE IInv'
<1> USE DEF IInv
<1>1. /\ step[m] = "mounts" /\ conf' = db /\ registering' = registering \ {m}
      /\ step' = [step EXCEPT ![m] = "none"]
      /\ UNCHANGED <<db, image, pulls, stored, forgetting, status, exports, failed, missed>>
    BY DEF MountsUpdated, released
<1>2. TypeOK' /\ StepsRegister' /\ QueueMatches'
    BY <1>1 DEF TypeOK, StepsRegister, QueueMatches
<1>3. RowsIdentified' /\ StepsDone' /\ ForgottenMissed'
    BY <1>1 DEF RowsIdentified, StepsDone, ForgottenMissed, nodes, TypeOK
<1> QED
    BY <1>2, <1>3

\* What forgotten() changes keeps the invariant.
LEMMA ForgottenInv ==
    ASSUME IInv, NEW m \in Macs, forgotten(m), forgetting' \in [Macs -> 0..MaxForgets],
           UNCHANGED <<image, registering, step, pulls, stored, failed>>
    PROVE IInv'
<1> USE DEF IInv
<1>1. /\ db' = [db EXCEPT ![m] = "absent"] /\ conf' = db'
      /\ status' = [status EXCEPT ![m] = 0] /\ exports' = nodes(db')
      /\ missed' = IF m \in registering THEN missed \cup {m} ELSE missed
    BY DEF forgotten
<1>2. TypeOK'
    BY <1>1 DEF TypeOK, Types, nodes
<1>3. StepsRegister' /\ QueueMatches'
    BY DEF StepsRegister, QueueMatches
<1>4. RowsIdentified' /\ StepsDone'
    BY <1>1, <1>2 DEF RowsIdentified, StepsDone, nodes, TypeOK
<1>5. ForgottenMissed'
    BY <1>1 DEF ForgottenMissed, StepsRegister, TypeOK
<1> QED
    BY <1>2, <1>3, <1>4, <1>5

LEMMA ForgetInv ==
    ASSUME IInv, NEW m \in Macs, Forget(m) \/ ForgetContinues(m)
    PROVE IInv'
<1> USE DEF IInv
<1>1. UNCHANGED <<image, registering, step, pulls, stored, failed>>
    BY DEF Forget, ForgetContinues
<1>2. CASE forgotten(m) /\ forgetting' = forgetting
    BY <1>1, <1>2, ForgottenInv DEF TypeOK
<1>3. CASE /\ db[m] = "node" /\ forgetting[m] < MaxForgets
           /\ forgetting' = [forgetting EXCEPT ![m] = @ + 1]
           /\ UNCHANGED <<db, conf, status, exports, missed>>
    <2>1. TypeOK'
        BY <1>1, <1>3, NodeRegistrationAssumption DEF TypeOK
    <2> QED
        BY <1>1, <1>3, <2>1 DEF StepsRegister, QueueMatches, RowsIdentified, StepsDone,
                               ForgottenMissed, nodes
<1>4. CASE ForgetContinues(m)
    <2>1. forgotten(m) /\ forgetting' = [forgetting EXCEPT ![m] = @ - 1] /\ forgetting[m] > 0
        BY <1>4 DEF ForgetContinues
    <2>2. forgetting' \in [Macs -> 0..MaxForgets]
        BY <2>1, NodeRegistrationAssumption DEF TypeOK
    <2> QED
        BY <1>1, <2>1, <2>2, ForgottenInv
<1> QED
    BY <1>2, <1>3, <1>4 DEF Forget

\* Nothing of a registration in progress outlives a restart.
LEMMA RestartInv ==
    ASSUME IInv, Restart
    PROVE IInv'
<1> USE DEF IInv
<1>1. /\ image' \in BOOLEAN /\ registering' = {} /\ step' = [m \in Macs |-> "none"]
      /\ pulls' = <<>> /\ stored' = FALSE /\ forgetting' = [m \in Macs |-> 0]
      /\ status' = [m \in Macs |-> IF db[m] = "node" THEN 1 ELSE 0]
      /\ exports' = nodes(db) /\ conf' = db /\ failed' = FALSE /\ missed' = {} /\ db' = db
    BY DEF Restart, restored, TypeOK
<1>2. TypeOK'
    <2>1. pulls' \in Seq(Macs) /\ forgetting' \in [Macs -> 0..MaxForgets]
        BY <1>1, NodeRegistrationAssumption
    <2>2. exports' \in SUBSET Macs /\ status' \in [Macs -> {0, 1}]
        BY <1>1 DEF nodes
    <2> QED
        BY <1>1, <2>1, <2>2 DEF TypeOK
<1>3. StepsRegister' /\ QueueMatches'
    BY <1>1 DEF StepsRegister, QueueMatches
<1>4. RowsIdentified' /\ StepsDone' /\ ForgottenMissed'
    BY <1>1 DEF RowsIdentified, StepsDone, ForgottenMissed, nodes
<1> QED
    BY <1>2, <1>3, <1>4

LEMMA NextInv == IInv /\ [Next]_vars => IInv'
<1> SUFFICES ASSUME IInv, [Next]_vars PROVE IInv'
    OBVIOUS
<1>1. CASE ImageStored
    BY <1>1 DEF IInv, ImageStored, TypeOK, StepsRegister, QueueMatches, RowsIdentified,
                StepsDone, ForgottenMissed, nodes
<1>2. CASE PullSucceeds
    BY <1>2, PullSucceedsInv
<1>3. CASE PullFails
    BY <1>3, PullFailsInv
<1>4. CASE Restart
    BY <1>4, RestartInv
<1>5. ASSUME NEW m \in Macs,
             NodeDetected(m) \/ DeviceDetected(m) \/ SwitchIdentified(m) \/ MountsUpdated(m)
             \/ Forget(m) \/ ForgetContinues(m)
      PROVE IInv'
    BY <1>5, NodeDetectedInv, DeviceDetectedInv, SwitchIdentifiedInv, MountsUpdatedInv, ForgetInv
<1>6. CASE UNCHANGED vars
    BY <1>6 DEF vars, IInv, TypeOK, StepsRegister, QueueMatches, RowsIdentified, StepsDone,
                ForgottenMissed, nodes
<1> QED
    BY <1>1, <1>2, <1>3, <1>4, <1>5, <1>6 DEF Next

-----------------------------------------------------------------------------
\* The types of the variables, and with them that a device has at most one row in the
\* table of the boot status: register_node() appends without looking (status.py).
THEOREM TypeCorrect == Spec => []TypeOK
<1>1. IInv => TypeOK
    BY DEF IInv
<1> QED
    BY InitInv, NextInv, <1>1, PTL DEF Spec

\* A node whose registration is not in progress has its boot status, its persistent
\* export and its DHCP and DNS entries, for any number of devices, downloads, commands
\* and restarts; except what missed names (main/nodes/register.py).
THEOREM RegistrationPromise == Spec => []NodesServed
<1>1. IInv => NodesServed
    <2> SUFFICES ASSUME IInv, NEW m \in nodes(db), m \notin registering, m \notin missed
                 PROVE status[m] = 1 /\ m \in exports /\ conf[m] = "node"
        BY DEF NodesServed
    <2>1. step[m] = "none"
        BY DEF IInv, StepsRegister, nodes
    <2> QED
        BY <2>1 DEF IInv, StepsDone
<1> QED
    BY InitInv, NextInv, <1>1, PTL DEF Spec

-----------------------------------------------------------------------------
(***************************************************************************)
(* The restarter of DHCP and DNS                                           *)
(***************************************************************************)

\* The versions are ordered: the service never runs a version that does not
\* exist, and a command in flight carries a version it does not run yet.
VersionsOrdered ==
    /\ service_version <= config_version
    /\ command # NoCommand => service_version < command /\ command <= config_version

RestarterIInv == RestarterTypeOK /\ VersionsOrdered /\ OneRestartLoop /\ NoLostCallback

LEMMA RestarterInitInv == RestarterInit => RestarterIInv
<1> SUFFICES ASSUME RestarterInit PROVE RestarterIInv
  OBVIOUS
<1>1. loaded \in Nat
  BY ServiceRestarterAssumption DEF ServiceRestarterAssumption, RestarterInit, Unknown
<1>2. callbacks \in SUBSET (Nat \X Callers) /\ waiting \in SUBSET Callers
  BY DEF RestarterInit
<1>3. RestarterTypeOK
  BY <1>1, <1>2 DEF RestarterInit, RestarterTypeOK, NoCommand
<1>4. VersionsOrdered /\ OneRestartLoop /\ NoLostCallback
  BY DEF RestarterInit, VersionsOrdered, OneRestartLoop, NoLostCallback, NoCommand
<1> QED BY <1>3, <1>4 DEF RestarterIInv

\* What one update() preserves. No caller of the code forces an update and
\* waits for it: such a callback would be recorded under a version that the
\* service already runs, and never called.
LEMMA ServiceUpdateInv ==
  ASSUME RestarterIInv, NEW changed \in BOOLEAN, NEW force \in BOOLEAN, NEW cbs \in SUBSET Callers,
         force => cbs = {}, update(changed, force, cbs), started' \in BOOLEAN
  PROVE  RestarterIInv'
<1> DEFINE cv == IF changed THEN config_version + 1 ELSE config_version
<1>1. /\ cv \in Nat
      /\ config_version' = cv
      /\ service_version <= config_version
      /\ config_version <= cv
      /\ UNCHANGED <<service_version, sent, planned, job, loaded, failures, lastFailed>>
  BY DEF RestarterIInv, RestarterTypeOK, VersionsOrdered, update
<1>2. CASE cv # service_version \/ force
  <2>1. /\ callbacks' = callbacks \cup {<<cv, c>> : c \in cbs}
        /\ waiting' = waiting \cup cbs
        /\ IF restarting
           THEN UNCHANGED <<restarting, command>>
           ELSE restart_service_loop(cv, service_version)
    BY <1>2 DEF update, restart
  <2>0. callbacks' \in SUBSET (Nat \X Callers) /\ waiting' \in SUBSET Callers
    BY <1>1, <2>1 DEF RestarterIInv, RestarterTypeOK
  <2>1a. command' \in Nat
    BY <1>1, <2>1 DEF RestarterIInv, RestarterTypeOK, restart_service_loop, NoCommand
  <2>1b. restarting' \in BOOLEAN
    BY <2>1, Zenon DEF RestarterIInv, RestarterTypeOK, restart_service_loop
  <2>2. RestarterTypeOK'
    BY <1>1, <2>0, <2>1a, <2>1b DEF RestarterIInv, RestarterTypeOK
  <2>3. VersionsOrdered'
    BY <1>1, <2>1 DEF RestarterIInv, RestarterTypeOK, VersionsOrdered, restart_service_loop, NoCommand
  <2>4. OneRestartLoop'
    BY <1>1, <2>1 DEF RestarterIInv, RestarterTypeOK, VersionsOrdered, OneRestartLoop, restart_service_loop, NoCommand
  <2>5. NoLostCallback'
    <3>1. SUFFICES ASSUME NEW c \in waiting'
                   PROVE  /\ restarting'
                          /\ \E v \in (service_version + 1) .. cv : <<v, c>> \in callbacks'
      BY <1>1 DEF NoLostCallback
    <3>2. CASE c \in waiting
      BY <1>1, <2>1, <3>2 DEF RestarterIInv, RestarterTypeOK, NoLostCallback
    <3>3. CASE c \in cbs
      <4>0. cv # service_version
        BY <1>2, <3>3
      <4>1. cv \in (service_version + 1) .. cv /\ <<cv, c>> \in callbacks'
        BY <1>1, <2>1, <3>3, <4>0 DEF RestarterIInv, RestarterTypeOK
      <4>2. restarting'
        BY <1>1, <2>1, <3>3, <4>0 DEF restart_service_loop
      <4> QED BY <4>1, <4>2
    <3>4. c \in waiting \/ c \in cbs
      BY <2>1
    <3> QED BY <3>2, <3>3, <3>4
  <2> QED BY <2>2, <2>3, <2>4, <2>5 DEF RestarterIInv
<1>3. CASE ~(cv # service_version \/ force)
  BY <1>1, <1>3 DEF RestarterIInv, RestarterTypeOK, VersionsOrdered, OneRestartLoop, NoLostCallback, update
<1> QED BY <1>2, <1>3

\* Every step keeps the invariant.
LEMMA RestarterNextInv == RestarterIInv /\ [RestarterNext]_restarterVars => RestarterIInv'
<1> SUFFICES ASSUME RestarterIInv, [RestarterNext]_restarterVars PROVE RestarterIInv'
  OBVIOUS
<1>1. CASE StartupUpdate
  <2>1. PICK changed \in BOOLEAN : update(changed, TRUE, {})
    BY <1>1 DEF StartupUpdate
  <2>2. started' \in BOOLEAN
    BY <1>1 DEF StartupUpdate
  <2> QED BY <2>1, <2>2, ServiceUpdateInv
<1>2. CASE Update
  <2>1. PICK changed \in BOOLEAN : update(changed, FALSE, {})
    BY <1>2 DEF Update
  <2>2. started' \in BOOLEAN
    BY <1>2 DEF Update, RestarterIInv, RestarterTypeOK
  <2> QED BY <2>1, <2>2, ServiceUpdateInv
<1>3. ASSUME NEW c \in Callers, WfUpdate(c) PROVE RestarterIInv'
  <2>1. PICK changed \in BOOLEAN : update(changed, FALSE, {c})
    BY <1>3 DEF WfUpdate
  <2>2. started' \in BOOLEAN
    BY <1>3 DEF WfUpdate, RestarterIInv, RestarterTypeOK
  <2> QED BY <2>1, <2>2, ServiceUpdateInv
<1>4. CASE BusctlQueuesJob
  BY <1>4 DEF BusctlQueuesJob, RestarterIInv, RestarterTypeOK, VersionsOrdered, OneRestartLoop, NoLostCallback
<1>5. CASE CommandEnds
  <2> USE <1>5 DEF CommandEnds, served, replan, NoCommand
  <2>0. callbacks' \in SUBSET (Nat \X Callers) /\ waiting' \in SUBSET Callers
    BY DEF RestarterIInv, RestarterTypeOK
  <2>0a. service_version' \in Nat /\ command' \in Nat /\ planned' \in Nat /\ failures' \in Nat
    BY DEF RestarterIInv, RestarterTypeOK
  <2>0c. lastFailed' \in BOOLEAN /\ sent' \in BOOLEAN
    BY Zenon DEF RestarterIInv, RestarterTypeOK
  <2>0b. UNCHANGED <<config_version, restarting, job, loaded, started>>
    OBVIOUS
  <2> HIDE <1>5 DEF CommandEnds
  <2>1. RestarterTypeOK'
    BY <2>0, <2>0a, <2>0b, <2>0c DEF RestarterIInv, RestarterTypeOK
  <2> USE <1>5 DEF CommandEnds
  <2>2. VersionsOrdered'
    BY DEF RestarterIInv, RestarterTypeOK, VersionsOrdered
  <2>3. OneRestartLoop'
    BY DEF RestarterIInv, RestarterTypeOK, OneRestartLoop
  <2>4. NoLostCallback'
    <3>1. SUFFICES ASSUME NEW c \in waiting, c \notin {e[2] : e \in called}
                   PROVE  /\ restarting'
                          /\ \E v \in (command + 1) .. config_version :
                                <<v, c>> \in callbacks \ called
      BY DEF NoLostCallback
    <3>2. PICK v \in (service_version + 1) .. config_version : <<v, c>> \in callbacks
      BY <3>1 DEF RestarterIInv, NoLostCallback
    <3>3. <<v, c>> \notin called
      BY <3>1
    <3>4. v > command
      BY <3>2, <3>3 DEF called, RestarterIInv, RestarterTypeOK
    <3> QED BY <3>1, <3>2, <3>3, <3>4 DEF RestarterIInv, RestarterTypeOK, NoLostCallback
  <2> QED BY <2>1, <2>2, <2>3, <2>4 DEF RestarterIInv
<1>6. CASE PlannedLoop
  <2> USE <1>6 DEF PlannedLoop, restart_service_loop, NoCommand
  <2>0. planned = 1 /\ restarting /\ command = NoCommand
    BY DEF RestarterIInv, RestarterTypeOK, OneRestartLoop
  <2>0a. command' \in Nat /\ planned' \in Nat
    BY <2>0 DEF RestarterIInv, RestarterTypeOK
  <2>0c. restarting' \in BOOLEAN
    BY Zenon
  <2>0b. RestarterTypeOK'
    BY <2>0a, <2>0c DEF RestarterIInv, RestarterTypeOK
  <2>1. VersionsOrdered' /\ OneRestartLoop'
    BY <2>0 DEF RestarterIInv, RestarterTypeOK, VersionsOrdered, OneRestartLoop
  <2>2. NoLostCallback'
    <3>1. SUFFICES ASSUME NEW c \in waiting
                   PROVE  /\ restarting'
                          /\ \E v \in (service_version + 1) .. config_version :
                                <<v, c>> \in callbacks
      BY DEF NoLostCallback
    <3>2. \E v \in (service_version + 1) .. config_version : <<v, c>> \in callbacks
      BY <3>1 DEF RestarterIInv, NoLostCallback
    <3>3. config_version # service_version
      BY <3>2 DEF RestarterIInv, RestarterTypeOK
    <3> QED BY <3>2, <3>3
  <2> QED BY <2>0b, <2>1, <2>2 DEF RestarterIInv
<1>7. CASE SystemdJob
  BY <1>7 DEF SystemdJob, RestarterIInv, RestarterTypeOK, VersionsOrdered, OneRestartLoop, NoLostCallback
<1>8. CASE UNCHANGED restarterVars
  BY <1>8 DEF restarterVars, RestarterIInv, RestarterTypeOK, VersionsOrdered, OneRestartLoop, NoLostCallback
<1> QED BY <1>1, <1>2, <1>3, <1>4, <1>5, <1>6, <1>7, <1>8 DEF RestarterNext

LEMMA RestarterInvHolds == RestarterSpec => []RestarterIInv
  BY RestarterInitInv, RestarterNextInv, PTL DEF RestarterSpec

\* Every state of the restarter is well-formed (service.py:29-37).
THEOREM RestarterTypeCorrect == RestarterSpec => []RestarterTypeOK
  BY RestarterInvHolds, PTL DEF RestarterIInv

\* One restart command, or one planned call of the loop, exactly while the
\* "restarting" flag is up (service.py:48-53).
THEOREM RestartsSerialized == RestarterSpec => []OneRestartLoop
  BY RestarterInvHolds, PTL DEF RestarterIInv

\* A waiting workflow's callback is under a version still to be served, and the
\* loop that will call it is active (service.py:48-80).
THEOREM CallbacksKept == RestarterSpec => []NoLostCallback
  BY RestarterInvHolds, PTL DEF RestarterIInv
=============================================================================
