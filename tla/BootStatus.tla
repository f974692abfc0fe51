----------------------------- MODULE BootStatus -----------------------------
(***************************************************************************)
(* The boot status of nodes (main/nodes/status.py): what the handlers of   *)
(* NodeBootupStatusManager compute from its tables, without the calls to   *)
(* clients that module NodeWait describes. A status st is a record:        *)
(*   booted      _booted_macs                                              *)
(*   pending     _booted_events: the last event of each node, as the       *)
(*               others are ignored; a down event has a cause              *)
(*   processing  _bg_processing                                            *)
(*   planned     whether _next_bg_process is set                           *)
(*   remaining, cause   columns of _boot_info_table: the retries left and  *)
(*               why the node went down last                               *)
(* A boot timeout may be over at any time once a check is planned: the      *)
(* nodes that are failing are chosen by the action that runs the check.     *)
(***************************************************************************)
EXTENDS Naturals, DeviceTables

CONSTANTS
    Retries         \* setting boot.retries of each node

ASSUME RetriesAssumption == Retries \in [Nodes -> Nat]

Causes == {"other", "powersave"}

Statuses ==
    [booted : SUBSET Nodes, pending : [Nodes -> {"none", "up"} \cup Causes],
     processing : BOOLEAN, planned : BOOLEAN, remaining : [Nodes -> Nat],
     cause : [Nodes -> Causes]]

NoEvent == [n \in Nodes |-> "none"]

\* restore(): "startup" is the cause
restored ==
    [booted |-> {}, pending |-> NoEvent, processing |-> FALSE, planned |-> Nodes # {},
     remaining |-> Retries, cause |-> [n \in Nodes |-> "other"]]

\* _mask_valid_boot_timeout()
monitored(st) ==
    {n \in Nodes \ st.booted : st.remaining[n] # 0 /\ st.cause[n] # "powersave"}

\* Variant with a bug: what is booted is not looked at, and nothing is planned.
plan_Forgotten(st) == st

\* _plan_bg_process(), once there is no event to process
plan(st) ==
    IF st.processing THEN st
    ELSE [st EXCEPT !.planned = @ \/ monitored(st) # {}]

\* reset_boot_retries(): it plans nothing
reset_retries(st, S) ==
    [st EXCEPT !.remaining = [n \in Nodes |-> IF n \in S THEN Retries[n] ELSE @[n]]]

\* the nodes whose pending event changes their status
goUp(st) == {n \in Nodes \ st.booted : st.pending[n] = "up"}
goDown(st) == {n \in st.booted : st.pending[n] \in Causes}

\* _bg_process_booted_events()
after_events(st) ==
    LET down == goDown(st) IN
    [st EXCEPT
        !.booted = (@ \cup goUp(st)) \ down,
        !.pending = NoEvent,
        !.remaining = [n \in Nodes |-> IF n \in down THEN Retries[n] ELSE @[n]],
        !.cause = [n \in Nodes |-> IF n \in down THEN st.pending[n] ELSE @[n]]]

\* Variant with a bug: the reboots are not counted.
bg_process_Uncounted(st, failing, rebootable) ==
    LET checked == [after_events(st) EXCEPT !.planned = FALSE] IN
    IF failing \cap rebootable # {} THEN [checked EXCEPT !.processing = TRUE]
    ELSE plan([checked EXCEPT !.processing = FALSE])

\* _bg_process() up to the reboot of the failing nodes; it is over when they cannot
\* be rebooted, as reboot_nodes() calls back at once
bg_process(st, failing, rebootable) ==
    LET checked == [after_events(st) EXCEPT
            !.planned = FALSE,
            !.remaining = [n \in Nodes |-> IF n \in failing THEN @[n] - 1 ELSE @[n]]] IN
    IF failing \cap rebootable # {} THEN [checked EXCEPT !.processing = TRUE]
    ELSE plan([checked EXCEPT !.processing = FALSE])
=============================================================================
