----------------------------- MODULE Powersave -----------------------------
(***************************************************************************)
(* Power savings (main/nodes/powersave.py) and the tables they read: what  *)
(* the handlers of PowersaveManager compute. pw is a record:               *)
(*   free      _mac_of_free_nodes                                          *)
(*   timed     keys of _poweroff_timeouts_per_mac                          *)
(*   check     _next_check: "planned", or "running" until the workflow of  *)
(*             the check ends                                              *)
(* The two hours of a node may be over at any time: the nodes that have     *)
(* expired are chosen by the action that runs the check.                    *)
(***************************************************************************)
EXTENDS DeviceTables

PowerStates ==
    [free : SUBSET Nodes, timed : SUBSET Nodes, check : {"none", "planned", "running"}]

\* _reset_node_mac_poweroff_timeout()
reset_timeouts(pw, S) == [pw EXCEPT !.timed = @ \cup S]

\* Variant with a bug: the end of a check does not plan the next one.
plan_check_Once(pw) == pw

\* _plan_check()
plan_check(pw) ==
    IF pw.check = "none" /\ pw.timed # {} THEN [pw EXCEPT !.check = "planned"] ELSE pw

\* Variant with a bug: any node that is used gets a timeout.
record_usage_Any(pw, S) == reset_timeouts(pw, S)

\* _record_node_usage()
record_usage(pw, S) == reset_timeouts(pw, S \cap pw.free)

reboot_event(pw, S) == plan_check(record_usage(pw, S))

set_image_event(pw, n, is_default_image) ==
    IF is_default_image
    THEN plan_check(reset_timeouts([pw EXCEPT !.free = @ \cup {n}], {n}))
    ELSE [pw EXCEPT !.free = @ \ {n}, !.timed = @ \ {n}]

rescan_restore_poe_event(pw, offs) == plan_check(reset_timeouts(pw, pw.free \ offs))

\* node_bootup_event() of the nodes S, whose ports are recorded off
moved_event(pw, S) == IF S = {} THEN pw ELSE plan_check(reset_timeouts(pw, S))

\* restore(): all timeouts start again
restored_power(free) == plan_check([free |-> free, timed |-> free, check |-> "none"])

\* _check() and the first step of its workflow, which gives the nodes whose port
\* is not known two more hours. When no command is to be run, the workflow ends
\* at once and checks again, which finds nothing.
check(pw, expired, offs, rebootable) ==
    LET S == expired \ offs
        rest == [pw EXCEPT !.timed = (@ \ expired) \cup (S \ rebootable)] IN
    IF S \cap rebootable = {} THEN plan_check([rest EXCEPT !.check = "none"])
    ELSE [rest EXCEPT !.check = "running"]
=============================================================================
