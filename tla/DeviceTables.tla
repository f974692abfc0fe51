---------------------------- MODULE DeviceTables ----------------------------
(***************************************************************************)
(* What the tables of the database say of the power of nodes: off is the   *)
(* table poeoff (ports turned off, and why), location the part of the      *)
(* table topology that gives the switch port of each node.                 *)
(***************************************************************************)
CONSTANTS
    Nodes,
    Ports,          \* switch ports
    Unknown         \* location of a node that is not in table topology

ASSUME UnknownAssumption == Unknown \notin Ports

Reasons == {"powersave", "hard-reboot"}

\* get_poe_off_macs(): nodes whose port is recorded off, for one of the reasons
off_macs(off, location, reasons) ==
    {n \in Nodes : \E row \in off : row.port = location[n] /\ row.reason \in reasons}

\* filter_poe_rebootable(), on switches that allow it
poe_rebootable(location) == {n \in Nodes : location[n] # Unknown}
=============================================================================
