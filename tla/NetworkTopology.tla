-------------------------- MODULE NetworkTopology --------------------------
(***************************************************************************)
(* The topology of the network: rescans of the switches and of the server  *)
(* (TopologyManager.rescan()), nodes that report the switch they are       *)
(* connected to (report_lldp_neighbor()), and the table topology of the    *)
(* database, while cables are moved.                                       *)
(*                                                                         *)
(* Server-main sends these requests one by one to the blocking process,    *)
(* but a rescan takes seconds: devices are queried one after the other,    *)
(* while cables are moved and powersave forgets locations.                 *)
(***************************************************************************)
EXTENDS LinkLayer

CONSTANTS
    Switches,       \* the server and the switches
    EndNodes,
    Ports,
    Speakers,       \* devices that give their LLDP neighbors
    Bridges,        \* switches that give their forwarding table
    InitialCabling, \* facts about the real network
    MaxScans,       \* bound on the rescans, which query all switches, or one
    MaxChanges      \* bound on the cables moved, the reports of nodes, the locations
                    \* forgotten and the queries that fail

Macs == Switches \cup EndNodes

Facts == [mac : Macs, port : Ports, neighbor : Macs]

ASSUME AddressAssumption ==
    /\ Switches \cup EndNodes \subseteq Nat /\ Switches \cap EndNodes = {}
    /\ Ports \subseteq Nat \ {NULL}
    /\ IsFiniteSet(Switches) /\ IsFiniteSet(EndNodes) /\ IsFiniteSet(Ports)
    /\ Speakers \cup Bridges \subseteq Switches

\* Devices that the cables facts lead to
reach(mac, facts) ==
    {m \in Macs : is_same_group(mac, m, registered({}, facts, 1))}

unplugged(f, facts) == {g \in facts : {g.mac, g.neighbor} # {f.mac, f.neighbor}}

\* A cable has two ends; there is one cable at a port, between two devices, or at a node;
\* and the network is a tree, or several.
Wired(facts) ==
    /\ \A f \in facts : f \in Facts
    /\ \A f \in facts : \E g \in facts : g.mac = f.neighbor /\ g.neighbor = f.mac
    /\ \A f, g \in facts :
          f.mac = g.mac /\ (f.port = g.port \/ f.neighbor = g.neighbor \/ f.mac \in EndNodes)
              => f = g
    /\ \A f \in facts : f.neighbor \notin reach(f.mac, unplugged(f, facts))

ASSUME CablingAssumption == Wired(InitialCabling)

ASSUME BoundAssumption == MaxScans \in Nat /\ MaxChanges \in Nat

VARIABLES
    cabling,        \* facts about the real network
    table,          \* table topology
    job,            \* rescan in progress
    failed,         \* history: a rescan ended with an exception
    reported,       \* history: a node has reported a new location
    now, scans, changes

vars == <<cabling, table, job, failed, reported, now, scans, changes>>

NoJob == [step |-> "idle", devices |-> {}, left |-> {}, lldp |-> {}, bridge |-> {},
          links |-> {}, moved |-> FALSE]

IsLink(l) ==
    /\ l.a \in Macs /\ l.b \in Macs /\ l.a < l.b
    /\ {l.port_a, l.port_b} \subseteq Ports \cup {NULL}
    /\ l.confirmed \in BOOLEAN /\ l.last_seen \in 0..now

TypeOK ==
    /\ \A f \in cabling \cup job.bridge : f \in Facts
    /\ \A l \in table \cup job.lldp \cup job.links : IsLink(l)
    /\ job.step \in {"idle", "query", "save"}
    /\ job.left \subseteq job.devices /\ job.devices \subseteq Switches
    /\ failed \in BOOLEAN /\ reported \in BOOLEAN
    /\ scans \in 0..MaxScans /\ changes \in 0..MaxChanges

Init ==
    /\ cabling = InitialCabling
    /\ table = {}
    /\ job = NoJob
    /\ failed = FALSE /\ reported = FALSE
    /\ now = 0 /\ scans = 0 /\ changes = 0

-----------------------------------------------------------------------------
\* The network

\* The devices behind a port
behind(f) == reach(f.neighbor, unplugged(f, cabling))

free(mac, port) == ~\E f \in cabling : f.mac = mac /\ f.port = port

\* A cable is unplugged at one end, and plugged into another switch or port.
Recable(f, y, q) ==
    /\ changes < MaxChanges
    /\ y \notin reach(f.mac, unplugged(f, cabling)) /\ free(y, q)
    /\ changes' = changes + 1
    /\ cabling' = unplugged(f, cabling) \cup {[mac |-> f.mac, port |-> f.port, neighbor |-> y],
                                     [mac |-> y, port |-> q, neighbor |-> f.mac]}
    /\ job' = [job EXCEPT !.moved = job.step # "idle"]
    /\ UNCHANGED <<table, failed, reported, now, scans>>

-----------------------------------------------------------------------------
\* Rescans

StartRescan(S) ==
    /\ job.step = "idle" /\ scans < MaxScans
    /\ scans' = scans + 1
    /\ job' = [NoJob EXCEPT !.step = "query", !.devices = S, !.left = S]
    /\ UNCHANGED <<cabling, table, failed, reported, now, changes>>

\* The LLDP neighbors and the forwarding table of a device, except for the nodes that
\* are silent. A query may fail.
Query(d, silent, errors) ==
    LET at_d == {f \in cabling : f.mac = d}
        neighbors == {f \in at_d : f.neighbor \notin silent}
        learned == UNION {{[mac |-> d, port |-> f.port, neighbor |-> m] : m \in behind(f) \ silent} :
                            f \in at_d} IN
    /\ d \in job.left
    /\ errors # {} => changes < MaxChanges
    /\ changes' = IF errors = {} THEN changes ELSE changes + 1
    /\ now' = now + 1
    /\ job' = [job EXCEPT
            !.left = @ \ {d},
            !.lldp = IF d \in Speakers /\ "lldp" \notin errors
                     THEN registered(@, neighbors, now') ELSE @,
            !.bridge = IF d \in Bridges /\ "bridge" \notin errors THEN @ \cup learned ELSE @]
    /\ UNCHANGED <<cabling, table, failed, reported, scans>>

\* All devices have been queried: the data is analysed, merged with the table, and
\* cleaned up. An exception ends the rescan.
Merge ==
    /\ job.step = "query" /\ job.left = {}
    /\ now' = now + 2
    /\ \E by_bridge \in deduce_link_layer_topology(job.bridge \cup facts_of(job.lldp),
                                                   Switches, now + 1) :
       \E new \in merge_other(job.lldp, set_confirm_all(by_bridge, FALSE)) :
       \E all \in merge_other(set_confirm_all(new.links, TRUE), unconfirm(table, job.devices)) :
           IF new.failed \/ all.failed \/ fails(all.links, EndNodes)
           THEN job' = NoJob /\ failed' = TRUE
           ELSE /\ \E links \in cleanup(all.links, EndNodes) :
                       job' = [job EXCEPT !.step = "save", !.links = links]
                /\ UNCHANGED failed
    /\ UNCHANGED <<cabling, table, reported, scans, changes>>

Save ==
    /\ job.step = "save"
    /\ table' = job.links
    /\ job' = NoJob
    /\ UNCHANGED <<cabling, failed, reported, now, scans, changes>>

-----------------------------------------------------------------------------
\* update_node_location()
update_node_location(n, sw, port) ==
    LET locs == {l \in table : n \in ends(l)}
        others == table \ (IF Cardinality(locs) = 1 THEN locs ELSE {}) IN
    IF Cardinality(locs) = 1 /\ locs \subseteq at(table, sw, port)
    THEN others \cup set_confirm_all(locs, TRUE)
    ELSE (others \ at(others, sw, port)) \cup {link(n, sw, NULL, port, TRUE, NULL)}

\* A node reports its switch, which knows the number of the port.
NodeReports(f) ==
    /\ job.step = "idle" /\ changes < MaxChanges
    /\ f.neighbor \in EndNodes /\ f.mac \in Speakers
    /\ changes' = changes + 1
    /\ table' = update_node_location(f.neighbor, f.mac, f.port)
    /\ reported' = (reported \/ NULL \in {l.last_seen : l \in table'})
    /\ UNCHANGED <<cabling, job, failed, now, scans>>

\* forget_topology_entry_for_mac(), by powersave, when a node has moved
ForgetLocation(n) ==
    /\ changes < MaxChanges
    /\ changes' = changes + 1
    /\ table' = {l \in table : n \notin ends(l)}
    /\ UNCHANGED <<cabling, job, failed, reported, now, scans>>

-----------------------------------------------------------------------------
Next ==
    \/ \E f \in cabling, y \in Switches, q \in Ports : Recable(f, y, q)
    \/ \E S \in {Switches} \cup {{s} : s \in Switches} : StartRescan(S)
    \/ \E d \in job.left, silent \in SUBSET EndNodes, errors \in SUBSET {"lldp", "bridge"} :
           Query(d, silent, errors)
    \/ Merge \/ Save
    \/ \E f \in cabling : NodeReports(f)
    \/ \E n \in EndNodes : ForgetLocation(n)

Spec == Init /\ [][Next]_vars

-----------------------------------------------------------------------------
\* Properties

\* The table never has a loop, nor a node at two places, whatever part of the network
\* was rescanned, and whichever cables were moved before or during the rescan (cleanup()).
Forest ==
    /\ acyclic(table)
    /\ \A n \in EndNodes : Cardinality({l \in table : n \in ends(l)}) <= 1

\* A rescan ends with an exception only if a node reported its location before: the date
\* of such a link is not known, and merge_other() and cleanup() compare dates. Dates of
\* links that were scanned are never lost, whatever was merged.
FailsOnReports == failed => reported

same(k, l) ==
    /\ ends(k) = ends(l) /\ k.confirmed
    /\ k.port_a = l.port_a \/ l.port_a = NULL
    /\ k.port_b = l.port_b \/ l.port_b = NULL

\* A forwarding table has one node only at this port: the link deduced from it may be
\* wrong, and is more recent than those that LLDP shows.
misled == unique({f \in job.bridge : f.neighbor \in EndNodes})

\* Ports of linked switches that the past topology gives, and that LLDP does not show.
recalled ==
    {f \in facts_of({m \in table : ends(m) \subseteq Switches}) :
        /\ \E c \in cabling : c.mac = f.mac /\ c.neighbor = f.neighbor
        /\ ~\E g \in facts_of(job.lldp) : g.mac = f.mac /\ g.neighbor = f.neighbor}

\* When no cable is moved during a rescan, each link that LLDP has shown is in its
\* result, confirmed and at the same ports, although it is merged with what the
\* forwarding tables give, with the past topology, and cleaned up (rescan()). There are
\* two exceptions: a link of a node that a forwarding table has alone at some port, and
\* a link of a switch whose port is recalled from the past topology, when another cable
\* was moved to that port meanwhile, or when a node is alone there.
LldpBelieved ==
    job.step = "save" /\ ~job.moved =>
        \A l \in job.lldp :
           \/ \E k \in job.links : same(k, l)
           \/ \E f \in misled : f.neighbor \in ends(l)
           \/ \E f \in recalled :
                  /\ f.mac \in ends(l)
                  /\ f \notin cabling \/ \E g \in misled : g.mac = f.mac /\ g.port = f.port
=============================================================================
