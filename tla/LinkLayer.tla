----------------------------- MODULE LinkLayer -----------------------------
(***************************************************************************)
(* Links between the devices of the network, as the rescan of switches     *)
(* computes them (blocking/devices/topology.py, grouper.py, loops.py).     *)
(* Addresses are ordered: a link is a record whose end a is the smaller    *)
(* one. A port, or the date of the last detection, is NULL when it is not  *)
(* known.                                                                  *)
(*                                                                         *)
(* The code goes through dictionaries and sets whose order is arbitrary:   *)
(* where it counts, an operator gives the set of the possible results.     *)
(***************************************************************************)
EXTENDS Naturals, FiniteSets, Sequences, SequencesExt

NULL == 0

link(x, y, port_x, port_y, confirmed, last_seen) ==
    IF x < y
    THEN [a |-> x, b |-> y, port_a |-> port_x, port_b |-> port_y, confirmed |-> confirmed,
          last_seen |-> last_seen]
    ELSE [a |-> y, b |-> x, port_a |-> port_y, port_b |-> port_x, confirmed |-> confirmed,
          last_seen |-> last_seen]

ends(l) == {l.a, l.b}

of_pair(links, pair) == {l \in links : ends(l) = pair}

pairs(links) == {ends(l) : l \in links}

at(links, mac, port) ==
    {l \in links : (l.a = mac /\ l.port_a = port) \/ (l.b = mac /\ l.port_b = port)}

\* What a link says: a device has a neighbor at one of its ports.
facts_of(links) ==
    {f \in UNION {{[mac |-> l.a, port |-> l.port_a, neighbor |-> l.b],
                   [mac |-> l.b, port |-> l.port_b, neighbor |-> l.a]} : l \in links} :
        f.port # NULL}

\* register_neighbor() of each fact: what is known of the other end is kept.
registered(links, facts, now) ==
    LET port_of(mac, neighbor) ==
            LET known(S) == {f \in S : f.mac = mac /\ f.neighbor = neighbor}
                found == IF known(facts) # {} THEN known(facts) ELSE known(facts_of(links)) IN
            IF found = {} THEN NULL ELSE (CHOOSE f \in found : TRUE).port IN
    {l \in links : ends(l) \notin {{f.mac, f.neighbor} : f \in facts}}
    \cup {link(f.mac, f.neighbor, f.port, port_of(f.neighbor, f.mac), TRUE, now) : f \in facts}

set_confirm_all(links, value) == {[l EXCEPT !.confirmed = value] : l \in links}

unconfirm(links, macs) ==
    {[l EXCEPT !.confirmed = @ /\ ends(l) \cap macs = {}] : l \in links}

\* Variant with a bug: recent links first, confirmed or not.
lower_Recent(l, m) == l.last_seen < m.last_seen

\* Priority of links: confirmed ones, then recent ones. When a date is compared with
\* one that is not known, the comparison fails (TypeError).
lower(l, m) ==
    \/ ~l.confirmed /\ m.confirmed
    \/ l.confirmed = m.confirmed /\ l.last_seen < m.last_seen

incomparable(l, m) ==
    /\ l.confirmed = m.confirmed /\ l.last_seen # m.last_seen
    /\ NULL \in {l.last_seen, m.last_seen}

-----------------------------------------------------------------------------
\* Groups of connected devices (blocking/devices/grouper.py)

group_items(l, groups) ==
    LET touched == {g \in groups : g \cap ends(l) # {}} IN
    (groups \ touched) \cup {ends(l) \cup UNION touched}

groups_of(links) == FoldSet(group_items, {}, links)

is_same_group(x, y, links) == x = y \/ \E g \in groups_of(links) : {x, y} \subseteq g

acyclic(links) == \A l \in links : ~is_same_group(l.a, l.b, links \ {l})

-----------------------------------------------------------------------------
\* merge_other()

\* Variant with a bug: the date of a merged link is lost.
merge_links_info_Undated(trusted, untrusted) ==
    [trusted EXCEPT !.port_a = IF @ = NULL THEN untrusted.port_a ELSE @,
                    !.port_b = IF @ = NULL THEN untrusted.port_b ELSE @,
                    !.last_seen = NULL]

merge_links_info(trusted, untrusted) ==
    [trusted EXCEPT !.port_a = IF @ = NULL THEN untrusted.port_a ELSE @,
                    !.port_b = IF @ = NULL THEN untrusted.port_b ELSE @]

\* Links between the same devices are merged.
common(mine, others) ==
    {LET l == CHOOSE k \in of_pair(mine, p) : TRUE
         m == CHOOSE k \in of_pair(others, p) : TRUE IN
     IF lower(l, m) THEN merge_links_info(m, l) ELSE merge_links_info(l, m) :
        p \in pairs(mine) \cap pairs(others)}

alone(links, others) == {l \in links : ends(l) \notin pairs(others)}

\* One end of link l: compared with the link recorded at the same location, the one
\* that is lower is popped. The key of the other one is built from the neighbor
\* recorded there, and is not sorted.
at_location(acc, l, loc, neighbor) ==
    LET found == {e \in acc.locations : e.loc = loc}
        old == CHOOSE e \in found : TRUE
        key == IF neighbor = l.b THEN <<loc[1], old.neighbor>> ELSE <<old.neighbor, loc[1]>>
        entry == [loc |-> loc, neighbor |-> neighbor, link |-> l] IN
    IF loc[2] = NULL THEN acc
    ELSE IF found = {} THEN [acc EXCEPT !.locations = @ \cup {entry}]
    ELSE IF incomparable(old.link, l) THEN [acc EXCEPT !.failed = TRUE]
    ELSE IF lower(old.link, l)
         THEN [acc EXCEPT !.links = {m \in @ : <<m.a, m.b>> # key},
                          !.locations = (@ \ found) \cup {entry}]
    ELSE [acc EXCEPT !.links = @ \ {l}]

both_ends(acc, l) ==
    at_location(at_location(acc, l, <<l.a, l.port_a>>, l.b), l, <<l.b, l.port_b>>, l.a)

\* Links whose order counts: those that share a location
contested(links) ==
    {l \in links : \E f \in facts_of({l}) : at(links, f.mac, f.port) # {l}}

\* The links that both have come first, then those of the first one. A result may be
\* a failure.
merge_other(mine, others) ==
    LET both == common(mine, others)
        own == alone(mine, others)
        rest == alone(others, mine)
        all == both \cup own \cup rest
        disputed == contested(all)
        start == [links |-> all, locations |-> {},
                  failed |-> \E l \in mine : \E m \in of_pair(others, ends(l)) : incomparable(l, m)]
        orders(S) == SetToSeqs(S \cap disputed) IN
    {[links |-> r.links, failed |-> r.failed] :
        r \in {FoldLeft(both_ends, start, q1 \o q2 \o q3) :
                  q1 \in orders(both), q2 \in orders(own), q3 \in orders(rest)}}

-----------------------------------------------------------------------------
\* cleanup()

\* Links between two nodes are dropped; a node keeps one link, of highest priority.
of_node(links, n, nodes) == {l \in links : n \in ends(l) /\ ends(l) \cap nodes = {n}}

one_per_node(links, nodes) ==
    LET linked == {n \in nodes : of_node(links, n, nodes) # {}}
        best(n) == {l \in of_node(links, n, nodes) :
                        \A m \in of_node(links, n, nodes) : ~lower(l, m)}
        others == {l \in links : ends(l) \cap nodes = {}} IN
    {others \cup S : S \in {T \in SUBSET UNION {of_node(links, n, nodes) : n \in nodes} :
        \A n \in linked : \E l \in best(n) : of_node(T, n, nodes) = {l}}}

\* Comparing the links of a node fails.
fails(links, nodes) ==
    \E n \in nodes : \E l, m \in of_node(links, n, nodes) : incomparable(l, m)

\* Links of a forest that lead from x to y
path(forest, x, y) == {l \in forest : x # y /\ ~is_same_group(x, y, forest \ {l})}

\* What LoopsSolver.solve() may return: the way from a device of a loop to both ends
\* of a link that closes a loop, in the forest of the links considered before.
walks(links) ==
    LET closing == {l \in links : is_same_group(l.a, l.b, links \ {l})} IN
    UNION {{path(P, k.a, l.a) \cup path(P, k.a, l.b) \cup {l} :
            P \in {P \in SUBSET (links \ {l}) :
                    /\ acyclic(P)
                    /\ is_same_group(k.a, l.a, P) /\ is_same_group(k.a, l.b, P)}} :
        k \in closing, l \in closing}

oldest(links) == {l \in links : \A m \in links : l.last_seen <= m.last_seen}

\* Variant with a bug: loops of confirmed links remain.
without_loops_Kept(links) == {links}

\* Step 1: while there is a loop of confirmed links, its oldest one is popped.
without_loops(links) ==
    LET f[S \in SUBSET links] ==
            LET confirmed == {l \in S : l.confirmed} IN
            IF acyclic(confirmed) THEN {S}
            ELSE UNION {f[S \ {l}] : l \in UNION {oldest(w) : w \in walks(confirmed)}} IN
    f[links]

\* Steps 2 and 3: the unconfirmed links R that are kept with the accepted ones A
accepted(confirmed, unconfirmed) ==
    LET f[q \in (SUBSET (confirmed \cup unconfirmed)) \X (SUBSET unconfirmed)] ==
            LET A == q[1]
                R == q[2]
                known == UNION pairs(A)
                inside == {l \in R : ends(l) \subseteq known}
                looping == {l \in inside : is_same_group(l.a, l.b, A)}
                touching == {l \in R : ends(l) \cap known # {}} IN
            IF looping # {} THEN f[<<A, R \ looping>>]
            ELSE IF inside # {} THEN UNION {f[<<A \cup {l}, R \ {l}>>] : l \in inside}
            ELSE IF touching # {} THEN UNION {f[<<A \cup {l}, R \ {l}>>] : l \in touching}
            ELSE {A \cup R} IN
    f[<<confirmed, unconfirmed>>]

cleanup(links, nodes) ==
    UNION {accepted({l \in S : l.confirmed}, {l \in S : ~l.confirmed}) :
        S \in UNION {without_loops(T) : T \in one_per_node(links, nodes)}}

-----------------------------------------------------------------------------
\* BridgeTopology. The forwarding table of a switch gives facts as well, where the
\* neighbor is anywhere behind the port.

candidates(facts, mac, port) == {f.neighbor : f \in {f \in facts : f.mac = mac /\ f.port = port}}

\* A device at some port of B is not there if another switch A has B and the device at
\* different ports.
not_there(facts) ==
    {f \in facts : \E g, h \in facts :
        /\ g.mac = h.mac /\ g.port # h.port
        /\ g.neighbor = f.neighbor /\ h.neighbor = f.mac}

\* A has only B at some port, and B has A, with others, at its port.
facing(facts) ==
    {f \in facts : /\ candidates(facts, f.mac, f.port) # {f.neighbor}
                   /\ \E g \in facts :
                        /\ g.mac = f.neighbor /\ g.neighbor = f.mac
                        /\ candidates(facts, g.mac, g.port) = {f.mac}}

\* The analysis of the backbone: the loop ends with its first change.
backbone(facts) ==
    IF not_there(facts) # {} THEN {facts \ not_there(facts)}
    ELSE IF facing(facts) # {}
    THEN {{g \in facts : g.mac = f.mac /\ g.port = f.port => g = f} : f \in facing(facts)}
    ELSE {facts}

unique(facts) == {f \in facts : candidates(facts, f.mac, f.port) = {f.neighbor}}

\* Edge devices are registered first, then the backbone.
deduce_link_layer_topology(facts, switches, now) ==
    LET inner == {f \in facts : f.neighbor \in switches}
        edge == registered({}, unique(facts \ inner), now) IN
    {registered(edge, unique(b), now + 1) : b \in backbone(inner)}
=============================================================================
