---------------------------- MODULE ImageService ----------------------------
(***************************************************************************)
(* What the image store promises to the rest of the server, without its    *)
(* workflow, its commands nor its deadlines: when the change of a node has *)
(* been waited for (wf.next() after wf_update_image_mounts()), the node    *)
(* can boot its image, and it stays so until another change, an update     *)
(* while a clone has removed the name of this image, or the end of the     *)
(* daemon. ImageMounts implements it.                                      *)
(***************************************************************************)

CONSTANTS Nodes, Images, NoImage

VARIABLES
    up,         \* the daemon runs
    wanted,     \* image of each node in the database
    unnamed,    \* nodes whose image has lost its name, until a clone gives it back
    link,       \* image each node would try to boot
    served,     \* images that can be booted
    confirmed   \* nodes that can boot their image: their last change has been waited for,
                \* and no update has left them out since

vars == <<up, wanted, unnamed, link, served, confirmed>>

images_of(nodes, assoc) == {assoc[n] : n \in nodes} \ {NoImage}

Init ==
    /\ up = FALSE
    /\ wanted \in [Nodes -> Images \cup {NoImage}]
    /\ unnamed = {}
    /\ link = wanted
    /\ served = {}
    /\ confirmed = {}

\* An update is over: all changes so far have been waited for, and no name is missing.
Completed(assoc) ==
    /\ unnamed' = {}
    /\ confirmed' = Nodes
    /\ link' = assoc
    /\ images_of(Nodes, assoc) \subseteq served'

\* An update goes on: it may leave out nodes whose image has no name, serve images, and
\* withdraw those that no confirmed node boots.
InProgress(nodes, assoc) ==
    /\ confirmed' \in SUBSET nodes
    /\ nodes \ unnamed' \subseteq confirmed'
    /\ link' = link
    /\ served' \in SUBSET Images
    /\ images_of(confirmed', assoc) \subseteq served'

StartUp ==
    /\ ~up /\ up' = TRUE
    /\ unnamed = {}
    /\ UNCHANGED <<wanted, unnamed, served>>
    /\ Completed(wanted) \/ (confirmed' = {} /\ link' = link)

\* The image of the nodes in ns changes: its name may be one that is missing.
Associate(ns, i) ==
    /\ up
    /\ wanted' = [n \in Nodes |-> IF n \in ns THEN i ELSE wanted[n]]
    /\ unnamed' \in {unnamed \ ns, unnamed \cup ns}
    /\ \/ InProgress(confirmed \ ns, wanted')
       \/ Completed(wanted') /\ served' = served
    /\ UNCHANGED up

Update ==
    /\ up
    /\ \/ InProgress(confirmed, wanted)
       \/ Completed(wanted) /\ served' \in SUBSET Images
    /\ UNCHANGED <<up, wanted, unnamed>>

\* The image of the nodes in ns loses its name: they can still boot it.
LoseName(ns) ==
    /\ up
    /\ unnamed' = unnamed \cup ns
    /\ UNCHANGED <<up, wanted, link, served, confirmed>>

\* The name comes back. The nodes whose image is still the same one can still boot it.
Rename(ns, i) ==
    /\ ns \subseteq unnamed
    /\ unnamed' = unnamed \ ns
    /\ wanted' = [n \in Nodes |-> IF n \in ns THEN i ELSE wanted[n]]
    /\ confirmed' = confirmed \ {n \in ns : wanted[n] # i}
    /\ UNCHANGED <<up, link, served>>

Relink ==
    /\ up /\ unnamed = {} /\ link' = wanted
    /\ UNCHANGED <<up, wanted, unnamed, served, confirmed>>

ShutDown ==
    /\ up /\ up' = FALSE
    /\ confirmed' = {}
    /\ link' \in {link, wanted}
    /\ served' \in SUBSET served
    /\ UNCHANGED <<wanted, unnamed>>

\* Commands of the last daemon are still running.
Closing ==
    /\ ~up
    /\ served' \in SUBSET Images
    /\ UNCHANGED <<up, wanted, unnamed, link, confirmed>>

Next ==
    \/ StartUp \/ Update \/ Relink \/ ShutDown \/ Closing
    \/ \E ns \in SUBSET Nodes, i \in Images \cup {NoImage} : Associate(ns, i)
    \/ \E ns \in SUBSET Nodes : LoseName(ns)
    \/ \E ns \in SUBSET Nodes, i \in Images : Rename(ns, i)

Spec == Init /\ [][Next]_vars
=============================================================================
