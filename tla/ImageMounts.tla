---------------------------- MODULE ImageMounts ----------------------------
(***************************************************************************)
(* The mounts of the images that nodes boot: the update workflow of the    *)
(* image store (main/images/store.py), the NFS exports it maintains        *)
(* (main/exports.py, main/network/nfs.py), the symlinks nodes follow at    *)
(* boot (main/network/tftp.py) and the mount and umount commands it runs   *)
(* (mount/mount.py, mount/umount.py).                                      *)
(*                                                                         *)
(* An image is its image id: a node gets another image id when it is       *)
(* associated with another image, when it registers, and when its image is *)
(* saved, rebuilt or updated. A clone removes names of images from the     *)
(* registry and gives them back later: in between, an image that a node    *)
(* uses has no image id. It stays in the table and in the store, whatever  *)
(* a clone does (ImageCatalog!NodeImageKept), so line 325 is never reached.*)
(* The handlers run one at a time, in the event loop of server-main;       *)
(* commands, and the steps of a clone, run concurrently with them.         *)
(***************************************************************************)
EXTENDS Naturals

CONSTANTS
    Nodes,
    Images,         \* image ids
    NoImage,        \* what a node that is not registered is associated with
    Missing,        \* image id of a name that the registry does not have
    MaxChanges,     \* bound on the number of changes of association; a name that a clone
                    \* removes, and gives back, counts for two
    MaxFailures,    \* bound on the number of commands that fail for no reason of ours
    MaxStarts       \* bound on the number of times the daemon starts

ASSUME ImageMountsAssumption ==
    /\ NoImage \notin Images
    /\ Missing \notin Images \cup {NoImage}
    /\ MaxChanges \in Nat
    /\ MaxFailures \in Nat
    /\ MaxStarts \in Nat

VARIABLES
    daemon,       \* "down", "up", or "cleaning" between cleanup() and the exit
    imageOf,      \* table nodes of the database: the image of each node, the last
                  \* one its name had when the registry has not this name
    absent,       \* nodes whose image name the registry has not
    clone,        \* the clone in progress: "none", "running", or "retagged" when it
                  \* has changed the image id of a name that a node uses
    symlink,      \* target of <mac>/fs, what the node boots
    mounts,       \* store.mounts: images the daemon has mounted, or is mounting
    mounted,      \* images the kernel has mounted
    exported,     \* images NFS exports
    cmds,         \* commands in flight
    phase,        \* step of _update_wf, "idle" when there is no update workflow, "stuck"
                  \* when an exception has ended its last step before wf.next()
    pending,      \* images whose parallel step did not call wf.next() yet
    toUnmount,    \* env of _update_wf: to_be_unmounted
    kept,         \* env of _update_wf: images_info
    deadline,     \* store.deadlines, and whether the clock has passed them
    waiting,      \* nodes whose change waits for the end of _update_wf
    outdated,     \* nodes that a pass left out, or whose image id a clone changed, since
                  \* the last end of _update_wf
    planned,      \* _planned_update_wf: its event is "armed", or it "joined" _update_wf
    changes,      \* number of changes of association
    failures,     \* number of commands that ended with an error
    starts        \* number of times the daemon started

vars == <<daemon, imageOf, absent, clone, symlink, mounts, mounted, exported, cmds, phase,
          pending, toUnmount, kept, deadline, waiting, outdated, planned, changes,
          failures, starts>>

names == <<imageOf, absent, clone>>
store == <<mounts, phase, pending, toUnmount, kept, deadline, waiting, outdated, planned>>
counters == <<changes, failures, starts>>

Verbs == {"mount", "umount"}
Stages == {"launched", "done", "failed"}

TypeOK ==
    /\ daemon \in {"down", "up", "cleaning"}
    /\ imageOf \in [Nodes -> Images \cup {NoImage}]
    /\ absent \in SUBSET Nodes
    /\ clone \in {"none", "running", "retagged"}
    /\ symlink \in [Nodes -> Images \cup {NoImage}]
    /\ mounts \in SUBSET Images
    /\ mounted \in SUBSET Images
    /\ exported \in SUBSET Images
    /\ cmds \in SUBSET [verb : Verbs, image : Images, stage : Stages]
    /\ phase \in {"idle", "mounting", "unmounting", "stuck"}
    /\ pending \in SUBSET Images
    /\ phase \in {"idle", "stuck"} <=> pending = {}
    /\ toUnmount \in SUBSET Images
    /\ kept \in SUBSET Images
    /\ deadline \in [Images -> {"none", "running", "elapsed"}]
    /\ waiting \in SUBSET Nodes
    /\ outdated \in SUBSET Nodes
    /\ planned \in {"none", "armed", "joined"}
    /\ changes \in Nat
    /\ failures \in Nat
    /\ starts \in Nat

\* What the registry says of the image of each node, when it has not the names of those
\* in away: image_exists(), image_id
looked_up(assoc, away) == [n \in Nodes |-> IF n \in away THEN Missing ELSE assoc[n]]

\* new_mounts: get_images_in_use(), without those whose name is missing ("the image may
\* not be available yet; pass for now")
ImagesInUse(assoc) == {assoc[n] : n \in Nodes} \ {NoImage, Missing}

nodes_left_out(assoc) == {n \in Nodes : assoc[n] = Missing}

\* The daemon was stopped properly: nothing is mounted.
Init ==
    /\ daemon = "down"
    /\ imageOf \in [Nodes -> Images \cup {NoImage}]
    /\ absent = {}
    /\ clone = "none"
    /\ symlink = imageOf
    /\ mounted = {}
    /\ exported = {}
    /\ cmds = {}
    /\ mounts = {}
    /\ phase = "idle"
    /\ pending = {}
    /\ toUnmount = {}
    /\ kept = {}
    /\ deadline = [i \in Images |-> "none"]
    /\ waiting = {}
    /\ outdated = {}
    /\ planned = "none"
    /\ changes = 0
    /\ failures = 0
    /\ starts = 0

-----------------------------------------------------------------------------
(***************************************************************************)
(* One pass of _wf_update_image_mounts(), on the associations assoc, as    *)
(* the registry knows them. The other parameters are the values the        *)
(* handler has reached: mts for mounts, exp for exported, dl for deadline, *)
(* cs for cmds, wait for waiting, plan for planned.                        *)
(***************************************************************************)

launch(verb, images) == [verb : {verb}, image : images, stage : {"launched"}]

\* Variant with a bug: parallel steps are inserted even when there is none, and
\* none of them calls wf.next().
some_Unguarded(images) == TRUE

\* "if len(to_be_mounted) > 0", "if len(to_be_unmounted) > 0"
some(images) == images # {}

to_be_mounted(assoc, mts) == ImagesInUse(assoc) \ mts

\* Variant with a bug: the deadline is not waited for.
to_be_unmounted_NoGrace(assoc, mts, dl) ==
    {i \in mts \ ImagesInUse(assoc) : dl[i] # "none"}

to_be_unmounted(assoc, mts, dl) ==
    {i \in mts \ ImagesInUse(assoc) : dl[i] = "elapsed"}

\* all_mounts: the images to export
all_mounts(assoc, mts, dl) ==
    (mts \cup ImagesInUse(assoc)) \ to_be_unmounted(assoc, mts, dl)

\* the deadlines after the pass: removed for the images in use, set for the
\* others when they are first seen unused
deadlines(assoc, mts, dl) ==
    [i \in Images |->
        IF i \in ImagesInUse(assoc) THEN "none"
        ELSE IF i \in mts /\ dl[i] = "none" THEN "running"
        ELSE dl[i]]

\* Variant with a bug: the images are unmounted before the exports are updated.
unmount_Exported(gone, keep, mts, exp, dl, cs) ==
    /\ phase' = "unmounting"
    /\ exported' = exp
    /\ mounts' = mts \ gone
    /\ cmds' = cs \cup launch("umount", gone)
    /\ pending' = gone
    /\ deadline' = [i \in Images |-> IF i \in gone THEN "none" ELSE dl[i]]

\* wf_update_image_exports() then _wf_unmount_images()
unmount(gone, keep, mts, exp, dl, cs) ==
    /\ phase' = "unmounting"
    /\ exported' = keep
    /\ mounts' = mts \ gone
    /\ cmds' = cs \cup launch("umount", gone)
    /\ pending' = gone
    /\ deadline' = [i \in Images |-> IF i \in gone THEN "none" ELSE dl[i]]

\* images to mount: they are mounted first
PassMounts(assoc, mts, exp, dl, cs, wait, plan) ==
    LET new == to_be_mounted(assoc, mts) IN
    /\ some(new)
    /\ phase' = "mounting"
    /\ mounts' = mts \cup new
    /\ cmds' = cs \cup launch("mount", new)
    /\ pending' = new
    /\ toUnmount' = to_be_unmounted(assoc, mts, dl)
    /\ kept' = all_mounts(assoc, mts, dl)
    /\ deadline' = deadlines(assoc, mts, dl)
    /\ exported' = exp
    /\ waiting' = wait
    /\ outdated' = outdated \cup nodes_left_out(assoc)
    /\ planned' = plan
    /\ symlink' = symlink

\* nothing to mount, images to unmount: the exports are updated on the way
PassUnmounts(assoc, mts, exp, dl, cs, wait, plan) ==
    LET gone == to_be_unmounted(assoc, mts, dl)
        keep == all_mounts(assoc, mts, dl) IN
    /\ to_be_mounted(assoc, mts) = {}
    /\ some(gone)
    /\ unmount(gone, keep, mts, exp, deadlines(assoc, mts, dl), cs)
    /\ toUnmount' = gone
    /\ kept' = keep
    /\ waiting' = wait
    /\ outdated' = outdated \cup nodes_left_out(assoc)
    /\ planned' = plan
    /\ symlink' = symlink

\* Variant with a bug: _planned_update_wf is not reset when its workflow ends.
plan_next_NoReset(plan, dl) ==
    IF plan # "none" THEN plan
    ELSE IF \E i \in Images : dl[i] # "none" THEN "armed" ELSE "none"

\* _plan_next_update_wf(), then the end of the workflows that wait: the planned
\* one plans the next one.
plan_next(plan, dl) ==
    IF plan = "armed" \/ \E i \in Images : dl[i] # "none" THEN "armed" ELSE "none"

\* Variant with a bug: tftp.update() skips the nodes whose image is missing.
update_fails_Never(assoc) == FALSE

\* tftp.update() needs the metadata of the images of all nodes: it raises a TypeError when
\* the registry has not one of them.
update_fails(assoc) == nodes_left_out(assoc) # {}

\* no change: tftp.update(), then the update workflow ends
PassEnds(assoc, mts, exp, dl, cs, wait, plan) ==
    /\ to_be_mounted(assoc, mts) = {}
    /\ to_be_unmounted(assoc, mts, dl) = {}
    /\ pending' = {}
    /\ toUnmount' = {}
    /\ kept' = {}
    /\ deadline' = deadlines(assoc, mts, dl)
    /\ mounts' = mts
    /\ exported' = exp
    /\ cmds' = cs
    /\ \/ /\ ~update_fails(assoc)
          /\ phase' = "idle"
          /\ symlink' = assoc
          /\ waiting' = {}
          /\ outdated' = {}
          /\ planned' = plan_next(plan, deadlines(assoc, mts, dl))
       \/ /\ update_fails(assoc)           \* _update_wf is not reset, nobody goes on
          /\ phase' = "stuck"
          /\ symlink' = symlink
          /\ waiting' = wait
          /\ outdated' = outdated \cup nodes_left_out(assoc)
          /\ planned' = plan

Pass(assoc, mts, exp, dl, cs, wait, plan) ==
    \/ PassMounts(assoc, mts, exp, dl, cs, wait, plan)
    \/ PassUnmounts(assoc, mts, exp, dl, cs, wait, plan)
    \/ PassEnds(assoc, mts, exp, dl, cs, wait, plan)

\* wf_update_image_mounts(), for a workflow of the nodes in ns
wf_update_image_mounts(assoc, ns) ==
    IF phase = "idle"
    THEN Pass(assoc, mounts, exported, deadline, cmds, waiting \cup ns, planned)
    ELSE /\ waiting' = waiting \cup ns
         /\ UNCHANGED <<symlink, mounts, exported, cmds, phase, pending, toUnmount,
                        kept, deadline, outdated, planned>>

-----------------------------------------------------------------------------
\* Server.update() -> images.update(startup=True): resync_from_db() raises when an image
\* that a node uses is missing
Start ==
    /\ daemon = "down"
    /\ absent = {}
    /\ starts < MaxStarts
    /\ starts' = starts + 1
    /\ daemon' = "up"
    /\ wf_update_image_mounts(imageOf, Nodes)
    /\ UNCHANGED <<names, mounted, changes, failures>>

\* set_image(), register_node(), forget_device(), or a new image id: the table is
\* changed, then the update is triggered. A default image may be the one that a clone
\* replaces, whose name is then gone.
Request(ns, i, gone) ==
    /\ daemon = "up"
    /\ changes + 1 <= MaxChanges
    /\ ns # {}
    /\ \A n \in ns : imageOf[n] # i
    /\ gone => clone # "none" /\ i # NoImage
    /\ changes' = changes + 1
    /\ imageOf' = [n \in Nodes |-> IF n \in ns THEN i ELSE imageOf[n]]
    /\ absent' = IF gone THEN absent \cup ns ELSE absent \ ns
    /\ wf_update_image_mounts(looked_up(imageOf', absent'), ns)
    /\ UNCHANGED <<daemon, clone, mounted, failures, starts>>

\* The event of _plan_next_update_wf(). A deadline removed and set again may be
\* later than the event: it then finds nothing to unmount and plans the next one.
PlannedUpdate ==
    /\ daemon = "up"
    /\ planned = "armed"
    /\ IF phase = "idle"
       THEN Pass(looked_up(imageOf, absent), mounts, exported, deadline, cmds, waiting,
                 "joined")
       ELSE /\ planned' = "joined"
            /\ UNCHANGED <<symlink, mounts, exported, cmds, phase, pending, toUnmount,
                           kept, deadline, waiting, outdated>>
    /\ UNCHANGED <<daemon, names, mounted, counters>>

\* MOUNT_GRACE_TIME has passed
GraceExpires(i) ==
    /\ daemon = "up"
    /\ deadline[i] = "running"
    /\ deadline' = [deadline EXCEPT ![i] = "elapsed"]
    /\ UNCHANGED <<daemon, names, symlink, mounts, mounted, exported, cmds, phase,
                   pending, toUnmount, kept, waiting, outdated, planned, counters>>

\* rename_device(), device_rescan(), a setting: tftp.update() out of any update. It
\* raises, and changes nothing, when a name is missing.
TftpUpdate ==
    /\ daemon = "up"
    /\ ~update_fails(looked_up(imageOf, absent))
    /\ symlink' = imageOf
    /\ UNCHANGED <<daemon, names, mounted, exported, cmds, store, counters>>

-----------------------------------------------------------------------------
\* remove_ws_image(), remove_server_image(), or the cleaner of a clone: the name of the
\* image of the nodes in ns is untagged.
NameRemoved(ns) ==
    /\ daemon = "up"
    /\ changes + 2 <= MaxChanges
    /\ ns \cap absent = {}
    /\ \A n, m \in ns : imageOf[n] = imageOf[m] /\ imageOf[n] # NoImage
    /\ changes' = changes + 2
    /\ absent' = absent \cup ns
    /\ clone' = IF clone = "none" THEN "running" ELSE clone
    /\ UNCHANGED <<daemon, imageOf, symlink, mounted, exported, cmds, store, failures,
                   starts>>

\* The name of the image of the nodes in ns is pulled or tagged: by the next steps of the
\* clone, by its cleaner, or by hand when the daemon was stopped in between.
NameRestored(ns, i) ==
    LET changed == {n \in ns : imageOf[n] # i} IN
    /\ ns # {}
    /\ ns \subseteq absent
    /\ absent' = absent \ ns
    /\ imageOf' = [n \in Nodes |-> IF n \in ns THEN i ELSE imageOf[n]]
    /\ clone' = IF clone # "none" /\ changed # {} THEN "retagged" ELSE clone
    /\ outdated' = outdated \cup changed
    /\ UNCHANGED <<daemon, symlink, mounts, mounted, exported, cmds, phase, pending,
                   toUnmount, kept, deadline, waiting, planned, counters>>

trigger_update_image_mounts == wf_update_image_mounts(imageOf, {})

\* The cleaner of a clone that succeeded triggers the update of the mounts.
CloneSucceeds ==
    /\ daemon = "up"
    /\ clone # "none"
    /\ absent = {}
    /\ clone' = "none"
    /\ trigger_update_image_mounts
    /\ UNCHANGED <<daemon, imageOf, absent, mounted, counters>>

\* The cleaner of a clone that failed has restored the names and triggers no update. Once
\* a name has another image only a command of podman may fail.
CloneFails ==
    /\ daemon = "up"
    /\ clone # "none"
    /\ absent = {}
    /\ IF clone = "retagged"
       THEN failures < MaxFailures /\ failures' = failures + 1
       ELSE failures' = failures
    /\ clone' = "none"
    /\ UNCHANGED <<daemon, imageOf, absent, symlink, mounted, exported, cmds,
                   store, changes, starts>>

-----------------------------------------------------------------------------
Succeeds(c) ==
    \/ /\ c.verb = "mount"                \* also when it is already mounted
       /\ mounted' = mounted \cup {c.image}
    \/ /\ c.verb = "umount"
       /\ c.image \in mounted
       /\ c.image \notin exported         \* it retries while something holds the mount
       /\ mounted' = mounted \ {c.image}

\* The command takes the lock of serialized_mounts() and does its work.
CommandRuns(c) ==
    /\ c.stage = "launched"
    /\ Succeeds(c)
    /\ cmds' = (cmds \ {c}) \cup {[c EXCEPT !.stage = "done"]}
    /\ UNCHANGED <<daemon, names, symlink, exported, store, counters>>

\* It fails: for its own reasons, or because there is nothing to unmount.
CommandFails(c) ==
    /\ c.stage = "launched"
    /\ \/ failures < MaxFailures
       \/ c.verb = "umount" /\ c.image \notin mounted
    /\ failures' = failures + 1
    /\ cmds' = (cmds \ {c}) \cup {[c EXCEPT !.stage = "failed"]}
    /\ UNCHANGED <<daemon, names, symlink, mounted, exported, store, changes, starts>>

\* _wf_after_one_parallel_step(): _remaining_parallel_steps == 0
AllStepsDone(left) == left = {}

\* what follows the mounts in _update_wf
AfterMounts(cs) ==
    IF some(toUnmount)
    THEN /\ unmount(toUnmount, kept, mounts, exported, deadline, cs)
         /\ UNCHANGED <<symlink, toUnmount, kept, waiting, outdated, planned>>
    ELSE Pass(looked_up(imageOf, absent), mounts, kept, deadline, cs, waiting, planned)

\* Variant with a bug: the update ends after its commands, without another pass.
AfterUnmounts_NoRecursion(cs) ==
    /\ phase' = "idle"
    /\ pending' = {}
    /\ toUnmount' = {}
    /\ kept' = {}
    /\ symlink' = imageOf
    /\ waiting' = {}
    /\ outdated' = {}
    /\ planned' = plan_next(planned, deadline)
    /\ cmds' = cs
    /\ UNCHANGED <<mounts, exported, deadline>>

\* "recurse in case something changed during the run"
AfterUnmounts(cs) ==
    Pass(looked_up(imageOf, absent), mounts, exported, deadline, cs, waiting, planned)

\* ProcessListener.close() -> _wf_check_retcode(): on an error, an exception that
\* remove_listener() catches, and the step never calls wf.next(). Once cleanup()
\* has interrupted the workflow, wf.next() does nothing.
CommandEnds(c) ==
    LET cs == cmds \ {c}
        left == pending \ {c.image} IN
    /\ c.stage \in {"done", "failed"}
    /\ \/ /\ c.stage = "failed" \/ daemon = "cleaning"
          /\ cmds' = cs
          /\ UNCHANGED <<symlink, exported, store>>
       \/ /\ c.stage = "done"
          /\ daemon = "up"
          /\ \/ /\ ~AllStepsDone(left)
                /\ cmds' = cs
                /\ pending' = left
                /\ UNCHANGED <<symlink, mounts, exported, phase, toUnmount, kept,
                               deadline, waiting, outdated, planned>>
             \/ /\ AllStepsDone(left)
                /\ IF phase = "mounting" THEN AfterMounts(cs) ELSE AfterUnmounts(cs)
    /\ UNCHANGED <<daemon, names, mounted, counters>>

-----------------------------------------------------------------------------
\* Nothing remains of the update: a new daemon believes that nothing is mounted.
EmptyStore ==
    /\ mounts' = {}
    /\ phase' = "idle"
    /\ pending' = {}
    /\ toUnmount' = {}
    /\ kept' = {}
    /\ deadline' = [i \in Images |-> "none"]
    /\ waiting' = {}
    /\ outdated' = {}
    /\ planned' = "none"

\* Server.cleanup(): tftp.update(cleanup=True), then images.cleanup(), which
\* interrupts the workflows (those that wait go on), removes the exports and
\* unmounts everything. When the first one raises, nothing else is done (Stop).
Cleanup ==
    /\ daemon = "up"
    /\ ~update_fails(looked_up(imageOf, absent))
    /\ daemon' = "cleaning"
    /\ symlink' = imageOf
    /\ cmds' = cmds \cup launch("umount", mounts)
    /\ exported' = IF mounts = {} THEN exported ELSE {}
    /\ EmptyStore
    /\ UNCHANGED <<names, mounted, counters>>

\* The daemon ends its cleanup, or gives up after 10 seconds, or is killed; what
\* remains of its commands is killed with it, and its clone is not ended.
Stop ==
    /\ daemon \in {"up", "cleaning"}
    /\ daemon' = "down"
    /\ cmds' = {}
    /\ clone' = "none"
    /\ EmptyStore
    /\ UNCHANGED <<imageOf, absent, symlink, mounted, exported, counters>>

Next ==
    \/ Start
    \/ \E ns \in SUBSET Nodes, i \in Images \cup {NoImage}, gone \in BOOLEAN :
           Request(ns, i, gone)
    \/ PlannedUpdate
    \/ \E i \in Images : GraceExpires(i)
    \/ TftpUpdate
    \/ \E ns \in SUBSET Nodes : NameRemoved(ns)
    \/ \E ns \in SUBSET Nodes, i \in Images : NameRestored(ns, i)
    \/ CloneSucceeds
    \/ CloneFails
    \/ \E c \in cmds : CommandRuns(c)
    \/ \E c \in cmds : CommandFails(c)
    \/ \E c \in cmds : CommandEnds(c)
    \/ Cleanup
    \/ Stop

Spec == Init /\ [][Next]_vars

\* Commands take their lock and end, the clock goes on, planned events fire, a clone that
\* has restored its names ends. Nobody has to change an association, to restore a name nor
\* to stop the daemon; systemd starts it.
Fairness ==
    /\ WF_vars(\E c \in cmds : CommandRuns(c))
    /\ WF_vars(\E c \in cmds : CommandEnds(c))
    /\ \A i \in Images : WF_vars(GraceExpires(i))
    /\ WF_vars(PlannedUpdate)
    /\ WF_vars(CloneSucceeds \/ CloneFails)
    /\ WF_vars(Start)

FairSpec == Spec /\ Fairness

-----------------------------------------------------------------------------
(***************************************************************************)
(* Properties                                                              *)
(***************************************************************************)

\* The update workflow keeps its promise, whatever was requested and cloned while it ran:
\* as soon as the change of a node has been waited for, the image the database gives the
\* node is mounted and exported and its symlink leads to it (store.py:302-376). It stays so
\* while a clone has removed the name of this image, until a pass leaves the node out
\* (store.py:309-312) or the name comes back with another image; the next update that ends
\* repairs it. No workflow goes on in between: the pass of line 371 raises.
AssociatedImageServed ==
    daemon = "up" =>
        \A n \in Nodes \ (waiting \cup outdated) :
            /\ symlink[n] = imageOf[n]
            /\ imageOf[n] # NoImage => imageOf[n] \in mounted \cap exported

\* "directories would be locked by the NFS export" (store.py:352): no umount
\* command is in flight for an image that is exported, at cleanup either.
UnexportedBeforeUmount ==
    \A c \in cmds : c.verb = "umount" => c.image \notin exported

\* While the daemon runs, two commands are never in flight for the same image: an
\* image used again during its unmount is mounted by the next pass, after the
\* command has ended (store.py:345-362).
OneCommandPerImage ==
    daemon = "up" =>
        \A c, d \in cmds : c.image = d.image => c = d

\* Notes about mount grace time (store.py:22-32): while the daemon runs, an image
\* is only unmounted after its deadline.
GraceRespected ==
    [][daemon' = "up" => \A i \in mounts \ mounts' : deadline[i] = "elapsed"]_vars

\* A workflow that waits for the update workflow goes on (store.py:299-300), unless
\* a command has failed or the update ended while a clone had removed the name of an image
\* in use (tftp.py:189).
UpdatesComplete ==
    \A n \in Nodes :
        (n \in waiting) ~> (n \notin waiting \/ failures > 0 \/ phase = "stuck")

\* "When the last node using an image is associated to another image, this previous
\* image should be unmounted since it is not used anymore" (store.py:23-24): the
\* image that nobody uses leaves store.mounts, with the same exceptions.
UnusedLeavesMounts ==
    \A i \in Images :
        <>[](i \notin ImagesInUse(imageOf) /\ absent = {}) =>
            <>[](i \notin mounts \/ failures > 0 \/ phase = "stuck")

\* "wait for the update workflow to be completed" (store.py:299): it completes.
UpdateWorkflowEnds == \A n \in Nodes : (n \in waiting) ~> (n \notin waiting)

Service == INSTANCE ImageService WITH
    up <- daemon = "up",
    wanted <- imageOf,
    unnamed <- absent,
    link <- symlink,
    served <- mounted \cap exported,
    confirmed <- IF daemon = "up" THEN Nodes \ (waiting \cup outdated) ELSE {}

\* The update workflow, with its commands, its passes and its deadlines, implements the
\* service its callers rely on: once their wf.next() is called, a node boots its image,
\* and no later step withdraws it while the node uses it and its name is in the registry;
\* no workflow goes on while the name of an image in use is missing (store.py:285-376).
ImplementsService == Service!Spec
=============================================================================
