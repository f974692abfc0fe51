------------------------- MODULE ImageMountsProofs -------------------------
(***************************************************************************)
(* Proofs about ImageMounts: for every set of nodes and images and every   *)
(* bound, the update workflow keeps its promise.                           *)
(***************************************************************************)
EXTENDS ImageMounts, TLAPS

\* The commands in flight are those of the step _update_wf is at.
CommandsOfPhase ==
    /\ \A c \in cmds : c.image \in pending
    /\ phase = "mounting" => \A c \in cmds : c.verb = "mount"
    /\ phase = "unmounting" => \A c \in cmds : c.verb = "umount"
    /\ \A c, d \in cmds : c.image = d.image => c = d

\* What the daemon believes mounted is mounted, or being mounted.
MountsMounted ==
    /\ \A c \in cmds : c.verb = "mount" /\ c.stage = "done" => c.image \in mounted
    /\ phase = "mounting" => mounts \subseteq mounted \cup pending
    /\ phase # "mounting" => mounts \subseteq mounted
    /\ phase = "unmounting" => mounts \cap pending = {}

\* What is mounted is exported, or will be by the next step of _update_wf.
MountsExported ==
    /\ phase # "mounting" => mounts \subseteq exported
    /\ phase = "mounting" => /\ mounts \subseteq kept \cup toUnmount
                             /\ kept \cap toUnmount = {}
                             /\ \A i \in toUnmount : deadline[i] = "elapsed"

\* The nodes that do not wait, and that no pass nor clone has put aside, are served, and
\* the step in progress keeps it so.
NodesServed ==
    \A n \in Nodes \ (waiting \cup outdated) :
        /\ symlink[n] = imageOf[n]
        /\ imageOf[n] # NoImage => /\ imageOf[n] \in mounted
                                   /\ imageOf[n] \in exported
                                   /\ phase = "mounting" => imageOf[n] \in kept

UpInv == CommandsOfPhase /\ MountsMounted /\ MountsExported /\ NodesServed

DownInv ==
    /\ cmds = {}
    /\ mounts = {}
    /\ phase = "idle"

IInv ==
    /\ TypeOK
    /\ UnexportedBeforeUmount
    /\ daemon = "up" => UpInv
    /\ daemon = "down" => DownInv

-----------------------------------------------------------------------------
(***************************************************************************)
(* The operators of a pass.                                                *)
(***************************************************************************)

\* What the registry says of the images of the nodes.
LEMMA LookedUp ==
  ASSUME NEW assoc \in [Nodes -> Images \cup {NoImage}], NEW away \in SUBSET Nodes
  PROVE  /\ looked_up(assoc, away) \in [Nodes -> Images \cup {NoImage, Missing}]
         /\ \A n \in Nodes : looked_up(assoc, away)[n] # Missing =>
                                looked_up(assoc, away)[n] = assoc[n]
         /\ nodes_left_out(looked_up(assoc, away)) = away
         /\ away = {} => looked_up(assoc, away) = assoc
<1>1. Missing \notin Images \cup {NoImage}
  BY ImageMountsAssumption
<1>2. looked_up(assoc, away) = [n \in Nodes |-> IF n \in away THEN Missing ELSE assoc[n]]
  BY DEF looked_up
<1> QED BY <1>1, <1>2 DEF nodes_left_out

\* What a pass computes is made of images, and it splits what is mounted or used.
LEMMA PassSets ==
  ASSUME NEW assoc \in [Nodes -> Images \cup {NoImage, Missing}], NEW mts \in SUBSET Images,
         NEW dl \in [Images -> {"none", "running", "elapsed"}]
  PROVE  /\ ImagesInUse(assoc) \in SUBSET Images
         /\ to_be_mounted(assoc, mts) \in SUBSET Images
         /\ to_be_unmounted(assoc, mts, dl) \in SUBSET mts
         /\ all_mounts(assoc, mts, dl) \in SUBSET Images
         /\ ImagesInUse(assoc) \subseteq all_mounts(assoc, mts, dl)
         /\ all_mounts(assoc, mts, dl) \cap to_be_unmounted(assoc, mts, dl) = {}
         /\ mts \subseteq all_mounts(assoc, mts, dl) \cup to_be_unmounted(assoc, mts, dl)
         /\ to_be_mounted(assoc, mts) \subseteq all_mounts(assoc, mts, dl)
         /\ deadlines(assoc, mts, dl) \in [Images -> {"none", "running", "elapsed"}]
         /\ \A i \in to_be_unmounted(assoc, mts, dl) :
                /\ dl[i] = "elapsed"
                /\ deadlines(assoc, mts, dl)[i] = "elapsed"
<1>1. ImagesInUse(assoc) \in SUBSET Images
  BY DEF ImagesInUse
<1>2. deadlines(assoc, mts, dl) \in [Images -> {"none", "running", "elapsed"}]
  BY DEF deadlines
<1> QED
  BY <1>1, <1>2 DEF to_be_mounted, to_be_unmounted, all_mounts, deadlines

\* launch() makes one command for each image.
LEMMA LaunchCommands ==
  ASSUME NEW verb \in Verbs, NEW images \in SUBSET Images
  PROVE  /\ launch(verb, images) \in SUBSET [verb : Verbs, image : Images, stage : Stages]
         /\ \A c \in launch(verb, images) :
                /\ c.verb = verb
                /\ c.image \in images
                /\ c.stage = "launched"
         /\ \A c, d \in launch(verb, images) : c.image = d.image => c = d
BY DEF launch, Stages, Verbs

\* _wf_unmount_images() after the exports: the images that remain are exported.
LEMMA UnmountInv ==
  ASSUME NEW gone \in SUBSET Images, NEW keep \in SUBSET Images, NEW mts \in SUBSET Images,
         NEW exp \in SUBSET Images, NEW dl \in [Images -> {"none", "running", "elapsed"}],
         gone # {}, gone \cap keep = {}, mts \subseteq mounted,
         mts \subseteq keep \cup gone, mounted' = mounted,
         unmount(gone, keep, mts, exp, dl, {})
  PROVE  /\ phase' = "unmounting"
         /\ mounts' = mts \ gone /\ pending' = gone /\ exported' = keep
         /\ cmds' \in SUBSET [verb : Verbs, image : Images, stage : Stages]
         /\ deadline' \in [Images -> {"none", "running", "elapsed"}]
         /\ UnexportedBeforeUmount'
         /\ CommandsOfPhase' /\ MountsMounted' /\ MountsExported'
<1>1. /\ phase' = "unmounting" /\ pending' = gone /\ exported' = keep
      /\ mounts' = mts \ gone
      /\ cmds' = launch("umount", gone)
      /\ deadline' = [i \in Images |-> IF i \in gone THEN "none" ELSE dl[i]]
  BY DEF unmount
<1>2. /\ cmds' \in SUBSET [verb : Verbs, image : Images, stage : Stages]
      /\ \A c \in cmds' : c.verb = "umount" /\ c.image \in gone /\ c.stage = "launched"
      /\ \A c, d \in cmds' : c.image = d.image => c = d
  BY <1>1, LaunchCommands DEF Verbs
<1>3. deadline' \in [Images -> {"none", "running", "elapsed"}]
  BY <1>1
<1>4. UnexportedBeforeUmount'
  BY <1>1, <1>2 DEF UnexportedBeforeUmount
<1>5. CommandsOfPhase'
  BY <1>1, <1>2 DEF CommandsOfPhase
<1>6. MountsMounted'
  BY <1>1, <1>2 DEF MountsMounted
<1>7. MountsExported'
  BY <1>1 DEF MountsExported
<1> QED BY <1>1, <1>2, <1>3, <1>4, <1>5, <1>6, <1>7

\* The type of what a pass assigns.
StoreTypes ==
    /\ symlink \in [Nodes -> Images \cup {NoImage}]
    /\ mounts \in SUBSET Images
    /\ exported \in SUBSET Images
    /\ cmds \in SUBSET [verb : Verbs, image : Images, stage : Stages]
    /\ phase \in {"idle", "mounting", "unmounting", "stuck"}
    /\ pending \in SUBSET Images
    /\ phase \in {"idle", "stuck"} <=> pending = {}
    /\ toUnmount \in SUBSET Images
    /\ kept \in SUBSET Images
    /\ deadline \in [Images -> {"none", "running", "elapsed"}]
    /\ waiting \in SUBSET Nodes
    /\ outdated \in SUBSET Nodes
    /\ planned \in {"none", "armed", "joined"}

\* A pass that starts when no command is in flight, with everything it believes
\* mounted really mounted and exported, leads to a state of the invariant.
LEMMA PassInv ==
  ASSUME NEW assoc \in [Nodes -> Images \cup {NoImage, Missing}], NEW mts \in SUBSET Images,
         NEW exp \in SUBSET Images, NEW dl \in [Images -> {"none", "running", "elapsed"}],
         NEW wait \in SUBSET Nodes, NEW plan \in {"none", "armed", "joined"},
         symlink \in [Nodes -> Images \cup {NoImage}],
         mts \subseteq mounted, mts \subseteq exp,
         outdated \in SUBSET Nodes, mounted' = mounted,
         imageOf' \in [Nodes -> Images \cup {NoImage}],
         \A n \in Nodes : assoc[n] # Missing => assoc[n] = imageOf'[n],
         \A n \in Nodes \ (wait \cup outdated) :
             assoc[n] # Missing =>
                 /\ symlink[n] = assoc[n]
                 /\ assoc[n] # NoImage => assoc[n] \in mounted /\ assoc[n] \in exp,
         Pass(assoc, mts, exp, dl, {}, wait, plan)
  PROVE  StoreTypes' /\ UnexportedBeforeUmount' /\ UpInv'
<1> DEFINE used == ImagesInUse(assoc)
           new == to_be_mounted(assoc, mts)
           gone == to_be_unmounted(assoc, mts, dl)
           keep == all_mounts(assoc, mts, dl)
           dls == deadlines(assoc, mts, dl)
<1>1. /\ used \in SUBSET Images /\ new \in SUBSET Images /\ gone \in SUBSET mts
      /\ keep \in SUBSET Images /\ used \subseteq keep /\ keep \cap gone = {}
      /\ mts \subseteq keep \cup gone /\ new \subseteq keep
      /\ dls \in [Images -> {"none", "running", "elapsed"}]
      /\ \A i \in gone : dls[i] = "elapsed"
  BY PassSets
<1>2. \A n \in Nodes : assoc[n] \notin {NoImage, Missing} => assoc[n] \in used
  BY DEF ImagesInUse
<1>0. /\ nodes_left_out(assoc) \in SUBSET Nodes
      /\ \A n \in Nodes \ nodes_left_out(assoc) : assoc[n] # Missing
  BY DEF nodes_left_out
<1>3. new = used \ mts
  BY DEF to_be_mounted
<1>4. CASE PassMounts(assoc, mts, exp, dl, {}, wait, plan)
  <2>1. /\ new # {} /\ phase' = "mounting" /\ mounts' = mts \cup new
        /\ cmds' = launch("mount", new)
        /\ pending' = new /\ toUnmount' = gone /\ kept' = keep
        /\ deadline' = dls /\ exported' = exp /\ waiting' = wait
        /\ outdated' = outdated \cup nodes_left_out(assoc)
        /\ planned' = plan /\ symlink' = symlink
    BY <1>4 DEF PassMounts, some
  <2>2. /\ cmds' \in SUBSET [verb : Verbs, image : Images, stage : Stages]
        /\ \A c \in cmds' : c.verb = "mount" /\ c.image \in new /\ c.stage = "launched"
        /\ \A c, d \in cmds' : c.image = d.image => c = d
    <3> HIDE DEF new
    <3> QED BY <1>1, <2>1, LaunchCommands DEF Verbs
  <2> HIDE DEF new, gone, keep, dls, used
  <2>3. StoreTypes'
    BY <1>0, <1>1, <2>1, <2>2 DEF StoreTypes
  <2>4. UnexportedBeforeUmount'
    BY <2>2 DEF UnexportedBeforeUmount
  <2>5. CommandsOfPhase'
    BY <2>1, <2>2 DEF CommandsOfPhase
  <2>6. MountsMounted'
    BY <2>1, <2>2 DEF MountsMounted
  <2>7. MountsExported'
    BY <1>1, <2>1 DEF MountsExported
  <2>8. NodesServed'
    BY <1>0, <1>1, <1>2, <2>1 DEF NodesServed
  <2> QED BY <2>3, <2>4, <2>5, <2>6, <2>7, <2>8 DEF UpInv
<1>5. CASE PassUnmounts(assoc, mts, exp, dl, {}, wait, plan)
  <2>1. /\ gone # {} /\ unmount(gone, keep, mts, exp, dls, {})
        /\ toUnmount' = gone /\ kept' = keep /\ waiting' = wait
        /\ outdated' = outdated \cup nodes_left_out(assoc)
        /\ planned' = plan /\ symlink' = symlink
    BY <1>5 DEF PassUnmounts, some
  <2> HIDE DEF new, gone, keep, dls, used
  <2>2. /\ phase' = "unmounting"
        /\ mounts' = mts \ gone /\ pending' = gone /\ exported' = keep
        /\ cmds' \in SUBSET [verb : Verbs, image : Images, stage : Stages]
        /\ deadline' \in [Images -> {"none", "running", "elapsed"}]
        /\ UnexportedBeforeUmount'
        /\ CommandsOfPhase' /\ MountsMounted' /\ MountsExported'
    BY <1>1, <2>1, UnmountInv
  <2>3. StoreTypes'
    BY <1>0, <1>1, <2>1, <2>2 DEF StoreTypes
  <2>4. NodesServed'
    BY <1>0, <1>1, <1>2, <2>1, <2>2 DEF NodesServed
  <2> QED BY <2>2, <2>3, <2>4 DEF UpInv
<1>6. CASE PassEnds(assoc, mts, exp, dl, {}, wait, plan)
  <2>1. /\ new = {} /\ mounts' = mts /\ cmds' = {}
        /\ pending' = {} /\ toUnmount' = {} /\ kept' = {}
        /\ deadline' = dls /\ exported' = exp
    BY <1>6 DEF PassEnds
  <2>2. \/ /\ nodes_left_out(assoc) = {} /\ phase' = "idle" /\ symlink' = assoc
           /\ waiting' = {} /\ outdated' = {} /\ planned' = plan_next(plan, dls)
        \/ /\ phase' = "stuck" /\ symlink' = symlink
           /\ waiting' = wait /\ outdated' = outdated \cup nodes_left_out(assoc)
           /\ planned' = plan
    BY <1>6 DEF PassEnds, update_fails
  <2>3. plan_next(plan, dls) \in {"none", "armed", "joined"}
    BY DEF plan_next
  <2> HIDE DEF new, gone, keep, dls, used
  <2>4. nodes_left_out(assoc) = {} => assoc \in [Nodes -> Images \cup {NoImage}]
    BY <1>0
  <2>5. StoreTypes'
    BY <1>0, <1>1, <2>1, <2>2, <2>3, <2>4 DEF StoreTypes
  <2>6. UnexportedBeforeUmount' /\ CommandsOfPhase'
    BY <2>1 DEF UnexportedBeforeUmount, CommandsOfPhase
  <2>7. MountsMounted' /\ MountsExported'
    BY <2>1, <2>2 DEF MountsMounted, MountsExported
  <2>8. used \subseteq mounted /\ used \subseteq exp
    BY <1>3, <2>1
  <2>9. NodesServed'
    BY <1>0, <1>2, <2>1, <2>2, <2>8 DEF NodesServed
  <2> QED BY <2>5, <2>6, <2>7, <2>9 DEF UpInv
<1> QED BY <1>4, <1>5, <1>6 DEF Pass

-----------------------------------------------------------------------------
(***************************************************************************)
(* The steps.                                                              *)
(***************************************************************************)

LEMMA InitInv == Init => IInv
<1> SUFFICES ASSUME Init PROVE IInv
  OBVIOUS
<1>1. TypeOK
  BY DEF Init, TypeOK
<1>2. UnexportedBeforeUmount /\ DownInv /\ daemon = "down"
  BY DEF Init, UnexportedBeforeUmount, DownInv
<1> QED BY <1>1, <1>2 DEF IInv

\* The types in the two parts the proofs use.
LEMMA TypeParts ==
  TypeOK <=> /\ StoreTypes
             /\ daemon \in {"down", "up", "cleaning"}
             /\ imageOf \in [Nodes -> Images \cup {NoImage}]
             /\ absent \in SUBSET Nodes
             /\ clone \in {"none", "running", "retagged"}
             /\ mounted \in SUBSET Images
             /\ changes \in Nat /\ failures \in Nat /\ starts \in Nat
BY DEF TypeOK, StoreTypes

LEMMA TypePartsNext ==
  TypeOK' <=> /\ StoreTypes'
              /\ daemon' \in {"down", "up", "cleaning"}
              /\ imageOf' \in [Nodes -> Images \cup {NoImage}]
              /\ absent' \in SUBSET Nodes
              /\ clone' \in {"none", "running", "retagged"}
              /\ mounted' \in SUBSET Images
              /\ changes' \in Nat /\ failures' \in Nat /\ starts' \in Nat
BY DEF TypeOK, StoreTypes

\* An update requested for the nodes ns, whose association is the only one changed.
LEMMA UpdateInv ==
  ASSUME TypeOK, UnexportedBeforeUmount, NEW ns \in SUBSET Nodes,
         NEW assoc \in [Nodes -> Images \cup {NoImage, Missing}],
         imageOf' \in [Nodes -> Images \cup {NoImage}],
         \A n \in Nodes : assoc[n] # Missing => assoc[n] = imageOf'[n],
         \A n \in Nodes \ ns : imageOf'[n] = imageOf[n],
         UpInv \/ (DownInv /\ ns = Nodes),
         wf_update_image_mounts(assoc, ns), mounted' = mounted
  PROVE  StoreTypes' /\ UnexportedBeforeUmount' /\ UpInv'
<1>1. StoreTypes /\ mounted \in SUBSET Images
  BY TypeParts
<1>2. CASE phase = "idle"
  <2>1. cmds = {}
    BY <1>1, <1>2 DEF UpInv, CommandsOfPhase, DownInv, StoreTypes
  <2>2. Pass(assoc, mounts, exported, deadline, {}, waiting \cup ns, planned)
    BY <1>2, <2>1 DEF wf_update_image_mounts
  <2>3. mounts \subseteq mounted /\ mounts \subseteq exported
    BY <1>2 DEF UpInv, MountsMounted, MountsExported, DownInv
  <2>4. ASSUME NEW n \in Nodes \ ((waiting \cup ns) \cup outdated), assoc[n] # Missing
        PROVE  /\ symlink[n] = assoc[n]
               /\ assoc[n] # NoImage => assoc[n] \in mounted /\ assoc[n] \in exported
    BY <2>4 DEF UpInv, NodesServed
  <2>5. /\ mounts \in SUBSET Images /\ exported \in SUBSET Images
        /\ deadline \in [Images -> {"none", "running", "elapsed"}]
        /\ waiting \cup ns \in SUBSET Nodes /\ outdated \in SUBSET Nodes
        /\ planned \in {"none", "armed", "joined"}
        /\ symlink \in [Nodes -> Images \cup {NoImage}]
    BY <1>1 DEF StoreTypes
  <2> QED BY <2>2, <2>3, <2>4, <2>5, PassInv
<1>3. CASE phase # "idle"
  <2>1. /\ waiting' = waiting \cup ns
        /\ UNCHANGED <<symlink, mounts, exported, cmds, phase, pending, toUnmount,
                       kept, deadline, outdated, planned>>
    BY <1>3 DEF wf_update_image_mounts
  <2>2. UpInv
    BY <1>3 DEF DownInv
  <2>3. StoreTypes' /\ UnexportedBeforeUmount'
    BY <1>1, <2>1 DEF StoreTypes, UnexportedBeforeUmount
  <2>4. CommandsOfPhase' /\ MountsMounted' /\ MountsExported'
    BY <2>1, <2>2 DEF UpInv, CommandsOfPhase, MountsMounted, MountsExported
  <2>5. NodesServed'
    BY <1>1, <2>1, <2>2 DEF UpInv, NodesServed, StoreTypes
  <2> QED BY <2>3, <2>4, <2>5 DEF UpInv
<1> QED BY <1>2, <1>3

\* A step of the update workflow ends, while the daemon is up.
LEMMA StepEndsInv ==
  ASSUME TypeOK, UnexportedBeforeUmount, UpInv, NEW c \in cmds, c.stage = "done",
         pending \ {c.image} = {}, mounted' = mounted, imageOf' = imageOf,
         IF phase = "mounting" THEN AfterMounts(cmds \ {c}) ELSE AfterUnmounts(cmds \ {c})
  PROVE  StoreTypes' /\ UnexportedBeforeUmount' /\ UpInv'
<1> DEFINE seen == looked_up(imageOf, absent)
<1>1. /\ StoreTypes /\ mounted \in SUBSET Images
      /\ imageOf \in [Nodes -> Images \cup {NoImage}] /\ absent \in SUBSET Nodes
  BY TypeParts
<1>0. /\ seen \in [Nodes -> Images \cup {NoImage, Missing}]
      /\ \A n \in Nodes : seen[n] # Missing => seen[n] = imageOf[n]
  BY <1>1, LookedUp
<1>2. cmds \ {c} = {}
  BY DEF UpInv, CommandsOfPhase
<1>3. phase \in {"mounting", "unmounting"} /\ pending = {c.image}
  BY <1>1 DEF UpInv, CommandsOfPhase, StoreTypes
<1>4. mounts \subseteq mounted
  BY <1>3 DEF UpInv, MountsMounted, CommandsOfPhase
<1>5. /\ mounts \in SUBSET Images /\ exported \in SUBSET Images /\ kept \in SUBSET Images
      /\ toUnmount \in SUBSET Images
      /\ deadline \in [Images -> {"none", "running", "elapsed"}]
      /\ waiting \in SUBSET Nodes /\ outdated \in SUBSET Nodes
      /\ planned \in {"none", "armed", "joined"}
      /\ symlink \in [Nodes -> Images \cup {NoImage}]
  BY <1>1 DEF StoreTypes
<1>6. CASE phase = "mounting" /\ toUnmount # {}
  <2>1. /\ unmount(toUnmount, kept, mounts, exported, deadline, {})
        /\ UNCHANGED <<symlink, toUnmount, kept, waiting, outdated, planned>>
    BY <1>2, <1>6 DEF AfterMounts, some
  <2>2. mounts \subseteq kept \cup toUnmount /\ toUnmount \cap kept = {}
    BY <1>6 DEF UpInv, MountsExported
  <2>3. /\ phase' = "unmounting"
        /\ mounts' = mounts \ toUnmount /\ pending' = toUnmount /\ exported' = kept
        /\ cmds' \in SUBSET [verb : Verbs, image : Images, stage : Stages]
        /\ deadline' \in [Images -> {"none", "running", "elapsed"}]
        /\ UnexportedBeforeUmount'
        /\ CommandsOfPhase' /\ MountsMounted' /\ MountsExported'
    BY <1>4, <1>5, <1>6, <2>1, <2>2, UnmountInv
  <2>4. StoreTypes'
    BY <1>1, <1>6, <2>1, <2>3 DEF StoreTypes
  <2>5. NodesServed'
    BY <1>6, <2>1, <2>3 DEF UpInv, NodesServed
  <2> QED BY <2>3, <2>4, <2>5 DEF UpInv
<1>7. CASE phase = "mounting" /\ toUnmount = {}
  <2>1. Pass(seen, mounts, kept, deadline, {}, waiting, planned)
    BY <1>2, <1>7 DEF AfterMounts, some
  <2>2. mounts \subseteq kept
    BY <1>7 DEF UpInv, MountsExported
  <2>3. \A n \in Nodes \ (waiting \cup outdated) :
            seen[n] # Missing =>
                /\ symlink[n] = seen[n]
                /\ seen[n] # NoImage => seen[n] \in mounted /\ seen[n] \in kept
    BY <1>0, <1>7 DEF UpInv, NodesServed
  <2> HIDE DEF seen
  <2> QED BY <1>0, <1>1, <1>4, <1>5, <2>1, <2>2, <2>3, PassInv
<1>8. CASE phase = "unmounting"
  <2>1. Pass(seen, mounts, exported, deadline, {}, waiting, planned)
    BY <1>2, <1>8 DEF AfterUnmounts
  <2>2. mounts \subseteq exported
    BY <1>8 DEF UpInv, MountsExported
  <2>3. \A n \in Nodes \ (waiting \cup outdated) :
            seen[n] # Missing =>
                /\ symlink[n] = seen[n]
                /\ seen[n] # NoImage => seen[n] \in mounted /\ seen[n] \in exported
    BY <1>0 DEF UpInv, NodesServed
  <2> HIDE DEF seen
  <2> QED BY <1>0, <1>1, <1>4, <1>5, <2>1, <2>2, <2>3, PassInv
<1> QED BY <1>3, <1>6, <1>7, <1>8

\* A command that did its work, or failed to: its image is the only one concerned.
LEMMA CommandWorksInv ==
  ASSUME IInv, NEW c \in cmds, CommandRuns(c) \/ CommandFails(c)
  PROVE  IInv'
<1> DEFINE d == IF CommandRuns(c) THEN [c EXCEPT !.stage = "done"]
                ELSE [c EXCEPT !.stage = "failed"]
<1>0. /\ UNCHANGED <<daemon, imageOf, absent, clone, symlink, exported, store, changes,
                      starts>>
      /\ c \in [verb : Verbs, image : Images, stage : Stages]
      /\ failures \in Nat /\ failures' \in Nat
  BY DEF IInv, TypeOK, CommandRuns, CommandFails, counters, names
<1>1. /\ cmds' = (cmds \ {c}) \cup {d}
      /\ d \in [verb : Verbs, image : Images, stage : Stages]
      /\ d.verb = c.verb /\ d.image = c.image
      /\ d.stage = "done" => Succeeds(c)
  BY <1>0 DEF CommandRuns, CommandFails, Stages
<1>2. \/ mounted' = mounted /\ d.stage = "failed"
      \/ c.verb = "mount" /\ mounted' = mounted \cup {c.image}
      \/ /\ c.verb = "umount" /\ mounted' = mounted \ {c.image}
         /\ c.image \notin exported
  BY <1>0 DEF CommandRuns, CommandFails, Succeeds
<1> HIDE DEF d
<1>3. mounted' \in SUBSET Images /\ cmds' \in SUBSET [verb : Verbs, image : Images, stage : Stages]
  BY <1>0, <1>1, <1>2 DEF IInv, TypeOK
<1>4. TypeOK'
  <2>1. StoreTypes'
    BY <1>0, <1>3, TypeParts DEF IInv, StoreTypes, store
  <2> QED BY <1>0, <1>3, <2>1, TypeParts, TypePartsNext DEF IInv
<1>5. UnexportedBeforeUmount'
  BY <1>0, <1>1 DEF IInv, UnexportedBeforeUmount, store
<1>6. ASSUME daemon = "up" PROVE UpInv'
  <2>1. UpInv
    BY <1>6 DEF IInv
  <2>2. CommandsOfPhase'
    BY <1>0, <1>1, <2>1 DEF UpInv, CommandsOfPhase, store
  <2>3. MountsMounted'
    <3>1. c.image \in pending /\ phase \notin {"idle", "stuck"}
      BY <2>1, TypeParts DEF UpInv, CommandsOfPhase, IInv, StoreTypes
    <3>2. \A e \in cmds \ {c} : e.image # c.image
      BY <2>1 DEF UpInv, CommandsOfPhase
    <3>3. phase = "mounting" => c.verb = "mount"
      BY <2>1 DEF UpInv, CommandsOfPhase
    <3>4. phase = "unmounting" => c.verb = "umount"
      BY <2>1 DEF UpInv, CommandsOfPhase
    <3>5. d.verb = "mount" /\ d.stage = "done" => c.image \in mounted'
      BY <1>1 DEF Succeeds
    <3>6. \A e \in cmds' : e.verb = "mount" /\ e.stage = "done" => e.image \in mounted'
      BY <1>1, <1>2, <3>2, <3>5, <2>1 DEF UpInv, MountsMounted
    <3>7. phase \in {"mounting", "unmounting"}
      BY <3>1, TypeParts DEF IInv, StoreTypes
    <3>8. CASE phase = "mounting"
      BY <1>0, <1>2, <2>1, <3>1, <3>3, <3>6, <3>8 DEF UpInv, MountsMounted, store
    <3>9. CASE phase = "unmounting"
      BY <1>0, <1>2, <2>1, <3>1, <3>4, <3>6, <3>9 DEF UpInv, MountsMounted, store
    <3> QED BY <3>7, <3>8, <3>9
  <2>4. MountsExported'
    BY <1>0, <2>1 DEF UpInv, MountsExported, store
  <2>5. NodesServed'
    BY <1>0, <1>2, <2>1 DEF UpInv, NodesServed, store
  <2> QED BY <2>2, <2>3, <2>4, <2>5 DEF UpInv
<1>7. daemon # "down"
  BY DEF IInv, DownInv
<1> QED BY <1>0, <1>4, <1>5, <1>6, <1>7 DEF IInv

LEMMA NextInv == IInv /\ [Next]_vars => IInv'
<1> SUFFICES ASSUME IInv, [Next]_vars PROVE IInv'
  OBVIOUS
<1>1. /\ TypeOK /\ UnexportedBeforeUmount
      /\ daemon = "up" => UpInv
      /\ daemon = "down" => DownInv
  BY DEF IInv
<1>2. CASE Start
  <2>1. /\ daemon = "down" /\ daemon' = "up" /\ starts' = starts + 1
        /\ wf_update_image_mounts(imageOf, Nodes)
        /\ UNCHANGED <<imageOf, absent, clone, mounted, changes, failures>>
    BY <1>2 DEF Start, names
  <2>2. StoreTypes' /\ UnexportedBeforeUmount' /\ UpInv'
    BY <1>1, <2>1, UpdateInv, TypeParts
  <2>3. TypeOK'
    BY <1>1, <2>1, <2>2, TypeParts, TypePartsNext
  <2> QED BY <2>1, <2>2, <2>3 DEF IInv
<1>3. ASSUME NEW ns \in SUBSET Nodes, NEW i \in Images \cup {NoImage}, NEW gone \in BOOLEAN,
             Request(ns, i, gone)
      PROVE  IInv'
  <2> DEFINE assoc == [n \in Nodes |-> IF n \in ns THEN i ELSE imageOf[n]]
             away == IF gone THEN absent \cup ns ELSE absent \ ns
             seen == looked_up(imageOf', absent')
  <2>1. /\ daemon = "up" /\ changes' = changes + 1
        /\ imageOf' = assoc /\ absent' = away
        /\ wf_update_image_mounts(seen, ns)
        /\ UNCHANGED <<daemon, clone, mounted, failures, starts>>
    BY <1>3 DEF Request
  <2>2. /\ assoc \in [Nodes -> Images \cup {NoImage}]
        /\ \A n \in Nodes \ ns : assoc[n] = imageOf[n]
        /\ away \in SUBSET Nodes
    BY <1>1 DEF TypeOK
  <2> HIDE DEF assoc, away
  <2>3. /\ seen \in [Nodes -> Images \cup {NoImage, Missing}]
        /\ \A n \in Nodes : seen[n] # Missing => seen[n] = imageOf'[n]
    BY <2>1, <2>2, LookedUp
  <2> HIDE DEF seen
  <2>4. StoreTypes' /\ UnexportedBeforeUmount' /\ UpInv'
    BY <1>1, <2>1, <2>2, <2>3, UpdateInv
  <2>5. TypeOK'
    BY <1>1, <2>1, <2>2, <2>4, TypeParts, TypePartsNext
  <2> QED BY <2>1, <2>4, <2>5 DEF IInv
<1>4. CASE PlannedUpdate
  <2>1. /\ daemon = "up"
        /\ UNCHANGED <<daemon, imageOf, absent, clone, mounted, changes, failures, starts>>
    BY <1>4 DEF PlannedUpdate, counters, names
  <2>2. StoreTypes' /\ UnexportedBeforeUmount' /\ UpInv'
    <3> DEFINE seen == looked_up(imageOf, absent)
    <3>1. CASE phase = "idle"
      <4>1. cmds = {}
        BY <1>1, <2>1, <3>1 DEF UpInv, CommandsOfPhase, TypeOK
      <4>2. Pass(seen, mounts, exported, deadline, {}, waiting, "joined")
        BY <1>4, <3>1, <4>1 DEF PlannedUpdate
      <4>3. mounts \subseteq mounted /\ mounts \subseteq exported
        BY <1>1, <2>1, <3>1 DEF UpInv, MountsMounted, MountsExported
      <4>4. /\ imageOf \in [Nodes -> Images \cup {NoImage}]
            /\ symlink \in [Nodes -> Images \cup {NoImage}]
            /\ mounts \in SUBSET Images /\ exported \in SUBSET Images
            /\ deadline \in [Images -> {"none", "running", "elapsed"}]
            /\ waiting \in SUBSET Nodes /\ outdated \in SUBSET Nodes
            /\ absent \in SUBSET Nodes
        BY <1>1 DEF TypeOK
      <4>5. /\ seen \in [Nodes -> Images \cup {NoImage, Missing}]
            /\ \A n \in Nodes : seen[n] # Missing => seen[n] = imageOf[n]
        BY <4>4, LookedUp
      <4>6. \A n \in Nodes \ (waiting \cup outdated) :
                seen[n] # Missing =>
                    /\ symlink[n] = seen[n]
                    /\ seen[n] # NoImage => seen[n] \in mounted /\ seen[n] \in exported
        BY <1>1, <2>1, <4>5 DEF UpInv, NodesServed
      <4> HIDE DEF seen
      <4> QED BY <2>1, <4>2, <4>3, <4>4, <4>5, <4>6, PassInv
    <3>2. CASE phase # "idle"
      <4>1. /\ planned' = "joined"
            /\ UNCHANGED <<symlink, mounts, exported, cmds, phase, pending, toUnmount,
                           kept, deadline, waiting, outdated>>
        BY <1>4, <3>2 DEF PlannedUpdate
      <4>2. StoreTypes' /\ UnexportedBeforeUmount'
        BY <1>1, <4>1, TypeParts DEF StoreTypes, UnexportedBeforeUmount
      <4>3. CommandsOfPhase' /\ MountsMounted' /\ MountsExported' /\ NodesServed'
        BY <1>1, <2>1, <4>1
           DEF UpInv, CommandsOfPhase, MountsMounted, MountsExported, NodesServed
      <4> QED BY <4>2, <4>3 DEF UpInv
    <3> QED BY <3>1, <3>2
  <2>3. TypeOK'
    BY <1>1, <2>1, <2>2, TypeParts, TypePartsNext
  <2> QED BY <2>1, <2>2, <2>3 DEF IInv
<1>5. ASSUME NEW i \in Images, GraceExpires(i) PROVE IInv'
  <2>1. /\ daemon = "up" /\ deadline' = [deadline EXCEPT ![i] = "elapsed"]
        /\ UNCHANGED <<daemon, imageOf, absent, clone, symlink, mounts, mounted, exported,
                       cmds, phase, pending, toUnmount, kept, waiting, outdated, planned,
                       changes, failures, starts>>
    BY <1>5 DEF GraceExpires, counters, names
  <2>2. TypeOK'
    BY <1>1, <2>1 DEF TypeOK
  <2>3. UnexportedBeforeUmount' /\ CommandsOfPhase' /\ MountsMounted' /\ NodesServed'
    BY <1>1, <2>1 DEF UnexportedBeforeUmount, UpInv, CommandsOfPhase, MountsMounted, NodesServed
  <2>4. MountsExported'
    BY <1>1, <2>1 DEF UpInv, MountsExported, TypeOK
  <2> QED BY <2>1, <2>2, <2>3, <2>4 DEF IInv, UpInv
<1>6. CASE TftpUpdate
  <2>1. /\ daemon = "up" /\ symlink' = imageOf
        /\ UNCHANGED <<daemon, imageOf, absent, clone, mounted, exported, cmds, mounts, phase,
                       pending, toUnmount, kept, deadline, waiting, outdated, planned,
                       changes, failures, starts>>
    BY <1>6 DEF TftpUpdate, store, counters, names
  <2>2. TypeOK'
    BY <1>1, <2>1 DEF TypeOK
  <2>3. UnexportedBeforeUmount' /\ CommandsOfPhase' /\ MountsMounted' /\ MountsExported'
    BY <1>1, <2>1 DEF UnexportedBeforeUmount, UpInv, CommandsOfPhase, MountsMounted, MountsExported
  <2>4. NodesServed'
    BY <1>1, <2>1 DEF UpInv, NodesServed
  <2> QED BY <2>1, <2>2, <2>3, <2>4 DEF IInv, UpInv
<1>7. ASSUME NEW c \in cmds, CommandRuns(c) \/ CommandFails(c) PROVE IInv'
  BY <1>7, CommandWorksInv
<1>8. ASSUME NEW c \in cmds, CommandEnds(c) PROVE IInv'
  <2>1. UNCHANGED <<daemon, imageOf, absent, clone, mounted, changes, failures, starts>>
    BY <1>8 DEF CommandEnds, counters, names
  <2>2. CASE /\ cmds' = cmds \ {c}
             /\ UNCHANGED <<symlink, exported, store>>
    <3>1. /\ cmds' \subseteq cmds
          /\ UNCHANGED <<symlink, exported, mounts, phase, pending, toUnmount, kept,
                         deadline, waiting, outdated, planned>>
      BY <2>2 DEF store
    <3>2. TypeOK'
      BY <1>1, <2>1, <3>1 DEF TypeOK
    <3>3. UnexportedBeforeUmount'
      BY <1>1, <3>1 DEF UnexportedBeforeUmount
    <3>4. daemon = "up" => UpInv'
      BY <1>1, <2>1, <3>1
         DEF UpInv, CommandsOfPhase, MountsMounted, MountsExported, NodesServed
    <3>5. daemon = "down" => DownInv'
      BY <1>1, <2>1, <3>1 DEF DownInv
    <3> QED BY <2>1, <3>2, <3>3, <3>4, <3>5 DEF IInv
  <2>3. CASE /\ c.stage = "done" /\ daemon = "up" /\ ~AllStepsDone(pending \ {c.image})
             /\ cmds' = cmds \ {c} /\ pending' = pending \ {c.image}
             /\ UNCHANGED <<symlink, mounts, exported, phase, toUnmount, kept,
                            deadline, waiting, outdated, planned>>
    <3>1. \A d \in cmds' : d \in cmds /\ d.image # c.image
      BY <1>1, <2>3 DEF UpInv, CommandsOfPhase
    <3>2. TypeOK'
      BY <1>1, <2>1, <2>3 DEF TypeOK, AllStepsDone
    <3>3. UnexportedBeforeUmount'
      BY <1>1, <2>3, <3>1 DEF UnexportedBeforeUmount
    <3>4. CommandsOfPhase'
      BY <1>1, <2>3, <3>1 DEF UpInv, CommandsOfPhase
    <3>5. phase = "mounting" => c.image \in mounted
      BY <1>1, <2>3 DEF UpInv, CommandsOfPhase, MountsMounted
    <3>6. MountsMounted'
      BY <1>1, <2>1, <2>3, <3>1, <3>5 DEF UpInv, MountsMounted
    <3>7. MountsExported' /\ NodesServed'
      BY <1>1, <2>1, <2>3 DEF UpInv, MountsExported, NodesServed
    <3> QED BY <2>1, <2>3, <3>2, <3>3, <3>4, <3>6, <3>7 DEF IInv, UpInv
  <2>4. CASE /\ c.stage = "done" /\ daemon = "up" /\ AllStepsDone(pending \ {c.image})
             /\ IF phase = "mounting" THEN AfterMounts(cmds \ {c})
                                      ELSE AfterUnmounts(cmds \ {c})
    <3>1. StoreTypes' /\ UnexportedBeforeUmount' /\ UpInv'
      BY <1>1, <2>1, <2>4, StepEndsInv DEF AllStepsDone
    <3>2. TypeOK'
      BY <1>1, <2>1, <3>1, TypeParts, TypePartsNext
    <3> QED BY <2>1, <2>4, <3>1, <3>2 DEF IInv
  <2> QED BY <1>8, <2>2, <2>3, <2>4 DEF CommandEnds
<1>9. CASE Cleanup
  <2>1. /\ daemon' = "cleaning" /\ symlink' = imageOf
        /\ cmds' = cmds \cup launch("umount", mounts)
        /\ exported' = IF mounts = {} THEN exported ELSE {}
        /\ UNCHANGED <<imageOf, absent, clone, mounted, changes, failures, starts>>
    BY <1>9 DEF Cleanup, counters, names
  <2>2. /\ mounts' = {} /\ phase' = "idle" /\ pending' = {} /\ toUnmount' = {}
        /\ kept' = {} /\ waiting' = {} /\ outdated' = {} /\ planned' = "none"
        /\ deadline' = [i \in Images |-> "none"]
    BY <1>9 DEF Cleanup, EmptyStore
  <2>3. /\ launch("umount", mounts) \in SUBSET [verb : Verbs, image : Images, stage : Stages]
        /\ mounts = {} => launch("umount", mounts) = {}
    BY <1>1, LaunchCommands DEF TypeOK, Verbs
  <2>4. TypeOK'
    BY <1>1, <2>1, <2>2, <2>3 DEF TypeOK
  <2>5. UnexportedBeforeUmount'
    BY <1>1, <2>1, <2>3 DEF UnexportedBeforeUmount
  <2> QED BY <2>1, <2>4, <2>5 DEF IInv
<1>10. CASE Stop
  <2>1. /\ daemon' = "down" /\ cmds' = {} /\ clone' = "none"
        /\ UNCHANGED <<imageOf, absent, symlink, mounted, exported, changes, failures, starts>>
    BY <1>10 DEF Stop, counters
  <2>2. /\ mounts' = {} /\ phase' = "idle" /\ pending' = {} /\ toUnmount' = {}
        /\ kept' = {} /\ waiting' = {} /\ outdated' = {} /\ planned' = "none"
        /\ deadline' = [i \in Images |-> "none"]
    BY <1>10 DEF Stop, EmptyStore
  <2>3. TypeOK'
    BY <1>1, <2>1, <2>2 DEF TypeOK
  <2>4. UnexportedBeforeUmount' /\ DownInv'
    BY <2>1, <2>2 DEF UnexportedBeforeUmount, DownInv
  <2> QED BY <2>1, <2>3, <2>4 DEF IInv
<1>11. CASE UNCHANGED vars
  <2>1. UNCHANGED <<daemon, imageOf, absent, clone, symlink, mounts, mounted, exported, cmds,
                    phase, pending, toUnmount, kept, deadline, waiting, outdated, planned,
                    changes, failures, starts>>
    BY <1>11 DEF vars
  <2>2. TypeOK'
    BY <1>1, <2>1 DEF TypeOK
  <2>3. UnexportedBeforeUmount'
    BY <1>1, <2>1 DEF UnexportedBeforeUmount
  <2>4. daemon = "up" => UpInv'
    BY <1>1, <2>1 DEF UpInv, CommandsOfPhase, MountsMounted, MountsExported, NodesServed
  <2>5. daemon = "down" => DownInv'
    BY <1>1, <2>1 DEF DownInv
  <2> QED BY <2>1, <2>2, <2>3, <2>4, <2>5 DEF IInv
<1>12. ASSUME NEW ns \in SUBSET Nodes, NameRemoved(ns) PROVE IInv'
  <2>1. /\ changes' \in Nat /\ absent' = absent \cup ns
        /\ clone' \in {"none", "running", "retagged"}
        /\ UNCHANGED <<daemon, imageOf, symlink, mounted, exported, cmds, mounts, phase,
                       pending, toUnmount, kept, deadline, waiting, outdated, planned,
                       failures, starts>>
    BY <1>1, <1>12 DEF NameRemoved, store, TypeOK
  <2>2. TypeOK'
    BY <1>1, <2>1 DEF TypeOK
  <2>3. UnexportedBeforeUmount' /\ (daemon = "up" => UpInv') /\ (daemon = "down" => DownInv')
    BY <1>1, <2>1 DEF UnexportedBeforeUmount, UpInv, DownInv, CommandsOfPhase, MountsMounted,
                      MountsExported, NodesServed
  <2> QED BY <2>1, <2>2, <2>3 DEF IInv
<1>13. ASSUME NEW ns \in SUBSET Nodes, NEW i \in Images, NameRestored(ns, i) PROVE IInv'
  <2>1. /\ imageOf' = [n \in Nodes |-> IF n \in ns THEN i ELSE imageOf[n]]
        /\ outdated' = outdated \cup {n \in ns : imageOf[n] # i}
        /\ absent' = absent \ ns /\ clone' \in {"none", "running", "retagged"}
        /\ UNCHANGED <<daemon, symlink, mounted, exported, cmds, mounts, phase, pending,
                       toUnmount, kept, deadline, waiting, planned, changes, failures, starts>>
    BY <1>1, <1>13 DEF NameRestored, counters, TypeOK
  <2>2. /\ imageOf' \in [Nodes -> Images \cup {NoImage}]
        /\ outdated' \in SUBSET Nodes
        /\ \A n \in Nodes \ outdated' : imageOf'[n] = imageOf[n] /\ n \notin outdated
    BY <1>1, <2>1 DEF TypeOK
  <2>3. TypeOK'
    BY <1>1, <2>1, <2>2 DEF TypeOK
  <2>4. /\ UnexportedBeforeUmount' /\ (daemon = "down" => DownInv')
        /\ daemon = "up" => CommandsOfPhase' /\ MountsMounted' /\ MountsExported'
    BY <1>1, <2>1 DEF UnexportedBeforeUmount, UpInv, DownInv, CommandsOfPhase, MountsMounted,
                      MountsExported
  <2>5. daemon = "up" => NodesServed'
    BY <1>1, <2>1, <2>2 DEF UpInv, NodesServed
  <2> QED BY <2>1, <2>3, <2>4, <2>5 DEF IInv, UpInv
<1>14. CASE CloneSucceeds
  <2>1. /\ daemon = "up" /\ clone' = "none"
        /\ wf_update_image_mounts(imageOf, {})
        /\ UNCHANGED <<daemon, imageOf, absent, mounted, changes, failures, starts>>
    BY <1>14 DEF CloneSucceeds, trigger_update_image_mounts, counters
  <2>2. StoreTypes' /\ UnexportedBeforeUmount' /\ UpInv'
    BY <1>1, <2>1, UpdateInv, TypeParts
  <2>3. TypeOK'
    BY <1>1, <2>1, <2>2, TypeParts, TypePartsNext
  <2> QED BY <2>1, <2>2, <2>3 DEF IInv
<1>15. CASE CloneFails
  <2>1. /\ clone' = "none" /\ failures' \in Nat
        /\ UNCHANGED <<daemon, imageOf, absent, symlink, mounted, exported, cmds, mounts, phase,
                       pending, toUnmount, kept, deadline, waiting, outdated, planned,
                       changes, starts>>
    BY <1>1, <1>15 DEF CloneFails, store, TypeOK
  <2>2. TypeOK'
    BY <1>1, <2>1 DEF TypeOK
  <2>3. UnexportedBeforeUmount' /\ (daemon = "up" => UpInv') /\ (daemon = "down" => DownInv')
    BY <1>1, <2>1 DEF UnexportedBeforeUmount, UpInv, DownInv, CommandsOfPhase, MountsMounted,
                      MountsExported, NodesServed
  <2> QED BY <2>1, <2>2, <2>3 DEF IInv
<1> QED
  BY <1>2, <1>3, <1>4, <1>5, <1>6, <1>7, <1>8, <1>9, <1>10, <1>11, <1>12, <1>13, <1>14, <1>15
     DEF Next

LEMMA InvHolds == Spec => []IInv
BY InitInv, NextInv, PTL DEF Spec

-----------------------------------------------------------------------------
(***************************************************************************)
(* The theorems.                                                           *)
(***************************************************************************)

\* The variables keep their types, and an update workflow always has a step of its
\* own to wait for (store.py:378-396).
THEOREM TypeCorrect == Spec => []TypeOK
BY InvHolds, PTL DEF IInv

\* What the update workflow promises to the workflows that wait for it: when they go
\* on, the images of their nodes are mounted, exported and linked (store.py:302-376), and
\* they stay so until a pass finds that a clone has removed the name of the image, or the
\* clone gives this name to another one. A pass that finds a name missing mounts and
\* exports the other images, and lets no workflow go on.
THEOREM UpdatePromise == Spec => []AssociatedImageServed
<1>1. IInv => AssociatedImageServed
  BY DEF IInv, UpInv, NodesServed, AssociatedImageServed
<1> QED BY <1>1, InvHolds, PTL

\* An image is never unmounted while NFS exports it (store.py:352).
THEOREM ExportsReleased == Spec => []UnexportedBeforeUmount
BY InvHolds, PTL DEF IInv

\* The mount and the umount of an image never race while the daemon runs.
THEOREM CommandsSerialized == Spec => []OneCommandPerImage
<1>1. IInv => OneCommandPerImage
  BY DEF IInv, UpInv, CommandsOfPhase, OneCommandPerImage
<1> QED BY <1>1, InvHolds, PTL

\* A pass only unmounts images whose deadline has passed.
LEMMA PassRespectsGrace ==
  ASSUME TypeOK, NEW assoc, NEW exp, NEW cs, NEW wait, NEW plan,
         Pass(assoc, mounts, exp, deadline, cs, wait, plan)
  PROVE  \A i \in mounts \ mounts' : deadline[i] = "elapsed"
<1>1. \A i \in to_be_unmounted(assoc, mounts, deadline) : deadline[i] = "elapsed"
  BY DEF to_be_unmounted
<1>2. mounts \ mounts' \subseteq to_be_unmounted(assoc, mounts, deadline)
  BY DEF Pass, PassMounts, PassUnmounts, PassEnds, unmount
<1> QED BY <1>1, <1>2

\* The grace time (store.py:22-32): nobody but cleanup() unmounts an image before its
\* deadline.
THEOREM GraceTime == Spec => GraceRespected
<1> DEFINE Respects == daemon' = "up" => \A i \in mounts \ mounts' : deadline[i] = "elapsed"
<1>1. IInv /\ [Next]_vars => Respects
  <2> SUFFICES ASSUME IInv, [Next]_vars, daemon' = "up"
               PROVE  \A i \in mounts \ mounts' : deadline[i] = "elapsed"
    OBVIOUS
  <2>0. TypeOK
    BY DEF IInv
  <2>1. ASSUME NEW ns, NEW assoc, wf_update_image_mounts(assoc, ns)
        PROVE  \A i \in mounts \ mounts' : deadline[i] = "elapsed"
    BY <2>0, <2>1, PassRespectsGrace DEF wf_update_image_mounts
  <2>2. CASE Start
    BY <2>0, <2>1, <2>2 DEF Start
  <2>3. ASSUME NEW ns \in SUBSET Nodes, NEW i \in Images \cup {NoImage}, NEW gone \in BOOLEAN,
               Request(ns, i, gone)
        PROVE  \A j \in mounts \ mounts' : deadline[j] = "elapsed"
    BY <2>1, <2>3 DEF Request
  <2>4. CASE PlannedUpdate
    BY <2>0, <2>4, PassRespectsGrace DEF PlannedUpdate
  <2>5. ASSUME NEW c \in cmds, CommandEnds(c)
        PROVE  \A i \in mounts \ mounts' : deadline[i] = "elapsed"
    <3>1. CASE mounts' = mounts
      BY <3>1
    <3>2. CASE phase = "mounting" /\ AfterMounts(cmds \ {c})
      <4>1. CASE Pass(looked_up(imageOf, absent), mounts, kept, deadline, cmds \ {c}, waiting, planned)
        BY <2>0, <4>1, PassRespectsGrace
      <4>2. CASE unmount(toUnmount, kept, mounts, exported, deadline, cmds \ {c})
        <5>1. daemon = "up"
          BY <2>5 DEF CommandEnds
        <5>2. \A i \in toUnmount : deadline[i] = "elapsed"
          BY <3>2, <5>1 DEF IInv, UpInv, MountsExported
        <5> QED BY <4>2, <5>2 DEF unmount
      <4> QED BY <3>2, <4>1, <4>2 DEF AfterMounts
    <3>3. CASE AfterUnmounts(cmds \ {c})
      BY <2>0, <3>3, PassRespectsGrace DEF AfterUnmounts
    <3> QED BY <2>5, <3>1, <3>2, <3>3 DEF CommandEnds, store
  <2>6. CASE Cleanup \/ Stop
    BY <2>6 DEF Cleanup, Stop
  <2>7. CASE TftpUpdate \/ \E i \in Images : GraceExpires(i)
    BY <2>7 DEF TftpUpdate, GraceExpires, store
  <2>8. CASE \E c \in cmds : CommandRuns(c) \/ CommandFails(c)
    BY <2>8 DEF CommandRuns, CommandFails, store
  <2>9. CASE UNCHANGED vars
    BY <2>9 DEF vars
  <2>10. CASE CloneSucceeds
    BY <2>1, <2>10 DEF CloneSucceeds, trigger_update_image_mounts
  <2>11. CASE CloneFails \/ \E ns \in SUBSET Nodes : NameRemoved(ns)
    BY <2>11 DEF CloneFails, NameRemoved, store
  <2>12. CASE \E ns \in SUBSET Nodes, i \in Images : NameRestored(ns, i)
    BY <2>12 DEF NameRestored
  <2> QED
    BY <2>2, <2>3, <2>4, <2>5, <2>6, <2>7, <2>8, <2>9, <2>10, <2>11, <2>12 DEF Next
<1>2. [][Respects]_vars <=> GraceRespected
  BY DEF GraceRespected
<1> QED BY <1>1, InvHolds, PTL DEF Spec, GraceRespected

-----------------------------------------------------------------------------
(***************************************************************************)
(* The update workflow implements ImageService.                            *)
(***************************************************************************)

\* A pass either goes on without its waiting workflows, and without the nodes whose image
\* is missing, or ends for all of them when no image is missing.
LEMMA PassOutcomes ==
  ASSUME NEW assoc, NEW mts, NEW exp, NEW dl, NEW cs, NEW wait, NEW plan,
         Pass(assoc, mts, exp, dl, cs, wait, plan)
  PROVE  \/ /\ symlink' = symlink /\ waiting' = wait
            /\ outdated' = outdated \cup nodes_left_out(assoc)
         \/ /\ symlink' = assoc /\ waiting' = {} /\ outdated' = {} /\ exported' = exp
            /\ nodes_left_out(assoc) = {}
BY DEF Pass, PassMounts, PassUnmounts, PassEnds, update_fails

\* The nodes neither waiting nor outdated are served, in the terms of the abstract service.
LEMMA ConfirmedServedNext ==
  ASSUME IInv', daemon' = "up"
  PROVE  Service!images_of(Nodes \ (waiting \cup outdated)', imageOf')
             \subseteq (mounted \cap exported)'
BY DEF IInv, UpInv, NodesServed, Service!images_of

\* A step of a running daemon that changes no association is an update of the service.
LEMMA UpdateImplemented ==
  ASSUME IInv, IInv', daemon = "up", daemon' = "up", imageOf' = imageOf, absent' = absent,
         \/ /\ symlink' = symlink /\ waiting' = waiting
            /\ outdated \subseteq outdated' /\ outdated' \subseteq outdated \cup absent
         \/ symlink' = imageOf /\ waiting' = {} /\ outdated' = {} /\ absent = {}
  PROVE  Service!Update
<1>1. Service!images_of(Nodes \ (waiting \cup outdated)', imageOf) \subseteq (mounted \cap exported)'
  BY ConfirmedServedNext
<1>2. (mounted \cap exported)' \in SUBSET Images
  BY DEF IInv, TypeOK
<1>3. CASE /\ symlink' = symlink /\ waiting' = waiting
           /\ outdated \subseteq outdated' /\ outdated' \subseteq outdated \cup absent
  BY <1>1, <1>2, <1>3 DEF Service!Update, Service!InProgress
<1>4. CASE symlink' = imageOf /\ waiting' = {} /\ outdated' = {} /\ absent = {}
  BY <1>1, <1>2, <1>4 DEF Service!Update, Service!Completed
<1> QED BY <1>3, <1>4

\* What a pass on the associations of the database does to the nodes it serves.
LEMMA PassImplemented ==
  ASSUME IInv, NEW mts, NEW exp, NEW dl, NEW cs, NEW wait, NEW plan,
         Pass(looked_up(imageOf, absent), mts, exp, dl, cs, wait, plan)
  PROVE  \/ symlink' = symlink /\ waiting' = wait /\ outdated' = outdated \cup absent
         \/ symlink' = imageOf /\ waiting' = {} /\ outdated' = {} /\ absent = {}
<1>1. /\ nodes_left_out(looked_up(imageOf, absent)) = absent
      /\ absent = {} => looked_up(imageOf, absent) = imageOf
  BY LookedUp DEF IInv, TypeOK
<1> QED BY <1>1, PassOutcomes

\* The change of an association, which may end at once.
LEMMA RequestImplemented ==
  ASSUME IInv, IInv', NEW ns \in SUBSET Nodes, NEW i \in Images \cup {NoImage},
         NEW gone \in BOOLEAN, Request(ns, i, gone)
  PROVE  Service!Associate(ns, i)
<1>1. /\ daemon = "up" /\ daemon' = "up" /\ mounted' = mounted
      /\ imageOf' = [n \in Nodes |-> IF n \in ns THEN i ELSE imageOf[n]]
      /\ absent' \in {absent \ ns, absent \cup ns}
      /\ wf_update_image_mounts(looked_up(imageOf', absent'), ns)
  BY DEF Request
<1>2. /\ nodes_left_out(looked_up(imageOf', absent')) = absent'
      /\ absent' = {} => looked_up(imageOf', absent') = imageOf'
  BY LookedUp DEF IInv, TypeOK
<1>3. \/ /\ symlink' = symlink /\ waiting' = waiting \cup ns
         /\ outdated \subseteq outdated' /\ outdated' \subseteq outdated \cup absent'
      \/ /\ symlink' = imageOf' /\ waiting' = {} /\ outdated' = {} /\ exported' = exported
         /\ absent' = {}
  <2>1. CASE phase = "idle"
    BY <1>1, <1>2, <2>1, PassOutcomes DEF wf_update_image_mounts
  <2>2. CASE phase # "idle"
    BY <1>1, <2>2 DEF wf_update_image_mounts
  <2> QED BY <2>1, <2>2
<1>4. Service!images_of(Nodes \ (waiting \cup outdated)', imageOf') \subseteq (mounted \cap exported)'
  BY <1>1, ConfirmedServedNext
<1>5. (mounted \cap exported)' \in SUBSET Images
  BY DEF IInv, TypeOK
<1>6. CASE /\ symlink' = symlink /\ waiting' = waiting \cup ns
           /\ outdated \subseteq outdated' /\ outdated' \subseteq outdated \cup absent'
  <2>1. /\ Nodes \ (waiting \cup outdated)' \in SUBSET ((Nodes \ (waiting \cup outdated)) \ ns)
        /\ ((Nodes \ (waiting \cup outdated)) \ ns) \ absent' \subseteq Nodes \ (waiting \cup outdated)'
    BY <1>6
  <2> QED
    BY <1>1, <1>4, <1>5, <1>6, <2>1 DEF Service!Associate, Service!InProgress
<1>7. CASE /\ symlink' = imageOf' /\ waiting' = {} /\ outdated' = {} /\ exported' = exported
           /\ absent' = {}
  BY <1>1, <1>4, <1>7 DEF Service!Associate, Service!Completed
<1> QED BY <1>3, <1>6, <1>7

LEMMA StepImplemented ==
  ASSUME IInv, IInv', [Next]_vars
  PROVE  [Service!Next]_(Service!vars)
<1>1. CASE Start
  <2>1. /\ daemon = "down" /\ daemon' = "up" /\ imageOf' = imageOf /\ mounted' = mounted
        /\ absent = {} /\ absent' = absent
        /\ phase = "idle" /\ mounts = {} /\ waiting \in SUBSET Nodes
    BY <1>1 DEF Start, names, IInv, DownInv, TypeOK
  <2>2. Pass(looked_up(imageOf, absent), mounts, exported, deadline, cmds, waiting \cup Nodes,
             planned)
    <3>1. looked_up(imageOf, absent) = imageOf
      BY <2>1, LookedUp DEF IInv, TypeOK
    <3> QED BY <1>1, <2>1, <3>1 DEF Start, wf_update_image_mounts
  <2>3. exported' = exported
    BY <2>1, <2>2 DEF Pass, PassMounts, PassUnmounts, PassEnds, some, to_be_unmounted
  <2>4. Service!images_of(Nodes \ (waiting \cup outdated)', imageOf) \subseteq (mounted \cap exported)'
    BY <2>1, ConfirmedServedNext
  <2>5. Service!StartUp
    <3>1. CASE symlink' = symlink /\ waiting' = waiting \cup Nodes
      BY <2>1, <2>3, <3>1 DEF Service!StartUp
    <3>2. CASE symlink' = imageOf /\ waiting' = {} /\ outdated' = {}
      BY <2>1, <2>3, <2>4, <3>2 DEF Service!StartUp, Service!Completed
    <3> QED BY <2>2, <3>1, <3>2, PassImplemented
  <2> QED BY <2>5 DEF Service!Next
<1>2. ASSUME NEW ns \in SUBSET Nodes, NEW i \in Images \cup {NoImage}, NEW gone \in BOOLEAN,
             Request(ns, i, gone)
      PROVE  Service!Next
  BY <1>2, RequestImplemented DEF Service!Next
<1>3. CASE PlannedUpdate
  <2>1. daemon = "up" /\ daemon' = "up" /\ imageOf' = imageOf /\ absent' = absent
    BY <1>3 DEF PlannedUpdate, names
  <2>2. \/ /\ symlink' = symlink /\ waiting' = waiting
           /\ outdated \subseteq outdated' /\ outdated' \subseteq outdated \cup absent
        \/ symlink' = imageOf /\ waiting' = {} /\ outdated' = {} /\ absent = {}
    <3>1. CASE phase = "idle"
      BY <1>3, <3>1, PassImplemented DEF PlannedUpdate
    <3>2. CASE phase # "idle"
      BY <1>3, <3>2 DEF PlannedUpdate
    <3> QED BY <3>1, <3>2
  <2> QED BY <2>1, <2>2, UpdateImplemented DEF Service!Next
<1>4. CASE \/ \E i \in Images : GraceExpires(i)
           \/ \E c \in cmds : CommandFails(c)
           \/ CloneFails
           \/ UNCHANGED vars
  <2>1. UNCHANGED <<daemon, imageOf, absent, symlink, mounted, exported, waiting, outdated>>
    BY <1>4 DEF GraceExpires, CommandFails, CloneFails, store, names, vars
  <2> QED BY <2>1 DEF Service!vars
<1>5. CASE TftpUpdate
  <2>1. /\ daemon = "up" /\ symlink' = imageOf
        /\ UNCHANGED <<daemon, imageOf, absent, mounted, exported, waiting, outdated>>
    BY <1>5 DEF TftpUpdate, names, store
  <2>2. absent = {}
    BY <1>5, LookedUp DEF TftpUpdate, update_fails, IInv, TypeOK
  <2>3. Service!Relink
    BY <2>1, <2>2 DEF Service!Relink
  <2> QED BY <2>3 DEF Service!Next
<1>6. ASSUME NEW c \in cmds, CommandRuns(c) PROVE Service!Next
  <2>1. UNCHANGED <<daemon, imageOf, absent, symlink, exported, waiting, outdated>>
    BY <1>6 DEF CommandRuns, names, store
  <2>2. CASE daemon = "up"
    BY <2>1, <2>2, UpdateImplemented DEF Service!Next
  <2>3. CASE daemon # "up"
    <3>1. (mounted \cap exported)' \in SUBSET Images
      BY DEF IInv, TypeOK
    <3>2. Service!Closing
      BY <2>1, <2>3, <3>1 DEF Service!Closing
    <3> QED BY <3>2 DEF Service!Next
  <2> QED BY <2>2, <2>3
<1>7. ASSUME NEW c \in cmds, CommandEnds(c) PROVE [Service!Next]_(Service!vars)
  <2>1. UNCHANGED <<daemon, imageOf, absent, mounted>>
    BY <1>7 DEF CommandEnds, names
  <2>2. CASE UNCHANGED <<symlink, exported, waiting, outdated>>
    BY <2>1, <2>2 DEF Service!vars
  <2>3. CASE /\ daemon = "up"
             /\ IF phase = "mounting" THEN AfterMounts(cmds \ {c}) ELSE AfterUnmounts(cmds \ {c})
    <3>1. \/ symlink' = symlink /\ waiting' = waiting /\ outdated' = outdated
          \/ symlink' = symlink /\ waiting' = waiting /\ outdated' = outdated \cup absent
          \/ symlink' = imageOf /\ waiting' = {} /\ outdated' = {} /\ absent = {}
      BY <2>3, PassImplemented DEF AfterMounts, AfterUnmounts
    <3> QED BY <2>1, <2>3, <3>1, UpdateImplemented DEF Service!Next
  <2> QED BY <1>7, <2>2, <2>3 DEF CommandEnds, store
<1>8. CASE Cleanup
  <2>1. /\ daemon = "up" /\ daemon' = "cleaning" /\ symlink' = imageOf
        /\ exported' \in {exported, {}} /\ UNCHANGED <<imageOf, absent, mounted>>
    BY <1>8 DEF Cleanup, names
  <2>2. Service!ShutDown
    BY <2>1 DEF Service!ShutDown
  <2> QED BY <2>2 DEF Service!Next
<1>9. CASE Stop
  <2>1. /\ daemon \in {"up", "cleaning"} /\ daemon' = "down"
        /\ UNCHANGED <<imageOf, absent, symlink, mounted, exported>>
    BY <1>9 DEF Stop
  <2>2. CASE daemon = "up"
    <3>1. Service!ShutDown
      BY <2>1, <2>2 DEF Service!ShutDown
    <3> QED BY <3>1 DEF Service!Next
  <2>3. CASE daemon = "cleaning"
    BY <2>1, <2>3 DEF Service!vars
  <2> QED BY <2>1, <2>2, <2>3
<1>10. ASSUME NEW ns \in SUBSET Nodes, NameRemoved(ns) PROVE Service!Next
  <2>1. Service!LoseName(ns)
    BY <1>10 DEF Service!LoseName, NameRemoved, store
  <2> QED BY <2>1 DEF Service!Next
<1>11. ASSUME NEW ns \in SUBSET Nodes, NEW i \in Images, NameRestored(ns, i) PROVE Service!Next
  <2>1. Service!Rename(ns, i)
    BY <1>11 DEF Service!Rename, NameRestored
  <2> QED BY <2>1 DEF Service!Next
<1>12. CASE CloneSucceeds
  <2>1. /\ daemon = "up" /\ daemon' = "up" /\ imageOf' = imageOf /\ absent' = absent
        /\ absent = {} /\ wf_update_image_mounts(imageOf, {})
    BY <1>12 DEF CloneSucceeds, trigger_update_image_mounts
  <2>2. looked_up(imageOf, absent) = imageOf
    BY <2>1, LookedUp DEF IInv, TypeOK
  <2>3. \/ /\ symlink' = symlink /\ waiting' = waiting
           /\ outdated \subseteq outdated' /\ outdated' \subseteq outdated \cup absent
        \/ symlink' = imageOf /\ waiting' = {} /\ outdated' = {} /\ absent = {}
    <3>1. CASE phase = "idle"
      BY <2>1, <2>2, <3>1, PassImplemented DEF wf_update_image_mounts
    <3>2. CASE phase # "idle"
      BY <2>1, <3>2 DEF wf_update_image_mounts
    <3> QED BY <3>1, <3>2
  <2> QED BY <2>1, <2>3, UpdateImplemented DEF Service!Next
<1> QED
  BY <1>1, <1>2, <1>3, <1>4, <1>5, <1>6, <1>7, <1>8, <1>9, <1>10, <1>11, <1>12 DEF Next

\* The update workflow, its commands, its passes and its deadlines implement the service
\* that its callers rely on: a node whose change has been waited for boots its image
\* until another change, an update while a clone has removed the name of this image, or the
\* end of the daemon, and no wait ends while such a name is missing (store.py:285-376).
THEOREM ServiceImplemented == Spec => ImplementsService
<1>1. Init => Service!Init
  BY DEF Init, Service!Init
<1> QED BY <1>1, InvHolds, StepImplemented, PTL DEF Spec, ImplementsService, Service!Spec
=============================================================================
