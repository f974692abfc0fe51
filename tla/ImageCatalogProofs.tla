------------------------ MODULE ImageCatalogProofs -------------------------
(***************************************************************************)
(* For any number of images, nodes, jobs and requests: an image has one task*)
(* at a time; podman keeps the images of nodes; the catalogue is true when *)
(* the blocking process is idle; a clone is done completely or undone.     *)
(*                                                                         *)
(* The first part is about tasks and labels (IInv). The second one is about*)
(* the content of the names (CInv): what the steps left of the job may     *)
(* assume, one lemma per stage of a program, then the requests that cross  *)
(* the job.                                                                *)
(***************************************************************************)
EXTENDS ImageCatalog, TLAPS

Labels == {"none", "shell", "squash"}

\* The part of the types that the proof needs.
Typed ==
    /\ store \in SUBSET Names
    /\ label \in [Names -> Labels]
    /\ shell \in Refs
    /\ jobs \in Seq(Jobs)

\* The image object of a task is in the store and carries a label.
Labelled ==
    /\ shell.live => shell.name \in store /\ label[shell.name] # "none"
    /\ \A i \in 1..Len(jobs) :
           jobs[i].obj.live => /\ jobs[i].obj.name \in store
                               /\ label[jobs[i].obj.name] # "none"

\* Two tasks have distinct image objects.
Exclusive ==
    /\ \A i, k \in 1..Len(jobs) :
           i # k /\ jobs[i].obj.live /\ jobs[k].obj.live => jobs[i].obj.name # jobs[k].obj.name
    /\ \A i \in 1..Len(jobs) :
           shell.live /\ jobs[i].obj.live => jobs[i].obj.name # shell.name

IInv == Typed /\ Labelled /\ Exclusive

LEMMA InitTasks == Init => IInv
  <1> SUFFICES ASSUME Init PROVE IInv
    OBVIOUS
  <1>1. store \in SUBSET Names /\ label \in [Names -> Labels] /\ shell \in Refs
    BY DEF Init, Labels, Refs, NoRef
  <1>2. jobs = <<>> /\ shell.live = FALSE
    BY DEF Init, NoRef
  <1>3. jobs \in Seq(Jobs) /\ Len(jobs) = 0
    BY <1>2
  <1> QED
    BY <1>1, <1>2, <1>3 DEF IInv, Typed, Labelled, Exclusive

LEMMA ImpliesOneTask == IInv => OneTask
  <1> SUFFICES ASSUME IInv, NEW n \in Names, NEW i \in DOMAIN jobs, jobs[i].obj = ref(n),
                      \/ shell = ref(n)
                      \/ \E k \in DOMAIN jobs : k # i /\ jobs[k].obj = ref(n)
               PROVE  FALSE
    BY DEF OneTask
  <1>1. ref(n).live /\ ref(n).name = n
    BY DEF ref
  <1>2. DOMAIN jobs = 1..Len(jobs)
    BY DEF IInv, Typed
  <1> QED
    BY <1>1, <1>2 DEF IInv, Exclusive

\* The first job ends, or not, and the rest is unchanged.
LEMMA FirstEnds ==
  ASSUME IInv, store' = store, label' = label, shell' = shell,
         jobs' = jobs \/ (jobs # <<>> /\ jobs' = Tail(jobs))
  PROVE  IInv'
  <1>1. CASE jobs' = jobs
    BY <1>1 DEF IInv, Typed, Labelled, Exclusive
  <1>2. CASE jobs # <<>> /\ jobs' = Tail(jobs)
    <2>1. Typed'
      BY <1>2 DEF IInv, Typed
    <2>2. /\ Len(jobs') = Len(jobs) - 1 /\ Len(jobs) \in Nat /\ Len(jobs') \in Nat
          /\ \A i \in 1..Len(jobs') : i + 1 \in 1..Len(jobs) /\ jobs'[i] = jobs[i + 1]
      BY <1>2 DEF IInv, Typed
    <2>3. Labelled'
      BY <2>2 DEF IInv, Labelled
    <2>4. ASSUME NEW i \in 1..Len(jobs'), NEW k \in 1..Len(jobs'), i # k,
                 jobs'[i].obj.live, jobs'[k].obj.live
          PROVE  jobs'[i].obj.name # jobs'[k].obj.name
      <3>1. i + 1 \in 1..Len(jobs) /\ k + 1 \in 1..Len(jobs) /\ i + 1 # k + 1
        BY <2>2, <2>4
      <3>2. jobs'[i] = jobs[i + 1] /\ jobs'[k] = jobs[k + 1]
        BY <2>2
      <3> QED
        BY <2>4, <3>1, <3>2 DEF IInv, Exclusive
    <2>5. \A i \in 1..Len(jobs') :
              shell'.live /\ jobs'[i].obj.live => jobs'[i].obj.name # shell'.name
      BY <2>2 DEF IInv, Exclusive
    <2>6. Exclusive'
      BY <2>4, <2>5 DEF Exclusive
    <2> QED
      BY <2>1, <2>3, <2>6 DEF IInv
  <1> QED
    BY <1>1, <1>2

\* The objects of images that leave the store die, where they are.
LEMMA JobsWithout ==
  ASSUME jobs \in Seq(Jobs), NEW gone
  PROVE  /\ jobs_without(gone) \in Seq(Jobs)
         /\ Len(jobs_without(gone)) = Len(jobs)
         /\ \A i \in 1..Len(jobs) :
                /\ jobs_without(gone)[i].obj.name = jobs[i].obj.name
                /\ jobs_without(gone)[i].obj.live
                       <=> jobs[i].obj.live /\ jobs[i].obj.name \notin gone
  <1> DEFINE js == [i \in DOMAIN jobs |-> [jobs[i] EXCEPT !.obj = dead(@, gone)]]
  <1>1. jobs_without(gone) = js
    BY DEF jobs_without, with_refs
  <1>2. DOMAIN jobs = 1..Len(jobs) /\ Len(jobs) \in Nat
    OBVIOUS
  <1>3. \A r \in Refs : /\ dead(r, gone) \in Refs /\ dead(r, gone).name = r.name
                        /\ dead(r, gone).live <=> r.live /\ r.name \notin gone
    BY DEF dead, Refs
  <1>4. \A i \in 1..Len(jobs) : jobs[i] \in Jobs
    OBVIOUS
  <1>5. \A j \in Jobs : /\ [j EXCEPT !.obj = dead(@, gone)] \in Jobs
                        /\ [j EXCEPT !.obj = dead(@, gone)].obj = dead(j.obj, gone)
                        /\ j.obj \in Refs
    BY <1>3 DEF Jobs
  <1>6. js \in [1..Len(jobs) -> Jobs]
    BY <1>2, <1>4, <1>5
  <1>7. js \in Seq(Jobs) /\ Len(js) = Len(jobs)
    BY <1>2, <1>6
  <1>8. \A i \in 1..Len(jobs) : js[i].obj = dead(jobs[i].obj, gone) /\ jobs[i].obj \in Refs
    BY <1>2, <1>4, <1>5
  <1> HIDE DEF js
  <1> QED
    BY <1>1, <1>3, <1>7, <1>8

\* resync_from_registry() or remove(): the objects of the images that leave the store die,
\* the first job ends or not.
LEMMA StoreChanges ==
  ASSUME IInv, NEW st \in SUBSET Names, stored(st),
         \/ jobs' = jobs_without(store \ st)
         \/ jobs # <<>> /\ jobs' = Tail(jobs_without(store \ st))
  PROVE  IInv'
  <1> DEFINE js == jobs_without(store \ st)
  <1>1. /\ js \in Seq(Jobs) /\ Len(js) = Len(jobs) /\ Len(jobs) \in Nat
        /\ \A i \in 1..Len(jobs) : /\ js[i].obj.name = jobs[i].obj.name
                                   /\ js[i].obj.live => /\ jobs[i].obj.live
                                                        /\ jobs[i].obj.name \notin store \ st
    BY JobsWithout DEF IInv, Typed
  <1>2. /\ shell' \in Refs /\ shell'.name = shell.name
        /\ shell'.live => shell.live /\ shell.name \notin store \ st
    BY DEF stored, dead, Refs, IInv, Typed
  <1>3. store' \in SUBSET Names /\ label' \in [Names -> Labels]
    BY DEF stored, IInv, Typed, Labels
  <1>4. \A n \in store : n \notin store \ st => n \in store' /\ label'[n] = label[n]
    BY DEF stored, IInv, Typed
  <1> HIDE DEF js
  <1>5. /\ shell'.live => shell'.name \in store' /\ label'[shell'.name] # "none"
        /\ \A i \in 1..Len(js) : js[i].obj.live => /\ js[i].obj.name \in store'
                                                   /\ label'[js[i].obj.name] # "none"
    BY <1>1, <1>2, <1>4 DEF IInv, Labelled
  <1>6. /\ \A i, k \in 1..Len(js) :
              i # k /\ js[i].obj.live /\ js[k].obj.live => js[i].obj.name # js[k].obj.name
        /\ \A i \in 1..Len(js) : shell'.live /\ js[i].obj.live => js[i].obj.name # shell'.name
    BY <1>1, <1>2 DEF IInv, Exclusive
  <1>7. CASE jobs' = js
    BY <1>1, <1>2, <1>3, <1>5, <1>6, <1>7 DEF IInv, Typed, Labelled, Exclusive
  <1>8. CASE jobs # <<>> /\ jobs' = Tail(js)
    <2>0. js # <<>>
      BY <1>1, <1>8 DEF IInv, Typed
    <2>1. jobs' \in Seq(Jobs)
      BY <1>1, <1>8, <2>0
    <2>2. /\ Len(jobs') = Len(js) - 1 /\ Len(js) \in Nat /\ Len(jobs') \in Nat
          /\ \A i \in 1..Len(jobs') : i + 1 \in 1..Len(js) /\ jobs'[i] = js[i + 1]
      BY <1>1, <1>8, <2>0
    <2>3. Labelled'
      BY <1>5, <2>2 DEF Labelled
    <2>4. Exclusive'
      <3>1. ASSUME NEW i \in 1..Len(jobs'), NEW k \in 1..Len(jobs'), i # k,
                   jobs'[i].obj.live, jobs'[k].obj.live
            PROVE  jobs'[i].obj.name # jobs'[k].obj.name
        <4>1. /\ i + 1 \in 1..Len(js) /\ k + 1 \in 1..Len(js) /\ i + 1 # k + 1
              /\ jobs'[i] = js[i + 1] /\ jobs'[k] = js[k + 1]
          <5>1. i \in Nat /\ k \in Nat
            BY <2>2
          <5>2. i + 1 # k + 1
            BY <3>1, <5>1
          <5> QED
            BY <2>2, <5>2
        <4> QED
          BY <1>6, <3>1, <4>1
      <3>2. ASSUME NEW i \in 1..Len(jobs'), shell'.live, jobs'[i].obj.live
            PROVE  jobs'[i].obj.name # shell'.name
        BY <1>6, <2>2, <3>2
      <3> QED
        BY <3>1, <3>2 DEF Exclusive
    <2> QED
      BY <1>2, <1>3, <2>1, <2>3, <2>4 DEF IInv, Typed
  <1> QED
    BY <1>7, <1>8 DEF js

\* A step of a job, but for its end, leaves the tasks alone or changes the store.
LEMMA ResyncsNames ==
  ASSUME IInv, NEW ch, NEW res \in resyncs(ch)
  PROVE  res.store \in SUBSET Names
  BY DEF resyncs, listed, IInv, Typed

LEMMA NextSteps ==
  ASSUME NEW js, NEW ok \in BOOLEAN
  PROVE  /\ ends(js) => jobs' = Tail(js)
         /\ continues(js) => jobs' = js
         /\ raises(js) => jobs' = js \/ jobs' = Tail(js)
         /\ proceeds(ok, js) => jobs' = js \/ jobs' = Tail(js)
  BY DEF proceeds, raises, ends, continues

\* A step of a job before its end.
LEMMA StepKeeps ==
  ASSUME IInv, Step, ~ WorkDone
  PROVE  IInv'
  <1>1. CASE StartClone
    BY <1>1, FirstEnds, NextSteps DEF StartClone, ends, others
  <1>2. CASE StartJob
    BY <1>2, FirstEnds DEF StartJob, others
  <1>3. CASE Tag \/ Untag \/ Drop
    <2>1. jobs # <<>> /\ store' = store /\ label' = label /\ shell' = shell
      BY <1>3 DEF Tag, Untag, Drop, at, working, registry_only, others
    <2>2. jobs' = jobs \/ jobs' = Tail(jobs)
      BY <1>3 DEF Tag, Untag, Drop, applies, proceeds, raises, ends, continues
    <2> QED
      BY <2>1, <2>2, FirstEnds
  <1>4. CASE Await \/ Refresh
    BY <1>4, FirstEnds DEF Await, Refresh, continues, registry_only, others
  <1>5. CASE Resync
    <2>1. PICK res \in resyncs(cache) :
              stored(res.store) /\ proceeds(res.ok, jobs_without(store \ res.store))
      BY <1>5 DEF Resync
    <2>2. jobs # <<>>
      BY <1>5 DEF Resync, at, working
    <2>3. \/ jobs' = jobs_without(store \ res.store)
          \/ jobs' = Tail(jobs_without(store \ res.store))
      BY <2>1 DEF proceeds, raises, ends, continues
    <2> QED
      BY <2>1, <2>2, <2>3, ResyncsNames, StoreChanges
  <1>6. CASE Find
    <2>1. jobs # <<>>
      BY <1>6 DEF Find, at, working
    <2>2. CASE arg \in store
      BY <1>6, <2>2, FirstEnds DEF Find, continues
    <2>3. CASE arg \notin store
      <3>1. PICK res \in resyncs(cache') :
                /\ stored(res.store)
                /\ proceeds(res.ok /\ arg \in res.store, jobs_without(store \ res.store))
        BY <1>6, <2>3 DEF Find
      <3>2. \/ jobs' = jobs_without(store \ res.store)
            \/ jobs' = Tail(jobs_without(store \ res.store))
        BY <3>1 DEF proceeds, raises, ends, continues
      <3> QED
        BY <2>1, <3>1, <3>2, ResyncsNames, StoreChanges
    <2> QED
      BY <2>2, <2>3
  <1>7. CASE Compat \/ Overwrite \/ Refuse
    <2>1. store' = store /\ label' = label /\ shell' = shell
      BY <1>7 DEF Compat, Overwrite, Refuse, registry_only, others
    <2>2. jobs' = jobs
      BY <1>7 DEF Compat, Overwrite, Refuse, continues, declines
    <2> QED
      BY <2>1, <2>2, FirstEnds
  <1>8. CASE Pull \/ From \/ Choose \/ Commit \/ Rmi \/ Retag \/ Build
    <2>1. jobs # <<>> /\ store' = store /\ label' = label /\ shell' = shell
      BY <1>8 DEF Pull, From, Choose, Commit, Rmi, Retag, Build, at, working, without_registry,
                  others
    <2>2. jobs' = jobs \/ jobs' = Tail(jobs)
      BY <1>8 DEF Pull, From, Choose, Commit, Rmi, Retag, Build, proceeds, raises, ends,
                  continues
    <2> QED
      BY <2>1, <2>2, FirstEnds
  <1>9. CASE CleanupDone
    BY <1>9, FirstEnds DEF CleanupDone, working, ends, others
  <1> QED
    BY <1>1, <1>2, <1>3, <1>4, <1>5, <1>6, <1>7, <1>8, <1>9 DEF Step

\* The end of a task removes the label of its image object, which has no other task.
LEMMA WorkDoneKeeps ==
  ASSUME IInv, WorkDone
  PROVE  IInv'
  <1>1. jobs # <<>> /\ store' = store /\ shell' = shell
    BY DEF WorkDone, working
  <1>2. CASE job.kind = "clone"
    BY <1>1, <1>2, FirstEnds DEF WorkDone
  <1>3. CASE job.kind # "clone"
    <2>1. /\ jobs' = Tail(jobs)
          /\ label' = IF job.obj.live THEN [label EXCEPT ![job.obj.name] = "none"] ELSE label
      BY <1>3 DEF WorkDone, ends
    <2>2. Typed'
      <3>1. jobs' \in Seq(Jobs)
        BY <1>1, <2>1 DEF IInv, Typed
      <3>2. label' \in [Names -> Labels]
        BY <2>1 DEF IInv, Typed, Labels
      <3> QED
        BY <1>1, <3>1, <3>2 DEF IInv, Typed
    <2>3. /\ Len(jobs') = Len(jobs) - 1 /\ Len(jobs) \in Nat /\ Len(jobs') \in Nat
          /\ \A i \in 1..Len(jobs') : i + 1 \in 1..Len(jobs) /\ jobs'[i] = jobs[i + 1]
      BY <1>1, <2>1 DEF IInv, Typed
    <2>8. job = jobs[1] /\ 1 \in 1..Len(jobs)
      BY <1>1 DEF IInv, Typed, job
    <2>4. shell.live => label'[shell.name] = label[shell.name]
      BY <2>1, <2>8 DEF IInv, Typed, Labelled, Exclusive
    <2>5. \A i \in 1..Len(jobs') :
              jobs'[i].obj.live => label'[jobs'[i].obj.name] = label[jobs'[i].obj.name]
      <3> SUFFICES ASSUME NEW i \in 1..Len(jobs'), jobs'[i].obj.live
                   PROVE  label'[jobs'[i].obj.name] = label[jobs'[i].obj.name]
        OBVIOUS
      <3>1. i + 1 \in 1..Len(jobs) /\ i + 1 # 1 /\ jobs[i + 1].obj.live /\ jobs'[i] = jobs[i + 1]
        BY <2>3
      <3>2. job.obj.live => job.obj.name # jobs[i + 1].obj.name
        BY <2>8, <3>1 DEF IInv, Exclusive
      <3> QED
        BY <2>1, <3>1, <3>2 DEF IInv, Typed
    <2>6. Labelled'
      BY <1>1, <2>3, <2>4, <2>5 DEF IInv, Labelled
    <2>7. Exclusive'
      <3>1. \A i, k \in 1..Len(jobs') :
                i # k /\ jobs'[i].obj.live /\ jobs'[k].obj.live
                    => jobs'[i].obj.name # jobs'[k].obj.name
        <4> SUFFICES ASSUME NEW i \in 1..Len(jobs'), NEW k \in 1..Len(jobs'), i # k,
                            jobs'[i].obj.live, jobs'[k].obj.live
                     PROVE  jobs'[i].obj.name # jobs'[k].obj.name
          OBVIOUS
        <4>1. i + 1 \in 1..Len(jobs) /\ k + 1 \in 1..Len(jobs) /\ i + 1 # k + 1
          BY <2>3
        <4> QED
          BY <2>3, <4>1 DEF IInv, Exclusive
      <3>2. \A i \in 1..Len(jobs') :
                shell'.live /\ jobs'[i].obj.live => jobs'[i].obj.name # shell'.name
        BY <1>1, <2>3 DEF IInv, Exclusive
      <3> QED
        BY <3>1, <3>2 DEF Exclusive
    <2> QED
      BY <2>2, <2>6, <2>7 DEF IInv
  <1> QED
    BY <1>2, <1>3

-----------------------------------------------------------------------------
\* The requests

\* A new name enters the store.
LEMMA StoreGrows ==
  ASSUME IInv, store' \in SUBSET Names, store \subseteq store',
         label' = label, shell' = shell, jobs' = jobs
  PROVE  IInv'
  BY DEF IInv, Typed, Labelled, Exclusive

\* A task may start on the image object named n: none is running on it.
LEMMA FreeUnused ==
  ASSUME IInv, NEW n, free(n)
  PROVE  /\ n \in Names /\ n \in store
         /\ shell.live => shell.name # n
         /\ \A i \in 1..Len(jobs) : jobs[i].obj.live => jobs[i].obj.name # n
  BY DEF IInv, Labelled, free, Names

LEMMA ShellOpenKeeps ==
  ASSUME IInv, NEW n \in Mine, ShellOpen(n)
  PROVE  IInv'
  <1>1. /\ store' = store /\ jobs' = jobs /\ shell' = ref(n) /\ free(n)
        /\ label' = [label EXCEPT ![n] = "shell"]
    BY DEF ShellOpen
  <1>2. ref(n) \in Refs /\ ref(n).name = n
    BY DEF ref, Refs, Names
  <1>3. Typed'
    BY <1>1, <1>2 DEF IInv, Typed, Labels
  <1>4. label'[n] = "shell" /\ \A m \in Names : m # n => label'[m] = label[m]
    BY <1>1, FreeUnused DEF IInv, Typed
  <1>5. Labelled'
    BY <1>1, <1>2, <1>4, FreeUnused DEF IInv, Typed, Labelled
  <1>6. Exclusive'
    BY <1>1, <1>2, FreeUnused DEF IInv, Exclusive
  <1> QED
    BY <1>3, <1>5, <1>6 DEF IInv

LEMMA ShellLeaveKeeps ==
  ASSUME IInv, ShellLeave
  PROVE  IInv'
  <1>1. /\ store' = store /\ jobs' = jobs /\ shell' = NoRef
        /\ label' = IF shell.live THEN [label EXCEPT ![shell.name] = "none"] ELSE label
    BY DEF ShellLeave
  <1>2. NoRef \in Refs /\ NoRef.live = FALSE
    BY DEF NoRef, Refs
  <1>3. label' \in [Names -> Labels]
    BY <1>1 DEF IInv, Typed, Labels
  <1>4. Typed'
    BY <1>1, <1>2, <1>3 DEF IInv, Typed
  <1>5. \A i \in 1..Len(jobs) :
            jobs[i].obj.live => label'[jobs[i].obj.name] = label[jobs[i].obj.name]
    BY <1>1 DEF IInv, Typed, Exclusive
  <1>6. Labelled'
    BY <1>1, <1>2, <1>5 DEF IInv, Labelled
  <1>7. Exclusive'
    BY <1>1, <1>2 DEF IInv, Exclusive
  <1> QED
    BY <1>4, <1>6, <1>7 DEF IInv

\* A job joins the queue, with an image object of its own, or with none.
LEMMA JobJoins ==
  ASSUME Typed, NEW j \in Jobs, jobs' = Append(jobs, j)
  PROVE  /\ jobs' \in Seq(Jobs) /\ Len(jobs) \in Nat /\ Len(jobs') = Len(jobs) + 1
         /\ jobs'[Len(jobs')] = j
         /\ \A i \in 1..Len(jobs') : i # Len(jobs') => i \in 1..Len(jobs) /\ jobs'[i] = jobs[i]
  BY DEF Typed

LEMMA OwnObject ==
  ASSUME IInv, NEW j \in Jobs, jobs' = Append(jobs, j),
         store' = store, label' \in [Names -> Labels], shell' \in Refs,
         shell'.live => shell'.name \in store /\ label'[shell'.name] # "none",
         j.obj.live => j.obj.name \in store /\ label'[j.obj.name] # "none",
         \A i \in 1..Len(jobs) :
             jobs[i].obj.live => /\ label'[jobs[i].obj.name] # "none"
                                 /\ j.obj.live => jobs[i].obj.name # j.obj.name
                                 /\ shell'.live => jobs[i].obj.name # shell'.name,
         shell'.live /\ j.obj.live => j.obj.name # shell'.name
  PROVE  IInv'
  <1>1. /\ jobs' \in Seq(Jobs) /\ Len(jobs) \in Nat /\ Len(jobs') = Len(jobs) + 1
        /\ jobs'[Len(jobs')] = j
        /\ \A i \in 1..Len(jobs') : i # Len(jobs') => i \in 1..Len(jobs) /\ jobs'[i] = jobs[i]
    BY JobJoins DEF IInv
  <1>2. Typed'
    BY <1>1 DEF IInv, Typed
  <1>3. \A i \in 1..Len(jobs') :
            jobs'[i].obj.live => /\ jobs'[i].obj.name \in store'
                                 /\ label'[jobs'[i].obj.name] # "none"
    BY <1>1 DEF IInv, Labelled
  <1>4. Labelled'
    BY <1>3 DEF Labelled
  <1>5. \A i, k \in 1..Len(jobs') :
            i # k /\ jobs'[i].obj.live /\ jobs'[k].obj.live
                => jobs'[i].obj.name # jobs'[k].obj.name
    BY <1>1 DEF IInv, Exclusive
  <1>6. \A i \in 1..Len(jobs') :
            shell'.live /\ jobs'[i].obj.live => jobs'[i].obj.name # shell'.name
    BY <1>1
  <1> QED
    BY <1>2, <1>4, <1>5, <1>6 DEF IInv, Exclusive

LEMMA SubmittedJobs ==
  ASSUME NEW kind \in Kinds, NEW ws \in Names, NEW src \in Names, NEW local \in BOOLEAN,
         NEW force \in BOOLEAN, NEW obj \in Refs, submits(kind, ws, src, local, force, obj)
  PROVE  \E j \in Jobs : j.obj = obj /\ jobs' = Append(jobs, j)
  BY DEF submits, Jobs

LEMMA SquashKeeps ==
  ASSUME IInv, NEW n \in Mine, Squash(n)
  PROVE  IInv'
  <1>1. /\ store' = store /\ shell' = shell /\ free(n)
        /\ label' = [label EXCEPT ![n] = "squash"]
        /\ submits("squash", n, n, FALSE, FALSE, ref(n))
    BY DEF Squash
  <1>2. ref(n) \in Refs /\ ref(n).name = n /\ n \in Names
    BY DEF ref, Refs, Names
  <1>3. PICK j \in Jobs : j.obj = ref(n) /\ jobs' = Append(jobs, j)
    BY <1>1, <1>2, SubmittedJobs DEF Kinds
  <1>4. /\ label' \in [Names -> Labels] /\ label'[n] = "squash"
        /\ \A m \in Names : m # n => label'[m] = label[m]
    BY <1>1, <1>2 DEF IInv, Typed, Labels
  <1>5. /\ n \in store /\ shell.live => shell.name # n
        /\ \A i \in 1..Len(jobs) : jobs[i].obj.live => jobs[i].obj.name # n
    BY <1>1, FreeUnused
  <1>6. /\ shell.live => /\ shell.name \in store /\ shell.name \in Names
                         /\ label[shell.name] # "none"
        /\ \A i \in 1..Len(jobs) :
               jobs[i].obj.live => /\ jobs[i].obj.name \in Names
                                   /\ label[jobs[i].obj.name] # "none"
                                   /\ shell.live => jobs[i].obj.name # shell.name
    BY DEF IInv, Typed, Labelled, Exclusive
  <1>7. n \in store
    BY <1>1, FreeUnused
  <1>8. shell' \in Refs
    BY <1>1 DEF IInv, Typed
  <1> QED
    BY <1>1, <1>2, <1>3, <1>4, <1>5, <1>6, <1>7, <1>8, OwnObject

\* The image object goes from the session to the commit.
LEMMA ShellSaveKeeps ==
  ASSUME IInv, NEW m \in Mine, ShellSave(m)
  PROVE  IInv'
  <1>1. /\ store' = store /\ label' = label /\ shell' = NoRef
        /\ submits("commit", m, m, FALSE, FALSE, shell)
    BY DEF ShellSave
  <1>2. NoRef \in Refs /\ NoRef.live = FALSE /\ m \in Names /\ shell \in Refs
    BY DEF NoRef, Refs, Names, IInv, Typed
  <1>3. PICK j \in Jobs : j.obj = shell /\ jobs' = Append(jobs, j)
    <2>1. "commit" \in Kinds /\ FALSE \in BOOLEAN
      BY DEF Kinds
    <2> QED
      BY <1>1, <1>2, <2>1 DEF submits, Jobs
  <1>4. /\ label' \in [Names -> Labels]
        /\ shell.live => shell.name \in store /\ label[shell.name] # "none"
        /\ \A i \in 1..Len(jobs) :
               jobs[i].obj.live => /\ label[jobs[i].obj.name] # "none"
                                   /\ shell.live => jobs[i].obj.name # shell.name
    BY <1>1 DEF IInv, Typed, Labelled, Exclusive
  <1> QED
    BY <1>1, <1>2, <1>3, <1>4, OwnObject

LEMMA SubmitKeeps ==
  ASSUME IInv, Submit
  PROVE  IInv'
  <1>1. store' = store /\ label' = label /\ shell' = shell
    BY DEF Submit, others
  <1>2. NoRef \in Refs /\ NoRef.live = FALSE /\ Mine \subseteq Names /\ Default \in Names
    BY ImageCatalogAssumption DEF NoRef, Refs, Names
  <1>3. PICK kind \in Kinds, ws \in Names, src \in Names, local \in BOOLEAN, force \in BOOLEAN :
            submits(kind, ws, src, local, force, NoRef)
    <2>1. \A k \in {"clone", "build", "update"} : k \in Kinds
      BY DEF Kinds
    <2>2. CASE \E ws \in Mine, src \in Names, local, force \in BOOLEAN :
                   submits("clone", ws, src, local, force, NoRef)
      BY <1>2, <2>1, <2>2
    <2>3. CASE \E n \in Mine : submits("build", n, n, FALSE, FALSE, NoRef)
      BY <1>2, <2>1, <2>3
    <2>4. CASE submits("update", Default, Default, FALSE, FALSE, NoRef)
      BY <1>2, <2>1, <2>4
    <2> QED
      BY <2>2, <2>3, <2>4 DEF Submit
  <1>5. PICK j \in Jobs : j.obj = NoRef /\ jobs' = Append(jobs, j)
    BY <1>2, <1>3, SubmittedJobs
  <1>4. /\ label' \in [Names -> Labels] /\ shell \in Refs
        /\ shell.live => shell.name \in store /\ label[shell.name] # "none"
        /\ \A i \in 1..Len(jobs) :
               jobs[i].obj.live => /\ label[jobs[i].obj.name] # "none"
                                   /\ shell.live => jobs[i].obj.name # shell.name
    BY <1>1 DEF IInv, Typed, Labelled, Exclusive
  <1> QED
    BY <1>1, <1>2, <1>4, <1>5, OwnObject

\* The label and the object of a renamed image go to its new name, that nothing used.
LEMMA RenameKeeps ==
  ASSUME IInv, NEW n \in Mine, NEW m \in Mine, Rename(n, m)
  PROVE  IInv'
  <1> DEFINE renamed(r) == IF r.live /\ r.name = n THEN ref(m) ELSE r
             js == [i \in DOMAIN jobs |-> [jobs[i] EXCEPT !.obj = renamed(@)]]
  <1>1. /\ n \in Names /\ m \in Names /\ n # m /\ n \in store /\ m \notin store
    BY DEF Rename, removable, available, Names
  <1>2. \/ store' = store /\ label' = label /\ shell' = shell /\ jobs' = jobs
        \/ /\ store' = (store \ {n}) \cup {m}
           /\ label' = [label EXCEPT ![n] = "none", ![m] = label[n]]
           /\ shell' = renamed(shell)
           /\ jobs' = js
    BY DEF Rename, with_refs
  <1>3. CASE store' = store /\ label' = label /\ shell' = shell /\ jobs' = jobs
    BY <1>3, FirstEnds
  <1>4. CASE /\ store' = (store \ {n}) \cup {m}
             /\ label' = [label EXCEPT ![n] = "none", ![m] = label[n]]
             /\ shell' = renamed(shell)
             /\ jobs' = js
    <2>1. \A r \in Refs : /\ renamed(r) \in Refs /\ renamed(r).live <=> r.live
                          /\ renamed(r).name = IF r.live /\ r.name = n THEN m ELSE r.name
      BY <1>1 DEF ref, Refs
    <2>2. /\ DOMAIN jobs = 1..Len(jobs) /\ Len(jobs) \in Nat
          /\ \A i \in 1..Len(jobs) : jobs[i] \in Jobs
      BY DEF IInv, Typed
    <2>3. \A j \in Jobs : /\ [j EXCEPT !.obj = renamed(@)] \in Jobs
                          /\ [j EXCEPT !.obj = renamed(@)].obj = renamed(j.obj)
                          /\ j.obj \in Refs
      BY <2>1 DEF Jobs
    <2>4. js \in [1..Len(jobs) -> Jobs]
      BY <2>2, <2>3
    <2>5. js \in Seq(Jobs) /\ Len(js) = Len(jobs)
      BY <2>2, <2>4
    <2>6. \A i \in 1..Len(jobs) : js[i].obj = renamed(jobs[i].obj) /\ jobs[i].obj \in Refs
      BY <2>2, <2>3
    <2> HIDE DEF js
    <2>7. /\ label' \in [Names -> Labels] /\ label'[m] = label[n]
          /\ \A x \in Names : x # n /\ x # m => label'[x] = label[x]
      BY <1>1, <1>4 DEF IInv, Typed, Labels
    <2>8. shell \in Refs /\ store' \in SUBSET Names
      BY <1>1, <1>4 DEF IInv, Typed
    <2>9. \A r \in Refs :
              (r.live => r.name \in store /\ label[r.name] # "none")
                  => /\ renamed(r).live => /\ renamed(r).name \in store'
                                           /\ label'[renamed(r).name] # "none"
      BY <1>1, <1>4, <2>1, <2>7 DEF IInv, Typed
    <2>10. ASSUME NEW r \in Refs, NEW q \in Refs, r.live, q.live, r.name # q.name,
                  r.name \in store, q.name \in store
           PROVE  renamed(r).name # renamed(q).name
      <3>1. renamed(r).name = IF r.name = n THEN m ELSE r.name
        BY <2>1, <2>10
      <3>2. renamed(q).name = IF q.name = n THEN m ELSE q.name
        BY <2>1, <2>10
      <3> QED
        BY <1>1, <2>10, <3>1, <3>2
    <2>14. shell' \in Refs /\ (shell'.live <=> shell.live)
      BY <1>4, <2>1, <2>8
    <2>15. \A i \in 1..Len(jobs) : js[i].obj.live <=> jobs[i].obj.live
      BY <2>1, <2>6
    <2> HIDE DEF renamed
    <2>11. Typed'
      <3>1. jobs' \in Seq(Jobs)
        BY <1>4, <2>5
      <3> QED
        BY <2>7, <2>8, <2>14, <3>1 DEF Typed
    <2>12. Labelled'
      <3>1. shell.live => shell.name \in store /\ label[shell.name] # "none"
        BY DEF IInv, Labelled
      <3>2. \A i \in 1..Len(jobs) :
                jobs[i].obj.live => /\ jobs[i].obj.name \in store
                                    /\ label[jobs[i].obj.name] # "none"
        BY DEF IInv, Labelled
      <3>3. shell'.live => shell'.name \in store' /\ label'[shell'.name] # "none"
        BY <1>4, <2>8, <2>9, <3>1
      <3>4. ASSUME NEW i \in 1..Len(jobs), js[i].obj.live
            PROVE  js[i].obj.name \in store' /\ label'[js[i].obj.name] # "none"
        <4>1. js[i].obj = renamed(jobs[i].obj) /\ jobs[i].obj \in Refs
          BY <2>6
        <4> QED
          BY <2>9, <3>2, <3>4, <4>1
      <3> QED
        BY <1>4, <2>5, <3>3, <3>4 DEF Labelled
    <2>13. Exclusive'
      <3>2. /\ \A i \in 1..Len(jobs) : jobs[i].obj.live => jobs[i].obj.name \in store
            /\ shell.live => shell.name \in store
        BY DEF IInv, Labelled
      <3>3. \A i, k \in 1..Len(jobs) :
                i # k /\ js[i].obj.live /\ js[k].obj.live => js[i].obj.name # js[k].obj.name
        BY <2>6, <2>10, <2>15, <3>2 DEF IInv, Exclusive
      <3>4. \A i \in 1..Len(jobs) :
                shell'.live /\ js[i].obj.live => js[i].obj.name # shell'.name
        BY <1>4, <2>6, <2>8, <2>10, <2>14, <2>15, <3>2 DEF IInv, Exclusive
      <3> QED
        BY <1>4, <2>5, <3>3, <3>4 DEF Exclusive
    <2> QED
      BY <2>11, <2>12, <2>13 DEF IInv
  <1> QED
    BY <1>2, <1>3, <1>4

LEMMA RemoveKeeps ==
  ASSUME IInv, NEW n \in Mine, Remove(n)
  PROVE  IInv'
  <1>1. n \in store
    BY DEF Remove, removable
  <1>2. \/ stored(store \ {n}) /\ jobs' = jobs_without({n})
        \/ store' = store /\ label' = label /\ shell' = shell /\ jobs' = jobs
    BY DEF Remove
  <1>3. store \ (store \ {n}) = {n} /\ store \ {n} \in SUBSET Names
    BY <1>1 DEF IInv, Typed
  <1>4. CASE stored(store \ {n}) /\ jobs' = jobs_without({n})
    BY <1>3, <1>4, StoreChanges
  <1>5. CASE store' = store /\ label' = label /\ shell' = shell /\ jobs' = jobs
    BY <1>5, FirstEnds
  <1> QED
    BY <1>2, <1>4, <1>5

LEMMA RegistersKeeps ==
  ASSUME IInv, NEW n, NEW m \in Names, registers(n, m)
  PROVE  IInv'
  <1>1. store' = store \/ store' = store \cup {m}
    BY DEF registers
  <1>2. store' \in SUBSET Names /\ store \subseteq store'
    BY <1>1 DEF IInv, Typed
  <1> QED
    BY <1>2, StoreGrows DEF registers

LEMMA FinalizeKeeps ==
  ASSUME IInv, NEW n, Finalize(n)
  PROVE  IInv'
  <1>1. PICK res \in resyncs(cache') :
            stored(res.store) /\ jobs' = jobs_without(store \ res.store)
    BY DEF Finalize
  <1> QED
    BY <1>1, ResyncsNames, StoreChanges

\* The name that the client is called for.
NestedName == nested \in Names \cup {None}

LEMMA NestedKeeps ==
  ASSUME NestedName, [Next]_vars
  PROVE  NestedName'
  <1>1. CASE Step
    <2>1. nested' = nested
      BY <1>1 DEF Step, StartClone, StartJob, Tag, Untag, Drop, Await, Refresh, Resync, Find,
                  Compat, Overwrite, Refuse, Pull, From, Choose, Commit, Rmi, Retag, Build,
                  WorkDone, CleanupDone, registry_only, without_registry, others
    <2> QED
      BY <2>1 DEF NestedName
  <1>2. CASE Request
    <2>1. nested' = nested \/ nested' = None \/ nested' \in Mine
      BY <1>2 DEF Request, Remove, Rename, Duplicate, CloneDefault, ClientAnswers, SetImage,
                  ShellOpen, ShellSave, ShellLeave, Squash, Submit, Finalize, others
    <2> QED
      BY <2>1 DEF NestedName, Names
  <1>3. CASE UNCHANGED vars
    BY <1>3 DEF vars, NestedName
  <1> QED
    BY <1>1, <1>2, <1>3 DEF Next

LEMMA RequestKeeps ==
  ASSUME IInv, NestedName, Request
  PROVE  IInv'
  <1>1. ASSUME NEW n \in Mine, Remove(n)
        PROVE  IInv'
    BY <1>1, RemoveKeeps
  <1>2. ASSUME NEW n \in Mine, CloneDefault(n)
        PROVE  IInv'
    BY <1>2, FirstEnds DEF CloneDefault
  <1>3. ASSUME NEW n \in Mine, ShellOpen(n)
        PROVE  IInv'
    BY <1>3, ShellOpenKeeps
  <1>4. ASSUME NEW n \in Mine, ShellSave(n)
        PROVE  IInv'
    BY <1>4, ShellSaveKeeps
  <1>5. ASSUME NEW n \in Mine, Squash(n)
        PROVE  IInv'
    BY <1>5, SquashKeeps
  <1>6. ASSUME NEW n \in Mine, Finalize(n)
        PROVE  IInv'
    BY <1>6, FinalizeKeeps
  <1>7. ASSUME NEW n \in Mine, NEW m \in Mine, Rename(n, m)
        PROVE  IInv'
    BY <1>7, RenameKeeps
  <1>8. ASSUME NEW n \in Mine, NEW m \in Mine, Duplicate(n, m)
        PROVE  IInv'
    <2>1. m \in Names /\ registers(n, m)
      BY <1>8 DEF Duplicate, Names
    <2> QED
      BY <2>1, RegistersKeeps
  <1>9. ASSUME NEW node \in Nodes, NEW n \in Names, SetImage(node, n)
        PROVE  IInv'
    BY <1>9, FirstEnds DEF SetImage
  <1>10. CASE ClientAnswers
    <2>1. nested \in Names /\ registers(Default, nested)
      BY <1>10 DEF ClientAnswers, NestedName
    <2> QED
      BY <2>1, RegistersKeeps
  <1>11. CASE ShellLeave
    BY <1>11, ShellLeaveKeeps
  <1>12. CASE Submit
    BY <1>12, SubmitKeeps
  <1> QED
    BY <1>1, <1>2, <1>3, <1>4, <1>5, <1>6, <1>7, <1>8, <1>9, <1>10, <1>11, <1>12 DEF Request

LEMMA TasksKeep ==
  ASSUME IInv, NestedName, [Next]_vars
  PROVE  IInv'
  <1>1. CASE Step /\ ~ WorkDone
    BY <1>1, StepKeeps
  <1>2. CASE WorkDone
    BY <1>2, WorkDoneKeeps
  <1>3. CASE Request
    BY <1>3, RequestKeeps
  <1>4. CASE UNCHANGED vars
    BY <1>4, FirstEnds DEF vars
  <1> QED
    BY <1>1, <1>2, <1>3, <1>4 DEF Next

\* OneTask holds in every state: an image has one task at a time, for any working set,
\* whatever renames, removals and failures cross the shell sessions and the squashes.
THEOREM TasksExclusive == Spec => []OneTask
  <1>1. Init => IInv /\ NestedName
    BY InitTasks DEF Init, NestedName
  <1>2. IInv /\ NestedName /\ [Next]_vars => (IInv /\ NestedName)'
    <2> SUFFICES ASSUME IInv, NestedName, [Next]_vars
                 PROVE  IInv' /\ NestedName'
      OBVIOUS
    <2>1. NestedName'
      BY NestedKeeps
    <2>2. IInv'
      BY TasksKeep
    <2> QED
      BY <2>1, <2>2
  <1>3. IInv => OneTask
    BY ImpliesOneTask
  <1> QED
    BY <1>1, <1>2, <1>3, PTL DEF Spec

-----------------------------------------------------------------------------
(***************************************************************************)
(* The image of a node is kept, the catalogue is true when the blocking    *)
(* process is idle, and clones are atomic. The invariant says what each    *)
(* step that is left to the first job may assume of the names of the job   *)
(* that can be trusted. A program is written here from its last step to    *)
(* its first one, so that what follows a step is a program too.            *)
(***************************************************************************)

\* A name that no job works on
Good(n) ==
    /\ n \in built => (n \in store => cache[n] # None) /\ (cache[n] # None => tags[n] # None)
    /\ n \notin built => cache[n] = tags[n] /\ (n \in store <=> tags[n] # None)

Intact(n) == Good(n) /\ tags[n] = start[n]

\* The backup of n, if there is one, is what n was.
Saved(n) ==
    tags[backup(n)] # None =>
        /\ tags[backup(n)] = start[n] /\ cache[backup(n)] # None
        /\ n \notin built => cache[backup(n)] = start[n]
        /\ n \in store

\* podman does not refuse a tag on n
Sane(n) == tags[n] = None => cache[n] = None

\* The image of a node has a backup.
Safe(n) == n \in used => tags[backup(n)] # None

Whole(n) == Saved(n) /\ Sane(n) /\ Safe(n)

Pulled(n) == tags[n] = fetched /\ fetched # None
Cached(n) == Pulled(n) /\ cache[n] = fetched
Copied(n, i) == tags[n] = i /\ cache[n] = i /\ i # None
Gone(n) == tags[n] = None /\ cache[n] = None

\* The store may be updated.
Ready(n) ==
    /\ n \notin built => cache[n] = tags[n]
    /\ cache[n] # None => tags[n] # None
    /\ n \in used => tags[n] # None

\* The source did not exist.
Absent(n) == n \notin used /\ (n \in built \/ start[n] = None)

trusted(n) == n \notin spoiled

cons(step, steps) == <<step>> \o steps

\* Clone of an image of the server
Local1(w, s) == << <<"tag", s, w>> >>
Local2(w, s) == cons(<<"untag", w>>, Local1(w, s))
Local3(w, s) == cons(<<"find", w>>, Local2(w, s))

\* Clone of a remote image that is in the working set
Same1(w) == << <<"resync", w>> >>
Same2(w) == cons(<<"refresh", w>>, Same1(w))
Same3(w) == cons(<<"await", w>>, Same2(w))
Same4(w) == cons(<<"pull", w>>, Same3(w))
Same5(w) == cons(<<"untag", w>>, Same4(w))
Same6(w) == cons(<<"find", w>>, Same5(w))

\* Clone of a remote image of another user: e and x tell whether the image of the working
\* set and the source exist.
Other0(s, x) == when(x, << <<"tag", backup(s), s>> >>)
Other1(s, x) == cons(<<"untag", s>>, Other0(s, x))
Other2(w, s, x) == cons(<<"tag", s, w>>, Other1(s, x))
Other3(w, s, x) == cons(<<"untag", w>>, Other2(w, s, x))
Other4(w, s, x) == cons(<<"find", w>>, Other3(w, s, x))
Copying(w, s, e, x) == IF e THEN Other4(w, s, x) ELSE Other2(w, s, x)
Other5(w, s, e, x) == cons(<<"resync", s>>, Copying(w, s, e, x))
Other6(w, s, e, x) == cons(<<"refresh", s>>, Other5(w, s, e, x))
Other7(w, s, e, x) == cons(<<"await", s>>, Other6(w, s, e, x))
Other8(w, s, e, x) == cons(<<"pull", s>>, Other7(w, s, e, x))
Other9(w, s, e, x) == cons(<<"untag", s>>, Other8(w, s, e, x))

Body(w, s, loc, e, x) ==
    IF loc THEN IF e THEN Local3(w, s) ELSE Local1(w, s)
    ELSE IF w = s THEN IF e THEN Same6(w) ELSE Same4(w)
    ELSE IF x THEN Other9(w, s, e, x) ELSE Other8(w, s, e, x)

Check1(w, s, loc, e, x) == cons(<<"overwrite", w>>, Body(w, s, loc, e, x))
Check2(w, s, loc, e, x) == cons(<<"compat", w>>, Check1(w, s, loc, e, x))
Check3(w, s, loc, e, x) == cons(<<"find", w>>, Check2(w, s, loc, e, x))

Work(w, s, loc, e, x) ==
    IF loc /\ w = s THEN << <<"refuse", w>> >>
    ELSE IF e THEN Check3(w, s, loc, e, x) ELSE Body(w, s, loc, e, x)

save(n) == <<"tag", n, backup(n)>>

\* The backups are being made: a is the next one.
Saving(w, s, loc, e, x) ==
    \E a \in {w, s} :
        /\ tags[backup(a)] = None
        /\ \/ /\ prog = cons(save(a), Work(w, s, loc, e, x))
              /\ \A n \in {w, s} : trusted(n) => (n = a => n \in store) /\ (n # a => Safe(n))
           \/ \E b \in {w, s} :
                  /\ b # a /\ tags[backup(b)] = None
                  /\ prog = cons(save(a), cons(save(b), Work(w, s, loc, e, x)))
                  /\ \A n \in {w, s} : trusted(n) => n \in store
        /\ \A n \in {w, s} : trusted(n) => Saved(n) /\ Intact(n)

\* Nothing is changed yet.
Checking(w, s, loc, e, x) ==
    /\ \/ loc /\ w = s /\ prog = << <<"refuse", w>> >>
       \/ e /\ ~(loc /\ w = s) /\ prog \in {Check3(w, s, loc, e, x), Check2(w, s, loc, e, x),
                                            Check1(w, s, loc, e, x)}
       \/ ~(loc /\ w = s) /\ prog = Body(w, s, loc, e, x)
    /\ \A n \in {w, s} : trusted(n) => Whole(n) /\ Intact(n)

CopyingLocal(w, s) ==
    /\ prog = Local2(w, s) \/ prog = Local1(w, s)
    /\ \A n \in {w, s} : trusted(n) => Whole(n)
    /\ trusted(s) => Intact(s)

Updating(w) ==
    /\ \/ prog = Same5(w) \/ prog = Same4(w)
       \/ (prog = Same3(w) \/ prog = Same2(w)) /\ (trusted(w) => Pulled(w))
       \/ prog = Same1(w) /\ (trusted(w) => Cached(w))
    /\ trusted(w) => Whole(w)

CopyingOther(w, s, e, x) ==
    /\ \/ prog = Other8(w, s, e, x) /\ (trusted(w) => Intact(w))
       \/ /\ prog = Other7(w, s, e, x) \/ prog = Other6(w, s, e, x)
          /\ (trusted(w) => Intact(w)) /\ (trusted(s) => Pulled(s))
       \/ /\ prog = Other5(w, s, e, x)
          /\ (trusted(w) => Intact(w)) /\ (trusted(s) => Cached(s))
       \/ /\ prog = Other4(w, s, x) \/ prog = Other3(w, s, x) \/ prog = Other2(w, s, x)
          /\ trusted(s) => Cached(s)
       \/ /\ \/ prog = Other1(s, x)
             \/ x /\ prog = Other0(s, x) /\ (trusted(s) => Gone(s))
          /\ trusted(w) => Copied(w, fetched)
          /\ trusted(w) /\ trusted(s) => s \notin built
    /\ \A n \in {w, s} : trusted(n) => Whole(n)
    /\ trusted(s) /\ ~x => Absent(s)

\* What the clone promises, when its work succeeded
Cloned(w, s, loc) ==
    trusted(w) /\ trusted(s) => /\ tags[w] = IF loc THEN start[s] ELSE fetched
                                /\ w # s => tags[s] = start[s]

Done(w, s, loc) ==
    /\ prog = <<>>
    /\ \A n \in {w, s} : trusted(n) => Whole(n) /\ Ready(n)
    /\ Cloned(w, s, loc)

CloneWorks(w, s, loc) ==
    \/ \E e, x \in BOOLEAN :
           \/ Saving(w, s, loc, e, x) /\ (trusted(s) /\ ~x => Absent(s))
           \/ Checking(w, s, loc, e, x) /\ (trusted(s) /\ ~x => Absent(s))
           \/ ~loc /\ w # s /\ CopyingOther(w, s, e, x)
    \/ loc /\ w # s /\ CopyingLocal(w, s)
    \/ ~loc /\ w = s /\ Updating(w)
    \/ Done(w, s, loc)

CloneDeclined(w, s) ==
    /\ prog = <<>>
    /\ \A n \in {w, s} : trusted(n) => Whole(n) /\ Intact(n)

\* The cleaner removes the backups and updates the store.
Cleaning(w, s) ==
    \/ prog = <<>> /\ \A n \in {w, s} : trusted(n) => Good(n)
    \/ /\ prog # <<>> /\ prog[Len(prog)] = <<"resync", w>>
       /\ \A i \in 1..(Len(prog) - 1) :
              \E n \in {w, s} : prog[i] = <<"untag", backup(n)>> /\ tags[backup(n)] # None
       /\ \A i, k \in 1..(Len(prog) - 1) : prog[i] = prog[k] => i = k
       /\ \A n \in {w, s} : trusted(n) => Ready(n)

\* The cleaner drops the names, restores the backups and removes them.
pending(step) == \E i \in 1..Len(prog) : prog[i] = step
drop(n) == <<"drop", n>>
back(n) == <<"tag", backup(n), n>>
lose(n) == <<"untag", backup(n)>>

Ordered(w, s) ==
    /\ \A i \in 1..Len(prog) :
           \E n \in {w, s} : prog[i] \in {drop(n), back(n), lose(n)}
    /\ \A i, k \in 1..Len(prog) :
           i < k => /\ prog[i][1] = "tag" => prog[k][1] # "drop"
                    /\ prog[i][1] = "untag" => prog[k][1] = "untag"
                    /\ prog[i] = prog[k] => prog[i][1] = "drop"

Restoring(w, s) ==
    /\ Ordered(w, s)
    /\ \A n \in {w, s} :
           /\ pending(lose(n)) => tags[backup(n)] # None
           /\ pending(back(n)) => pending(lose(n))
           /\ trusted(n) =>
                \/ /\ pending(drop(n))
                   /\ Sane(n) /\ Saved(n)
                   /\ n \in used => tags[n] # None \/ tags[backup(n)] # None
                   /\ tags[backup(n)] # None => pending(back(n))
                \/ /\ ~pending(drop(n)) /\ pending(back(n))
                   /\ Gone(n) /\ Saved(n)
                \/ /\ ~pending(drop(n)) /\ ~pending(back(n))
                   /\ Intact(n)

CloneInv(w, s, loc) ==
    \/ phase = "work" /\ CloneWorks(w, s, loc)
    \/ phase = "declined" /\ CloneDeclined(w, s)
    \/ phase = "restore" /\ Restoring(w, s)
    \/ phase = "forget" /\ Cleaning(w, s) /\ Cloned(w, s, loc)
    \/ phase = "decline" /\ Cleaning(w, s) /\ \A n \in {w, s} : trusted(n) => tags[n] = start[n]

\* The other jobs work on one name.
New1(n) == << <<"resync", n>> >>
New2(n) == cons(<<"refresh", n>>, New1(n))
New3(n) == cons(<<"await", n>>, New2(n))
New4(n) == cons(<<"commit", n>>, New3(n))
Over4(n) == cons(<<"rmi", Temp>>, New3(n))
Over5(n) == cons(<<"retag", n>>, Over4(n))
Over6(n) == cons(<<"rmi", n>>, Over5(n))
Over7(n) == cons(<<"commit", Temp>>, Over6(n))
Commit1(n) == << <<"choose", n>> >>
Squash2(n) == cons(<<"from", n>>, Commit1(n))
Squash3(n) == cons(<<"find", n>>, Squash2(n))
Build1(n) == << <<"build", n>> >>
Update2(n) == cons(<<"resync", n>>, New1(n))
Update3(n) == cons(<<"refresh", n>>, Update2(n))
Update4(n) == cons(<<"await", n>>, Update3(n))
Update5(n) == cons(<<"pull", n>>, Update4(n))

Present(n) == tags[n] # None
Listed(n) == Present(n) /\ cache[n] = tags[n]

CommitInv(n) ==
    \/ prog \in {Squash3(n), Squash2(n), Commit1(n), New4(n)} /\ (trusted(n) => Good(n))
    \/ prog = Over7(n) /\ (trusted(n) => Good(n) /\ Present(n))
    \/ prog = Over6(n) /\ Present(Temp) /\ (trusted(n) => Good(n) /\ Present(n))
    \/ prog = Over5(n) /\ Present(Temp)
    \/ prog = Over4(n) /\ Present(Temp) /\ (trusted(n) => Present(n))

OtherInv(n, kind) ==
    /\ phase = "work"
    /\ \/ kind \in {"squash", "commit"} /\ CommitInv(n)
       \/ kind = "update" /\ prog = Update5(n) /\ (trusted(n) => Good(n))
       \/ prog = Build1(n) /\ (trusted(n) => Good(n))
       \/ prog \in {New3(n), New2(n), Update4(n), Update3(n)} /\ (trusted(n) => Present(n))
       \/ prog \in {New1(n), Update2(n)} /\ (trusted(n) => Listed(n))
       \/ prog = <<>> /\ (trusted(n) => Good(n))

JobInv(j) ==
    \/ j.kind = "clone" /\ CloneInv(j.ws, j.src, j.local)
    \/ j.kind # "clone" /\ OtherInv(j.ws, j.kind)

Ops == {"tag", "untag", "drop", "await", "refresh", "resync", "find", "compat", "overwrite",
        "refuse", "pull", "from", "choose", "commit", "rmi", "retag", "build"}

Steps == (Ops \X AllNames) \cup (Ops \X AllNames \X AllNames)

CatalogTyped ==
    /\ tags \in [AllNames -> Ids \cup {None}]
    /\ cache \in [AllNames -> Ids \cup {None}]
    /\ start \in [AllNames -> Ids \cup {None}]
    /\ fetched \in Ids \cup {None}
    /\ store \subseteq Names
    /\ image \in [Nodes -> Names]
    /\ nested \in Names \cup {None}
    /\ prog \in Seq(Steps)
    /\ jobs = <<>> => phase = "queued"
    /\ \A i \in 1..Len(jobs) : jobs[i].kind # "clone" => jobs[i].src = jobs[i].ws

CInv ==
    /\ CatalogTyped
    /\ used \subseteq store
    /\ \A n \in Names : trusted(n) /\ n \notin busy => Good(n)
    /\ working => JobInv(job)

-----------------------------------------------------------------------------
\* A sequence and its first step
LEMMA ConsFacts ==
  ASSUME NEW S, NEW a \in S, NEW r \in Seq(S)
  PROVE  /\ cons(a, r) \in Seq(S) /\ cons(a, r) # <<>>
         /\ Head(cons(a, r)) = a /\ Tail(cons(a, r)) = r
  <1>1. <<a>> \in Seq(S) /\ Len(<<a>>) = 1 /\ <<a>>[1] = a
    OBVIOUS
  <1>2. /\ cons(a, r) \in Seq(S) /\ Len(cons(a, r)) = 1 + Len(r)
        /\ cons(a, r)[1] = a
        /\ \A i \in 1..Len(r) : cons(a, r)[i + 1] = r[i]
    BY <1>1 DEF cons
  <1>3. cons(a, r) # <<>> /\ Head(cons(a, r)) = a
    BY <1>2
  <1>4. /\ Tail(cons(a, r)) \in Seq(S) /\ Len(Tail(cons(a, r))) = Len(r)
        /\ \A i \in 1..Len(r) : Tail(cons(a, r))[i] = r[i]
    BY <1>2, <1>3
  <1> HIDE DEF cons
  <1>5. Tail(cons(a, r)) = r
    BY <1>4
  <1> QED
    BY <1>2, <1>3, <1>5

LEMMA NameFacts ==
  /\ \A n \in Names : n \in AllNames /\ backup(n) \in AllNames /\ n # Temp
  /\ Temp \in AllNames
  /\ \A n, m \in Names : backup(n) # m /\ (backup(n) = backup(m) => n = m)
  /\ Default \in Names
  BY TemporaryNames, ImageCatalogAssumption DEF AllNames, backup, Names

LEMMA StepFacts ==
  /\ \A n \in AllNames, op \in Ops : <<op, n>> \in Steps
  /\ \A n, m \in AllNames : <<"tag", n, m>> \in Steps
  BY DEF Steps, Ops

\* The action of a step is that of its name.
LEMMA WorkingSteps ==
  ASSUME working, Step
  PROVE  /\ prog # <<>> => \/ Tag \/ Untag \/ Drop \/ Await \/ Refresh \/ Resync \/ Find
                           \/ Compat \/ Overwrite \/ Refuse \/ Pull \/ From \/ Choose
                           \/ Commit \/ Rmi \/ Retag \/ Build
         /\ prog = <<>> => WorkDone \/ CleanupDone
  <1>1. ~ StartClone /\ ~ StartJob
    BY DEF working, StartClone, StartJob
  <1>2. (WorkDone \/ CleanupDone) => prog = <<>>
    BY DEF WorkDone, CleanupDone
  <1>3. (\/ Tag \/ Untag \/ Drop \/ Await \/ Refresh \/ Resync \/ Find \/ Compat \/ Overwrite
         \/ Refuse \/ Pull \/ From \/ Choose \/ Commit \/ Rmi \/ Retag \/ Build) => prog # <<>>
    BY DEF Tag, Untag, Drop, Await, Refresh, Resync, Find, Compat, Overwrite, Refuse, Pull, From,
           Choose, Commit, Rmi, Retag, Build, at
  <1> QED
    BY <1>1, <1>2, <1>3 DEF Step

LEMMA ActionNames ==
  /\ Tag => Head(prog)[1] = "tag"
  /\ Untag => Head(prog)[1] = "untag"
  /\ Drop => Head(prog)[1] = "drop"
  /\ Await => Head(prog)[1] = "await"
  /\ Refresh => Head(prog)[1] = "refresh"
  /\ Resync => Head(prog)[1] = "resync"
  /\ Find => Head(prog)[1] = "find"
  /\ Compat => Head(prog)[1] = "compat"
  /\ Overwrite => Head(prog)[1] = "overwrite"
  /\ Refuse => Head(prog)[1] = "refuse"
  /\ Pull => Head(prog)[1] = "pull"
  /\ From => Head(prog)[1] = "from"
  /\ Choose => Head(prog)[1] = "choose"
  /\ Commit => Head(prog)[1] = "commit"
  /\ Rmi => Head(prog)[1] = "rmi"
  /\ Retag => Head(prog)[1] = "retag"
  /\ Build => Head(prog)[1] = "build"
  BY DEF Tag, Untag, Drop, Await, Refresh, Resync, Find, Compat, Overwrite, Refuse, Pull, From,
         Choose, Commit, Rmi, Retag, Build, at

LEMMA StepAt ==
  ASSUME working, Step, prog # <<>>, NEW op, Head(prog)[1] = op
  PROVE  /\ op = "tag" => Tag
         /\ op = "untag" => Untag
         /\ op = "drop" => Drop
         /\ op = "await" => Await
         /\ op = "refresh" => Refresh
         /\ op = "resync" => Resync
         /\ op = "find" => Find
         /\ op = "compat" => Compat
         /\ op = "overwrite" => Overwrite
         /\ op = "refuse" => Refuse
         /\ op = "pull" => Pull
         /\ op = "from" => From
         /\ op = "choose" => Choose
         /\ op = "commit" => Commit
         /\ op = "rmi" => Rmi
         /\ op = "retag" => Retag
         /\ op = "build" => Build
  BY WorkingSteps, ActionNames

\* What a step or a request does to a name, when the name is neither touched by it nor lost
Keeps(n) ==
    /\ tags'[n] = tags[n]
    /\ cache'[n] = cache[n] \/ (cache'[n] = tags[n] /\ tags[n] # None)
    /\ n \in store => n \in store'
    /\ n \in store' => n \in store \/ cache'[n] # None
    /\ n \in used' => n \in used
    /\ n \in built' <=> n \in built

KeepsBackup(n) ==
    /\ tags'[backup(n)] = tags[backup(n)]
    /\ \/ cache'[backup(n)] = cache[backup(n)]
       \/ cache'[backup(n)] = tags[backup(n)] /\ tags[backup(n)] # None

past_kept == start' = start /\ fetched' = fetched

LEMMA KeptFacts ==
  ASSUME NEW n, Keeps(n)
  PROVE  /\ Good(n) => Good(n)'
         /\ Sane(n) => Sane(n)'
         /\ Ready(n) => Ready(n)'
         /\ Gone(n) => Gone(n)'
         /\ Present(n) => Present(n)'
         /\ Listed(n) => Listed(n)'
         /\ n \in store => n \in store'
         /\ n \notin built => n \notin built'
         /\ \A i : Copied(n, i) => /\ tags'[n] = i /\ cache'[n] = i /\ i # None
  BY DEF Keeps, Good, Sane, Ready, Gone, Present, Listed, Copied

LEMMA KeptStart ==
  ASSUME NEW n, Keeps(n), start' = start
  PROVE  /\ Intact(n) => Intact(n)'
         /\ Absent(n) => Absent(n)'
  <1>1. Good(n) => Good(n)'
    BY KeptFacts
  <1> QED
    BY <1>1 DEF Keeps, Intact, Absent

LEMMA KeptFetched ==
  ASSUME NEW n, Keeps(n), fetched' = fetched
  PROVE  /\ Pulled(n) => Pulled(n)'
         /\ Cached(n) => Cached(n)'
         /\ Copied(n, fetched) => Copied(n, fetched)'
  BY DEF Keeps, Pulled, Cached, Copied

LEMMA KeptBackup ==
  ASSUME NEW n, Keeps(n), KeepsBackup(n), start' = start
  PROVE  /\ Saved(n) => Saved(n)'
         /\ Safe(n) => Safe(n)'
         /\ Whole(n) => Whole(n)'
         /\ tags[backup(n)] = None <=> tags'[backup(n)] = None
  <1>1. Sane(n) => Sane(n)'
    BY KeptFacts
  <1>2. Saved(n) => Saved(n)'
    BY DEF Keeps, KeepsBackup, Saved
  <1>3. Safe(n) => Safe(n)'
    BY DEF Keeps, KeepsBackup, Safe
  <1> QED
    BY <1>1, <1>2, <1>3 DEF Whole, KeepsBackup

\* The jobs are the same, but for the image objects that they refer to.
JobsLike(js) ==
    /\ js \in Seq(Jobs) /\ Len(js) = Len(jobs)
    /\ \A i \in 1..Len(jobs) :
           /\ js[i].kind = jobs[i].kind /\ js[i].ws = jobs[i].ws
           /\ js[i].src = jobs[i].src /\ js[i].local = jobs[i].local

JobsKept ==
    /\ jobs' \in Seq(Jobs) /\ Len(jobs') = Len(jobs)
    /\ \A i \in 1..Len(jobs) :
           /\ jobs'[i].kind = jobs[i].kind /\ jobs'[i].ws = jobs[i].ws
           /\ jobs'[i].src = jobs[i].src /\ jobs'[i].local = jobs[i].local

LEMMA SameJobs ==
  ASSUME IInv, jobs' = jobs
  PROVE  JobsKept
  BY DEF JobsKept, IInv, Typed

LEMMA JobsWithoutKept ==
  ASSUME IInv, NEW gone
  PROVE  JobsLike(jobs_without(gone))
  <1>1. jobs \in Seq(Jobs) /\ DOMAIN jobs = 1..Len(jobs)
    BY DEF IInv, Typed
  <1>2. jobs_without(gone) = [i \in DOMAIN jobs |-> [jobs[i] EXCEPT !.obj = dead(@, gone)]]
    BY DEF jobs_without, with_refs
  <1>3. \A j \in Jobs : \A r : LET k == [j EXCEPT !.obj = r] IN
            k.kind = j.kind /\ k.ws = j.ws /\ k.src = j.src /\ k.local = j.local
    BY DEF Jobs
  <1>4. \A i \in 1..Len(jobs) : jobs[i] \in Jobs
    BY <1>1
  <1>5. \A i \in 1..Len(jobs) : jobs_without(gone)[i] = [jobs[i] EXCEPT !.obj = dead(@, gone)]
    BY <1>1, <1>2
  <1>6. ASSUME NEW i \in 1..Len(jobs)
        PROVE  /\ jobs_without(gone)[i].kind = jobs[i].kind
               /\ jobs_without(gone)[i].ws = jobs[i].ws
               /\ jobs_without(gone)[i].src = jobs[i].src
               /\ jobs_without(gone)[i].local = jobs[i].local
    <2>1. jobs_without(gone)[i] = [jobs[i] EXCEPT !.obj = dead(jobs[i].obj, gone)]
      BY <1>5, <1>4 DEF Jobs
    <2> QED
      BY <2>1, <1>3, <1>4
  <1> QED
    BY <1>1, <1>6, JobsWithout DEF JobsLike

LEMMA FirstJobKept ==
  ASSUME IInv, JobsKept, working
  PROVE  /\ jobs' # <<>> /\ job \in Jobs
         /\ job'.kind = job.kind /\ job'.ws = job.ws /\ job'.src = job.src
         /\ job'.local = job.local
  <1>1. jobs \in Seq(Jobs) /\ jobs # <<>> /\ Len(jobs) \in Nat /\ Len(jobs) >= 1
    BY DEF IInv, Typed, working
  <1>2. job = jobs[1] /\ job \in Jobs
    BY <1>1 DEF job
  <1>3. jobs' \in Seq(Jobs) /\ Len(jobs') >= 1
    BY <1>1 DEF JobsKept
  <1>4. jobs' # <<>> /\ job' = jobs'[1]
    BY <1>3 DEF job
  <1>5. 1 \in 1..Len(jobs)
    BY <1>1
  <1> QED
    BY <1>2, <1>4, <1>5 DEF JobsKept

\* What the first job works on
LEMMA JobNames ==
  ASSUME IInv, CatalogTyped, jobs # <<>>
  PROVE  /\ job \in Jobs /\ job.ws \in Names /\ job.src \in Names /\ job.local \in BOOLEAN
         /\ job.kind \in Kinds
         /\ job.kind # "clone" => job.src = job.ws
  <1>1. jobs \in Seq(Jobs) /\ Len(jobs) \in Nat /\ Len(jobs) >= 1
    BY DEF IInv, Typed
  <1>2. job = jobs[1] /\ job \in Jobs /\ 1 \in 1..Len(jobs)
    BY <1>1 DEF job
  <1> QED
    BY <1>2 DEF Jobs, CatalogTyped

\* What follows a step: the next one, the cleaner of a clone, or the end of the job
JobsEnded ==
    /\ jobs' \in Seq(Jobs) /\ Len(jobs') = Len(jobs) - 1
    /\ \A i \in 1..Len(jobs') :
           /\ jobs'[i].kind = jobs[i + 1].kind /\ jobs'[i].ws = jobs[i + 1].ws
           /\ jobs'[i].src = jobs[i + 1].src /\ jobs'[i].local = jobs[i + 1].local

Advances == prog' = Tail(prog) /\ phase' = phase /\ JobsKept /\ past_kept

Restores ==
    /\ phase' = "restore" /\ JobsKept /\ past_kept
    /\ \E order \in orders(job) : prog' = restore(job, order)

Ends == phase' = "queued" /\ prog' = <<>> /\ JobsEnded /\ start' = nothing /\ fetched' = None

Fails ==
    /\ job.kind = "clone" /\ phase = "work" => Restores
    /\ ~(job.kind = "clone" /\ phase = "work") => Ends

LEMMA JobsLikeTail ==
  ASSUME IInv, jobs # <<>>, NEW js, JobsLike(js), jobs' = Tail(js)
  PROVE  JobsEnded
  <1>1. jobs \in Seq(Jobs) /\ Len(jobs) \in Nat /\ Len(jobs) >= 1
    BY DEF IInv, Typed
  <1>2. js \in Seq(Jobs) /\ js # <<>> /\ Len(js) = Len(jobs)
    BY <1>1 DEF JobsLike
  <1>3. /\ jobs' \in Seq(Jobs) /\ Len(jobs') = Len(jobs) - 1
        /\ \A i \in 1..Len(jobs') : jobs'[i] = js[i + 1] /\ i + 1 \in 1..Len(jobs)
    BY <1>1, <1>2
  <1> QED
    BY <1>3 DEF JobsEnded, JobsLike

LEMMA Outcomes ==
  ASSUME IInv, jobs # <<>>, NEW js, JobsLike(js)
  PROVE  /\ continues(js) => Advances
         /\ raises(js) => Fails
         /\ ends(js) => Ends
         /\ jobs' = js => JobsKept
  <1>1. jobs' = js => JobsKept
    BY DEF JobsKept, JobsLike
  <1>2. ends(js) => Ends
    BY JobsLikeTail DEF ends, Ends
  <1>3. continues(js) => Advances
    BY <1>1 DEF continues, Advances, past, past_kept
  <1>4. raises(js) => Fails
    BY <1>1, <1>2 DEF raises, Fails, Restores, past, past_kept
  <1> QED
    BY <1>1, <1>2, <1>3, <1>4

LEMMA LikeItself ==
  ASSUME IInv
  PROVE  JobsLike(jobs) /\ \A gone : JobsLike(jobs_without(gone))
  <1>1. JobsLike(jobs)
    BY DEF JobsLike, IInv, Typed
  <1> QED
    BY <1>1, JobsWithoutKept

\* The store, the table of nodes and the sessions are not concerned.
Quiet == UNCHANGED <<store, image, nested, built>>

LEMMA QuietKeeps ==
  ASSUME Quiet, NEW n
  PROVE  /\ tags'[n] = tags[n] /\ cache'[n] = cache[n] => Keeps(n)
         /\ /\ tags'[backup(n)] = tags[backup(n)]
            /\ cache'[backup(n)] = cache[backup(n)]
            => KeepsBackup(n)
  BY DEF Quiet, Keeps, KeepsBackup, used

Arrays ==
    /\ tags \in [AllNames -> Ids \cup {None}]
    /\ cache \in [AllNames -> Ids \cup {None}]

LEMMA EffectTag ==
  ASSUME IInv, Arrays, NEW a \in AllNames, NEW b \in AllNames,
         Head(prog) = <<"tag", a, b>>, Tag
  PROVE  /\ Quiet /\ Arrays' /\ spoiled \subseteq spoiled'
         /\ \A m \in AllNames \ {b} : tags'[m] = tags[m] /\ cache'[m] = cache[m]
         /\ \/ /\ Advances
               /\ tags[a] # None /\ tags'[b] = tags[a] /\ cache'[b] = cache[a]
               /\ b \in Names /\ a \in built \cup spoiled => b \in spoiled'
            \/ /\ Fails
               /\ b \in Names => b \in spoiled'
               /\ \/ tags'[b] = tags[b] /\ cache'[b] = cache[b] /\ cache[b] # None /\ tags[b] = None
                  \/ tags[a] = None /\ tags'[b] = None
               /\ phase = "restore" => job.ws \in spoiled' /\ job.src \in spoiled'
  <1> DEFINE res == registry_tag(a, b)
  <1>1. arg = a /\ Head(prog)[3] = b
    BY DEF arg
  <1>2. applies(res, doubtful(res.ok, a, b))
    BY <1>1 DEF Tag
  <1>3. jobs # <<>> /\ Quiet
    BY DEF Tag, at, working, registry_only, others, Quiet
  <1>4. /\ tags' = res.tags /\ cache' = res.cache /\ proceeds(res.ok, jobs)
        /\ spoiled' = spoiled \cup doubtful(res.ok, a, b)
                        \cup IF ~res.ok /\ phase = "restore" THEN {job.ws, job.src} ELSE {}
    BY <1>2 DEF applies
  <1>5. JobsLike(jobs)
    BY LikeItself
  <1>6. (res.ok => Advances) /\ (~res.ok => Fails)
    BY <1>3, <1>4, <1>5, Outcomes DEF proceeds
  <1>7. CASE cache[b] # None /\ tags[b] = None
    <2>1. ~res.ok /\ res.tags = tags /\ res.cache = cache
      BY <1>7 DEF registry_tag
    <2>2. b \in Names => b \in doubtful(res.ok, a, b)
      BY <2>1 DEF doubtful
    <2> HIDE DEF res
    <2> QED
      BY <1>3, <1>4, <1>6, <1>7, <2>1, <2>2 DEF Arrays
  <1>8. CASE ~(cache[b] # None /\ tags[b] = None)
    <2>1. /\ res.ok = (tags[a] # None)
          /\ res.tags = [tags EXCEPT ![b] = tags[a]]
          /\ res.cache = [cache EXCEPT ![b] = cache[a]]
      BY <1>8 DEF registry_tag
    <2>2. b \in Names /\ (~res.ok \/ a \in built \cup spoiled) => b \in doubtful(res.ok, a, b)
      BY DEF doubtful
    <2> HIDE DEF res
    <2>3. Arrays' /\ tags'[b] = tags[a] /\ cache'[b] = cache[a]
      BY <1>4, <2>1 DEF Arrays
    <2>4. \A m \in AllNames \ {b} : tags'[m] = tags[m] /\ cache'[m] = cache[m]
      BY <1>4, <2>1 DEF Arrays
    <2> QED
      BY <1>3, <1>4, <1>6, <2>1, <2>2, <2>3, <2>4
  <1> QED
    BY <1>7, <1>8

LEMMA EffectUntag ==
  ASSUME IInv, Arrays, NEW a \in AllNames, Head(prog) = <<"untag", a>>, Untag
  PROVE  /\ Quiet /\ Arrays' /\ spoiled \subseteq spoiled'
         /\ \A m \in AllNames \ {a} : tags'[m] = tags[m] /\ cache'[m] = cache[m]
         /\ \/ /\ Advances /\ spoiled' = spoiled
               /\ tags[a] # None /\ tags'[a] = None /\ cache'[a] = None
            \/ Fails /\ tags[a] = None /\ tags' = tags /\ cache' = cache
  <1> DEFINE res == registry_untag(a)
  <1>1. arg = a
    BY DEF arg
  <1>2. applies(res, {})
    BY <1>1 DEF Untag
  <1>3. jobs # <<>> /\ Quiet
    BY DEF Untag, at, working, registry_only, others, Quiet
  <1>4. /\ tags' = res.tags /\ cache' = res.cache /\ proceeds(res.ok, jobs)
        /\ spoiled' = spoiled \cup {}
                        \cup IF ~res.ok /\ phase = "restore" THEN {job.ws, job.src} ELSE {}
    BY <1>2 DEF applies
  <1>5. JobsLike(jobs)
    BY LikeItself
  <1>6. (res.ok => Advances) /\ (~res.ok => Fails)
    BY <1>3, <1>4, <1>5, Outcomes DEF proceeds
  <1>7. /\ res.ok = (tags[a] # None)
        /\ tags[a] = None => res.tags = tags /\ res.cache = cache
        /\ tags[a] # None => /\ res.tags = [tags EXCEPT ![a] = None]
                             /\ res.cache = [cache EXCEPT ![a] = None]
    BY DEF registry_untag
  <1> HIDE DEF res
  <1>8. CASE tags[a] = None
    BY <1>3, <1>4, <1>6, <1>7, <1>8 DEF Arrays
  <1>9. CASE tags[a] # None
    BY <1>3, <1>4, <1>6, <1>7, <1>9 DEF Arrays
  <1> QED
    BY <1>8, <1>9

LEMMA EffectDrop ==
  ASSUME IInv, Arrays, NEW a \in Names, Head(prog) = <<"drop", a>>, Drop
  PROVE  /\ Quiet /\ Arrays' /\ spoiled \subseteq spoiled'
         /\ \A m \in AllNames \ {a} : tags'[m] = tags[m] /\ cache'[m] = cache[m]
         /\ tags[backup(a)] = None /\ (start[a] # None \/ a \in store) => a \in spoiled'
         /\ \/ Advances /\ tags'[a] = None /\ cache'[a] = None
            \/ /\ Fails /\ tags[a] = None /\ cache[a] # None /\ tags' = tags /\ cache' = cache
               /\ phase = "restore" => job.ws \in spoiled' /\ job.src \in spoiled'
  <1> DEFINE res == IF image_exists(a) THEN registry_untag(a)
                    ELSE [ok |-> TRUE, tags |-> tags, cache |-> cache]
             lost == IF tags[backup(a)] = None /\ (start[a] # None \/ a \in store)
                     THEN {a} ELSE {}
  <1>1. arg = a /\ a \in AllNames
    BY NameFacts DEF arg
  <1>2. applies(res, lost)
    BY <1>1 DEF Drop
  <1>3. jobs # <<>> /\ Quiet
    BY DEF Drop, at, working, registry_only, others, Quiet
  <1>4. /\ tags' = res.tags /\ cache' = res.cache /\ proceeds(res.ok, jobs)
        /\ spoiled' = spoiled \cup lost
                        \cup IF ~res.ok /\ phase = "restore" THEN {job.ws, job.src} ELSE {}
    BY <1>2 DEF applies
  <1>5. JobsLike(jobs)
    BY LikeItself
  <1>6. (res.ok => Advances) /\ (~res.ok => Fails)
    BY <1>3, <1>4, <1>5, Outcomes DEF proceeds
  <1>7. /\ tags[a] # None => res = [ok |-> TRUE, tags |-> [tags EXCEPT ![a] = None],
                                    cache |-> [cache EXCEPT ![a] = None]]
        /\ tags[a] = None /\ cache[a] # None => res = [ok |-> FALSE, tags |-> tags, cache |-> cache]
        /\ tags[a] = None /\ cache[a] = None => res = [ok |-> TRUE, tags |-> tags, cache |-> cache]
    BY DEF registry_untag, image_exists
  <1> HIDE DEF res
  <1>8. CASE tags[a] = None /\ cache[a] # None
    BY <1>3, <1>4, <1>6, <1>7, <1>8 DEF Arrays
  <1>9. CASE tags[a] = None /\ cache[a] = None
    BY <1>3, <1>4, <1>6, <1>7, <1>9 DEF Arrays
  <1>10. CASE tags[a] # None
    <2>1. /\ res.ok /\ tags' = [tags EXCEPT ![a] = None] /\ cache' = [cache EXCEPT ![a] = None]
      BY <1>4, <1>7, <1>10
    <2>2. Arrays' /\ tags'[a] = None /\ cache'[a] = None
      BY <1>1, <2>1 DEF Arrays
    <2> QED
      BY <1>3, <1>4, <1>6, <2>1, <2>2 DEF Arrays
  <1> QED
    BY <1>8, <1>9, <1>10

\* A name that the cache and the store cannot lose: the updates of them keep it.
Firm(n) == Sane(n) /\ (n \in store => cache[n] # None)

Same == tags' = tags /\ cache' = cache

LEMMA EffectAwait ==
  ASSUME IInv, Await
  PROVE  Quiet /\ Same /\ spoiled' = spoiled /\ Advances
  <1>1. jobs # <<>> /\ continues(jobs) /\ Quiet /\ Same /\ spoiled' = spoiled
    BY DEF Await, at, working, podman, registry_only, others, Quiet, Same
  <1> QED
    BY <1>1, LikeItself, Outcomes

LEMMA Refreshed ==
  ASSUME Arrays, NEW a \in AllNames
  PROVE  /\ refreshed(cache, a) \in [AllNames -> Ids \cup {None}]
         /\ refreshed(cache, a)[a] = tags[a]
         /\ \A m \in AllNames \ {a} :
                \/ refreshed(cache, a)[m] = cache[m]
                \/ refreshed(cache, a)[m] = tags[m] /\ tags[m] # None
  <1> DEFINE f == refreshed(cache, a)
  <1>1. f = [m \in AllNames |-> IF tags[a] # None /\ tags[m] = tags[a] THEN tags[a]
                                ELSE IF m = a THEN None ELSE cache[m]]
    BY DEF refreshed
  <1> HIDE DEF f
  <1>2. f \in [AllNames -> Ids \cup {None}]
    BY <1>1 DEF Arrays
  <1>3. f[a] = tags[a]
    BY <1>1
  <1>4. \A m \in AllNames \ {a} : f[m] = cache[m] \/ (f[m] = tags[m] /\ tags[m] # None)
    BY <1>1
  <1> QED
    BY <1>2, <1>3, <1>4 DEF f

LEMMA EffectRefresh ==
  ASSUME IInv, Arrays, NEW a \in AllNames, Head(prog) = <<"refresh", a>>, Refresh
  PROVE  /\ Quiet /\ Arrays' /\ tags' = tags /\ spoiled' = spoiled /\ Advances
         /\ cache'[a] = tags[a]
         /\ \A m \in AllNames \ {a} : \/ cache'[m] = cache[m]
                                      \/ cache'[m] = tags[m] /\ tags[m] # None
  <1>1. arg = a
    BY DEF arg
  <1>2. /\ jobs # <<>> /\ continues(jobs) /\ Quiet /\ spoiled' = spoiled /\ tags' = tags
        /\ cache' = refreshed(cache, a)
    BY <1>1 DEF Refresh, at, working, registry_only, others, Quiet
  <1>3. Advances
    BY <1>2, LikeItself, Outcomes
  <1> QED
    BY <1>2, <1>3, Refreshed DEF Arrays

\* resync_from_registry(), when the cache is ch: the names that it does not lose follow it.
LEMMA ResyncFacts ==
  ASSUME NEW ch, store \subseteq Names, used \subseteq store, NEW res \in resyncs(ch)
  PROVE  /\ res.store \subseteq Names /\ used \subseteq res.store
         /\ res.ok \in BOOLEAN
         /\ \A n \in Names : ch[n] # None => n \in res.store
         /\ \A n \in Names : n \in res.store => n \in store \/ ch[n] # None
         /\ \A n \in Names : res.ok \/ n \notin store \ listed(ch)
                             => (n \in res.store <=> ch[n] # None)
  <1> DEFINE gone == store \ listed(ch)
  <1>1. CASE gone \cap used = {}
    <2>1. res = [ok |-> TRUE, store |-> listed(ch)]
      BY <1>1 DEF resyncs
    <2>2. res.ok = TRUE /\ res.store = listed(ch)
      BY <2>1
    <2>3. used \subseteq listed(ch)
      BY <1>1
    <2>4. listed(ch) \subseteq Names /\ \A n \in Names : n \in listed(ch) <=> ch[n] # None
      BY DEF listed
    <2>5. res.store \subseteq Names /\ used \subseteq res.store /\ res.ok \in BOOLEAN
      BY <2>2, <2>3, <2>4
    <2>6. \A n \in Names : n \in res.store <=> ch[n] # None
      BY <2>2, <2>4
    <2> QED
      BY <2>5, <2>6
  <1>2. CASE gone \cap used # {}
    <2>1. PICK rm \in SUBSET (gone \ used) :
              res = [ok |-> FALSE, store |-> (store \cup listed(ch)) \ rm]
      BY <1>2 DEF resyncs
    <2>2. ~res.ok /\ res.store = (store \cup listed(ch)) \ rm
      BY <2>1
    <2>3. \A n \in Names : ch[n] # None <=> n \in listed(ch)
      BY DEF listed
    <2>4. \A n : n \in rm => n \in store /\ n \notin listed(ch) /\ n \notin used
      BY <2>1
    <2>5. listed(ch) \subseteq Names
      BY DEF listed
    <2>6. res.store \subseteq Names /\ used \subseteq res.store /\ res.ok = FALSE
      BY <2>1, <2>2, <2>4, <2>5
    <2>7. \A n \in Names : /\ ch[n] # None => n \in res.store
                           /\ n \in res.store => n \in store \/ ch[n] # None
      BY <2>2, <2>3, <2>4
    <2>8. \A n \in Names : n \notin store \ listed(ch) => (n \in res.store <=> ch[n] # None)
      BY <2>2, <2>3, <2>4
    <2> QED
      BY <2>6, <2>7, <2>8
  <1> QED
    BY <1>1, <1>2

LEMMA EffectResync ==
  ASSUME IInv, NEW a, store \subseteq Names, used \subseteq store,
         Head(prog) = <<"resync", a>>, Resync
  PROVE  /\ Same /\ UNCHANGED <<image, nested, built>> /\ spoiled \subseteq spoiled'
         /\ store' \subseteq Names /\ used' \subseteq store'
         /\ Advances \/ Fails
         /\ \A n \in Names : /\ cache[n] # None => n \in store'
                             /\ n \in store' => n \in store \/ cache[n] # None
                             /\ trusted(n)' => (n \in store' <=> cache[n] # None)
  <1>1. PICK res \in resyncs(cache) :
            /\ stored(res.store)
            /\ proceeds(res.ok, jobs_without(store \ res.store))
            /\ spoiled' = spoiled \cup IF res.ok THEN {} ELSE store \ listed(cache)
    BY DEF Resync
  <1>2. /\ jobs # <<>> /\ Same /\ UNCHANGED <<image, nested, built>> /\ store' = res.store
    BY <1>1 DEF Resync, at, working, podman, Same, stored
  <1>3. Advances \/ Fails
    BY <1>1, <1>2, LikeItself, Outcomes DEF proceeds
  <1>4. used' = used
    BY <1>2 DEF used
  <1> QED
    BY <1>1, <1>2, <1>3, <1>4, ResyncFacts DEF trusted

LEMMA EffectFind ==
  ASSUME IInv, Arrays, NEW a \in Names, store \subseteq Names, used \subseteq store,
         Head(prog) = <<"find", a>>, Find
  PROVE  /\ tags' = tags /\ UNCHANGED <<image, nested, built>> /\ spoiled' = spoiled /\ Arrays'
         /\ store' \subseteq Names /\ used' \subseteq store'
         /\ Advances \/ Fails
         /\ \A n \in Names : /\ cache'[n] # None /\ n \in store => n \in store'
                             /\ n \in store' => n \in store \/ cache'[n] # None
         /\ cache'[a] = cache[a] \/ cache'[a] = tags[a]
         /\ \A m \in AllNames \ {a} : \/ cache'[m] = cache[m]
                                      \/ cache'[m] = tags[m] /\ tags[m] # None
         /\ a \in store => cache' = cache /\ store' = store
  <1>1. arg = a /\ a \in AllNames
    BY NameFacts DEF arg
  <1>2. /\ jobs # <<>> /\ tags' = tags /\ UNCHANGED <<image, nested, built>> /\ spoiled' = spoiled
    BY DEF Find, at, working
  <1>3. used' = used
    BY <1>2 DEF used
  <1>4. CASE a \in store
    <2>1. continues(jobs) /\ UNCHANGED <<cache, store>>
      BY <1>1, <1>4 DEF Find
    <2>2. Advances
      BY <1>2, <2>1, LikeItself, Outcomes
    <2> QED
      BY <1>2, <1>3, <2>1, <2>2 DEF Arrays
  <1>5. CASE a \notin store
    <2>1. cache' = refreshed(cache, a)
      BY <1>1, <1>5 DEF Find
    <2>2. PICK res \in resyncs(cache') :
            /\ stored(res.store)
            /\ proceeds(res.ok /\ a \in res.store, jobs_without(store \ res.store))
      BY <1>1, <1>5 DEF Find
    <2>3. Advances \/ Fails
      BY <1>2, <2>2, LikeItself, Outcomes DEF proceeds
    <2>4. store' = res.store
      BY <2>2 DEF stored
    <2> QED
      BY <1>1, <1>2, <1>3, <1>5, <2>1, <2>2, <2>3, <2>4, Refreshed, ResyncFacts DEF Arrays
  <1> QED
    BY <1>4, <1>5

Declines == phase' = "declined" /\ prog' = <<>> /\ JobsKept /\ past_kept

LEMMA EffectCheck ==
  ASSUME IInv, Compat \/ Overwrite \/ Refuse
  PROVE  /\ Quiet /\ Same /\ spoiled' = spoiled
         /\ Advances \/ Declines
         /\ Refuse => Declines
  <1>1. /\ jobs # <<>> /\ Quiet /\ Same /\ spoiled' = spoiled
        /\ continues(jobs) \/ declines
        /\ Refuse => declines
    BY DEF Compat, Overwrite, Refuse, at, working, podman, registry_only, others, Quiet, Same
  <1>2. declines => Declines
    BY SameJobs DEF declines, Declines, past, past_kept
  <1> QED
    BY <1>1, <1>2, LikeItself, Outcomes

LEMMA EffectPull ==
  ASSUME IInv, Arrays, NEW a \in AllNames, Head(prog) = <<"pull", a>>, Pull
  PROVE  /\ Quiet /\ Arrays' /\ cache' = cache /\ spoiled' = spoiled
         /\ \A m \in AllNames \ {a} : tags'[m] = tags[m]
         /\ \/ /\ prog' = Tail(prog) /\ phase' = phase /\ JobsKept /\ start' = start
               /\ tags'[a] = fetched' /\ fetched' \in Ids /\ fetched' # None
            \/ Fails /\ tags' = tags
  <1>1. arg = a
    BY DEF arg
  <1>2. /\ jobs # <<>> /\ Quiet /\ cache' = cache /\ spoiled' = spoiled
    BY DEF Pull, at, working, without_registry, others, Quiet
  <1>3. CASE raises(jobs) /\ UNCHANGED tags
    BY <1>2, <1>3, LikeItself, Outcomes DEF Arrays
  <1>4. ASSUME NEW i \in Ids, tags' = [tags EXCEPT ![a] = i], fetched' = i, prog' = Tail(prog),
               UNCHANGED <<phase, jobs, start>>
        PROVE  /\ prog' = Tail(prog) /\ phase' = phase /\ JobsKept /\ start' = start
               /\ tags'[a] = fetched' /\ fetched' \in Ids /\ fetched' # None
               /\ Arrays' /\ \A m \in AllNames \ {a} : tags'[m] = tags[m]
    <2>1. i # None
      BY ImageCatalogAssumption
    <2>2. JobsKept
      BY <1>4, SameJobs
    <2> QED
      BY <1>2, <1>4, <2>1, <2>2 DEF Arrays
  <1> QED
    BY <1>1, <1>2, <1>3, <1>4 DEF Pull

LEMMA EffectFrom ==
  ASSUME IInv, From
  PROVE  Quiet /\ Same /\ spoiled' = spoiled /\ (Advances \/ Fails)
  <1>1. /\ jobs # <<>> /\ Quiet /\ Same /\ spoiled' = spoiled
        /\ continues(jobs) \/ raises(jobs)
    BY DEF From, at, working, proceeds, without_registry, others, Quiet, Same
  <1> QED
    BY <1>1, LikeItself, Outcomes

LEMMA EffectChoose ==
  ASSUME IInv, NEW a, Head(prog) = <<"choose", a>>, Choose
  PROVE  /\ Quiet /\ Same /\ spoiled' = spoiled
         /\ prog' = IF cache[a] # None \/ tags[a] # None THEN commit_over(a) ELSE commit_new(a)
         /\ phase' = phase /\ JobsKept /\ past_kept
  BY SameJobs DEF Choose, arg, image_exists, without_registry, others, Quiet, Same, past, past_kept

LEMMA EffectCommit ==
  ASSUME IInv, Arrays, NEW a \in AllNames, Head(prog) = <<"commit", a>>, Commit
  PROVE  /\ Quiet /\ Arrays' /\ cache' = cache /\ spoiled' = spoiled
         /\ \A m \in AllNames \ {a} : tags'[m] = tags[m]
         /\ (Advances /\ tags'[a] # None) \/ (Fails /\ tags' = tags)
  <1>1. arg = a
    BY DEF arg
  <1>2. /\ jobs # <<>> /\ Quiet /\ cache' = cache /\ spoiled' = spoiled
    BY DEF Commit, at, working, without_registry, others, Quiet
  <1>3. CASE raises(jobs) /\ UNCHANGED tags
    BY <1>2, <1>3, LikeItself, Outcomes DEF Arrays
  <1>4. ASSUME NEW i \in Ids, tags' = [tags EXCEPT ![a] = i], continues(jobs)
        PROVE  /\ Advances /\ tags'[a] # None
               /\ Arrays' /\ \A m \in AllNames \ {a} : tags'[m] = tags[m]
    <2>1. i # None
      BY ImageCatalogAssumption
    <2>2. Advances
      BY <1>2, <1>4, LikeItself, Outcomes
    <2> QED
      BY <1>2, <1>4, <2>1, <2>2 DEF Arrays
  <1> QED
    BY <1>1, <1>2, <1>3, <1>4 DEF Commit

LEMMA EffectRmi ==
  ASSUME IInv, Arrays, NEW a \in AllNames, Head(prog) = <<"rmi", a>>, Rmi
  PROVE  /\ Quiet /\ Arrays' /\ cache' = cache /\ spoiled' = spoiled
         /\ \A m \in AllNames \ {a} : tags'[m] = tags[m]
         /\ tags'[a] = None
         /\ Advances \/ (Fails /\ tags[a] = None)
  <1>1. arg = a
    BY DEF arg
  <1>2. /\ jobs # <<>> /\ Quiet /\ cache' = cache /\ spoiled' = spoiled
        /\ tags' = [tags EXCEPT ![a] = None]
        /\ continues(jobs) \/ (tags[a] = None /\ raises(jobs))
    BY <1>1 DEF Rmi, at, working, without_registry, others, Quiet
  <1>3. Advances \/ (Fails /\ tags[a] = None)
    BY <1>2, LikeItself, Outcomes
  <1> QED
    BY <1>2, <1>3 DEF Arrays

LEMMA EffectRetag ==
  ASSUME IInv, Arrays, NEW a \in AllNames, Head(prog) = <<"retag", a>>, Retag
  PROVE  /\ Quiet /\ Arrays' /\ cache' = cache /\ spoiled' = spoiled
         /\ \A m \in AllNames \ {a} : tags'[m] = tags[m]
         /\ tags'[a] = tags[Temp] /\ Advances
  <1>1. arg = a
    BY DEF arg
  <1>2. /\ jobs # <<>> /\ Quiet /\ cache' = cache /\ spoiled' = spoiled
        /\ tags' = [tags EXCEPT ![a] = tags[Temp]] /\ continues(jobs)
    BY <1>1 DEF Retag, at, working, without_registry, others, Quiet
  <1>3. Advances
    BY <1>2, LikeItself, Outcomes
  <1>4. Temp \in AllNames
    BY NameFacts
  <1> QED
    BY <1>2, <1>3, <1>4 DEF Arrays

LEMMA EffectBuild ==
  ASSUME IInv, Arrays, NEW a \in Names, Head(prog) = <<"build", a>>, Build
  PROVE  /\ UNCHANGED <<store, image, nested>> /\ Arrays' /\ cache' = cache /\ spoiled' = spoiled
         /\ Advances
         /\ \/ /\ built' = built \cup {a} /\ tags'[a] # None
               /\ \A m \in AllNames \ {a} : tags'[m] = tags[m]
            \/ built' = built /\ tags' = tags
  <1>1. arg = a /\ a \in AllNames
    BY NameFacts DEF arg
  <1>2. /\ jobs # <<>> /\ UNCHANGED <<store, image, nested>> /\ cache' = cache
        /\ spoiled' = spoiled /\ continues(jobs)
    BY DEF Build, at, working
  <1>3. Advances
    BY <1>2, LikeItself, Outcomes
  <1>4. CASE UNCHANGED <<tags, built>>
    BY <1>2, <1>3, <1>4 DEF Arrays
  <1>5. ASSUME NEW i \in Ids, tags' = [tags EXCEPT ![a] = i], built' = built \cup {a}
        PROVE  /\ tags'[a] # None /\ Arrays'
               /\ \A m \in AllNames \ {a} : tags'[m] = tags[m]
    <2>1. i # None
      BY ImageCatalogAssumption
    <2> QED
      BY <1>1, <1>2, <1>5, <2>1 DEF Arrays
  <1> QED
    BY <1>1, <1>2, <1>3, <1>4, <1>5 DEF Build

\* The program p is the step a, then the program r.
Program(p, a, r) == p \in Seq(Steps) /\ p # <<>> /\ Head(p) = a /\ Tail(p) = r

LEMMA OneStep ==
  ASSUME NEW a \in Steps
  PROVE  Program(<<a>>, a, <<>>)
  BY DEF Program

LEMMA MoreSteps ==
  ASSUME NEW a \in Steps, NEW r \in Seq(Steps)
  PROVE  Program(cons(a, r), a, r)
  BY ConsFacts DEF Program

LEMMA LocalPrograms ==
  ASSUME NEW w \in Names, NEW s \in Names
  PROVE  /\ Program(Local1(w, s), <<"tag", s, w>>, <<>>)
         /\ Program(Local2(w, s), <<"untag", w>>, Local1(w, s))
         /\ Program(Local3(w, s), <<"find", w>>, Local2(w, s))
  <1>0. /\ w \in AllNames /\ backup(w) \in AllNames
        /\ s \in AllNames /\ backup(s) \in AllNames
    BY NameFacts
  <1>1. Program(Local1(w, s), <<"tag", s, w>>, <<>>)
    BY <1>0, StepFacts, OneStep DEF Local1, Ops
  <1>2. Program(Local2(w, s), <<"untag", w>>, Local1(w, s))
    <2>1. Local1(w, s) \in Seq(Steps)
      BY <1>1 DEF Program
    <2> QED
      BY <1>0, <2>1, StepFacts, MoreSteps DEF Local2, Ops
  <1>3. Program(Local3(w, s), <<"find", w>>, Local2(w, s))
    <2>1. Local2(w, s) \in Seq(Steps)
      BY <1>2 DEF Program
    <2> QED
      BY <1>0, <2>1, StepFacts, MoreSteps DEF Local3, Ops
  <1> QED
    BY <1>1, <1>2, <1>3

LEMMA SamePrograms ==
  ASSUME NEW w \in Names
  PROVE  /\ Program(Same1(w), <<"resync", w>>, <<>>)
         /\ Program(Same2(w), <<"refresh", w>>, Same1(w))
         /\ Program(Same3(w), <<"await", w>>, Same2(w))
         /\ Program(Same4(w), <<"pull", w>>, Same3(w))
         /\ Program(Same5(w), <<"untag", w>>, Same4(w))
         /\ Program(Same6(w), <<"find", w>>, Same5(w))
  <1>0. w \in AllNames
    BY NameFacts
  <1>1. Program(Same1(w), <<"resync", w>>, <<>>)
    BY <1>0, StepFacts, OneStep DEF Same1, Ops
  <1>2. Program(Same2(w), <<"refresh", w>>, Same1(w))
    <2>1. Same1(w) \in Seq(Steps)
      BY <1>1 DEF Program
    <2> QED
      BY <1>0, <2>1, StepFacts, MoreSteps DEF Same2, Ops
  <1>3. Program(Same3(w), <<"await", w>>, Same2(w))
    <2>1. Same2(w) \in Seq(Steps)
      BY <1>2 DEF Program
    <2> QED
      BY <1>0, <2>1, StepFacts, MoreSteps DEF Same3, Ops
  <1>4. Program(Same4(w), <<"pull", w>>, Same3(w))
    <2>1. Same3(w) \in Seq(Steps)
      BY <1>3 DEF Program
    <2> QED
      BY <1>0, <2>1, StepFacts, MoreSteps DEF Same4, Ops
  <1>5. Program(Same5(w), <<"untag", w>>, Same4(w))
    <2>1. Same4(w) \in Seq(Steps)
      BY <1>4 DEF Program
    <2> QED
      BY <1>0, <2>1, StepFacts, MoreSteps DEF Same5, Ops
  <1>6. Program(Same6(w), <<"find", w>>, Same5(w))
    <2>1. Same5(w) \in Seq(Steps)
      BY <1>5 DEF Program
    <2> QED
      BY <1>0, <2>1, StepFacts, MoreSteps DEF Same6, Ops
  <1> QED
    BY <1>1, <1>2, <1>3, <1>4, <1>5, <1>6

LEMMA OtherPrograms ==
  ASSUME NEW w \in Names, NEW s \in Names, NEW e \in BOOLEAN, NEW x \in BOOLEAN
  PROVE  /\ Program(Other0(s, TRUE), <<"tag", backup(s), s>>, <<>>)
         /\ Other0(s, x) \in Seq(Steps)
         /\ Program(Other1(s, x), <<"untag", s>>, Other0(s, x))
         /\ Program(Other2(w, s, x), <<"tag", s, w>>, Other1(s, x))
         /\ Program(Other3(w, s, x), <<"untag", w>>, Other2(w, s, x))
         /\ Program(Other4(w, s, x), <<"find", w>>, Other3(w, s, x))
         /\ Copying(w, s, e, x) \in Seq(Steps)
         /\ Program(Other5(w, s, e, x), <<"resync", s>>, Copying(w, s, e, x))
         /\ Program(Other6(w, s, e, x), <<"refresh", s>>, Other5(w, s, e, x))
         /\ Program(Other7(w, s, e, x), <<"await", s>>, Other6(w, s, e, x))
         /\ Program(Other8(w, s, e, x), <<"pull", s>>, Other7(w, s, e, x))
         /\ Program(Other9(w, s, e, x), <<"untag", s>>, Other8(w, s, e, x))
  <1>0. /\ w \in AllNames /\ backup(w) \in AllNames
        /\ s \in AllNames /\ backup(s) \in AllNames
    BY NameFacts
  <1>1. Program(Other0(s, TRUE), <<"tag", backup(s), s>>, <<>>)
    BY <1>0, StepFacts, OneStep DEF Other0, when, Ops
  <1>2. Other0(s, x) \in Seq(Steps)
    BY <1>1 DEF Program, Other0, when
  <1>3. Program(Other1(s, x), <<"untag", s>>, Other0(s, x))
    <2>1. Other0(s, x) \in Seq(Steps)
      BY <1>2
    <2> QED
      BY <1>0, <2>1, StepFacts, MoreSteps DEF Other1, Ops
  <1>4. Program(Other2(w, s, x), <<"tag", s, w>>, Other1(s, x))
    <2>1. Other1(s, x) \in Seq(Steps)
      BY <1>3 DEF Program
    <2> QED
      BY <1>0, <2>1, StepFacts, MoreSteps DEF Other2, Ops
  <1>5. Program(Other3(w, s, x), <<"untag", w>>, Other2(w, s, x))
    <2>1. Other2(w, s, x) \in Seq(Steps)
      BY <1>4 DEF Program
    <2> QED
      BY <1>0, <2>1, StepFacts, MoreSteps DEF Other3, Ops
  <1>6. Program(Other4(w, s, x), <<"find", w>>, Other3(w, s, x))
    <2>1. Other3(w, s, x) \in Seq(Steps)
      BY <1>5 DEF Program
    <2> QED
      BY <1>0, <2>1, StepFacts, MoreSteps DEF Other4, Ops
  <1>7. Copying(w, s, e, x) \in Seq(Steps)
    BY <1>4, <1>6 DEF Program, Copying
  <1>8. Program(Other5(w, s, e, x), <<"resync", s>>, Copying(w, s, e, x))
    <2>1. Copying(w, s, e, x) \in Seq(Steps)
      BY <1>7
    <2> QED
      BY <1>0, <2>1, StepFacts, MoreSteps DEF Other5, Ops
  <1>9. Program(Other6(w, s, e, x), <<"refresh", s>>, Other5(w, s, e, x))
    <2>1. Other5(w, s, e, x) \in Seq(Steps)
      BY <1>8 DEF Program
    <2> QED
      BY <1>0, <2>1, StepFacts, MoreSteps DEF Other6, Ops
  <1>10. Program(Other7(w, s, e, x), <<"await", s>>, Other6(w, s, e, x))
    <2>1. Other6(w, s, e, x) \in Seq(Steps)
      BY <1>9 DEF Program
    <2> QED
      BY <1>0, <2>1, StepFacts, MoreSteps DEF Other7, Ops
  <1>11. Program(Other8(w, s, e, x), <<"pull", s>>, Other7(w, s, e, x))
    <2>1. Other7(w, s, e, x) \in Seq(Steps)
      BY <1>10 DEF Program
    <2> QED
      BY <1>0, <2>1, StepFacts, MoreSteps DEF Other8, Ops
  <1>12. Program(Other9(w, s, e, x), <<"untag", s>>, Other8(w, s, e, x))
    <2>1. Other8(w, s, e, x) \in Seq(Steps)
      BY <1>11 DEF Program
    <2> QED
      BY <1>0, <2>1, StepFacts, MoreSteps DEF Other9, Ops
  <1> QED
    BY <1>1, <1>2, <1>3, <1>4, <1>5, <1>6, <1>7, <1>8, <1>9, <1>10, <1>11, <1>12

LEMMA CheckPrograms ==
  ASSUME NEW w \in Names, NEW s \in Names, NEW loc \in BOOLEAN, NEW e \in BOOLEAN, NEW x \in BOOLEAN
  PROVE  /\ Body(w, s, loc, e, x) \in Seq(Steps)
         /\ Program(Check1(w, s, loc, e, x), <<"overwrite", w>>, Body(w, s, loc, e, x))
         /\ Program(Check2(w, s, loc, e, x), <<"compat", w>>, Check1(w, s, loc, e, x))
         /\ Program(Check3(w, s, loc, e, x), <<"find", w>>, Check2(w, s, loc, e, x))
         /\ Program(<< <<"refuse", w>> >>, <<"refuse", w>>, <<>>)
         /\ Work(w, s, loc, e, x) \in Seq(Steps)
  <1>0. /\ w \in AllNames /\ backup(w) \in AllNames
        /\ s \in AllNames /\ backup(s) \in AllNames
    BY NameFacts
  <1>1. Body(w, s, loc, e, x) \in Seq(Steps)
    BY LocalPrograms, SamePrograms, OtherPrograms DEF Program, Body
  <1>2. Program(Check1(w, s, loc, e, x), <<"overwrite", w>>, Body(w, s, loc, e, x))
    <2>1. Body(w, s, loc, e, x) \in Seq(Steps)
      BY <1>1
    <2> QED
      BY <1>0, <2>1, StepFacts, MoreSteps DEF Check1, Ops
  <1>3. Program(Check2(w, s, loc, e, x), <<"compat", w>>, Check1(w, s, loc, e, x))
    <2>1. Check1(w, s, loc, e, x) \in Seq(Steps)
      BY <1>2 DEF Program
    <2> QED
      BY <1>0, <2>1, StepFacts, MoreSteps DEF Check2, Ops
  <1>4. Program(Check3(w, s, loc, e, x), <<"find", w>>, Check2(w, s, loc, e, x))
    <2>1. Check2(w, s, loc, e, x) \in Seq(Steps)
      BY <1>3 DEF Program
    <2> QED
      BY <1>0, <2>1, StepFacts, MoreSteps DEF Check3, Ops
  <1>5. Program(<< <<"refuse", w>> >>, <<"refuse", w>>, <<>>)
    BY <1>0, StepFacts, OneStep DEF Program, Ops
  <1>6. Work(w, s, loc, e, x) \in Seq(Steps)
    BY <1>1, <1>4, <1>5 DEF Program, Work
  <1> QED
    BY <1>1, <1>2, <1>3, <1>4, <1>5, <1>6

LEMMA CommitPrograms ==
  ASSUME NEW n \in Names
  PROVE  /\ Program(New1(n), <<"resync", n>>, <<>>)
         /\ Program(New2(n), <<"refresh", n>>, New1(n))
         /\ Program(New3(n), <<"await", n>>, New2(n))
         /\ Program(New4(n), <<"commit", n>>, New3(n))
         /\ Program(Over4(n), <<"rmi", Temp>>, New3(n))
         /\ Program(Over5(n), <<"retag", n>>, Over4(n))
         /\ Program(Over6(n), <<"rmi", n>>, Over5(n))
         /\ Program(Over7(n), <<"commit", Temp>>, Over6(n))
         /\ Program(Commit1(n), <<"choose", n>>, <<>>)
         /\ Program(Squash2(n), <<"from", n>>, Commit1(n))
         /\ Program(Squash3(n), <<"find", n>>, Squash2(n))
         /\ Program(Build1(n), <<"build", n>>, <<>>)
         /\ Program(Update2(n), <<"resync", n>>, New1(n))
         /\ Program(Update3(n), <<"refresh", n>>, Update2(n))
         /\ Program(Update4(n), <<"await", n>>, Update3(n))
         /\ Program(Update5(n), <<"pull", n>>, Update4(n))
  <1>0. n \in AllNames /\ Temp \in AllNames
    BY NameFacts
  <1>1. Program(New1(n), <<"resync", n>>, <<>>)
    BY <1>0, StepFacts, OneStep DEF New1, Ops
  <1>2. Program(New2(n), <<"refresh", n>>, New1(n))
    <2>1. New1(n) \in Seq(Steps)
      BY <1>1 DEF Program
    <2> QED
      BY <1>0, <2>1, StepFacts, MoreSteps DEF New2, Ops
  <1>3. Program(New3(n), <<"await", n>>, New2(n))
    <2>1. New2(n) \in Seq(Steps)
      BY <1>2 DEF Program
    <2> QED
      BY <1>0, <2>1, StepFacts, MoreSteps DEF New3, Ops
  <1>4. Program(New4(n), <<"commit", n>>, New3(n))
    <2>1. New3(n) \in Seq(Steps)
      BY <1>3 DEF Program
    <2> QED
      BY <1>0, <2>1, StepFacts, MoreSteps DEF New4, Ops
  <1>5. Program(Over4(n), <<"rmi", Temp>>, New3(n))
    <2>1. New3(n) \in Seq(Steps)
      BY <1>3 DEF Program
    <2> QED
      BY <1>0, <2>1, StepFacts, MoreSteps DEF Over4, Ops
  <1>6. Program(Over5(n), <<"retag", n>>, Over4(n))
    <2>1. Over4(n) \in Seq(Steps)
      BY <1>5 DEF Program
    <2> QED
      BY <1>0, <2>1, StepFacts, MoreSteps DEF Over5, Ops
  <1>7. Program(Over6(n), <<"rmi", n>>, Over5(n))
    <2>1. Over5(n) \in Seq(Steps)
      BY <1>6 DEF Program
    <2> QED
      BY <1>0, <2>1, StepFacts, MoreSteps DEF Over6, Ops
  <1>8. Program(Over7(n), <<"commit", Temp>>, Over6(n))
    <2>1. Over6(n) \in Seq(Steps)
      BY <1>7 DEF Program
    <2> QED
      BY <1>0, <2>1, StepFacts, MoreSteps DEF Over7, Ops
  <1>9. Program(Commit1(n), <<"choose", n>>, <<>>)
    BY <1>0, StepFacts, OneStep DEF Commit1, Ops
  <1>10. Program(Squash2(n), <<"from", n>>, Commit1(n))
    <2>1. Commit1(n) \in Seq(Steps)
      BY <1>9 DEF Program
    <2> QED
      BY <1>0, <2>1, StepFacts, MoreSteps DEF Squash2, Ops
  <1>11. Program(Squash3(n), <<"find", n>>, Squash2(n))
    <2>1. Squash2(n) \in Seq(Steps)
      BY <1>10 DEF Program
    <2> QED
      BY <1>0, <2>1, StepFacts, MoreSteps DEF Squash3, Ops
  <1>12. Program(Build1(n), <<"build", n>>, <<>>)
    BY <1>0, StepFacts, OneStep DEF Build1, Ops
  <1>13. Program(Update2(n), <<"resync", n>>, New1(n))
    <2>1. New1(n) \in Seq(Steps)
      BY <1>1 DEF Program
    <2> QED
      BY <1>0, <2>1, StepFacts, MoreSteps DEF Update2, Ops
  <1>14. Program(Update3(n), <<"refresh", n>>, Update2(n))
    <2>1. Update2(n) \in Seq(Steps)
      BY <1>13 DEF Program
    <2> QED
      BY <1>0, <2>1, StepFacts, MoreSteps DEF Update3, Ops
  <1>15. Program(Update4(n), <<"await", n>>, Update3(n))
    <2>1. Update3(n) \in Seq(Steps)
      BY <1>14 DEF Program
    <2> QED
      BY <1>0, <2>1, StepFacts, MoreSteps DEF Update4, Ops
  <1>16. Program(Update5(n), <<"pull", n>>, Update4(n))
    <2>1. Update4(n) \in Seq(Steps)
      BY <1>15 DEF Program
    <2> QED
      BY <1>0, <2>1, StepFacts, MoreSteps DEF Update5, Ops
  <1> QED
    BY <1>1, <1>2, <1>3, <1>4, <1>5, <1>6, <1>7, <1>8, <1>9, <1>10, <1>11, <1>12, <1>13, <1>14, <1>15, <1>16

\* The first job is a clone of s onto w.
Scene(w, s, loc) ==
    /\ IInv /\ CatalogTyped /\ used \subseteq store
    /\ w \in Names /\ s \in Names /\ loc \in BOOLEAN
    /\ working /\ job.kind = "clone" /\ job.ws = w /\ job.src = s /\ job.local = loc

\* The step does not end it, and the invariant holds after it.
GoesOn(w, s, loc) == JobsKept /\ phase' # "queued" /\ CloneInv(w, s, loc)'

\* The cleaner finds n as it must be.
Restorable(n) ==
    /\ Sane(n) /\ Saved(n)
    /\ n \in used => tags[n] # None \/ tags[backup(n)] # None

LEMMA WholeRestorable ==
  ASSUME NEW n, Whole(n)
  PROVE  Restorable(n)
  BY DEF Whole, Restorable, Safe

LEMMA IntactRestorable ==
  ASSUME NEW n, Saved(n), Good(n), used \subseteq store
  PROVE  Restorable(n)
  BY DEF Saved, Good, Restorable, Sane

LEMMA Concatenation ==
  ASSUME NEW S, NEW p \in Seq(S), NEW q \in Seq(S)
  PROVE  /\ p \o q \in Seq(S) /\ Len(p \o q) = Len(p) + Len(q)
         /\ \A i \in 1..Len(p) : (p \o q)[i] = p[i]
         /\ \A i \in 1..Len(q) : (p \o q)[Len(p) + i] = q[i]
  OBVIOUS

\* The program of the cleaner, of two drops, then k restored backups, then k removed ones
LEMMA RestoreSteps ==
  ASSUME NEW j, NEW k \in Nat, NEW order \in [1..k -> {j.ws, j.src}]
  PROVE  LET p == restore(j, order) IN
         /\ Len(p) = 2 + k + k
         /\ p[1] = drop(j.ws) /\ p[2] = drop(j.src)
         /\ \A i \in 1..k : p[2 + i] = back(order[i]) /\ p[2 + k + i] = lose(order[i])
  <1> DEFINE p0 == << <<"drop", j.ws>>, <<"drop", j.src>> >>
             p1 == [i \in DOMAIN order |-> <<"tag", backup(order[i]), order[i]>>]
             p2 == forget(order)
             S == {drop(n) : n \in {j.ws, j.src}} \cup {back(n) : n \in {j.ws, j.src}}
                    \cup {lose(n) : n \in {j.ws, j.src}}
  <1>1. restore(j, order) = (p0 \o p1) \o p2
    BY DEF restore
  <1>2. DOMAIN order = 1..k
    OBVIOUS
  <1>3. p0 \in Seq(S) /\ Len(p0) = 2 /\ p0[1] = drop(j.ws) /\ p0[2] = drop(j.src)
    BY DEF drop
  <1>4. p1 \in [1..k -> S] /\ \A i \in 1..k : p1[i] = back(order[i])
    BY <1>2 DEF back
  <1>5. p1 \in Seq(S) /\ Len(p1) = k
    BY <1>4
  <1>6. p2 \in [1..k -> S] /\ \A i \in 1..k : p2[i] = lose(order[i])
    BY <1>2 DEF lose, forget
  <1>7. p2 \in Seq(S) /\ Len(p2) = k
    BY <1>6
  <1> HIDE DEF p0, p1, p2, S
  <1> DEFINE q == p0 \o p1
  <1>8. /\ q \in Seq(S) /\ Len(q) = 2 + k
        /\ \A i \in 1..Len(p0) : q[i] = p0[i]
        /\ \A i \in 1..k : q[2 + i] = p1[i]
    <2>1. /\ q \in Seq(S) /\ Len(q) = Len(p0) + Len(p1)
          /\ \A i \in 1..Len(p0) : q[i] = p0[i]
          /\ \A i \in 1..Len(p1) : q[Len(p0) + i] = p1[i]
      <3>1. p0 \in Seq(S) /\ p1 \in Seq(S)
        BY <1>3, <1>5
      <3> QED
        BY <3>1, Concatenation
    <2> QED
      BY <1>3, <1>5, <2>1
  <1>9. q[1] = drop(j.ws) /\ q[2] = drop(j.src) /\ \A i \in 1..k : q[2 + i] = back(order[i])
    BY <1>3, <1>4, <1>8
  <1> HIDE DEF q
  <1>10. /\ Len(q \o p2) = 2 + k + k
         /\ \A i \in 1..(2 + k) : (q \o p2)[i] = q[i]
         /\ \A i \in 1..k : (q \o p2)[2 + k + i] = p2[i]
    <2>1. /\ Len(q \o p2) = Len(q) + Len(p2)
          /\ \A i \in 1..Len(q) : (q \o p2)[i] = q[i]
          /\ \A i \in 1..Len(p2) : (q \o p2)[Len(q) + i] = p2[i]
      <3>1. q \in Seq(S) /\ p2 \in Seq(S)
        BY <1>7, <1>8
      <3> QED
        BY <3>1, Concatenation
    <2> QED
      BY <1>7, <1>8, <2>1
  <1>11. /\ (q \o p2)[1] = drop(j.ws) /\ (q \o p2)[2] = drop(j.src)
         /\ \A i \in 1..k : (q \o p2)[2 + i] = back(order[i])
    <2>1. 1 \in 1..(2 + k) /\ 2 \in 1..(2 + k) /\ \A i \in 1..k : 2 + i \in 1..(2 + k)
      OBVIOUS
    <2> QED
      BY <1>9, <1>10, <2>1
  <1>12. restore(j, order) = q \o p2
    BY <1>1 DEF q
  <1> QED
    BY <1>6, <1>10, <1>11, <1>12

\* saved_images: the names that have a backup, each one once
LEMMA OrderFacts ==
  ASSUME NEW j, NEW order \in orders(j)
  PROVE  \E k \in 0..2 :
            /\ order \in [1..k -> {j.ws, j.src}]
            /\ \A n \in {j.ws, j.src} :
                   tags[backup(n)] # None <=> \E i \in 1..k : order[i] = n
            /\ \A i, l \in 1..k : order[i] = order[l] => i = l
            /\ \A i \in 1..k : tags[backup(order[i])] # None
  <1>1. /\ order \in {<<>>, <<j.ws>>, <<j.src>>, <<j.ws, j.src>>, <<j.src, j.ws>>}
        /\ {order[i] : i \in DOMAIN order} = {n \in {j.ws, j.src} : tags[backup(n)] # None}
        /\ \A i, l \in DOMAIN order : order[i] = order[l] => i = l
    BY DEF orders
  <1>2. \E k \in 0..2 : order \in [1..k -> {j.ws, j.src}]
    <2>1. CASE order = <<>>
      <3>1. order \in [1..0 -> {j.ws, j.src}]
        BY <2>1
      <3> QED
        BY <3>1
    <2>2. CASE order = <<j.ws>> \/ order = <<j.src>>
      <3>1. order \in [1..1 -> {j.ws, j.src}]
        BY <2>2
      <3> QED
        BY <3>1
    <2>3. CASE order = <<j.ws, j.src>> \/ order = <<j.src, j.ws>>
      <3>1. order \in [1..2 -> {j.ws, j.src}]
        BY <2>3
      <3> QED
        BY <3>1
    <2> QED
      BY <1>1, <2>1, <2>2, <2>3
  <1>3. PICK k \in 0..2 : order \in [1..k -> {j.ws, j.src}]
    BY <1>2
  <1>4. DOMAIN order = 1..k
    BY <1>3
  <1>5. \A n \in {j.ws, j.src} : tags[backup(n)] # None <=> \E i \in 1..k : order[i] = n
    BY <1>1, <1>4
  <1>6. \A i \in 1..k : tags[backup(order[i])] # None
    BY <1>3, <1>5
  <1> QED
    BY <1>1, <1>3, <1>4, <1>5, <1>6

\* An exception makes the cleaner start.
LEMMA RestoresFacts ==
  ASSUME NEW w \in Names, NEW s \in Names, job.ws = w, job.src = s, Restores,
         \A n \in {w, s} : /\ tags'[backup(n)] = None <=> tags[backup(n)] = None
                           /\ trusted(n)' => Restorable(n)'
  PROVE  Restoring(w, s)'
  <1>1. PICK order \in orders(job) : prog' = restore(job, order)
    BY DEF Restores
  <1>2. PICK k \in 0..2 :
            /\ order \in [1..k -> {w, s}]
            /\ \A n \in {w, s} : tags[backup(n)] # None <=> \E i \in 1..k : order[i] = n
            /\ \A i, l \in 1..k : order[i] = order[l] => i = l
            /\ \A i \in 1..k : tags[backup(order[i])] # None
    BY <1>1, OrderFacts
  <1>3. /\ k \in Nat /\ Len(prog') = 2 + k + k
        /\ prog'[1] = drop(w) /\ prog'[2] = drop(s)
        /\ \A i \in 1..k : prog'[2 + i] = back(order[i]) /\ prog'[2 + k + i] = lose(order[i])
    <2>1. k \in Nat /\ order \in [1..k -> {job.ws, job.src}]
      BY <1>2
    <2>2. LET p == restore(job, order) IN
          /\ Len(p) = 2 + k + k
          /\ p[1] = drop(job.ws) /\ p[2] = drop(job.src)
          /\ \A i \in 1..k : p[2 + i] = back(order[i]) /\ p[2 + k + i] = lose(order[i])
      BY <2>1, RestoreSteps
    <2> QED
      BY <1>1, <2>1, <2>2
  <1>4. \A n, m : /\ drop(n)[1] = "drop" /\ back(n)[1] = "tag" /\ lose(n)[1] = "untag"
                  /\ drop(n) = drop(m) => n = m
                  /\ back(n) = back(m) => n = m
    BY DEF drop, back, lose
  <1>5. \A n, m \in {w, s} : lose(n) = lose(m) => n = m
    BY NameFacts DEF lose
  <1>6. ASSUME NEW i \in 1..(2 + k + k)
        PROVE  \/ i \in {1, 2} /\ prog'[i] \in {drop(w), drop(s)}
               \/ \E c \in 1..k : i = 2 + c /\ prog'[i] = back(order[c])
               \/ \E c \in 1..k : i = 2 + k + c /\ prog'[i] = lose(order[c])
    <2>1. CASE i <= 2
      <3>1. i = 1 \/ i = 2
        BY <2>1
      <3> QED
        BY <1>3, <3>1
    <2>2. CASE i > 2 /\ i <= 2 + k
      <3>1. i - 2 \in 1..k /\ i = 2 + (i - 2)
        BY <1>2, <2>2
      <3> QED
        BY <1>3, <3>1
    <2>3. CASE i > 2 + k
      <3>1. i - 2 - k \in 1..k /\ i = 2 + k + (i - 2 - k)
        BY <1>2, <2>3
      <3> QED
        BY <1>3, <3>1
    <2> QED
      BY <1>2, <2>1, <2>2, <2>3
  <1>7. Ordered(w, s)'
    <2>1. \A i \in 1..Len(prog') :
              \E n \in {w, s} : prog'[i] \in {drop(n), back(n), lose(n)}
      BY <1>2, <1>3, <1>6
    <2>2. ASSUME NEW i \in 1..Len(prog'), NEW l \in 1..Len(prog'), i < l
          PROVE  /\ prog'[i][1] = "tag" => prog'[l][1] # "drop"
                 /\ prog'[i][1] = "untag" => prog'[l][1] = "untag"
                 /\ prog'[i] = prog'[l] => prog'[i][1] = "drop"
      <3>1. CASE i \in {1, 2} /\ prog'[i] \in {drop(w), drop(s)}
        BY <1>4, <3>1
      <3>2. ASSUME NEW c \in 1..k, i = 2 + c, prog'[i] = back(order[c])
            PROVE  /\ prog'[i][1] = "tag" /\ prog'[l][1] # "drop" /\ prog'[i] # prog'[l]
        <4>1. l \in 1..(2 + k + k) /\ l \notin {1, 2}
          BY <1>3, <2>2, <3>2
        <4>2. CASE \E d \in 1..k : l = 2 + d /\ prog'[l] = back(order[d])
          <5>1. PICK d \in 1..k : l = 2 + d /\ prog'[l] = back(order[d])
            BY <4>2
          <5>2. c # d
            BY <2>2, <3>2, <5>1
          <5>3. order[c] # order[d]
            BY <1>2, <5>2
          <5> QED
            BY <1>4, <3>2, <5>1, <5>3
        <4>3. CASE \E d \in 1..k : l = 2 + k + d /\ prog'[l] = lose(order[d])
          BY <1>4, <3>2, <4>3
        <4> QED
          BY <1>6, <4>1, <4>2, <4>3
      <3>3. ASSUME NEW c \in 1..k, i = 2 + k + c, prog'[i] = lose(order[c])
            PROVE  /\ prog'[i][1] = "untag" /\ prog'[l][1] = "untag" /\ prog'[i] # prog'[l]
        <4>1. l \in 1..(2 + k + k) /\ l > 2 + k + c /\ c >= 1
          BY <1>2, <1>3, <2>2, <3>3
        <4>2. l \notin {1, 2} /\ ~ \E d \in 1..k : l = 2 + d
          BY <1>2, <4>1
        <4>3. PICK d \in 1..k : l = 2 + k + d /\ prog'[l] = lose(order[d])
          BY <1>6, <4>1, <4>2
        <4>4. c # d
          BY <2>2, <3>3, <4>3
        <4>5. order[c] # order[d] /\ order[c] \in {w, s} /\ order[d] \in {w, s}
          BY <1>2, <4>4
        <4> QED
          BY <1>4, <1>5, <3>3, <4>3, <4>5
      <3>4. i \in 1..(2 + k + k)
        BY <1>3
      <3> QED
        BY <1>4, <1>6, <3>1, <3>2, <3>3, <3>4
    <2> QED
      BY <2>1, <2>2 DEF Ordered
  <1>8. ASSUME NEW n \in {w, s}
        PROVE  /\ pending(drop(n))'
               /\ pending(back(n))' <=> tags[backup(n)] # None
               /\ pending(lose(n))' <=> tags[backup(n)] # None
    <2>1. 1 \in 1..Len(prog') /\ 2 \in 1..Len(prog')
      BY <1>3
    <2>2. pending(drop(n))'
      BY <1>3, <2>1 DEF pending
    <2>3. ASSUME tags[backup(n)] # None
          PROVE  pending(back(n))' /\ pending(lose(n))'
      <3>1. PICK c \in 1..k : order[c] = n
        BY <1>2, <2>3
      <3>2. 2 + c \in 1..Len(prog') /\ 2 + k + c \in 1..Len(prog')
        BY <1>3
      <3> QED
        BY <1>3, <3>1, <3>2 DEF pending
    <2>4. ASSUME pending(back(n))'
          PROVE  tags[backup(n)] # None
      <3>1. PICK i \in 1..Len(prog') : prog'[i] = back(n)
        BY <2>4 DEF pending
      <3>2. i \in 1..(2 + k + k)
        BY <1>3
      <3>3. PICK c \in 1..k : prog'[i] = back(order[c])
        BY <1>4, <1>6, <3>1, <3>2
      <3>4. order[c] = n
        BY <1>4, <3>1, <3>3
      <3> QED
        BY <1>2, <3>4
    <2>5. ASSUME pending(lose(n))'
          PROVE  tags[backup(n)] # None
      <3>1. PICK i \in 1..Len(prog') : prog'[i] = lose(n)
        BY <2>5 DEF pending
      <3>2. i \in 1..(2 + k + k)
        BY <1>3
      <3>3. PICK c \in 1..k : prog'[i] = lose(order[c])
        BY <1>4, <1>6, <3>1, <3>2
      <3>4. order[c] \in {w, s}
        BY <1>2
      <3> QED
        BY <1>2, <1>5, <3>1, <3>3, <3>4
    <2> QED
      BY <2>2, <2>3, <2>4, <2>5
  <1>9. \A n \in {w, s} :
            /\ pending(lose(n))' => tags'[backup(n)] # None
            /\ pending(back(n))' => pending(lose(n))'
            /\ tags'[backup(n)] # None => pending(back(n))'
    BY <1>8
  <1>10. \A n \in {w, s} : trusted(n)' =>
            /\ pending(drop(n))' /\ Sane(n)' /\ Saved(n)'
            /\ (n \in used => tags[n] # None \/ tags[backup(n)] # None)'
    BY <1>8 DEF Restorable
  <1> QED
    BY <1>7, <1>9, <1>10 DEF Restoring

\* A step of the work fails.
LEMMA FailsGoOn ==
  ASSUME NEW w, NEW s, NEW loc, Scene(w, s, loc), phase = "work", Fails,
         \A n \in {w, s} : /\ tags'[backup(n)] = None <=> tags[backup(n)] = None
                           /\ trusted(n)' => Restorable(n)'
  PROVE  GoesOn(w, s, loc)
  <1>1. Restores /\ w \in Names /\ s \in Names /\ job.ws = w /\ job.src = s
    BY DEF Fails, Scene
  <1>2. Restoring(w, s)'
    BY <1>1, RestoresFacts
  <1> QED
    BY <1>1, <1>2 DEF GoesOn, CloneInv, Restores

\* The first job makes a step.
Running == IInv /\ CatalogTyped /\ used \subseteq store /\ working /\ Step

Continues(r) == prog' = r /\ phase' = phase /\ JobsKept /\ past_kept

LEMMA RunningFacts ==
  ASSUME Running
  PROVE  /\ IInv /\ Arrays /\ store \subseteq Names /\ used \subseteq store /\ jobs # <<>>
         /\ \A a, r : Program(prog, a, r) => /\ prog # <<>> /\ Head(prog) = a
                                             /\ Advances => Continues(r)
  BY DEF Running, CatalogTyped, Arrays, working, Program, Advances, Continues

\* What the step does, by its name
LEMMA DoTag ==
  ASSUME Running, NEW a \in AllNames, NEW b \in AllNames, NEW r,
         Program(prog, <<"tag", a, b>>, r)
  PROVE  /\ Quiet /\ Arrays' /\ spoiled \subseteq spoiled'
         /\ \A n \in Names : /\ n # b => Keeps(n)
                             /\ backup(n) # b => KeepsBackup(n)
         /\ \/ /\ Continues(r)
               /\ tags[a] # None /\ tags'[b] = tags[a] /\ cache'[b] = cache[a]
               /\ b \in Names /\ a \in built \cup spoiled => b \in spoiled'
            \/ /\ Fails
               /\ b \in Names => b \in spoiled'
               /\ \/ tags'[b] = tags[b] /\ cache'[b] = cache[b] /\ cache[b] # None /\ tags[b] = None
                  \/ tags[a] = None /\ tags'[b] = None
               /\ phase = "restore" => job.ws \in spoiled' /\ job.src \in spoiled'
  <1>1. prog # <<>> /\ Head(prog) = <<"tag", a, b>>
    BY DEF Program
  <1>2. Head(prog)[1] = "tag"
    BY <1>1
  <1>3. Tag
    BY <1>1, <1>2, StepAt DEF Running
  <1>4. /\ Quiet /\ Arrays' /\ spoiled \subseteq spoiled'
        /\ \A m \in AllNames \ {b} : tags'[m] = tags[m] /\ cache'[m] = cache[m]
        /\ \/ /\ Advances
              /\ tags[a] # None /\ tags'[b] = tags[a] /\ cache'[b] = cache[a]
              /\ b \in Names /\ a \in built \cup spoiled => b \in spoiled'
           \/ /\ Fails
              /\ b \in Names => b \in spoiled'
              /\ \/ tags'[b] = tags[b] /\ cache'[b] = cache[b] /\ cache[b] # None /\ tags[b] = None
                 \/ tags[a] = None /\ tags'[b] = None
              /\ phase = "restore" => job.ws \in spoiled' /\ job.src \in spoiled'
    BY <1>1, <1>3, RunningFacts, EffectTag
  <1>5. \A n \in Names : (n # b => Keeps(n)) /\ (backup(n) # b => KeepsBackup(n))
    BY <1>4, QuietKeeps, NameFacts
  <1> QED
    BY <1>4, <1>5, RunningFacts

LEMMA DoUntag ==
  ASSUME Running, NEW a \in AllNames, NEW r, Program(prog, <<"untag", a>>, r)
  PROVE  /\ Quiet /\ Arrays' /\ spoiled \subseteq spoiled'
         /\ \A n \in Names : /\ n # a => Keeps(n)
                             /\ backup(n) # a => KeepsBackup(n)
         /\ \/ /\ Continues(r) /\ spoiled' = spoiled
               /\ tags[a] # None /\ tags'[a] = None /\ cache'[a] = None
            \/ /\ Fails /\ tags[a] = None
               /\ \A n \in Names : Keeps(n) /\ KeepsBackup(n)
  <1>1. prog # <<>> /\ Head(prog) = <<"untag", a>>
    BY DEF Program
  <1>2. Head(prog)[1] = "untag"
    BY <1>1
  <1>3. Untag
    BY <1>1, <1>2, StepAt DEF Running
  <1>4. /\ Quiet /\ Arrays' /\ spoiled \subseteq spoiled'
        /\ \A m \in AllNames \ {a} : tags'[m] = tags[m] /\ cache'[m] = cache[m]
        /\ \/ /\ Advances /\ spoiled' = spoiled
              /\ tags[a] # None /\ tags'[a] = None /\ cache'[a] = None
           \/ Fails /\ tags[a] = None /\ tags' = tags /\ cache' = cache
    BY <1>1, <1>3, RunningFacts, EffectUntag
  <1>5. \A n \in Names : (n # a => Keeps(n)) /\ (backup(n) # a => KeepsBackup(n))
    BY <1>4, QuietKeeps, NameFacts
  <1>6. tags' = tags /\ cache' = cache => \A n \in Names : Keeps(n) /\ KeepsBackup(n)
    BY <1>4, QuietKeeps
  <1> QED
    BY <1>4, <1>5, <1>6, RunningFacts

LEMMA DoDrop ==
  ASSUME Running, NEW a \in Names, NEW r, Program(prog, <<"drop", a>>, r)
  PROVE  /\ Quiet /\ Arrays' /\ spoiled \subseteq spoiled'
         /\ \A n \in Names : (n # a => Keeps(n)) /\ KeepsBackup(n)
         /\ tags[backup(a)] = None /\ (start[a] # None \/ a \in store) => a \in spoiled'
         /\ \/ Continues(r) /\ Gone(a)'
            \/ Fails /\ ~Sane(a) /\ (phase = "restore" => job.ws \in spoiled' /\ job.src \in spoiled')
  <1>1. prog # <<>> /\ Head(prog) = <<"drop", a>>
    BY DEF Program
  <1>2. Head(prog)[1] = "drop"
    BY <1>1
  <1>3. Drop
    BY <1>1, <1>2, StepAt DEF Running
  <1>4. /\ Quiet /\ Arrays' /\ spoiled \subseteq spoiled'
        /\ \A m \in AllNames \ {a} : tags'[m] = tags[m] /\ cache'[m] = cache[m]
        /\ tags[backup(a)] = None /\ (start[a] # None \/ a \in store) => a \in spoiled'
        /\ \/ Advances /\ tags'[a] = None /\ cache'[a] = None
           \/ /\ Fails /\ tags[a] = None /\ cache[a] # None /\ tags' = tags /\ cache' = cache
              /\ phase = "restore" => job.ws \in spoiled' /\ job.src \in spoiled'
    BY <1>1, <1>3, RunningFacts, EffectDrop
  <1>5. \A n \in Names : (n # a => Keeps(n)) /\ KeepsBackup(n)
    BY <1>4, QuietKeeps, NameFacts
  <1>6. tags'[a] = None /\ cache'[a] = None => Gone(a)'
    BY DEF Gone
  <1>7. tags[a] = None /\ cache[a] # None => ~Sane(a)
    BY DEF Sane
  <1> QED
    BY <1>4, <1>5, <1>6, <1>7, RunningFacts

LEMMA DoAwait ==
  ASSUME Running, NEW a, NEW r, Program(prog, <<"await", a>>, r)
  PROVE  /\ Quiet /\ Arrays' /\ spoiled' = spoiled /\ Continues(r)
         /\ \A n \in Names : Keeps(n) /\ KeepsBackup(n)
  <1>1. prog # <<>> /\ Head(prog)[1] = "await"
    BY DEF Program
  <1>2. Await
    BY <1>1, StepAt DEF Running
  <1>3. Quiet /\ Same /\ spoiled' = spoiled /\ Advances
    BY <1>2, RunningFacts, EffectAwait
  <1>4. Arrays'
    BY <1>3, RunningFacts DEF Arrays, Same
  <1>5. \A n \in Names : Keeps(n) /\ KeepsBackup(n)
    BY <1>3, QuietKeeps DEF Same
  <1> QED
    BY <1>3, <1>4, <1>5, RunningFacts

LEMMA DoRefresh ==
  ASSUME Running, NEW a \in Names, NEW r, Program(prog, <<"refresh", a>>, r)
  PROVE  /\ Quiet /\ Arrays' /\ spoiled' = spoiled /\ Continues(r)
         /\ \A n \in Names : (n # a => Keeps(n)) /\ KeepsBackup(n)
         /\ Sane(a) => Keeps(a)
         /\ tags'[a] = tags[a] /\ cache'[a] = tags[a]
  <1>1. prog # <<>> /\ Head(prog) = <<"refresh", a>> /\ Head(prog)[1] = "refresh"
    BY DEF Program
  <1>2. Refresh
    BY <1>1, StepAt DEF Running
  <1>3. a \in AllNames
    BY NameFacts
  <1>4. /\ Quiet /\ Arrays' /\ tags' = tags /\ spoiled' = spoiled /\ Advances
        /\ cache'[a] = tags[a]
        /\ \A m \in AllNames \ {a} : \/ cache'[m] = cache[m]
                                     \/ cache'[m] = tags[m] /\ tags[m] # None
    BY <1>1, <1>2, <1>3, RunningFacts, EffectRefresh
  <1>5. \A n \in Names : (n # a => Keeps(n)) /\ KeepsBackup(n)
    BY <1>4, NameFacts DEF Quiet, Keeps, KeepsBackup, used
  <1>6. Sane(a) => Keeps(a)
    BY <1>4 DEF Sane, Quiet, Keeps, used
  <1> QED
    BY <1>4, <1>5, <1>6, RunningFacts

LEMMA DoResync ==
  ASSUME Running, NEW a, NEW r, Program(prog, <<"resync", a>>, r)
  PROVE  /\ Same /\ Arrays' /\ spoiled \subseteq spoiled'
         /\ UNCHANGED <<image, nested, built>>
         /\ store' \subseteq Names /\ used' \subseteq store'
         /\ \A n \in Names : /\ Firm(n) => Keeps(n)
                             /\ KeepsBackup(n)
                             /\ trusted(n)' => (n \in store' <=> cache[n] # None)
         /\ Continues(r) \/ Fails
  <1>1. prog # <<>> /\ Head(prog) = <<"resync", a>> /\ Head(prog)[1] = "resync"
    BY DEF Program
  <1>2. Resync
    BY <1>1, StepAt DEF Running
  <1>3. /\ Same /\ UNCHANGED <<image, nested, built>> /\ spoiled \subseteq spoiled'
        /\ store' \subseteq Names /\ used' \subseteq store'
        /\ Advances \/ Fails
        /\ \A n \in Names : /\ cache[n] # None => n \in store'
                            /\ n \in store' => n \in store \/ cache[n] # None
                            /\ trusted(n)' => (n \in store' <=> cache[n] # None)
    BY <1>1, <1>2, RunningFacts, EffectResync
  <1>4. Arrays'
    BY <1>3, RunningFacts DEF Arrays, Same
  <1>5. \A n \in Names : (Firm(n) => Keeps(n)) /\ KeepsBackup(n)
    BY <1>3 DEF Firm, Same, Keeps, KeepsBackup, used
  <1> QED
    BY <1>3, <1>4, <1>5, RunningFacts

LEMMA DoFind ==
  ASSUME Running, NEW a \in Names, NEW r, Program(prog, <<"find", a>>, r)
  PROVE  /\ Arrays' /\ spoiled' = spoiled /\ UNCHANGED <<image, nested, built>>
         /\ store' \subseteq Names /\ used' \subseteq store'
         /\ \A n \in Names : (Firm(n) => Keeps(n)) /\ KeepsBackup(n)
         /\ Sane(a) => Keeps(a)
         /\ Continues(r) \/ Fails
  <1>1. prog # <<>> /\ Head(prog) = <<"find", a>> /\ Head(prog)[1] = "find"
    BY DEF Program
  <1>2. Find
    BY <1>1, StepAt DEF Running
  <1>3. /\ tags' = tags /\ UNCHANGED <<image, nested, built>> /\ spoiled' = spoiled /\ Arrays'
        /\ store' \subseteq Names /\ used' \subseteq store'
        /\ Advances \/ Fails
        /\ \A n \in Names : /\ cache'[n] # None /\ n \in store => n \in store'
                            /\ n \in store' => n \in store \/ cache'[n] # None
        /\ cache'[a] = cache[a] \/ cache'[a] = tags[a]
        /\ \A m \in AllNames \ {a} : \/ cache'[m] = cache[m]
                                     \/ cache'[m] = tags[m] /\ tags[m] # None
        /\ a \in store => cache' = cache /\ store' = store
    BY <1>1, <1>2, RunningFacts, EffectFind
  <1>4. used' = used
    BY <1>3 DEF used
  <1>5. ASSUME NEW n \in Names, Firm(n)
        PROVE  Keeps(n)
    <2>1. cache'[n] = cache[n] \/ (cache'[n] = tags[n] /\ tags[n] # None)
      BY <1>3, <1>5, NameFacts DEF Firm, Sane
    <2> QED
      BY <1>3, <1>4, <1>5, <2>1 DEF Firm, Sane, Keeps
  <1>6. \A n \in Names : KeepsBackup(n)
    BY <1>3, NameFacts DEF KeepsBackup
  <1>7. Sane(a) => Keeps(a)
    BY <1>3, <1>4 DEF Sane, Keeps
  <1> QED
    BY <1>3, <1>5, <1>6, <1>7, RunningFacts

LEMMA DoCheck ==
  ASSUME Running, NEW op \in {"compat", "overwrite", "refuse"}, NEW a, NEW r,
         Program(prog, <<op, a>>, r)
  PROVE  /\ Quiet /\ Arrays' /\ spoiled' = spoiled
         /\ \A n \in Names : Keeps(n) /\ KeepsBackup(n)
         /\ Continues(r) \/ Declines
         /\ op = "refuse" => Declines
  <1>1. prog # <<>> /\ Head(prog)[1] = op
    BY DEF Program
  <1>2. (Compat \/ Overwrite \/ Refuse) /\ (op = "refuse" => Refuse)
    BY <1>1, StepAt DEF Running
  <1>3. /\ Quiet /\ Same /\ spoiled' = spoiled
        /\ Advances \/ Declines
        /\ Refuse => Declines
    BY <1>2, RunningFacts, EffectCheck
  <1>4. Arrays'
    BY <1>3, RunningFacts DEF Arrays, Same
  <1>5. \A n \in Names : Keeps(n) /\ KeepsBackup(n)
    BY <1>3, QuietKeeps DEF Same
  <1> QED
    BY <1>2, <1>3, <1>4, <1>5, RunningFacts

LEMMA DoPull ==
  ASSUME Running, NEW a \in Names, NEW r, Program(prog, <<"pull", a>>, r)
  PROVE  /\ Quiet /\ Arrays' /\ spoiled' = spoiled
         /\ \A n \in Names : (n # a => Keeps(n)) /\ KeepsBackup(n)
         /\ \/ /\ prog' = r /\ phase' = phase /\ JobsKept /\ start' = start
               /\ tags'[a] = fetched' /\ fetched' \in Ids /\ fetched' # None
            \/ Fails /\ \A n \in Names : Keeps(n)
  <1>1. prog # <<>> /\ Head(prog) = <<"pull", a>> /\ Head(prog)[1] = "pull"
    BY DEF Program
  <1>2. Pull
    BY <1>1, StepAt DEF Running
  <1>3. a \in AllNames
    BY NameFacts
  <1>4. /\ Quiet /\ Arrays' /\ cache' = cache /\ spoiled' = spoiled
        /\ \A m \in AllNames \ {a} : tags'[m] = tags[m]
        /\ \/ /\ prog' = Tail(prog) /\ phase' = phase /\ JobsKept /\ start' = start
              /\ tags'[a] = fetched' /\ fetched' \in Ids /\ fetched' # None
           \/ Fails /\ tags' = tags
    BY <1>1, <1>2, <1>3, RunningFacts, EffectPull
  <1>5. \A n \in Names : (n # a => Keeps(n)) /\ KeepsBackup(n)
    BY <1>4, QuietKeeps, NameFacts
  <1>6. tags' = tags => \A n \in Names : Keeps(n)
    BY <1>4, QuietKeeps
  <1> QED
    BY <1>4, <1>5, <1>6 DEF Program

\* The clone of s onto w makes a step of its work.
Acts(w, s, loc) == Scene(w, s, loc) /\ phase = "work" /\ Running

LEMMA ActsFacts ==
  ASSUME NEW w, NEW s, NEW loc, Acts(w, s, loc)
  PROVE  /\ w \in Names /\ s \in Names /\ loc \in BOOLEAN
         /\ Scene(w, s, loc) /\ Running /\ phase = "work"
         /\ used \subseteq store
         /\ Fails => Restores
         /\ w \in AllNames /\ s \in AllNames
         /\ backup(w) \in AllNames /\ backup(s) \in AllNames
         /\ \A n, m \in {w, s} : backup(n) # m /\ (backup(n) = backup(m) => n = m)
  BY NameFacts DEF Acts, Scene, Fails

LEMMA KeptWhole ==
  ASSUME NEW n, Keeps(n), KeepsBackup(n), start' = start
  PROVE  /\ Whole(n) => Whole(n)' /\ Restorable(n)'
         /\ Saved(n) => Saved(n)'
         /\ Intact(n) => Intact(n)'
         /\ Restorable(n) => Restorable(n)'
         /\ tags'[backup(n)] = None <=> tags[backup(n)] = None
  <1>1. Whole(n) => Whole(n)'
    BY KeptBackup
  <1>2. Restorable(n) => Restorable(n)'
    BY KeptBackup, KeptFacts DEF Restorable, Keeps, KeepsBackup
  <1>3. Whole(n) => Restorable(n)
    BY WholeRestorable
  <1>4. Intact(n) => Intact(n)'
    BY KeptStart
  <1>5. Saved(n) => Saved(n)'
    BY KeptBackup
  <1> QED
    BY <1>1, <1>2, <1>3, <1>4, <1>5 DEF KeepsBackup

\* A step fails, and what it leaves is kept.
LEMMA FailsKept ==
  ASSUME NEW w, NEW s, NEW loc, Acts(w, s, loc), Fails, spoiled \subseteq spoiled',
         \A n \in {w, s} : /\ KeepsBackup(n)
                           /\ trusted(n)' => Keeps(n)
                           /\ trusted(n) => Whole(n)
  PROVE  GoesOn(w, s, loc)
  <1>1. start' = start
    BY ActsFacts DEF Restores, past_kept
  <1>2. \A n \in {w, s} : trusted(n)' => trusted(n)
    BY DEF trusted
  <1>3. \A n \in {w, s} : /\ tags'[backup(n)] = None <=> tags[backup(n)] = None
                          /\ trusted(n)' => Restorable(n)'
    BY <1>1, <1>2, KeptWhole DEF KeepsBackup
  <1> QED
    BY <1>3, ActsFacts, FailsGoOn

LEMMA GoodFirm ==
  ASSUME NEW n, Good(n)
  PROVE  Firm(n) /\ Sane(n)
  BY DEF Good, Firm, Sane

LEMMA GoodReady ==
  ASSUME NEW n, Good(n), used \subseteq store
  PROVE  Ready(n)
  BY DEF Good, Ready

\* Clone of an image of the server onto another name
LEMMA AtLocal1 ==
  ASSUME NEW w, NEW s, Acts(w, s, TRUE), w # s, prog = Local1(w, s),
         \A n \in {w, s} : trusted(n) => Whole(n),
         trusted(s) => Intact(s)
  PROVE  GoesOn(w, s, TRUE)
  <1>1. Program(prog, <<"tag", s, w>>, <<>>)
    BY ActsFacts, LocalPrograms
  <1>2. /\ Quiet /\ spoiled \subseteq spoiled'
        /\ Keeps(s) /\ \A n \in {w, s} : KeepsBackup(n)
        /\ \/ /\ Continues(<<>>)
              /\ tags[s] # None /\ tags'[w] = tags[s] /\ cache'[w] = cache[s]
              /\ s \in built \cup spoiled => w \in spoiled'
           \/ Fails /\ w \in spoiled'
    <2>1. /\ Running /\ s \in AllNames /\ w \in AllNames /\ w \in Names /\ s \in Names
          /\ backup(w) # w /\ backup(s) # w
      BY ActsFacts
    <2>2. /\ Quiet /\ spoiled \subseteq spoiled'
          /\ \A n \in Names : /\ n # w => Keeps(n)
                              /\ backup(n) # w => KeepsBackup(n)
          /\ \/ /\ Continues(<<>>)
                /\ tags[s] # None /\ tags'[w] = tags[s] /\ cache'[w] = cache[s]
                /\ w \in Names /\ s \in built \cup spoiled => w \in spoiled'
             \/ Fails /\ (w \in Names => w \in spoiled')
      BY <1>1, <2>1, DoTag
    <2> QED
      BY <2>1, <2>2
  <1>3. CASE Fails /\ w \in spoiled'
    BY <1>2, <1>3, FailsKept DEF trusted
  <1>4. CASE /\ Continues(<<>>)
             /\ tags[s] # None /\ tags'[w] = tags[s] /\ cache'[w] = cache[s]
             /\ s \in built \cup spoiled => w \in spoiled'
    <2>1. /\ start' = start /\ prog' = <<>> /\ phase' = "work" /\ JobsKept
          /\ \A n \in {w, s} : trusted(n)' => trusted(n)
      BY <1>2, <1>4, ActsFacts DEF Continues, past_kept, trusted
    <2>2. trusted(s)' => Whole(s)' /\ Ready(s)' /\ tags'[s] = start'[s]
      <3>1. trusted(s) => Whole(s)' /\ Ready(s) /\ tags[s] = start[s]
        BY <1>2, <2>1, KeptWhole, GoodReady, ActsFacts DEF Intact
      <3>2. Ready(s) => Ready(s)'
        BY <1>2, KeptFacts
      <3> QED
        BY <1>2, <2>1, <3>1, <3>2 DEF Keeps
    <2>3. ASSUME trusted(w)'
          PROVE  Whole(w)' /\ Ready(w)' /\ tags'[w] = start'[s]
      <3>1. trusted(w) /\ trusted(s) /\ s \notin built
        BY <1>4, <2>1, <2>3 DEF trusted
      <3>2. Whole(w) /\ tags[s] = start[s] /\ cache[s] = tags[s]
        BY <3>1 DEF Intact, Good
      <3>3. tags'[w] # None /\ cache'[w] = tags'[w] /\ tags'[w] = start'[s]
        BY <1>4, <2>1, <3>2
      <3>4. Ready(w)' /\ Sane(w)'
        BY <3>3 DEF Ready, Sane
      <3>5. Saved(w)' /\ Safe(w)'
        BY <1>2, <2>1, <3>2 DEF Whole, Saved, Safe, Quiet, KeepsBackup, used
      <3> QED
        BY <3>3, <3>4, <3>5 DEF Whole
    <2>4. Done(w, s, TRUE)'
      BY <2>1, <2>2, <2>3 DEF Done, Cloned
    <2> QED
      BY <2>1, <2>4 DEF GoesOn, CloneInv, CloneWorks
  <1> QED
    BY <1>2, <1>3, <1>4

LEMMA AtLocal2 ==
  ASSUME NEW w, NEW s, Acts(w, s, TRUE), w # s, prog = Local2(w, s),
         \A n \in {w, s} : trusted(n) => Whole(n),
         trusted(s) => Intact(s)
  PROVE  GoesOn(w, s, TRUE)
  <1>1. Program(prog, <<"untag", w>>, Local1(w, s))
    BY ActsFacts, LocalPrograms
  <1>2. /\ Quiet /\ spoiled \subseteq spoiled'
        /\ Keeps(s) /\ \A n \in {w, s} : KeepsBackup(n)
        /\ \/ /\ Continues(Local1(w, s))
              /\ tags'[w] = None /\ cache'[w] = None
           \/ Fails /\ Keeps(w)
    <2>1. w \in AllNames /\ w \in Names /\ s \in Names /\ Running
      BY ActsFacts
    <2>2. backup(w) # w /\ backup(s) # w
      BY ActsFacts
    <2> QED
      BY <1>1, <2>1, <2>2, DoUntag
  <1>3. CASE Fails /\ Keeps(w)
    BY <1>2, <1>3, FailsKept
  <1>4. CASE Continues(Local1(w, s)) /\ tags'[w] = None /\ cache'[w] = None
    <2>1. /\ start' = start /\ prog' = Local1(w, s) /\ phase' = "work" /\ JobsKept
          /\ \A n \in {w, s} : trusted(n)' => trusted(n)
      BY <1>2, <1>4, ActsFacts DEF Continues, past_kept, trusted
    <2>2. trusted(s)' => Whole(s)' /\ Intact(s)'
      BY <1>2, <2>1, KeptWhole
    <2>3. trusted(w)' => Whole(w)'
      BY <1>2, <1>4, <2>1 DEF Whole, Saved, Sane, Safe, Quiet, KeepsBackup, used
    <2>4. CopyingLocal(w, s)'
      BY <2>1, <2>2, <2>3 DEF CopyingLocal
    <2> QED
      BY <2>1, <2>4 DEF GoesOn, CloneInv, CloneWorks
  <1> QED
    BY <1>2, <1>3, <1>4

LEMMA AtLocal3 ==
  ASSUME NEW w, NEW s, Acts(w, s, TRUE), w # s, prog = Local3(w, s),
         \A n \in {w, s} : trusted(n) => Whole(n) /\ Intact(n)
  PROVE  GoesOn(w, s, TRUE)
  <1>1. Program(prog, <<"find", w>>, Local2(w, s))
    BY ActsFacts, LocalPrograms
  <1>2. /\ spoiled' = spoiled
        /\ \A n \in {w, s} : KeepsBackup(n) /\ (Firm(n) => Keeps(n))
        /\ Continues(Local2(w, s)) \/ Fails
    BY <1>1, ActsFacts, DoFind
  <1>3. \A n \in {w, s} : trusted(n)' => trusted(n) /\ Keeps(n)
    BY <1>2, GoodFirm DEF Intact, trusted
  <1>4. CASE Fails
    BY <1>2, <1>3, <1>4, FailsKept
  <1>5. CASE Continues(Local2(w, s))
    <2>1. start' = start /\ prog' = Local2(w, s) /\ phase' = "work" /\ JobsKept
      BY <1>5, ActsFacts DEF Continues, past_kept
    <2>2. \A n \in {w, s} : trusted(n)' => Whole(n)' /\ Intact(n)'
      BY <1>2, <1>3, <2>1, KeptWhole
    <2>3. CopyingLocal(w, s)'
      BY <2>1, <2>2 DEF CopyingLocal
    <2> QED
      BY <2>1, <2>3 DEF GoesOn, CloneInv, CloneWorks
  <1> QED
    BY <1>2, <1>4, <1>5

\* A name changes, but its backup and its use do not.
LEMMA ChangedWhole ==
  ASSUME NEW n, Quiet, Whole(n), KeepsBackup(n), start' = start, tags'[n] # None \/ Gone(n)'
  PROVE  Whole(n)'
  BY DEF Whole, Saved, Sane, Safe, Gone, Quiet, KeepsBackup, used

LEMMA AbsentKept ==
  ASSUME NEW n, UNCHANGED <<image, built>>, start' = start, Absent(n)
  PROVE  Absent(n)'
  BY DEF Absent, used

LEMMA CachedFirm ==
  ASSUME NEW n, Cached(n)
  PROVE  Firm(n)
  BY DEF Cached, Pulled, Firm, Sane

\* Clone of a remote image that is in the working set
UpdateHere(w) == Acts(w, w, FALSE) /\ (trusted(w) => Whole(w))

LEMMA UpdateFacts ==
  ASSUME NEW w, UpdateHere(w)
  PROVE  /\ w \in Names /\ w \in AllNames /\ backup(w) # w /\ Running
         /\ phase = "work" /\ Acts(w, w, FALSE)
         /\ trusted(w) => Whole(w) /\ Sane(w)
         /\ spoiled \subseteq spoiled' => (trusted(w)' => trusted(w))
  BY ActsFacts DEF UpdateHere, Whole, trusted

LEMMA UpdateFails ==
  ASSUME NEW w, UpdateHere(w), Fails, spoiled \subseteq spoiled', KeepsBackup(w),
         trusted(w)' => Keeps(w)
  PROVE  GoesOn(w, w, FALSE)
  BY UpdateFacts, FailsKept

LEMMA UpdateGoesOn ==
  ASSUME NEW w, UpdateHere(w), phase' = phase, JobsKept, Updating(w)'
  PROVE  GoesOn(w, w, FALSE)
  BY UpdateFacts DEF GoesOn, CloneInv, CloneWorks

LEMMA AtSame6 ==
  ASSUME NEW w, UpdateHere(w), prog = Same6(w), trusted(w) => Intact(w)
  PROVE  GoesOn(w, w, FALSE)
  <1>1. Program(prog, <<"find", w>>, Same5(w))
    BY UpdateFacts, SamePrograms
  <1>2. /\ spoiled' = spoiled /\ KeepsBackup(w) /\ (Sane(w) => Keeps(w))
        /\ Continues(Same5(w)) \/ Fails
    BY <1>1, UpdateFacts, DoFind
  <1>3. trusted(w)' => trusted(w) /\ Keeps(w)
    BY <1>2, UpdateFacts
  <1>4. CASE Fails
    BY <1>2, <1>3, <1>4, UpdateFails
  <1>5. CASE Continues(Same5(w))
    <2>1. start' = start /\ prog' = Same5(w) /\ phase' = phase /\ JobsKept
      BY <1>5 DEF Continues, past_kept
    <2>2. trusted(w)' => Whole(w)'
      BY <1>2, <1>3, <2>1, KeptWhole, UpdateFacts
    <2> QED
      BY <2>1, <2>2, UpdateGoesOn DEF Updating
  <1> QED
    BY <1>2, <1>4, <1>5

LEMMA AtSame5 ==
  ASSUME NEW w, UpdateHere(w), prog = Same5(w)
  PROVE  GoesOn(w, w, FALSE)
  <1>1. Program(prog, <<"untag", w>>, Same4(w))
    BY UpdateFacts, SamePrograms
  <1>2. /\ Quiet /\ spoiled \subseteq spoiled' /\ KeepsBackup(w)
        /\ \/ Continues(Same4(w)) /\ tags'[w] = None /\ cache'[w] = None
           \/ Fails /\ Keeps(w)
    BY <1>1, UpdateFacts, DoUntag
  <1>3. CASE Fails /\ Keeps(w)
    BY <1>2, <1>3, UpdateFails
  <1>4. CASE Continues(Same4(w)) /\ tags'[w] = None /\ cache'[w] = None
    <2>1. start' = start /\ prog' = Same4(w) /\ phase' = phase /\ JobsKept
      BY <1>4 DEF Continues, past_kept
    <2>2. trusted(w)' => Whole(w)'
      BY <1>2, <1>4, <2>1, ChangedWhole, UpdateFacts DEF Gone
    <2> QED
      BY <2>1, <2>2, UpdateGoesOn DEF Updating
  <1> QED
    BY <1>2, <1>3, <1>4

LEMMA AtSame4 ==
  ASSUME NEW w, UpdateHere(w), prog = Same4(w)
  PROVE  GoesOn(w, w, FALSE)
  <1>1. Program(prog, <<"pull", w>>, Same3(w))
    BY UpdateFacts, SamePrograms
  <1>2. /\ Quiet /\ spoiled' = spoiled /\ KeepsBackup(w)
        /\ \/ /\ prog' = Same3(w) /\ phase' = phase /\ JobsKept /\ start' = start
              /\ tags'[w] = fetched' /\ fetched' # None
           \/ Fails /\ Keeps(w)
    BY <1>1, UpdateFacts, DoPull
  <1>3. CASE Fails /\ Keeps(w)
    BY <1>2, <1>3, UpdateFails
  <1>4. CASE /\ prog' = Same3(w) /\ phase' = phase /\ JobsKept /\ start' = start
             /\ tags'[w] = fetched' /\ fetched' # None
    <2>1. trusted(w)' => Whole(w)'
      BY <1>2, <1>4, ChangedWhole, UpdateFacts
    <2>2. Pulled(w)'
      BY <1>4 DEF Pulled
    <2> QED
      BY <1>4, <2>1, <2>2, UpdateGoesOn DEF Updating
  <1> QED
    BY <1>2, <1>3, <1>4

LEMMA AtSame3 ==
  ASSUME NEW w, UpdateHere(w), prog = Same3(w), trusted(w) => Pulled(w)
  PROVE  GoesOn(w, w, FALSE)
  <1>1. Program(prog, <<"await", w>>, Same2(w))
    BY UpdateFacts, SamePrograms
  <1>2. /\ spoiled' = spoiled /\ KeepsBackup(w) /\ Keeps(w) /\ Continues(Same2(w))
    BY <1>1, UpdateFacts, DoAwait
  <1>3. /\ start' = start /\ fetched' = fetched /\ prog' = Same2(w) /\ phase' = phase
        /\ JobsKept
    BY <1>2 DEF Continues, past_kept
  <1>4. trusted(w)' => Whole(w)' /\ Pulled(w)'
    BY <1>2, <1>3, KeptWhole, KeptFetched, UpdateFacts
  <1> QED
    BY <1>3, <1>4, UpdateGoesOn DEF Updating

LEMMA AtSame2 ==
  ASSUME NEW w, UpdateHere(w), prog = Same2(w), trusted(w) => Pulled(w)
  PROVE  GoesOn(w, w, FALSE)
  <1>1. Program(prog, <<"refresh", w>>, Same1(w))
    BY UpdateFacts, SamePrograms
  <1>2. /\ spoiled' = spoiled /\ KeepsBackup(w) /\ (Sane(w) => Keeps(w)) /\ Continues(Same1(w))
        /\ tags'[w] = tags[w] /\ cache'[w] = tags[w]
    BY <1>1, UpdateFacts, DoRefresh
  <1>3. /\ start' = start /\ fetched' = fetched /\ prog' = Same1(w) /\ phase' = phase
        /\ JobsKept
    BY <1>2 DEF Continues, past_kept
  <1>4. trusted(w)' => Whole(w)'
    BY <1>2, <1>3, KeptWhole, UpdateFacts
  <1>5. trusted(w)' => Cached(w)'
    BY <1>2, <1>3, UpdateFacts DEF Pulled, Cached
  <1> QED
    BY <1>3, <1>4, <1>5, UpdateGoesOn DEF Updating

LEMMA AtSame1 ==
  ASSUME NEW w, UpdateHere(w), prog = Same1(w), trusted(w) => Cached(w)
  PROVE  GoesOn(w, w, FALSE)
  <1>1. Program(prog, <<"resync", w>>, <<>>)
    BY UpdateFacts, SamePrograms
  <1>2. /\ spoiled \subseteq spoiled' /\ KeepsBackup(w) /\ (Firm(w) => Keeps(w))
        /\ Continues(<<>>) \/ Fails
    BY <1>1, UpdateFacts, DoResync
  <1>3. trusted(w)' => trusted(w) /\ Keeps(w)
    BY <1>2, CachedFirm, UpdateFacts
  <1>4. CASE Fails
    BY <1>2, <1>3, <1>4, UpdateFails
  <1>5. CASE Continues(<<>>)
    <2>1. /\ start' = start /\ fetched' = fetched /\ prog' = <<>> /\ phase' = "work"
          /\ JobsKept
      BY <1>5, UpdateFacts DEF Continues, past_kept
    <2>2. trusted(w)' => Whole(w)' /\ Cached(w)'
      BY <1>2, <1>3, <2>1, KeptWhole, KeptFetched, UpdateFacts
    <2>3. Cached(w)' => Ready(w)' /\ tags'[w] = fetched'
      BY DEF Cached, Pulled, Ready
    <2>4. Done(w, w, FALSE)'
      BY <2>1, <2>2, <2>3 DEF Done, Cloned
    <2> QED
      BY <2>1, <2>4 DEF GoesOn, CloneInv, CloneWorks
  <1> QED
    BY <1>2, <1>4, <1>5

-----------------------------------------------------------------------------
\* Clone of a remote image of another user
OtherHere(w, s, x) ==
    /\ Acts(w, s, FALSE) /\ w # s /\ x \in BOOLEAN
    /\ \A n \in {w, s} : trusted(n) => Whole(n)
    /\ trusted(s) /\ ~x => Absent(s)

LEMMA OtherFacts ==
  ASSUME NEW w, NEW s, NEW x, OtherHere(w, s, x)
  PROVE  /\ w \in Names /\ s \in Names /\ w # s /\ Running /\ phase = "work"
         /\ x \in BOOLEAN
         /\ Acts(w, s, FALSE)
         /\ w \in AllNames /\ s \in AllNames /\ backup(s) \in AllNames
         /\ backup(w) # w /\ backup(w) # s /\ backup(s) # w /\ backup(s) # s
         /\ \A n \in {w, s} : trusted(n) => Whole(n) /\ Sane(n)
         /\ spoiled \subseteq spoiled' =>
                \A n \in {w, s} : trusted(n)' => trusted(n) /\ Whole(n) /\ Sane(n)
  BY ActsFacts DEF OtherHere, Whole, trusted

LEMMA OtherFails ==
  ASSUME NEW w, NEW s, NEW x, OtherHere(w, s, x), Fails, spoiled \subseteq spoiled',
         \A n \in {w, s} : KeepsBackup(n) /\ (trusted(n)' => Keeps(n))
  PROVE  GoesOn(w, s, FALSE)
  BY OtherFacts, FailsKept

\* The names that the next stage of the copy speaks of
LEMMA OtherGoesOn ==
  ASSUME NEW w, NEW s, NEW x, NEW e \in BOOLEAN, OtherHere(w, s, x),
         phase' = phase, JobsKept, start' = start, spoiled \subseteq spoiled',
         UNCHANGED <<image, built>>,
         \A n \in {w, s} : trusted(n)' => Whole(n)',
         \/ prog' = Other8(w, s, e, x) /\ (trusted(w) => Intact(w))'
         \/ /\ prog' = Other7(w, s, e, x) \/ prog' = Other6(w, s, e, x)
            /\ (trusted(w) => Intact(w))' /\ (trusted(s) => Pulled(s))'
         \/ /\ prog' = Other5(w, s, e, x)
            /\ (trusted(w) => Intact(w))' /\ (trusted(s) => Cached(s))'
         \/ /\ prog' = Other4(w, s, x) \/ prog' = Other3(w, s, x) \/ prog' = Other2(w, s, x)
            /\ (trusted(s) => Cached(s))'
         \/ /\ prog' = Other1(s, x)
            /\ (trusted(w) => tags[w] = fetched /\ cache[w] = fetched /\ fetched # None)'
            /\ (trusted(w) /\ trusted(s) => s \notin built)'
  PROVE  GoesOn(w, s, FALSE)
  <1>1. trusted(s)' /\ ~x => Absent(s)'
    <2>1. trusted(s)' => trusted(s)
      BY DEF trusted
    <2>2. Absent(s) => Absent(s)'
      BY AbsentKept
    <2> QED
      BY <2>1, <2>2 DEF OtherHere
  <1>2. CopyingOther(w, s, e, x)'
    BY <1>1 DEF CopyingOther, Copied
  <1>3. x \in BOOLEAN /\ w # s /\ phase = "work"
    BY OtherFacts
  <1>4. CloneWorks(w, s, FALSE)'
    BY <1>2, <1>3 DEF CloneWorks
  <1> QED
    BY <1>3, <1>4 DEF GoesOn, CloneInv

LEMMA OtherRestores ==
  ASSUME NEW w, NEW s, OtherHere(w, s, TRUE), phase' = phase, JobsKept,
         prog' = Other0(s, TRUE),
         \A n \in {w, s} : trusted(n)' => Whole(n)',
         trusted(s)' => Gone(s)',
         trusted(w)' => tags'[w] = fetched' /\ cache'[w] = fetched' /\ fetched' # None,
         trusted(w)' /\ trusted(s)' => s \notin built'
  PROVE  GoesOn(w, s, FALSE)
  <1>1. CopyingOther(w, s, TRUE, TRUE)'
    BY DEF CopyingOther, Copied
  <1> QED
    BY <1>1, OtherFacts DEF GoesOn, CloneInv, CloneWorks

LEMMA OtherKept ==
  ASSUME NEW w, NEW s, NEW x, OtherHere(w, s, x), start' = start, spoiled \subseteq spoiled',
         NEW n \in {w, s}, KeepsBackup(n), trusted(n)' => Keeps(n)
  PROVE  /\ trusted(n)' => Whole(n)'
         /\ (trusted(n) => Intact(n)) => (trusted(n) => Intact(n))'
         /\ fetched' = fetched => /\ (trusted(n) => Pulled(n)) => (trusted(n) => Pulled(n))'
                                  /\ (trusted(n) => Cached(n)) => (trusted(n) => Cached(n))'
  BY KeptWhole, KeptFetched, OtherFacts

LEMMA OtherChanged ==
  ASSUME NEW w, NEW s, NEW x, OtherHere(w, s, x), start' = start, spoiled \subseteq spoiled',
         Quiet, NEW n \in {w, s}, KeepsBackup(n), tags'[n] # None \/ Gone(n)'
  PROVE  trusted(n)' => Whole(n)'
  BY ChangedWhole, OtherFacts

LEMMA AtOther9 ==
  ASSUME NEW w, NEW s, NEW x, NEW e \in BOOLEAN, OtherHere(w, s, x),
         prog = Other9(w, s, e, x), trusted(w) => Intact(w)
  PROVE  GoesOn(w, s, FALSE)
  <1>1. Program(prog, <<"untag", s>>, Other8(w, s, e, x))
    <2>1. w \in Names /\ s \in Names /\ x \in BOOLEAN
      BY OtherFacts
    <2> QED
      BY <2>1, OtherPrograms
  <1>2. /\ Quiet /\ spoiled \subseteq spoiled'
        /\ Keeps(w) /\ \A n \in {w, s} : KeepsBackup(n)
        /\ \/ Continues(Other8(w, s, e, x)) /\ tags'[s] = None /\ cache'[s] = None
           \/ Fails /\ Keeps(s)
    BY <1>1, OtherFacts, DoUntag
  <1>3. CASE Fails /\ Keeps(s)
    BY <1>2, <1>3, OtherFails
  <1>4. CASE Continues(Other8(w, s, e, x)) /\ tags'[s] = None /\ cache'[s] = None
    <2>1. start' = start /\ prog' = Other8(w, s, e, x) /\ phase' = phase /\ JobsKept
      BY <1>4 DEF Continues, past_kept
    <2>2. trusted(w)' => Whole(w)' /\ Intact(w)'
      BY <1>2, <2>1, OtherKept
    <2>3. trusted(s)' => Whole(s)'
      BY <1>2, <1>4, <2>1, OtherChanged DEF Gone
    <2> QED
      BY <1>2, <2>1, <2>2, <2>3, OtherGoesOn DEF Quiet
  <1> QED
    BY <1>2, <1>3, <1>4

LEMMA AtOther8 ==
  ASSUME NEW w, NEW s, NEW x, NEW e \in BOOLEAN, OtherHere(w, s, x),
         prog = Other8(w, s, e, x), trusted(w) => Intact(w)
  PROVE  GoesOn(w, s, FALSE)
  <1>1. Program(prog, <<"pull", s>>, Other7(w, s, e, x))
    <2>1. w \in Names /\ s \in Names /\ x \in BOOLEAN
      BY OtherFacts
    <2> QED
      BY <2>1, OtherPrograms
  <1>2. /\ Quiet /\ spoiled' = spoiled
        /\ Keeps(w) /\ \A n \in {w, s} : KeepsBackup(n)
        /\ \/ /\ prog' = Other7(w, s, e, x) /\ phase' = phase /\ JobsKept /\ start' = start
              /\ tags'[s] = fetched' /\ fetched' # None
           \/ Fails /\ Keeps(s)
    BY <1>1, OtherFacts, DoPull
  <1>3. CASE Fails /\ Keeps(s)
    BY <1>2, <1>3, OtherFails
  <1>4. CASE /\ prog' = Other7(w, s, e, x) /\ phase' = phase /\ JobsKept /\ start' = start
             /\ tags'[s] = fetched' /\ fetched' # None
    <2>1. trusted(w)' => Whole(w)' /\ Intact(w)'
      BY <1>2, <1>4, OtherKept
    <2>2. trusted(s)' => Whole(s)'
      BY <1>2, <1>4, OtherChanged
    <2>3. Pulled(s)'
      BY <1>4 DEF Pulled
    <2> QED
      BY <1>2, <1>4, <2>1, <2>2, <2>3, OtherGoesOn DEF Quiet
  <1> QED
    BY <1>2, <1>3, <1>4

LEMMA AtOther7 ==
  ASSUME NEW w, NEW s, NEW x, NEW e \in BOOLEAN, OtherHere(w, s, x),
         prog = Other7(w, s, e, x), trusted(w) => Intact(w), trusted(s) => Pulled(s)
  PROVE  GoesOn(w, s, FALSE)
  <1>1. Program(prog, <<"await", s>>, Other6(w, s, e, x))
    <2>1. w \in Names /\ s \in Names /\ x \in BOOLEAN
      BY OtherFacts
    <2> QED
      BY <2>1, OtherPrograms
  <1>2. /\ Quiet /\ spoiled' = spoiled /\ Continues(Other6(w, s, e, x))
        /\ \A n \in {w, s} : Keeps(n) /\ KeepsBackup(n)
    BY <1>1, OtherFacts, DoAwait
  <1>3. /\ start' = start /\ fetched' = fetched /\ prog' = Other6(w, s, e, x)
        /\ phase' = phase /\ JobsKept
    BY <1>2 DEF Continues, past_kept
  <1>4. /\ trusted(w)' => Whole(w)' /\ Intact(w)'
        /\ trusted(s)' => Whole(s)' /\ Pulled(s)'
    BY <1>2, <1>3, OtherKept
  <1> QED
    BY <1>2, <1>3, <1>4, OtherGoesOn DEF Quiet

LEMMA AtOther6 ==
  ASSUME NEW w, NEW s, NEW x, NEW e \in BOOLEAN, OtherHere(w, s, x),
         prog = Other6(w, s, e, x), trusted(w) => Intact(w), trusted(s) => Pulled(s)
  PROVE  GoesOn(w, s, FALSE)
  <1>1. Program(prog, <<"refresh", s>>, Other5(w, s, e, x))
    <2>1. w \in Names /\ s \in Names /\ x \in BOOLEAN
      BY OtherFacts
    <2> QED
      BY <2>1, OtherPrograms
  <1>2. /\ Quiet /\ spoiled' = spoiled /\ Continues(Other5(w, s, e, x))
        /\ Keeps(w) /\ (Sane(s) => Keeps(s)) /\ \A n \in {w, s} : KeepsBackup(n)
        /\ tags'[s] = tags[s] /\ cache'[s] = tags[s]
    BY <1>1, OtherFacts, DoRefresh
  <1>3. /\ start' = start /\ fetched' = fetched /\ prog' = Other5(w, s, e, x)
        /\ phase' = phase /\ JobsKept
    BY <1>2 DEF Continues, past_kept
  <1>4. trusted(w)' => Whole(w)' /\ Intact(w)'
    BY <1>2, <1>3, OtherKept
  <1>5. trusted(s)' => trusted(s) /\ Sane(s)
    BY <1>2, OtherFacts
  <1>6. trusted(s)' => Whole(s)'
    BY <1>2, <1>3, <1>5, OtherKept
  <1>7. trusted(s)' => Cached(s)'
    BY <1>2, <1>3, <1>5 DEF Cached, Pulled
  <1> QED
    BY <1>2, <1>3, <1>4, <1>6, <1>7, OtherGoesOn DEF Quiet

LEMMA AtOther5 ==
  ASSUME NEW w, NEW s, NEW x, NEW e \in BOOLEAN, OtherHere(w, s, x),
         prog = Other5(w, s, e, x), trusted(w) => Intact(w), trusted(s) => Cached(s)
  PROVE  GoesOn(w, s, FALSE)
  <1>1. Program(prog, <<"resync", s>>, Copying(w, s, e, x))
    <2>1. w \in Names /\ s \in Names /\ x \in BOOLEAN
      BY OtherFacts
    <2> QED
      BY <2>1, OtherPrograms
  <1>2. /\ UNCHANGED <<image, built>> /\ spoiled \subseteq spoiled'
        /\ \A n \in {w, s} : KeepsBackup(n) /\ (Firm(n) => Keeps(n))
        /\ Continues(Copying(w, s, e, x)) \/ Fails
    BY <1>1, OtherFacts, DoResync
  <1>3. \A n \in {w, s} : trusted(n)' => Keeps(n)
    BY <1>2, GoodFirm, CachedFirm, OtherFacts DEF Intact
  <1>4. CASE Fails
    BY <1>2, <1>3, <1>4, OtherFails
  <1>5. CASE Continues(Copying(w, s, e, x))
    <2>1. /\ start' = start /\ fetched' = fetched /\ phase' = phase /\ JobsKept
          /\ prog' = Other4(w, s, x) \/ prog' = Other2(w, s, x)
      BY <1>5 DEF Continues, past_kept, Copying
    <2>2. /\ trusted(w)' => Whole(w)'
          /\ trusted(s)' => Whole(s)' /\ Cached(s)'
      BY <1>2, <1>3, <2>1, OtherKept
    <2> QED
      BY <1>2, <2>1, <2>2, OtherGoesOn
  <1> QED
    BY <1>2, <1>4, <1>5

LEMMA AtOther4 ==
  ASSUME NEW w, NEW s, NEW x, OtherHere(w, s, x),
         prog = Other4(w, s, x), trusted(s) => Cached(s)
  PROVE  GoesOn(w, s, FALSE)
  <1>0. TRUE \in BOOLEAN
    OBVIOUS
  <1>1. Program(prog, <<"find", w>>, Other3(w, s, x))
    <2>1. w \in Names /\ s \in Names /\ x \in BOOLEAN
      BY OtherFacts
    <2> QED
      BY <1>0, <2>1, OtherPrograms
  <1>2. /\ UNCHANGED <<image, built>> /\ spoiled' = spoiled
        /\ \A n \in {w, s} : KeepsBackup(n) /\ (Firm(n) => Keeps(n))
        /\ Sane(w) => Keeps(w)
        /\ Continues(Other3(w, s, x)) \/ Fails
    BY <1>1, OtherFacts, DoFind
  <1>3. \A n \in {w, s} : trusted(n)' => Keeps(n)
    BY <1>2, CachedFirm, OtherFacts
  <1>4. CASE Fails
    BY <1>2, <1>3, <1>4, OtherFails
  <1>5. CASE Continues(Other3(w, s, x))
    <2>1. /\ start' = start /\ fetched' = fetched /\ phase' = phase /\ JobsKept
          /\ prog' = Other3(w, s, x)
      BY <1>5 DEF Continues, past_kept
    <2>2. /\ trusted(w)' => Whole(w)'
          /\ trusted(s)' => Whole(s)' /\ Cached(s)'
      BY <1>2, <1>3, <2>1, OtherKept
    <2> QED
      BY <1>0, <1>2, <2>1, <2>2, OtherGoesOn
  <1> QED
    BY <1>2, <1>4, <1>5

LEMMA AtOther3 ==
  ASSUME NEW w, NEW s, NEW x, OtherHere(w, s, x),
         prog = Other3(w, s, x), trusted(s) => Cached(s)
  PROVE  GoesOn(w, s, FALSE)
  <1>0. TRUE \in BOOLEAN
    OBVIOUS
  <1>1. Program(prog, <<"untag", w>>, Other2(w, s, x))
    <2>1. w \in Names /\ s \in Names /\ x \in BOOLEAN
      BY OtherFacts
    <2> QED
      BY <1>0, <2>1, OtherPrograms
  <1>2. /\ Quiet /\ spoiled \subseteq spoiled'
        /\ Keeps(s) /\ \A n \in {w, s} : KeepsBackup(n)
        /\ \/ Continues(Other2(w, s, x)) /\ tags'[w] = None /\ cache'[w] = None
           \/ Fails /\ Keeps(w)
    BY <1>1, OtherFacts, DoUntag
  <1>3. CASE Fails /\ Keeps(w)
    BY <1>2, <1>3, OtherFails
  <1>4. CASE Continues(Other2(w, s, x)) /\ tags'[w] = None /\ cache'[w] = None
    <2>1. /\ start' = start /\ fetched' = fetched /\ phase' = phase /\ JobsKept
          /\ prog' = Other2(w, s, x)
      BY <1>4 DEF Continues, past_kept
    <2>2. trusted(s)' => Whole(s)' /\ Cached(s)'
      BY <1>2, <2>1, OtherKept
    <2>3. trusted(w)' => Whole(w)'
      BY <1>2, <1>4, <2>1, OtherChanged DEF Gone
    <2> QED
      BY <1>0, <1>2, <2>1, <2>2, <2>3, OtherGoesOn DEF Quiet
  <1> QED
    BY <1>2, <1>3, <1>4

LEMMA AtOther2 ==
  ASSUME NEW w, NEW s, NEW x, OtherHere(w, s, x),
         prog = Other2(w, s, x), trusted(s) => Cached(s)
  PROVE  GoesOn(w, s, FALSE)
  <1>0. TRUE \in BOOLEAN
    OBVIOUS
  <1>1. Program(prog, <<"tag", s, w>>, Other1(s, x))
    <2>1. w \in Names /\ s \in Names /\ x \in BOOLEAN
      BY OtherFacts
    <2> QED
      BY <1>0, <2>1, OtherPrograms
  <1>2. /\ Quiet /\ spoiled \subseteq spoiled'
        /\ Keeps(s) /\ \A n \in {w, s} : KeepsBackup(n)
        /\ \/ /\ Continues(Other1(s, x))
              /\ tags[s] # None /\ tags'[w] = tags[s] /\ cache'[w] = cache[s]
              /\ s \in built \cup spoiled => w \in spoiled'
           \/ Fails /\ w \in spoiled'
    BY <1>1, OtherFacts, DoTag
  <1>3. CASE Fails /\ w \in spoiled'
    BY <1>2, <1>3, OtherFails DEF trusted
  <1>4. CASE /\ Continues(Other1(s, x))
             /\ tags[s] # None /\ tags'[w] = tags[s] /\ cache'[w] = cache[s]
             /\ s \in built \cup spoiled => w \in spoiled'
    <2>1. /\ start' = start /\ fetched' = fetched /\ phase' = phase /\ JobsKept
          /\ prog' = Other1(s, x)
      BY <1>4 DEF Continues, past_kept
    <2>2. trusted(s)' => Whole(s)'
      BY <1>2, <2>1, OtherKept
    <2>3. trusted(w)' => Whole(w)'
      BY <1>2, <1>4, <2>1, OtherChanged
    <2>4. trusted(w)' => trusted(s) /\ s \notin built
      BY <1>4 DEF trusted
    <2>5. trusted(w)' => /\ tags'[w] = fetched' /\ cache'[w] = fetched' /\ fetched' # None
                         /\ s \notin built'
      BY <1>2, <1>4, <2>1, <2>4 DEF Cached, Pulled, Quiet
    <2> QED
      BY <1>0, <1>2, <2>1, <2>2, <2>3, <2>5, OtherGoesOn DEF Quiet
  <1> QED
    BY <1>2, <1>3, <1>4

\* The copy is made: the name of the source is as it was.
LEMMA CopyDone ==
  ASSUME NEW w, NEW s, NEW x, OtherHere(w, s, x), phase' = phase, JobsKept, prog' = <<>>,
         \A n \in {w, s} : trusted(n)' => Whole(n)',
         trusted(w)' => tags'[w] = fetched' /\ cache'[w] = fetched' /\ fetched' # None,
         trusted(s)' => Ready(s)',
         trusted(w)' /\ trusted(s)' => tags'[s] = start'[s]
  PROVE  GoesOn(w, s, FALSE)
  <1>1. trusted(w)' => Ready(w)'
    BY DEF Ready
  <1>2. Cloned(w, s, FALSE)'
    BY DEF Cloned
  <1>3. Done(w, s, FALSE)'
    BY <1>1, <1>2 DEF Done
  <1> QED
    BY <1>3, OtherFacts DEF GoesOn, CloneInv, CloneWorks

LEMMA AtOther1 ==
  ASSUME NEW w, NEW s, NEW x, OtherHere(w, s, x), prog = Other1(s, x),
         trusted(w) => Copied(w, fetched),
         trusted(w) /\ trusted(s) => s \notin built
  PROVE  GoesOn(w, s, FALSE)
  <1>0. TRUE \in BOOLEAN
    OBVIOUS
  <1>1. Program(prog, <<"untag", s>>, Other0(s, x))
    <2>1. w \in Names /\ s \in Names /\ x \in BOOLEAN
      BY OtherFacts
    <2> QED
      BY <1>0, <2>1, OtherPrograms
  <1>2. /\ Quiet /\ spoiled \subseteq spoiled'
        /\ Keeps(w) /\ \A n \in {w, s} : KeepsBackup(n)
        /\ \/ Continues(Other0(s, x)) /\ tags'[s] = None /\ cache'[s] = None
           \/ Fails /\ Keeps(s)
    BY <1>1, OtherFacts, DoUntag
  <1>3. CASE Fails /\ Keeps(s)
    BY <1>2, <1>3, OtherFails
  <1>4. CASE Continues(Other0(s, x)) /\ tags'[s] = None /\ cache'[s] = None
    <2>1. /\ start' = start /\ fetched' = fetched /\ phase' = phase /\ JobsKept
          /\ prog' = Other0(s, x)
      BY <1>4 DEF Continues, past_kept
    <2>2. trusted(w)' => Whole(w)'
      BY <1>2, <2>1, OtherKept
    <2>3. trusted(s)' => Whole(s)'
      BY <1>2, <1>4, <2>1, OtherChanged DEF Gone
    <2>4. trusted(w)' => tags'[w] = fetched' /\ cache'[w] = fetched' /\ fetched' # None
      BY <1>2, <2>1, OtherFacts, KeptFacts
    <2>5. trusted(w)' /\ trusted(s)' => s \notin built'
      BY <1>2 DEF trusted, Quiet
    <2>6. CASE x = TRUE
      <3>1. trusted(s)' => Gone(s)'
        BY <1>4 DEF Gone
      <3>2. OtherHere(w, s, TRUE) /\ prog' = Other0(s, TRUE)
        BY <2>1, <2>6
      <3>3. \A n \in {w, s} : trusted(n)' => Whole(n)'
        BY <2>2, <2>3
      <3> QED
        BY <2>1, <3>3, <2>2, <2>3, <2>4, <2>5, <3>1, <3>2, OtherRestores
    <2>7. CASE x = FALSE
      <3>1. prog' = <<>>
        BY <2>1, <2>7 DEF Other0, when
      <3>2. trusted(s)' => Absent(s)
        BY <1>2, <2>7, OtherFacts DEF OtherHere
      <3>3. trusted(s)' => Ready(s)'
        BY <1>2, <1>4, <3>2 DEF Ready, Absent, Quiet, used
      <3>4. trusted(w)' /\ trusted(s)' => tags'[s] = start'[s]
        BY <1>2, <1>4, <2>1, <2>5, <3>2 DEF Absent, Quiet
      <3> QED
        BY <2>1, <2>2, <2>3, <2>4, <3>1, <3>3, <3>4, CopyDone
    <2>8. x = TRUE \/ x = FALSE
      BY DEF OtherHere
    <2> QED
      BY <2>6, <2>7, <2>8
  <1> QED
    BY <1>2, <1>3, <1>4

LEMMA AtOther0 ==
  ASSUME NEW w, NEW s, OtherHere(w, s, TRUE), prog = Other0(s, TRUE),
         trusted(w) => Copied(w, fetched)
  PROVE  GoesOn(w, s, FALSE)
  <1>0. TRUE \in BOOLEAN
    OBVIOUS
  <1>1. Program(prog, <<"tag", backup(s), s>>, <<>>)
    <2>1. w \in Names /\ s \in Names
      BY OtherFacts
    <2> QED
      BY <1>0, <2>1, OtherPrograms
  <1>2. /\ Quiet /\ spoiled \subseteq spoiled'
        /\ Keeps(w) /\ \A n \in {w, s} : KeepsBackup(n)
        /\ \/ /\ Continues(<<>>)
              /\ tags[backup(s)] # None /\ tags'[s] = tags[backup(s)]
              /\ cache'[s] = cache[backup(s)]
           \/ Fails /\ s \in spoiled'
    BY <1>1, OtherFacts, DoTag
  <1>3. CASE Fails /\ s \in spoiled'
    BY <1>2, <1>3, OtherFails DEF trusted
  <1>4. CASE /\ Continues(<<>>)
             /\ tags[backup(s)] # None /\ tags'[s] = tags[backup(s)]
             /\ cache'[s] = cache[backup(s)]
    <2>1. /\ start' = start /\ fetched' = fetched /\ phase' = phase /\ JobsKept
          /\ prog' = <<>>
      BY <1>4 DEF Continues, past_kept
    <2>2. trusted(w)' => Whole(w)'
      BY <1>2, <2>1, OtherKept
    <2>3. trusted(s)' => Whole(s)'
      BY <1>2, <1>4, <2>1, OtherChanged
    <2>4. trusted(w)' => tags'[w] = fetched' /\ cache'[w] = fetched' /\ fetched' # None
      BY <1>2, <2>1, OtherFacts, KeptFacts
    <2>5. trusted(s)' => Saved(s)
      BY <1>2, OtherFacts DEF Whole
    <2>6. trusted(s)' => Ready(s)' /\ tags'[s] = start'[s]
      BY <1>2, <1>4, <2>1, <2>5 DEF Saved, Ready, Quiet
    <2> QED
      BY <2>1, <2>2, <2>3, <2>4, <2>6, CopyDone
  <1> QED
    BY <1>2, <1>3, <1>4

\* The work of the clone begins: nothing is changed yet.
FirstHere(w, s, loc, x) ==
    /\ Acts(w, s, loc) /\ x \in BOOLEAN
    /\ \A n \in {w, s} : trusted(n) => Whole(n) /\ Intact(n)
    /\ trusted(s) /\ ~x => Absent(s)

LEMMA AtBody ==
  ASSUME NEW w, NEW s, NEW loc, NEW e \in BOOLEAN, NEW x, FirstHere(w, s, loc, x),
         ~(loc /\ w = s), prog = Body(w, s, loc, e, x)
  PROVE  GoesOn(w, s, loc)
  <1>0. loc \in BOOLEAN /\ x \in BOOLEAN
    BY ActsFacts DEF FirstHere
  <1>1. CASE loc = TRUE
    <2>1. prog = Local3(w, s) \/ prog = Local1(w, s)
      BY <1>1 DEF Body
    <2>2. Acts(w, s, TRUE) /\ w # s
      BY <1>1 DEF FirstHere
    <2> QED
      BY <1>1, <2>1, <2>2, AtLocal3, AtLocal1 DEF FirstHere
  <1>2. CASE loc = FALSE /\ w = s
    <2>1. prog = Same6(w) \/ prog = Same4(w)
      BY <1>2 DEF Body
    <2>2. UpdateHere(w) /\ (trusted(w) => Intact(w))
      BY <1>2 DEF FirstHere, UpdateHere
    <2>3. GoesOn(w, w, FALSE)
      BY <2>1, <2>2, AtSame6, AtSame4
    <2> QED
      BY <1>2, <2>3
  <1>3. CASE loc = FALSE /\ w # s
    <2>1. prog = Other9(w, s, e, x) \/ prog = Other8(w, s, e, x)
      BY <1>3 DEF Body
    <2>2. OtherHere(w, s, x) /\ (trusted(w) => Intact(w))
      BY <1>3 DEF FirstHere, OtherHere
    <2>3. GoesOn(w, s, FALSE)
      BY <2>1, <2>2, AtOther9, AtOther8
    <2> QED
      BY <1>3, <2>3
  <1> QED
    BY <1>0, <1>1, <1>2, <1>3

\* A check passes, or the clone stops there.
LEMMA FirstKept ==
  ASSUME NEW w, NEW s, NEW loc, NEW x, FirstHere(w, s, loc, x), spoiled' = spoiled,
         start' = start, UNCHANGED <<image, built>>,
         \A n \in {w, s} : Keeps(n) /\ KeepsBackup(n)
  PROVE  /\ \A n \in {w, s} : trusted(n)' => Whole(n)' /\ Intact(n)'
         /\ trusted(s)' /\ ~x => Absent(s)'
  <1>1. \A n \in {w, s} : trusted(n)' <=> trusted(n)
    BY DEF trusted
  <1>2. \A n \in {w, s} : trusted(n)' => Whole(n)' /\ Intact(n)'
    BY <1>1, KeptWhole DEF FirstHere
  <1>3. Absent(s) => Absent(s)'
    BY AbsentKept
  <1> QED
    BY <1>1, <1>2, <1>3 DEF FirstHere

LEMMA DeclinesGoOn ==
  ASSUME NEW w, NEW s, NEW loc, NEW x, FirstHere(w, s, loc, x), spoiled' = spoiled, Quiet,
         \A n \in {w, s} : Keeps(n) /\ KeepsBackup(n), Declines
  PROVE  GoesOn(w, s, loc)
  <1>1. \A n \in {w, s} : trusted(n)' => Whole(n)' /\ Intact(n)'
    BY FirstKept DEF Declines, past_kept, Quiet
  <1>2. CloneDeclined(w, s)'
    BY <1>1 DEF CloneDeclined, Declines
  <1> QED
    BY <1>2 DEF Declines, GoesOn, CloneInv

\* What is checked next
LEMMA NextCheck ==
  ASSUME NEW w, NEW s, NEW loc, NEW e \in BOOLEAN, NEW x, FirstHere(w, s, loc, x),
         ~(loc /\ w = s), spoiled' = spoiled, UNCHANGED <<image, built>>,
         \A n \in {w, s} : KeepsBackup(n) /\ (trusted(n) => Keeps(n)),
         NEW r, Continues(r),
         \/ e = TRUE /\ (r = Check2(w, s, loc, e, x) \/ r = Check1(w, s, loc, e, x))
         \/ r = Body(w, s, loc, e, x)
  PROVE  GoesOn(w, s, loc)
  <1>1. start' = start /\ prog' = r /\ phase' = "work" /\ JobsKept
    BY ActsFacts DEF FirstHere, Continues, past_kept
  <1>2. \A n \in {w, s} : trusted(n)' => Whole(n)' /\ Intact(n)'
    BY <1>1, KeptWhole DEF FirstHere, trusted
  <1>3. trusted(s)' /\ ~x => Absent(s)'
    BY <1>1, AbsentKept DEF FirstHere, trusted
  <1>4. Checking(w, s, loc, e, x)'
    BY <1>1, <1>2 DEF Checking
  <1>5. x \in BOOLEAN
    BY DEF FirstHere
  <1>6. CloneWorks(w, s, loc)'
    BY <1>3, <1>4, <1>5 DEF CloneWorks
  <1> QED
    BY <1>1, <1>6 DEF GoesOn, CloneInv

LEMMA AtRefuse ==
  ASSUME NEW w, NEW s, NEW loc, NEW x, FirstHere(w, s, loc, x),
         prog = << <<"refuse", w>> >>
  PROVE  GoesOn(w, s, loc)
  <1>1. w \in Names /\ s \in Names /\ loc \in BOOLEAN /\ TRUE \in BOOLEAN /\ x \in BOOLEAN /\ Running
    BY ActsFacts DEF FirstHere
  <1>2. Program(prog, <<"refuse", w>>, <<>>)
    BY <1>1, CheckPrograms
  <1>3. /\ Quiet /\ spoiled' = spoiled /\ \A n \in {w, s} : Keeps(n) /\ KeepsBackup(n)
        /\ Declines
    BY <1>1, <1>2, DoCheck
  <1> QED
    BY <1>3, DeclinesGoOn

LEMMA AtCheck ==
  ASSUME NEW w, NEW s, NEW loc, NEW e, NEW x, FirstHere(w, s, loc, x), e = TRUE,
         ~(loc /\ w = s),
         \/ prog = Check2(w, s, loc, e, x) \/ prog = Check1(w, s, loc, e, x)
  PROVE  GoesOn(w, s, loc)
  <1>1. w \in Names /\ s \in Names /\ loc \in BOOLEAN /\ x \in BOOLEAN /\ Running /\ e \in BOOLEAN
    BY ActsFacts DEF FirstHere
  <1>2. /\ Program(Check1(w, s, loc, e, x), <<"overwrite", w>>, Body(w, s, loc, e, x))
        /\ Program(Check2(w, s, loc, e, x), <<"compat", w>>, Check1(w, s, loc, e, x))
    BY <1>1, CheckPrograms
  <1>3. PICK op \in {"compat", "overwrite", "refuse"},
             r \in {Check1(w, s, loc, e, x), Body(w, s, loc, e, x)} :
            Program(prog, <<op, w>>, r)
    BY <1>2
  <1>4. /\ Quiet /\ spoiled' = spoiled /\ \A n \in {w, s} : Keeps(n) /\ KeepsBackup(n)
        /\ Continues(r) \/ Declines
    BY <1>1, <1>3, DoCheck
  <1>5. CASE Declines
    BY <1>4, <1>5, DeclinesGoOn
  <1>6. CASE Continues(r)
    <2>1. UNCHANGED <<image, built>>
      BY <1>4 DEF Quiet
    <2> QED
      BY <1>1, <1>3, <1>4, <1>6, <2>1, NextCheck
  <1> QED
    BY <1>4, <1>5, <1>6

LEMMA AtCheck3 ==
  ASSUME NEW w, NEW s, NEW loc, NEW e, NEW x, FirstHere(w, s, loc, x), e = TRUE,
         ~(loc /\ w = s), prog = Check3(w, s, loc, e, x)
  PROVE  GoesOn(w, s, loc)
  <1>1. /\ w \in Names /\ s \in Names /\ loc \in BOOLEAN /\ x \in BOOLEAN /\ Running
        /\ e \in BOOLEAN /\ Acts(w, s, loc)
    BY ActsFacts DEF FirstHere
  <1>2. Program(prog, <<"find", w>>, Check2(w, s, loc, e, x))
    BY <1>1, CheckPrograms
  <1>3. /\ UNCHANGED <<image, built>> /\ spoiled' = spoiled
        /\ \A n \in {w, s} : KeepsBackup(n) /\ (Firm(n) => Keeps(n))
        /\ Continues(Check2(w, s, loc, e, x)) \/ Fails
    BY <1>1, <1>2, DoFind
  <1>4. \A n \in {w, s} : trusted(n) => Whole(n) /\ Keeps(n)
    BY <1>3, GoodFirm DEF FirstHere, Intact
  <1>5. CASE Fails
    BY <1>1, <1>3, <1>4, <1>5, FailsKept DEF trusted
  <1>6. CASE Continues(Check2(w, s, loc, e, x))
    BY <1>1, <1>3, <1>4, <1>6, NextCheck
  <1> QED
    BY <1>3, <1>5, <1>6

LEMMA AtChecking ==
  ASSUME NEW w, NEW s, NEW loc, NEW e \in BOOLEAN, NEW x \in BOOLEAN, Acts(w, s, loc),
         Checking(w, s, loc, e, x), trusted(s) /\ ~x => Absent(s)
  PROVE  GoesOn(w, s, loc)
  <1>1. FirstHere(w, s, loc, x)
    BY DEF FirstHere, Checking
  <1>2. CASE prog = << <<"refuse", w>> >>
    BY <1>1, <1>2, AtRefuse
  <1>3. CASE ~(loc /\ w = s) /\ prog = Body(w, s, loc, e, x)
    BY <1>1, <1>3, AtBody
  <1>4. CASE e /\ ~(loc /\ w = s) /\ prog \in {Check3(w, s, loc, e, x), Check2(w, s, loc, e, x),
                                               Check1(w, s, loc, e, x)}
    <2>1. e = TRUE
      BY <1>4
    <2> QED
      BY <1>1, <1>4, <2>1, AtCheck3, AtCheck
  <1> QED
    BY <1>2, <1>3, <1>4 DEF Checking

-----------------------------------------------------------------------------
\* A backup is made.
SaveHere(w, s, loc, a, x) ==
    /\ Acts(w, s, loc) /\ x \in BOOLEAN /\ a \in {w, s} /\ tags[backup(a)] = None
    /\ \A n \in {w, s} : trusted(n) => Saved(n) /\ Intact(n)
    /\ trusted(a) => a \in store
    /\ trusted(s) /\ ~x => Absent(s)

LEMMA SaveEffect ==
  ASSUME NEW w, NEW s, NEW loc, NEW a, NEW x, SaveHere(w, s, loc, a, x),
         NEW r \in Seq(Steps), prog = cons(save(a), r)
  PROVE  \/ GoesOn(w, s, loc)
         \/ /\ Continues(r)
            /\ \A n \in {w, s} : /\ trusted(n)' => trusted(n) /\ Intact(n)' /\ Saved(n)'
                                 /\ n # a => KeepsBackup(n)
                                 /\ n \in store' <=> n \in store
            /\ trusted(a)' => Whole(a)'
            /\ \A n \in {w, s} : trusted(n)' /\ n # a /\ Safe(n) => Whole(n)'
            /\ trusted(s)' /\ ~x => Absent(s)'
  <1>1. /\ w \in Names /\ s \in Names /\ a \in Names /\ Running /\ Scene(w, s, loc)
        /\ phase = "work" /\ used \subseteq store
    BY ActsFacts DEF SaveHere
  <1>2. a \in AllNames /\ backup(a) \in AllNames /\ backup(a) \notin Names
    BY <1>1, NameFacts, TemporaryNames
  <1>3. Program(prog, <<"tag", a, backup(a)>>, r)
    BY <1>2, StepFacts, MoreSteps DEF save
  <1>4. /\ Quiet /\ spoiled \subseteq spoiled'
        /\ \A n \in {w, s} : /\ n # backup(a) => Keeps(n)
                             /\ backup(n) # backup(a) => KeepsBackup(n)
        /\ \/ /\ Continues(r)
              /\ tags[a] # None /\ tags'[backup(a)] = tags[a]
              /\ cache'[backup(a)] = cache[a]
           \/ Fails /\ (tags'[backup(a)] = tags[backup(a)] \/ tags'[backup(a)] = None)
    BY <1>1, <1>2, <1>3, DoTag
  <1>5. \A n \in {w, s} : Keeps(n) /\ (n # a => KeepsBackup(n))
    BY <1>1, <1>2, <1>4, NameFacts
  <1>6. \A n \in {w, s} : trusted(n)' => trusted(n) /\ Saved(n) /\ Intact(n)
    BY <1>4 DEF trusted, SaveHere
  <1>7. used' = used /\ store' = store /\ built' = built
    BY <1>4 DEF Quiet, used
  <1>8. \A n \in {w, s} : trusted(n)' => Sane(n)' /\ Good(n)'
    BY <1>5, <1>6, GoodFirm, KeptFacts DEF Intact
  <1>9. CASE Fails /\ (tags'[backup(a)] = tags[backup(a)] \/ tags'[backup(a)] = None)
    <2>1. start' = start
      BY <1>1, <1>9 DEF Fails, Scene, Restores, past_kept
    <2>2. tags'[backup(a)] = None /\ tags[backup(a)] = None
      BY <1>9 DEF SaveHere
    <2>3. ASSUME NEW n \in {w, s}, trusted(n)'
          PROVE  Restorable(n)'
      <3>1. Saved(n)'
        BY <1>5, <1>6, <2>1, <2>2, <2>3, KeptWhole DEF Saved
      <3>2. n \in used' => tags'[n] # None
        BY <1>1, <1>7, <1>8, <2>3 DEF Good
      <3> QED
        BY <1>8, <2>3, <3>1, <3>2 DEF Restorable
    <2>4. \A n \in {w, s} : tags'[backup(n)] = None <=> tags[backup(n)] = None
      BY <1>5, <2>2 DEF KeepsBackup
    <2> QED
      BY <1>1, <1>9, <2>3, <2>4, FailsGoOn
  <1>10. CASE /\ Continues(r)
              /\ tags[a] # None /\ tags'[backup(a)] = tags[a]
              /\ cache'[backup(a)] = cache[a]
    <2>1. start' = start
      BY <1>10 DEF Continues, past_kept
    <2>2. \A n \in {w, s} : trusted(n)' => Intact(n)'
      BY <1>5, <1>6, <2>1, KeptStart
    <2>3. ASSUME trusted(a)'
          PROVE  Saved(a)' /\ Safe(a)'
      <3>1. a \in {w, s} /\ a \in store /\ Good(a) /\ tags[a] = start[a]
        BY <1>6, <2>3 DEF SaveHere, Intact
      <3>2. cache[a] # None /\ (a \notin built => cache[a] = start[a])
        BY <1>10, <3>1 DEF Good
      <3> QED
        BY <1>7, <1>10, <2>1, <3>1, <3>2 DEF Saved, Safe
    <2>4. \A n \in {w, s} : trusted(n)' => Saved(n)'
      BY <1>5, <1>6, <2>1, <2>3, KeptWhole
    <2>5. trusted(a)' => Whole(a)'
      BY <1>8, <2>3 DEF Whole, SaveHere
    <2>6. \A n \in {w, s} : trusted(n)' /\ n # a /\ Safe(n) => Whole(n)'
      BY <1>5, <1>8, <2>1, <2>4, KeptBackup DEF Whole
    <2>7. trusted(s)' /\ ~x => Absent(s)'
      BY <1>4, <1>6, <2>1, AbsentKept DEF SaveHere, Quiet
    <2> QED
      BY <1>5, <1>6, <1>7, <1>10, <2>2, <2>4, <2>5, <2>6, <2>7
  <1> QED
    BY <1>4, <1>9, <1>10

LEMMA AtSaving ==
  ASSUME NEW w, NEW s, NEW loc, NEW e \in BOOLEAN, NEW x \in BOOLEAN, Acts(w, s, loc),
         Saving(w, s, loc, e, x), trusted(s) /\ ~x => Absent(s)
  PROVE  GoesOn(w, s, loc)
  <1>0. w \in Names /\ s \in Names /\ loc \in BOOLEAN /\ phase = "work"
    BY ActsFacts
  <1>1. PICK a \in {w, s} :
            /\ tags[backup(a)] = None
            /\ \/ /\ prog = cons(save(a), Work(w, s, loc, e, x))
                  /\ \A n \in {w, s} : trusted(n) => (n = a => n \in store) /\ (n # a => Safe(n))
               \/ \E b \in {w, s} :
                      /\ b # a /\ tags[backup(b)] = None
                      /\ prog = cons(save(a), cons(save(b), Work(w, s, loc, e, x)))
                      /\ \A n \in {w, s} : trusted(n) => n \in store
            /\ \A n \in {w, s} : trusted(n) => Saved(n) /\ Intact(n)
    BY DEF Saving
  <1>2. SaveHere(w, s, loc, a, x)
    BY <1>1 DEF SaveHere
  <1>3. Work(w, s, loc, e, x) \in Seq(Steps)
    BY <1>0, CheckPrograms
  <1>4. CASE /\ prog = cons(save(a), Work(w, s, loc, e, x))
             /\ \A n \in {w, s} : trusted(n) => (n = a => n \in store) /\ (n # a => Safe(n))
    <2>1. \/ GoesOn(w, s, loc)
          \/ /\ Continues(Work(w, s, loc, e, x))
             /\ \A n \in {w, s} : trusted(n)' => trusted(n) /\ Intact(n)'
             /\ trusted(a)' => Whole(a)'
             /\ \A n \in {w, s} : trusted(n)' /\ n # a /\ Safe(n) => Whole(n)'
             /\ trusted(s)' /\ ~x => Absent(s)'
      BY <1>2, <1>3, <1>4, SaveEffect
    <2>2. CASE /\ Continues(Work(w, s, loc, e, x))
               /\ \A n \in {w, s} : trusted(n)' => trusted(n) /\ Intact(n)'
               /\ trusted(a)' => Whole(a)'
               /\ \A n \in {w, s} : trusted(n)' /\ n # a /\ Safe(n) => Whole(n)'
               /\ trusted(s)' /\ ~x => Absent(s)'
      <3>1. \A n \in {w, s} : trusted(n)' => Whole(n)' /\ Intact(n)'
        BY <1>4, <2>2
      <3>2. prog' = Work(w, s, loc, e, x) /\ phase' = "work" /\ JobsKept
        BY <1>0, <2>2 DEF Continues
      <3>3. \/ loc /\ w = s /\ prog' = << <<"refuse", w>> >>
            \/ e /\ ~(loc /\ w = s) /\ prog' = Check3(w, s, loc, e, x)
            \/ ~(loc /\ w = s) /\ prog' = Body(w, s, loc, e, x)
        BY <3>2 DEF Work
      <3>4. Checking(w, s, loc, e, x)'
        BY <3>1, <3>3 DEF Checking
      <3>5. CloneWorks(w, s, loc)'
        BY <2>2, <3>4 DEF CloneWorks
      <3> QED
        BY <3>2, <3>5 DEF GoesOn, CloneInv
    <2> QED
      BY <2>1, <2>2
  <1>5. ASSUME NEW b \in {w, s}, b # a, tags[backup(b)] = None,
               prog = cons(save(a), cons(save(b), Work(w, s, loc, e, x))),
               \A n \in {w, s} : trusted(n) => n \in store
        PROVE  GoesOn(w, s, loc)
    <2> DEFINE r == cons(save(b), Work(w, s, loc, e, x))
    <2>0. r \in Seq(Steps)
      <3>1. save(b) \in Steps
        BY <1>0, NameFacts, StepFacts DEF save
      <3> QED
        BY <1>3, <3>1, ConsFacts
    <2>1. \/ GoesOn(w, s, loc)
          \/ /\ Continues(r)
             /\ \A n \in {w, s} : /\ trusted(n)' => trusted(n) /\ Intact(n)' /\ Saved(n)'
                                  /\ n # a => KeepsBackup(n)
                                  /\ n \in store' <=> n \in store
             /\ trusted(a)' => Whole(a)'
             /\ trusted(s)' /\ ~x => Absent(s)'
      <3> HIDE DEF r
      <3>1. prog = cons(save(a), r)
        BY <1>5 DEF r
      <3> QED
        BY <1>2, <2>0, <3>1, SaveEffect
    <2>2. CASE /\ Continues(r)
               /\ \A n \in {w, s} : /\ trusted(n)' => trusted(n) /\ Intact(n)' /\ Saved(n)'
                                    /\ n # a => KeepsBackup(n)
                                    /\ n \in store' <=> n \in store
               /\ trusted(a)' => Whole(a)'
               /\ trusted(s)' /\ ~x => Absent(s)'
      <3>1. prog' = cons(save(b), Work(w, s, loc, e, x)) /\ phase' = "work" /\ JobsKept
        BY <1>0, <2>2 DEF Continues
      <3>2. tags'[backup(b)] = None
        BY <1>5, <2>2 DEF KeepsBackup
      <3>3. \A n \in {w, s} : trusted(n)' => /\ n = b => n \in store'
                                             /\ n # b => Safe(n)'
        <4>1. \A n \in {w, s} : n = a \/ n = b
          BY <1>5
        <4> QED
          BY <1>5, <2>2, <4>1 DEF Whole
      <3>4. Saving(w, s, loc, e, x)'
        BY <2>2, <3>1, <3>2, <3>3 DEF Saving
      <3>5. CloneWorks(w, s, loc)'
        BY <2>2, <3>4 DEF CloneWorks
      <3> QED
        BY <3>1, <3>5 DEF GoesOn, CloneInv
    <2> QED
      BY <2>1, <2>2
  <1> QED
    BY <1>1, <1>4, <1>5

-----------------------------------------------------------------------------
\* The program that removes the backups
LEMMA OrderRange ==
  ASSUME NEW w \in Names, NEW s \in Names, job.ws = w, job.src = s, NEW order \in orders(job)
  PROVE  LET p == forget(order) \o << <<"resync", w>> >> IN
         /\ p \in Seq(Steps) /\ p # <<>> /\ p[Len(p)] = <<"resync", w>>
         /\ \A i \in 1..(Len(p) - 1) :
                \E n \in {w, s} : p[i] = <<"untag", backup(n)>> /\ tags[backup(n)] # None
         /\ \A i, k \in 1..(Len(p) - 1) : p[i] = p[k] => i = k
  <1> DEFINE f == forget(order)
             l == << <<"resync", w>> >>
             p == f \o l
  <1>1. PICK k \in 0..2 :
            /\ order \in [1..k -> {w, s}]
            /\ \A i, m \in 1..k : order[i] = order[m] => i = m
            /\ \A i \in 1..k : tags[backup(order[i])] # None
    BY OrderFacts
  <1>2. /\ w \in AllNames /\ backup(w) \in AllNames /\ backup(s) \in AllNames
        /\ \A n, m \in {w, s} : backup(n) = backup(m) => n = m
    BY NameFacts
  <1>3. DOMAIN order = 1..k /\ k \in Nat
    BY <1>1
  <1>4. \A n \in {w, s} : <<"untag", backup(n)>> \in Steps
    BY <1>2, StepFacts DEF Ops
  <1>5. f \in [1..k -> Steps] /\ \A i \in 1..k : f[i] = <<"untag", backup(order[i])>>
    BY <1>1, <1>3, <1>4 DEF forget
  <1>6. f \in Seq(Steps) /\ Len(f) = k
    BY <1>3, <1>5
  <1>7. l \in Seq(Steps) /\ Len(l) = 1 /\ l[1] = <<"resync", w>>
    <2>1. <<"resync", w>> \in Steps
      BY <1>2, StepFacts DEF Ops
    <2> QED
      BY <2>1
  <1> HIDE DEF f, l
  <1>8. /\ p \in Seq(Steps) /\ Len(p) = Len(f) + Len(l)
        /\ \A i \in 1..Len(f) : p[i] = f[i]
        /\ \A i \in 1..Len(l) : p[Len(f) + i] = l[i]
    <2>1. f \in Seq(Steps) /\ l \in Seq(Steps)
      BY <1>6, <1>7
    <2> QED
      BY <2>1, Concatenation
  <1> HIDE DEF p
  <1>9. Len(p) = k + 1 /\ Len(p) - 1 = k /\ p[k + 1] = <<"resync", w>>
    BY <1>3, <1>6, <1>7, <1>8
  <1>10. \A i \in 1..k : order[i] \in {w, s} /\ p[i] = <<"untag", backup(order[i])>>
    BY <1>1, <1>5, <1>6, <1>8
  <1>11. \A i, m \in 1..k : p[i] = p[m] => i = m
    <2> SUFFICES ASSUME NEW i \in 1..k, NEW m \in 1..k, p[i] = p[m]
                 PROVE  i = m
      OBVIOUS
    <2>1. backup(order[i]) = backup(order[m])
      BY <1>10
    <2> QED
      BY <1>1, <1>2, <1>10, <2>1
  <1>12. p # <<>>
    BY <1>3, <1>9
  <1>13. /\ p \in Seq(Steps) /\ p # <<>> /\ p[Len(p)] = <<"resync", w>>
         /\ \A i \in 1..(Len(p) - 1) :
                \E n \in {w, s} : p[i] = <<"untag", backup(n)>> /\ tags[backup(n)] # None
         /\ \A i, m \in 1..(Len(p) - 1) : p[i] = p[m] => i = m
    BY <1>1, <1>8, <1>9, <1>10, <1>11, <1>12
  <1> QED
    BY <1>13 DEF p, f, l

\* A program ends.
LEMMA WorkingDone ==
  ASSUME Running, prog = <<>>
  PROVE  /\ Quiet /\ Same /\ Arrays' /\ spoiled' = spoiled
         /\ \A n \in Names : Keeps(n) /\ KeepsBackup(n)
         /\ \/ /\ job.kind = "clone" /\ phase \in {"work", "declined"}
               /\ JobsKept /\ past_kept
               /\ \E order \in orders(job) : prog' = forget(order) \o << <<"resync", job.ws>> >>
               /\ phase' = IF phase = "work" THEN "forget" ELSE "decline"
            \/ /\ Ends
               /\ job.kind = "clone" => phase \in {"restore", "forget", "decline"}
  <1>1. IInv /\ jobs # <<>> /\ Arrays
    BY RunningFacts
  <1>2. WorkDone \/ CleanupDone
    BY WorkingSteps DEF Running
  <1>3. Quiet /\ Same /\ spoiled' = spoiled
    BY <1>2 DEF WorkDone, CleanupDone, podman, others, Quiet, Same
  <1>4. Arrays'
    BY <1>1, <1>3 DEF Arrays, Same
  <1>5. \A n \in Names : Keeps(n) /\ KeepsBackup(n)
    BY <1>3, QuietKeeps DEF Same
  <1>6. (ends(jobs) => Ends) /\ (jobs' = jobs => JobsKept)
    BY <1>1, LikeItself, Outcomes
  <1>7. CASE WorkDone
    <2>1. \/ /\ job.kind = "clone" /\ phase \in {"work", "declined"}
             /\ jobs' = jobs /\ past_kept
             /\ \E order \in orders(job) : prog' = forget(order) \o << <<"resync", job.ws>> >>
             /\ phase' = IF phase = "work" THEN "forget" ELSE "decline"
          \/ job.kind # "clone" /\ ends(jobs)
      BY <1>7 DEF WorkDone, past, past_kept
    <2> QED
      BY <1>3, <1>4, <1>5, <1>6, <2>1
  <1>8. CASE CleanupDone
    <2>1. ends(jobs) /\ phase \in {"restore", "forget", "decline"}
      BY <1>8 DEF CleanupDone
    <2> QED
      BY <1>3, <1>4, <1>5, <1>6, <2>1
  <1> QED
    BY <1>2, <1>7, <1>8

\* The work of a clone ends: its backups will be removed.
LEMMA AtEndOfWork ==
  ASSUME NEW w, NEW s, NEW loc, Scene(w, s, loc), Running, prog = <<>>,
         \/ phase = "work" /\ Cloned(w, s, loc)
         \/ phase = "declined" /\ \A n \in {w, s} : trusted(n) => tags[n] = start[n],
         \A n \in {w, s} : trusted(n) => Ready(n)
  PROVE  GoesOn(w, s, loc)
  <1>1. /\ w \in Names /\ s \in Names /\ job.kind = "clone" /\ job.ws = w /\ job.src = s
    BY DEF Scene
  <1>2. /\ Same /\ spoiled' = spoiled /\ \A n \in {w, s} : Keeps(n)
        /\ JobsKept /\ past_kept
        /\ phase' = IF phase = "work" THEN "forget" ELSE "decline"
    BY <1>1, WorkingDone
  <1>3. PICK order \in orders(job) : prog' = forget(order) \o << <<"resync", w>> >>
    BY <1>1, WorkingDone
  <1>4. /\ prog' # <<>> /\ prog'[Len(prog')] = <<"resync", w>>
        /\ \A i \in 1..(Len(prog') - 1) :
               \E n \in {w, s} : prog'[i] = <<"untag", backup(n)>> /\ tags'[backup(n)] # None
        /\ \A i, k \in 1..(Len(prog') - 1) : prog'[i] = prog'[k] => i = k
    <2>1. tags' = tags
      BY <1>2 DEF Same
    <2> QED
      BY <1>1, <1>3, <2>1, OrderRange
  <1>5. \A n \in {w, s} : trusted(n)' => trusted(n) /\ Ready(n)'
    BY <1>2, KeptFacts DEF trusted
  <1>6. Cleaning(w, s)'
    BY <1>4, <1>5 DEF Cleaning
  <1>7. CASE phase = "work" /\ Cloned(w, s, loc)
    <2>1. Cloned(w, s, loc)'
      BY <1>2, <1>5, <1>7 DEF Cloned, Same, past_kept
    <2> QED
      BY <1>2, <1>6, <1>7, <2>1 DEF GoesOn, CloneInv
  <1>8. CASE phase = "declined" /\ \A n \in {w, s} : trusted(n) => tags[n] = start[n]
    <2>1. \A n \in {w, s} : trusted(n)' => tags'[n] = start'[n]
      BY <1>2, <1>5, <1>8 DEF Same, past_kept
    <2> QED
      BY <1>2, <1>6, <1>8, <2>1 DEF GoesOn, CloneInv
  <1> QED
    BY <1>7, <1>8

LEMMA AtDeclined ==
  ASSUME NEW w, NEW s, NEW loc, Scene(w, s, loc), Running, phase = "declined",
         CloneDeclined(w, s)
  PROVE  GoesOn(w, s, loc)
  <1>1. \A n \in {w, s} : trusted(n) => Ready(n) /\ tags[n] = start[n]
    BY GoodReady DEF CloneDeclined, Intact, Scene
  <1> QED
    BY <1>1, AtEndOfWork DEF CloneDeclined

\* Each step of the work of a clone
LEMMA AtCopyingOther ==
  ASSUME NEW w, NEW s, NEW e \in BOOLEAN, NEW x \in BOOLEAN, Acts(w, s, FALSE), w # s,
         CopyingOther(w, s, e, x)
  PROVE  GoesOn(w, s, FALSE)
  <1>1. OtherHere(w, s, x)
    BY DEF OtherHere, CopyingOther
  <1>2. CASE prog = Other8(w, s, e, x) /\ (trusted(w) => Intact(w))
    BY <1>1, <1>2, AtOther8
  <1>3. CASE /\ prog = Other7(w, s, e, x) \/ prog = Other6(w, s, e, x)
             /\ (trusted(w) => Intact(w)) /\ (trusted(s) => Pulled(s))
    BY <1>1, <1>3, AtOther7, AtOther6
  <1>4. CASE /\ prog = Other5(w, s, e, x)
             /\ (trusted(w) => Intact(w)) /\ (trusted(s) => Cached(s))
    BY <1>1, <1>4, AtOther5
  <1>5. CASE /\ prog = Other4(w, s, x) \/ prog = Other3(w, s, x) \/ prog = Other2(w, s, x)
             /\ trusted(s) => Cached(s)
    BY <1>1, <1>5, AtOther4, AtOther3, AtOther2
  <1>6. CASE /\ prog = Other1(s, x) \/ (x /\ prog = Other0(s, x))
             /\ trusted(w) => Copied(w, fetched)
             /\ trusted(w) /\ trusted(s) => s \notin built
    <2>1. CASE prog = Other1(s, x)
      BY <1>1, <1>6, <2>1, AtOther1
    <2>2. CASE x /\ prog = Other0(s, x)
      <3>1. x = TRUE
        BY <2>2
      <3>2. OtherHere(w, s, TRUE) /\ prog = Other0(s, TRUE)
        BY <1>1, <2>2, <3>1
      <3> QED
        BY <1>6, <3>2, AtOther0
    <2> QED
      BY <1>6, <2>1, <2>2
  <1> QED
    BY <1>2, <1>3, <1>4, <1>5, <1>6 DEF CopyingOther

LEMMA AtWork ==
  ASSUME NEW w, NEW s, NEW loc, Acts(w, s, loc), CloneWorks(w, s, loc)
  PROVE  GoesOn(w, s, loc)
  <1>0. /\ loc \in BOOLEAN /\ Scene(w, s, loc) /\ Running /\ phase = "work"
    BY ActsFacts
  <1>1. ASSUME NEW e \in BOOLEAN, NEW x \in BOOLEAN, Saving(w, s, loc, e, x),
               trusted(s) /\ ~x => Absent(s)
        PROVE  GoesOn(w, s, loc)
    BY <1>1, AtSaving
  <1>2. ASSUME NEW e \in BOOLEAN, NEW x \in BOOLEAN, Checking(w, s, loc, e, x),
               trusted(s) /\ ~x => Absent(s)
        PROVE  GoesOn(w, s, loc)
    BY <1>2, AtChecking
  <1>3. ASSUME NEW e \in BOOLEAN, NEW x \in BOOLEAN, ~loc, w # s, CopyingOther(w, s, e, x)
        PROVE  GoesOn(w, s, loc)
    <2>1. loc = FALSE
      BY <1>0, <1>3
    <2>2. Acts(w, s, FALSE)
      BY <2>1
    <2>3. GoesOn(w, s, FALSE)
      BY <1>3, <2>2, AtCopyingOther
    <2> QED
      BY <2>1, <2>3
  <1>4. CASE loc /\ w # s /\ CopyingLocal(w, s)
    <2>1. loc = TRUE
      BY <1>0, <1>4
    <2>2. Acts(w, s, TRUE)
      BY <2>1
    <2>3. GoesOn(w, s, TRUE)
      BY <1>4, <2>2, AtLocal2, AtLocal1 DEF CopyingLocal
    <2> QED
      BY <2>1, <2>3
  <1>5. CASE ~loc /\ w = s /\ Updating(w)
    <2>1. loc = FALSE
      BY <1>0, <1>5
    <2>2. UpdateHere(w)
      BY <1>5, <2>1 DEF UpdateHere, Updating
    <2>3. GoesOn(w, w, FALSE)
      BY <1>5, <2>2, AtSame5, AtSame4, AtSame3, AtSame2, AtSame1 DEF Updating
    <2> QED
      BY <1>5, <2>1, <2>3
  <1>6. CASE Done(w, s, loc)
    BY <1>0, <1>6, AtEndOfWork DEF Done
  <1> QED
    BY <1>1, <1>2, <1>3, <1>4, <1>5, <1>6 DEF CloneWorks

\* The job ends, and no job works on its names, but for those that the next one works on.
EndsWell(w, s) == Ends /\ \A n \in {w, s} : trusted(n)' => Good(n)'

Stays == phase' = phase /\ JobsKept /\ past_kept

LEMMA TailFacts ==
  ASSUME NEW S, NEW p \in Seq(S), p # <<>>
  PROVE  /\ Tail(p) \in Seq(S) /\ Len(p) \in Nat /\ Len(p) >= 1 /\ Len(Tail(p)) = Len(p) - 1
         /\ Head(p) = p[1] /\ p[1] \in S
         /\ \A i \in 1..(Len(p) - 1) : Tail(p)[i] = p[i + 1]
  OBVIOUS

LEMMA NoStep ==
  ASSUME NEW S, NEW q \in Seq(S), Len(q) = 0
  PROVE  q = <<>>
  OBVIOUS

LEMMA HeadProgram ==
  ASSUME Running, prog # <<>>
  PROVE  /\ Program(prog, prog[1], Tail(prog))
         /\ prog \in Seq(Steps) /\ Tail(prog) \in Seq(Steps)
         /\ Len(prog) \in Nat /\ Len(prog) >= 1 /\ Len(Tail(prog)) = Len(prog) - 1
         /\ \A i \in 1..(Len(prog) - 1) : Tail(prog)[i] = prog[i + 1]
  <1>1. prog \in Seq(Steps)
    BY DEF Running, CatalogTyped
  <1> QED
    BY <1>1, TailFacts DEF Program

LEMMA ReadyGood ==
  ASSUME NEW n, Ready(n), Same, built' = built, n \in store' <=> cache[n] # None
  PROVE  Good(n)'
  BY DEF Ready, Same, Good

\* The last update of the store by a clone
LEMMA LastUpdate ==
  ASSUME NEW w, NEW s, NEW loc, Scene(w, s, loc), Running, phase \in {"forget", "decline"},
         prog # <<>>, Len(prog) = 1, prog[Len(prog)] = <<"resync", w>>,
         \A n \in {w, s} : trusted(n) => Ready(n)
  PROVE  \/ /\ Stays /\ prog' = <<>> /\ Cleaning(w, s)'
            /\ \A n \in {w, s} : /\ tags'[n] = tags[n]
                                 /\ trusted(n)' => trusted(n)
         \/ EndsWell(w, s)
  <1>0. w \in Names /\ s \in Names /\ ~(job.kind = "clone" /\ phase = "work")
    BY DEF Scene
  <1>1. Program(prog, <<"resync", w>>, Tail(prog)) /\ Tail(prog) = <<>>
    <2>1. /\ Program(prog, prog[1], Tail(prog)) /\ Tail(prog) \in Seq(Steps)
          /\ Len(Tail(prog)) = Len(prog) - 1
      BY HeadProgram
    <2>2. Len(Tail(prog)) = 0
      BY <2>1
    <2>3. Tail(prog) = <<>>
      BY <2>1, <2>2, NoStep
    <2> QED
      BY <2>1, <2>3
  <1>2. /\ Same /\ built' = built /\ spoiled \subseteq spoiled'
        /\ \A n \in {w, s} : trusted(n)' => (n \in store' <=> cache[n] # None)
        /\ Continues(<<>>) \/ Fails
    BY <1>0, <1>1, DoResync
  <1>3. \A n \in {w, s} : trusted(n)' => trusted(n) /\ Good(n)'
    BY <1>2, ReadyGood DEF trusted
  <1>4. CASE Fails
    BY <1>0, <1>3, <1>4 DEF Fails, EndsWell
  <1>5. CASE Continues(<<>>)
    <2>1. Cleaning(w, s)'
      BY <1>3, <1>5 DEF Continues, Cleaning
    <2> QED
      BY <1>2, <1>3, <1>5, <2>1 DEF Continues, Stays, Same
  <1> QED
    BY <1>2, <1>4, <1>5

\* A backup is removed.
LEMMA BackupRemoved ==
  ASSUME NEW w, NEW s, NEW loc, Scene(w, s, loc), Running, phase \in {"forget", "decline"},
         prog # <<>>, Len(prog) # 1, prog[Len(prog)] = <<"resync", w>>,
         \A i \in 1..(Len(prog) - 1) :
             \E n \in {w, s} : prog[i] = <<"untag", backup(n)>> /\ tags[backup(n)] # None,
         \A i, k \in 1..(Len(prog) - 1) : prog[i] = prog[k] => i = k,
         \A n \in {w, s} : trusted(n) => Ready(n)
  PROVE  /\ Stays /\ Cleaning(w, s)'
         /\ \A n \in {w, s} : /\ tags'[n] = tags[n]
                              /\ trusted(n)' => trusted(n)
  <1>0. w \in Names /\ s \in Names
    BY DEF Scene
  <1>1. /\ Program(prog, prog[1], Tail(prog)) /\ prog \in Seq(Steps)
        /\ Len(prog) \in Nat /\ Len(prog) >= 2 /\ Len(Tail(prog)) = Len(prog) - 1
        /\ \A i \in 1..(Len(prog) - 1) : Tail(prog)[i] = prog[i + 1]
    BY HeadProgram
  <1>2. 1 \in 1..(Len(prog) - 1)
    BY <1>1
  <1>3. PICK m \in {w, s} : prog[1] = <<"untag", backup(m)>> /\ tags[backup(m)] # None
    BY <1>2
  <1>4. /\ backup(m) \in AllNames
        /\ \A n \in {w, s} : n # backup(m) /\ (backup(n) = backup(m) => n = m)
    BY <1>0, NameFacts
  <1>5. /\ spoiled \subseteq spoiled'
        /\ \A n \in {w, s} : Keeps(n) /\ (n # m => KeepsBackup(n))
        /\ Continues(Tail(prog))
    <2>1. Program(prog, <<"untag", backup(m)>>, Tail(prog))
      BY <1>1, <1>3
    <2> QED
      BY <1>0, <1>3, <1>4, <2>1, DoUntag
  <1>6. \A n \in {w, s} : /\ tags'[n] = tags[n]
                          /\ trusted(n)' => trusted(n) /\ Ready(n)'
    BY <1>5, KeptFacts DEF trusted, Keeps
  <1> DEFINE q == Tail(prog)
  <1>7. /\ Len(q) \in Nat /\ Len(q) >= 1 /\ Len(q) + 1 = Len(prog)
        /\ \A i \in 1..Len(q) : i + 1 \in 1..Len(prog) /\ q[i] = prog[i + 1]
        /\ \A i \in 1..(Len(q) - 1) : i + 1 \in 1..(Len(prog) - 1) /\ i + 1 # 1
    BY <1>1
  <1> HIDE DEF q
  <1>8. q # <<>> /\ q[Len(q)] = <<"resync", w>>
    <2>1. Len(q) \in 1..Len(q)
      BY <1>7
    <2>2. q[Len(q)] = prog[Len(prog)]
      BY <1>7, <2>1
    <2>3. q # <<>>
      BY <1>7
    <2> QED
      BY <2>2, <2>3
  <1>9. ASSUME NEW i \in 1..(Len(q) - 1)
        PROVE  \E n \in {w, s} : q[i] = <<"untag", backup(n)>> /\ tags'[backup(n)] # None
    <2>1. i + 1 \in 1..(Len(prog) - 1) /\ i + 1 # 1 /\ q[i] = prog[i + 1]
      BY <1>7
    <2>2. PICK n \in {w, s} : prog[i + 1] = <<"untag", backup(n)>> /\ tags[backup(n)] # None
      BY <2>1
    <2>3. n # m
      BY <1>2, <1>3, <2>1, <2>2
    <2>4. tags'[backup(n)] # None
      BY <1>5, <2>2, <2>3 DEF KeepsBackup
    <2> QED
      BY <2>1, <2>2, <2>4
  <1>10. ASSUME NEW i \in 1..(Len(q) - 1), NEW k \in 1..(Len(q) - 1), q[i] = q[k]
         PROVE  i = k
    <2>1. /\ i + 1 \in 1..(Len(prog) - 1) /\ q[i] = prog[i + 1]
          /\ k + 1 \in 1..(Len(prog) - 1) /\ q[k] = prog[k + 1]
      BY <1>7
    <2>2. i + 1 = k + 1
      BY <1>10, <2>1
    <2> QED
      BY <1>7, <2>2
  <1>11. prog' = q
    BY <1>5 DEF Continues, q
  <1>12. Cleaning(w, s)'
    BY <1>6, <1>8, <1>9, <1>10, <1>11 DEF Cleaning
  <1> QED
    BY <1>5, <1>6, <1>12 DEF Continues, Stays

LEMMA AtCleaning ==
  ASSUME NEW w, NEW s, NEW loc, Scene(w, s, loc), Running,
         \/ phase = "forget" /\ Cleaning(w, s) /\ Cloned(w, s, loc)
         \/ phase = "decline" /\ Cleaning(w, s)
              /\ \A n \in {w, s} : trusted(n) => tags[n] = start[n]
  PROVE  GoesOn(w, s, loc) \/ EndsWell(w, s)
  <1>0. phase \in {"forget", "decline"} /\ w \in Names /\ s \in Names /\ job.kind = "clone"
    BY DEF Scene
  <1>1. CASE prog = <<>> /\ \A n \in {w, s} : trusted(n) => Good(n)
    <2>1. Ends /\ spoiled' = spoiled /\ \A n \in {w, s} : Keeps(n)
      BY <1>0, <1>1, WorkingDone
    <2> QED
      BY <1>1, <2>1, KeptFacts DEF EndsWell, trusted
  <1>2. CASE prog # <<>> /\ ~EndsWell(w, s)
    <2>1. /\ Stays /\ Cleaning(w, s)'
          /\ \A n \in {w, s} : /\ tags'[n] = tags[n]
                               /\ trusted(n)' => trusted(n)
      <3>1. /\ prog[Len(prog)] = <<"resync", w>>
            /\ \A i \in 1..(Len(prog) - 1) :
                   \E n \in {w, s} : prog[i] = <<"untag", backup(n)>> /\ tags[backup(n)] # None
            /\ \A i, k \in 1..(Len(prog) - 1) : prog[i] = prog[k] => i = k
            /\ \A n \in {w, s} : trusted(n) => Ready(n)
        BY <1>2 DEF Cleaning
      <3>2. CASE Len(prog) = 1
        BY <1>0, <1>2, <3>1, <3>2, LastUpdate
      <3>3. CASE Len(prog) # 1
        BY <1>0, <1>2, <3>1, <3>3, BackupRemoved
      <3> QED
        BY <3>2, <3>3
    <2>2. start' = start /\ fetched' = fetched /\ phase' = phase /\ JobsKept
      BY <2>1 DEF Stays, past_kept
    <2>3. CASE phase = "forget" /\ Cloned(w, s, loc)
      <3>1. Cloned(w, s, loc)'
        BY <2>1, <2>2, <2>3 DEF Cloned
      <3> QED
        BY <2>1, <2>2, <2>3, <3>1 DEF GoesOn, CloneInv
    <2>4. CASE phase = "decline" /\ \A n \in {w, s} : trusted(n) => tags[n] = start[n]
      BY <2>1, <2>2, <2>4 DEF GoesOn, CloneInv
    <2> QED
      BY <2>3, <2>4
  <1> QED
    BY <1>1, <1>2 DEF Cleaning

\* The cleaner of a clone restores what was there.
RestoreHere(w, s, loc) ==
    /\ Scene(w, s, loc) /\ Running /\ phase = "restore" /\ Restoring(w, s) /\ prog # <<>>

LEMMA RestoreNames ==
  /\ \A n, m : /\ drop(n) = drop(m) => n = m
               /\ back(n) = back(m) => n = m
               /\ drop(n) # back(m) /\ drop(n) # lose(m) /\ back(n) # lose(m)
               /\ drop(n)[1] = "drop" /\ back(n)[1] = "tag" /\ lose(n)[1] = "untag"
  /\ \A n, m \in Names : lose(n) = lose(m) => n = m
  BY NameFacts DEF drop, back, lose

LEMMA RestoreFacts ==
  ASSUME NEW w, NEW s, NEW loc, RestoreHere(w, s, loc)
  PROVE  /\ w \in Names /\ s \in Names /\ Running /\ Scene(w, s, loc) /\ used \subseteq store
         /\ job.ws = w /\ job.src = s /\ phase = "restore"
         /\ Fails => Ends
         /\ Program(prog, prog[1], Tail(prog))
         /\ \A x : prog[1] = x => pending(x)
         /\ \E a \in {w, s} : prog[1] \in {drop(a), back(a), lose(a)}
         /\ \A n \in {w, s} : n \in AllNames /\ backup(n) \in AllNames
         /\ \A n, m \in {w, s} : n # backup(m) /\ (backup(n) = backup(m) => n = m)
  <1>1. /\ w \in Names /\ s \in Names /\ Running /\ Scene(w, s, loc) /\ used \subseteq store
        /\ job.ws = w /\ job.src = s /\ phase = "restore"
        /\ Fails => Ends
    BY DEF RestoreHere, Scene, Fails
  <1>2. Program(prog, prog[1], Tail(prog)) /\ 1 \in 1..Len(prog)
    <2>1. Program(prog, prog[1], Tail(prog)) /\ Len(prog) \in Nat /\ Len(prog) >= 1
      BY HeadProgram DEF RestoreHere
    <2> QED
      BY <2>1
  <1>3. \A x : prog[1] = x => pending(x)
    BY <1>2 DEF pending
  <1>4. \E a \in {w, s} : prog[1] \in {drop(a), back(a), lose(a)}
    BY <1>2 DEF RestoreHere, Restoring, Ordered
  <1>5. /\ \A n \in {w, s} : n \in AllNames /\ backup(n) \in AllNames
        /\ \A n, m \in {w, s} : n # backup(m) /\ (backup(n) = backup(m) => n = m)
    BY <1>1, NameFacts
  <1> QED
    BY <1>1, <1>2, <1>3, <1>4, <1>5

\* What is left after the first step
LEMMA RestLeft ==
  ASSUME NEW w, NEW s, NEW loc, RestoreHere(w, s, loc), prog' = Tail(prog)
  PROVE  /\ Ordered(w, s)'
         /\ \A x : pending(x) <=> prog[1] = x \/ pending(x)'
         /\ \A n : prog[1] = back(n) => ~pending(back(n))'
         /\ \A n : prog[1] = lose(n) => ~pending(lose(n))'
         /\ prog[1][1] = "tag" => \A n : ~pending(drop(n))
         /\ prog[1][1] = "untag" => \A n : ~pending(drop(n)) /\ ~pending(back(n))
  <1> DEFINE q == Tail(prog)
  <1>1. /\ Len(prog) \in Nat /\ Len(prog) >= 1 /\ Len(q) = Len(prog) - 1
        /\ \A i \in 1..(Len(prog) - 1) : q[i] = prog[i + 1]
    BY HeadProgram DEF RestoreHere
  <1>2. Ordered(w, s)
    BY DEF RestoreHere, Restoring
  <1> HIDE DEF q
  <1>3. /\ 1 \in 1..Len(prog) /\ Len(q) \in Nat
        /\ \A i \in 1..Len(q) : q[i] = prog[i + 1] /\ i + 1 \in 1..Len(prog) /\ 1 < i + 1
        /\ \A i, k \in 1..Len(q) : i < k => i + 1 < k + 1
        /\ \A i \in 1..Len(prog) : i # 1 => i - 1 \in 1..Len(q) /\ prog[i] = q[i - 1]
    BY <1>1
  <1>4. prog' = q
    BY DEF q
  <1>5. Ordered(w, s)'
    <2>1. \A i \in 1..Len(q) : \E n \in {w, s} : q[i] \in {drop(n), back(n), lose(n)}
      BY <1>2, <1>3 DEF Ordered
    <2>2. \A i, k \in 1..Len(q) :
              i < k => /\ q[i][1] = "tag" => q[k][1] # "drop"
                       /\ q[i][1] = "untag" => q[k][1] = "untag"
                       /\ q[i] = q[k] => q[i][1] = "drop"
      <3> SUFFICES ASSUME NEW i \in 1..Len(q), NEW k \in 1..Len(q), i < k
                   PROVE  /\ q[i][1] = "tag" => q[k][1] # "drop"
                          /\ q[i][1] = "untag" => q[k][1] = "untag"
                          /\ q[i] = q[k] => q[i][1] = "drop"
        OBVIOUS
      <3>1. /\ q[i] = prog[i + 1] /\ q[k] = prog[k + 1]
            /\ i + 1 \in 1..Len(prog) /\ k + 1 \in 1..Len(prog) /\ i + 1 < k + 1
        BY <1>3
      <3> QED
        BY <1>2, <3>1 DEF Ordered
    <2> QED
      BY <1>4, <2>1, <2>2 DEF Ordered
  <1>6. \A x : pending(x) <=> prog[1] = x \/ pending(x)'
    <2> SUFFICES ASSUME NEW x
                 PROVE  pending(x) <=> prog[1] = x \/ \E i \in 1..Len(q) : q[i] = x
      BY <1>4 DEF pending
    <2>1. ASSUME NEW i \in 1..Len(prog), prog[i] = x
          PROVE  prog[1] = x \/ \E k \in 1..Len(q) : q[k] = x
      BY <1>3, <2>1
    <2>2. ASSUME NEW i \in 1..Len(q), q[i] = x
          PROVE  \E k \in 1..Len(prog) : prog[k] = x
      BY <1>3, <2>2
    <2> QED
      BY <1>3, <2>1, <2>2 DEF pending
  <1>7. \A i \in 1..Len(q) : /\ prog[1][1] = "tag" => q[i][1] # "drop"
                             /\ prog[1][1] = "untag" => q[i][1] = "untag"
                             /\ prog[1] = q[i] => prog[1][1] = "drop"
    BY <1>2, <1>3 DEF Ordered
  <1>8. /\ \A n : prog[1] = back(n) => ~pending(back(n))'
        /\ \A n : prog[1] = lose(n) => ~pending(lose(n))'
    BY <1>4, <1>7, RestoreNames DEF pending
  <1>9. prog[1][1] = "tag" => \A n : ~pending(drop(n))
    <2> SUFFICES ASSUME prog[1][1] = "tag", NEW n, pending(drop(n))
                 PROVE  FALSE
      OBVIOUS
    <2>1. drop(n)[1] = "drop"
      BY RestoreNames
    <2>2. prog[1] = drop(n) \/ \E i \in 1..Len(q) : q[i] = drop(n)
      BY <1>4, <1>6 DEF pending
    <2> QED
      BY <1>7, <2>1, <2>2
  <1>10. prog[1][1] = "untag" => \A n : ~pending(drop(n)) /\ ~pending(back(n))
    <2> SUFFICES ASSUME prog[1][1] = "untag", NEW x, x[1] \in {"drop", "tag"}, pending(x)
                 PROVE  FALSE
      <3>1. \A n : drop(n)[1] = "drop" /\ back(n)[1] = "tag"
        BY RestoreNames
      <3> QED
        BY <3>1
    <2>1. prog[1] = x \/ \E i \in 1..Len(q) : q[i] = x
      BY <1>4, <1>6 DEF pending
    <2> QED
      BY <1>7, <2>1
  <1> QED
    BY <1>5, <1>6, <1>8, <1>9, <1>10

\* What Restoring says of a trusted name
Awaits(n) ==
    \/ /\ pending(drop(n))
       /\ Sane(n) /\ Saved(n)
       /\ n \in used => tags[n] # None \/ tags[backup(n)] # None
       /\ tags[backup(n)] # None => pending(back(n))
    \/ /\ ~pending(drop(n)) /\ pending(back(n))
       /\ Gone(n) /\ Saved(n)
    \/ /\ ~pending(drop(n)) /\ ~pending(back(n))
       /\ Intact(n)

LEMMA AwaitsTrusted ==
  ASSUME NEW w, NEW s, NEW loc, RestoreHere(w, s, loc), spoiled \subseteq spoiled',
         NEW n \in {w, s}, trusted(n)'
  PROVE  trusted(n) /\ Awaits(n)
  <1>1. trusted(n)
    BY DEF trusted
  <1>2. Restoring(w, s)
    BY DEF RestoreHere
  <1> QED
    BY <1>1, <1>2 DEF Restoring, Awaits

LEMMA AwaitsKept ==
  ASSUME NEW n, Keeps(n), KeepsBackup(n), start' = start, Awaits(n),
         pending(drop(n))' <=> pending(drop(n)), pending(back(n))' <=> pending(back(n))
  PROVE  Awaits(n)'
  <1>1. Sane(n) => Sane(n)'
    BY KeptFacts
  <1>2. Saved(n) => Saved(n)'
    BY KeptBackup
  <1>3. Gone(n) => Gone(n)'
    BY KeptFacts
  <1>4. Intact(n) => Intact(n)'
    BY KeptStart
  <1>5. /\ tags'[n] = tags[n] /\ tags'[backup(n)] = tags[backup(n)]
        /\ n \in used' => n \in used
    BY DEF Keeps, KeepsBackup
  <1> HIDE DEF Awaits
  <1> QED
    BY <1>1, <1>2, <1>3, <1>4, <1>5 DEF Awaits

LEMMA RestoringNext ==
  ASSUME NEW w, NEW s, NEW loc, RestoreHere(w, s, loc), Continues(Tail(prog)),
         \A n \in {w, s} : /\ pending(lose(n))' => tags'[backup(n)] # None
                           /\ pending(back(n))' => pending(lose(n))'
                           /\ trusted(n)' => Awaits(n)'
  PROVE  GoesOn(w, s, loc)
  <1>1. prog' = Tail(prog) /\ phase' = "restore" /\ JobsKept
    BY DEF RestoreHere, Continues
  <1>2. Ordered(w, s)'
    BY <1>1, RestLeft
  <1>3. Restoring(w, s)'
    BY <1>2 DEF Restoring, Awaits
  <1> QED
    BY <1>1, <1>3 DEF GoesOn, CloneInv

\* The cleaner itself fails: both names are spoiled.
LEMMA RestoreFails ==
  ASSUME NEW w, NEW s, NEW loc, RestoreHere(w, s, loc), Fails, w \in spoiled', s \in spoiled'
  PROVE  EndsWell(w, s)
  BY RestoreFacts DEF EndsWell, trusted

LEMMA AtDrop ==
  ASSUME NEW w, NEW s, NEW loc, RestoreHere(w, s, loc), NEW a \in {w, s}, prog[1] = drop(a)
  PROVE  GoesOn(w, s, loc) \/ EndsWell(w, s)
  <1>1. /\ w \in Names /\ s \in Names /\ Running /\ used \subseteq store
        /\ job.ws = w /\ job.src = s /\ phase = "restore"
    BY RestoreFacts
  <1>2. Program(prog, <<"drop", a>>, Tail(prog))
    BY RestoreFacts DEF drop
  <1>3. /\ Quiet /\ spoiled \subseteq spoiled'
        /\ \A n \in {w, s} : (n # a => Keeps(n)) /\ KeepsBackup(n)
        /\ tags[backup(a)] = None /\ (start[a] # None \/ a \in store) => a \in spoiled'
        /\ \/ Continues(Tail(prog)) /\ Gone(a)'
           \/ Fails /\ w \in spoiled' /\ s \in spoiled'
    BY <1>1, <1>2, DoDrop
  <1>4. CASE Fails /\ w \in spoiled' /\ s \in spoiled'
    BY <1>4, RestoreFails
  <1>5. CASE Continues(Tail(prog)) /\ Gone(a)'
    <2>1. prog' = Tail(prog) /\ start' = start
      BY <1>5 DEF Continues, past_kept
    <2>2. \A x : pending(x) <=> prog[1] = x \/ pending(x)'
      BY <2>1, RestLeft
    <2>3. /\ pending(drop(a))
          /\ \A n \in {w, s} : /\ n # a => (pending(drop(n))' <=> pending(drop(n)))
                               /\ pending(back(n))' <=> pending(back(n))
                               /\ pending(lose(n))' <=> pending(lose(n))
      BY <2>2, RestoreNames
    <2>4. /\ \A n \in {w, s} : /\ pending(lose(n)) => tags[backup(n)] # None
                               /\ pending(back(n)) => pending(lose(n))
      BY DEF RestoreHere, Restoring
    <2>5. \A n \in {w, s} : tags'[backup(n)] = tags[backup(n)]
      BY <1>3 DEF KeepsBackup
    <2>6. \A n \in {w, s} : n # a /\ trusted(n)' => Awaits(n)'
      BY <1>3, <2>1, <2>3, AwaitsTrusted, AwaitsKept
    <2>7. ASSUME trusted(a)'
          PROVE  Awaits(a)'
      <3>1. Sane(a) /\ Saved(a) /\ (tags[backup(a)] # None => pending(back(a)))
        BY <1>3, <2>3, <2>7, AwaitsTrusted DEF Awaits
      <3>2. Saved(a)' /\ Sane(a)'
        BY <1>3, <1>5, <2>1, <2>5, <3>1 DEF Saved, Sane, Gone, Quiet, KeepsBackup
      <3>3. CASE tags[backup(a)] = None
        <4>1. start[a] = None /\ a \notin store /\ ~pending(back(a))' /\ a \notin used'
          BY <1>1, <1>3, <2>3, <2>4, <2>7, <3>3 DEF trusted, Quiet, used
        <4>2. Intact(a)'
          BY <1>3, <1>5, <2>1, <4>1 DEF Intact, Good, Gone, Quiet
        <4>3. tags'[backup(a)] = None
          BY <2>5, <3>3
        <4> QED
          BY <3>2, <4>1, <4>2, <4>3 DEF Awaits
      <3>4. CASE tags[backup(a)] # None
        <4>1. pending(back(a))' /\ tags'[backup(a)] # None
          BY <2>3, <2>5, <3>1, <3>4
        <4> QED
          BY <1>5, <3>2, <4>1 DEF Awaits
      <3> QED
        BY <3>3, <3>4
    <2>8. \A n \in {w, s} : /\ pending(lose(n))' => tags'[backup(n)] # None
                            /\ pending(back(n))' => pending(lose(n))'
                            /\ trusted(n)' => Awaits(n)'
      BY <2>3, <2>4, <2>5, <2>6, <2>7
    <2> QED
      BY <1>5, <2>8, RestoringNext
  <1> QED
    BY <1>3, <1>4, <1>5

LEMMA AtBack ==
  ASSUME NEW w, NEW s, NEW loc, RestoreHere(w, s, loc), NEW a \in {w, s}, prog[1] = back(a)
  PROVE  GoesOn(w, s, loc) \/ EndsWell(w, s)
  <1>1. /\ w \in Names /\ s \in Names /\ Running /\ used \subseteq store
        /\ job.ws = w /\ job.src = s /\ phase = "restore"
        /\ a \in AllNames /\ backup(a) \in AllNames
        /\ \A n \in {w, s} : backup(n) # a
    BY RestoreFacts
  <1>2. Program(prog, <<"tag", backup(a), a>>, Tail(prog))
    BY RestoreFacts DEF back
  <1>3. /\ Quiet /\ spoiled \subseteq spoiled'
        /\ \A n \in {w, s} : (n # a => Keeps(n)) /\ KeepsBackup(n)
        /\ \/ /\ Continues(Tail(prog))
              /\ tags[backup(a)] # None /\ tags'[a] = tags[backup(a)]
              /\ cache'[a] = cache[backup(a)]
           \/ Fails /\ w \in spoiled' /\ s \in spoiled'
    BY <1>1, <1>2, DoTag
  <1>4. CASE Fails /\ w \in spoiled' /\ s \in spoiled'
    BY <1>4, RestoreFails
  <1>5. CASE /\ Continues(Tail(prog))
             /\ tags[backup(a)] # None /\ tags'[a] = tags[backup(a)]
             /\ cache'[a] = cache[backup(a)]
    <2>1. prog' = Tail(prog) /\ start' = start
      BY <1>5 DEF Continues, past_kept
    <2>2. /\ \A x : pending(x) <=> prog[1] = x \/ pending(x)'
          /\ ~pending(back(a))'
          /\ \A n : ~pending(drop(n))
      BY <2>1, RestLeft, RestoreNames
    <2>3. /\ pending(back(a))
          /\ \A n \in {w, s} : /\ pending(drop(n))' <=> pending(drop(n))
                               /\ n # a => (pending(back(n))' <=> pending(back(n)))
                               /\ pending(lose(n))' <=> pending(lose(n))
      BY <2>2, RestoreNames
    <2>4. /\ \A n \in {w, s} : /\ pending(lose(n)) => tags[backup(n)] # None
                               /\ pending(back(n)) => pending(lose(n))
      BY DEF RestoreHere, Restoring
    <2>5. \A n \in {w, s} : tags'[backup(n)] = tags[backup(n)]
      BY <1>3 DEF KeepsBackup
    <2>6. \A n \in {w, s} : n # a /\ trusted(n)' => Awaits(n)'
      BY <1>3, <2>1, <2>3, AwaitsTrusted, AwaitsKept
    <2>7. ASSUME trusted(a)'
          PROVE  Awaits(a)'
      <3>1. Saved(a)
        BY <1>3, <2>2, <2>3, <2>7, AwaitsTrusted DEF Awaits
      <3>2. /\ a \in store /\ tags[backup(a)] = start[a] /\ cache[backup(a)] # None
            /\ a \notin built => cache[backup(a)] = start[a]
        BY <1>5, <3>1 DEF Saved
      <3>3. Intact(a)'
        BY <1>3, <1>5, <2>1, <3>2 DEF Intact, Good, Quiet
      <3>4. ~pending(drop(a))' /\ ~pending(back(a))'
        BY <2>2, <2>3
      <3> QED
        BY <3>3, <3>4 DEF Awaits
    <2>8. \A n \in {w, s} : /\ pending(lose(n))' => tags'[backup(n)] # None
                            /\ pending(back(n))' => pending(lose(n))'
                            /\ trusted(n)' => Awaits(n)'
      BY <2>2, <2>3, <2>4, <2>5, <2>6, <2>7
    <2> QED
      BY <1>5, <2>8, RestoringNext
  <1> QED
    BY <1>3, <1>4, <1>5

LEMMA AtLose ==
  ASSUME NEW w, NEW s, NEW loc, RestoreHere(w, s, loc), NEW a \in {w, s}, prog[1] = lose(a)
  PROVE  GoesOn(w, s, loc)
  <1>1. /\ w \in Names /\ s \in Names /\ Running
        /\ backup(a) \in AllNames
        /\ \A n \in {w, s} : n # backup(a) /\ (backup(n) = backup(a) => n = a)
    BY RestoreFacts
  <1>2. Program(prog, <<"untag", backup(a)>>, Tail(prog))
    BY RestoreFacts DEF lose
  <1>3. tags[backup(a)] # None
    <2>1. pending(lose(a))
      BY RestoreFacts
    <2> QED
      BY <2>1 DEF RestoreHere, Restoring
  <1>4. /\ spoiled \subseteq spoiled'
        /\ \A n \in {w, s} : Keeps(n) /\ (n # a => KeepsBackup(n))
        /\ Continues(Tail(prog))
    BY <1>1, <1>2, <1>3, DoUntag
  <1>5. prog' = Tail(prog) /\ start' = start
    BY <1>4 DEF Continues, past_kept
  <1>6. /\ \A x : pending(x) <=> prog[1] = x \/ pending(x)'
        /\ ~pending(lose(a))'
        /\ \A n : ~pending(drop(n)) /\ ~pending(back(n))
    BY <1>5, RestLeft, RestoreNames
  <1>7. \A n \in {w, s} : /\ ~pending(drop(n))' /\ ~pending(back(n))'
                          /\ pending(lose(n))' => n # a /\ pending(lose(n))
    BY <1>6
  <1>8. \A n \in {w, s} : pending(lose(n))' => tags'[backup(n)] # None
    <2>1. \A n \in {w, s} : pending(lose(n)) => tags[backup(n)] # None
      BY DEF RestoreHere, Restoring
    <2> QED
      BY <1>4, <1>7, <2>1 DEF KeepsBackup
  <1>9. \A n \in {w, s} : trusted(n)' => Intact(n)'
    <2>1. \A n \in {w, s} : trusted(n)' => Intact(n)
      BY <1>4, <1>6, AwaitsTrusted DEF Awaits
    <2> QED
      BY <1>4, <1>5, <2>1, KeptStart
  <1>10. \A n \in {w, s} : trusted(n)' => Awaits(n)'
    BY <1>7, <1>9 DEF Awaits
  <1> QED
    BY <1>4, <1>7, <1>8, <1>10, RestoringNext

LEMMA AtRestoring ==
  ASSUME NEW w, NEW s, NEW loc, Scene(w, s, loc), Running, phase = "restore",
         Restoring(w, s)
  PROVE  GoesOn(w, s, loc) \/ EndsWell(w, s)
  <1>1. CASE prog = <<>>
    <2>1. Ends /\ spoiled' = spoiled /\ \A n \in {w, s} : Keeps(n)
      BY <1>1, WorkingDone DEF Scene
    <2>2. \A n \in {w, s} : ~pending(drop(n)) /\ ~pending(back(n))
      BY <1>1 DEF pending
    <2>3. \A n \in {w, s} : trusted(n) => Good(n)
      BY <2>2 DEF Restoring, Intact
    <2> QED
      BY <2>1, <2>3, KeptFacts DEF EndsWell, trusted
  <1>2. CASE prog # <<>>
    <2>1. RestoreHere(w, s, loc)
      BY <1>2 DEF RestoreHere
    <2>2. PICK a \in {w, s} : prog[1] \in {drop(a), back(a), lose(a)}
      BY <2>1, RestoreFacts
    <2> QED
      BY <2>1, <2>2, AtDrop, AtBack, AtLose
  <1> QED
    BY <1>1, <1>2

\* Each step of a clone
LEMMA AtClone ==
  ASSUME NEW w, NEW s, NEW loc, Scene(w, s, loc), Running, CloneInv(w, s, loc)
  PROVE  GoesOn(w, s, loc) \/ EndsWell(w, s)
  <1>1. CASE phase = "work" /\ CloneWorks(w, s, loc)
    BY <1>1, AtWork DEF Acts
  <1>2. CASE phase = "declined" /\ CloneDeclined(w, s)
    BY <1>2, AtDeclined
  <1>3. CASE phase = "restore" /\ Restoring(w, s)
    BY <1>3, AtRestoring
  <1>4. CASE \/ phase = "forget" /\ Cleaning(w, s) /\ Cloned(w, s, loc)
             \/ phase = "decline" /\ Cleaning(w, s)
                  /\ \A n \in {w, s} : trusted(n) => tags[n] = start[n]
    BY <1>4, AtCleaning
  <1> QED
    BY <1>1, <1>2, <1>3, <1>4 DEF CloneInv

\* The programs are written as sequences in the model and as steps followed by a program here.
LEMMA SameSequence ==
  ASSUME NEW S, NEW p \in Seq(S), NEW q \in Seq(S), Len(p) = Len(q),
         \A i \in 1..Len(p) : p[i] = q[i]
  PROVE  p = q
  OBVIOUS

LEMMA ConsParts ==
  ASSUME NEW S, NEW a \in S, NEW r \in Seq(S)
  PROVE  /\ cons(a, r) \in Seq(S) /\ Len(cons(a, r)) = 1 + Len(r)
         /\ cons(a, r)[1] = a
         /\ \A i \in 1..Len(r) : cons(a, r)[i + 1] = r[i]
  <1>1. <<a>> \in Seq(S) /\ Len(<<a>>) = 1 /\ <<a>>[1] = a
    OBVIOUS
  <1> QED
    BY <1>1 DEF cons

LEMMA HeadTail ==
  ASSUME NEW S, NEW a \in S, NEW r \in Seq(S), NEW q \in Seq(S)
  PROVE  q # <<>> /\ Head(q) = a /\ Tail(q) = r => cons(a, r) = q
  <1> DEFINE p == cons(a, r)
  <1>1. /\ p \in Seq(S) /\ Len(p) = 1 + Len(r) /\ p[1] = a
        /\ \A i \in 1..Len(r) : p[i + 1] = r[i]
    <2>1. <<a>> \in Seq(S) /\ Len(<<a>>) = 1 /\ <<a>>[1] = a
      OBVIOUS
    <2> QED
      BY <2>1 DEF cons
  <1> HIDE DEF p
  <1> SUFFICES ASSUME q # <<>>, Head(q) = a, Tail(q) = r
               PROVE  p = q
    BY DEF p
  <1>2. /\ Len(q) \in Nat /\ Len(q) >= 1 /\ Len(r) = Len(q) - 1 /\ q[1] = a
        /\ \A i \in 1..(Len(q) - 1) : r[i] = q[i + 1]
    BY TailFacts
  <1>3. Len(p) = Len(q)
    BY <1>1, <1>2
  <1>4. ASSUME NEW i \in 1..Len(p)
        PROVE  p[i] = q[i]
    <2>1. CASE i = 1
      BY <1>1, <1>2, <2>1
    <2>2. CASE i # 1
      <3>1. PICK k : k = i - 1 /\ k \in 1..Len(r) /\ i = k + 1 /\ k \in 1..(Len(q) - 1)
        BY <1>1, <1>2, <2>2
      <3> QED
        BY <1>1, <1>2, <3>1
    <2> QED
      BY <2>1, <2>2
  <1>5. p = q
    BY <1>1, <1>3, <1>4, SameSequence
  <1> QED
    BY <1>5

LEMMA ConsAppend ==
  ASSUME NEW S, NEW a \in S, NEW r \in Seq(S), NEW q \in Seq(S)
  PROVE  cons(a, r) \o q = cons(a, r \o q)
  <1> DEFINE x == cons(a, r)
             y == r \o q
             p == x \o q
             o == cons(a, y)
  <1>1. x \in Seq(S) /\ Len(x) = 1 + Len(r) /\ x[1] = a /\ \A i \in 1..Len(r) : x[i + 1] = r[i]
    BY ConsParts
  <1>2. /\ y \in Seq(S) /\ Len(y) = Len(r) + Len(q)
        /\ \A i \in 1..Len(r) : y[i] = r[i]
        /\ \A i \in 1..Len(q) : y[Len(r) + i] = q[i]
    BY Concatenation
  <1>3. x \in Seq(S)
    BY <1>1
  <1>4. y \in Seq(S)
    BY <1>2
  <1> HIDE DEF x, y
  <1>5. /\ p \in Seq(S) /\ Len(p) = Len(x) + Len(q)
        /\ \A i \in 1..Len(x) : p[i] = x[i]
        /\ \A i \in 1..Len(q) : p[Len(x) + i] = q[i]
    BY <1>3, Concatenation
  <1>6. /\ o \in Seq(S) /\ Len(o) = 1 + Len(y) /\ o[1] = a
        /\ \A i \in 1..Len(y) : o[i + 1] = y[i]
    BY <1>4, ConsParts
  <1> HIDE DEF p, o
  <1>7. Len(r) \in Nat /\ Len(q) \in Nat /\ Len(p) = 1 + Len(r) + Len(q) /\ Len(o) = Len(p)
    BY <1>1, <1>2, <1>5, <1>6
  <1>8. ASSUME NEW i \in 1..Len(p)
        PROVE  p[i] = o[i]
    <2>1. CASE i = 1
      <3>1. 1 \in 1..Len(x)
        BY <1>1, <1>7
      <3> QED
        BY <1>1, <1>5, <1>6, <2>1, <3>1
    <2>2. CASE i # 1 /\ i <= 1 + Len(r)
      <3>1. PICK k : k = i - 1 /\ k \in 1..Len(r) /\ i = k + 1 /\ i \in 1..Len(x) /\ k \in 1..Len(y)
        BY <1>1, <1>2, <1>7, <2>2
      <3>2. p[i] = x[i] /\ x[i] = r[k]
        BY <1>1, <1>5, <3>1
      <3>3. o[i] = y[k] /\ y[k] = r[k]
        BY <1>2, <1>6, <3>1
      <3> QED
        BY <3>2, <3>3
    <2>3. CASE i > 1 + Len(r)
      <3>1. PICK k : k = i - 1 - Len(r)
        OBVIOUS
      <3>2. /\ k \in 1..Len(q) /\ i = Len(x) + k /\ i = (Len(r) + k) + 1
            /\ Len(r) + k \in 1..Len(y)
        BY <1>1, <1>2, <1>7, <2>3, <3>1
      <3>3. p[i] = q[k]
        BY <1>5, <3>2
      <3>4. o[i] = y[Len(r) + k] /\ y[Len(r) + k] = q[k]
        BY <1>2, <1>6, <3>2
      <3> QED
        BY <3>3, <3>4
    <2> QED
      BY <1>7, <2>1, <2>2, <2>3
  <1>9. p = o
    BY <1>5, <1>6, <1>7, <1>8, SameSequence
  <1> QED
    BY <1>9 DEF p, o, x, y

LEMMA TupleForms ==
  /\ \A a, b : cons(a, <<b>>) = <<a, b>>
  /\ \A a, b, c : cons(a, <<b, c>>) = <<a, b, c>>
  /\ \A a, b, c, d : cons(a, <<b, c, d>>) = <<a, b, c, d>>
  /\ \A a, b, c, d, e : cons(a, <<b, c, d, e>>) = <<a, b, c, d, e>>
  /\ \A a, b, c, d, e, f : cons(a, <<b, c, d, e, f>>) = <<a, b, c, d, e, f>>
  /\ \A a, b, c, d, e, f, g : cons(a, <<b, c, d, e, f, g>>) = <<a, b, c, d, e, f, g>>
  <1>1. ASSUME NEW a, NEW b
        PROVE  cons(a, <<b>>) = <<a, b>>
    <2> DEFINE S == {a, b}
               r == <<b>>
               q == <<a, b>>
    <2>1. r \in Seq(S) /\ q \in Seq(S) /\ q # <<>> /\ Head(q) = a /\ Tail(q) = r
      OBVIOUS
    <2>2. a \in S
      OBVIOUS
    <2> HIDE DEF S, r, q
    <2>3. cons(a, r) = q
      BY <2>1, <2>2, HeadTail
    <2> QED
      BY <2>3 DEF r, q
  <1>2. ASSUME NEW a, NEW b, NEW c
        PROVE  cons(a, <<b, c>>) = <<a, b, c>>
    <2> DEFINE S == {a, b, c}
               r == <<b, c>>
               q == <<a, b, c>>
    <2>1. r \in Seq(S) /\ q \in Seq(S) /\ q # <<>> /\ Head(q) = a /\ Tail(q) = r
      OBVIOUS
    <2>2. a \in S
      OBVIOUS
    <2> HIDE DEF S, r, q
    <2>3. cons(a, r) = q
      BY <2>1, <2>2, HeadTail
    <2> QED
      BY <2>3 DEF r, q
  <1>3. ASSUME NEW a, NEW b, NEW c, NEW d
        PROVE  cons(a, <<b, c, d>>) = <<a, b, c, d>>
    <2> DEFINE S == {a, b, c, d}
               r == <<b, c, d>>
               q == <<a, b, c, d>>
    <2>1. r \in Seq(S) /\ q \in Seq(S) /\ q # <<>> /\ Head(q) = a /\ Tail(q) = r
      OBVIOUS
    <2>2. a \in S
      OBVIOUS
    <2> HIDE DEF S, r, q
    <2>3. cons(a, r) = q
      BY <2>1, <2>2, HeadTail
    <2> QED
      BY <2>3 DEF r, q
  <1>4. ASSUME NEW a, NEW b, NEW c, NEW d, NEW e
        PROVE  cons(a, <<b, c, d, e>>) = <<a, b, c, d, e>>
    <2> DEFINE S == {a, b, c, d, e}
               r == <<b, c, d, e>>
               q == <<a, b, c, d, e>>
    <2>1. r \in Seq(S) /\ q \in Seq(S) /\ q # <<>> /\ Head(q) = a /\ Tail(q) = r
      OBVIOUS
    <2>2. a \in S
      OBVIOUS
    <2> HIDE DEF S, r, q
    <2>3. cons(a, r) = q
      BY <2>1, <2>2, HeadTail
    <2> QED
      BY <2>3 DEF r, q
  <1>5. ASSUME NEW a, NEW b, NEW c, NEW d, NEW e, NEW f
        PROVE  cons(a, <<b, c, d, e, f>>) = <<a, b, c, d, e, f>>
    <2> DEFINE S == {a, b, c, d, e, f}
               r == <<b, c, d, e, f>>
               q == <<a, b, c, d, e, f>>
    <2>1. r \in Seq(S) /\ q \in Seq(S) /\ q # <<>> /\ Head(q) = a /\ Tail(q) = r
      OBVIOUS
    <2>2. a \in S
      OBVIOUS
    <2> HIDE DEF S, r, q
    <2>3. cons(a, r) = q
      BY <2>1, <2>2, HeadTail
    <2> QED
      BY <2>3 DEF r, q
  <1>6. ASSUME NEW a, NEW b, NEW c, NEW d, NEW e, NEW f, NEW g
        PROVE  cons(a, <<b, c, d, e, f, g>>) = <<a, b, c, d, e, f, g>>
    <2> DEFINE S == {a, b, c, d, e, f, g}
               r == <<b, c, d, e, f, g>>
               q == <<a, b, c, d, e, f, g>>
    <2>1. r \in Seq(S) /\ q \in Seq(S) /\ q # <<>> /\ Head(q) = a /\ Tail(q) = r
      OBVIOUS
    <2>2. a \in S
      OBVIOUS
    <2> HIDE DEF S, r, q
    <2>3. cons(a, r) = q
      BY <2>1, <2>2, HeadTail
    <2> QED
      BY <2>3 DEF r, q
  <1> QED
    BY <1>1, <1>2, <1>3, <1>4, <1>5, <1>6

\* A job that is not a clone works on n.
OtherScene(n, kind) ==
    /\ Running /\ n \in Names /\ phase = "work"
    /\ job.kind = kind /\ kind # "clone" /\ job.ws = n

JobGoesOn(n, kind) == (JobsKept /\ OtherInv(n, kind)') \/ EndsWell(n, n)

LEMMA DoFrom ==
  ASSUME Running, NEW a, NEW r, Program(prog, <<"from", a>>, r)
  PROVE  /\ spoiled' = spoiled /\ \A n \in Names : Keeps(n)
         /\ Quiet /\ Arrays'
         /\ Continues(r) \/ Fails
  <1>1. prog # <<>> /\ Head(prog) = <<"from", a>> /\ Head(prog)[1] = "from"
    BY DEF Program
  <1>2. From
    BY <1>1, StepAt DEF Running
  <1>3. Quiet /\ Same /\ spoiled' = spoiled /\ (Advances \/ Fails)
    BY <1>2, RunningFacts, EffectFrom
  <1>4. \A n \in Names : Keeps(n)
    BY <1>3, QuietKeeps DEF Same
  <1>5. Arrays'
    BY <1>3, RunningFacts DEF Arrays, Same
  <1> QED
    BY <1>3, <1>4, <1>5, RunningFacts

LEMMA DoChoose ==
  ASSUME Running, NEW a, NEW r, Program(prog, <<"choose", a>>, r)
  PROVE  /\ spoiled' = spoiled /\ \A n \in Names : Keeps(n)
         /\ Quiet /\ Arrays'
         /\ Continues(IF cache[a] # None \/ tags[a] # None THEN commit_over(a) ELSE commit_new(a))
  <1>1. prog # <<>> /\ Head(prog) = <<"choose", a>> /\ Head(prog)[1] = "choose"
    BY DEF Program
  <1>2. Choose
    BY <1>1, StepAt DEF Running
  <1>3. /\ Quiet /\ Same /\ spoiled' = spoiled
        /\ prog' = IF cache[a] # None \/ tags[a] # None THEN commit_over(a) ELSE commit_new(a)
        /\ phase' = phase /\ JobsKept /\ past_kept
    BY <1>1, <1>2, RunningFacts, EffectChoose
  <1>4. \A n \in Names : Keeps(n)
    BY <1>3, QuietKeeps DEF Same
  <1>5. Arrays'
    BY <1>3, RunningFacts DEF Arrays, Same
  <1> QED
    BY <1>3, <1>4, <1>5 DEF Continues

LEMMA DoCommit ==
  ASSUME Running, NEW a \in AllNames, NEW r, Program(prog, <<"commit", a>>, r)
  PROVE  /\ spoiled' = spoiled /\ Quiet /\ Arrays'
         /\ \A n \in Names : n # a => Keeps(n)
         /\ \/ Continues(r) /\ tags'[a] # None
            \/ Fails /\ \A n \in Names : Keeps(n)
  <1>1. prog # <<>> /\ Head(prog) = <<"commit", a>> /\ Head(prog)[1] = "commit"
    BY DEF Program
  <1>2. Commit
    BY <1>1, StepAt DEF Running
  <1>3. /\ Quiet /\ Arrays' /\ cache' = cache /\ spoiled' = spoiled
        /\ \A m \in AllNames \ {a} : tags'[m] = tags[m]
        /\ (Advances /\ tags'[a] # None) \/ (Fails /\ tags' = tags)
    BY <1>1, <1>2, RunningFacts, EffectCommit
  <1>4. \A n \in Names : n # a => Keeps(n)
    BY <1>3, QuietKeeps, NameFacts
  <1>5. tags' = tags => \A n \in Names : Keeps(n)
    BY <1>3, QuietKeeps
  <1> QED
    BY <1>3, <1>4, <1>5, RunningFacts

LEMMA DoRmi ==
  ASSUME Running, NEW a \in AllNames, NEW r, Program(prog, <<"rmi", a>>, r)
  PROVE  /\ spoiled' = spoiled /\ Quiet /\ Arrays'
         /\ \A n \in Names : n # a => Keeps(n)
         /\ Temp # a => tags'[Temp] = tags[Temp]
         /\ tags'[a] = None
         /\ Continues(r) \/ (Fails /\ tags[a] = None)
  <1>1. prog # <<>> /\ Head(prog) = <<"rmi", a>> /\ Head(prog)[1] = "rmi"
    BY DEF Program
  <1>2. Rmi
    BY <1>1, StepAt DEF Running
  <1>3. /\ Quiet /\ Arrays' /\ cache' = cache /\ spoiled' = spoiled
        /\ \A m \in AllNames \ {a} : tags'[m] = tags[m]
        /\ tags'[a] = None
        /\ Advances \/ (Fails /\ tags[a] = None)
    BY <1>1, <1>2, RunningFacts, EffectRmi
  <1>4. \A n \in Names : n # a => Keeps(n)
    BY <1>3, QuietKeeps, NameFacts
  <1>5. Temp # a => tags'[Temp] = tags[Temp]
    BY <1>3, NameFacts
  <1> QED
    BY <1>3, <1>4, <1>5, RunningFacts

LEMMA DoRetag ==
  ASSUME Running, NEW a \in Names, NEW r, Program(prog, <<"retag", a>>, r)
  PROVE  /\ spoiled' = spoiled /\ Quiet /\ Arrays'
         /\ \A n \in Names : n # a => Keeps(n)
         /\ tags'[Temp] = tags[Temp] /\ tags'[a] = tags[Temp] /\ Continues(r)
  <1>1. prog # <<>> /\ Head(prog) = <<"retag", a>> /\ Head(prog)[1] = "retag"
    BY DEF Program
  <1>2. Retag
    BY <1>1, StepAt DEF Running
  <1>3. a \in AllNames /\ Temp \in AllNames /\ a # Temp
    BY NameFacts
  <1>4. /\ Quiet /\ Arrays' /\ cache' = cache /\ spoiled' = spoiled
        /\ \A m \in AllNames \ {a} : tags'[m] = tags[m]
        /\ tags'[a] = tags[Temp] /\ Advances
    BY <1>1, <1>2, <1>3, RunningFacts, EffectRetag
  <1>5. \A n \in Names : n # a => Keeps(n)
    BY <1>4, QuietKeeps, NameFacts
  <1> QED
    BY <1>3, <1>4, <1>5, RunningFacts

LEMMA DoBuild ==
  ASSUME Running, NEW a \in Names, NEW r, Program(prog, <<"build", a>>, r)
  PROVE  /\ spoiled' = spoiled /\ Arrays' /\ UNCHANGED <<store, image, nested>>
         /\ \A n \in Names : n # a => Keeps(n)
         /\ Good(a) => Good(a)'
         /\ Continues(r)
  <1>1. prog # <<>> /\ Head(prog) = <<"build", a>> /\ Head(prog)[1] = "build"
    BY DEF Program
  <1>2. Build
    BY <1>1, StepAt DEF Running
  <1>3. /\ UNCHANGED <<store, image, nested>> /\ Arrays' /\ cache' = cache /\ spoiled' = spoiled
        /\ Advances
        /\ \/ /\ built' = built \cup {a} /\ tags'[a] # None
              /\ \A m \in AllNames \ {a} : tags'[m] = tags[m]
           \/ built' = built /\ tags' = tags
    BY <1>1, <1>2, RunningFacts, EffectBuild
  <1>4. \A n \in Names : n # a => Keeps(n)
    BY <1>3, NameFacts DEF Keeps, used
  <1>5. Good(a) => Good(a)'
    BY <1>3 DEF Good
  <1> QED
    BY <1>3, <1>4, <1>5, RunningFacts

-----------------------------------------------------------------------------
LEMMA SingleFacts ==
  ASSUME NEW n, NEW kind, OtherScene(n, kind)
  PROVE  /\ Running /\ n \in Names /\ n \in AllNames /\ Temp \in AllNames
         /\ n # Temp /\ Temp # n /\ phase = "work"
  <1>1. Running /\ n \in Names /\ phase = "work"
    BY DEF OtherScene
  <1>2. n \in AllNames /\ n # Temp /\ Temp \in AllNames
    BY <1>1, NameFacts
  <1> QED
    BY <1>1, <1>2

LEMMA SingleFails ==
  ASSUME NEW n, NEW kind, OtherScene(n, kind), Fails
  PROVE  Ends
  BY DEF OtherScene, Fails

LEMMA OtherEnds ==
  ASSUME NEW n, NEW kind, OtherScene(n, kind), Fails \/ Ends, trusted(n)' => Good(n)'
  PROVE  JobGoesOn(n, kind)
  <1>1. Ends
    BY SingleFails
  <1> QED
    BY <1>1 DEF JobGoesOn, EndsWell

LEMMA OtherContinues ==
  ASSUME NEW n, NEW kind, OtherScene(n, kind), NEW r, Continues(r),
         phase' = "work" /\ prog' = r => OtherInv(n, kind)'
  PROVE  JobGoesOn(n, kind)
  <1>1. phase = "work"
    BY DEF OtherScene
  <1> QED
    BY <1>1 DEF JobGoesOn, Continues

LEMMA CommitForms ==
  /\ \A n : commit_over(n) = Over7(n)
  /\ \A n : commit_new(n) = New4(n)
  <1>1. ASSUME NEW n
        PROVE  New3(n) = << <<"await", n>>, <<"refresh", n>>, <<"resync", n>> >>
    <2>1. New2(n) = << <<"refresh", n>>, <<"resync", n>> >>
      BY TupleForms DEF New2, New1
    <2> QED
      BY <2>1, TupleForms DEF New3
  <1>2. ASSUME NEW n
        PROVE  commit_new(n) = New4(n)
    BY <1>1, TupleForms DEF commit_new, New4
  <1>3. ASSUME NEW n
        PROVE  commit_over(n) = Over7(n)
    <2> DEFINE a == <<"await", n>>
               b == <<"refresh", n>>
               c == <<"resync", n>>
               d == <<"rmi", Temp>>
               e == <<"retag", n>>
               f == <<"rmi", n>>
               g == <<"commit", Temp>>
    <2>1. commit_over(n) = <<g, f, e, d, a, b, c>>
      BY DEF commit_over
    <2>2. /\ New3(n) = <<a, b, c>>
          /\ Over4(n) = cons(d, New3(n)) /\ Over5(n) = cons(e, Over4(n))
          /\ Over6(n) = cons(f, Over5(n)) /\ Over7(n) = cons(g, Over6(n))
      BY <1>1 DEF Over4, Over5, Over6, Over7
    <2> HIDE DEF a, b, c, d, e, f, g
    <2>3. Over4(n) = <<d, a, b, c>>
      BY <2>2, TupleForms
    <2>4. Over5(n) = <<e, d, a, b, c>>
      BY <2>2, <2>3, TupleForms
    <2>5. Over6(n) = <<f, e, d, a, b, c>>
      BY <2>2, <2>4, TupleForms
    <2>6. Over7(n) = <<g, f, e, d, a, b, c>>
      BY <2>2, <2>5, TupleForms
    <2> QED
      BY <2>1, <2>6
  <1> QED
    BY <1>2, <1>3

LEMMA ListedGood ==
  ASSUME NEW n, Listed(n), Same, built' = built, n \in store' <=> cache[n] # None
  PROVE  Good(n)'
  BY DEF Listed, Present, Same, Good

\* The image is committed, under its name or under a temporary one.
LEMMA AtCommit ==
  ASSUME NEW n, NEW kind \in {"squash", "commit"}, OtherScene(n, kind), CommitInv(n)
  PROVE  JobGoesOn(n, kind)
  <1>0. /\ n \in Names /\ Running /\ n \in AllNames /\ Temp \in AllNames
        /\ n # Temp /\ Temp # n
    BY SingleFacts
  <1>1. CASE prog = Squash3(n) /\ (trusted(n) => Good(n))
    <2>1. Program(prog, <<"find", n>>, Squash2(n))
      BY <1>0, <1>1, CommitPrograms
    <2>2. spoiled' = spoiled /\ (Firm(n) => Keeps(n)) /\ (Continues(Squash2(n)) \/ Fails)
      BY <1>0, <2>1, DoFind
    <2>3. trusted(n)' => Good(n)'
      BY <1>1, <2>2, GoodFirm, KeptFacts DEF trusted
    <2>4. phase' = "work" /\ prog' = Squash2(n) => OtherInv(n, kind)'
      BY <2>3 DEF OtherInv, CommitInv
    <2> QED
      BY <2>2, <2>3, <2>4, OtherEnds, OtherContinues
  <1>2. CASE prog = Squash2(n) /\ (trusted(n) => Good(n))
    <2>1. Program(prog, <<"from", n>>, Commit1(n))
      BY <1>0, <1>2, CommitPrograms
    <2>2. spoiled' = spoiled /\ Keeps(n) /\ (Continues(Commit1(n)) \/ Fails)
      BY <1>0, <2>1, DoFrom
    <2>3. trusted(n)' => Good(n)'
      BY <1>2, <2>2, KeptFacts DEF trusted
    <2>4. phase' = "work" /\ prog' = Commit1(n) => OtherInv(n, kind)'
      BY <2>3 DEF OtherInv, CommitInv
    <2> QED
      BY <2>2, <2>3, <2>4, OtherEnds, OtherContinues
  <1>3. CASE prog = Commit1(n) /\ (trusted(n) => Good(n))
    <2>1. Program(prog, <<"choose", n>>, <<>>)
      BY <1>0, <1>3, CommitPrograms
    <2>2. /\ spoiled' = spoiled /\ Keeps(n)
          /\ Continues(IF cache[n] # None \/ tags[n] # None THEN commit_over(n) ELSE commit_new(n))
      BY <1>0, <2>1, DoChoose
    <2>3. trusted(n)' => Good(n)'
      BY <1>3, <2>2, KeptFacts DEF trusted
    <2>4. CASE cache[n] # None \/ tags[n] # None
      <3>1. Continues(Over7(n))
        BY <2>2, <2>4, CommitForms
      <3>2. trusted(n)' => Present(n)'
        BY <1>3, <2>2, <2>4 DEF trusted, Good, Present, Keeps
      <3>3. phase' = "work" /\ prog' = Over7(n) => OtherInv(n, kind)'
        BY <2>3, <3>2 DEF OtherInv, CommitInv
      <3> QED
        BY <3>1, <3>3, OtherContinues
    <2>5. CASE ~(cache[n] # None \/ tags[n] # None)
      <3>1. Continues(New4(n))
        BY <2>2, <2>5, CommitForms
      <3>2. phase' = "work" /\ prog' = New4(n) => OtherInv(n, kind)'
        BY <2>3 DEF OtherInv, CommitInv
      <3> QED
        BY <3>1, <3>2, OtherContinues
    <2> QED
      BY <2>4, <2>5
  <1>4. CASE prog = New4(n) /\ (trusted(n) => Good(n))
    <2>1. Program(prog, <<"commit", n>>, New3(n))
      BY <1>0, <1>4, CommitPrograms
    <2>2. /\ spoiled' = spoiled
          /\ (Continues(New3(n)) /\ tags'[n] # None) \/ (Fails /\ Keeps(n))
      BY <1>0, <2>1, DoCommit
    <2>3. CASE Continues(New3(n)) /\ tags'[n] # None
      <3>1. phase' = "work" /\ prog' = New3(n) => OtherInv(n, kind)'
        BY <2>3 DEF OtherInv, Present
      <3> QED
        BY <2>3, <3>1, OtherContinues
    <2>4. CASE Fails /\ Keeps(n)
      <3>1. trusted(n)' => Good(n)'
        BY <1>4, <2>2, <2>4, KeptFacts DEF trusted
      <3> QED
        BY <2>4, <3>1, OtherEnds
    <2> QED
      BY <2>2, <2>3, <2>4
  <1>5. CASE prog = Over7(n) /\ (trusted(n) => Good(n) /\ Present(n))
    <2>1. Program(prog, <<"commit", Temp>>, Over6(n))
      BY <1>0, <1>5, CommitPrograms
    <2>2. /\ spoiled' = spoiled /\ Keeps(n)
          /\ (Continues(Over6(n)) /\ tags'[Temp] # None) \/ Fails
      BY <1>0, <2>1, DoCommit
    <2>3. trusted(n)' => Good(n)' /\ Present(n)'
      BY <1>5, <2>2, KeptFacts DEF trusted
    <2>4. CASE Continues(Over6(n)) /\ tags'[Temp] # None
      <3>1. phase' = "work" /\ prog' = Over6(n) => OtherInv(n, kind)'
        BY <2>3, <2>4 DEF OtherInv, CommitInv, Present
      <3> QED
        BY <2>4, <3>1, OtherContinues
    <2> QED
      BY <2>2, <2>3, <2>4, OtherEnds
  <1>6. CASE prog = Over6(n) /\ Present(Temp) /\ (trusted(n) => Good(n) /\ Present(n))
    <2>1. Program(prog, <<"rmi", n>>, Over5(n))
      BY <1>0, <1>6, CommitPrograms
    <2>2. /\ spoiled' = spoiled /\ tags'[Temp] = tags[Temp]
          /\ Continues(Over5(n)) \/ (Fails /\ tags[n] = None)
      BY <1>0, <2>1, DoRmi
    <2>3. CASE Continues(Over5(n))
      <3>1. phase' = "work" /\ prog' = Over5(n) => OtherInv(n, kind)'
        BY <1>6, <2>2 DEF OtherInv, CommitInv, Present
      <3> QED
        BY <2>3, <3>1, OtherContinues
    <2>4. CASE Fails /\ tags[n] = None
      <3>1. ~ trusted(n)'
        BY <1>6, <2>2, <2>4 DEF trusted, Present
      <3> QED
        BY <2>4, <3>1, OtherEnds
    <2> QED
      BY <2>2, <2>3, <2>4
  <1>7. CASE prog = Over5(n) /\ Present(Temp)
    <2>1. Program(prog, <<"retag", n>>, Over4(n))
      BY <1>0, <1>7, CommitPrograms
    <2>2. tags'[Temp] = tags[Temp] /\ tags'[n] = tags[Temp] /\ Continues(Over4(n))
      BY <1>0, <2>1, DoRetag
    <2>3. phase' = "work" /\ prog' = Over4(n) => OtherInv(n, kind)'
      BY <1>7, <2>2 DEF OtherInv, CommitInv, Present
    <2> QED
      BY <2>2, <2>3, OtherContinues
  <1>8. CASE prog = Over4(n) /\ Present(Temp) /\ (trusted(n) => Present(n))
    <2>1. Program(prog, <<"rmi", Temp>>, New3(n))
      BY <1>0, <1>8, CommitPrograms
    <2>2. spoiled' = spoiled /\ Keeps(n) /\ Continues(New3(n))
      BY <1>0, <1>8, <2>1, DoRmi DEF Present
    <2>3. trusted(n)' => Present(n)'
      BY <1>8, <2>2, KeptFacts DEF trusted
    <2>4. phase' = "work" /\ prog' = New3(n) => OtherInv(n, kind)'
      BY <2>3 DEF OtherInv
    <2> QED
      BY <2>2, <2>4, OtherContinues
  <1> QED
    BY <1>1, <1>2, <1>3, <1>4, <1>5, <1>6, <1>7, <1>8 DEF CommitInv

\* The cache is refreshed, then the store.
LEMMA AtPublish ==
  ASSUME NEW n, NEW kind, OtherScene(n, kind),
         \/ prog \in {New3(n), New2(n), Update4(n), Update3(n)} /\ (trusted(n) => Present(n))
         \/ prog \in {New1(n), Update2(n)} /\ (trusted(n) => Listed(n))
  PROVE  JobGoesOn(n, kind)
  <1>0. n \in Names /\ Running
    BY DEF OtherScene
  <1>1. ASSUME NEW r, Program(prog, <<"await", n>>, r), r \in {New2(n), Update3(n)},
               trusted(n) => Present(n)
        PROVE  JobGoesOn(n, kind)
    <2>1. spoiled' = spoiled /\ Keeps(n) /\ Continues(r)
      BY <1>0, <1>1, DoAwait
    <2>2. trusted(n)' => Present(n)'
      BY <1>1, <2>1, KeptFacts DEF trusted
    <2>3. phase' = "work" /\ prog' = r => OtherInv(n, kind)'
      BY <1>1, <2>2 DEF OtherInv
    <2> QED
      BY <2>1, <2>3, OtherContinues
  <1>2. ASSUME NEW r, Program(prog, <<"refresh", n>>, r), r \in {New1(n), Update2(n)},
               trusted(n) => Present(n)
        PROVE  JobGoesOn(n, kind)
    <2>1. spoiled' = spoiled /\ tags'[n] = tags[n] /\ cache'[n] = tags[n] /\ Continues(r)
      BY <1>0, <1>2, DoRefresh
    <2>2. trusted(n)' => Listed(n)'
      BY <1>2, <2>1 DEF trusted, Listed, Present
    <2>3. phase' = "work" /\ prog' = r => OtherInv(n, kind)'
      BY <1>2, <2>2 DEF OtherInv
    <2> QED
      BY <2>1, <2>3, OtherContinues
  <1>3. ASSUME NEW r, Program(prog, <<"resync", n>>, r), r \in {<<>>, New1(n)},
               trusted(n) => Listed(n)
        PROVE  JobGoesOn(n, kind)
    <2>1. /\ spoiled \subseteq spoiled' /\ Same /\ built' = built
          /\ trusted(n)' => (n \in store' <=> cache[n] # None)
          /\ Continues(r) \/ Fails
      BY <1>0, <1>3, DoResync
    <2>2. trusted(n)' => Listed(n)' /\ Good(n)'
      <3>1. trusted(n)' => Good(n)'
        BY <1>3, <2>1, ListedGood DEF trusted
      <3>2. trusted(n)' => Listed(n)'
        BY <1>3, <2>1 DEF trusted, Listed, Present, Same
      <3> QED
        BY <3>1, <3>2
    <2>3. phase' = "work" /\ prog' = r => OtherInv(n, kind)'
      BY <1>3, <2>2 DEF OtherInv
    <2> QED
      BY <2>1, <2>2, <2>3, OtherEnds, OtherContinues
  <1>4. CASE prog \in {New3(n), New2(n), Update4(n), Update3(n)} /\ (trusted(n) => Present(n))
    BY <1>0, <1>1, <1>2, <1>4, CommitPrograms
  <1>5. CASE prog \in {New1(n), Update2(n)} /\ (trusted(n) => Listed(n))
    BY <1>0, <1>3, <1>5, CommitPrograms
  <1> QED
    BY <1>4, <1>5

LEMMA AtOther ==
  ASSUME NEW n, NEW kind, OtherScene(n, kind), OtherInv(n, kind)
  PROVE  JobGoesOn(n, kind)
  <1>0. n \in Names /\ Running
    BY DEF OtherScene
  <1>1. CASE kind = "update" /\ prog = Update5(n) /\ (trusted(n) => Good(n))
    <2>1. Program(prog, <<"pull", n>>, Update4(n))
      BY <1>0, <1>1, CommitPrograms
    <2>2. /\ spoiled' = spoiled
          /\ \/ prog' = Update4(n) /\ phase' = phase /\ JobsKept /\ tags'[n] # None
             \/ Fails /\ Keeps(n)
      BY <1>0, <2>1, DoPull
    <2>3. CASE prog' = Update4(n) /\ phase' = phase /\ JobsKept /\ tags'[n] # None
      <3>1. OtherInv(n, kind)'
        BY <2>3, SingleFacts DEF OtherInv, Present
      <3> QED
        BY <2>3, <3>1 DEF JobGoesOn
    <2>4. CASE Fails /\ Keeps(n)
      <3>1. trusted(n)' => Good(n)'
        BY <1>1, <2>2, <2>4, KeptFacts DEF trusted
      <3> QED
        BY <2>4, <3>1, OtherEnds
    <2> QED
      BY <2>2, <2>3, <2>4
  <1>2. CASE prog = Build1(n) /\ (trusted(n) => Good(n))
    <2>1. Program(prog, <<"build", n>>, <<>>)
      BY <1>0, <1>2, CommitPrograms
    <2>2. spoiled' = spoiled /\ (Good(n) => Good(n)') /\ Continues(<<>>)
      BY <1>0, <2>1, DoBuild
    <2>3. phase' = "work" /\ prog' = <<>> => OtherInv(n, kind)'
      BY <1>2, <2>2 DEF OtherInv, trusted
    <2> QED
      BY <2>2, <2>3, OtherContinues
  <1>3. CASE prog = <<>> /\ (trusted(n) => Good(n))
    <2>1. spoiled' = spoiled /\ Keeps(n) /\ Ends
      BY <1>0, <1>3, WorkingDone DEF OtherScene
    <2>2. trusted(n)' => Good(n)'
      BY <1>3, <2>1, KeptFacts DEF trusted
    <2> QED
      BY <2>1, <2>2, OtherEnds
  <1>4. CASE kind \in {"squash", "commit"} /\ CommitInv(n)
    BY <1>4, AtCommit
  <1>5. CASE \/ prog \in {New3(n), New2(n), Update4(n), Update3(n)} /\ (trusted(n) => Present(n))
             \/ prog \in {New1(n), Update2(n)} /\ (trusted(n) => Listed(n))
    BY <1>5, AtPublish
  <1> QED
    BY <1>1, <1>2, <1>3, <1>4, <1>5 DEF OtherInv

LEMMA Associative ==
  ASSUME NEW S, NEW p \in Seq(S), NEW q \in Seq(S), NEW r \in Seq(S)
  PROVE  (p \o q) \o r = p \o (q \o r)
  <1> DEFINE x == p \o q
             y == q \o r
             a == x \o r
             b == p \o y
  <1>1. /\ x \in Seq(S) /\ Len(x) = Len(p) + Len(q)
        /\ \A i \in 1..Len(p) : x[i] = p[i]
        /\ \A i \in 1..Len(q) : x[Len(p) + i] = q[i]
    BY Concatenation
  <1>2. /\ y \in Seq(S) /\ Len(y) = Len(q) + Len(r)
        /\ \A i \in 1..Len(q) : y[i] = q[i]
        /\ \A i \in 1..Len(r) : y[Len(q) + i] = r[i]
    BY Concatenation
  <1>3. x \in Seq(S) /\ y \in Seq(S)
    BY <1>1, <1>2
  <1> HIDE DEF x, y
  <1>4. /\ a \in Seq(S) /\ Len(a) = Len(x) + Len(r)
        /\ \A i \in 1..Len(x) : a[i] = x[i]
        /\ \A i \in 1..Len(r) : a[Len(x) + i] = r[i]
    BY <1>3, Concatenation
  <1>5. /\ b \in Seq(S) /\ Len(b) = Len(p) + Len(y)
        /\ \A i \in 1..Len(p) : b[i] = p[i]
        /\ \A i \in 1..Len(y) : b[Len(p) + i] = y[i]
    BY <1>3, Concatenation
  <1> HIDE DEF a, b
  <1>6. /\ Len(p) \in Nat /\ Len(q) \in Nat /\ Len(r) \in Nat
        /\ Len(a) = Len(p) + Len(q) + Len(r) /\ Len(b) = Len(a)
        /\ Len(x) = Len(p) + Len(q) /\ Len(y) = Len(q) + Len(r)
    BY <1>1, <1>2, <1>4, <1>5
  <1>7. ASSUME NEW i \in 1..Len(a)
        PROVE  a[i] = b[i]
    <2>1. CASE i <= Len(p)
      <3>1. i \in 1..Len(p) /\ i \in 1..Len(x)
        BY <1>6, <2>1
      <3> QED
        BY <1>1, <1>4, <1>5, <3>1
    <2>2. CASE i > Len(p) /\ i <= Len(p) + Len(q)
      <3>1. PICK k : k = i - Len(p)
        OBVIOUS
      <3>2. k \in 1..Len(q) /\ i = Len(p) + k /\ i \in 1..Len(x) /\ k \in 1..Len(y)
        BY <1>6, <2>2, <3>1
      <3>3. a[i] = x[i] /\ x[i] = q[k]
        BY <1>1, <1>4, <3>2
      <3>4. b[i] = y[k] /\ y[k] = q[k]
        BY <1>2, <1>5, <3>2
      <3> QED
        BY <3>3, <3>4
    <2>3. CASE i > Len(p) + Len(q)
      <3>1. PICK k : k = i - Len(p) - Len(q)
        OBVIOUS
      <3>2. /\ k \in 1..Len(r) /\ i = Len(x) + k /\ Len(q) + k \in 1..Len(y)
            /\ i = Len(p) + (Len(q) + k)
        BY <1>6, <2>3, <3>1
      <3>3. a[i] = r[k]
        BY <1>4, <3>2
      <3>4. b[i] = y[Len(q) + k] /\ y[Len(q) + k] = r[k]
        BY <1>2, <1>5, <3>2
      <3> QED
        BY <3>3, <3>4
    <2> QED
      BY <1>6, <2>1, <2>2, <2>3
  <1>8. a = b
    BY <1>4, <1>5, <1>6, <1>7, SameSequence
  <1> QED
    BY <1>8 DEF a, b, x, y

LEMMA NothingBefore ==
  ASSUME NEW S, NEW q \in Seq(S)
  PROVE  <<>> \o q = q
  <1> DEFINE e == <<>>
  <1>1. e \in Seq(S) /\ Len(e) = 0
    OBVIOUS
  <1> HIDE DEF e
  <1> DEFINE p == e \o q
  <1>2. /\ p \in Seq(S) /\ Len(p) = Len(e) + Len(q)
        /\ \A i \in 1..Len(q) : p[Len(e) + i] = q[i]
    BY <1>1, Concatenation
  <1> HIDE DEF p
  <1>3. Len(p) = Len(q) /\ \A i \in 1..Len(p) : p[i] = q[i]
    BY <1>1, <1>2
  <1>4. p = q
    BY <1>2, <1>3, SameSequence
  <1> QED
    BY <1>4 DEF p, e

\* What these say of the steps of jobs
LEMMA StepAppend ==
  \A a \in Steps : \A r, q \in Seq(Steps) : cons(a, r) \o q = cons(a, r \o q)
  <1>1. ASSUME NEW a \in Steps, NEW r \in Seq(Steps), NEW q \in Seq(Steps)
        PROVE  cons(a, r) \o q = cons(a, r \o q)
    BY ConsAppend
  <1> QED
    BY <1>1

LEMMA StepsAppend ==
  /\ \A p, q, r \in Seq(Steps) : (p \o q) \o r = p \o (q \o r)
  /\ \A a \in Steps : <<a>> \in Seq(Steps)
  /\ \A a \in Steps : \A q \in Seq(Steps) : cons(a, q) \in Seq(Steps)
  <1>1. ASSUME NEW p \in Seq(Steps), NEW q \in Seq(Steps), NEW r \in Seq(Steps)
        PROVE  (p \o q) \o r = p \o (q \o r)
    BY Associative
  <1>2. ASSUME NEW a \in Steps
        PROVE  <<a>> \in Seq(Steps)
    OBVIOUS
  <1>3. ASSUME NEW a \in Steps, NEW q \in Seq(Steps)
        PROVE  cons(a, q) \in Seq(Steps)
    BY ConsParts
  <1> QED
    BY <1>1, <1>2, <1>3

LEMMA StepsBefore ==
  /\ \A a \in Steps : \A q \in Seq(Steps) : <<a>> \o q = cons(a, q)
  /\ \A a, b \in Steps : \A q \in Seq(Steps) : <<a, b>> \o q = cons(a, cons(b, q))
  /\ \A a, b, c \in Steps : \A q \in Seq(Steps) :
         <<a, b, c>> \o q = cons(a, cons(b, cons(c, q)))
  /\ \A a, b, c, d \in Steps : \A q \in Seq(Steps) :
         <<a, b, c, d>> \o q = cons(a, cons(b, cons(c, cons(d, q))))
  <1>1. ASSUME NEW a \in Steps, NEW q \in Seq(Steps)
        PROVE  <<a>> \o q = cons(a, q)
    BY DEF cons
  <1>2. ASSUME NEW a \in Steps, NEW b \in Steps, NEW q \in Seq(Steps)
        PROVE  <<a, b>> \o q = cons(a, cons(b, q))
    <2> DEFINE r == <<b>>
    <2>1. cons(a, r) = <<a, b>> /\ r \o q = cons(b, q) /\ r \in Seq(Steps)
      BY <1>1, TupleForms, StepsAppend
    <2> HIDE DEF r
    <2>2. cons(a, r) \o q = cons(a, r \o q)
      BY <2>1, StepAppend
    <2> QED
      BY <2>1, <2>2
  <1>3. ASSUME NEW a \in Steps, NEW b \in Steps, NEW c \in Steps, NEW q \in Seq(Steps)
        PROVE  <<a, b, c>> \o q = cons(a, cons(b, cons(c, q)))
    <2> DEFINE r == <<b, c>>
    <2>1. cons(a, r) = <<a, b, c>> /\ r \o q = cons(b, cons(c, q)) /\ r \in Seq(Steps)
      BY <1>2, TupleForms
    <2>3. r \in Seq(Steps)
      BY <2>1
    <2> HIDE DEF r
    <2>2. cons(a, r) \o q = cons(a, r \o q)
      BY <2>3, StepAppend
    <2> QED
      BY <2>1, <2>2
  <1>4. ASSUME NEW a \in Steps, NEW b \in Steps, NEW c \in Steps, NEW d \in Steps,
               NEW q \in Seq(Steps)
        PROVE  <<a, b, c, d>> \o q = cons(a, cons(b, cons(c, cons(d, q))))
    <2> DEFINE r == <<b, c, d>>
    <2>1. cons(a, r) = <<a, b, c, d>> /\ r \o q = cons(b, cons(c, cons(d, q))) /\ r \in Seq(Steps)
      BY <1>3, TupleForms
    <2>3. r \in Seq(Steps)
      BY <2>1
    <2> HIDE DEF r
    <2>2. cons(a, r) \o q = cons(a, r \o q)
      BY <2>3, StepAppend
    <2> QED
      BY <2>1, <2>2
  <1> QED
    BY <1>1, <1>2, <1>3, <1>4

LEMMA PartForms ==
  ASSUME NEW n \in Names, NEW q \in Seq(Steps)
  PROVE  /\ remove_ws_image(n) \o q = cons(<<"find", n>>, cons(<<"untag", n>>, q))
         /\ pull(n) \o q = cons(<<"pull", n>>, cons(<<"await", n>>,
                                cons(<<"refresh", n>>, cons(<<"resync", n>>, q))))
         /\ pull(n) = Same4(n)
  <1>1. n \in AllNames
    BY NameFacts
  <1>2. /\ <<"find", n>> \in Steps /\ <<"untag", n>> \in Steps /\ <<"pull", n>> \in Steps
        /\ <<"await", n>> \in Steps /\ <<"refresh", n>> \in Steps /\ <<"resync", n>> \in Steps
    BY <1>1, StepFacts DEF Ops
  <1> DEFINE a == <<"find", n>>
             b == <<"untag", n>>
             c == <<"pull", n>>
             d == <<"await", n>>
             e == <<"refresh", n>>
             f == <<"resync", n>>
  <1>3. /\ remove_ws_image(n) = <<a, b>> /\ pull(n) = <<c, d, e, f>>
        /\ Same4(n) = cons(c, cons(d, cons(e, <<f>>)))
    BY DEF remove_ws_image, pull, Same4, Same3, Same2, Same1
  <1>4. a \in Steps /\ b \in Steps /\ c \in Steps /\ d \in Steps /\ e \in Steps /\ f \in Steps
    BY <1>2
  <1> HIDE DEF a, b, c, d, e, f
  <1>5. <<a, b>> \o q = cons(a, cons(b, q))
    BY <1>4, StepsBefore
  <1>6. <<c, d, e, f>> \o q = cons(c, cons(d, cons(e, cons(f, q))))
    BY <1>4, StepsBefore
  <1>7. cons(c, cons(d, cons(e, <<f>>))) = <<c, d, e, f>>
    BY TupleForms
  <1>8. /\ remove_ws_image(n) \o q = cons(a, cons(b, q))
        /\ pull(n) \o q = cons(c, cons(d, cons(e, cons(f, q))))
        /\ pull(n) = Same4(n)
    BY <1>3, <1>5, <1>6, <1>7
  <1> QED
    BY <1>8 DEF a, b, c, d, e, f

LEMMA ProgramForms ==
  ASSUME NEW j, j.ws \in Names, j.kind \in {"squash", "commit", "build", "update"}
  PROVE  program(j) = CASE j.kind = "squash" -> Squash3(j.ws)
                        [] j.kind = "commit" -> Commit1(j.ws)
                        [] j.kind = "build" -> Build1(j.ws)
                        [] OTHER -> Update5(j.ws)
  <1>1. CASE j.kind = "squash"
    <2> DEFINE a == <<"find", j.ws>>
               b == <<"from", j.ws>>
    <2>1. program(j) = <<a, b>> \o Commit1(j.ws) /\ Squash3(j.ws) = cons(a, cons(b, Commit1(j.ws)))
      BY <1>1 DEF program, commit, Commit1, Squash3, Squash2
    <2>2. a \in Steps /\ b \in Steps
      BY NameFacts, StepFacts DEF Ops
    <2>3. Commit1(j.ws) \in Seq(Steps)
      BY CommitPrograms DEF Program
    <2> HIDE DEF a, b
    <2>4. <<a, b>> \o Commit1(j.ws) = cons(a, cons(b, Commit1(j.ws)))
      BY <2>2, <2>3, StepsBefore
    <2> QED
      BY <1>1, <2>1, <2>4
  <1>2. CASE j.kind = "commit"
    BY <1>2 DEF program, commit, Commit1
  <1>3. CASE j.kind = "build"
    BY <1>3 DEF program, Build1
  <1>4. CASE j.kind = "update"
    <2>1. program(j) = pull(j.ws) \o New1(j.ws)
      BY <1>4 DEF program, New1
    <2>2. New1(j.ws) \in Seq(Steps)
      BY CommitPrograms DEF Program
    <2>3. pull(j.ws) \o New1(j.ws) = Update5(j.ws)
      BY <2>2, PartForms DEF Update5, Update4, Update3, Update2
    <2> QED
      BY <1>4, <2>1, <2>3
  <1> QED
    BY <1>1, <1>2, <1>3, <1>4

LEMMA LocalForms ==
  ASSUME NEW w \in Names, NEW s \in Names, NEW e \in BOOLEAN
  PROVE  when(e, remove_ws_image(w)) \o << <<"tag", s, w>> >>
           = IF e THEN Local3(w, s) ELSE Local1(w, s)
  <1>1. Local1(w, s) \in Seq(Steps)
    BY LocalPrograms DEF Program
  <1>2. CASE e = TRUE
    <2>1. remove_ws_image(w) \o Local1(w, s) = Local3(w, s)
      BY <1>1, PartForms DEF Local3, Local2
    <2> QED
      BY <1>2, <2>1 DEF when, Local1
  <1>3. CASE e = FALSE
    <2>1. <<>> \o Local1(w, s) = Local1(w, s)
      BY <1>1, NothingBefore
    <2> QED
      BY <1>3, <2>1 DEF when, Local1
  <1> QED
    BY <1>2, <1>3

LEMMA SameForms ==
  ASSUME NEW w \in Names, NEW e \in BOOLEAN
  PROVE  when(e, remove_ws_image(w)) \o pull(w) = IF e THEN Same6(w) ELSE Same4(w)
  <1>1. Same4(w) \in Seq(Steps)
    BY SamePrograms DEF Program
  <1>2. pull(w) = Same4(w) /\ remove_ws_image(w) \o Same4(w) = Same6(w)
    BY <1>1, PartForms DEF Same6, Same5
  <1>3. CASE e = TRUE
    BY <1>2, <1>3 DEF when
  <1>4. CASE e = FALSE
    <2>1. <<>> \o Same4(w) = Same4(w)
      BY <1>1, NothingBefore
    <2> QED
      BY <1>2, <1>4, <2>1 DEF when
  <1> QED
    BY <1>3, <1>4

LEMMA OtherForms ==
  ASSUME NEW w \in Names, NEW s \in Names, NEW e \in BOOLEAN, NEW x \in BOOLEAN
  PROVE  when(x, << <<"untag", s>> >>) \o pull(s)
           \o when(e, remove_ws_image(w))
           \o << <<"tag", s, w>>, <<"untag", s>> >>
           \o when(x, << <<"tag", backup(s), s>> >>)
           = IF x THEN Other9(w, s, e, x) ELSE Other8(w, s, e, x)
  <1> DEFINE a == when(x, << <<"untag", s>> >>)
             b == pull(s)
             c == when(e, remove_ws_image(w))
             d == << <<"tag", s, w>>, <<"untag", s>> >>
             f == Other0(s, x)
  <1>0. w \in AllNames /\ s \in AllNames /\ backup(s) \in AllNames
    BY NameFacts
  <1>1. /\ a \in Seq(Steps) /\ b \in Seq(Steps) /\ c \in Seq(Steps) /\ d \in Seq(Steps)
        /\ f \in Seq(Steps)
    <2>1. /\ <<"untag", s>> \in Steps /\ <<"tag", s, w>> \in Steps
          /\ <<"find", w>> \in Steps /\ <<"untag", w>> \in Steps
          /\ <<"tag", backup(s), s>> \in Steps
      BY <1>0, StepFacts DEF Ops
    <2>2. a \in Seq(Steps) /\ d \in Seq(Steps) /\ f \in Seq(Steps) /\ c \in Seq(Steps)
      BY <2>1 DEF when, Other0, remove_ws_image
    <2>3. b \in Seq(Steps)
      <3>1. Same4(s) \in Seq(Steps)
        BY SamePrograms DEF Program
      <3> QED
        BY <3>1, PartForms
    <2> QED
      BY <2>2, <2>3
  <1>2. d \o f = Other2(w, s, x)
    <2>1. <<"tag", s, w>> \in Steps /\ <<"untag", s>> \in Steps
      BY <1>0, StepFacts DEF Ops
    <2>2. << <<"tag", s, w>>, <<"untag", s>> >> \o f = cons(<<"tag", s, w>>, cons(<<"untag", s>>, f))
      <3> DEFINE y == <<"tag", s, w>>
                 z == <<"untag", s>>
      <3>1. y \in Steps /\ z \in Steps /\ f \in Seq(Steps)
        BY <1>1, <2>1
      <3> HIDE DEF y, z, f
      <3>2. <<y, z>> \o f = cons(y, cons(z, f))
        BY <3>1, StepsBefore
      <3> QED
        BY <3>2 DEF y, z
    <2> QED
      BY <2>2 DEF Other2, Other1
  <1>3. Other2(w, s, x) \in Seq(Steps) /\ Copying(w, s, e, x) \in Seq(Steps)
        /\ Other8(w, s, e, x) \in Seq(Steps)
    BY OtherPrograms DEF Program
  <1>4. c \o Other2(w, s, x) = Copying(w, s, e, x)
    <2>1. CASE e = TRUE
      <3>1. remove_ws_image(w) \o Other2(w, s, x) = Other4(w, s, x)
        BY <1>3, PartForms DEF Other4, Other3
      <3> QED
        BY <2>1, <3>1 DEF when, Copying
    <2>2. CASE e = FALSE
      <3>1. <<>> \o Other2(w, s, x) = Other2(w, s, x)
        BY <1>3, NothingBefore
      <3> QED
        BY <2>2, <3>1 DEF when, Copying
    <2> QED
      BY <2>1, <2>2
  <1>5. b \o Copying(w, s, e, x) = Other8(w, s, e, x)
    BY <1>3, PartForms DEF Other8, Other7, Other6, Other5
  <1>6. a \o Other8(w, s, e, x) = IF x THEN Other9(w, s, e, x) ELSE Other8(w, s, e, x)
    <2>1. CASE x = TRUE
      <3>1. << <<"untag", s>> >> \o Other8(w, s, e, x) = Other9(w, s, e, x)
        BY DEF Other9, cons
      <3> QED
        BY <2>1, <3>1 DEF when
    <2>2. CASE x = FALSE
      <3>1. <<>> \o Other8(w, s, e, x) = Other8(w, s, e, x)
        BY <1>3, NothingBefore
      <3> QED
        BY <2>2, <3>1 DEF when
    <2> QED
      BY <2>1, <2>2
  <1>7. when(x, << <<"tag", backup(s), s>> >>) = f
    BY DEF Other0
  <1> HIDE DEF a, b, c, d, f
  <1>8. (((a \o b) \o c) \o d) \o f = a \o (b \o (c \o (d \o f)))
    <2>1. (a \o b) \in Seq(Steps)
      BY <1>1, Concatenation
    <2> DEFINE p == a \o b
               q == d \o f
    <2>2. p \in Seq(Steps)
      BY <2>1
    <2>3. q \in Seq(Steps) /\ c \o q \in Seq(Steps)
      BY <1>2, <1>3, <1>4
    <2> HIDE DEF p, q
    <2>4. p \o c \in Seq(Steps)
      BY <1>1, <2>2, Concatenation
    <2>5. ((p \o c) \o d) \o f = (p \o c) \o (d \o f)
      <3> DEFINE h == p \o c
      <3>1. h \in Seq(Steps) /\ d \in Seq(Steps) /\ f \in Seq(Steps)
        BY <1>1, <2>4
      <3> HIDE DEF h
      <3>2. (h \o d) \o f = h \o (d \o f)
        BY <3>1, StepsAppend, Zenon
      <3> QED
        BY <3>2 DEF h
    <2>6. (p \o c) \o q = p \o (c \o q)
      <3>1. p \in Seq(Steps) /\ c \in Seq(Steps) /\ q \in Seq(Steps)
        BY <1>1, <2>2, <2>3
      <3> QED
        BY <3>1, StepsAppend, Zenon
    <2>7. (a \o b) \o (c \o q) = a \o (b \o (c \o q))
      <3> DEFINE h == c \o q
      <3>1. a \in Seq(Steps) /\ b \in Seq(Steps) /\ h \in Seq(Steps)
        BY <1>1, <2>3
      <3> HIDE DEF h
      <3>2. (a \o b) \o h = a \o (b \o h)
        BY <3>1, StepsAppend, Zenon
      <3> QED
        BY <3>2 DEF h
    <2> QED
      BY <2>5, <2>6, <2>7 DEF p, q
  <1>9. (((a \o b) \o c) \o d) \o f = IF x THEN Other9(w, s, e, x) ELSE Other8(w, s, e, x)
    BY <1>2, <1>4, <1>5, <1>6, <1>8
  <1> QED
    BY <1>7, <1>9 DEF a, b, c, d

LEMMA SelectedForms ==
  ASSUME NEW j, j.ws \in Names, j.src \in Names, j.local \in BOOLEAN,
         NEW e \in BOOLEAN, NEW x \in BOOLEAN
  PROVE  selected(j, e, x) = Work(j.ws, j.src, j.local, e, x)
  <1> DEFINE w == j.ws
             s == j.src
             loc == j.local
             body == IF loc THEN when(e, remove_ws_image(w)) \o << <<"tag", s, w>> >>
                     ELSE IF w = s THEN when(e, remove_ws_image(w)) \o pull(s)
                     ELSE when(x, << <<"untag", s>> >>) \o pull(s)
                            \o when(e, remove_ws_image(w))
                            \o << <<"tag", s, w>>, <<"untag", s>> >>
                            \o when(x, << <<"tag", backup(s), s>> >>)
             checks == << <<"find", w>>, <<"compat", w>>, <<"overwrite", w>> >>
  <1>1. selected(j, e, x) = IF loc /\ w = s THEN << <<"refuse", w>> >> ELSE when(e, checks) \o body
    BY DEF selected
  <1>2. body = Body(w, s, loc, e, x)
    <2>1. CASE loc = TRUE
      BY <2>1, LocalForms DEF Body
    <2>2. CASE loc = FALSE /\ w = s
      BY <2>2, SameForms DEF Body
    <2>3. CASE loc = FALSE /\ w # s
      BY <2>3, OtherForms DEF Body
    <2> QED
      BY <2>1, <2>2, <2>3
  <1>3. Body(w, s, loc, e, x) \in Seq(Steps)
    BY CheckPrograms
  <1>4. checks \o Body(w, s, loc, e, x) = Check3(w, s, loc, e, x)
    <2> DEFINE a == <<"find", w>>
               b == <<"compat", w>>
               c == <<"overwrite", w>>
    <2>1. a \in Steps /\ b \in Steps /\ c \in Steps
      BY NameFacts, StepFacts DEF Ops
    <2> HIDE DEF a, b, c
    <2>2. <<a, b, c>> \o Body(w, s, loc, e, x) = cons(a, cons(b, cons(c, Body(w, s, loc, e, x))))
      BY <1>3, <2>1, StepsBefore
    <2> QED
      BY <2>2 DEF a, b, c, Check3, Check2, Check1
  <1>5. <<>> \o Body(w, s, loc, e, x) = Body(w, s, loc, e, x)
    BY <1>3, NothingBefore
  <1> HIDE DEF body, checks
  <1>6. CASE loc = TRUE /\ w = s
    BY <1>1, <1>6 DEF Work
  <1>7. CASE ~(loc = TRUE /\ w = s) /\ e = TRUE
    BY <1>1, <1>2, <1>4, <1>7 DEF Work, when
  <1>8. CASE ~(loc = TRUE /\ w = s) /\ e = FALSE
    BY <1>1, <1>2, <1>5, <1>8 DEF Work, when
  <1> QED
    BY <1>6, <1>7, <1>8

\* A job starts: the names are those of no job.
Starting ==
    /\ IInv /\ CatalogTyped /\ used \subseteq store
    /\ jobs # <<>> /\ phase = "queued"
    /\ \A n \in Names : trusted(n) => Good(n)

\* p makes the backups, then does q.
SavesFirst(w, s, e, x, p, q) ==
    /\ e = TRUE /\ x = TRUE /\ s # w =>
          p \in {cons(save(w), cons(save(s), q)), cons(save(s), cons(save(w), q))}
    /\ e = TRUE /\ ~(x = TRUE /\ s # w) => p = cons(save(w), q)
    /\ e = FALSE /\ x = TRUE /\ s # w => p = cons(save(s), q)
    /\ e = FALSE /\ ~(x = TRUE /\ s # w) => p = q

LEMMA SaveForms ==
  ASSUME NEW j, j.ws \in Names, j.src \in Names, NEW e \in BOOLEAN, NEW x \in BOOLEAN,
         NEW p \in saves(j, e, x), NEW q \in Seq(Steps)
  PROVE  SavesFirst(j.ws, j.src, e, x, p \o q, q)
  <1> DEFINE a == save(j.ws)
             b == save(j.src)
             y == x = TRUE /\ j.src # j.ws
             ofWs == when(e, <<a>>)
             ofSrc == when(y, <<b>>)
  <1>1. p = ofWs \o ofSrc \/ p = ofSrc \o ofWs
    <2>1. CASE x = TRUE
      BY <2>1 DEF saves, save
    <2>2. CASE x = FALSE
      BY <2>2 DEF saves, save
    <2> QED
      BY <2>1, <2>2
  <1>2. a \in Steps /\ b \in Steps
    BY NameFacts, StepFacts DEF save
  <1> HIDE DEF a, b
  <1>3. ofWs \in Seq(Steps) /\ ofSrc \in Seq(Steps)
    BY <1>2 DEF when
  <1>4. e = TRUE => ofWs = <<a>> /\ ofWs \o q = cons(a, q)
    BY DEF when, cons
  <1>5. e = FALSE => ofWs = <<>> /\ ofWs \o q = q
    BY NothingBefore DEF when
  <1>6. y => ofSrc = <<b>> /\ ofSrc \o q = cons(b, q)
    BY DEF when, cons
  <1>7. ~y => ofSrc = <<>> /\ ofSrc \o q = q
    BY NothingBefore DEF when
  <1> HIDE DEF ofWs, ofSrc
  <1>8. p \o q = ofWs \o (ofSrc \o q) \/ p \o q = ofSrc \o (ofWs \o q)
    <2>1. (ofWs \o ofSrc) \o q = ofWs \o (ofSrc \o q)
      BY <1>3, StepsAppend
    <2>2. (ofSrc \o ofWs) \o q = ofSrc \o (ofWs \o q)
      BY <1>3, StepsAppend
    <2> QED
      BY <1>1, <2>1, <2>2
  <1>9. CASE e = TRUE /\ y
    <2>1. ofWs \o cons(b, q) = cons(a, cons(b, q)) /\ ofSrc \o cons(a, q) = cons(b, cons(a, q))
      BY <1>4, <1>6, <1>9 DEF cons
    <2> QED
      BY <1>4, <1>6, <1>8, <1>9, <2>1 DEF a, b, SavesFirst
  <1>10. CASE e = TRUE /\ ~y
    <2>1. ofSrc \o cons(a, q) = cons(a, q)
      <3>1. cons(a, q) \in Seq(Steps)
        BY <1>2, StepsAppend
      <3>2. <<>> \o cons(a, q) = cons(a, q)
        BY <3>1, NothingBefore
      <3> QED
        BY <1>7, <1>10, <3>2
    <2> QED
      BY <1>4, <1>7, <1>8, <1>10, <2>1 DEF a, b, SavesFirst
  <1>11. CASE e = FALSE /\ y
    <2>1. ofWs \o cons(b, q) = cons(b, q)
      <3>1. cons(b, q) \in Seq(Steps)
        BY <1>2, StepsAppend
      <3>2. <<>> \o cons(b, q) = cons(b, q)
        BY <3>1, NothingBefore
      <3> QED
        BY <1>5, <1>11, <3>2
    <2> QED
      BY <1>5, <1>6, <1>8, <1>11, <2>1 DEF a, b, SavesFirst
  <1>12. CASE e = FALSE /\ ~y
    BY <1>5, <1>7, <1>8, <1>12 DEF SavesFirst
  <1> QED
    BY <1>9, <1>10, <1>11, <1>12

\* What is known of a name when a clone starts
Fresh(n) ==
    /\ Saved(n) /\ Intact(n)
    /\ tags[backup(n)] = None
    /\ n \notin store => Whole(n) /\ Absent(n)

LEMMA StartFacts ==
  ASSUME Starting, StartClone, phase' = "work"
  PROVE  /\ Quiet /\ spoiled' = spoiled /\ jobs' = jobs
         /\ \A n \in Names : tags'[n] = tags[n] /\ cache'[n] = cache[n] /\ tags'[backup(n)] = None
         /\ \A n \in Names : trusted(n)' => Fresh(n)'
         /\ Arrays' /\ start' = tags' /\ fetched' = None
         /\ \E p \in saves(job, job.ws \in store, job.src \in store) :
                prog' = p \o selected(job, job.ws \in store, job.src \in store)
  <1> DEFINE old == {Temp} \cup {backup(n) : n \in Names}
  <1>1. /\ Quiet /\ spoiled' = spoiled
    BY DEF StartClone, others, Quiet
  <1>2. /\ jobs' = jobs
        /\ \E p \in saves(job, job.ws \in store, job.src \in store) :
               prog' = p \o selected(job, job.ws \in store, job.src \in store)
        /\ tags' = [n \in AllNames |-> IF n \in old THEN None ELSE tags[n]]
        /\ cache' = [n \in AllNames |-> IF n \in old THEN None ELSE cache[n]]
        /\ start' = tags' /\ fetched' = None
    BY DEF StartClone, ends
  <1>3. Arrays
    BY DEF Starting, CatalogTyped, Arrays
  <1>4. Arrays'
    BY <1>2, <1>3 DEF Arrays
  <1>5. \A n \in Names : /\ n \in AllNames /\ backup(n) \in AllNames /\ n # Temp
                         /\ backup(n) \in old /\ n \notin old
    BY NameFacts
  <1>6. \A n \in Names : tags'[n] = tags[n] /\ cache'[n] = cache[n] /\ tags'[backup(n)] = None
    BY <1>2, <1>5
  <1>7. ASSUME NEW n \in Names, trusted(n)'
        PROVE  Fresh(n)'
    <2>1. Good(n)
      BY <1>1, <1>7 DEF Starting, trusted
    <2>2. Keeps(n)
      BY <1>1, <1>6, QuietKeeps
    <2>3. Good(n)'
      BY <2>1, <2>2, KeptFacts
    <2>4. Intact(n)' /\ Saved(n)' /\ tags'[backup(n)] = None
      BY <1>2, <1>6, <2>3 DEF Intact, Saved
    <2>5. ASSUME n \notin store'
          PROVE  Whole(n)' /\ Absent(n)'
      <3>1. n \notin used'
        BY <1>1, <2>2, <2>5 DEF Starting, Keeps, Quiet
      <3>2. Sane(n)'
        BY <2>3 DEF Good, Sane
      <3>3. Whole(n)'
        BY <2>4, <3>1, <3>2 DEF Whole, Safe
      <3>4. Absent(n)'
        BY <1>2, <2>3, <2>5, <3>1 DEF Absent, Good
      <3> QED
        BY <3>3, <3>4
    <2> QED
      BY <2>4, <2>5 DEF Fresh
  <1> QED
    BY <1>1, <1>2, <1>4, <1>6, <1>7

LEMMA StartsClone ==
  ASSUME Starting, StartClone, phase' = "work"
  PROVE  CloneInv(job.ws, job.src, job.local)'
  <1>1. PICK w, s, loc, e, x : /\ w = job.ws /\ s = job.src /\ loc = job.local
                              /\ e = (job.ws \in store) /\ x = (job.src \in store)
    OBVIOUS
  <1>2. w \in Names /\ s \in Names /\ loc \in BOOLEAN /\ e \in BOOLEAN /\ x \in BOOLEAN
    <2>1. job.ws \in Names /\ job.src \in Names /\ job.local \in BOOLEAN
      BY JobNames DEF Starting
    <2>2. e \in BOOLEAN
      BY <1>1
    <2>3. x \in BOOLEAN
      BY <1>1
    <2> QED
      BY <1>1, <2>1, <2>2, <2>3
  <1>3. /\ e = TRUE => w \in store
        /\ e = FALSE => w \notin store
        /\ x = TRUE => s \in store
        /\ x = FALSE => s \notin store
    <2>1. (e = TRUE => w \in store) /\ (e = FALSE => w \notin store)
      BY <1>1
    <2>2. (x = TRUE => s \in store) /\ (x = FALSE => s \notin store)
      BY <1>1
    <2> QED
      BY <2>1, <2>2
  <1>4. /\ \A n \in {w, s} : trusted(n)' => Fresh(n)'
        /\ \A n \in {w, s} : tags'[backup(n)] = None
        /\ store' = store /\ jobs' = jobs
    BY <1>2, StartFacts DEF Quiet
  <1> DEFINE k == Work(w, s, loc, e, x)
  <1>5. PICK p \in saves(job, e, x) : prog' = p \o k
    <2>1. PICK p \in saves(job, job.ws \in store, job.src \in store) :
              prog' = p \o selected(job, job.ws \in store, job.src \in store)
      BY StartFacts
    <2>2. p \in saves(job, e, x) /\ prog' = p \o selected(job, e, x)
      BY <1>1, <2>1
    <2>3. selected(job, e, x) = k
      BY <1>1, <1>2, SelectedForms
    <2> QED
      BY <2>2, <2>3
  <1>6. k \in Seq(Steps)
    BY <1>2, CheckPrograms
  <1> HIDE DEF k
  <1>7. /\ e = TRUE /\ x = TRUE /\ s # w => prog' \in {cons(save(w), cons(save(s), k)),
                                                       cons(save(s), cons(save(w), k))}
        /\ e = TRUE /\ ~(x = TRUE /\ s # w) => prog' = cons(save(w), k)
        /\ e = FALSE /\ x = TRUE /\ s # w => prog' = cons(save(s), k)
        /\ e = FALSE /\ ~(x = TRUE /\ s # w) => prog' = k
    <2>1. PICK j : j = job
      OBVIOUS
    <2>2. j.ws = w /\ j.src = s /\ j.ws \in Names /\ j.src \in Names /\ p \in saves(j, e, x)
      BY <1>1, <1>2, <1>5, <2>1
    <2>3. SavesFirst(j.ws, j.src, e, x, p \o k, k)
      <3>1. /\ j.ws \in Names /\ j.src \in Names /\ p \in saves(j, e, x)
            /\ e \in BOOLEAN /\ x \in BOOLEAN /\ k \in Seq(Steps)
        BY <1>2, <1>6, <2>2
      <3> QED
        BY <3>1, SaveForms
    <2> QED
      BY <1>5, <2>2, <2>3 DEF SavesFirst
  <1>8. \A n \in {w, s} : trusted(n)' => Saved(n)' /\ Intact(n)'
    BY <1>4 DEF Fresh
  <1>9. \A n \in {w, s} : trusted(n)' /\ n \notin store => Whole(n)' /\ Safe(n)' /\ Absent(n)'
    BY <1>4 DEF Fresh, Whole
  <1>10. \/ Saving(w, s, loc, e, x)'
         \/ Checking(w, s, loc, e, x)'
    <2>1. CASE e = TRUE /\ x = TRUE /\ s # w
      <3>1. \E a \in {w, s} : \E b \in {w, s} :
                b # a /\ prog' = cons(save(a), cons(save(b), Work(w, s, loc, e, x)))
        BY <1>7, <2>1 DEF k
      <3>2. \A n \in {w, s} : trusted(n)' => n \in store'
        BY <1>3, <1>4, <2>1
      <3> QED
        BY <1>4, <1>8, <3>1, <3>2 DEF Saving
    <2>2. CASE e = TRUE /\ ~(x = TRUE /\ s # w)
      <3>1. prog' = cons(save(w), Work(w, s, loc, e, x))
        BY <1>7, <2>2 DEF k
      <3>2. s # w => s \notin store
        BY <1>2, <1>3, <2>2
      <3>3. \A n \in {w, s} : trusted(n)' => (n = w => n \in store') /\ (n # w => Safe(n)')
        BY <1>3, <1>4, <1>9, <2>2, <3>2
      <3> QED
        BY <1>4, <1>8, <3>1, <3>3 DEF Saving
    <2>3. CASE e = FALSE /\ x = TRUE /\ s # w
      <3>1. prog' = cons(save(s), Work(w, s, loc, e, x))
        BY <1>7, <2>3 DEF k
      <3>2. \A n \in {w, s} : trusted(n)' => (n = s => n \in store') /\ (n # s => Safe(n)')
        BY <1>3, <1>4, <1>9, <2>3
      <3> QED
        BY <1>4, <1>8, <3>1, <3>2 DEF Saving
    <2>4. CASE e = FALSE /\ ~(x = TRUE /\ s # w)
      <3>1. prog' = Work(w, s, loc, e, x)
        BY <1>7, <2>4 DEF k
      <3>2. s # w => s \notin store
        BY <1>2, <1>3, <2>4
      <3>3. \A n \in {w, s} : trusted(n)' => Whole(n)' /\ Intact(n)'
        BY <1>3, <1>8, <1>9, <2>4, <3>2
      <3> QED
        BY <2>4, <3>1, <3>3 DEF Checking, Work
    <2>5. e = TRUE \/ e = FALSE
      BY <1>2
    <2> QED
      BY <2>1, <2>2, <2>3, <2>4, <2>5
  <1>11. trusted(s)' /\ ~x => Absent(s)'
    <2>1. ~x => s \notin store
      BY <1>1
    <2> QED
      BY <1>9, <2>1
  <1>12. CloneInv(w, s, loc)'
    <2>1. CloneWorks(w, s, loc)'
      BY <1>2, <1>10, <1>11 DEF CloneWorks
    <2> QED
      BY <2>1 DEF CloneInv
  <1>13. job'.ws = w /\ job'.src = s /\ job'.local = loc
    BY <1>1, <1>4 DEF job
  <1> QED
    BY <1>12, <1>13 DEF CloneInv

LEMMA StartsOther ==
  ASSUME Starting, StartJob
  PROVE  /\ Quiet /\ spoiled' = spoiled /\ jobs' = jobs /\ phase' = "work" /\ Arrays'
         /\ start' = start /\ fetched' = fetched /\ prog' = program(job)
         /\ \A n \in Names : Keeps(n)
         /\ OtherInv(job.ws, job.kind)'
  <1>1. /\ Quiet /\ spoiled' = spoiled /\ jobs' = jobs /\ phase' = "work"
        /\ start' = start /\ fetched' = fetched /\ prog' = program(job)
        /\ tags' = [tags EXCEPT ![Temp] = None] /\ cache' = cache /\ job.kind # "clone"
    BY DEF StartJob, others, Quiet
  <1>2. Arrays /\ \A n \in Names : n \in AllNames /\ n # Temp
    BY NameFacts DEF Starting, CatalogTyped, Arrays
  <1>3. Arrays' /\ \A n \in Names : tags'[n] = tags[n]
    BY <1>1, <1>2, NameFacts DEF Arrays
  <1>4. \A n \in Names : Keeps(n)
    BY <1>1, <1>3, QuietKeeps
  <1>5. job.ws \in Names /\ job.kind \in {"squash", "commit", "build", "update"}
    BY <1>1, JobNames DEF Starting, Kinds
  <1>6. PICK n, kind : n = job.ws /\ kind = job.kind
    OBVIOUS
  <1>7. trusted(n)' => Good(n)'
    BY <1>1, <1>4, <1>5, <1>6, KeptFacts DEF Starting, trusted
  <1>8. prog' = CASE kind = "squash" -> Squash3(n)
                  [] kind = "commit" -> Commit1(n)
                  [] kind = "build" -> Build1(n)
                  [] OTHER -> Update5(n)
    BY <1>1, <1>5, <1>6, ProgramForms
  <1>9. OtherInv(n, kind)'
    <2>1. CASE kind = "squash"
      BY <1>1, <1>7, <1>8, <2>1 DEF OtherInv, CommitInv
    <2>2. CASE kind = "commit"
      BY <1>1, <1>7, <1>8, <2>2 DEF OtherInv, CommitInv
    <2>3. CASE kind = "build"
      BY <1>1, <1>7, <1>8, <2>3 DEF OtherInv
    <2>4. CASE kind = "update"
      BY <1>1, <1>7, <1>8, <2>4 DEF OtherInv
    <2> QED
      BY <1>5, <1>6, <2>1, <2>2, <2>3, <2>4
  <1>10. job' = job
    BY <1>1 DEF job
  <1> QED
    BY <1>1, <1>3, <1>4, <1>6, <1>9, <1>10 DEF OtherInv

\* The steps of a job on w and s: they concern these names, their backups and the
\* temporary name.
StepsOn(w, s) ==
    {<<op, n>> : op \in Ops \ {"tag"}, n \in {w, s}}
      \cup {<<op, n>> : op \in {"untag", "rmi", "commit"}, n \in {Temp, backup(w), backup(s)}}
      \cup {<<"tag", m, n>> : m \in {w, s, backup(w), backup(s)},
                              n \in {w, s, backup(w), backup(s)}}

LEMMA StepsOnFacts ==
  ASSUME NEW w \in Names, NEW s \in Names
  PROVE  /\ StepsOn(w, s) \subseteq Steps
         /\ \A p \in Seq(StepsOn(w, s)) : p \in Seq(Steps)
  <1>1. /\ w \in AllNames /\ s \in AllNames /\ backup(w) \in AllNames /\ backup(s) \in AllNames
        /\ Temp \in AllNames
    BY NameFacts
  <1>2. StepsOn(w, s) \subseteq Steps
    BY <1>1 DEF StepsOn, Steps, Ops
  <1> QED
    BY <1>2

\* All that the programs of a job are made of
LEMMA ProgramsOn ==
  ASSUME NEW j, j.ws \in Names, j.src \in Names
  PROVE  LET T == StepsOn(j.ws, j.src) IN
         /\ \A n \in {j.ws, j.src} : commit_over(n) \in Seq(T) /\ commit_new(n) \in Seq(T)
         /\ \A e, x \in BOOLEAN : selected(j, e, x) \in Seq(T)
         /\ \A e, x \in BOOLEAN : \A p \in saves(j, e, x) : p \in Seq(T)
         /\ program(j) \in Seq(T)
         /\ \A order \in orders(j) :
                /\ restore(j, order) \in Seq(T)
                /\ forget(order) \o << <<"resync", j.ws>> >> \in Seq(T)
  <1> DEFINE T == StepsOn(j.ws, j.src)
  <1>1. /\ \A op \in Ops : \A n \in {j.ws, j.src} : op # "tag" => <<op, n>> \in T
        /\ \A op \in {"untag", "rmi", "commit"} :
               \A n \in {Temp, backup(j.ws), backup(j.src)} : <<op, n>> \in T
        /\ \A m, n \in {j.ws, j.src, backup(j.ws), backup(j.src)} : <<"tag", m, n>> \in T
    BY DEF StepsOn
  <1> HIDE DEF T
  <1>2. ASSUME NEW n \in {j.ws, j.src}
        PROVE  /\ <<"find", n>> \in T /\ <<"untag", n>> \in T /\ <<"pull", n>> \in T
               /\ <<"await", n>> \in T /\ <<"refresh", n>> \in T /\ <<"resync", n>> \in T
               /\ <<"compat", n>> \in T /\ <<"overwrite", n>> \in T /\ <<"refuse", n>> \in T
               /\ <<"from", n>> \in T /\ <<"choose", n>> \in T /\ <<"commit", n>> \in T
               /\ <<"rmi", n>> \in T /\ <<"retag", n>> \in T /\ <<"build", n>> \in T
               /\ <<"drop", n>> \in T /\ <<"commit", Temp>> \in T /\ <<"rmi", Temp>> \in T
               /\ <<"tag", n, backup(n)>> \in T /\ <<"tag", backup(n), n>> \in T
               /\ <<"tag", j.src, n>> \in T /\ <<"untag", backup(n)>> \in T
    <2>1. \A op \in {"find", "untag", "pull", "await", "refresh", "resync", "compat", "overwrite",
                     "refuse", "from", "choose", "commit", "rmi", "retag", "build", "drop"} :
              <<op, n>> \in T
      BY <1>1 DEF Ops
    <2>2. <<"commit", Temp>> \in T /\ <<"rmi", Temp>> \in T /\ <<"untag", backup(n)>> \in T
      BY <1>1
    <2>3. /\ <<"tag", n, backup(n)>> \in T /\ <<"tag", backup(n), n>> \in T
          /\ <<"tag", j.src, n>> \in T
      BY <1>1
    <2> QED
      BY <2>1, <2>2, <2>3
  <1>3. ASSUME NEW n \in {j.ws, j.src}
        PROVE  /\ commit_over(n) \in Seq(T) /\ commit_new(n) \in Seq(T)
               /\ remove_ws_image(n) \in Seq(T) /\ pull(n) \in Seq(T) /\ commit(n) \in Seq(T)
    <2> DEFINE a == <<"commit", Temp>>
               b == <<"rmi", n>>
               c == <<"retag", n>>
               d == <<"rmi", Temp>>
               e == <<"await", n>>
               f == <<"refresh", n>>
               g == <<"resync", n>>
               h == <<"commit", n>>
               k == <<"find", n>>
               l == <<"untag", n>>
               m == <<"pull", n>>
               o == <<"choose", n>>
    <2>1. /\ a \in T /\ b \in T /\ c \in T /\ d \in T /\ e \in T /\ f \in T /\ g \in T /\ h \in T
          /\ k \in T /\ l \in T /\ m \in T /\ o \in T
      BY <1>2
    <2>2. /\ commit_over(n) = <<a, b, c, d, e, f, g>> /\ commit_new(n) = <<h, e, f, g>>
          /\ remove_ws_image(n) = <<k, l>> /\ pull(n) = <<m, e, f, g>> /\ commit(n) = <<o>>
      BY DEF commit_over, commit_new, remove_ws_image, pull, commit
    <2> HIDE DEF a, b, c, d, e, f, g, h, k, l, m, o
    <2>3. <<a, b, c, d, e, f, g>> \in Seq(T)
      BY <2>1
    <2>4. <<h, e, f, g>> \in Seq(T) /\ <<m, e, f, g>> \in Seq(T)
      BY <2>1
    <2>5. <<k, l>> \in Seq(T) /\ <<o>> \in Seq(T)
      BY <2>1
    <2> QED
      BY <2>2, <2>3, <2>4, <2>5
  <1>5. \A c \in BOOLEAN : \A p \in Seq(T) : when(c, p) \in Seq(T)
    BY DEF when
  <1>6. ASSUME NEW p \in Seq(T), NEW q \in Seq(T)
        PROVE  p \o q \in Seq(T)
    OBVIOUS
  <1>7. ASSUME NEW e \in BOOLEAN, NEW x \in BOOLEAN
        PROVE  selected(j, e, x) \in Seq(T)
    <2> DEFINE checks == << <<"find", j.ws>>, <<"compat", j.ws>>, <<"overwrite", j.ws>> >>
               r == when(e, remove_ws_image(j.ws))
               t == << <<"tag", j.src, j.ws>> >>
               u == when(x, << <<"untag", j.src>> >>)
               c == << <<"tag", j.src, j.ws>>, <<"untag", j.src>> >>
               b == when(x, << <<"tag", backup(j.src), j.src>> >>)
               k == when(e, checks)
               d == << <<"refuse", j.ws>> >>
               l == pull(j.src)
    <2>1. /\ checks \in Seq(T) /\ t \in Seq(T) /\ c \in Seq(T) /\ d \in Seq(T)
          /\ << <<"untag", j.src>> >> \in Seq(T) /\ << <<"tag", backup(j.src), j.src>> >> \in Seq(T)
          /\ remove_ws_image(j.ws) \in Seq(T) /\ l \in Seq(T)
      BY <1>2, <1>3
    <2>2. r \in Seq(T) /\ u \in Seq(T) /\ b \in Seq(T) /\ k \in Seq(T)
      BY <1>5, <2>1
    <2>3. selected(j, e, x) \in {d, k \o (r \o t), k \o (r \o l), k \o ((((u \o l) \o r) \o c) \o b)}
      BY DEF selected
    <2> HIDE DEF checks, r, t, u, c, b, k, d, l
    <2>4. r \o t \in Seq(T) /\ r \o l \in Seq(T) /\ u \o l \in Seq(T)
      BY <1>6, <2>1, <2>2
    <2>5. (u \o l) \o r \in Seq(T)
      BY <1>6, <2>2, <2>4
    <2>6. ((u \o l) \o r) \o c \in Seq(T)
      BY <1>6, <2>1, <2>5
    <2>7. (((u \o l) \o r) \o c) \o b \in Seq(T)
      BY <1>6, <2>2, <2>6
    <2>8. /\ k \o (r \o t) \in Seq(T) /\ k \o (r \o l) \in Seq(T)
          /\ k \o ((((u \o l) \o r) \o c) \o b) \in Seq(T)
      BY <1>6, <2>2, <2>4, <2>7
    <2> QED
      BY <2>1, <2>3, <2>8
  <1>8. ASSUME NEW e \in BOOLEAN, NEW x \in BOOLEAN, NEW p \in saves(j, e, x)
        PROVE  p \in Seq(T)
    <2> DEFINE a == when(e, << <<"tag", j.ws, backup(j.ws)>> >>)
               b == when(x /\ j.src # j.ws, << <<"tag", j.src, backup(j.src)>> >>)
    <2>1. p = a \o b \/ p = b \o a
      BY DEF saves
    <2>2. /\ << <<"tag", j.ws, backup(j.ws)>> >> \in Seq(T)
          /\ << <<"tag", j.src, backup(j.src)>> >> \in Seq(T)
      BY <1>2
    <2>3. a \in Seq(T)
      BY <1>5, <2>2
    <2>4. b \in Seq(T)
      <3>1. PICK y \in BOOLEAN : y = (x /\ j.src # j.ws)
        OBVIOUS
      <3>2. when(y, << <<"tag", j.src, backup(j.src)>> >>) \in Seq(T)
        BY <1>5, <2>2
      <3> QED
        BY <3>1, <3>2
    <2> HIDE DEF a, b
    <2> QED
      BY <1>6, <2>1, <2>3, <2>4
  <1>9. program(j) \in Seq(T)
    <2>1. /\ << <<"find", j.ws>>, <<"from", j.ws>> >> \in Seq(T)
          /\ << <<"build", j.ws>> >> \in Seq(T) /\ << <<"resync", j.ws>> >> \in Seq(T)
          /\ commit(j.ws) \in Seq(T) /\ pull(j.ws) \in Seq(T)
      BY <1>2, <1>3
    <2>2. /\ << <<"find", j.ws>>, <<"from", j.ws>> >> \o commit(j.ws) \in Seq(T)
          /\ pull(j.ws) \o << <<"resync", j.ws>> >> \in Seq(T)
      BY <1>6, <2>1
    <2> QED
      BY <2>1, <2>2 DEF program
  <1>10. ASSUME NEW order \in orders(j)
         PROVE  /\ restore(j, order) \in Seq(T)
                /\ forget(order) \o << <<"resync", j.ws>> >> \in Seq(T)
    <2>1. PICK k \in 0..2 : order \in [1..k -> {j.ws, j.src}]
      BY OrderFacts
    <2>2. DOMAIN order = 1..k /\ k \in Nat
      BY <2>1
    <2> DEFINE f == forget(order)
               b == [i \in DOMAIN order |-> <<"tag", backup(order[i]), order[i]>>]
               d == << <<"drop", j.ws>>, <<"drop", j.src>> >>
               l == << <<"resync", j.ws>> >>
    <2>3. f \in [1..k -> T]
      BY <1>2, <2>1, <2>2 DEF forget
    <2>4. b \in [1..k -> T]
      BY <1>2, <2>1, <2>2
    <2>5. d \in Seq(T) /\ l \in Seq(T)
      BY <1>2
    <2>6. restore(j, order) = (d \o b) \o f
      BY DEF restore
    <2> HIDE DEF f, b, d, l
    <2>7. f \in Seq(T) /\ b \in Seq(T)
      BY <2>2, <2>3, <2>4
    <2>8. d \o b \in Seq(T) /\ f \o l \in Seq(T)
      BY <1>6, <2>5, <2>7
    <2>9. (d \o b) \o f \in Seq(T)
      BY <1>6, <2>7, <2>8
    <2> QED
      BY <2>6, <2>8, <2>9 DEF f, l
  <1> QED
    BY <1>3, <1>7, <1>8, <1>9, <1>10 DEF T

-----------------------------------------------------------------------------
\* What a step of a job on w and s does besides
Beside(w, s) ==
    /\ Arrays' /\ spoiled \subseteq spoiled' /\ store' \subseteq Names /\ used' \subseteq store'
    /\ image' = image /\ nested' = nested
    /\ \A n \in Names : n \notin {w, s} /\ Firm(n) => Keeps(n)

Turns(w, s) ==
    \/ Ends
    \/ /\ phase' # "queued" /\ JobsKept
       /\ start' \in [AllNames -> Ids \cup {None}] /\ fetched' \in Ids \cup {None}
       /\ prog' \in Seq(StepsOn(w, s))

\* A step of a job on w and s
OnNames(w, s) ==
    /\ Running /\ w \in Names /\ s \in Names /\ w = job.ws /\ s = job.src
    /\ prog \in Seq(StepsOn(w, s))

LEMMA OnNamesFacts ==
  ASSUME NEW w, NEW s, OnNames(w, s)
  PROVE  /\ Running /\ w \in Names /\ s \in Names
         /\ Fails => Turns(w, s)
         /\ Declines => Turns(w, s)
         /\ \A r \in Seq(StepsOn(w, s)) : Continues(r) => Turns(w, s)
  <1>1. Running /\ w \in Names /\ s \in Names /\ w = job.ws /\ s = job.src
    BY DEF OnNames
  <1>2. /\ phase # "queued" /\ fetched \in Ids \cup {None}
        /\ start \in [AllNames -> Ids \cup {None}]
    BY <1>1 DEF Running, working, CatalogTyped
  <1>3. ASSUME Fails
        PROVE  Turns(w, s)
    <2>1. CASE Ends
      BY <2>1 DEF Turns
    <2>2. CASE Restores
      <3>1. PICK order \in orders(job) : prog' = restore(job, order)
        BY <2>2 DEF Restores
      <3>2. restore(job, order) \in Seq(StepsOn(w, s))
        <4>1. PICK j : j = job
          OBVIOUS
        <4>2. j.ws \in Names /\ j.src \in Names /\ order \in orders(j) /\ w = j.ws /\ s = j.src
          BY <1>1, <4>1
        <4>3. restore(j, order) \in Seq(StepsOn(j.ws, j.src))
          BY <4>2, ProgramsOn
        <4> QED
          BY <4>1, <4>2, <4>3
      <3> QED
        BY <1>2, <2>2, <3>1, <3>2 DEF Restores, Turns, past_kept
    <2> QED
      BY <1>3, <2>1, <2>2 DEF Fails
  <1>4. ASSUME Declines
        PROVE  Turns(w, s)
    <2>1. <<>> \in Seq(StepsOn(w, s))
      OBVIOUS
    <2> QED
      BY <1>2, <1>4, <2>1 DEF Declines, Turns, past_kept
  <1>5. ASSUME NEW r \in Seq(StepsOn(w, s)), Continues(r)
        PROVE  Turns(w, s)
    BY <1>2, <1>5 DEF Continues, Turns, past_kept
  <1> QED
    BY <1>1, <1>3, <1>4, <1>5

LEMMA QuietBeside ==
  ASSUME NEW w, NEW s, OnNames(w, s), Quiet, Arrays', spoiled \subseteq spoiled',
         \A n \in Names : n \notin {w, s} => Keeps(n)
  PROVE  Beside(w, s)
  BY DEF OnNames, Running, CatalogTyped, Quiet, Beside, used

LEMMA StepOnNames ==
  ASSUME NEW w, NEW s, OnNames(w, s)
  PROVE  Beside(w, s) /\ Turns(w, s)
  <1> DEFINE T == StepsOn(w, s)
  <1>0. Running /\ w \in Names /\ s \in Names /\ prog \in Seq(T)
    BY DEF OnNames
  <1>1. CASE prog = <<>>
    <2>1. /\ Quiet /\ Same /\ Arrays' /\ spoiled' = spoiled /\ \A n \in Names : Keeps(n)
          /\ \/ /\ phase' # "queued" /\ JobsKept /\ past_kept
                /\ \E order \in orders(job) : prog' = forget(order) \o << <<"resync", job.ws>> >>
             \/ Ends
      BY <1>0, <1>1, WorkingDone
    <2>2. Beside(w, s)
      BY <2>1, QuietBeside
    <2>3. \A order \in orders(job) : forget(order) \o << <<"resync", job.ws>> >> \in Seq(T)
      <3>1. PICK j : j = job
        OBVIOUS
      <3>2. j.ws \in Names /\ j.src \in Names /\ w = j.ws /\ s = j.src
        BY <3>1 DEF OnNames
      <3>3. \A order \in orders(j) : forget(order) \o << <<"resync", j.ws>> >> \in Seq(T)
        BY <3>2, ProgramsOn
      <3> QED
        BY <3>1, <3>3
    <2>4. start \in [AllNames -> Ids \cup {None}] /\ fetched \in Ids \cup {None}
      BY <1>0 DEF Running, CatalogTyped
    <2>5. Turns(w, s)
      BY <2>1, <2>3, <2>4 DEF Turns, past_kept
    <2> QED
      BY <2>2, <2>5
  <1>2. CASE prog # <<>>
    <2>1. PICK h, r : /\ Program(prog, h, r) /\ h \in T /\ r \in Seq(T)
      <3>1. /\ Program(prog, prog[1], Tail(prog)) /\ prog[1] \in T /\ Tail(prog) \in Seq(T)
        BY <1>0, <1>2, HeadProgram, TailFacts
      <3> QED
        BY <3>1
    <2>2. \/ \E op \in Ops \ {"tag"}, n \in {w, s} : h = <<op, n>>
          \/ \E op \in {"untag", "rmi", "commit"}, n \in {Temp, backup(w), backup(s)} : h = <<op, n>>
          \/ \E m, n \in {w, s, backup(w), backup(s)} : h = <<"tag", m, n>>
      BY <2>1 DEF StepsOn
    <2> HIDE DEF T
    <2>3. /\ Fails => Turns(w, s)
          /\ Declines => Turns(w, s)
          /\ \A q \in Seq(T) : Continues(q) => Turns(w, s)
      BY OnNamesFacts DEF T
    <2>4. /\ w \in AllNames /\ s \in AllNames /\ backup(w) \in AllNames /\ backup(s) \in AllNames
          /\ Temp \in AllNames
          /\ \A n \in Names : n # Temp /\ n # backup(w) /\ n # backup(s)
      BY <1>0, NameFacts
    <2>5. ASSUME NEW m \in {w, s, backup(w), backup(s)}, NEW n \in {w, s, backup(w), backup(s)},
                 Program(prog, <<"tag", m, n>>, r)
          PROVE  Beside(w, s) /\ Turns(w, s)
      <3>1. m \in AllNames /\ n \in AllNames
        BY <2>4
      <3>2. /\ Quiet /\ Arrays' /\ spoiled \subseteq spoiled'
            /\ \A k \in Names : k # n => Keeps(k)
            /\ Continues(r) \/ Fails
        BY <1>0, <2>5, <3>1, DoTag
      <3>3. Beside(w, s)
        BY <2>4, <3>2, QuietBeside
      <3> QED
        BY <2>1, <2>3, <3>2, <3>3
    <2>6. ASSUME NEW n \in {w, s, Temp, backup(w), backup(s)}, Program(prog, <<"untag", n>>, r)
          PROVE  Beside(w, s) /\ Turns(w, s)
      <3>1. n \in AllNames
        BY <2>4
      <3>2. /\ Quiet /\ Arrays' /\ spoiled \subseteq spoiled'
            /\ \A k \in Names : k # n => Keeps(k)
            /\ Continues(r) \/ Fails
        BY <1>0, <2>6, <3>1, DoUntag
      <3>3. Beside(w, s)
        BY <2>4, <3>2, QuietBeside
      <3> QED
        BY <2>1, <2>3, <3>2, <3>3
    <2>7. ASSUME NEW n \in {w, s, Temp, backup(w), backup(s)}, Program(prog, <<"rmi", n>>, r)
          PROVE  Beside(w, s) /\ Turns(w, s)
      <3>1. n \in AllNames
        BY <2>4
      <3>2. /\ Quiet /\ Arrays' /\ spoiled' = spoiled
            /\ \A k \in Names : k # n => Keeps(k)
            /\ Continues(r) \/ Fails
        BY <1>0, <2>7, <3>1, DoRmi
      <3>3. Beside(w, s)
        BY <2>4, <3>2, QuietBeside
      <3> QED
        BY <2>1, <2>3, <3>2, <3>3
    <2>8. ASSUME NEW n \in {w, s, Temp, backup(w), backup(s)}, Program(prog, <<"commit", n>>, r)
          PROVE  Beside(w, s) /\ Turns(w, s)
      <3>1. n \in AllNames
        BY <2>4
      <3>2. /\ Quiet /\ Arrays' /\ spoiled' = spoiled
            /\ \A k \in Names : k # n => Keeps(k)
            /\ Continues(r) \/ Fails
        BY <1>0, <2>8, <3>1, DoCommit
      <3>3. Beside(w, s)
        BY <2>4, <3>2, QuietBeside
      <3> QED
        BY <2>1, <2>3, <3>2, <3>3
    <2>9. ASSUME NEW op \in Ops \ {"tag", "untag", "rmi", "commit"}, NEW n \in {w, s},
                 Program(prog, <<op, n>>, r)
          PROVE  Beside(w, s) /\ Turns(w, s)
      <3>0. n \in Names
        BY <1>0
      <3>1. CASE op = "drop"
        <4>1. /\ Quiet /\ Arrays' /\ spoiled \subseteq spoiled'
              /\ \A k \in Names : k # n => Keeps(k)
              /\ Continues(r) \/ Fails
          BY <1>0, <2>9, <3>0, <3>1, DoDrop
        <4> QED
          BY <2>1, <2>3, <4>1, QuietBeside
      <3>2. CASE op = "await"
        <4>1. /\ Quiet /\ Arrays' /\ spoiled' = spoiled
              /\ \A k \in Names : k # n => Keeps(k)
              /\ Continues(r)
          BY <1>0, <2>9, <3>0, <3>2, DoAwait
        <4> QED
          BY <2>1, <2>3, <4>1, QuietBeside
      <3>3. CASE op = "refresh"
        <4>1. /\ Quiet /\ Arrays' /\ spoiled' = spoiled
              /\ \A k \in Names : k # n => Keeps(k)
              /\ Continues(r)
          BY <1>0, <2>9, <3>0, <3>3, DoRefresh
        <4> QED
          BY <2>1, <2>3, <4>1, QuietBeside
      <3>4. CASE op = "resync"
        <4>1. /\ Arrays' /\ spoiled \subseteq spoiled' /\ UNCHANGED <<image, nested>>
              /\ store' \subseteq Names /\ used' \subseteq store'
              /\ \A k \in Names : Firm(k) => Keeps(k)
              /\ Continues(r) \/ Fails
          BY <1>0, <2>9, <3>0, <3>4, DoResync
        <4> QED
          BY <2>1, <2>3, <4>1 DEF Beside
      <3>5. CASE op = "find"
        <4>1. /\ Arrays' /\ spoiled' = spoiled /\ UNCHANGED <<image, nested>>
              /\ store' \subseteq Names /\ used' \subseteq store'
              /\ \A k \in Names : Firm(k) => Keeps(k)
              /\ Continues(r) \/ Fails
          BY <1>0, <2>9, <3>0, <3>5, DoFind
        <4> QED
          BY <2>1, <2>3, <4>1 DEF Beside
      <3>6. CASE op \in {"compat", "overwrite", "refuse"}
        <4>1. /\ Quiet /\ Arrays' /\ spoiled' = spoiled
              /\ \A k \in Names : k # n => Keeps(k)
              /\ Continues(r) \/ Declines
          BY <1>0, <2>9, <3>0, <3>6, DoCheck
        <4> QED
          BY <2>1, <2>3, <4>1, QuietBeside
      <3>7. CASE op = "pull"
        <4>1. /\ Quiet /\ Arrays' /\ spoiled' = spoiled
              /\ \A k \in Names : k # n => Keeps(k)
              /\ \/ /\ prog' = r /\ phase' = phase /\ JobsKept /\ start' = start
                    /\ fetched' \in Ids
                 \/ Fails
          BY <1>0, <2>9, <3>0, <3>7, DoPull
        <4>2. Beside(w, s)
          BY <4>1, QuietBeside
        <4>3. phase # "queued" /\ start \in [AllNames -> Ids \cup {None}]
          BY <1>0 DEF Running, working, CatalogTyped
        <4>4. Turns(w, s)
          BY <2>1, <2>3, <4>1, <4>3 DEF Turns, T
        <4> QED
          BY <4>2, <4>4
      <3>8. CASE op = "from"
        <4>1. /\ Quiet /\ Arrays' /\ spoiled' = spoiled
              /\ \A k \in Names : k # n => Keeps(k)
              /\ Continues(r) \/ Fails
          BY <1>0, <2>9, <3>0, <3>8, DoFrom
        <4> QED
          BY <2>1, <2>3, <4>1, QuietBeside
      <3>9. CASE op = "choose"
        <4>1. /\ Quiet /\ Arrays' /\ spoiled' = spoiled
              /\ \A k \in Names : k # n => Keeps(k)
              /\ Continues(commit_over(n)) \/ Continues(commit_new(n))
          BY <1>0, <2>9, <3>0, <3>9, DoChoose
        <4>2. commit_over(n) \in Seq(T) /\ commit_new(n) \in Seq(T)
          <5>1. PICK j : j = job
            OBVIOUS
          <5>2. j.ws \in Names /\ j.src \in Names /\ w = j.ws /\ s = j.src /\ n \in {j.ws, j.src}
            BY <5>1 DEF OnNames
          <5>3. /\ commit_over(n) \in Seq(StepsOn(j.ws, j.src))
                /\ commit_new(n) \in Seq(StepsOn(j.ws, j.src))
            BY <5>2, ProgramsOn
          <5> QED
            BY <5>2, <5>3 DEF T
        <4> QED
          BY <2>3, <4>1, <4>2, QuietBeside
      <3>10. CASE op = "retag"
        <4>1. /\ Quiet /\ Arrays' /\ spoiled' = spoiled
              /\ \A k \in Names : k # n => Keeps(k)
              /\ Continues(r)
          BY <1>0, <2>9, <3>0, <3>10, DoRetag
        <4> QED
          BY <2>1, <2>3, <4>1, QuietBeside
      <3>11. CASE op = "build"
        <4>1. /\ Arrays' /\ spoiled' = spoiled /\ UNCHANGED <<store, image, nested>>
              /\ \A k \in Names : k # n => Keeps(k)
              /\ Continues(r)
          BY <1>0, <2>9, <3>0, <3>11, DoBuild
        <4>2. Beside(w, s)
          BY <1>0, <4>1 DEF Beside, used, Running, CatalogTyped
        <4> QED
          BY <2>1, <2>3, <4>1, <4>2
      <3> QED
        BY <2>9, <3>1, <3>2, <3>3, <3>4, <3>5, <3>6, <3>7, <3>8, <3>9, <3>10, <3>11 DEF Ops
    <2>10. CASE \E op \in Ops \ {"tag"}, n \in {w, s} : h = <<op, n>>
      <3>1. PICK op \in Ops \ {"tag"}, n \in {w, s} : h = <<op, n>>
        BY <2>10
      <3>2. Program(prog, <<op, n>>, r)
        BY <2>1, <3>1
      <3>3. CASE op \in {"untag", "rmi", "commit"}
        BY <2>6, <2>7, <2>8, <3>2, <3>3
      <3>4. CASE op \notin {"untag", "rmi", "commit"}
        BY <2>9, <3>1, <3>2, <3>4
      <3> QED
        BY <3>3, <3>4
    <2>11. CASE \E op \in {"untag", "rmi", "commit"}, n \in {Temp, backup(w), backup(s)} :
                    h = <<op, n>>
      BY <2>1, <2>6, <2>7, <2>8, <2>11
    <2>12. CASE \E m, n \in {w, s, backup(w), backup(s)} : h = <<"tag", m, n>>
      BY <2>1, <2>5, <2>12
    <2> QED
      BY <2>2, <2>10, <2>11, <2>12
  <1> QED
    BY <1>1, <1>2

\* The steps left concern the names of the job only.
Belongs == working => prog \in Seq(StepsOn(job.ws, job.src))

Catalogued == IInv /\ CInv /\ Belongs

LEMMA TurnsTyped ==
  ASSUME IInv, CatalogTyped, jobs # <<>>, NEW w \in Names, NEW s \in Names, Turns(w, s),
         Arrays', store' \subseteq Names, image' = image, nested' = nested
  PROVE  CatalogTyped'
  <1>1. jobs \in Seq(Jobs) /\ Len(jobs) \in Nat /\ Len(jobs) >= 1
    BY DEF IInv, Typed
  <1>2. \A i \in 1..Len(jobs) : jobs[i].kind # "clone" => jobs[i].src = jobs[i].ws
    BY DEF CatalogTyped
  <1>3. /\ tags' \in [AllNames -> Ids \cup {None}] /\ cache' \in [AllNames -> Ids \cup {None}]
        /\ image' \in [Nodes -> Names] /\ nested' \in Names \cup {None}
    BY DEF Arrays, CatalogTyped
  <1>4. CASE Ends
    <2>1. /\ phase' = "queued" /\ prog' = <<>> /\ JobsEnded /\ start' = nothing /\ fetched' = None
      BY <1>4 DEF Ends
    <2>2. start' \in [AllNames -> Ids \cup {None}] /\ prog' \in Seq(Steps)
      BY <2>1 DEF nothing
    <2>3. \A i \in 1..Len(jobs') : i + 1 \in 1..Len(jobs)
      BY <1>1, <2>1 DEF JobsEnded
    <2>4. \A i \in 1..Len(jobs') : jobs'[i].kind # "clone" => jobs'[i].src = jobs'[i].ws
      BY <1>2, <2>1, <2>3 DEF JobsEnded
    <2> QED
      BY <1>3, <2>1, <2>2, <2>4 DEF CatalogTyped
  <1>5. CASE /\ phase' # "queued" /\ JobsKept
             /\ start' \in [AllNames -> Ids \cup {None}] /\ fetched' \in Ids \cup {None}
             /\ prog' \in Seq(StepsOn(w, s))
    <2>1. prog' \in Seq(Steps)
      BY <1>5, StepsOnFacts
    <2>2. Len(jobs') = Len(jobs) /\ jobs' # <<>>
      BY <1>1, <1>5 DEF JobsKept
    <2>3. \A i \in 1..Len(jobs') : jobs'[i].kind # "clone" => jobs'[i].src = jobs'[i].ws
      BY <1>2, <1>5, <2>2 DEF JobsKept
    <2> QED
      BY <1>3, <1>5, <2>1, <2>2, <2>3 DEF CatalogTyped
  <1> QED
    BY <1>4, <1>5 DEF Turns

\* What holds after a step, when the names of the job are w and s: the job goes on, or it has
\* ended and its names are those of no job.
LEMMA TurnsKeep ==
  ASSUME Catalogued, jobs # <<>>, NEW w, NEW s, w = job.ws, s = job.src,
         Arrays', spoiled \subseteq spoiled', store' \subseteq Names, (used \subseteq store)',
         image' = image, nested' = nested,
         \A n \in Names : n \notin {w, s} /\ Firm(n) => Keeps(n),
         Turns(w, s),
         \/ Ends /\ \A n \in {w, s} : trusted(n)' => Good(n)'
         \/ JobsKept /\ phase' # "queued" /\ JobInv(job)'
  PROVE  CInv' /\ Belongs'
  <1>1. IInv /\ CatalogTyped /\ (\A n \in Names : trusted(n) /\ n \notin busy => Good(n))
    BY DEF Catalogued, CInv
  <1>2. w \in Names /\ s \in Names /\ busy \subseteq {w, s}
    BY <1>1, JobNames DEF busy
  <1>3. CatalogTyped'
    BY <1>1, <1>2, TurnsTyped
  <1>4. ASSUME NEW n \in Names, n \notin {w, s}, trusted(n)'
        PROVE  Good(n)'
    <2>1. Good(n)
      BY <1>1, <1>2, <1>4 DEF trusted
    <2>2. Keeps(n)
      BY <1>4, <2>1, GoodFirm
    <2> QED
      BY <2>1, <2>2, KeptFacts
  <1>5. CASE Ends /\ \A n \in {w, s} : trusted(n)' => Good(n)'
    <2>1. ~working'
      BY <1>5 DEF Ends, working
    <2>2. \A n \in Names : trusted(n)' => Good(n)'
      BY <1>4, <1>5
    <2> QED
      BY <1>3, <2>1, <2>2 DEF CInv, Belongs
  <1>6. CASE JobsKept /\ phase' # "queued" /\ JobInv(job)'
    <2>1. jobs' # <<>> /\ job'.ws = w /\ job'.src = s
      <3>1. /\ jobs \in Seq(Jobs) /\ Len(jobs) \in Nat /\ Len(jobs) >= 1 /\ job = jobs[1]
        BY <1>1 DEF IInv, Typed, job
      <3>2. jobs' \in Seq(Jobs) /\ Len(jobs') >= 1 /\ 1 \in 1..Len(jobs)
        BY <1>6, <3>1 DEF JobsKept
      <3>3. jobs' # <<>> /\ job' = jobs'[1]
        BY <3>2 DEF job
      <3> QED
        BY <1>6, <3>1, <3>2, <3>3 DEF JobsKept
    <2>2. working' /\ busy' = {w, s}
      BY <1>6, <2>1 DEF working, busy
    <2>3. ~Ends
      BY <1>6 DEF Ends
    <2>4. prog' \in Seq(StepsOn(w, s))
      BY <2>3 DEF Turns
    <2>5. Belongs'
      BY <2>1, <2>4 DEF Belongs
    <2> QED
      BY <1>3, <1>4, <1>6, <2>2, <2>5 DEF CInv
  <1> QED
    BY <1>5, <1>6

\* A step of the job that works
LEMMA WorkKeeps ==
  ASSUME Catalogued, working, Step
  PROVE  CInv' /\ Belongs'
  <1>1. /\ IInv /\ CatalogTyped /\ used \subseteq store /\ JobInv(job) /\ jobs # <<>>
        /\ prog \in Seq(StepsOn(job.ws, job.src))
    BY DEF Catalogued, CInv, Belongs, working
  <1>2. Running
    BY <1>1 DEF Running
  <1>3. PICK w, s, loc, kind : w = job.ws /\ s = job.src /\ loc = job.local /\ kind = job.kind
    OBVIOUS
  <1>4. /\ w \in Names /\ s \in Names /\ loc \in BOOLEAN
        /\ kind # "clone" => s = w
    BY <1>1, <1>3, JobNames
  <1>5. OnNames(w, s)
    BY <1>1, <1>2, <1>3, <1>4 DEF OnNames
  <1>6. Beside(w, s) /\ Turns(w, s)
    BY <1>5, StepOnNames
  <1>7. \/ Ends /\ \A n \in {w, s} : trusted(n)' => Good(n)'
        \/ JobsKept /\ phase' # "queued" /\ JobInv(job)'
    <2>1. ASSUME JobsKept
          PROVE  /\ job'.kind = kind /\ job'.ws = w /\ job'.src = s /\ job'.local = loc
      BY <1>1, <1>3, <2>1, FirstJobKept
    <2>2. CASE kind = "clone"
      <3>1. Scene(w, s, loc)
        BY <1>1, <1>3, <1>4, <2>2 DEF Scene
      <3>2. CloneInv(w, s, loc)
        BY <1>1, <1>3, <2>2 DEF JobInv
      <3>3. GoesOn(w, s, loc) \/ EndsWell(w, s)
        BY <1>2, <3>1, <3>2, AtClone
      <3>4. CASE GoesOn(w, s, loc)
        <4>1. JobsKept /\ phase' # "queued" /\ CloneInv(w, s, loc)'
          BY <3>4 DEF GoesOn
        <4>2. JobInv(job)'
          BY <2>1, <2>2, <4>1 DEF JobInv
        <4> QED
          BY <4>1, <4>2
      <3>5. CASE EndsWell(w, s)
        BY <3>5 DEF EndsWell
      <3> QED
        BY <3>3, <3>4, <3>5
    <2>3. CASE kind # "clone"
      <3>1. OtherInv(w, kind)
        BY <1>1, <1>3, <2>3 DEF JobInv
      <3>2. OtherScene(w, kind)
        BY <1>2, <1>3, <1>4, <2>3, <3>1 DEF OtherScene, OtherInv
      <3>3. JobGoesOn(w, kind)
        BY <3>1, <3>2, AtOther
      <3>4. CASE JobsKept /\ OtherInv(w, kind)'
        <4>1. phase' = "work"
          BY <3>4 DEF OtherInv
        <4>2. JobInv(job)'
          BY <2>1, <2>3, <3>4 DEF JobInv
        <4> QED
          BY <3>4, <4>1, <4>2
      <3>5. CASE EndsWell(w, w)
        BY <1>4, <2>3, <3>5 DEF EndsWell
      <3> QED
        BY <3>3, <3>4, <3>5 DEF JobGoesOn
    <2> QED
      BY <2>2, <2>3
  <1> QED
    BY <1>1, <1>3, <1>6, <1>7, TurnsKeep DEF Beside

-----------------------------------------------------------------------------
\* A job starts, or is refused.
LEMMA StartKeeps ==
  ASSUME Catalogued, ~working, Step
  PROVE  CInv' /\ Belongs'
  <1>1. /\ IInv /\ CatalogTyped /\ used \subseteq store
        /\ \A n \in Names : trusted(n) => Good(n)
    BY DEF Catalogued, CInv, busy
  <1>2. StartClone \/ StartJob
    BY DEF Step, Tag, Untag, Drop, Await, Refresh, Resync, Find, Compat, Overwrite, Refuse, Pull,
           From, Choose, Commit, Rmi, Retag, Build, at, WorkDone, CleanupDone
  <1>3. jobs # <<>> /\ phase = "queued" /\ Starting
    BY <1>1, <1>2 DEF StartClone, StartJob, Starting
  <1>4. PICK w, s : w = job.ws /\ s = job.src
    OBVIOUS
  <1>5. /\ w \in Names /\ s \in Names
        /\ job.kind # "clone" => s = w
    BY <1>1, <1>3, <1>4, JobNames
  <1>6. ASSUME Quiet, Arrays', spoiled' = spoiled, \A n \in Names : Keeps(n)
        PROVE  /\ store' \subseteq Names /\ (used \subseteq store)' /\ image' = image
               /\ nested' = nested
               /\ \A n \in {w, s} : trusted(n)' => Good(n)'
    <2>1. \A n \in Names : trusted(n)' => Good(n)'
      BY <1>1, <1>6, KeptFacts DEF trusted
    <2> QED
      BY <1>1, <1>5, <1>6, <2>1 DEF Quiet, CatalogTyped, used
  <1>7. CASE StartClone /\ phase' = "work"
    <2>1. /\ Quiet /\ spoiled' = spoiled /\ jobs' = jobs
          /\ \A n \in Names : tags'[n] = tags[n] /\ cache'[n] = cache[n]
          /\ Arrays' /\ start' = tags' /\ fetched' = None
          /\ \E p \in saves(job, w \in store, s \in store) :
                 prog' = p \o selected(job, w \in store, s \in store)
      BY <1>3, <1>4, <1>7, StartFacts
    <2>2. \A n \in Names : Keeps(n)
      BY <2>1, QuietKeeps
    <2>3. CloneInv(w, s, job.local)'
      BY <1>3, <1>4, <1>7, <2>1, StartsClone DEF job
    <2>4. job' = job /\ job.kind = "clone"
      BY <1>7, <2>1 DEF job, StartClone
    <2>5. JobInv(job)'
      <3>1. PICK loc : loc = job.local
        OBVIOUS
      <3>2. CloneInv(w, s, loc)'
        BY <2>3, <2>4, <3>1
      <3> QED
        BY <1>4, <2>4, <3>1, <3>2 DEF JobInv
    <2>6. prog' \in Seq(StepsOn(w, s))
      <3>1. PICK e : e = (w \in store)
        OBVIOUS
      <3>2. PICK x : x = (s \in store)
        OBVIOUS
      <3>3. PICK j : j = job
        OBVIOUS
      <3>4. e \in BOOLEAN /\ x \in BOOLEAN
        BY <3>1, <3>2
      <3>5. PICK p \in saves(j, e, x) : prog' = p \o selected(j, e, x)
        BY <2>1, <3>1, <3>2, <3>3
      <3>6. j.ws \in Names /\ j.src \in Names /\ w = j.ws /\ s = j.src
        BY <1>4, <1>5, <3>3
      <3>7. p \in Seq(StepsOn(j.ws, j.src)) /\ selected(j, e, x) \in Seq(StepsOn(j.ws, j.src))
        BY <3>4, <3>6, ProgramsOn
      <3>8. p \in Seq(StepsOn(w, s)) /\ selected(j, e, x) \in Seq(StepsOn(w, s))
        BY <3>6, <3>7
      <3> QED
        BY <3>5, <3>8
    <2>7. JobsKept
      BY <1>1, <2>1, SameJobs
    <2>8. Turns(w, s)
      <3>1. start' \in [AllNames -> Ids \cup {None}] /\ fetched' \in Ids \cup {None}
        BY <2>1 DEF Arrays
      <3> QED
        BY <1>7, <2>6, <2>7, <3>1 DEF Turns
    <2> QED
      BY <1>3, <1>4, <1>6, <1>7, <2>1, <2>2, <2>5, <2>7, <2>8, TurnsKeep
  <1>8. CASE StartClone /\ phase' # "work"
    <2>1. /\ ends(jobs) /\ UNCHANGED podman
          /\ UNCHANGED <<store, others, requests, spoiled>>
      BY <1>8 DEF StartClone
    <2>2. Quiet /\ spoiled' = spoiled /\ tags' = tags /\ cache' = cache
      BY <2>1 DEF Quiet, others, podman
    <2>3. Arrays' /\ \A n \in Names : Keeps(n)
      BY <1>1, <2>2, QuietKeeps DEF Arrays, CatalogTyped
    <2>4. Ends
      BY <1>1, <1>3, <2>1, LikeItself, Outcomes
    <2> QED
      BY <1>3, <1>4, <1>6, <2>2, <2>3, <2>4, TurnsKeep DEF Quiet, Turns
  <1>9. CASE StartJob
    <2>1. /\ Quiet /\ spoiled' = spoiled /\ jobs' = jobs /\ phase' = "work" /\ Arrays'
          /\ start' = start /\ fetched' = fetched /\ prog' = program(job)
          /\ \A n \in Names : Keeps(n)
          /\ OtherInv(job.ws, job.kind)'
      BY <1>3, <1>9, StartsOther
    <2>2. job' = job /\ job.kind # "clone"
      BY <1>9, <2>1 DEF job, StartJob
    <2>3. JobInv(job)'
      BY <2>1, <2>2 DEF JobInv
    <2>4. JobsKept
      BY <1>1, <2>1, SameJobs
    <2>5. prog' \in Seq(StepsOn(w, s))
      <3>1. PICK j : j = job
        OBVIOUS
      <3>2. j.ws \in Names /\ j.src \in Names /\ w = j.ws /\ s = j.src
        BY <1>4, <1>5, <3>1
      <3>3. program(j) \in Seq(StepsOn(j.ws, j.src))
        BY <3>2, ProgramsOn
      <3> QED
        BY <2>1, <3>1, <3>2, <3>3
    <2>6. Turns(w, s)
      BY <1>1, <2>1, <2>4, <2>5 DEF Turns, CatalogTyped
    <2> QED
      BY <1>3, <1>4, <1>6, <2>1, <2>3, <2>4, <2>6, TurnsKeep
  <1> QED
    BY <1>2, <1>7, <1>8, <1>9

\* A request crosses a job that works on w and s: the names that can still be trusted are
\* as they were.
Held(w, s) ==
    /\ w \in Names /\ s \in Names
    /\ phase' = phase /\ prog' = prog /\ past_kept
    /\ tags'[Temp] = tags[Temp]
    /\ \A n \in {w, s} : KeepsBackup(n) /\ (trusted(n)' => trusted(n) /\ Keeps(n))

LEMMA HeldFacts ==
  ASSUME NEW w, NEW s, Held(w, s), NEW n \in {w, s}
  PROVE  /\ tags'[backup(n)] = tags[backup(n)]
         /\ trusted(n)' =>
              /\ trusted(n) /\ tags'[n] = tags[n]
              /\ Good(n) => Good(n)'
              /\ Intact(n) => Intact(n)'
              /\ Saved(n) => Saved(n)'
              /\ Sane(n) => Sane(n)'
              /\ Safe(n) => Safe(n)'
              /\ Whole(n) => Whole(n)'
              /\ Ready(n) => Ready(n)'
              /\ Absent(n) => Absent(n)'
              /\ Pulled(n) => Pulled(n)'
              /\ Cached(n) => Cached(n)'
              /\ Copied(n, fetched) => Copied(n, fetched)'
              /\ Gone(n) => Gone(n)'
              /\ Present(n) => Present(n)'
              /\ Listed(n) => Listed(n)'
              /\ n \in store => n \in store'
              /\ n \notin built => n \notin built'
              /\ n \in used' => n \in used
  <1>1. KeepsBackup(n) /\ start' = start /\ fetched' = fetched
    BY DEF Held, past_kept
  <1>2. tags'[backup(n)] = tags[backup(n)]
    BY <1>1 DEF KeepsBackup
  <1>3. ASSUME trusted(n)'
        PROVE  trusted(n) /\ Keeps(n)
    BY <1>3 DEF Held
  <1>4. ASSUME Keeps(n)
        PROVE  /\ Good(n) => Good(n)'
               /\ Sane(n) => Sane(n)'
               /\ Ready(n) => Ready(n)'
               /\ Gone(n) => Gone(n)'
               /\ Present(n) => Present(n)'
               /\ Listed(n) => Listed(n)'
               /\ n \in store => n \in store'
               /\ n \notin built => n \notin built'
    BY <1>4, KeptFacts
  <1>5. ASSUME Keeps(n)
        PROVE  (Intact(n) => Intact(n)') /\ (Absent(n) => Absent(n)')
    BY <1>1, <1>5, KeptStart
  <1>6. ASSUME Keeps(n)
        PROVE  /\ Pulled(n) => Pulled(n)'
               /\ Cached(n) => Cached(n)'
               /\ Copied(n, fetched) => Copied(n, fetched)'
    BY <1>1, <1>6, KeptFetched
  <1>7. ASSUME Keeps(n)
        PROVE  /\ Saved(n) => Saved(n)'
               /\ Safe(n) => Safe(n)'
               /\ Whole(n) => Whole(n)'
    BY <1>1, <1>7, KeptBackup
  <1>8. Keeps(n) => tags'[n] = tags[n] /\ (n \in used' => n \in used)
    BY DEF Keeps
  <1> QED
    BY <1>2, <1>3, <1>4, <1>5, <1>6, <1>7, <1>8

LEMMA SavingHeld ==
  ASSUME NEW w, NEW s, NEW loc, NEW e \in BOOLEAN, NEW x \in BOOLEAN, Held(w, s),
         Saving(w, s, loc, e, x)
  PROVE  Saving(w, s, loc, e, x)'
  <1>1. prog' = prog /\ w \in {w, s} /\ s \in {w, s}
    BY DEF Held
  <1>2. \A n \in {w, s} : tags'[backup(n)] = tags[backup(n)]
    BY HeldFacts
  <1>3. \A n \in {w, s} : trusted(n)' => /\ trusted(n)
                                         /\ Saved(n) => Saved(n)'
                                         /\ Intact(n) => Intact(n)'
                                         /\ Safe(n) => Safe(n)'
                                         /\ n \in store => n \in store'
    BY HeldFacts
  <1> QED
    BY <1>1, <1>2, <1>3 DEF Saving

LEMMA CheckingHeld ==
  ASSUME NEW w, NEW s, NEW loc, NEW e \in BOOLEAN, NEW x \in BOOLEAN, Held(w, s),
         Checking(w, s, loc, e, x)
  PROVE  Checking(w, s, loc, e, x)'
  <1>1. prog' = prog
    BY DEF Held
  <1>2. \A n \in {w, s} : trusted(n)' => /\ trusted(n)
                                         /\ Whole(n) => Whole(n)'
                                         /\ Intact(n) => Intact(n)'
    BY HeldFacts
  <1> QED
    BY <1>1, <1>2 DEF Checking

LEMMA CopyingLocalHeld ==
  ASSUME NEW w, NEW s, Held(w, s), CopyingLocal(w, s)
  PROVE  CopyingLocal(w, s)'
  <1>1. prog' = prog
    BY DEF Held
  <1>2. \A n \in {w, s} : trusted(n)' => /\ trusted(n)
                                         /\ Whole(n) => Whole(n)'
                                         /\ Intact(n) => Intact(n)'
    BY HeldFacts
  <1> QED
    BY <1>1, <1>2 DEF CopyingLocal

LEMMA UpdatingHeld ==
  ASSUME NEW w, Held(w, w), Updating(w)
  PROVE  Updating(w)'
  <1>1. prog' = prog
    BY DEF Held
  <1>2. trusted(w)' => /\ trusted(w)
                       /\ Whole(w) => Whole(w)'
                       /\ Pulled(w) => Pulled(w)'
                       /\ Cached(w) => Cached(w)'
    BY HeldFacts
  <1> QED
    BY <1>1, <1>2 DEF Updating

LEMMA CopyingOtherHeld ==
  ASSUME NEW w, NEW s, NEW e \in BOOLEAN, NEW x \in BOOLEAN, Held(w, s),
         CopyingOther(w, s, e, x)
  PROVE  CopyingOther(w, s, e, x)'
  <1>1. prog' = prog
    BY DEF Held
  <1>2. \A n \in {w, s} : trusted(n)' => /\ trusted(n)
                                         /\ Whole(n) => Whole(n)'
                                         /\ Intact(n) => Intact(n)'
                                         /\ Absent(n) => Absent(n)'
                                         /\ Pulled(n) => Pulled(n)'
                                         /\ Cached(n) => Cached(n)'
                                         /\ Copied(n, fetched) => Copied(n, fetched)'
                                         /\ Gone(n) => Gone(n)'
                                         /\ n \notin built => n \notin built'
    BY HeldFacts
  <1> QED
    BY <1>1, <1>2 DEF CopyingOther

LEMMA ClonedHeld ==
  ASSUME NEW w, NEW s, NEW loc \in BOOLEAN, Held(w, s), Cloned(w, s, loc)
  PROVE  Cloned(w, s, loc)'
  <1>1. start' = start /\ fetched' = fetched
    BY DEF Held, past_kept
  <1>2. \A n \in {w, s} : trusted(n)' => trusted(n) /\ tags'[n] = tags[n]
    BY HeldFacts
  <1> QED
    BY <1>1, <1>2 DEF Cloned

LEMMA CleaningHeld ==
  ASSUME NEW w, NEW s, Held(w, s), Cleaning(w, s)
  PROVE  Cleaning(w, s)'
  <1>1. prog' = prog
    BY DEF Held
  <1>2. \A n \in {w, s} : tags'[backup(n)] = tags[backup(n)]
    BY HeldFacts
  <1>3. \A n \in {w, s} : trusted(n)' => /\ trusted(n)
                                         /\ Good(n) => Good(n)'
                                         /\ Ready(n) => Ready(n)'
    BY HeldFacts
  <1> QED
    BY <1>1, <1>2, <1>3 DEF Cleaning

LEMMA RestoringHeld ==
  ASSUME NEW w, NEW s, Held(w, s), Restoring(w, s)
  PROVE  Restoring(w, s)'
  <1>1. prog' = prog
    BY DEF Held
  <1>2. \A n \in {w, s} : tags'[backup(n)] = tags[backup(n)]
    BY HeldFacts
  <1>3. \A n \in {w, s} : trusted(n)' => /\ trusted(n) /\ tags'[n] = tags[n]
                                         /\ Sane(n) => Sane(n)'
                                         /\ Saved(n) => Saved(n)'
                                         /\ Gone(n) => Gone(n)'
                                         /\ Intact(n) => Intact(n)'
                                         /\ n \in used' => n \in used
    BY HeldFacts
  <1>4. Ordered(w, s)'
    BY <1>1 DEF Restoring, Ordered
  <1>5. /\ \A n : pending(drop(n))' <=> pending(drop(n))
        /\ \A n : pending(back(n))' <=> pending(back(n))
        /\ \A n : pending(lose(n))' <=> pending(lose(n))
    BY <1>1 DEF pending
  <1>6. \A n \in {w, s} : /\ pending(lose(n))' => tags'[backup(n)] # None
                          /\ pending(back(n))' => pending(lose(n))'
    BY <1>2, <1>5 DEF Restoring
  <1>7. ASSUME NEW n \in {w, s}, trusted(n)'
        PROVE  \/ /\ pending(drop(n))'
                  /\ Sane(n)' /\ Saved(n)'
                  /\ n \in used' => tags'[n] # None \/ tags'[backup(n)] # None
                  /\ tags'[backup(n)] # None => pending(back(n))'
               \/ /\ ~pending(drop(n))' /\ pending(back(n))'
                  /\ Gone(n)' /\ Saved(n)'
               \/ /\ ~pending(drop(n))' /\ ~pending(back(n))'
                  /\ Intact(n)'
    BY <1>2, <1>3, <1>5, <1>7 DEF Restoring
  <1> QED
    BY <1>4, <1>6, <1>7 DEF Restoring

LEMMA CloneHeld ==
  ASSUME NEW w, NEW s, NEW loc \in BOOLEAN, Held(w, s), CloneInv(w, s, loc)
  PROVE  CloneInv(w, s, loc)'
  <1>1. prog' = prog /\ phase' = phase /\ start' = start
    BY DEF Held, past_kept
  <1>2. \A n \in {w, s} : trusted(n)' => /\ trusted(n) /\ tags'[n] = tags[n]
                                         /\ Whole(n) => Whole(n)'
                                         /\ Intact(n) => Intact(n)'
                                         /\ Ready(n) => Ready(n)'
                                         /\ Absent(n) => Absent(n)'
    BY HeldFacts
  <1>3. Cloned(w, s, loc) => Cloned(w, s, loc)'
    BY ClonedHeld
  <1>4. CASE phase = "work" /\ CloneWorks(w, s, loc)
    <2>1. CASE \E e, x \in BOOLEAN :
                   \/ Saving(w, s, loc, e, x) /\ (trusted(s) /\ ~x => Absent(s))
                   \/ Checking(w, s, loc, e, x) /\ (trusted(s) /\ ~x => Absent(s))
                   \/ ~loc /\ w # s /\ CopyingOther(w, s, e, x)
      <3>1. PICK e \in BOOLEAN, x \in BOOLEAN :
                   \/ Saving(w, s, loc, e, x) /\ (trusted(s) /\ ~x => Absent(s))
                   \/ Checking(w, s, loc, e, x) /\ (trusted(s) /\ ~x => Absent(s))
                   \/ ~loc /\ w # s /\ CopyingOther(w, s, e, x)
        BY <2>1
      <3>2. (trusted(s) /\ ~x => Absent(s)) => (trusted(s)' /\ ~x => Absent(s)')
        BY <1>2
      <3>3. /\ Saving(w, s, loc, e, x) => Saving(w, s, loc, e, x)'
            /\ Checking(w, s, loc, e, x) => Checking(w, s, loc, e, x)'
            /\ CopyingOther(w, s, e, x) => CopyingOther(w, s, e, x)'
        BY SavingHeld, CheckingHeld, CopyingOtherHeld
      <3>4. CloneWorks(w, s, loc)'
        BY <3>1, <3>2, <3>3 DEF CloneWorks
      <3> QED
        BY <1>1, <1>4, <3>4 DEF CloneInv
    <2>2. CASE loc /\ w # s /\ CopyingLocal(w, s)
      BY <1>1, <1>4, <2>2, CopyingLocalHeld DEF CloneInv, CloneWorks
    <2>3. CASE ~loc /\ w = s /\ Updating(w)
      <3>1. Updating(w)'
        BY <2>3, UpdatingHeld
      <3> QED
        BY <1>1, <1>4, <2>3, <3>1 DEF CloneInv, CloneWorks
    <2>4. CASE Done(w, s, loc)
      <3>1. Done(w, s, loc)'
        BY <1>1, <1>2, <1>3, <2>4 DEF Done
      <3> QED
        BY <1>1, <1>4, <3>1 DEF CloneInv, CloneWorks
    <2> QED
      BY <1>4, <2>1, <2>2, <2>3, <2>4 DEF CloneWorks
  <1>5. CASE phase = "declined" /\ CloneDeclined(w, s)
    <2>1. CloneDeclined(w, s)'
      BY <1>1, <1>2, <1>5 DEF CloneDeclined
    <2> QED
      BY <1>1, <1>5, <2>1 DEF CloneInv
  <1>6. CASE phase = "restore" /\ Restoring(w, s)
    BY <1>1, <1>6, RestoringHeld DEF CloneInv
  <1>7. CASE phase = "forget" /\ Cleaning(w, s) /\ Cloned(w, s, loc)
    BY <1>1, <1>3, <1>7, CleaningHeld DEF CloneInv
  <1>8. CASE phase = "decline" /\ Cleaning(w, s) /\ \A n \in {w, s} : trusted(n) => tags[n] = start[n]
    <2>1. Cleaning(w, s)'
      BY <1>8, CleaningHeld
    <2>2. \A n \in {w, s} : trusted(n)' => tags'[n] = start'[n]
      BY <1>1, <1>2, <1>8
    <2> QED
      BY <1>1, <1>8, <2>1, <2>2 DEF CloneInv
  <1> QED
    BY <1>4, <1>5, <1>6, <1>7, <1>8 DEF CloneInv

LEMMA OtherHeld ==
  ASSUME NEW n, NEW kind, Held(n, n), OtherInv(n, kind)
  PROVE  OtherInv(n, kind)'
  <1>1. prog' = prog /\ phase' = phase /\ tags'[Temp] = tags[Temp]
    BY DEF Held
  <1>2. trusted(n)' => /\ trusted(n)
                       /\ Good(n) => Good(n)'
                       /\ Present(n) => Present(n)'
                       /\ Listed(n) => Listed(n)'
    BY HeldFacts
  <1>3. Present(Temp) => Present(Temp)'
    BY <1>1 DEF Present
  <1>4. CommitInv(n) => CommitInv(n)'
    BY <1>1, <1>2, <1>3 DEF CommitInv
  <1> QED
    BY <1>1, <1>2, <1>4 DEF OtherInv

\* Jobs may be submitted after those that there are.
JobsGrow ==
    /\ jobs' \in Seq(Jobs) /\ Len(jobs') >= Len(jobs)
    /\ \A i \in 1..Len(jobs) :
           /\ jobs'[i].kind = jobs[i].kind /\ jobs'[i].ws = jobs[i].ws
           /\ jobs'[i].src = jobs[i].src /\ jobs'[i].local = jobs[i].local
    /\ \A i \in 1..Len(jobs') : jobs'[i].kind # "clone" => jobs'[i].src = jobs'[i].ws

\* What a request does
Crosses ==
    /\ phase' = phase /\ prog' = prog /\ past_kept /\ JobsGrow
    /\ Arrays' /\ store' \subseteq Names /\ (used \subseteq store)'
    /\ image' \in [Nodes -> Names] /\ nested' \in Names \cup {None}
    /\ tags'[Temp] = tags[Temp]
    /\ \A n \in Names : KeepsBackup(n)
    /\ \A n \in Names : trusted(n)' => trusted(n) /\ (Keeps(n) \/ (n \notin busy /\ Good(n)'))

LEMMA CrossesKeep ==
  ASSUME Catalogued, Crosses
  PROVE  CInv' /\ Belongs'
  <1>1. /\ IInv /\ CatalogTyped /\ Belongs
        /\ \A n \in Names : trusted(n) /\ n \notin busy => Good(n)
        /\ working => JobInv(job)
    BY DEF Catalogued, CInv
  <1>2. CatalogTyped'
    <2>1. jobs' = <<>> => phase' = "queued"
      <3>1. jobs \in Seq(Jobs) /\ Len(jobs) \in Nat /\ (jobs = <<>> <=> Len(jobs) = 0)
        BY <1>1 DEF IInv, Typed
      <3>2. jobs' = <<>> => jobs = <<>>
        BY <3>1 DEF Crosses, JobsGrow
      <3> QED
        BY <1>1, <3>2 DEF CatalogTyped, Crosses
    <2> QED
      BY <1>1, <2>1 DEF CatalogTyped, Crosses, Arrays, JobsGrow, past_kept
  <1>3. (used \subseteq store)'
    BY DEF Crosses
  <1>4. CASE ~working
    <2>1. ~working' \/ phase # "queued"
      BY DEF Crosses, working
    <2>2. ~working' /\ busy = {}
      BY <1>1, <1>4, <2>1 DEF working, CatalogTyped, busy
    <2>3. ASSUME NEW n \in Names, trusted(n)'
          PROVE  Good(n)'
      BY <1>1, <2>2, <2>3, KeptFacts DEF Crosses
    <2> QED
      BY <1>2, <1>3, <2>2, <2>3 DEF CInv, Belongs
  <1>5. CASE working
    <2>1. /\ jobs \in Seq(Jobs) /\ Len(jobs) \in Nat /\ Len(jobs) >= 1 /\ job = jobs[1]
          /\ 1 \in 1..Len(jobs) /\ jobs # <<>>
      BY <1>1, <1>5 DEF IInv, Typed, working, job
    <2>2. jobs' \in Seq(Jobs) /\ Len(jobs') >= 1
      BY <2>1 DEF Crosses, JobsGrow
    <2>3. jobs' # <<>> /\ job' = jobs'[1]
      BY <2>2 DEF job
    <2>4. /\ job'.kind = job.kind /\ job'.ws = job.ws /\ job'.src = job.src
          /\ job'.local = job.local
      BY <2>1, <2>3 DEF Crosses, JobsGrow
    <2>5. working' /\ busy' = busy
      BY <1>5, <2>3, <2>4 DEF working, busy, Crosses
    <2>6. PICK w, s, loc, kind : w = job.ws /\ s = job.src /\ loc = job.local /\ kind = job.kind
      OBVIOUS
    <2>7. /\ w \in Names /\ s \in Names /\ loc \in BOOLEAN /\ (kind # "clone" => s = w)
          /\ w \in busy /\ s \in busy
      BY <1>1, <1>5, <2>1, <2>6, JobNames DEF busy
    <2>8. Held(w, s) /\ Held(w, w)
      BY <2>7 DEF Crosses, Held
    <2>9. JobInv(job)'
      <3>1. CASE kind = "clone"
        <4>1. CloneInv(w, s, loc)
          BY <1>1, <1>5, <2>6, <3>1 DEF JobInv
        <4>2. CloneInv(w, s, loc)'
          BY <2>7, <2>8, <4>1, CloneHeld
        <4> QED
          BY <2>4, <2>6, <3>1, <4>2 DEF JobInv
      <3>2. CASE kind # "clone"
        <4>1. OtherInv(w, kind)
          BY <1>1, <1>5, <2>6, <3>2 DEF JobInv
        <4>2. OtherInv(w, kind)'
          BY <2>8, <4>1, OtherHeld
        <4> QED
          BY <2>4, <2>6, <3>2, <4>2 DEF JobInv
      <3> QED
        BY <3>1, <3>2
    <2>10. Belongs'
      BY <1>1, <1>5, <2>4, <2>5 DEF Belongs, Crosses
    <2>11. ASSUME NEW n \in Names, trusted(n)', n \notin busy'
           PROVE  Good(n)'
      BY <1>1, <2>5, <2>11, KeptFacts DEF Crosses
    <2> QED
      BY <1>2, <1>3, <2>9, <2>10, <2>11 DEF CInv
  <1> QED
    BY <1>4, <1>5

-----------------------------------------------------------------------------
\* What the requests start from
Settled ==
    /\ IInv /\ CatalogTyped /\ used \subseteq store
    /\ \A n \in Names : trusted(n) /\ n \notin busy => Good(n)

LEMMA SettledFacts ==
  ASSUME Settled
  PROVE  /\ Arrays /\ store \subseteq Names /\ used \subseteq store
         /\ jobs \in Seq(Jobs) /\ Len(jobs) \in Nat
         /\ image \in [Nodes -> Names] /\ nested \in Names \cup {None}
         /\ \A i \in 1..Len(jobs) : jobs[i].kind # "clone" => jobs[i].src = jobs[i].ws
  BY DEF Settled, CatalogTyped, Arrays, IInv, Typed

LEMMA SameJobsGrow ==
  ASSUME Settled, NEW js, JobsLike(js), jobs' = js
  PROVE  JobsGrow
  <1>1. /\ jobs \in Seq(Jobs) /\ Len(jobs) \in Nat
        /\ \A i \in 1..Len(jobs) : jobs[i].kind # "clone" => jobs[i].src = jobs[i].ws
    BY SettledFacts
  <1> QED
    BY <1>1 DEF JobsLike, JobsGrow

\* A job is submitted.
LEMMA SubmitsGrow ==
  ASSUME Settled, NEW kind \in Kinds, NEW ws \in Names, NEW src \in Names, NEW local \in BOOLEAN,
         NEW force \in BOOLEAN, NEW obj \in Refs, kind # "clone" => src = ws,
         submits(kind, ws, src, local, force, obj)
  PROVE  JobsGrow
  <1> DEFINE j == [kind |-> kind, ws |-> ws, src |-> src, local |-> local, force |-> force,
                   obj |-> obj]
  <1>1. /\ jobs \in Seq(Jobs) /\ Len(jobs) \in Nat
        /\ \A i \in 1..Len(jobs) : jobs[i].kind # "clone" => jobs[i].src = jobs[i].ws
    BY SettledFacts
  <1>2. j \in Jobs /\ j.kind = kind /\ j.src = src /\ j.ws = ws
    BY DEF Jobs
  <1>3. jobs' = Append(jobs, j)
    BY DEF submits
  <1> HIDE DEF j
  <1>4. /\ jobs' \in Seq(Jobs) /\ Len(jobs') = Len(jobs) + 1
        /\ \A i \in 1..Len(jobs) : jobs'[i] = jobs[i]
        /\ jobs'[Len(jobs) + 1] = j
    BY <1>1, <1>2, <1>3
  <1>5. ASSUME NEW i \in 1..Len(jobs'), jobs'[i].kind # "clone"
        PROVE  jobs'[i].src = jobs'[i].ws
    <2>1. CASE i \in 1..Len(jobs)
      BY <1>1, <1>4, <1>5, <2>1
    <2>2. CASE i = Len(jobs) + 1
      BY <1>2, <1>4, <1>5, <2>2
    <2> QED
      BY <1>1, <1>4, <1>5, <2>1, <2>2
  <1> QED
    BY <1>1, <1>4, <1>5 DEF JobsGrow

\* A request that changes neither podman, nor the cache, nor the store
LEMMA QuietCrosses ==
  ASSUME Settled, JobsGrow, UNCHANGED running, UNCHANGED podman, UNCHANGED <<store, built>>,
         image' \in [Nodes -> Names], used' \subseteq used \cup store,
         nested' \in Names \cup {None}, spoiled \subseteq spoiled',
         \A n \in Names : trusted(n)' => (n \in used' => n \in used) \/ n \notin busy
  PROVE  Crosses
  <1>1. Arrays /\ store \subseteq Names /\ used \subseteq store
    BY SettledFacts
  <1>2. phase' = phase /\ prog' = prog /\ past_kept /\ tags' = tags /\ cache' = cache
    BY DEF running, past, past_kept, podman
  <1>3. \A n \in Names : KeepsBackup(n)
    BY <1>2 DEF KeepsBackup
  <1>4. ASSUME NEW n \in Names, trusted(n)'
        PROVE  trusted(n) /\ (Keeps(n) \/ (n \notin busy /\ Good(n)'))
    <2>1. trusted(n)
      BY <1>4 DEF trusted
    <2>2. CASE n \in used' => n \in used
      BY <1>2, <2>1, <2>2 DEF Keeps
    <2>3. CASE n \notin busy
      <3>1. Good(n)
        BY <2>1, <2>3 DEF Settled
      <3>2. Good(n)'
        BY <1>2, <3>1 DEF Good
      <3> QED
        BY <2>1, <2>3, <3>2
    <2> QED
      BY <1>4, <2>2, <2>3
  <1> QED
    BY <1>1, <1>2, <1>3, <1>4 DEF Crosses, Arrays

\* The names of images of users are not those of a job.
LEMMA NamesOnly ==
  ASSUME \A m \in AllNames : m \notin Names => tags'[m] = tags[m] /\ cache'[m] = cache[m]
  PROVE  tags'[Temp] = tags[Temp] /\ \A n \in Names : KeepsBackup(n)
  <1>1. Temp \in AllNames /\ Temp \notin Names
    BY TemporaryNames DEF AllNames
  <1>2. \A n \in Names : backup(n) \in AllNames /\ backup(n) \notin Names
    BY TemporaryNames DEF AllNames
  <1> QED
    BY <1>1, <1>2 DEF KeepsBackup

LEMMA RemoveCrosses ==
  ASSUME Settled, NEW n \in Mine, Remove(n)
  PROVE  Crosses
  <1>1. /\ n \in Names /\ n \in AllNames /\ n \in store /\ n \notin used
        /\ \A m \in Names : m \in AllNames
    BY NameFacts DEF Remove, removable, Names
  <1>2. /\ Arrays /\ store \subseteq Names /\ used \subseteq store /\ image \in [Nodes -> Names]
        /\ nested \in Names \cup {None}
    BY SettledFacts
  <1>3. /\ UNCHANGED <<image, nested, built>> /\ phase' = phase /\ prog' = prog /\ past_kept
        /\ spoiled' = spoiled \cup ({n} \cap (busy \cup {nested}))
    BY DEF Remove, running, past, past_kept, touches
  <1>4. JobsLike(jobs) /\ JobsLike(jobs_without({n})) /\ (jobs' = jobs \/ jobs' = jobs_without({n}))
    BY LikeItself DEF Remove, Settled
  <1>5. JobsGrow
    BY <1>4, SameJobsGrow
  <1>6. \/ /\ tags' = [tags EXCEPT ![n] = None] /\ cache' = [cache EXCEPT ![n] = None]
           /\ store' = store \ {n}
        \/ tags' = tags /\ cache' = cache /\ store' = store
    BY DEF Remove, registry_untag, stored
  <1>7. /\ Arrays' /\ \A m \in AllNames : m # n => tags'[m] = tags[m] /\ cache'[m] = cache[m]
        /\ \A m \in Names : m # n => (m \in store' <=> m \in store)
    BY <1>1, <1>2, <1>6 DEF Arrays
  <1>8. used' = used
    BY <1>3 DEF used
  <1>9. ASSUME NEW m \in Names, trusted(m)'
        PROVE  trusted(m) /\ (Keeps(m) \/ (m \notin busy /\ Good(m)'))
    <2>1. trusted(m)
      BY <1>3, <1>9 DEF trusted
    <2>2. CASE m # n
      BY <1>1, <1>3, <1>7, <1>8, <2>1, <2>2 DEF Keeps
    <2>3. CASE m = n
      <3>1. n \notin busy
        BY <1>3, <1>9, <2>3 DEF trusted
      <3>2. Good(n)
        BY <1>1, <2>1, <2>3, <3>1 DEF Settled
      <3>3. Good(n)'
        BY <1>1, <1>2, <1>3, <1>6, <3>2 DEF Good, Arrays
      <3> QED
        BY <2>1, <2>3, <3>1, <3>3
    <2> QED
      BY <2>2, <2>3
  <1>10. tags'[Temp] = tags[Temp] /\ \A m \in Names : KeepsBackup(m)
    BY <1>1, <1>7, NamesOnly
  <1>11. store' \subseteq Names /\ (used \subseteq store)'
    BY <1>1, <1>2, <1>6, <1>8
  <1> QED
    BY <1>2, <1>3, <1>5, <1>7, <1>9, <1>10, <1>11 DEF Crosses

\* What the tag of a name gives
LEMMA TagResult ==
  ASSUME Arrays, NEW n \in AllNames, NEW m \in AllNames,
         tags' = registry_tag(n, m).tags, cache' = registry_tag(n, m).cache
  PROVE  /\ Arrays'
         /\ \A x \in AllNames : x # m => tags'[x] = tags[x] /\ cache'[x] = cache[x]
         /\ registry_tag(n, m).ok \in BOOLEAN
         /\ registry_tag(n, m).ok => /\ tags[n] # None /\ tags'[m] = tags[n]
                                     /\ cache'[m] = cache[n]
                                     /\ registry_tag(n, m).tags = [tags EXCEPT ![m] = tags[n]]
                                     /\ registry_tag(n, m).cache = [cache EXCEPT ![m] = cache[n]]
  <1>1. CASE cache[m] # None /\ tags[m] = None
    <2>1. registry_tag(n, m) = [ok |-> FALSE, tags |-> tags, cache |-> cache]
      BY <1>1 DEF registry_tag
    <2> QED
      BY <2>1 DEF Arrays
  <1>2. CASE ~(cache[m] # None /\ tags[m] = None)
    <2>1. registry_tag(n, m) = [ok |-> tags[n] # None, tags |-> [tags EXCEPT ![m] = tags[n]],
                                cache |-> [cache EXCEPT ![m] = cache[n]]]
      BY <1>2 DEF registry_tag
    <2>2. /\ registry_tag(n, m).ok = (tags[n] # None)
          /\ registry_tag(n, m).tags = [tags EXCEPT ![m] = tags[n]]
          /\ registry_tag(n, m).cache = [cache EXCEPT ![m] = cache[n]]
      BY <2>1
    <2>3. tags' = [tags EXCEPT ![m] = tags[n]] /\ cache' = [cache EXCEPT ![m] = cache[n]]
      BY <2>2
    <2>4. Arrays' /\ tags'[m] = tags[n] /\ cache'[m] = cache[n]
      BY <2>3 DEF Arrays
    <2>5. \A x \in AllNames : x # m => tags'[x] = tags[x] /\ cache'[x] = cache[x]
      BY <2>3 DEF Arrays
    <2> QED
      BY <2>2, <2>4, <2>5
  <1> QED
    BY <1>1, <1>2

\* A copy under the name m: what can be trusted of it is true.
LEMMA RegistersCrosses ==
  ASSUME Settled, NEW n \in Names, NEW m \in Names, registers(n, m),
         UNCHANGED <<image, built, running>>, nested' \in Names \cup {None}
  PROVE  Crosses
  <1> DEFINE ok == registry_tag(n, m).ok
  <1>1. /\ n \in AllNames /\ m \in AllNames /\ \A x \in Names : x \in AllNames
    BY NameFacts
  <1>2. /\ Arrays /\ store \subseteq Names /\ used \subseteq store /\ image \in [Nodes -> Names]
    BY SettledFacts
  <1>3. /\ phase' = phase /\ prog' = prog /\ past_kept
        /\ tags' = registry_tag(n, m).tags /\ cache' = registry_tag(n, m).cache
        /\ store' = IF ok THEN store \cup {m} ELSE store
        /\ spoiled' = spoiled \cup doubtful(ok /\ m \notin store, n, m)
                        \cup IF {n, m} \cap busy = {} THEN {} ELSE {m}
        /\ jobs' = jobs
    BY DEF registers, running, past, past_kept
  <1>4. JobsLike(jobs)
    BY LikeItself DEF Settled
  <1>5. JobsGrow
    BY <1>3, <1>4, SameJobsGrow
  <1>6. /\ Arrays'
        /\ \A x \in AllNames : x # m => tags'[x] = tags[x] /\ cache'[x] = cache[x]
        /\ ok \in BOOLEAN
        /\ ok => tags[n] # None /\ tags'[m] = tags[n] /\ cache'[m] = cache[n]
    BY <1>1, <1>2, <1>3, TagResult
  <1>7. trusted(m)' => /\ trusted(m) /\ ok /\ m \notin store /\ n \notin built /\ trusted(n)
                       /\ m \notin busy /\ n \notin busy
    <2>1. m \notin spoiled' => /\ m \notin spoiled /\ m \notin doubtful(ok /\ m \notin store, n, m)
                               /\ {n, m} \cap busy = {}
      BY <1>3
    <2>2. m \notin doubtful(ok /\ m \notin store, n, m) =>
              ok /\ m \notin store /\ n \notin built /\ n \notin spoiled
      BY DEF doubtful
    <2> QED
      BY <2>1, <2>2 DEF trusted
  <1> HIDE DEF ok
  <1>8. used' = used
    BY DEF used
  <1>9. ASSUME NEW x \in Names, trusted(x)'
        PROVE  trusted(x) /\ (Keeps(x) \/ (x \notin busy /\ Good(x)'))
    <2>1. CASE x # m
      <3>1. trusted(x)
        BY <1>3, <1>9 DEF trusted
      <3>2. x \in store' <=> x \in store
        BY <1>3, <2>1
      <3> QED
        BY <1>1, <1>6, <1>8, <2>1, <3>1, <3>2 DEF Keeps
    <2>2. CASE x = m
      <3>1. /\ trusted(m) /\ ok /\ m \notin busy
            /\ Good(n) /\ n \notin built
        BY <1>7, <1>9, <2>2 DEF Settled
      <3>2. tags'[m] = tags[n] /\ cache'[m] = tags[n] /\ tags[n] # None /\ m \in store'
        BY <1>3, <1>6, <3>1 DEF Good
      <3> QED
        BY <2>2, <3>1, <3>2 DEF Good
    <2> QED
      BY <2>1, <2>2
  <1>10. tags'[Temp] = tags[Temp] /\ \A x \in Names : KeepsBackup(x)
    BY <1>6, NamesOnly
  <1>11. store' \subseteq Names /\ (used \subseteq store)'
    BY <1>2, <1>3, <1>8
  <1> QED
    BY <1>2, <1>3, <1>5, <1>6, <1>9, <1>10, <1>11 DEF Crosses

LEMMA RenamedLike ==
  ASSUME IInv, NEW n \in Names, NEW m \in Names
  PROVE  LET renamed(r) == IF r.live /\ r.name = n THEN ref(m) ELSE r IN
         JobsLike([i \in DOMAIN jobs |-> [jobs[i] EXCEPT !.obj = renamed(@)]])
  <1> DEFINE renamed(r) == IF r.live /\ r.name = n THEN ref(m) ELSE r
             js == [i \in DOMAIN jobs |-> [jobs[i] EXCEPT !.obj = renamed(@)]]
  <1>1. \A r \in Refs : renamed(r) \in Refs
    BY DEF ref, Refs
  <1>2. DOMAIN jobs = 1..Len(jobs) /\ Len(jobs) \in Nat /\ \A i \in 1..Len(jobs) : jobs[i] \in Jobs
    BY DEF IInv, Typed
  <1> HIDE DEF renamed
  <1>3. \A j \in Jobs : LET k == [j EXCEPT !.obj = renamed(@)] IN
            k \in Jobs /\ k.kind = j.kind /\ k.ws = j.ws /\ k.src = j.src /\ k.local = j.local
    BY <1>1 DEF Jobs
  <1>4. \A i \in 1..Len(jobs) : js[i] = [jobs[i] EXCEPT !.obj = renamed(@)]
    BY <1>2
  <1>5. js \in [1..Len(jobs) -> Jobs]
    BY <1>2, <1>3
  <1>6. js \in Seq(Jobs) /\ Len(js) = Len(jobs)
    BY <1>2, <1>5
  <1> HIDE DEF js
  <1>7. JobsLike(js)
    BY <1>2, <1>3, <1>4, <1>6 DEF JobsLike
  <1> QED
    BY <1>7 DEF js, renamed

LEMMA RenameCrosses ==
  ASSUME Settled, NEW n \in Mine, NEW m \in Mine, Rename(n, m)
  PROVE  Crosses
  <1> DEFINE ok == registry_tag(n, m).ok
             renamed(r) == IF r.live /\ r.name = n THEN ref(m) ELSE r
             js == [i \in DOMAIN jobs |-> [jobs[i] EXCEPT !.obj = renamed(@)]]
  <1>1. /\ n \in Names /\ m \in Names /\ n # m /\ n \in store /\ n \notin used
        /\ m \notin store /\ n \in AllNames /\ m \in AllNames /\ \A x \in Names : x \in AllNames
    BY NameFacts DEF Rename, removable, available, Names
  <1>2. /\ Arrays /\ store \subseteq Names /\ used \subseteq store /\ image \in [Nodes -> Names]
        /\ nested \in Names \cup {None}
    BY SettledFacts
  <1>3. /\ UNCHANGED <<image, nested, built>> /\ phase' = phase /\ prog' = prog /\ past_kept
        /\ spoiled' = spoiled \cup doubtful(ok, n, m)
                        \cup IF {n, m} \cap (busy \cup {nested}) = {} THEN {} ELSE {n, m}
    BY DEF Rename, running, past, past_kept
  <1>4. \/ /\ ok = TRUE
           /\ tags' = [registry_tag(n, m).tags EXCEPT ![n] = None]
           /\ cache' = [registry_tag(n, m).cache EXCEPT ![n] = None]
           /\ store' = (store \ {n}) \cup {m}
           /\ jobs' = js
        \/ /\ ~ok
           /\ tags' = registry_tag(n, m).tags /\ cache' = registry_tag(n, m).cache
           /\ store' = store /\ jobs' = jobs
    <2>1. ok \in BOOLEAN
      BY DEF registry_tag
    <2> QED
      BY <2>1 DEF Rename, with_refs
  <1>5. JobsLike(jobs) /\ JobsLike(js)
    <2>1. IInv
      BY DEF Settled
    <2> QED
      BY <1>1, <2>1, LikeItself, RenamedLike
  <1> HIDE DEF js
  <1>6. JobsGrow
    BY <1>4, <1>5, SameJobsGrow
  <1>7. used' = used
    BY <1>3 DEF used
  <1>8. trusted(m)' => /\ trusted(m) /\ ok /\ n \notin built /\ trusted(n)
                       /\ m \notin busy /\ n \notin busy
    <2>1. m \notin spoiled' => /\ m \notin spoiled /\ m \notin doubtful(ok, n, m)
                               /\ {n, m} \cap busy = {}
      BY <1>3
    <2>2. m \notin doubtful(ok, n, m) => ok /\ n \notin built /\ n \notin spoiled
      BY <1>1 DEF doubtful
    <2> QED
      BY <2>1, <2>2 DEF trusted
  <1>9. trusted(n)' => trusted(n) /\ n \notin busy
    BY <1>3 DEF trusted
  <1>10. CASE /\ ok = TRUE
              /\ tags' = [registry_tag(n, m).tags EXCEPT ![n] = None]
              /\ cache' = [registry_tag(n, m).cache EXCEPT ![n] = None]
              /\ store' = (store \ {n}) \cup {m}
    <2>1. /\ registry_tag(n, m).tags = [tags EXCEPT ![m] = tags[n]]
          /\ registry_tag(n, m).cache = [cache EXCEPT ![m] = cache[n]]
          /\ tags[n] # None
      <3>1. ok = TRUE
        BY <1>10
      <3> QED
        BY <3>1 DEF registry_tag
    <2> HIDE DEF ok
    <2>2. /\ tags' = [[tags EXCEPT ![m] = tags[n]] EXCEPT ![n] = None]
          /\ cache' = [[cache EXCEPT ![m] = cache[n]] EXCEPT ![n] = None]
      BY <1>10, <2>1
    <2>3. /\ Arrays' /\ tags'[m] = tags[n] /\ cache'[m] = cache[n]
          /\ tags'[n] = None /\ cache'[n] = None
          /\ \A x \in AllNames : x # m /\ x # n => tags'[x] = tags[x] /\ cache'[x] = cache[x]
      BY <1>1, <1>2, <2>2 DEF Arrays
    <2>4. ASSUME NEW x \in Names, trusted(x)'
          PROVE  trusted(x) /\ (Keeps(x) \/ (x \notin busy /\ Good(x)'))
      <3>1. CASE x # m /\ x # n
        <4>1. trusted(x)
          BY <1>3, <2>4 DEF trusted
        <4>2. x \in store' <=> x \in store
          BY <1>10, <3>1
        <4> QED
          BY <1>1, <1>3, <1>7, <2>3, <3>1, <4>1, <4>2 DEF Keeps
      <3>2. CASE x = m
        <4>1. trusted(m) /\ m \notin busy /\ n \notin busy /\ trusted(n) /\ n \notin built
          BY <1>8, <2>4, <3>2
        <4>2. Good(n)
          BY <1>1, <4>1 DEF Settled
        <4>3. tags'[m] = tags[n] /\ cache'[m] = tags[n] /\ tags'[m] # None /\ m \in store'
          BY <1>10, <2>1, <2>3, <4>1, <4>2 DEF Good
        <4> QED
          BY <3>2, <4>1, <4>3 DEF Good
      <3>3. CASE x = n
        <4>1. trusted(n) /\ n \notin busy
          BY <1>9, <2>4, <3>3
        <4>2. n \notin store'
          BY <1>1, <1>10
        <4> QED
          BY <2>3, <3>3, <4>1, <4>2 DEF Good
      <3> QED
        BY <3>1, <3>2, <3>3
    <2>5. tags'[Temp] = tags[Temp] /\ \A x \in Names : KeepsBackup(x)
      BY <1>1, <2>3, NamesOnly
    <2>6. store' \subseteq Names /\ (used \subseteq store)'
      BY <1>1, <1>2, <1>7, <1>10
    <2> QED
      BY <1>2, <1>3, <1>6, <2>3, <2>4, <2>5, <2>6 DEF Crosses
  <1>11. CASE /\ ~ok
              /\ tags' = registry_tag(n, m).tags /\ cache' = registry_tag(n, m).cache
              /\ store' = store
    <2>1. /\ Arrays'
          /\ \A x \in AllNames : x # m => tags'[x] = tags[x] /\ cache'[x] = cache[x]
      BY <1>1, <1>2, <1>11, TagResult
    <2>2. ~trusted(m)'
      BY <1>8, <1>11
    <2> HIDE DEF ok
    <2>3. ASSUME NEW x \in Names, trusted(x)'
          PROVE  trusted(x) /\ (Keeps(x) \/ (x \notin busy /\ Good(x)'))
      <3>1. x # m
        BY <2>2, <2>3
      <3>2. trusted(x)
        BY <1>3, <2>3 DEF trusted
      <3> QED
        BY <1>1, <1>3, <1>7, <1>11, <2>1, <3>1, <3>2 DEF Keeps
    <2>4. tags'[Temp] = tags[Temp] /\ \A x \in Names : KeepsBackup(x)
      BY <1>1, <2>1, NamesOnly
    <2>5. store' \subseteq Names /\ (used \subseteq store)'
      BY <1>2, <1>7, <1>11
    <2> QED
      BY <1>2, <1>3, <1>6, <2>1, <2>3, <2>4, <2>5 DEF Crosses
  <1> QED
    BY <1>4, <1>10, <1>11

LEMMA FinalizeCrosses ==
  ASSUME Settled, NEW n \in Mine, Finalize(n)
  PROVE  Crosses
  <1>1. /\ n \in Names /\ n \in AllNames /\ n \in built /\ \A x \in Names : x \in AllNames
    BY NameFacts DEF Finalize, Names
  <1>2. /\ Arrays /\ store \subseteq Names /\ used \subseteq store /\ image \in [Nodes -> Names]
        /\ nested \in Names \cup {None}
    BY SettledFacts
  <1>3. /\ UNCHANGED <<tags, image, nested>> /\ phase' = phase /\ prog' = prog /\ past_kept
        /\ built' = built \ {n} /\ cache' = refreshed(cache, n)
        /\ spoiled' = spoiled \cup (({n} \cup (store \ listed(cache'))) \cap (busy \cup {nested}))
    BY DEF Finalize, running, past, past_kept, touches
  <1>4. PICK res \in resyncs(cache') : stored(res.store) /\ jobs' = jobs_without(store \ res.store)
    BY DEF Finalize
  <1>5. JobsLike(jobs_without(store \ res.store))
    BY LikeItself DEF Settled
  <1>6. JobsGrow
    BY <1>4, <1>5, SameJobsGrow
  <1>7. /\ cache' \in [AllNames -> Ids \cup {None}] /\ cache'[n] = tags[n]
        /\ \A m \in AllNames \ {n} : \/ cache'[m] = cache[m]
                                     \/ cache'[m] = tags[m] /\ tags[m] # None
    BY <1>1, <1>2, <1>3, Refreshed
  <1>8. /\ store' \subseteq Names /\ used \subseteq store'
        /\ \A x \in Names : cache'[x] # None => x \in store'
        /\ \A x \in Names : x \in store' => x \in store \/ cache'[x] # None
    <2>1. store' = res.store
      BY <1>4 DEF stored
    <2>2. PICK ch : ch = cache'
      OBVIOUS
    <2>3. /\ res.store \subseteq Names /\ used \subseteq res.store
          /\ \A x \in Names : ch[x] # None => x \in res.store
          /\ \A x \in Names : x \in res.store => x \in store \/ ch[x] # None
      BY <1>2, <1>4, <2>2, ResyncFacts
    <2> QED
      BY <2>1, <2>2, <2>3
  <1>9. used' = used
    BY <1>3 DEF used
  <1>10. ASSUME NEW x \in Names, trusted(x)'
         PROVE  trusted(x) /\ (Keeps(x) \/ (x \notin busy /\ Good(x)'))
    <2>1. trusted(x)
      BY <1>3, <1>10 DEF trusted
    <2>2. CASE x # n
      <3>1. x \in store => x \in store'
        <4>1. CASE x \in busy
          <5>1. x \notin store \ listed(cache')
            BY <1>3, <1>10, <4>1 DEF trusted
          <5> QED
            BY <1>8, <5>1 DEF listed
        <4>2. CASE x \notin busy
          <5>1. Firm(x)
            BY <2>1, <4>2, GoodFirm DEF Settled
          <5>2. cache[x] # None => cache'[x] # None
            BY <1>1, <1>7, <2>2
          <5> QED
            BY <1>8, <5>1, <5>2 DEF Firm
        <4> QED
          BY <4>1, <4>2
      <3>2. cache'[x] = cache[x] \/ (cache'[x] = tags[x] /\ tags[x] # None)
        BY <1>1, <1>7, <2>2
      <3>3. x \in built' <=> x \in built
        BY <1>3, <2>2
      <3> QED
        BY <1>3, <1>8, <1>9, <2>1, <3>1, <3>2, <3>3 DEF Keeps
    <2>3. CASE x = n
      <3>1. n \notin busy
        BY <1>3, <1>10, <2>3 DEF trusted
      <3>2. Good(n)
        BY <1>1, <2>1, <2>3, <3>1 DEF Settled
      <3>3. n \in store' <=> tags[n] # None
        BY <1>1, <1>7, <1>8, <3>2 DEF Good
      <3>4. Good(n)'
        BY <1>3, <1>7, <3>3 DEF Good
      <3> QED
        BY <2>1, <2>3, <3>1, <3>4
    <2> QED
      BY <2>2, <2>3
  <1>11. tags'[Temp] = tags[Temp] /\ \A x \in Names : KeepsBackup(x)
    <2>1. \A x \in Names : /\ backup(x) \in AllNames
                           /\ backup(x) # n
      BY <1>1, NameFacts
    <2> QED
      BY <1>3, <1>7, <2>1 DEF KeepsBackup
  <1> QED
    BY <1>2, <1>3, <1>6, <1>7, <1>8, <1>9, <1>10, <1>11 DEF Crosses, Arrays

\* The other requests change neither podman, nor the cache, nor the store.
LEMMA SetImageCrosses ==
  ASSUME Settled, NEW node \in Nodes, NEW n \in Names, SetImage(node, n)
  PROVE  Crosses
  <1>1. /\ image \in [Nodes -> Names] /\ nested \in Names \cup {None}
    BY SettledFacts
  <1>2. /\ n \in store /\ image' = [image EXCEPT ![node] = n]
        /\ UNCHANGED <<nested, built, store>> /\ UNCHANGED podman /\ UNCHANGED running
        /\ jobs' = jobs
        /\ spoiled' = spoiled \cup ({n} \cap (busy \cup {nested}))
    BY DEF SetImage, touches
  <1>3. JobsGrow
    <2>1. JobsLike(jobs)
      BY LikeItself DEF Settled
    <2> QED
      BY <1>2, <2>1, SameJobsGrow
  <1>4. image' \in [Nodes -> Names] /\ \A k \in Nodes : image'[k] = image[k] \/ image'[k] = n
    BY <1>1, <1>2
  <1>5. \A x \in used' : x = n \/ x \in used
    BY <1>4 DEF used
  <1>6. \A x \in Names : trusted(x)' => (x \in used' => x \in used) \/ x \notin busy
    BY <1>2, <1>5 DEF trusted
  <1>7. used' \subseteq used \cup store
    BY <1>2, <1>5
  <1> QED
    BY <1>1, <1>2, <1>3, <1>4, <1>6, <1>7, QuietCrosses

\* A request that only concerns sessions, or submits a job
LEMMA SessionCrosses ==
  ASSUME Settled, JobsGrow, UNCHANGED running, UNCHANGED podman,
         UNCHANGED <<store, built, image, spoiled>>, nested' \in Names \cup {None}
  PROVE  Crosses
  <1>1. used' = used /\ image \in [Nodes -> Names]
    BY SettledFacts DEF used
  <1> QED
    BY <1>1, QuietCrosses

LEMMA RequestCrosses ==
  ASSUME Settled, Request
  PROVE  Crosses
  <1>1. /\ \A n \in Mine : n \in Names
        /\ Default \in Names /\ nested \in Names \cup {None}
        /\ shell \in Refs /\ NoRef \in Refs /\ \A n \in Names : ref(n) \in Refs
    BY NameFacts, SettledFacts DEF Names, Settled, IInv, Typed, Refs, NoRef, ref
  <1>2. jobs' = jobs => JobsGrow
    <2>1. JobsLike(jobs)
      BY LikeItself DEF Settled
    <2> QED
      BY <2>1, SameJobsGrow
  <1>3. ASSUME NEW n \in Mine, Remove(n)
        PROVE  Crosses
    BY <1>3, RemoveCrosses
  <1>4. ASSUME NEW n \in Mine, CloneDefault(n)
        PROVE  Crosses
    <2>1. /\ nested' = n /\ UNCHANGED running /\ UNCHANGED podman
          /\ UNCHANGED <<store, built, image, spoiled, jobs>>
      BY <1>4 DEF CloneDefault
    <2> QED
      BY <1>1, <1>2, <2>1, SessionCrosses
  <1>5. ASSUME NEW n \in Mine, ShellOpen(n)
        PROVE  Crosses
    <2>1. /\ UNCHANGED running /\ UNCHANGED podman
          /\ UNCHANGED <<store, built, image, spoiled, jobs, nested>>
      BY <1>5 DEF ShellOpen
    <2> QED
      BY <1>1, <1>2, <2>1, SessionCrosses
  <1>6. ASSUME NEW m \in Mine, ShellSave(m)
        PROVE  Crosses
    <2>1. /\ submits("commit", m, m, FALSE, FALSE, shell)
          /\ UNCHANGED running /\ UNCHANGED podman
          /\ UNCHANGED <<store, built, image, spoiled, nested>>
      BY <1>6 DEF ShellSave
    <2>2. JobsGrow
      BY <1>1, <2>1, SubmitsGrow DEF Kinds
    <2> QED
      BY <1>1, <2>1, <2>2, SessionCrosses
  <1>7. ASSUME NEW n \in Mine, Squash(n)
        PROVE  Crosses
    <2>1. /\ submits("squash", n, n, FALSE, FALSE, ref(n))
          /\ UNCHANGED running /\ UNCHANGED podman
          /\ UNCHANGED <<store, built, image, spoiled, nested>>
      BY <1>7 DEF Squash
    <2>2. JobsGrow
      BY <1>1, <2>1, SubmitsGrow DEF Kinds
    <2> QED
      BY <1>1, <2>1, <2>2, SessionCrosses
  <1>8. ASSUME NEW n \in Mine, Finalize(n)
        PROVE  Crosses
    BY <1>8, FinalizeCrosses
  <1>9. ASSUME NEW n \in Mine, NEW m \in Mine, Rename(n, m)
        PROVE  Crosses
    BY <1>9, RenameCrosses
  <1>10. ASSUME NEW n \in Mine, NEW m \in Mine, Duplicate(n, m)
         PROVE  Crosses
    <2>1. registers(n, m) /\ UNCHANGED <<image, built, running>> /\ nested' = nested
      BY <1>10 DEF Duplicate
    <2> QED
      BY <1>1, <2>1, RegistersCrosses
  <1>11. ASSUME NEW node \in Nodes, NEW n \in Names, SetImage(node, n)
         PROVE  Crosses
    BY <1>11, SetImageCrosses
  <1>12. CASE ClientAnswers
    <2>1. /\ nested \in Names /\ registers(Default, nested) /\ UNCHANGED <<image, built, running>>
          /\ nested' = None
      BY <1>1, <1>12 DEF ClientAnswers
    <2> QED
      BY <1>1, <2>1, RegistersCrosses
  <1>13. CASE ShellLeave
    <2>1. /\ UNCHANGED running /\ UNCHANGED podman
          /\ UNCHANGED <<store, built, image, spoiled, jobs, nested>>
      BY <1>13 DEF ShellLeave
    <2> QED
      BY <1>1, <1>2, <2>1, SessionCrosses
  <1>14. CASE Submit
    <2>1. /\ UNCHANGED running /\ UNCHANGED podman
          /\ UNCHANGED <<store, built, image, spoiled, nested>>
      BY <1>14 DEF Submit, others
    <2>2. JobsGrow
      <3>1. CASE \E ws \in Mine, src \in Names, local, force \in BOOLEAN :
                     submits("clone", ws, src, local, force, NoRef)
        BY <1>1, <3>1, SubmitsGrow DEF Kinds
      <3>2. CASE \E n \in Mine : submits("build", n, n, FALSE, FALSE, NoRef)
        BY <1>1, <3>2, SubmitsGrow DEF Kinds
      <3>3. CASE submits("update", Default, Default, FALSE, FALSE, NoRef)
        BY <1>1, <3>3, SubmitsGrow DEF Kinds
      <3> QED
        BY <1>14, <3>1, <3>2, <3>3 DEF Submit
    <2> QED
      BY <1>1, <2>1, <2>2, SessionCrosses
  <1> QED
    BY <1>3, <1>4, <1>5, <1>6, <1>7, <1>8, <1>9, <1>10, <1>11, <1>12, <1>13, <1>14 DEF Request

LEMMA CatalogKeeps ==
  ASSUME Catalogued, [Next]_vars
  PROVE  Catalogued'
  <1>1. NestedName /\ IInv /\ CInv /\ Settled
    BY DEF Catalogued, CInv, CatalogTyped, NestedName, Settled
  <1>2. IInv'
    BY <1>1, TasksKeep
  <1>3. CASE Step
    BY <1>2, <1>3, WorkKeeps, StartKeeps DEF Catalogued
  <1>4. CASE Request
    BY <1>1, <1>2, <1>4, RequestCrosses, CrossesKeep DEF Catalogued
  <1>5. CASE UNCHANGED vars
    <2>1. /\ UNCHANGED running /\ UNCHANGED podman
          /\ UNCHANGED <<store, built, image, spoiled, jobs, nested>>
      BY <1>5 DEF vars, running, podman, past
    <2>2. JobsGrow
      <3>1. JobsLike(jobs)
        BY <1>1, LikeItself
      <3> QED
        BY <1>1, <2>1, <3>1, SameJobsGrow
    <2>3. Crosses
      BY <1>1, <2>1, <2>2, SettledFacts, SessionCrosses
    <2> QED
      BY <1>2, <2>3, CrossesKeep DEF Catalogued
  <1> QED
    BY <1>3, <1>4, <1>5 DEF Next

LEMMA InitCatalog == Init => Catalogued
  <1> SUFFICES ASSUME Init
               PROVE  Catalogued
    OBVIOUS
  <1>1. IInv /\ jobs = <<>> /\ phase = "queued" /\ prog = <<>>
    BY InitTasks DEF Init
  <1>2. PICK known \in SUBSET Names :
           /\ store = known
           /\ tags \in [AllNames -> Ids \cup {None}]
           /\ \A n \in AllNames : tags[n] # None <=> n \in known
    BY DEF Init
  <1>3. cache = tags /\ image \in [Nodes -> store] /\ nested = None /\ built = {}
        /\ start = nothing /\ fetched = None
    BY DEF Init
  <1>4. CatalogTyped
    <2>1. start \in [AllNames -> Ids \cup {None}]
      BY <1>3 DEF nothing
    <2>2. Len(jobs) = 0 /\ prog \in Seq(Steps)
      BY <1>1
    <2> QED
      BY <1>1, <1>2, <1>3, <2>1, <2>2 DEF CatalogTyped
  <1>5. used \subseteq store
    BY <1>3 DEF used
  <1>6. \A n \in Names : Good(n)
    BY <1>2, <1>3, NameFacts DEF Good
  <1>7. ~working
    BY <1>1 DEF working
  <1> QED
    BY <1>1, <1>4, <1>5, <1>6, <1>7 DEF Catalogued, CInv, Belongs

-----------------------------------------------------------------------------
\* While a clone works on n, the image of a node has its name or a backup.
LEMMA CloneKeepsImage ==
  ASSUME NEW w, NEW s, NEW loc, CloneInv(w, s, loc), NEW n \in {w, s}, trusted(n), n \in used,
         n \in store
  PROVE  tags[n] # None \/ tags[backup(n)] # None
  <1>1. Good(n) => tags[n] # None
    BY DEF Good
  <1>2. Intact(n) => tags[n] # None
    BY <1>1 DEF Intact
  <1>3. Whole(n) => tags[backup(n)] # None
    BY DEF Whole, Safe
  <1>4. CASE CloneWorks(w, s, loc)
    <2>1. \A e, x \in BOOLEAN : Saving(w, s, loc, e, x) => Intact(n)
      BY DEF Saving
    <2>2. \A e, x \in BOOLEAN : Checking(w, s, loc, e, x) => Whole(n)
      BY DEF Checking
    <2>3. \A e, x \in BOOLEAN : CopyingOther(w, s, e, x) => Whole(n)
      BY DEF CopyingOther
    <2>4. CopyingLocal(w, s) => Whole(n)
      BY DEF CopyingLocal
    <2>5. w = s /\ Updating(w) => Whole(n)
      BY DEF Updating
    <2>6. Done(w, s, loc) => Whole(n)
      BY DEF Done
    <2> QED
      BY <1>2, <1>3, <1>4, <2>1, <2>2, <2>3, <2>4, <2>5, <2>6 DEF CloneWorks
  <1>5. CASE CloneDeclined(w, s)
    BY <1>3, <1>5 DEF CloneDeclined
  <1>6. CASE Restoring(w, s)
    BY <1>2, <1>6 DEF Restoring
  <1>7. CASE Cleaning(w, s)
    BY <1>1, <1>7 DEF Cleaning, Ready
  <1> QED
    BY <1>4, <1>5, <1>6, <1>7 DEF CloneInv

LEMMA JobKeepsImage ==
  ASSUME NEW n, NEW kind, OtherInv(n, kind), trusted(n), n \in store
  PROVE  tags[n] # None \/ (kind \in {"squash", "commit"} /\ tags[Temp] # None)
  <1>1. Good(n) => tags[n] # None
    BY DEF Good
  <1>2. Listed(n) => tags[n] # None
    BY DEF Listed, Present
  <1> QED
    BY <1>1, <1>2 DEF OtherInv, CommitInv, Present

LEMMA ImpliesImages == Catalogued => NodeImageKept
  <1> SUFFICES ASSUME Catalogued, NEW node \in Nodes, NEW n, n = image[node], trusted(n)
               PROVE  \/ tags[n] # None
                      \/ working /\ tags[backup(n)] # None
                      \/ working /\ job.ws = n /\ job.kind \in {"squash", "commit"}
                                 /\ tags[Temp] # None
    BY DEF NodeImageKept, trusted
  <1>1. /\ IInv /\ CatalogTyped /\ used \subseteq store
        /\ \A m \in Names : trusted(m) /\ m \notin busy => Good(m)
        /\ working => JobInv(job)
    BY DEF Catalogued, CInv
  <1>2. n \in used /\ n \in store /\ n \in Names
    BY <1>1 DEF used, CatalogTyped
  <1>3. CASE n \notin busy
    BY <1>1, <1>2, <1>3 DEF Good
  <1>4. CASE n \in busy
    <2>1. PICK w, s, loc, kind : w = job.ws /\ s = job.src /\ loc = job.local /\ kind = job.kind
      OBVIOUS
    <2>2. working /\ n \in {w, s}
      BY <1>4, <2>1 DEF busy
    <2>3. jobs # <<>> /\ (kind # "clone" => s = w)
      BY <1>1, <2>1, <2>2, JobNames DEF working
    <2>4. CASE kind = "clone"
      <3>1. CloneInv(w, s, loc)
        BY <1>1, <2>1, <2>2, <2>4 DEF JobInv
      <3> QED
        BY <1>2, <2>2, <3>1, CloneKeepsImage
    <2>5. CASE kind # "clone"
      <3>1. OtherInv(w, kind) /\ n = w
        BY <1>1, <2>1, <2>2, <2>3, <2>5 DEF JobInv
      <3> QED
        BY <1>2, <2>1, <2>2, <3>1, JobKeepsImage
    <2> QED
      BY <2>4, <2>5
  <1> QED
    BY <1>3, <1>4

LEMMA ImpliesCatalogue == Catalogued => CatalogueTrue
  <1> SUFFICES ASSUME Catalogued, jobs = <<>>, NEW n \in Names \ (spoiled \cup built)
               PROVE  (n \in store <=> tags[n] # None) /\ cache[n] = tags[n]
    BY DEF CatalogueTrue
  <1>1. n \notin busy /\ trusted(n)
    BY DEF busy, working, trusted
  <1>2. Good(n)
    BY <1>1 DEF Catalogued, CInv
  <1> QED
    BY <1>2 DEF Good

-----------------------------------------------------------------------------
\* The cleaner of a clone does not fail on names that can be trusted.
LEMMA RestoreGoesOn ==
  ASSUME NEW w, NEW s, NEW loc, RestoreHere(w, s, loc), trusted(w), trusted(s)
  PROVE  JobsKept
  <1>1. /\ w \in Names /\ s \in Names /\ Running
        /\ Program(prog, prog[1], Tail(prog))
        /\ \A x : prog[1] = x => pending(x)
        /\ \A n \in {w, s} : n \in AllNames /\ backup(n) \in AllNames
    BY RestoreFacts
  <1>2. PICK a \in {w, s} : prog[1] \in {drop(a), back(a), lose(a)}
    BY RestoreFacts
  <1>3. trusted(a) /\ Awaits(a) /\ (pending(back(a)) => pending(lose(a)))
        /\ (pending(lose(a)) => tags[backup(a)] # None)
    BY DEF RestoreHere, Restoring, Awaits
  <1>4. ASSUME Continues(Tail(prog))
        PROVE  JobsKept
    BY <1>4 DEF Continues
  <1>5. CASE prog[1] = drop(a)
    <2>1. Sane(a)
      BY <1>1, <1>3, <1>5 DEF Awaits
    <2>2. Program(prog, <<"drop", a>>, Tail(prog))
      BY <1>1, <1>5 DEF drop
    <2> QED
      BY <1>1, <1>4, <2>1, <2>2, DoDrop
  <1>6. CASE prog[1] = back(a)
    <2>1. ~pending(drop(a))
      <3>1. prog[1][1] = "tag"
        BY <1>6, RestoreNames
      <3>2. /\ \A i, k \in 1..Len(prog) : i < k /\ prog[i][1] = "tag" => prog[k][1] # "drop"
            /\ Len(prog) \in Nat
        BY <1>1 DEF RestoreHere, Restoring, Ordered, Program
      <3>3. \A k \in 1..Len(prog) : prog[k][1] # "drop"
        BY <3>1, <3>2
      <3> QED
        BY <3>3, RestoreNames DEF pending
    <2>2. Gone(a) /\ tags[backup(a)] # None
      BY <1>1, <1>3, <1>6, <2>1 DEF Awaits
    <2>3. Program(prog, <<"tag", backup(a), a>>, Tail(prog))
      BY <1>1, <1>6 DEF back
    <2>4. a \in AllNames /\ backup(a) \in AllNames
      BY <1>1
    <2>5. \/ Continues(Tail(prog))
          \/ cache[a] # None /\ tags[a] = None
          \/ tags[backup(a)] = None
      BY <1>1, <2>3, <2>4, DoTag
    <2> QED
      BY <1>4, <2>2, <2>5 DEF Gone
  <1>7. CASE prog[1] = lose(a)
    BY <1>7, AtLose DEF GoesOn
  <1> QED
    BY <1>2, <1>5, <1>6, <1>7

\* When a clone ends, its promise is kept.
LEMMA CloneEnds ==
  ASSUME Catalogued, [Next]_vars, working, job.kind = "clone", Len(jobs') < Len(jobs),
         {job.ws, job.src} \cap spoiled = {}
  PROVE  IF phase = "forget"
         THEN /\ tags[job.ws] = IF job.local THEN start[job.src] ELSE fetched
              /\ job.src # job.ws => tags[job.src] = start[job.src]
         ELSE \A n \in {job.ws, job.src} : tags[n] = start[n]
  <1>1. /\ IInv /\ CatalogTyped /\ used \subseteq store /\ JobInv(job) /\ Settled
        /\ jobs \in Seq(Jobs) /\ Len(jobs) \in Nat
    BY DEF Catalogued, CInv, Settled, IInv, Typed
  <1>2. PICK w, s, loc : w = job.ws /\ s = job.src /\ loc = job.local
    OBVIOUS
  <1>3. w \in Names /\ s \in Names /\ loc \in BOOLEAN
    BY <1>1, <1>2, JobNames DEF working
  <1>4. Scene(w, s, loc) /\ CloneInv(w, s, loc) /\ trusted(w) /\ trusted(s)
    BY <1>1, <1>2, <1>3 DEF Scene, JobInv, trusted
  <1>5. Step
    <2>1. ~Request
      <3>1. Crosses => Len(jobs') >= Len(jobs)
        BY DEF Crosses, JobsGrow
      <3>2. Crosses => Len(jobs') \in Nat
        BY DEF Crosses, JobsGrow
      <3>3. Request => Crosses
        BY <1>1, RequestCrosses
      <3> QED
        BY <1>1, <3>1, <3>2, <3>3
    <2>2. ~UNCHANGED vars
      BY <1>1 DEF vars
    <2> QED
      BY <2>1, <2>2 DEF Next
  <1>6. Running /\ ~JobsKept
    BY <1>1, <1>5 DEF Running, JobsKept
  <1>7. phase # "work"
    <2>1. phase = "work" => CloneWorks(w, s, loc)
      BY <1>4 DEF CloneInv
    <2>2. phase = "work" => Acts(w, s, loc)
      BY <1>4, <1>6 DEF Acts
    <2> QED
      BY <1>6, <2>1, <2>2, AtWork DEF GoesOn
  <1>8. phase # "declined"
    <2>1. phase = "declined" => CloneDeclined(w, s)
      BY <1>4 DEF CloneInv
    <2> QED
      BY <1>4, <1>6, <2>1, AtDeclined DEF GoesOn
  <1>9. CASE phase = "restore"
    <2>1. Restoring(w, s)
      BY <1>4, <1>9 DEF CloneInv
    <2>2. prog = <<>>
      BY <1>4, <1>6, <1>9, <2>1, RestoreGoesOn DEF RestoreHere
    <2>3. \A x : ~pending(x)
      BY <2>2 DEF pending
    <2>4. Intact(w) /\ Intact(s)
      BY <1>4, <2>1, <2>3 DEF Restoring
    <2> QED
      BY <1>2, <1>9, <2>4 DEF Intact
  <1>10. CASE phase = "forget"
    BY <1>2, <1>4, <1>10 DEF CloneInv, Cloned
  <1>11. CASE phase = "decline"
    BY <1>2, <1>4, <1>11 DEF CloneInv
  <1> QED
    BY <1>4, <1>7, <1>8, <1>9, <1>10, <1>11 DEF CloneInv

\* NodeImageKept holds in every state: the image of a node stays in podman, under its name,
\* under the name of a backup of the clone in progress or under the temporary name of the
\* commit in progress, whatever requests cross the job and at whatever step it fails.
THEOREM ImagesKept == Spec => []NodeImageKept
  <1>1. Init => Catalogued
    BY InitCatalog
  <1>2. Catalogued /\ [Next]_vars => Catalogued'
    BY CatalogKeeps
  <1>3. Catalogued => NodeImageKept
    BY ImpliesImages
  <1> QED
    BY <1>1, <1>2, <1>3, PTL DEF Spec

\* CatalogueTrue holds in every state: when the blocking process is idle, podman, the cache of
\* the registry and the store agree on all names but those that a request disturbed, that a
\* build left to be finalized, or that a failed update of the store left there.
THEOREM CatalogueKept == Spec => []CatalogueTrue
  <1>1. Init => Catalogued
    BY InitCatalog
  <1>2. Catalogued /\ [Next]_vars => Catalogued'
    BY CatalogKeeps
  <1>3. Catalogued => CatalogueTrue
    BY ImpliesCatalogue
  <1> QED
    BY <1>1, <1>2, <1>3, PTL DEF Spec

\* CloneAtomic holds of every step: a clone that ends gave its image the content of the source,
\* or left both names as they were.
THEOREM ClonesAtomic == Spec => CloneAtomic
  <1>1. Init => Catalogued
    BY InitCatalog
  <1>2. Catalogued /\ [Next]_vars => Catalogued'
    BY CatalogKeeps
  <1>3. Catalogued /\ [Next]_vars =>
          [ /\ working /\ job.kind = "clone" /\ Len(jobs') < Len(jobs)
            /\ {job.ws, job.src} \cap spoiled = {}
            => IF phase = "forget"
               THEN /\ tags[job.ws] = IF job.local THEN start[job.src] ELSE fetched
                    /\ job.src # job.ws => tags[job.src] = start[job.src]
               ELSE \A n \in {job.ws, job.src} : tags[n] = start[n] ]_vars
    BY CloneEnds
  <1> QED
    BY <1>1, <1>2, <1>3, PTL DEF Spec, CloneAtomic

-----------------------------------------------------------------------------
\* What TypeOK says more than Catalogued: bounds, and the sets of names
Phases == {"queued", "work", "declined", "restore", "forget", "decline"}

Bounded ==
    /\ Len(jobs) <= MaxJobs
    /\ phase \in Phases
    /\ requests \in 0..MaxRequests
    /\ built \subseteq Names /\ spoiled \subseteq Names

\* A job ends or not, whatever objects die.
LEMMA FewerJobs ==
  ASSUME IInv, jobs # <<>>, NEW js, js = jobs \/ \E gone : js = jobs_without(gone),
         jobs' = js \/ jobs' = Tail(js)
  PROVE  Len(jobs') <= Len(jobs)
  <1>1. jobs \in Seq(Jobs) /\ Len(jobs) \in Nat /\ Len(jobs) >= 1
    BY DEF IInv, Typed
  <1>2. js \in Seq(Jobs) /\ Len(js) = Len(jobs)
    BY <1>1, JobsWithout
  <1>3. js # <<>> /\ Len(Tail(js)) = Len(js) - 1
    BY <1>1, <1>2
  <1> QED
    BY <1>1, <1>2, <1>3

\* The name of a step that is neither a tag nor on temporary names is a name of the job.
LEMMA ArgNames ==
  ASSUME Catalogued, NEW op \in {"drop", "build"}, at(op)
  PROVE  arg \in Names
  <1>1. /\ prog \in Seq(StepsOn(job.ws, job.src)) /\ prog # <<>> /\ Head(prog)[1] = op
        /\ job.ws \in Names /\ job.src \in Names
    BY JobNames DEF Catalogued, CInv, Belongs, at, working
  <1>2. Head(prog) \in StepsOn(job.ws, job.src)
    BY <1>1
  <1>3. arg \in {job.ws, job.src}
    BY <1>1, <1>2 DEF StepsOn, arg
  <1> QED
    BY <1>1, <1>3

\* No step of a job submits another one.
LEMMA StepFewer ==
  ASSUME Catalogued, phase \in Phases, Step
  PROVE  Len(jobs') <= Len(jobs) /\ phase' \in Phases
  <1>1. IInv /\ (Step => jobs # <<>>)
    BY DEF Catalogued, Step, StartClone, StartJob, Tag, Untag, Drop, Await, Refresh, Resync,
           Find, Compat, Overwrite, Refuse, Pull, From, Choose, Commit, Rmi, Retag, Build, WorkDone,
           CleanupDone, at, working
  <1>2. ASSUME NEW js, ends(js) \/ continues(js) \/ raises(js)
        PROVE  (jobs' = js \/ jobs' = Tail(js)) /\ phase' \in Phases
    BY <1>2 DEF ends, continues, raises, Phases
  <1>3. ASSUME NEW ok, NEW js, proceeds(ok, js)
        PROVE  (jobs' = js \/ jobs' = Tail(js)) /\ phase' \in Phases
    BY <1>2, <1>3 DEF proceeds
  <1>4. CASE StartClone
    <2>1. ends(jobs) \/ (phase' = "work" /\ jobs' = jobs)
      BY <1>4 DEF StartClone
    <2> QED
      BY <1>1, <1>2, <2>1, FewerJobs DEF Phases
  <1>5. CASE StartJob
    BY <1>1, <1>5, FewerJobs DEF StartJob, Phases
  <1>6. CASE WorkDone
    <2>1. ends(jobs) \/ (phase' \in {"forget", "decline"} /\ jobs' = jobs)
      BY <1>6 DEF WorkDone
    <2> QED
      BY <1>1, <1>2, <2>1, FewerJobs DEF Phases
  <1>7. CASE CleanupDone
    BY <1>1, <1>2, <1>7, FewerJobs DEF CleanupDone
  <1>8. CASE Tag \/ Untag \/ Drop
    <2>1. \E ok : proceeds(ok, jobs)
      BY <1>8 DEF Tag, Untag, Drop, applies
    <2> QED
      BY <1>1, <1>3, <2>1, FewerJobs
  <1>9. CASE Await \/ Refresh \/ Retag \/ Build
    <2>1. continues(jobs)
      BY <1>9 DEF Await, Refresh, Retag, Build
    <2> QED
      BY <1>1, <1>2, <2>1, FewerJobs
  <1>10. CASE Resync
    <2>1. PICK res \in resyncs(cache) : proceeds(res.ok, jobs_without(store \ res.store))
      BY <1>10 DEF Resync
    <2> QED
      BY <1>1, <1>3, <2>1, FewerJobs
  <1>11. CASE Find
    <2>1. CASE continues(jobs)
      BY <1>1, <1>2, <2>1, FewerJobs
    <2>2. CASE ~continues(jobs)
      <3>1. PICK res \in resyncs(cache') :
                proceeds(res.ok /\ arg \in res.store, jobs_without(store \ res.store))
        BY <1>11, <2>2 DEF Find
      <3> QED
        BY <1>1, <1>3, <3>1, FewerJobs
    <2> QED
      BY <2>1, <2>2
  <1>12. CASE Compat \/ Overwrite \/ Refuse
    <2>1. continues(jobs) \/ (phase' = "declined" /\ jobs' = jobs)
      BY <1>12 DEF Compat, Overwrite, Refuse, declines
    <2> QED
      BY <1>1, <1>2, <2>1, FewerJobs DEF Phases
  <1>13. CASE Pull \/ Choose
    <2>1. raises(jobs) \/ (phase' = phase /\ jobs' = jobs)
      BY <1>13 DEF Pull, Choose
    <2> QED
      BY <1>1, <1>2, <2>1, FewerJobs
  <1>14. CASE From \/ Commit \/ Rmi
    <2>1. continues(jobs) \/ raises(jobs)
      BY <1>14 DEF From, Commit, Rmi, proceeds
    <2> QED
      BY <1>1, <1>2, <2>1, FewerJobs
  <1> QED
    BY <1>4, <1>5, <1>6, <1>7, <1>8, <1>9, <1>10, <1>11, <1>12, <1>13, <1>14 DEF Step

\* A step counts no request; what it spoils are names of its job, or of the store.
LEMMA StepBounded ==
  ASSUME Catalogued, Bounded, Step
  PROVE  Bounded'
  <1>1. /\ requests' = requests
        /\ built' = built \/ Build
    BY DEF Step, StartClone, StartJob, Tag, Untag, Drop, Await, Refresh, Resync, Find, Compat,
           Overwrite, Refuse, Pull, From, Choose, Commit, Rmi, Retag, WorkDone, CleanupDone,
           registry_only, without_registry, others, Build
  <1>2. built' \subseteq Names
    BY <1>1, ArgNames DEF Build, Bounded
  <1>3. working => job.ws \in Names /\ job.src \in Names
    BY JobNames DEF Catalogued, CInv, working
  <1>4. store \subseteq Names
    BY DEF Catalogued, IInv, Typed
  <1>5. spoiled' \subseteq Names
    <2>1. CASE spoiled' = spoiled
      BY <2>1 DEF Bounded
    <2>2. CASE Tag \/ Untag
      BY <1>3, <2>2 DEF Tag, Untag, at, applies, doubtful, Bounded
    <2>3. CASE Drop
      BY <1>3, <2>3, ArgNames DEF Drop, at, applies, Bounded
    <2>4. CASE Resync
      BY <1>4, <2>4 DEF Resync, Bounded
    <2> QED
      BY <2>1, <2>2, <2>3, <2>4 DEF Step, StartClone, StartJob, Await, Refresh, Find, Compat,
         Overwrite, Refuse, Pull, From, Choose, Commit, Rmi, Retag, Build, WorkDone, CleanupDone,
         without_registry
  <1>6. Len(jobs') \in Nat /\ Len(jobs) \in Nat
    <2>1. IInv'
      BY CatalogKeeps DEF Catalogued, Next
    <2> QED
      BY <2>1 DEF Catalogued, IInv, Typed
  <1> QED
    BY <1>1, <1>2, <1>5, <1>6, StepFewer, ImageCatalogAssumption DEF Bounded

\* A request stops at the bounds; what it spoils are names of images.
LEMMA RequestBounded ==
  ASSUME Catalogued, Bounded, Request
  PROVE  Bounded'
  <1>1. /\ IInv /\ jobs \in Seq(Jobs) /\ Len(jobs) \in Nat /\ store \subseteq Names
        /\ requests \in Nat /\ MaxRequests \in Nat /\ MaxJobs \in Nat /\ Mine \subseteq Names
        /\ Default \in Names /\ nested \in Names \cup {None}
    BY ImageCatalogAssumption DEF Catalogued, CInv, CatalogTyped, IInv, Typed, Bounded, Names
  <1>2. requests' = requests \/ asks
    BY DEF Request, Remove, Rename, Duplicate, CloneDefault, ClientAnswers, SetImage, ShellOpen,
           ShellSave, ShellLeave, Squash, Submit, Finalize
  <1>3. requests' \in 0..MaxRequests
    BY <1>1, <1>2 DEF asks, Bounded
  <1>4. phase' = phase /\ built' \subseteq built
    BY DEF Request, Remove, Rename, Duplicate, CloneDefault, ClientAnswers, SetImage, ShellOpen,
           ShellSave, ShellLeave, Squash, Submit, Finalize, running, others
  <1>5. ASSUME NEW names \in SUBSET Names, touches(names)
        PROVE  spoiled' \subseteq Names
    BY <1>5 DEF touches, Bounded
  <1>6. ASSUME NEW n, NEW m \in Names, registers(n, m)
        PROVE  spoiled' \subseteq Names
    BY <1>6 DEF registers, doubtful, Bounded
  <1>7. spoiled' \subseteq Names
    <2>1. ASSUME NEW n \in Mine, Remove(n) \/ Finalize(n)
          PROVE  spoiled' \subseteq Names
      BY <1>1, <1>5, <2>1 DEF Remove, Finalize
    <2>2. ASSUME NEW n \in Mine, NEW m \in Mine, Rename(n, m)
          PROVE  spoiled' \subseteq Names
      BY <1>1, <2>2 DEF Rename, doubtful, Bounded
    <2>3. ASSUME NEW n \in Mine, NEW m \in Mine, Duplicate(n, m)
          PROVE  spoiled' \subseteq Names
      BY <1>1, <1>6, <2>3 DEF Duplicate
    <2>4. ASSUME NEW node \in Nodes, NEW n \in Names, SetImage(node, n)
          PROVE  spoiled' \subseteq Names
      BY <1>5, <2>4 DEF SetImage
    <2>5. CASE ClientAnswers
      BY <1>1, <1>6, <2>5 DEF ClientAnswers
    <2>6. CASE spoiled' = spoiled
      BY <2>6 DEF Bounded
    <2> QED
      BY <2>1, <2>2, <2>3, <2>4, <2>5, <2>6 DEF Request, CloneDefault, ShellOpen, ShellSave,
         ShellLeave, Squash, Submit
  <1>8. Len(jobs') <= MaxJobs
    <2>1. ASSUME NEW kind, NEW ws, NEW src, NEW local, NEW force, NEW obj,
                 submits(kind, ws, src, local, force, obj)
          PROVE  Len(jobs') <= MaxJobs
      BY <1>1, <2>1 DEF submits
    <2>2. ASSUME NEW gone, jobs' = jobs_without(gone)
          PROVE  Len(jobs') <= MaxJobs
      BY <1>1, <2>2, JobsWithout DEF Bounded
    <2>3. ASSUME NEW n \in Mine, NEW m \in Mine, Rename(n, m)
          PROVE  Len(jobs') <= MaxJobs
      <3>1. DOMAIN jobs' = DOMAIN jobs
        BY <2>3 DEF Rename, with_refs
      <3>2. IInv'
        BY CatalogKeeps DEF Catalogued, Next
      <3>3. jobs' \in Seq(Jobs)
        BY <3>2 DEF IInv, Typed
      <3>4. Len(jobs') = Len(jobs)
        BY <1>1, <3>1, <3>3
      <3> QED
        BY <3>4 DEF Bounded
    <2>4. CASE jobs' = jobs
      BY <2>4 DEF Bounded
    <2>5. ASSUME NEW n \in Mine, Remove(n) \/ Finalize(n)
          PROVE  Len(jobs') <= MaxJobs
      BY <2>2, <2>4, <2>5 DEF Remove, Finalize
    <2>6. ASSUME NEW n \in Mine, ShellSave(n) \/ Squash(n)
          PROVE  Len(jobs') <= MaxJobs
      BY <2>1, <2>6 DEF ShellSave, Squash
    <2>7. CASE Submit
      BY <2>1, <2>7 DEF Submit
    <2> QED
      BY <2>3, <2>4, <2>5, <2>6, <2>7 DEF Request, Duplicate, registers, CloneDefault,
         ClientAnswers, SetImage, ShellOpen, ShellLeave
  <1> QED
    BY <1>3, <1>4, <1>7, <1>8 DEF Bounded

\* Types of the state: names and contents, the steps of a job and the objects of tasks, with
\* at most MaxJobs jobs submitted (WalTLocalRegistry, NodeImageStore).
THEOREM TypeCorrect == Spec => []TypeOK
  <1>1. Init => Catalogued /\ Bounded
    <2>1. Init => Bounded
      BY ImageCatalogAssumption DEF Init, Bounded, Phases
    <2> QED
      BY <2>1, InitCatalog
  <1>2. (Catalogued /\ Bounded) /\ [Next]_vars => (Catalogued /\ Bounded)'
    <2> SUFFICES ASSUME Catalogued, Bounded, [Next]_vars PROVE (Catalogued /\ Bounded)'
      OBVIOUS
    <2>1. Catalogued'
      BY CatalogKeeps
    <2>2. ASSUME UNCHANGED vars
          PROVE  Bounded'
      BY <2>2 DEF vars, Bounded
    <2> QED
      BY <2>1, <2>2, StepBounded, RequestBounded DEF Next
  <1>3. Catalogued /\ Bounded => TypeOK
    BY DEF Catalogued, CInv, CatalogTyped, IInv, Typed, Labels, Bounded, Phases, TypeOK
  <1> QED
    BY <1>1, <1>2, <1>3, PTL DEF Spec
=============================================================================
