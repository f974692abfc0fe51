---------------------------- MODULE ImageCatalog ----------------------------
(***************************************************************************)
(* The catalogue of images: the names podman knows, their cache in the     *)
(* local registry (main/registry.py), the image store and its table        *)
(* (main/images/store.py), the requests of users that rename, remove or    *)
(* copy images, and the long operations run by the blocking process        *)
(* (blocking/images/): clone, squash, commit, build and pull.              *)
(*                                                                         *)
(* server-blocking runs one job at a time. It changes podman itself, or    *)
(* calls server-main, one call at a time. Requests of users are handled by *)
(* server-main between these calls. A job is a program of such steps.      *)
(*                                                                         *)
(* An image has a content, its image id. All requests are those of one     *)
(* user, who may have several clients. The mounts follow the associations  *)
(* of the nodes: they are the subject of ImageMounts.                      *)
(***************************************************************************)
EXTENDS Naturals, Sequences

CONSTANTS
    Mine,           \* names in the working set of the user
    Others,         \* names that belong to other users
    Default,        \* one of them, the default image of the nodes
    Nodes,
    Ids,            \* contents
    None,
    Temp,           \* localhost/walt/commit-temp
    MaxJobs,        \* bound on the jobs submitted and not ended
    MaxRequests     \* bound on the requests of users

ASSUME ImageCatalogAssumption ==
    /\ Default \in Others /\ Mine \cap Others = {}
    /\ None \notin Ids \cup Mine \cup Others
    /\ MaxJobs \in Nat /\ MaxRequests \in Nat

VARIABLES
    tags,       \* podman: the content of each name
    cache,      \* names_cache of the registry
    store,      \* names in store.images, and in the table "images"
    label,      \* task_label of the images of the store
    image,      \* table "nodes": the image of each node
    jobs,       \* jobs submitted to the blocking process, the first one is in progress
    phase,      \* of the first job: "queued", "work", "declined", and those of
                \* the cleaner of a clone: "restore", "forget" and "decline"
    prog,       \* the steps left in this phase
    shell,      \* the image of the shell session that is open
    nested,     \* name for which get_clones_of_default_images() calls the client
    built,      \* names built whose session is not finalized
    requests,   \* number of requests
    start,      \* history: names when the first job started
    fetched,    \* history: what the first job downloaded
    spoiled     \* history: names not to be trusted. A request changed them while a job
                \* worked on them, or copied a name whose cache is stale, or a tag
                \* failed, or the cleaner of a clone could not restore them, or they
                \* were lost and stayed in the store because its update failed.

Names == Mine \cup Others
backup(n) == <<"backup", n>>       \* walt/clone-temp:<uuid> made for n
AllNames == Names \cup {Temp} \cup {backup(n) : n \in Names}

\* Names under localhost/walt are not names of images of users.
ASSUME TemporaryNames == Temp \notin Names /\ \A n \in Names : backup(n) \notin Names

podman == <<tags, cache>>
past == <<start, fetched>>
running == <<phase, prog, past>>
others == <<label, image, shell, nested, built>>
vars == <<tags, cache, store, label, image, jobs, phase, prog, shell, nested, built, requests,
          start, fetched, spoiled>>

Kinds == {"clone", "squash", "commit", "build", "update"}

\* The image object that a shell session or a squash refers to: its name, and whether
\* it is still in the store.
Refs == [name : Names \cup {None}, live : BOOLEAN]
NoRef == [name |-> None, live |-> FALSE]
ref(n) == [name |-> n, live |-> TRUE]

Jobs == [kind : Kinds, ws : Names, src : Names, local : BOOLEAN, force : BOOLEAN, obj : Refs]

TypeOK ==
    /\ tags \in [AllNames -> Ids \cup {None}]
    /\ cache \in [AllNames -> Ids \cup {None}]
    /\ store \subseteq Names
    /\ label \in [Names -> {"none", "shell", "squash"}]
    /\ image \in [Nodes -> Names]
    /\ jobs \in Seq(Jobs) /\ Len(jobs) <= MaxJobs
    /\ phase \in {"queued", "work", "declined", "restore", "forget", "decline"}
    /\ shell \in Refs
    /\ nested \in Names \cup {None}
    /\ built \subseteq Names
    /\ requests \in 0..MaxRequests
    /\ start \in [AllNames -> Ids \cup {None}]
    /\ fetched \in Ids \cup {None}
    /\ spoiled \subseteq Names

nothing == [n \in AllNames |-> None]

Init ==
    /\ \E known \in SUBSET Names :
           /\ Default \in known
           /\ store = known
           /\ tags \in [AllNames -> Ids \cup {None}]
           /\ \A n \in AllNames : tags[n] # None <=> n \in known
    /\ cache = tags
    /\ label = [n \in Names |-> "none"]
    /\ image \in [Nodes -> store]
    /\ jobs = <<>> /\ phase = "queued" /\ prog = <<>>
    /\ shell = NoRef
    /\ nested = None
    /\ built = {}
    /\ requests = 0
    /\ start = nothing /\ fetched = None
    /\ spoiled = {}

-----------------------------------------------------------------------------
(***************************************************************************)
(* The local registry. Its methods return what podman and the cache become *)
(* when they were tg and ch, and whether they end without an exception.    *)
(***************************************************************************)
image_exists(n) == cache[n] # None \/ tags[n] # None

registry_tag(old, new) ==
    LET ch == [cache EXCEPT ![new] = cache[old]] IN
    IF cache[new] # None /\ tags[new] = None       \* the removal fails
    THEN [ok |-> FALSE, tags |-> tags, cache |-> cache]
    ELSE [ok |-> tags[old] # None, tags |-> [tags EXCEPT ![new] = tags[old]], cache |-> ch]

\* The name new, if it cannot be trusted: its tag failed, or it is a copy of a name built and
\* not finalized, whose cache is stale, or of one that is not to be trusted.
doubtful(ok, old, new) == IF ok /\ old \notin built \cup spoiled THEN {} ELSE {new} \cap Names

registry_untag(n) ==
    IF tags[n] = None
    THEN [ok |-> FALSE, tags |-> tags, cache |-> cache]
    ELSE [ok |-> TRUE, tags |-> [tags EXCEPT ![n] = None], cache |-> [cache EXCEPT ![n] = None]]

\* refresh_cache_for_image(): all the names of the content are found again.
refreshed(ch, n) ==
    [m \in AllNames |->
        IF tags[n] # None /\ tags[m] = tags[n] THEN tags[n]
        ELSE IF m = n THEN None
        ELSE ch[m]]

\* get_images()
listed(ch) == {n \in Names : ch[n] # None}

used == {image[n] : n \in Nodes}

\* resync_from_registry(), when the cache is ch. The database refuses to remove an image
\* that a node uses: the images that the loop met before it are removed.
resyncs(ch) ==
    LET gone == store \ listed(ch) IN
    IF gone \cap used = {}
    THEN {[ok |-> TRUE, store |-> listed(ch)]}
    ELSE {[ok |-> FALSE, store |-> (store \cup listed(ch)) \ rm] : rm \in SUBSET (gone \ used)}

\* The images of the store become st: the objects of those that leave it go with their
\* label.
dead(r, gone) == IF r.name \in gone THEN [r EXCEPT !.live = FALSE] ELSE r

stored(st) ==
    /\ store' = st
    /\ label' = [n \in Names |-> IF n \in st THEN label[n] ELSE "none"]
    /\ shell' = dead(shell, store \ st)

with_refs(F(_)) == [i \in DOMAIN jobs |-> [jobs[i] EXCEPT !.obj = F(@)]]

jobs_without(gone) == LET F(r) == dead(r, gone) IN with_refs(F)

-----------------------------------------------------------------------------
(***************************************************************************)
(* The programs of the jobs                                                *)
(***************************************************************************)
\* Variant of pull: the cache of server-main is not refreshed
pull_Unrefreshed(n) == << <<"pull", n>>, <<"await", n>>, <<"resync", n>> >>

\* pull(), which ends with update_main_process_about_image()
pull(n) == << <<"pull", n>>, <<"await", n>>, <<"refresh", n>>, <<"resync", n>> >>

remove_ws_image(ws) == << <<"find", ws>>, <<"untag", ws>> >>

\* commit(), with a temporary name if the image exists
commit(ws) == << <<"choose", ws>> >>
commit_new(ws) == << <<"commit", ws>>, <<"await", ws>>, <<"refresh", ws>>, <<"resync", ws>> >>
commit_over(ws) ==
    << <<"commit", Temp>>, <<"rmi", ws>>, <<"retag", ws>>, <<"rmi", Temp>>, <<"await", ws>>,
       <<"refresh", ws>>, <<"resync", ws>> >>

when(cond, steps) == IF cond THEN steps ELSE <<>>

\* workflow_selector of perform_clone()
selected(j, exWs, exSrv) ==
    LET same == j.ws = j.src
        checks == << <<"find", j.ws>>, <<"compat", j.ws>>, <<"overwrite", j.ws>> >>
    IN  IF j.local /\ same THEN << <<"refuse", j.ws>> >>
        ELSE when(exWs, checks) \o
             IF j.local
             THEN when(exWs, remove_ws_image(j.ws)) \o << <<"tag", j.src, j.ws>> >>
             ELSE IF same
             THEN when(exWs, remove_ws_image(j.ws)) \o pull(j.src)
             ELSE when(exSrv, << <<"untag", j.src>> >>) \o pull(j.src)
                  \o when(exWs, remove_ws_image(j.ws))
                  \o << <<"tag", j.src, j.ws>>, <<"untag", j.src>> >>
                  \o when(exSrv, << <<"tag", backup(j.src), j.src>> >>)

\* save_initial_images(), in any order
saves(j, exWs, exSrv) ==
    LET save(n) == << <<"tag", n, backup(n)>> >>
        ofWs == when(exWs, save(j.ws))
        ofSrc == when(exSrv /\ j.src # j.ws, save(j.src))
    IN  {ofWs \o ofSrc, ofSrc \o ofWs}

\* The steps of each other kind of job
program(j) ==
    CASE j.kind = "squash" -> << <<"find", j.ws>>, <<"from", j.ws>> >> \o commit(j.ws)
      [] j.kind = "commit" -> commit(j.ws)
      [] j.kind = "build" -> << <<"build", j.ws>> >>
      [] OTHER -> pull(j.ws) \o << <<"resync", j.ws>> >>

\* WorkflowCleaner.cleanup(). saved_images, in any order:
orders(j) ==
    LET saved == {n \in {j.ws, j.src} : tags[backup(n)] # None}
    IN  {s \in {<<>>, <<j.ws>>, <<j.src>>, <<j.ws, j.src>>, <<j.src, j.ws>>} :
            /\ {s[i] : i \in DOMAIN s} = saved
            /\ \A i, k \in DOMAIN s : s[i] = s[k] => i = k}

forget(order) == [i \in DOMAIN order |-> <<"untag", backup(order[i])>>]

\* Variant of restore: the backups are not restored
restore_Not(j, order) == << <<"drop", j.ws>>, <<"drop", j.src>> >> \o forget(order)

restore(j, order) ==
    << <<"drop", j.ws>>, <<"drop", j.src>> >>
      \o [i \in DOMAIN order |-> <<"tag", backup(order[i]), order[i]>>] \o forget(order)

-----------------------------------------------------------------------------
job == Head(jobs)
working == jobs # <<>> /\ phase # "queued"
at(op) == working /\ prog # <<>> /\ Head(prog)[1] = op
arg == Head(prog)[2]

\* The first of the jobs js ends.
ends(js) ==
    /\ jobs' = Tail(js)
    /\ phase' = "queued" /\ prog' = <<>>
    /\ start' = nothing /\ fetched' = None

\* What follows a step, when the jobs become js. An exception in the work of a clone makes
\* the cleaner restore the backups; elsewhere it ends the job, and the caller of a squash
\* or of a commit is not called back.
continues(js) == prog' = Tail(prog) /\ jobs' = js /\ UNCHANGED <<phase, past>>

raises(js) ==
    IF job.kind = "clone" /\ phase = "work"
    THEN /\ phase' = "restore"
         /\ \E order \in orders(job) : prog' = restore(job, order)
         /\ jobs' = js /\ UNCHANGED past
    ELSE ends(js)

proceeds(ok, js) == IF ok THEN continues(js) ELSE raises(js)

\* perform_clone(): the request is analysed, or the remote image is not found.
StartClone ==
    /\ jobs # <<>> /\ phase = "queued" /\ job.kind = "clone"
    /\ LET exWs == job.ws \in store
           exSrv == job.src \in store
           old == {Temp} \cup {backup(n) : n \in Names}     \* other names will be used
       IN  \/ /\ job.local => ~exSrv
              /\ ends(jobs)
              /\ UNCHANGED podman
           \/ /\ job.local => exSrv
              /\ phase' = "work"
              /\ \E s \in saves(job, exWs, exSrv) : prog' = s \o selected(job, exWs, exSrv)
              /\ tags' = [n \in AllNames |-> IF n \in old THEN None ELSE tags[n]]
              /\ cache' = [n \in AllNames |-> IF n \in old THEN None ELSE cache[n]]
              /\ start' = tags' /\ fetched' = None
              /\ UNCHANGED jobs
    /\ UNCHANGED <<store, others, requests, spoiled>>

StartJob ==
    /\ jobs # <<>> /\ phase = "queued" /\ job.kind # "clone"
    /\ phase' = "work" /\ prog' = program(job)
    /\ tags' = [tags EXCEPT ![Temp] = None]        \* another name will be used
    /\ UNCHANGED <<cache, store, others, jobs, requests, start, fetched, spoiled>>

-----------------------------------------------------------------------------
(***************************************************************************)
(* The steps of a job that call the registry or the store of server-main   *)
(***************************************************************************)

\* The names and the cache become what a method of the registry returns, and doubts are the
\* names it spoils. If the cleaner itself fails, names are not restored.
applies(res, doubts) ==
    /\ tags' = res.tags /\ cache' = res.cache
    /\ spoiled' = spoiled \cup doubts
                     \cup IF ~res.ok /\ phase = "restore" THEN {job.ws, job.src} ELSE {}
    /\ proceeds(res.ok, jobs)

registry_only == UNCHANGED <<store, others, requests>>

Tag ==
    /\ at("tag")
    /\ LET new == Head(prog)[3]
           res == registry_tag(arg, new)
       IN  applies(res, doubtful(res.ok, arg, new))
    /\ registry_only

Untag ==
    /\ at("untag")
    /\ applies(registry_untag(arg), {})
    /\ registry_only

\* untag() with ignore_missing. A name that existed before the clone and could not be saved
\* is lost.
Drop ==
    /\ at("drop")
    /\ applies(IF image_exists(arg) THEN registry_untag(arg)
               ELSE [ok |-> TRUE, tags |-> tags, cache |-> cache],
               IF tags[backup(arg)] = None /\ (start[arg] # None \/ arg \in store)
               THEN {arg} ELSE {})
    /\ registry_only

\* Busy loop of update_main_process_about_image()
Await ==
    /\ at("await") /\ image_exists(arg)
    /\ continues(jobs)
    /\ UNCHANGED podman /\ registry_only /\ UNCHANGED spoiled

Refresh ==
    /\ at("refresh")
    /\ cache' = refreshed(cache, arg)
    /\ continues(jobs)
    /\ UNCHANGED tags /\ registry_only /\ UNCHANGED spoiled

Resync ==
    /\ at("resync")
    /\ \E res \in resyncs(cache) :
           /\ stored(res.store)
           /\ proceeds(res.ok, jobs_without(store \ res.store))
           /\ spoiled' = spoiled \cup IF res.ok THEN {} ELSE store \ listed(cache)
    /\ UNCHANGED <<podman, image, nested, built, requests>>

\* image_store[...]
Find ==
    /\ at("find")
    /\ \/ /\ arg \in store
          /\ continues(jobs)
          /\ UNCHANGED <<cache, store, label, shell>>
       \/ /\ arg \notin store
          /\ cache' = refreshed(cache, arg)
          /\ \E res \in resyncs(cache') :
                 /\ stored(res.store)
                 /\ proceeds(res.ok /\ arg \in res.store, jobs_without(store \ res.store))
    /\ UNCHANGED <<tags, image, nested, built, requests, spoiled>>

\* The workflow of a clone stops without an exception.
declines ==
    /\ phase' = "declined" /\ prog' = <<>>
    /\ UNCHANGED <<jobs, past>>

\* The image of the working set is used by nodes, and the other one may be made for other
\* models.
Compat ==
    /\ at("compat")
    /\ continues(jobs) \/ (arg \in used /\ declines)
    /\ UNCHANGED podman /\ registry_only /\ UNCHANGED spoiled

\* Without --force, an image of the working set is not overwritten.
Overwrite ==
    /\ at("overwrite")
    /\ IF job.force THEN continues(jobs) ELSE declines
    /\ UNCHANGED podman /\ registry_only /\ UNCHANGED spoiled

\* error_image_belongs_to_ws()
Refuse ==
    /\ at("refuse") /\ declines
    /\ UNCHANGED podman /\ registry_only /\ UNCHANGED spoiled

-----------------------------------------------------------------------------
(***************************************************************************)
(* The steps of a job that run podman or buildah in server-blocking: the   *)
(* cache does not follow. Those that take long may fail.                   *)
(***************************************************************************)
without_registry == UNCHANGED <<cache, store, others, requests, spoiled>>

Pull ==
    /\ at("pull")
    /\ \/ \E i \in Ids :
              /\ tags' = [tags EXCEPT ![arg] = i] /\ fetched' = i
              /\ prog' = Tail(prog)
              /\ UNCHANGED <<phase, jobs, start>>
       \/ raises(jobs) /\ UNCHANGED tags
    /\ without_registry

\* The working container of a squash
From ==
    /\ at("from") /\ proceeds(tags[arg] # None, jobs)
    /\ UNCHANGED tags /\ without_registry

Choose ==
    /\ at("choose")
    /\ prog' = IF image_exists(arg) THEN commit_over(arg) ELSE commit_new(arg)
    /\ UNCHANGED <<tags, phase, jobs, past>> /\ without_registry

Commit ==
    /\ at("commit")
    /\ \/ \E i \in Ids : tags' = [tags EXCEPT ![arg] = i] /\ continues(jobs)
       \/ raises(jobs) /\ UNCHANGED tags
    /\ without_registry

\* podman rmi [-f]
Rmi ==
    /\ at("rmi")
    /\ tags' = [tags EXCEPT ![arg] = None]
    /\ continues(jobs) \/ (tags[arg] = None /\ raises(jobs))
    /\ without_registry

Retag ==
    /\ at("retag")
    /\ tags' = [tags EXCEPT ![arg] = tags[Temp]]
    /\ continues(jobs)
    /\ without_registry

\* walt-image-build-helper. It may fail before or after podman build; the caller is
\* told, and finalizes the session, or not.
Build ==
    /\ at("build")
    /\ \/ /\ \E i \in Ids : tags' = [tags EXCEPT ![arg] = i]
          /\ built' = built \cup {arg}
       \/ UNCHANGED <<tags, built>>
    /\ continues(jobs)
    /\ UNCHANGED <<cache, store, label, image, shell, nested, requests, spoiled>>

-----------------------------------------------------------------------------
\* The work is done: the cleaner of a clone removes its backups and updates the store; the
\* caller of a squash or of a commit releases the image. (A shell session does so after the
\* update of the mounts.)
WorkDone ==
    /\ working /\ prog = <<>> /\ phase \in {"work", "declined"}
    /\ \/ /\ job.kind = "clone"
          /\ \E order \in orders(job) : prog' = forget(order) \o << <<"resync", job.ws>> >>
          /\ phase' = IF phase = "work" THEN "forget" ELSE "decline"
          /\ UNCHANGED <<jobs, label, past>>
       \/ /\ job.kind # "clone"
          /\ ends(jobs)
          /\ label' = IF job.obj.live THEN [label EXCEPT ![job.obj.name] = "none"] ELSE label
    /\ UNCHANGED <<podman, store, image, shell, nested, built, requests, spoiled>>

CleanupDone ==
    /\ working /\ prog = <<>> /\ phase \in {"restore", "forget", "decline"}
    /\ ends(jobs)
    /\ UNCHANGED <<podman, store, others, requests, spoiled>>

-----------------------------------------------------------------------------
(***************************************************************************)
(* The requests of the user. They are handled by server-main, each one at  *)
(* once, but for the clones of default images.                             *)
(***************************************************************************)
asks == requests < MaxRequests /\ requests' = requests + 1

\* Names that a job works on
busy == IF working THEN {job.ws, job.src} ELSE {}

touches(names) == spoiled' = spoiled \cup (names \cap (busy \cup {nested}))

\* Variant of removable: the use of the image is not looked for
removable_Used(n) == n \in Mine \cap store

\* get_user_unused_image_from_name()
removable(n) == n \in Mine \cap store /\ n \notin used

\* get_user_image_from_name(..., expected=False)
available(n) == n \in Mine \ store

Remove(n) ==
    /\ asks /\ removable(n)
    /\ LET res == registry_untag(n) IN
       /\ tags' = res.tags /\ cache' = res.cache
       /\ IF res.ok THEN stored(store \ {n}) /\ jobs' = jobs_without({n})
          ELSE UNCHANGED <<store, label, shell, jobs>>
    /\ touches({n})
    /\ UNCHANGED <<image, nested, built, running>>

Rename(n, m) ==
    /\ asks /\ removable(n) /\ available(m) /\ n # m
    /\ LET res == registry_tag(n, m)
           renamed(r) == IF r.live /\ r.name = n THEN ref(m) ELSE r
       IN  /\ \/ /\ res.ok
                 /\ tags' = [res.tags EXCEPT ![n] = None]
                 /\ cache' = [res.cache EXCEPT ![n] = None]
                 /\ store' = (store \ {n}) \cup {m}
                 /\ label' = [label EXCEPT ![n] = "none", ![m] = label[n]]
                 /\ shell' = renamed(shell)
                 /\ jobs' = with_refs(renamed)
              \/ /\ ~res.ok
                 /\ tags' = res.tags /\ cache' = res.cache
                 /\ UNCHANGED <<store, label, shell, jobs>>
           /\ spoiled' = spoiled \cup doubtful(res.ok, n, m)
                                 \cup IF {n, m} \cap (busy \cup {nested}) = {} THEN {} ELSE {n, m}
    /\ UNCHANGED <<image, nested, built, running>>

\* registry.tag() and store.register_image(), which fails if the table has the name
registers(n, m) ==
    LET res == registry_tag(n, m) IN
    /\ tags' = res.tags /\ cache' = res.cache
    /\ store' = IF res.ok THEN store \cup {m} ELSE store
    /\ spoiled' = spoiled \cup doubtful(res.ok /\ m \notin store, n, m)
                          \cup IF {n, m} \cap busy = {} THEN {} ELSE {m}
    /\ UNCHANGED <<label, shell, jobs>>

Duplicate(n, m) ==
    /\ asks /\ n \in Mine \cap store /\ available(m) /\ n # m
    /\ registers(n, m)
    /\ UNCHANGED <<image, nested, built, running>>

\* get_clones_of_default_images() calls the client before its first clone. Other requests
\* are handled until the client answers.
CloneDefault(m) ==
    /\ asks /\ nested = None /\ Default \in store /\ available(m)
    /\ nested' = m
    /\ UNCHANGED <<podman, store, label, image, shell, built, jobs, running, spoiled>>

ClientAnswers ==
    /\ nested # None
    /\ registers(Default, nested)
    /\ nested' = None
    /\ UNCHANGED <<image, built, running, requests>>

SetImage(node, n) ==
    /\ asks /\ n \in store \cap (Mine \cup {Default}) /\ image[node] # n
    /\ image' = [image EXCEPT ![node] = n]
    /\ touches({n})
    /\ UNCHANGED <<podman, store, label, shell, nested, built, jobs, running>>

\* Variant of free: the label is not looked at
free_Always(n) == n \in Mine \cap store

\* No task is running on the image.
free(n) == n \in Mine \cap store /\ label[n] = "none"

\* create_shell_session(), the image having few layers. Bound: one session at a time.
ShellOpen(n) ==
    /\ asks /\ shell = NoRef /\ free(n)
    /\ shell' = ref(n)
    /\ label' = [label EXCEPT ![n] = "shell"]
    /\ UNCHANGED <<podman, store, image, nested, built, jobs, running, spoiled>>

submits(kind, ws, src, local, force, obj) ==
    /\ Len(jobs) < MaxJobs
    /\ jobs' = Append(jobs, [kind |-> kind, ws |-> ws, src |-> src, local |-> local,
                             force |-> force, obj |-> obj])

\* The user confirms the name of the image, or gives another one.
ShellSave(m) ==
    /\ asks /\ shell # NoRef /\ (m = shell.name \/ available(m))
    /\ submits("commit", m, m, FALSE, FALSE, shell)
    /\ shell' = NoRef
    /\ UNCHANGED <<podman, store, label, image, nested, built, running, spoiled>>

\* cleanup() of a session that was not saved
ShellLeave ==
    /\ shell # NoRef
    /\ shell' = NoRef
    /\ label' = IF shell.live THEN [label EXCEPT ![shell.name] = "none"] ELSE label
    /\ UNCHANGED <<podman, store, image, nested, built, jobs, running, requests, spoiled>>

Squash(n) ==
    /\ asks /\ free(n)
    /\ label' = [label EXCEPT ![n] = "squash"]
    /\ submits("squash", n, n, FALSE, FALSE, ref(n))
    /\ UNCHANGED <<podman, store, image, shell, nested, built, running, spoiled>>

\* Clone, build, and update of the default images
Submit ==
    /\ asks
    /\ \/ \E ws \in Mine, src \in Names, local, force \in BOOLEAN :
              submits("clone", ws, src, local, force, NoRef)
       \/ \E n \in Mine : submits("build", n, n, FALSE, FALSE, NoRef)
       \/ Default \in store /\ submits("update", Default, Default, FALSE, FALSE, NoRef)
    /\ UNCHANGED <<podman, store, others, running, spoiled>>

\* finalize_image_build_session()
Finalize(n) ==
    /\ n \in built
    /\ built' = built \ {n}
    /\ cache' = refreshed(cache, n)
    /\ \E res \in resyncs(cache') :
           /\ stored(res.store)
           /\ jobs' = jobs_without(store \ res.store)
    /\ touches({n} \cup (store \ listed(cache')))
    /\ UNCHANGED <<tags, image, nested, running, requests>>

-----------------------------------------------------------------------------
Step ==
    \/ StartClone \/ StartJob \/ Tag \/ Untag \/ Drop \/ Await \/ Refresh \/ Resync \/ Find
    \/ Compat \/ Overwrite \/ Refuse \/ Pull \/ From \/ Choose \/ Commit \/ Rmi \/ Retag
    \/ Build \/ WorkDone \/ CleanupDone

Request ==
    \/ \E n \in Mine : \/ Remove(n) \/ CloneDefault(n) \/ ShellOpen(n) \/ ShellSave(n)
                       \/ Squash(n) \/ Finalize(n)
                       \/ \E m \in Mine : Rename(n, m) \/ Duplicate(n, m)
    \/ \E node \in Nodes, n \in Names : SetImage(node, n)
    \/ ClientAnswers \/ ShellLeave \/ Submit

Next == Step \/ Request

Spec == Init /\ [][Next]_vars

-----------------------------------------------------------------------------
\* The image of a node stays in podman while images are cloned onto it, squashed, committed,
\* updated, renamed and removed. A node that boots meanwhile may find its name missing for
\* some steps, but then the content is safe: the clone has a backup that its cleaner restores
\* (clone.py 141-149 and 259-261), or commit() has the new image under a temporary name
\* (commit.py 16-24). The requests rename and remove refuse the images of nodes.
NodeImageKept ==
    \A node \in Nodes : LET n == image[node] IN
        \/ tags[n] # None
        \/ working /\ tags[backup(n)] # None
        \/ working /\ job.ws = n /\ job.kind \in {"squash", "commit"} /\ tags[Temp] # None
        \/ n \in spoiled

\* When the blocking process is idle, the store of server-main and the cache of its registry
\* tell what podman has: the jobs change podman behind them, so each one must end with
\* refresh_cache_for_image() and resync_from_registry() for all it changed, and each request
\* must keep the three together (rename.py 15-18, remove.py 12-13, duplicate.py 15-17).
CatalogueTrue ==
    jobs = <<>> => \A n \in Names \ (spoiled \cup built) :
        /\ n \in store <=> tags[n] # None
        /\ cache[n] = tags[n]

\* A clone is all or nothing, at whatever step it stops (WorkflowCleaner, clone.py 232-269).
\* When its work succeeded, the image of the working set has the content of the source, as it
\* was or as it was downloaded, and the image of the server that has the name of the source
\* is the initial one. Otherwise both names have the content they had, or none if they did
\* not exist.
CloneAtomic ==
    [][ /\ working /\ job.kind = "clone" /\ Len(jobs') < Len(jobs)
        /\ {job.ws, job.src} \cap spoiled = {}
        => IF phase = "forget"
           THEN /\ tags[job.ws] = IF job.local THEN start[job.src] ELSE fetched
                /\ job.src # job.ws => tags[job.src] = start[job.src]
           ELSE \A n \in {job.ws, job.src} : tags[n] = start[n] ]_vars

\* One task at a time modifies an image, be it renamed meanwhile: if a shell session and a
\* squash worked on one image, the last commit would undo the other. The label that excludes them (squash.py
\* 7-22, shell.py 22, 111 and 129, manager.py 234) goes with the image, not with its name.
OneTask ==
    \A n \in Names :
        ~ \E i \in DOMAIN jobs : /\ jobs[i].obj = ref(n)
                                 /\ \/ shell = ref(n)
                                    \/ \E k \in DOMAIN jobs : k # i /\ jobs[k].obj = ref(n)
=============================================================================
