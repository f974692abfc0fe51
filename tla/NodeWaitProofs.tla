--------------------------- MODULE NodeWaitProofs ---------------------------
(***************************************************************************)
(* Proofs about NodeWait: for every set of nodes and commands, however     *)
(* deep the nested loops are, there is one background process, the calls   *)
(* of flush() find their task, and a client awaits nodes that are still to *)
(* boot.                                                                   *)
(***************************************************************************)
EXTENDS NodeWait, TLAPS

-----------------------------------------------------------------------------
(***************************************************************************)
(* Stacks of handlers. The same facts about each way of changing one.      *)
(***************************************************************************)

bgAt(s) == {i \in DOMAIN s : s[i].job = "bg"}
announcing(s) == UNION {s[i].todo : i \in DOMAIN s}
dropped(s) == UNION {s[i].downs : i \in DOMAIN s}

\* A command that called its client has nothing else on its frame.
CommandsQuiet(s) ==
    \A i \in DOMAIN s :
        s[i].job # "bg" => /\ s[i].todo = {} /\ s[i].downs = {} /\ s[i].labels = {}
                           /\ s[i].sending # NoTask

\* The labels still to send are for tasks in the set ts.
LabelsIn(s, ts) == \A i \in DOMAIN s : s[i].labels \subseteq ts

LEMMA Pushed ==
  ASSUME NEW s \in Seq(Frame), NEW f \in Frame
  PROVE  /\ Append(s, f) \in Seq(Frame)
         /\ DOMAIN Append(s, f) = DOMAIN s \cup {Len(s) + 1}
         /\ Len(s) + 1 \notin DOMAIN s
         /\ Append(s, f)[Len(s) + 1] = f
         /\ \A i \in DOMAIN s : Append(s, f)[i] = s[i]
<1>1. Append(s, f) \in Seq(Frame) /\ Len(Append(s, f)) = Len(s) + 1
  OBVIOUS
<1>2. /\ Append(s, f)[Len(s) + 1] = f
      /\ \A i \in 1..Len(s) : Append(s, f)[i] = s[i]
  OBVIOUS
<1>3. DOMAIN s = 1..Len(s) /\ DOMAIN Append(s, f) = 1..(Len(s) + 1) /\ Len(s) \in Nat
  BY <1>1
<1> QED BY <1>1, <1>2, <1>3

LEMMA Popped ==
  ASSUME NEW s \in Seq(Frame), s # <<>>
  PROVE  /\ below(s) \in Seq(Frame)
         /\ DOMAIN below(s) = DOMAIN s \ {Len(s)}
         /\ Len(s) \in DOMAIN s
         /\ \A i \in DOMAIN below(s) : below(s)[i] = s[i]
<1>1. Len(s) \in Nat \ {0} /\ DOMAIN s = 1..Len(s) /\ \A i \in 1..Len(s) : s[i] \in Frame
  OBVIOUS
<1>2. below(s) \in [1..(Len(s) - 1) -> Frame]
  BY <1>1 DEF below
<1>3. below(s) \in Seq(Frame)
  BY <1>1, <1>2
<1> QED BY <1>1, <1>3 DEF below

LEMMA Replaced ==
  ASSUME stack \in Seq(Frame), stack # <<>>, NEW f \in Frame
  PROVE  /\ replaceTop(f) \in Seq(Frame)
         /\ DOMAIN replaceTop(f) = DOMAIN stack
         /\ Len(stack) \in DOMAIN stack
         /\ replaceTop(f)[Len(stack)] = f
         /\ \A i \in DOMAIN stack \ {Len(stack)} : replaceTop(f)[i] = stack[i]
<1>1. /\ Len(stack) \in Nat \ {0}
      /\ DOMAIN stack = 1..Len(stack)
      /\ stack \in [1..Len(stack) -> Frame]
  OBVIOUS
<1>2. replaceTop(f) \in [1..Len(stack) -> Frame]
  BY <1>1 DEF replaceTop
<1>3. replaceTop(f) \in Seq(Frame)
  BY <1>1, <1>2
<1> QED BY <1>1, <1>3 DEF replaceTop

LEMMA PushedCall ==
  ASSUME NodeWaitAssumption, NEW s \in Seq(Frame), NEW job \in {"wake", "wait"},
         NEW t \in Tasks, NEW ts, CommandsQuiet(s), LabelsIn(s, ts)
  PROVE  /\ Append(s, call(job, t)) \in Seq(Frame)
         /\ CommandsQuiet(Append(s, call(job, t)))
         /\ LabelsIn(Append(s, call(job, t)), ts)
         /\ bgAt(Append(s, call(job, t))) = bgAt(s)
         /\ announcing(Append(s, call(job, t))) = announcing(s)
         /\ dropped(Append(s, call(job, t))) = dropped(s)
<1> DEFINE f == call(job, t)
           r == Append(s, f)
<1>1. /\ f \in Frame
      /\ f.job # "bg" /\ f.todo = {} /\ f.downs = {} /\ f.labels = {} /\ f.sending # NoTask
  BY DEF call, Frame, NodeWaitAssumption
<1>2. /\ r \in Seq(Frame)
      /\ DOMAIN r = DOMAIN s \cup {Len(s) + 1}
      /\ Len(s) + 1 \notin DOMAIN s
      /\ r[Len(s) + 1] = f
      /\ \A i \in DOMAIN s : r[i] = s[i]
  BY <1>1, Pushed
<1> HIDE DEF f, r
<1>3. CommandsQuiet(r) /\ LabelsIn(r, ts) /\ bgAt(r) = bgAt(s)
  BY <1>1, <1>2 DEF CommandsQuiet, LabelsIn, bgAt
<1>4. announcing(r) = announcing(s) /\ dropped(r) = dropped(s)
  BY <1>1, <1>2 DEF announcing, dropped
<1> QED BY <1>2, <1>3, <1>4 DEF f, r

LEMMA PushedBg ==
  ASSUME NEW s \in Seq(Frame), NEW f \in Frame, f.job = "bg", f.labels = {}, NEW ts,
         CommandsQuiet(s), LabelsIn(s, ts), bgAt(s) = {}
  PROVE  /\ Append(s, f) \in Seq(Frame)
         /\ CommandsQuiet(Append(s, f))
         /\ LabelsIn(Append(s, f), ts)
         /\ bgAt(Append(s, f)) = {Len(s) + 1}
         /\ announcing(Append(s, f)) = announcing(s) \cup f.todo
         /\ dropped(Append(s, f)) = dropped(s) \cup f.downs
<1> DEFINE r == Append(s, f)
<1>1. /\ r \in Seq(Frame)
      /\ DOMAIN r = DOMAIN s \cup {Len(s) + 1}
      /\ Len(s) + 1 \notin DOMAIN s
      /\ r[Len(s) + 1] = f
      /\ \A i \in DOMAIN s : r[i] = s[i]
  BY Pushed
<1> HIDE DEF r
<1>2. CommandsQuiet(r) /\ LabelsIn(r, ts) /\ bgAt(r) = {Len(s) + 1}
  BY <1>1 DEF CommandsQuiet, LabelsIn, bgAt
<1>3. announcing(r) = announcing(s) \cup f.todo /\ dropped(r) = dropped(s) \cup f.downs
  BY <1>1 DEF announcing, dropped
<1> QED BY <1>1, <1>2, <1>3 DEF r

LEMMA PoppedFacts ==
  ASSUME NEW s \in Seq(Frame), s # <<>>, NEW ts, CommandsQuiet(s), LabelsIn(s, ts)
  PROVE  /\ below(s) \in Seq(Frame)
         /\ CommandsQuiet(below(s))
         /\ LabelsIn(below(s), ts)
         /\ bgAt(below(s)) = bgAt(s) \ {Len(s)}
         /\ s[Len(s)].todo = {} => announcing(below(s)) = announcing(s)
         /\ s[Len(s)].downs = {} => dropped(below(s)) = dropped(s)
         /\ bgAt(s) = {Len(s)} => dropped(below(s)) = {} /\ dropped(s) = s[Len(s)].downs
<1>1. /\ below(s) \in Seq(Frame)
      /\ DOMAIN below(s) = DOMAIN s \ {Len(s)}
      /\ Len(s) \in DOMAIN s
      /\ \A i \in DOMAIN below(s) : below(s)[i] = s[i]
  BY Popped
<1>2. CommandsQuiet(below(s)) /\ LabelsIn(below(s), ts)
  BY <1>1 DEF CommandsQuiet, LabelsIn
<1>3. bgAt(below(s)) = bgAt(s) \ {Len(s)}
  BY <1>1 DEF bgAt
<1>4. s[Len(s)].todo = {} => announcing(below(s)) = announcing(s)
  BY <1>1 DEF announcing
<1>5. s[Len(s)].downs = {} => dropped(below(s)) = dropped(s)
  BY <1>1 DEF dropped
<1>6. bgAt(s) = {Len(s)} => dropped(below(s)) = {} /\ dropped(s) = s[Len(s)].downs
  <2> SUFFICES ASSUME bgAt(s) = {Len(s)}
               PROVE  dropped(below(s)) = {} /\ dropped(s) = s[Len(s)].downs
    OBVIOUS
  <2>1. \A i \in DOMAIN s \ {Len(s)} : s[i].downs = {}
    BY DEF bgAt, CommandsQuiet
  <2> QED BY <1>1, <2>1 DEF dropped
<1> QED BY <1>1, <1>2, <1>3, <1>4, <1>5, <1>6

\* The frame of the background process changes; it is the only one.
LEMMA ReplacedBg ==
  ASSUME stack \in Seq(Frame), stack # <<>>, NEW f \in Frame, f.job = "bg",
         bgAt(stack) = {Len(stack)}, CommandsQuiet(stack), NEW ts, f.labels \subseteq ts
  PROVE  /\ replaceTop(f) \in Seq(Frame)
         /\ CommandsQuiet(replaceTop(f))
         /\ LabelsIn(replaceTop(f), ts)
         /\ bgAt(replaceTop(f)) = bgAt(stack)
         /\ announcing(replaceTop(f)) = f.todo
         /\ dropped(replaceTop(f)) = f.downs
         /\ dropped(stack) = stack[Len(stack)].downs
         /\ announcing(stack) = stack[Len(stack)].todo
<1> DEFINE r == replaceTop(f)
<1>1. /\ r \in Seq(Frame)
      /\ DOMAIN r = DOMAIN stack
      /\ Len(stack) \in DOMAIN stack
      /\ r[Len(stack)] = f
      /\ \A i \in DOMAIN stack \ {Len(stack)} : r[i] = stack[i]
  BY Replaced
<1> HIDE DEF r
<1>2. \A i \in DOMAIN stack \ {Len(stack)} :
        /\ stack[i].job # "bg"
        /\ stack[i].todo = {} /\ stack[i].downs = {} /\ stack[i].labels = {}
  BY DEF bgAt, CommandsQuiet
<1>3. CommandsQuiet(r) /\ LabelsIn(r, ts) /\ bgAt(r) = bgAt(stack)
  BY <1>1, <1>2 DEF CommandsQuiet, LabelsIn, bgAt
<1>4. announcing(r) = f.todo /\ announcing(stack) = stack[Len(stack)].todo
  BY <1>1, <1>2 DEF announcing
<1>5. dropped(r) = f.downs /\ dropped(stack) = stack[Len(stack)].downs
  BY <1>1, <1>2 DEF dropped
<1> QED BY <1>1, <1>3, <1>4, <1>5 DEF r

-----------------------------------------------------------------------------
(***************************************************************************)
(* The inductive invariant.                                                *)
(***************************************************************************)

\* A command that wakes nodes up has nodes to wait for.
ViewsKept == \A t \in Tasks : command[t] = "waking" => view[t].notBooted # {}

IInv ==
    /\ TypeOK
    /\ OneBgProcess
    /\ CommandsQuiet(stack)
    /\ WaitTablesAgree
    /\ ViewsKept
    /\ LabelsSendable
    /\ AwaitedNotBooted

LEMMA InitInv == Init => IInv
<1> SUFFICES ASSUME Init PROVE IInv
  OBVIOUS
<1>0. events \in Seq(Report) /\ stack \in Seq(Frame)
  BY DEF Init
<1>0a. bgProcessing \in BOOLEAN /\ rebooting \in BOOLEAN
  BY DEF Init
<1>0b. /\ command \in [Tasks -> {"idle", "waking", "waiting", "answered"}]
       /\ tidToMacs \in [Tasks -> SUBSET Nodes]
       /\ macToTids \in [Nodes -> SUBSET Tasks]
       /\ view \in [Tasks -> View]
       /\ overtaken \in [Tasks -> SUBSET Nodes]
  BY DEF Init, View
<1>1. TypeOK
  BY <1>0, <1>0a, <1>0b DEF Init, TypeOK
<1>2. OneBgProcess /\ CommandsQuiet(stack) /\ LabelsSendable
  BY DEF Init, OneBgProcess, bgFrames, CommandsQuiet, LabelsSendable
<1>3. WaitTablesAgree /\ ViewsKept /\ AwaitedNotBooted
  BY DEF Init, WaitTablesAgree, ViewsKept, AwaitedNotBooted
<1> QED BY <1>1, <1>2, <1>3 DEF IInv

\* The operators of this module say the same as those of the specification.
LEMMA SameOperators ==
  /\ bgFrames = bgAt(stack)
  /\ Announcing = announcing(stack)
  /\ LabelsSendable <=> LabelsIn(stack, tasks)
  /\ bgFrames' = bgAt(stack')
  /\ Announcing' = announcing(stack')
  /\ LabelsSendable' <=> LabelsIn(stack', tasks')
  BY DEF bgFrames, bgAt, Announcing, announcing, LabelsSendable, LabelsIn

\* What _plan_bg_process() does: it may start the background process, which then
\* announces the nodes that have become booted.
LEMMA Planned ==
  ASSUME NEW evts \in Seq(Report), NEW up \in SUBSET Nodes, NEW processing \in BOOLEAN,
         NEW under \in Seq(Frame), NEW ts, CommandsQuiet(under), LabelsIn(under, ts),
         ~processing => bgAt(under) = {},
         \/ planBgProcess(evts, up, processing, under)
         \/ BgProcess(evts, up, under) /\ ~processing
  PROVE  /\ events' \in Seq(Report)
         /\ booted' \in SUBSET Nodes
         /\ bgProcessing' \in BOOLEAN
         /\ stack' \in Seq(Frame)
         /\ CommandsQuiet(stack')
         /\ LabelsIn(stack', ts)
         /\ booted' \subseteq up \cup announcing(stack')
         /\ announcing(under) \subseteq announcing(stack')
         /\ \/ bgProcessing' = processing /\ bgAt(stack') = bgAt(under)
            \/ ~processing /\ bgProcessing' /\ \E i : bgAt(stack') = {i}
<1>1. CASE BgProcess(evts, up, under) /\ ~processing
  <2> DEFINE f == [job |-> "bg", todo |-> ups(evts, up), downs |-> downs(evts, up),
                   labels |-> {}, sending |-> NoTask]
  <2>1. ups(evts, up) \in SUBSET Nodes /\ downs(evts, up) \in SUBSET Nodes
    BY DEF ups, downs
  <2>2. f \in Frame /\ f.job = "bg" /\ f.labels = {} /\ f.todo = ups(evts, up)
    BY <2>1 DEF Frame
  <2>3. /\ stack' = Append(under, f)
        /\ booted' = up \cup f.todo
        /\ events' = <<>>
        /\ bgProcessing' = TRUE
    BY <1>1, <2>2 DEF BgProcess
  <2> HIDE DEF f
  <2>4. /\ stack' \in Seq(Frame)
        /\ CommandsQuiet(stack')
        /\ LabelsIn(stack', ts)
        /\ bgAt(stack') = {Len(under) + 1}
        /\ announcing(stack') = announcing(under) \cup f.todo
    BY <1>1, <2>2, <2>3, PushedBg
  <2>5. events' \in Seq(Report) /\ booted' \in SUBSET Nodes
    BY <2>1, <2>2, <2>3
  <2> QED BY <1>1, <2>3, <2>4, <2>5
<1>2. CASE events' = evts /\ booted' = up /\ bgProcessing' = processing /\ stack' = under
  BY <1>2
<1>3. \/ BgProcess(evts, up, under) /\ ~processing
      \/ events' = evts /\ booted' = up /\ bgProcessing' = processing /\ stack' = under
  BY DEF planBgProcess
<1> QED BY <1>1, <1>2, <1>3

\* Handlers that leave the tables and the commands alone.
LEMMA StatusStep ==
  ASSUME IInv, UNCHANGED <<waitInfo, command, view, overtaken>>,
         asleep' \in SUBSET Nodes, reported' \in SUBSET Nodes, handled' \in Nat,
         rebooting' \in BOOLEAN, events' \in Seq(Report), bgProcessing' \in BOOLEAN,
         booted' \in SUBSET Nodes, stack' \in Seq(Frame), CommandsQuiet(stack'),
         LabelsIn(stack', tasks), OneBgProcess',
         booted' \subseteq booted \cup announcing(stack'),
         announcing(stack) \cap booted' \subseteq announcing(stack')
  PROVE  IInv'
<1>1. TypeOK'
  BY DEF IInv, TypeOK, waitInfo
<1>2. WaitTablesAgree' /\ ViewsKept'
  BY DEF IInv, WaitTablesAgree, ViewsKept, waitInfo
<1>3. LabelsSendable'
  BY SameOperators DEF waitInfo
<1>4. AwaitedNotBooted'
  BY SameOperators DEF IInv, TypeOK, AwaitedNotBooted, waitInfo
<1> QED BY <1>1, <1>2, <1>3, <1>4 DEF IInv

\* A handler that starts the background process, or lets it be.
LEMMA PlanningStep ==
  ASSUME IInv, NEW evts \in Seq(Report), NEW up \in SUBSET Nodes,
         NEW processing \in BOOLEAN, NEW under \in Seq(Frame),
         CommandsQuiet(under), LabelsIn(under, tasks), up \subseteq booted,
         announcing(under) = announcing(stack), rebooting' \in BOOLEAN,
         processing <=> rebooting' \/ bgAt(under) # {},
         rebooting' => bgAt(under) = {},
         \A i, j \in bgAt(under) : i = j,
         \/ planBgProcess(evts, up, processing, under)
         \/ BgProcess(evts, up, under) /\ ~processing,
         UNCHANGED <<waitInfo, command, view, overtaken>>,
         asleep' \in SUBSET Nodes, reported' \in SUBSET Nodes, handled' \in Nat
  PROVE  IInv'
<1>1. /\ events' \in Seq(Report)
      /\ booted' \in SUBSET Nodes
      /\ bgProcessing' \in BOOLEAN
      /\ stack' \in Seq(Frame)
      /\ CommandsQuiet(stack')
      /\ LabelsIn(stack', tasks)
      /\ booted' \subseteq up \cup announcing(stack')
      /\ announcing(under) \subseteq announcing(stack')
      /\ \/ bgProcessing' = processing /\ bgAt(stack') = bgAt(under)
         \/ ~processing /\ bgProcessing' /\ \E i : bgAt(stack') = {i}
  BY Planned
<1>2. OneBgProcess'
  BY <1>1, SameOperators DEF OneBgProcess
<1> QED BY <1>1, <1>2, StatusStep

LEMMA AddEventsInv ==
  ASSUME IInv, NEW nodes \in SUBSET Nodes, NEW isBooted \in BOOLEAN,
         NEW powersave \in BOOLEAN, AddEvents(nodes, isBooted, powersave)
  PROVE  IInv'
<1> DEFINE evts == Append(events, [nodes |-> nodes, booted |-> isBooted])
<1>1. evts \in Seq(Report)
  BY DEF IInv, TypeOK, Report
<1>2. /\ CommandsQuiet(stack)
      /\ LabelsIn(stack, tasks)
      /\ bgProcessing <=> rebooting \/ bgAt(stack) # {}
      /\ rebooting => bgAt(stack) = {}
      /\ \A i, j \in bgAt(stack) : i = j
  BY SameOperators DEF IInv, OneBgProcess
<1>3. /\ booted \in SUBSET Nodes /\ bgProcessing \in BOOLEAN /\ rebooting \in BOOLEAN
      /\ stack \in Seq(Frame)
  BY DEF IInv, TypeOK
<1>4. /\ asleep' \in SUBSET Nodes /\ reported' \in SUBSET Nodes /\ handled' \in Nat
      /\ UNCHANGED <<rebooting, waitInfo, command, view, overtaken>>
      /\ planBgProcess(evts, booted, bgProcessing, stack)
  BY DEF IInv, TypeOK, AddEvents
<1> HIDE DEF evts
<1> QED BY <1>1, <1>2, <1>3, <1>4, PlanningStep

LEMMA TimerInv == IInv /\ TimerFires => IInv'
<1> SUFFICES ASSUME IInv, TimerFires PROVE IInv'
  OBVIOUS
<1>1. /\ CommandsQuiet(stack)
      /\ LabelsIn(stack, tasks)
      /\ bgProcessing <=> rebooting \/ bgAt(stack) # {}
      /\ rebooting => bgAt(stack) = {}
      /\ \A i, j \in bgAt(stack) : i = j
  BY SameOperators DEF IInv, OneBgProcess
<1>2. /\ events \in Seq(Report) /\ booted \in SUBSET Nodes
      /\ bgProcessing \in BOOLEAN /\ rebooting \in BOOLEAN
      /\ stack \in Seq(Frame)
  BY DEF IInv, TypeOK
<1>3. /\ asleep' \in SUBSET Nodes /\ reported' \in SUBSET Nodes /\ handled' \in Nat
      /\ UNCHANGED <<rebooting, waitInfo, command, view, overtaken>>
      /\ BgProcess(events, booted, stack) /\ ~bgProcessing
  BY DEF IInv, TypeOK, TimerFires
<1> QED BY <1>1, <1>2, <1>3, PlanningStep

LEMMA RebootEndsInv == IInv /\ RebootEnds => IInv'
<1> SUFFICES ASSUME IInv, RebootEnds PROVE IInv'
  OBVIOUS
<1>1. /\ CommandsQuiet(stack)
      /\ LabelsIn(stack, tasks)
      /\ bgAt(stack) = {}
  BY SameOperators DEF IInv, OneBgProcess, RebootEnds
<1>2. /\ events \in Seq(Report) /\ booted \in SUBSET Nodes /\ stack \in Seq(Frame)
  BY DEF IInv, TypeOK
<1>3. /\ asleep' \in SUBSET Nodes /\ reported' \in SUBSET Nodes /\ handled' \in Nat
      /\ rebooting' = FALSE
      /\ UNCHANGED <<waitInfo, command, view, overtaken>>
      /\ planBgProcess(events, booted, FALSE, stack)
  BY DEF IInv, TypeOK, RebootEnds, resume
<1> QED BY <1>1, <1>2, <1>3, PlanningStep

\* The running background process is the only one, and it is on top.
LEMMA BgOnTop ==
  ASSUME IInv, stack # <<>>, top.job = "bg"
  PROVE  /\ stack \in Seq(Frame)
         /\ top \in Frame
         /\ bgAt(stack) = {Len(stack)}
         /\ bgProcessing
         /\ ~rebooting
         /\ LabelsIn(stack, tasks)
         /\ top.labels \subseteq tasks
<1>1. stack \in Seq(Frame) /\ Len(stack) \in DOMAIN stack /\ top \in Frame
  BY DEF IInv, TypeOK, top
<1>2. Len(stack) \in bgAt(stack)
  BY <1>1 DEF bgAt, top
<1>3. bgAt(stack) = {Len(stack)} /\ bgProcessing /\ ~rebooting
  BY <1>2, SameOperators DEF IInv, OneBgProcess
<1>4. LabelsIn(stack, tasks)
  BY SameOperators DEF IInv
<1> QED BY <1>1, <1>3, <1>4 DEF LabelsIn, top

LEMMA BgEndsInv == IInv /\ BgEnds => IInv'
<1> SUFFICES ASSUME IInv, BgEnds PROVE IInv'
  OBVIOUS
<1> DEFINE up == booted \ top.downs
           s == below(stack)
<1>1. stack # <<>> /\ top.job = "bg" /\ top.todo = {}
  BY DEF BgEnds, Running
<1>2. /\ stack \in Seq(Frame)
      /\ bgAt(stack) = {Len(stack)}
      /\ bgProcessing
      /\ ~rebooting
      /\ LabelsIn(stack, tasks)
  BY <1>1, BgOnTop
<1>3. /\ s \in Seq(Frame)
      /\ CommandsQuiet(s)
      /\ LabelsIn(s, tasks)
      /\ bgAt(s) = {}
      /\ announcing(s) = announcing(stack)
  BY <1>1, <1>2, PoppedFacts DEF IInv, top
<1>4. /\ events \in Seq(Report) /\ up \in SUBSET Nodes /\ up \subseteq booted
      /\ asleep' \in SUBSET Nodes /\ reported' \in SUBSET Nodes /\ handled' \in Nat
      /\ UNCHANGED <<waitInfo, command, view, overtaken>>
  BY DEF IInv, TypeOK, BgEnds
<1>5. CASE planBgProcess(events, up, FALSE, s) /\ UNCHANGED rebooting
  <2>1. rebooting' \in BOOLEAN /\ ~rebooting'
    BY <1>2, <1>5 DEF IInv, TypeOK
  <2>2. /\ FALSE <=> rebooting' \/ bgAt(s) # {}
        /\ rebooting' => bgAt(s) = {}
        /\ \A i, j \in bgAt(s) : i = j
    BY <1>3, <2>1
  <2>3. FALSE \in BOOLEAN
    OBVIOUS
  <2> HIDE DEF up, s
  <2> QED BY <1>3, <1>4, <1>5, <2>1, <2>2, <2>3, PlanningStep
<1>6. CASE /\ rebooting' = TRUE
           /\ booted' = up
           /\ stack' = s
           /\ UNCHANGED <<events, bgProcessing>>
  <2> HIDE DEF up, s
  <2>1. OneBgProcess'
    BY <1>2, <1>3, <1>6, SameOperators DEF OneBgProcess
  <2> QED BY <1>2, <1>3, <1>4, <1>6, <2>1, StatusStep
<1> QED BY <1>5, <1>6 DEF BgEnds

\* The handlers that change the frame of the background process only.
LEMMA SendLabelInv == ASSUME IInv, NEW t \in Tasks, SendLabel(t) PROVE IInv'
<1> DEFINE f == [top EXCEPT !.labels = @ \ {t}, !.sending = t]
<1>1. stack # <<>> /\ top.job = "bg" /\ stack' = replaceTop(f)
  BY DEF SendLabel, Running
<1>2. /\ stack \in Seq(Frame)
      /\ top \in Frame
      /\ bgAt(stack) = {Len(stack)}
      /\ LabelsIn(stack, tasks)
      /\ top.labels \subseteq tasks
  BY <1>1, BgOnTop
<1>3. f \in Frame /\ f.job = "bg" /\ f.labels \subseteq tasks /\ f.todo = top.todo
  BY <1>1, <1>2 DEF Frame
<1> HIDE DEF f
<1>4. /\ stack' \in Seq(Frame)
      /\ CommandsQuiet(stack')
      /\ LabelsIn(stack', tasks)
      /\ bgAt(stack') = bgAt(stack)
      /\ announcing(stack') = announcing(stack)
  BY <1>1, <1>2, <1>3, ReplacedBg DEF IInv, top
<1>5. /\ UNCHANGED <<status, waitInfo, command, view, asleep, overtaken, handled>>
  BY DEF SendLabel
<1>6. OneBgProcess'
  BY <1>4, <1>5, SameOperators DEF IInv, OneBgProcess, status
<1> QED BY <1>4, <1>5, <1>6, StatusStep DEF IInv, TypeOK, status

LEMMA ClientAnswersInv == IInv /\ ClientAnswers => IInv'
<1> SUFFICES ASSUME IInv, ClientAnswers PROVE IInv'
  OBVIOUS
<1>1. stack # <<>> /\ top.sending # NoTask
  BY DEF ClientAnswers
<1>2. /\ UNCHANGED <<status, waitInfo, command, view, asleep, overtaken, handled>>
  BY DEF ClientAnswers
<1>3. SUFFICES /\ stack' \in Seq(Frame)
               /\ CommandsQuiet(stack')
               /\ LabelsIn(stack', tasks)
               /\ bgAt(stack') = bgAt(stack)
               /\ announcing(stack') = announcing(stack)
  <2>1. OneBgProcess'
    BY <1>2, <1>3, SameOperators DEF IInv, OneBgProcess, status
  <2> QED BY <1>2, <1>3, <2>1, StatusStep DEF IInv, TypeOK, status
<1>4. CASE top.job = "bg"
  <2> DEFINE f == [top EXCEPT !.sending = NoTask]
  <2>1. stack' = replaceTop(f)
    BY <1>4 DEF ClientAnswers
  <2>2. /\ stack \in Seq(Frame)
        /\ top \in Frame
        /\ bgAt(stack) = {Len(stack)}
        /\ top.labels \subseteq tasks
    BY <1>1, <1>4, BgOnTop
  <2>3. f \in Frame /\ f.job = "bg" /\ f.labels \subseteq tasks /\ f.todo = top.todo
    BY <1>4, <2>2 DEF Frame
  <2> HIDE DEF f
  <2> QED BY <1>1, <2>1, <2>2, <2>3, ReplacedBg DEF IInv, top
<1>5. CASE top.job # "bg"
  <2>1. stack' = below(stack)
    BY <1>5 DEF ClientAnswers
  <2>2. stack \in Seq(Frame) /\ Len(stack) \in DOMAIN stack /\ LabelsIn(stack, tasks)
    BY <1>1, SameOperators DEF IInv, TypeOK
  <2>3. top.todo = {} /\ Len(stack) \notin bgAt(stack)
    BY <1>5, <2>2 DEF IInv, CommandsQuiet, bgAt, top
  <2> QED BY <1>1, <2>1, <2>2, <2>3, PoppedFacts DEF IInv, top
<1> QED BY <1>4, <1>5

LEMMA AnnounceInv == ASSUME IInv, NEW n \in Nodes, Announce(n) PROVE IInv'
<1> DEFINE ended == completed(n)
           f == [top EXCEPT !.todo = @ \ {n}, !.labels = macToTids[n] \ ended]
<1>1. /\ stack # <<>>
      /\ top.job = "bg"
      /\ n \in top.todo
      /\ stack' = replaceTop(f)
      /\ macToTids' = [macToTids EXCEPT ![n] = {}]
      /\ named' = IF macToTids[n] = {} THEN named ELSE named \ {n}
      /\ tidToMacs' = [t \in Tasks |-> IF t \in macToTids[n] THEN tidToMacs[t] \ {n}
                                       ELSE tidToMacs[t]]
      /\ tasks' = tasks \ ended
      /\ command' = [t \in Tasks |-> IF t \in ended THEN "answered" ELSE command[t]]
      /\ asleep' = asleep \ {n}
      /\ UNCHANGED <<status, view, overtaken, handled>>
  BY DEF Announce, Running, notified, forgetWaiters
<1>2. /\ stack \in Seq(Frame)
      /\ top \in Frame
      /\ bgAt(stack) = {Len(stack)}
  BY <1>1, BgOnTop
<1>3. /\ ended = {t \in macToTids[n] : tidToMacs[t] = {n}}
      /\ macToTids[n] \in SUBSET Tasks
      /\ ended \in SUBSET Tasks
      /\ \A t \in Tasks : t \in macToTids[n] <=> n \in tidToMacs[t]
  BY DEF completed, notified, IInv, TypeOK, WaitTablesAgree
<1> HIDE DEF ended
<1>4. WaitTablesAgree'
  <2>1. ASSUME NEW t \in Tasks, NEW m \in Nodes
        PROVE  t \in macToTids'[m] <=> m \in tidToMacs'[t]
    BY <1>1, <1>3 DEF IInv, TypeOK, WaitTablesAgree
  <2>2. ASSUME NEW t \in Tasks
        PROVE  t \in tasks' <=> tidToMacs'[t] # {}
    BY <1>1, <1>3 DEF IInv, TypeOK, WaitTablesAgree
  <2>3. ASSUME NEW m \in Nodes
        PROVE  m \in named' <=> macToTids'[m] # {}
    BY <1>1, <1>3 DEF IInv, TypeOK, WaitTablesAgree
  <2>4. ASSUME NEW t \in Tasks
        PROVE  command'[t] = "waiting" <=> t \in tasks'
    BY <1>1, <1>3 DEF IInv, TypeOK, WaitTablesAgree
  <2> QED BY <2>1, <2>2, <2>3, <2>4 DEF WaitTablesAgree
<1>5. macToTids[n] \ ended \subseteq tasks'
  BY <1>1, <1>3 DEF IInv, TypeOK, WaitTablesAgree
<1>6. f \in Frame /\ f.job = "bg" /\ f.labels \subseteq tasks' /\ f.todo = top.todo \ {n}
  BY <1>1, <1>2, <1>3, <1>5 DEF Frame
<1> HIDE DEF f
<1>7. /\ stack' \in Seq(Frame)
      /\ CommandsQuiet(stack')
      /\ LabelsIn(stack', tasks')
      /\ bgAt(stack') = bgAt(stack)
      /\ announcing(stack') = announcing(stack) \ {n}
  BY <1>1, <1>2, <1>6, ReplacedBg DEF IInv, top
<1>8. OneBgProcess' /\ LabelsSendable'
  BY <1>1, <1>7, SameOperators DEF IInv, OneBgProcess, status
<1>9. AwaitedNotBooted'
  <2> SUFFICES ASSUME NEW t \in tasks'
               PROVE  tidToMacs'[t] \subseteq (Nodes \ booted) \cup announcing(stack')
                                              \cup overtaken[t]
    BY <1>1, SameOperators DEF AwaitedNotBooted, status
  <2>1. t \in tasks /\ t \in Tasks
    BY <1>1 DEF IInv, TypeOK
  <2>2. tidToMacs[t] \subseteq (Nodes \ booted) \cup announcing(stack) \cup overtaken[t]
    BY <2>1, SameOperators DEF IInv, AwaitedNotBooted
  <2>3. tidToMacs'[t] \subseteq tidToMacs[t] \ {n}
    BY <1>1, <1>3, <2>1
  <2> QED BY <1>7, <2>2, <2>3
<1>10. TypeOK'
  <2>1. /\ tidToMacs' \in [Tasks -> SUBSET Nodes]
        /\ macToTids' \in [Nodes -> SUBSET Tasks]
        /\ named' \in SUBSET Nodes /\ tasks' \in SUBSET Tasks /\ asleep' \in SUBSET Nodes
    BY <1>1 DEF IInv, TypeOK
  <2>2. command' \in [Tasks -> {"idle", "waking", "waiting", "answered"}]
    BY <1>1 DEF IInv, TypeOK
  <2> QED BY <1>1, <1>7, <2>1, <2>2 DEF IInv, TypeOK, status
<1>11. ViewsKept'
  BY <1>1 DEF IInv, TypeOK, ViewsKept
<1> QED BY <1>4, <1>7, <1>8, <1>9, <1>10, <1>11 DEF IInv

\* wf_wait(), for a command that is not in the tables yet.
LEMMA RegisterInv ==
  ASSUME IInv, NEW t \in Tasks, NEW notBooted \in SUBSET Nodes, notBooted # {},
         command[t] \in {"idle", "waking"}, Register(t, notBooted),
         asleep' \in SUBSET Nodes, UNCHANGED <<status, view, handled>>
  PROVE  IInv'
<1>1. /\ t \notin tasks
      /\ tidToMacs[t] = {}
      /\ \A n \in Nodes : t \notin macToTids[n]
  BY DEF IInv, WaitTablesAgree
<1>2. /\ command' = [command EXCEPT ![t] = "waiting"]
      /\ tasks' = tasks \cup {t}
      /\ tidToMacs' = [tidToMacs EXCEPT ![t] = notBooted]
      /\ macToTids' = [n \in Nodes |-> IF n \in notBooted THEN macToTids[n] \cup {t}
                                       ELSE macToTids[n]]
      /\ named' = named \cup notBooted
      /\ overtaken' = [overtaken EXCEPT ![t] = (notBooted \cap booted) \ announcing(stack)]
      /\ stack' = Append(stack, call("wait", t))
  BY SameOperators DEF Register
<1>3. WaitTablesAgree'
  <2>1. ASSUME NEW u \in Tasks, NEW m \in Nodes
        PROVE  u \in macToTids'[m] <=> m \in tidToMacs'[u]
    BY <1>1, <1>2 DEF IInv, TypeOK, WaitTablesAgree
  <2>2. ASSUME NEW u \in Tasks
        PROVE  u \in tasks' <=> tidToMacs'[u] # {}
    BY <1>1, <1>2 DEF IInv, TypeOK, WaitTablesAgree
  <2>3. ASSUME NEW m \in Nodes
        PROVE  m \in named' <=> macToTids'[m] # {}
    BY <1>1, <1>2 DEF IInv, TypeOK, WaitTablesAgree
  <2>4. ASSUME NEW u \in Tasks
        PROVE  command'[u] = "waiting" <=> u \in tasks'
    BY <1>1, <1>2 DEF IInv, TypeOK, WaitTablesAgree
  <2> QED BY <2>1, <2>2, <2>3, <2>4 DEF WaitTablesAgree
<1>4. LabelsIn(stack, tasks')
  BY <1>2, SameOperators DEF IInv, LabelsIn
<1>5. /\ stack' \in Seq(Frame)
      /\ CommandsQuiet(stack')
      /\ LabelsIn(stack', tasks')
      /\ bgAt(stack') = bgAt(stack)
      /\ announcing(stack') = announcing(stack)
  BY <1>2, <1>4, PushedCall, NodeWaitAssumption DEF IInv, TypeOK
<1>6. OneBgProcess' /\ LabelsSendable'
  BY <1>5, SameOperators DEF IInv, OneBgProcess, status
<1>7. AwaitedNotBooted'
  <2> SUFFICES ASSUME NEW u \in tasks'
               PROVE  tidToMacs'[u] \subseteq (Nodes \ booted) \cup announcing(stack)
                                              \cup overtaken'[u]
    BY <1>5, SameOperators DEF AwaitedNotBooted, status
  <2>1. u \in Tasks
    BY <1>2 DEF IInv, TypeOK
  <2>2. CASE u = t
    BY <1>2, <2>2 DEF IInv, TypeOK
  <2>3. CASE u # t
    <3>1. u \in tasks /\ tidToMacs'[u] = tidToMacs[u] /\ overtaken'[u] = overtaken[u]
      BY <1>2, <2>1, <2>3 DEF IInv, TypeOK
    <3> QED BY <3>1, SameOperators DEF IInv, AwaitedNotBooted
  <2> QED BY <2>2, <2>3
<1>8. TypeOK'
  <2>1. /\ tidToMacs' \in [Tasks -> SUBSET Nodes]
        /\ macToTids' \in [Nodes -> SUBSET Tasks]
        /\ overtaken' \in [Tasks -> SUBSET Nodes]
        /\ named' \in SUBSET Nodes /\ tasks' \in SUBSET Tasks
    BY <1>2 DEF IInv, TypeOK
  <2>2. command' \in [Tasks -> {"idle", "waking", "waiting", "answered"}]
    BY <1>2 DEF IInv, TypeOK
  <2> QED BY <1>5, <2>1, <2>2 DEF IInv, TypeOK, status
<1>9. ViewsKept'
  BY <1>2 DEF IInv, TypeOK, ViewsKept
<1> QED BY <1>3, <1>5, <1>6, <1>7, <1>8, <1>9 DEF IInv

\* A command that does not enter the tables.
LEMMA CommandStep ==
  ASSUME IInv, UNCHANGED <<status, waitInfo, asleep, overtaken, handled>>,
         stack' \in Seq(Frame), CommandsQuiet(stack'), LabelsIn(stack', tasks),
         bgAt(stack') = bgAt(stack), announcing(stack') = announcing(stack),
         NEW t \in Tasks, command[t] = "idle", NEW next \in {"waking", "answered"},
         command' = [command EXCEPT ![t] = next],
         view' \in [Tasks -> View],
         next = "waking" => view'[t].notBooted # {},
         \A u \in Tasks \ {t} : view'[u] = view[u]
  PROVE  IInv'
<1>1. command' \in [Tasks -> {"idle", "waking", "waiting", "answered"}]
  BY DEF IInv, TypeOK
<1>2. TypeOK'
  BY <1>1 DEF IInv, TypeOK, status, waitInfo
<1>3. OneBgProcess' /\ LabelsSendable'
  BY SameOperators DEF IInv, OneBgProcess, status, waitInfo
<1>4. WaitTablesAgree'
  <2>1. \A u \in Tasks : command'[u] = "waiting" <=> command[u] = "waiting"
    BY DEF IInv, TypeOK
  <2> QED BY <2>1 DEF IInv, WaitTablesAgree, waitInfo
<1>5. AwaitedNotBooted'
  BY SameOperators DEF IInv, AwaitedNotBooted, status, waitInfo
<1>6. ViewsKept'
  BY DEF IInv, TypeOK, ViewsKept
<1> QED BY <1>2, <1>3, <1>4, <1>5, <1>6 DEF IInv

LEMMA WaitInv == ASSUME IInv, NEW t \in Tasks, NEW nodes \in SUBSET Nodes, Wait(t, nodes)
                 PROVE  IInv'
<1> DEFINE notBooted == nodes \ booted
<1>1. /\ command[t] = "idle"
      /\ UNCHANGED <<status, asleep, handled>>
      /\ notBooted \in SUBSET Nodes
  BY DEF Wait
<1>2. /\ stack \in Seq(Frame) /\ CommandsQuiet(stack) /\ LabelsIn(stack, tasks)
      /\ asleep \in SUBSET Nodes
      /\ view \in [Tasks -> View]
  BY SameOperators DEF IInv, TypeOK
<1>3. CASE /\ command' = [command EXCEPT ![t] = "answered"]
           /\ UNCHANGED <<waitInfo, view, stack, overtaken>>
  BY <1>1, <1>2, <1>3, CommandStep
<1>4. CASE notBooted # {} /\ Register(t, notBooted) /\ UNCHANGED view
  BY <1>1, <1>2, <1>4, RegisterInv
<1>5. CASE /\ notBooted # {}
           /\ command' = [command EXCEPT ![t] = "waking"]
           /\ view' = [view EXCEPT ![t] = [notBooted |-> notBooted,
                                           off |-> nodes \cap asleep]]
           /\ stack' = Append(stack, call("wake", t))
           /\ UNCHANGED <<waitInfo, overtaken>>
  <2>1. /\ stack' \in Seq(Frame)
        /\ CommandsQuiet(stack')
        /\ LabelsIn(stack', tasks)
        /\ bgAt(stack') = bgAt(stack)
        /\ announcing(stack') = announcing(stack)
    BY <1>2, <1>5, PushedCall, NodeWaitAssumption
  <2>2. /\ view' \in [Tasks -> View]
        /\ view'[t].notBooted # {}
        /\ \A u \in Tasks \ {t} : view'[u] = view[u]
    <3>1. [notBooted |-> notBooted, off |-> nodes \cap asleep] \in View
      BY DEF View
    <3> QED BY <1>1, <1>2, <1>5, <3>1
  <2> QED BY <1>1, <1>5, <2>1, <2>2, CommandStep
<1> QED BY <1>3, <1>4, <1>5 DEF Wait

LEMMA WakeUpEndsInv ==
  ASSUME IInv, NEW t \in Tasks, NEW woken \in SUBSET Nodes, WakeUpEnds(t, woken)
  PROVE  IInv'
<1>1. /\ command[t] = "waking"
      /\ Register(t, view[t].notBooted)
      /\ UNCHANGED <<status, view, handled>>
      /\ asleep' = asleep \ woken
  BY DEF WakeUpEnds
<1>2. view[t].notBooted \in SUBSET Nodes /\ view[t].notBooted # {}
  BY <1>1 DEF IInv, TypeOK, View, ViewsKept
<1>3. asleep' \in SUBSET Nodes
  BY <1>1 DEF IInv, TypeOK
<1> QED BY <1>1, <1>2, <1>3, RegisterInv

\* Every step keeps the invariant.
LEMMA NextInv == IInv /\ [Next]_vars => IInv'
<1> SUFFICES ASSUME IInv, [Next]_vars PROVE IInv'
  OBVIOUS
<1>1. CASE Reports
  BY <1>1, AddEventsInv DEF Reports
<1>2. CASE TimerFires
  BY <1>2, TimerInv
<1>3. CASE Commands
  BY <1>3, WaitInv DEF Commands
<1>4. CASE Resumes
  BY <1>4, AnnounceInv, SendLabelInv, BgEndsInv DEF Resumes
<1>5. CASE ClientAnswers
  BY <1>5, ClientAnswersInv
<1>6. CASE RebootEnds
  BY <1>6, RebootEndsInv
<1>7. CASE \E t \in Tasks, woken \in SUBSET Nodes : WakeUpEnds(t, woken)
  BY <1>7, WakeUpEndsInv
<1>8. CASE UNCHANGED vars
  <2>1. UNCHANGED <<status, waitInfo, stack, command, view, asleep, overtaken, handled>>
    BY <1>8 DEF vars, status, waitInfo
  <2>2. OneBgProcess'
    BY <2>1, SameOperators DEF IInv, OneBgProcess, status
  <2> QED BY <2>1, <2>2, SameOperators, StatusStep DEF IInv, TypeOK, status
<1> QED BY <1>1, <1>2, <1>3, <1>4, <1>5, <1>6, <1>7, <1>8 DEF Next

LEMMA InvariantHolds == Spec => []IInv
  BY InitInv, NextInv, PTL DEF Spec

-----------------------------------------------------------------------------
(***************************************************************************)
(* The status follows the reports.                                         *)
(***************************************************************************)

\* The reports about a node have a last one.
HasLast(evts) ==
    \A n \in Nodes : about(evts, n) # {} =>
        \E i \in about(evts, n) : \A j \in about(evts, n) : j <= i

\* What the reports evts make of the status up.
Followed(rep, evts, up) ==
    \A n \in Nodes : n \in rep <=> IF about(evts, n) = {} THEN n \in up
                                   ELSE retained(evts, n) = TRUE

ReportsFollowed ==
    HasLast(events) /\ Followed(reported, events, booted \ dropped(stack))

\* The last report about a node is the one retained.
LEMMA Appended ==
  ASSUME NEW evts \in Seq(Report), HasLast(evts), NEW r \in Report, NEW n \in Nodes
  PROVE  /\ n \in r.nodes => /\ about(Append(evts, r), n) # {}
                             /\ retained(Append(evts, r), n) = r.booted
         /\ n \notin r.nodes => /\ about(Append(evts, r), n) = about(evts, n)
                                /\ about(evts, n) # {} =>
                                      retained(Append(evts, r), n) = retained(evts, n)
         /\ about(Append(evts, r), n) # {} =>
                \E i \in about(Append(evts, r), n) :
                    \A j \in about(Append(evts, r), n) : j <= i
<1> DEFINE l == Len(evts) + 1
           es == Append(evts, r)
           A == about(es, n)
           last == CHOOSE i \in A : \A j \in A : j <= i
<1>1. /\ Len(evts) \in Nat
      /\ DOMAIN evts = 1..Len(evts)
      /\ DOMAIN es = 1..l
      /\ es[l] = r
      /\ \A i \in 1..Len(evts) : es[i] = evts[i]
  OBVIOUS
<1> HIDE DEF es
<1>2. A \subseteq 1..l
  BY <1>1 DEF about
<1>3. CASE n \in r.nodes
  <2>1. l \in A /\ \A j \in A : j <= l
    BY <1>1, <1>2, <1>3 DEF about
  <2> HIDE DEF A
  <2>2. last \in A /\ \A j \in A : j <= last
    BY <2>1
  <2> HIDE DEF last
  <2>3. last = l
    BY <1>1, <1>2, <2>1, <2>2
  <2>4. retained(es, n) = r.booted
    BY <1>1, <2>3 DEF retained, A, last
  <2> QED BY <1>3, <2>1, <2>4 DEF A, es
<1>4. CASE n \notin r.nodes
  <2>1. A = about(evts, n)
    BY <1>1, <1>4 DEF about
  <2>2. A # {} => \E i \in A : \A j \in A : j <= i
    BY <2>1 DEF HasLast
  <2> HIDE DEF A
  <2>3. ASSUME A # {} PROVE retained(es, n) = retained(evts, n)
    <3>1. last \in A
      BY <2>2, <2>3
    <3>2. last \in 1..Len(evts)
      BY <1>1, <2>1, <3>1 DEF about
    <3>3. retained(es, n) = es[last].booted
      BY DEF retained, A
    <3>4. retained(evts, n) = evts[last].booted
      BY <2>1 DEF retained
    <3> QED BY <1>1, <3>2, <3>3, <3>4
  <2> QED BY <1>4, <2>1, <2>2, <2>3 DEF A, es
<1> QED BY <1>3, <1>4

\* What is processed, and what is left to process, amount to the same.
LEMMA PlanFollows ==
  ASSUME NEW evts \in Seq(Report), NEW up \in SUBSET Nodes, NEW processing \in BOOLEAN,
         NEW under \in Seq(Frame), CommandsQuiet(under),
         ~processing => dropped(under) = {} /\ bgAt(under) = {},
         HasLast(evts), Followed(reported', evts, up \ dropped(under)),
         \/ planBgProcess(evts, up, processing, under)
         \/ BgProcess(evts, up, under) /\ ~processing
  PROVE  ReportsFollowed'
<1>1. CASE BgProcess(evts, up, under) /\ ~processing
  <2> DEFINE f == [job |-> "bg", todo |-> ups(evts, up), downs |-> downs(evts, up),
                   labels |-> {}, sending |-> NoTask]
             d == downs(evts, up)
  <2>1. ups(evts, up) \in SUBSET Nodes /\ d \in SUBSET Nodes
    BY DEF ups, downs
  <2>2. f \in Frame /\ f.job = "bg" /\ f.labels = {} /\ f.downs = d
    BY <2>1 DEF Frame
  <2>3. stack' = Append(under, f) /\ booted' = up \cup ups(evts, up) /\ events' = <<>>
    BY <1>1 DEF BgProcess
  <2> HIDE DEF f
  <2>4. LabelsIn(under, Tasks)
    <3>1. \A i \in DOMAIN under : under[i] \in Frame
      OBVIOUS
    <3> QED BY <3>1 DEF LabelsIn, Frame
  <2>5. dropped(stack') = d
    <3>1. dropped(under) = {} /\ bgAt(under) = {}
      BY <1>1
    <3>2. dropped(Append(under, f)) = dropped(under) \cup f.downs
      BY <2>2, <2>4, <3>1, PushedBg
    <3> QED BY <2>2, <2>3, <3>1, <3>2
  <2>6. \A n \in Nodes : about(events', n) = {}
    BY <2>3 DEF about
  <2>7. ASSUME NEW n \in Nodes
        PROVE  n \in reported' <=> n \in booted' \ dropped(stack')
    <3>1. CASE about(evts, n) = {}
      BY <1>1, <2>3, <2>5, <3>1 DEF Followed, ups, downs
    <3>2. CASE about(evts, n) # {}
      <4>1. retained(evts, n) \in BOOLEAN
        <5>0. \A i \in DOMAIN evts : evts[i] \in Report
          OBVIOUS
        <5>1. \A i \in DOMAIN evts : evts[i].booted \in BOOLEAN
          BY <5>0 DEF Report
        <5>2. about(evts, n) \subseteq DOMAIN evts
          BY DEF about
        <5>3. \E i \in about(evts, n) : \A j \in about(evts, n) : j <= i
          BY <3>2 DEF HasLast
        <5>4. PICK i \in about(evts, n) : retained(evts, n) = evts[i].booted
          BY <5>3 DEF retained
        <5> QED BY <5>1, <5>2, <5>4
      <4>2. n \in reported' <=> retained(evts, n) = TRUE
        BY <3>2 DEF Followed
      <4> QED BY <2>3, <2>5, <3>2, <4>1, <4>2 DEF ups, downs
    <3> QED BY <3>1, <3>2
  <2> QED BY <2>6, <2>7 DEF ReportsFollowed, HasLast, Followed
<1>2. CASE events' = evts /\ booted' = up /\ bgProcessing' = processing /\ stack' = under
  BY <1>2 DEF ReportsFollowed
<1> QED BY <1>1, <1>2 DEF planBgProcess

\* Handlers that neither report nor process anything.
LEMMA FollowedStep ==
  ASSUME ReportsFollowed, UNCHANGED status, dropped(stack') = dropped(stack)
  PROVE  ReportsFollowed'
  BY DEF ReportsFollowed, HasLast, Followed, status

LEMMA FollowedNext == IInv /\ ReportsFollowed /\ [Next]_vars => ReportsFollowed'
<1> SUFFICES ASSUME IInv, ReportsFollowed, [Next]_vars PROVE ReportsFollowed'
  OBVIOUS
<1>0. /\ CommandsQuiet(stack)
      /\ bgProcessing <=> rebooting \/ bgAt(stack) # {}
      /\ rebooting => bgAt(stack) = {}
      /\ events \in Seq(Report) /\ booted \in SUBSET Nodes
      /\ bgProcessing \in BOOLEAN /\ rebooting \in BOOLEAN
      /\ stack \in Seq(Frame)
      /\ asleep \in SUBSET Nodes
      /\ LabelsIn(stack, tasks)
      /\ HasLast(events)
      /\ Followed(reported, events, booted \ dropped(stack))
  BY SameOperators DEF IInv, OneBgProcess, TypeOK, ReportsFollowed
<1>0a. bgAt(stack) = {} => dropped(stack) = {}
  BY <1>0 DEF CommandsQuiet, bgAt, dropped
<1>1. ASSUME NEW nodes \in SUBSET Nodes, NEW isBooted \in BOOLEAN,
             NEW powersave \in BOOLEAN, AddEvents(nodes, isBooted, powersave)
      PROVE  ReportsFollowed'
  <2> DEFINE r == [nodes |-> nodes, booted |-> isBooted]
             evts == Append(events, r)
  <2>1. r \in Report /\ r.nodes = nodes /\ r.booted = isBooted
    BY DEF Report
  <2>2. /\ planBgProcess(evts, booted, bgProcessing, stack)
        /\ reported' = IF isBooted THEN reported \cup nodes ELSE reported \ nodes
    BY <1>1 DEF AddEvents
  <2> HIDE DEF r
  <2>3. evts \in Seq(Report)
    BY <1>0, <2>1
  <2>4. HasLast(evts)
    BY <1>0, <2>1, Appended DEF HasLast
  <2>5. Followed(reported', evts, booted \ dropped(stack))
    <3> SUFFICES ASSUME NEW n \in Nodes
                 PROVE  n \in reported' <=>
                            IF about(evts, n) = {} THEN n \in booted \ dropped(stack)
                            ELSE retained(evts, n) = TRUE
      BY DEF Followed
    <3>1. /\ n \in nodes => about(evts, n) # {} /\ retained(evts, n) = isBooted
          /\ n \notin nodes => /\ about(evts, n) = about(events, n)
                               /\ about(events, n) # {} =>
                                      retained(evts, n) = retained(events, n)
      BY <1>0, <2>1, Appended
    <3>2. n \in nodes => (n \in reported' <=> isBooted = TRUE)
      BY <2>2
    <3>3. n \notin nodes => (n \in reported' <=> n \in reported)
      BY <2>2
    <3> HIDE DEF evts
    <3> QED BY <1>0, <3>1, <3>2, <3>3 DEF Followed
  <2> HIDE DEF evts
  <2> QED BY <1>0, <1>0a, <2>2, <2>3, <2>4, <2>5, PlanFollows
<1>2. CASE TimerFires
  <2>1. BgProcess(events, booted, stack) /\ ~bgProcessing /\ reported' = reported
    BY <1>2 DEF TimerFires
  <2> QED BY <1>0, <1>0a, <2>1, PlanFollows
<1>3. CASE RebootEnds
  <2>1. planBgProcess(events, booted, FALSE, stack) /\ reported' = reported /\ rebooting
    BY <1>3 DEF RebootEnds, resume
  <2>2. FALSE \in BOOLEAN
    OBVIOUS
  <2> QED BY <1>0, <1>0a, <2>1, <2>2, PlanFollows
<1>4. CASE BgEnds
  <2> DEFINE up == booted \ top.downs
             s == below(stack)
  <2>1. stack # <<>> /\ top.job = "bg" /\ UNCHANGED reported
    BY <1>4 DEF BgEnds, Running
  <2>2. bgAt(stack) = {Len(stack)}
    BY <2>1, BgOnTop
  <2>3. /\ s \in Seq(Frame)
        /\ CommandsQuiet(s)
        /\ bgAt(s) = {}
        /\ dropped(s) = {}
        /\ dropped(stack) = top.downs
    BY <1>0, <2>1, <2>2, PoppedFacts DEF top
  <2>4. Followed(reported', events, up \ dropped(s)) /\ up \in SUBSET Nodes
    <3>1. up \ dropped(s) = booted \ dropped(stack)
      BY <2>3
    <3> HIDE DEF up
    <3> QED BY <1>0, <2>1, <3>1 DEF up
  <2>5. CASE planBgProcess(events, up, FALSE, s)
    <3>1. FALSE \in BOOLEAN
      OBVIOUS
    <3> HIDE DEF up, s
    <3> QED BY <1>0, <2>3, <2>4, <2>5, <3>1, PlanFollows
  <2>6. CASE booted' = up /\ stack' = s /\ UNCHANGED events
    <3> HIDE DEF up, s
    <3>1. up \ dropped(s) = booted' \ dropped(stack')
      BY <2>6
    <3> QED BY <1>0, <2>4, <2>6, <3>1 DEF ReportsFollowed
  <2> QED BY <1>4, <2>5, <2>6 DEF BgEnds
<1>5. ASSUME NEW n \in Nodes, Announce(n) PROVE ReportsFollowed'
  <2> DEFINE f == [top EXCEPT !.todo = @ \ {n}, !.labels = notified(n) \ completed(n)]
  <2>1. stack # <<>> /\ top.job = "bg" /\ stack' = replaceTop(f) /\ UNCHANGED status
    BY <1>5 DEF Announce, Running
  <2>2. bgAt(stack) = {Len(stack)} /\ top \in Frame
    BY <2>1, BgOnTop
  <2>3. f \in Frame /\ f.job = "bg" /\ f.downs = top.downs
    BY <2>1, <2>2 DEF Frame, notified, IInv, TypeOK
  <2> HIDE DEF f
  <2>4. f.labels \subseteq Tasks
    BY <2>3 DEF Frame
  <2> QED BY <1>0, <2>1, <2>2, <2>3, <2>4, ReplacedBg, FollowedStep DEF top
<1>6. ASSUME NEW t \in Tasks, SendLabel(t) PROVE ReportsFollowed'
  <2> DEFINE f == [top EXCEPT !.labels = @ \ {t}, !.sending = t]
  <2>1. stack # <<>> /\ top.job = "bg" /\ stack' = replaceTop(f) /\ UNCHANGED status
    BY <1>6 DEF SendLabel, Running
  <2>2. bgAt(stack) = {Len(stack)} /\ top \in Frame
    BY <2>1, BgOnTop
  <2>3. f \in Frame /\ f.job = "bg" /\ f.downs = top.downs
    BY <2>1, <2>2 DEF Frame
  <2> HIDE DEF f
  <2>4. f.labels \subseteq Tasks
    BY <2>3 DEF Frame
  <2> QED BY <1>0, <2>1, <2>2, <2>3, <2>4, ReplacedBg, FollowedStep DEF top
<1>7. CASE ClientAnswers
  <2>1. stack # <<>> /\ UNCHANGED status
    BY <1>7 DEF ClientAnswers
  <2>2. CASE top.job = "bg"
    <3> DEFINE f == [top EXCEPT !.sending = NoTask]
    <3>1. stack' = replaceTop(f)
      BY <1>7, <2>2 DEF ClientAnswers
    <3>2. bgAt(stack) = {Len(stack)} /\ top \in Frame
      BY <2>1, <2>2, BgOnTop
    <3>3. f \in Frame /\ f.job = "bg" /\ f.downs = top.downs
      BY <2>2, <3>2 DEF Frame
    <3> HIDE DEF f
    <3>4. f.labels \subseteq Tasks
      BY <3>3 DEF Frame
    <3> QED BY <1>0, <2>1, <3>1, <3>2, <3>3, <3>4, ReplacedBg, FollowedStep DEF top
  <2>3. CASE top.job # "bg"
    <3>1. stack' = below(stack)
      BY <1>7, <2>3 DEF ClientAnswers
    <3>2. Len(stack) \in DOMAIN stack
      BY <1>0, <2>1
    <3>3. top.downs = {}
      BY <1>0, <2>3, <3>2 DEF CommandsQuiet, top
    <3> QED BY <1>0, <2>1, <3>1, <3>3, PoppedFacts, FollowedStep DEF top
  <2> QED BY <2>2, <2>3
<1>8. ASSUME NEW t \in Tasks, NEW nodes \in SUBSET Nodes, Register(t, nodes),
             UNCHANGED status
      PROVE  ReportsFollowed'
  BY <1>0, <1>8, PushedCall, FollowedStep, NodeWaitAssumption DEF Register
<1>9. ASSUME NEW t \in Tasks, NEW nodes \in SUBSET Nodes, Wait(t, nodes)
      PROVE  ReportsFollowed'
  <2>1. UNCHANGED status /\ nodes \ booted \in SUBSET Nodes
    BY <1>9 DEF Wait
  <2>2. CASE UNCHANGED stack
    BY <2>1, <2>2, FollowedStep
  <2>3. CASE Register(t, nodes \ booted)
    BY <1>8, <2>1, <2>3
  <2>4. CASE stack' = Append(stack, call("wake", t))
    BY <1>0, <2>1, <2>4, PushedCall, FollowedStep, NodeWaitAssumption
  <2> QED BY <1>9, <2>2, <2>3, <2>4 DEF Wait
<1>10. ASSUME NEW t \in Tasks, NEW woken \in SUBSET Nodes, WakeUpEnds(t, woken)
       PROVE  ReportsFollowed'
  <2>1. Register(t, view[t].notBooted) /\ UNCHANGED status
    BY <1>10 DEF WakeUpEnds
  <2>2. view[t].notBooted \in SUBSET Nodes
    BY DEF IInv, TypeOK, View
  <2> QED BY <1>8, <2>1, <2>2
<1>11. CASE UNCHANGED vars
  <2>1. UNCHANGED <<status, stack>>
    BY <1>11 DEF vars, status
  <2> QED BY <2>1, FollowedStep
<1> QED BY <1>1, <1>2, <1>3, <1>4, <1>5, <1>6, <1>7, <1>9, <1>10, <1>11
        DEF Next, Reports, Commands, Resumes

LEMMA FollowedInit == Init => ReportsFollowed
<1> SUFFICES ASSUME Init PROVE ReportsFollowed
  OBVIOUS
<1>0. DOMAIN events = {}
  BY DEF Init
<1>1. \A n \in Nodes : about(events, n) = {}
  BY <1>0 DEF about
<1> QED BY <1>1 DEF Init, ReportsFollowed, HasLast, Followed

-----------------------------------------------------------------------------
(***************************************************************************)
(* Theorems.                                                               *)
(***************************************************************************)

\* The variables keep their types: any number of nested loops is a stack of
\* well-formed handlers.
THEOREM TypeCorrect == Spec => []TypeOK
<1>1. IInv => TypeOK
  BY DEF IInv
<1> QED BY <1>1, InvariantHolds, PTL

\* At most one background process is under way, whatever runs in the nested
\* loops (the guard on _bg_processing in _bg_process and _plan_bg_process).
THEOREM BgSerialized == Spec => []OneBgProcess
<1>1. IInv => OneBgProcess
  BY DEF IInv
<1> QED BY <1>1, InvariantHolds, PTL

\* flush() finds the task of every message it sends, even those it sends after a
\* call during which other handlers ran (wait.py, flush).
THEOREM FlushFindsTasks == Spec => []LabelsSendable
<1>1. IInv => LabelsSendable
  BY DEF IInv
<1> QED BY <1>1, InvariantHolds, PTL

\* The tables of WaitInfo agree (node_bootup_event, wf_wait).
THEOREM TablesAgree == Spec => []WaitTablesAgree
<1>1. IInv => WaitTablesAgree
  BY DEF IInv
<1> QED BY <1>1, InvariantHolds, PTL

\* Nobody awaits a node whose boot was announced already, unless it booted while
\* the command was waking nodes up.
THEOREM NoAnnouncementMissed == Spec => []AwaitedNotBooted
<1>1. IInv => AwaitedNotBooted
  BY DEF IInv
<1> QED BY <1>1, InvariantHolds, PTL

\* Once nothing is pending, the status of each node is what was last reported
\* about it, although downs are applied after the nested loops of the boots.
THEOREM StatusFollowsReports == Spec => []StatusIsLastReport
<1>1. IInv /\ ReportsFollowed => StatusIsLastReport
  <2> SUFFICES ASSUME IInv, ReportsFollowed, events = <<>>, bgFrames = {}
               PROVE  booted = reported
    BY DEF StatusIsLastReport
  <2>1. dropped(stack) = {}
    BY DEF IInv, CommandsQuiet, bgFrames, dropped
  <2>2. \A n \in Nodes : about(events, n) = {}
    BY DEF about
  <2>3. booted \subseteq Nodes /\ reported \subseteq Nodes
    BY DEF IInv, TypeOK
  <2> QED BY <2>1, <2>2, <2>3 DEF ReportsFollowed, Followed
<1> QED BY <1>1, InvariantHolds, FollowedInit, FollowedNext, PTL DEF Spec

=============================================================================
