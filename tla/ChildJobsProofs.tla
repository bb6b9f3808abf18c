-------------------------- MODULE ChildJobsProofs --------------------------
(***************************************************************************)
(* The tree of jobs, for any jobs, pages, links, rules and workers: child  *)
(* jobs are unique and start with their seed, frontiers follow the rules,  *)
(* recorded links tell where their targets went, and a child is born of a  *)
(* running parent.                                                         *)
(***************************************************************************)
EXTENDS ChildJobsInvariant, TLAPS

-----------------------------------------------------------------------------
(* Types.                                                                  *)

(* The fields of LinkDone. *)
DoneWith(w, inserted, child) ==
  LET done == LinkDone(w, inserted, child)
  IN  /\ Head(worker[w].left) \in Pages
      /\ done \in WorkerState
      /\ done.job = worker[w].job
      /\ done.spawned = worker[w].spawned
      /\ done.rows = worker[w].rows \cup inserted
      /\ done.edges = worker[w].edges \cup
           {[job |-> worker[w].job, source |-> worker[w].page,
             target |-> Head(worker[w].left), child |-> child]}

LEMMA LinkDoneFields ==
  ASSUME TypeOK, NEW w \in Workers, Linking(w), HoldsItsRow(w), worker[w].left # <<>>,
         NEW inserted \in SUBSET (Jobs \X Pages), NEW child \in Jobs \cup {NoJob}
  PROVE  DoneWith(w, inserted, child)
  <1>1. worker[w] \in WorkerState
    BY DEF TypeOK
  <1>2. worker[w].left \in Seq(Pages) /\ worker[w].job \in Jobs /\ worker[w].page \in Pages
    BY <1>1 DEF WorkerState, HoldsItsRow, Linking
  <1>3. Head(worker[w].left) \in Pages /\ Tail(worker[w].left) \in Seq(Pages)
    BY <1>2
  <1> DEFINE edge == [job |-> worker[w].job, source |-> worker[w].page,
                      target |-> Head(worker[w].left), child |-> child]
  <1>4. edge \in Edge
    BY <1>2, <1>3 DEF Edge
  <1> QED
    BY <1>1, <1>3, <1>4 DEF DoneWith, LinkDone, WorkerState

LEMMA TypeKept == TypeOK /\ LocksOK /\ [Next]_vars => TypeOK'
  <1> SUFFICES ASSUME TypeOK, LocksOK, [Next]_vars PROVE TypeOK'
    OBVIOUS
  <1> USE TreeAssumption
  <1>1. ASSUME NEW w \in Workers, NEW j \in Jobs, NEW p \in Pages, Claim(w, j, p) PROVE TypeOK'
    <2>1. worker[w] \in WorkerState
      BY DEF TypeOK
    <2>2. [worker[w] EXCEPT !.pc = "fetching", !.job = j, !.page = p] \in WorkerState
      BY <2>1 DEF WorkerState
    <2>3. row' \in [Jobs -> [Pages -> RowStatuses]]
      BY <1>1 DEF Claim, TypeOK, RowStatuses
    <2> QED
      BY <1>1, <2>2, <2>3 DEF Claim, TypeOK
  <1>2. ASSUME NEW w \in Workers, LockJob(w) PROVE TypeOK'
    <2>1. Links[worker[w].page] \in Seq(Pages)
      BY <1>2 DEF LockJob, LocksOK, HoldsItsRow
    <2>2. worker[w] \in WorkerState
      BY DEF TypeOK
    <2>3. [worker[w] EXCEPT !.pc = "linking", !.left = Links[worker[w].page]] \in WorkerState
      BY <2>1, <2>2 DEF WorkerState
    <2> QED
      BY <1>2, <2>3 DEF LockJob, TypeOK
  <1>3. ASSUME NEW w \in Workers, FollowLink(w) PROVE TypeOK'
    <2> DEFINE inserted == LocalRow(worker[w].job, Head(worker[w].left))
    <2>1. inserted \in SUBSET (Jobs \X Pages)
      BY <1>3 DEF FollowLink, LocalRow, LocksOK, HoldsItsRow, Linking
    <2>2. LinkDone(w, inserted, NoJob) \in WorkerState
      BY <1>3, <2>1, LinkDoneFields DEF DoneWith, FollowLink, LocksOK
    <2>3. worker' = [worker EXCEPT ![w] = LinkDone(w, inserted, NoJob)]
      BY <1>3 DEF FollowLink
    <2> HIDE DEF inserted
    <2> QED
      BY <1>3, <2>2, <2>3 DEF FollowLink, TypeOK
  <1>4. ASSUME NEW w \in Workers, JoinChild(w) PROVE TypeOK'
    <2> DEFINE p == Head(worker[w].left)
    <2>1. PICK c \in ChildrenFound(w, p) :
            worker' = [worker EXCEPT ![w] = LinkDone(w, SeedRow(c, p), c)]
      BY <1>4 DEF JoinChild
    <2>2. c \in Jobs /\ SeedRow(c, p) \in SUBSET (Jobs \X Pages)
      BY <1>4 DEF JoinChild, ChildrenFound, SeedRow, Spawns
    <2>3. LinkDone(w, SeedRow(c, p), c) \in WorkerState
      BY <1>4, <2>2, LinkDoneFields DEF DoneWith, JoinChild, LocksOK
    <2> HIDE DEF p
    <2> QED
      BY <1>4, <2>1, <2>3 DEF JoinChild, TypeOK
  <1>5. ASSUME NEW w \in Workers, LockKey(w) PROVE TypeOK'
    <2> DEFINE p == Head(worker[w].left)
    <2>1. worker[w] \in WorkerState /\ p \in Pages
      BY <1>5 DEF LockKey, TypeOK, Spawns
    <2>2. [worker[w] EXCEPT !.keys = @ \cup {p}] \in WorkerState
      BY <2>1 DEF WorkerState
    <2>3. worker' = [worker EXCEPT ![w] = [worker[w] EXCEPT !.keys = @ \cup {p}]]
      BY <1>5 DEF LockKey
    <2> HIDE DEF p
    <2> QED
      BY <1>5, <2>2, <2>3 DEF LockKey, TypeOK
  <1>6. ASSUME NEW w \in Workers, SpawnChild(w) PROVE TypeOK'
    <2> DEFINE p == Head(worker[w].left)
    <2>1. PICK c \in Jobs :
            worker' = [worker EXCEPT
              ![w] = [LinkDone(w, SeedRow(c, p), c) EXCEPT !.spawned = @ \cup {<<c, p>>}]]
      BY <1>6 DEF SpawnChild
    <2>2. p \in Pages /\ SeedRow(c, p) \in SUBSET (Jobs \X Pages)
      BY <1>6 DEF SpawnChild, SeedRow, Spawns
    <2>3. LinkDone(w, SeedRow(c, p), c) \in WorkerState
      BY <1>6, <2>2, LinkDoneFields DEF DoneWith, SpawnChild, LocksOK
    <2>4. [LinkDone(w, SeedRow(c, p), c) EXCEPT !.spawned = @ \cup {<<c, p>>}] \in WorkerState
      <3> SUFFICES ASSUME NEW s \in WorkerState
                   PROVE  [s EXCEPT !.spawned = @ \cup {<<c, p>>}] \in WorkerState
        BY <2>3
      <3>1. {<<c, p>>} \in SUBSET (Jobs \X Pages)
        BY <2>2
      <3> HIDE DEF p
      <3> QED
        BY <3>1 DEF WorkerState
    <2> HIDE DEF p
    <2> QED
      BY <1>6, <2>1, <2>4 DEF SpawnChild, TypeOK
  <1>7. ASSUME NEW w \in Workers, CommitPage(w) PROVE TypeOK'
    <2>1. \A c \in Jobs : job'[c] \in Job
      <3> SUFFICES ASSUME NEW c \in Jobs PROVE job'[c] \in Job
        OBVIOUS
      <3>1. CASE \E p \in Pages : <<c, p>> \in worker[w].spawned
        <4>1. PICK p \in Pages : p = CHOOSE q \in Pages : <<c, q>> \in worker[w].spawned
          BY <3>1
        <4>2. job'[c] = BornJob(w, p)
          BY <1>7, <3>1, <4>1 DEF CommitPage
        <4>3. worker[w].job \in Jobs
          BY <1>7 DEF CommitPage, LocksOK, HoldsItsRow, Linking
        <4>4. BornJob(w, p) \in Job
          BY <4>3 DEF BornJob, Job
        <4> QED
          BY <4>2, <4>4
      <3>2. CASE ~ \E p \in Pages : <<c, p>> \in worker[w].spawned
        BY <1>7, <3>2 DEF CommitPage, TypeOK
      <3> QED
        BY <3>1, <3>2
    <2>2. job' \in [Jobs -> Job]
      BY <1>7, <2>1, Zenon DEF CommitPage
    <2>3. row' \in [Jobs -> [Pages -> RowStatuses]]
      BY <1>7 DEF CommitPage, TypeOK, RowStatuses
    <2>4. discoveries' \in SUBSET Edge /\ worker' \in [Workers -> WorkerState]
      BY <1>7 DEF CommitPage, TypeOK, WorkerState, IdleWorker
    <2> QED
      BY <1>7, <2>2, <2>3, <2>4 DEF CommitPage, TypeOK
  <1>8. ASSUME NEW w \in Workers, GiveUp(w) PROVE TypeOK'
    <2>1. IdleWorker \in WorkerState
      BY DEF IdleWorker, WorkerState
    <2>2. row' \in [Jobs -> [Pages -> RowStatuses]]
      <3>1. PICK status \in {"queued", "failed"} :
              row' = [row EXCEPT ![worker[w].job][worker[w].page] = status]
        BY <1>8 DEF GiveUp
      <3>2. worker[w].job \in Jobs /\ worker[w].page \in Pages
        BY <1>8 DEF GiveUp, LocksOK, HoldsItsRow
      <3> QED
        BY <3>1, <3>2 DEF TypeOK, RowStatuses
    <2> QED
      BY <1>8, <2>1, <2>2 DEF GiveUp, TypeOK
  <1>9. ASSUME NEW j \in Jobs, ReadTree(j) PROVE TypeOK'
    BY <1>9 DEF ReadTree, TypeOK, Cancel, JobTree
  <1>10. CASE WriteJobs \/ AbortCancel
    <2>1. NoCancel \in Cancel /\ [cancel EXCEPT !.pc = "written"] \in Cancel
      BY DEF NoCancel, TypeOK, Cancel
    <2> QED
      BY <1>10, <2>1 DEF WriteJobs, AbortCancel, TypeOK
  <1>11. CASE CommitCancel
    <2>1. \A j \in Jobs : [job[j] EXCEPT !.status = "canceling"] \in Job
      BY DEF TypeOK, Job
    <2>2. job' \in [Jobs -> Job]
      BY <1>11, <2>1 DEF CommitCancel, TypeOK
    <2>3. row' \in [Jobs -> [Pages -> RowStatuses]]
      BY <1>11 DEF CommitCancel, WaitingCanceled, TypeOK, RowStatuses
    <2> QED
      BY <1>11, <2>2, <2>3 DEF CommitCancel, TypeOK, Cancel, NoCancel
  <1>12. CASE Tick
    <2>1. \A j \in Jobs : /\ [job[j] EXCEPT !.status = "canceled"] \in Job
                          /\ [job[j] EXCEPT !.status = "completed"] \in Job
                          /\ job[j] \in Job
      BY DEF TypeOK, Job
    <2>3. job' \in [Jobs -> Job]
      BY <1>12, <2>1 DEF Tick
    <2>4. row' \in [Jobs -> [Pages -> RowStatuses]]
      BY <1>12 DEF Tick, WaitingCanceled, TypeOK, RowStatuses
    <2> QED
      BY <1>12, <2>3, <2>4 DEF Tick, TypeOK
  <1>13. CASE UNCHANGED vars
    BY <1>13 DEF vars, TypeOK
  <1> QED
    BY <1>1, <1>2, <1>3, <1>4, <1>5, <1>6, <1>7, <1>8, <1>9, <1>10, <1>11, <1>12, <1>13
    DEF Next, Record

-----------------------------------------------------------------------------
(* What a step leaves alone.                                               *)

Framed ==
  /\ \A j \in Jobs : /\ job'[j].parent = job[j].parent
                     /\ job'[j].seed = job[j].seed
                     /\ Exists(j)' <=> Exists(j)
  /\ \A j \in Jobs, p \in Pages : row'[j][p] = "absent" <=> row[j][p] = "absent"
  /\ discoveries' = discoveries

(* Only a commit of a page adds jobs, rows and links. *)
LEMMA OnlyCommitsAdd ==
  ASSUME TypeOK, LocksOK, [Next]_vars, \A w \in Workers : ~CommitPage(w)
  PROVE  Framed
  <1>1. ASSUME UNCHANGED <<job, row, discoveries>> PROVE Framed
    BY <1>1 DEF Framed, Exists
  <1>2. ASSUME NEW w \in Workers, NEW j \in Jobs, NEW p \in Pages, Claim(w, j, p) PROVE Framed
    BY <1>2 DEF Claim, Framed, Exists, TypeOK
  <1>3. ASSUME NEW w \in Workers,
               LockJob(w) \/ FollowLink(w) \/ JoinChild(w) \/ LockKey(w) \/ SpawnChild(w)
        PROVE  Framed
    BY <1>1, <1>3 DEF LockJob, FollowLink, JoinChild, LockKey, SpawnChild
  <1>4. ASSUME NEW w \in Workers, GiveUp(w) PROVE Framed
    <2>1. PICK status \in {"queued", "failed"} :
            row' = [row EXCEPT ![worker[w].job][worker[w].page] = status]
      BY <1>4 DEF GiveUp
    <2>2. worker[w].job \in Jobs /\ worker[w].page \in Pages
            /\ row[worker[w].job][worker[w].page] = "active"
      BY <1>4 DEF GiveUp, LocksOK, HoldsItsRow
    <2> QED
      BY <1>4, <2>1, <2>2 DEF GiveUp, Framed, Exists, TypeOK
  <1>5. ASSUME NEW j \in Jobs, ReadTree(j) PROVE Framed
    BY <1>1, <1>5 DEF ReadTree
  <1>6. CASE WriteJobs \/ AbortCancel \/ UNCHANGED vars
    BY <1>1, <1>6 DEF WriteJobs, AbortCancel, vars
  <1>7. CASE CommitCancel
    <2>1. \A j \in Jobs : job[j] \in Job
      BY DEF TypeOK
    <2> QED
      BY <1>7, <2>1 DEF CommitCancel, WaitingCanceled, Framed, Exists, Running, Job
  <1>8. CASE Tick
    <2>1. \A j \in Jobs : job[j] \in Job
      BY DEF TypeOK
    <2>2. \A j \in Jobs : /\ job'[j].parent = job[j].parent
                         /\ job'[j].seed = job[j].seed
                         /\ Exists(j)' <=> Exists(j)
      BY <1>8, <2>1 DEF Tick, Exists, Running, Job
    <2>3. \A j \in Jobs, p \in Pages : row'[j][p] = "absent" <=> row[j][p] = "absent"
      BY <1>8 DEF Tick, WaitingCanceled
    <2> QED
      BY <1>8, <2>2, <2>3 DEF Tick, Framed
  <1> QED
    BY <1>2, <1>3, <1>4, <1>5, <1>6, <1>7, <1>8 DEF Next, Record

LEMMA CommittedFramed == TypeOK /\ CommittedOK /\ Framed => CommittedOK'
  <1> SUFFICES ASSUME TypeOK, CommittedOK, Framed PROVE CommittedOK'
    OBVIOUS
  <1> USE DEF CommittedOK, Framed
  <1>1. RootExists' /\ TreeOK'
    BY TreeAssumption DEF RootExists, TreeOK
  <1>2. ChildJobsUnique'
    BY DEF ChildJobsUnique
  <1>3. JobsHaveTheirSeed'
    <2>1. \A j \in Jobs : Exists(j) => job[j].seed \in Pages
      BY TreeAssumption DEF TreeOK
    <2> QED
      BY <2>1 DEF JobsHaveTheirSeed
  <1>4. FrontierFollowsTheRules'
    BY DEF FrontierFollowsTheRules, Spawns
  <1>5. LinksTellTheirTarget'
    <2>1. \A d \in discoveries : d.job \in Jobs /\ d.target \in Pages
                                /\ (d.child # NoJob => d.child \in Jobs)
      BY DEF TypeOK, Edge
    <2> QED
      BY <2>1 DEF LinksTellTheirTarget
  <1> QED
    BY <1>1, <1>2, <1>3, <1>4, <1>5

-----------------------------------------------------------------------------
(* Open transactions.                                                      *)

SamePending(w) ==
  /\ worker'[w].job = worker[w].job
  /\ worker'[w].spawned = worker[w].spawned
  /\ worker'[w].rows = worker[w].rows
  /\ worker'[w].edges = worker[w].edges

NothingPending(w) ==
  worker'[w].spawned = {} /\ worker'[w].rows = {} /\ worker'[w].edges = {}

LEMMA WorkerFramed ==
  ASSUME TypeOK, Framed, NEW w \in Workers, SamePending(w) \/ NothingPending(w),
         ChildrenAreNew(w), RowsFollowTheRules(w), EdgesHaveTargets(w)
  PROVE  ChildrenAreNew(w)' /\ RowsFollowTheRules(w)' /\ EdgesHaveTargets(w)'
  <1>1. CASE NothingPending(w)
    BY <1>1 DEF NothingPending, ChildrenAreNew, RowsFollowTheRules, EdgesHaveTargets
  <1>2. CASE SamePending(w)
    <2> USE <1>2 DEF SamePending, Framed
    <2>1. worker[w] \in WorkerState
      BY DEF TypeOK
    <2>2. ChildrenAreNew(w)'
      <3>1. \A s \in worker[w].spawned : s[1] \in Jobs
        BY <2>1 DEF WorkerState
      <3> QED
        BY <3>1 DEF ChildrenAreNew, Spawns
    <2>3. RowsFollowTheRules(w)'
      <3>1. \A r \in worker[w].rows : r[1] \in Jobs
        BY <2>1 DEF WorkerState
      <3> QED
        BY <3>1 DEF RowsFollowTheRules, Spawns
    <2>4. EdgesHaveTargets(w)'
      <3>1. \A e \in worker[w].edges : e.child # NoJob => e.child \in Jobs
        BY <2>1 DEF WorkerState, Edge
      <3> QED
        BY <3>1 DEF EdgesHaveTargets
    <2> QED
      BY <2>2, <2>3, <2>4
  <1> QED
    BY <1>1, <1>2

LEMMA PendingFramed ==
  ASSUME TypeOK, PendingOK, Framed, \A w \in Workers : SamePending(w) \/ NothingPending(w)
  PROVE  PendingOK'
  <1>1. \A w \in Workers : ChildrenAreNew(w)' /\ RowsFollowTheRules(w)' /\ EdgesHaveTargets(w)'
    BY WorkerFramed DEF PendingOK
  <1>2. ChildrenApart'
    BY DEF PendingOK, ChildrenApart, SamePending, NothingPending
  <1> QED
    BY <1>1, <1>2 DEF PendingOK

(* One link of a page: its rows, its edge, and the child it spawned, if any. *)
LinkTaken(w, p, child, inserted, new, source) ==
  /\ \A v \in Workers \ {w} : worker'[v] = worker[v]
  /\ worker'[w].job = worker[w].job
  /\ worker'[w].spawned = worker[w].spawned \cup new
  /\ worker'[w].rows = worker[w].rows \cup inserted
  /\ worker'[w].edges = worker[w].edges \cup
       {[job |-> worker[w].job, source |-> source, target |-> p, child |-> child]}
  /\ \/ new = {}
     \/ /\ new = {<<child, p>>} /\ inserted = new /\ child \in Jobs
        /\ Unused(child) /\ Spawns(p) /\ ChildrenFound(w, p) = {}
  /\ \A r \in inserted : /\ r[2] \in SameHost
                         /\ ~Exists(r[1]) => r \in worker[w].spawned \cup new
                         /\ Spawns(r[2]) /\ Exists(r[1]) => job[r[1]].seed = r[2]
  /\ IF child # NoJob
     THEN \/ <<child, p>> \in worker[w].spawned \cup new
          \/ Exists(child) /\ job[child].parent = worker[w].job /\ job[child].seed = p
     ELSE p \in SameHost => <<worker[w].job, p>> \in inserted

LEMMA LinkKept ==
  ASSUME TypeOK, PendingOK, UNCHANGED <<job, row, discoveries>>, NEW w \in Workers,
         NEW p \in Pages, NEW child \in Jobs \cup {NoJob}, NEW inserted, NEW new, NEW source,
         LinkTaken(w, p, child, inserted, new, source)
  PROVE  PendingOK'
  <1> USE DEF LinkTaken
  <1>0. Framed
    BY DEF Framed, Exists
  <1>1. ASSUME NEW v \in Workers \ {w}
        PROVE  ChildrenAreNew(v)' /\ RowsFollowTheRules(v)' /\ EdgesHaveTargets(v)'
    BY <1>0, <1>1, WorkerFramed DEF SamePending, PendingOK
  <1>2. worker[w].spawned \in SUBSET (Jobs \X Pages)
    BY DEF TypeOK, WorkerState
  <1>3. ASSUME new # {}
        PROVE  /\ \A s \in worker[w].spawned : s[1] # child /\ s[2] # p
               /\ \A v \in Workers : \A s \in worker[v].spawned : s[1] # child
    <2>1. \A v \in Workers : worker[v].spawned \in SUBSET (Jobs \X Pages)
      BY DEF TypeOK, WorkerState
    <2>2. \A v \in Workers : \A s \in worker[v].spawned : s[1] # child
      BY <1>3, <2>1 DEF Unused
    <2>3. \A s \in worker[w].spawned : s[2] # p
      BY <1>2, <1>3 DEF ChildrenFound
    <2> QED
      BY <2>2, <2>3
  <1>4. ChildrenAreNew(w)'
    <2>1. CASE new = {}
      BY <2>1 DEF PendingOK, ChildrenAreNew, Exists, Spawns
    <2>2. CASE new # {}
      <3>1. ASSUME NEW d \in Jobs, Exists(d), job[d].parent = worker[w].job
            PROVE  job[d].seed # p
        BY <2>2, <3>1 DEF ChildrenFound
      <3> QED
        BY <1>3, <2>2, <3>1 DEF PendingOK, ChildrenAreNew, Exists, Spawns, Unused
    <2> QED
      BY <2>1, <2>2
  <1>5. RowsFollowTheRules(w)'
    BY DEF PendingOK, RowsFollowTheRules, Exists, Spawns
  <1>6. EdgesHaveTargets(w)'
    <2> DEFINE edge == [job |-> worker[w].job, source |-> source, target |-> p, child |-> child]
    <2> SUFFICES ASSUME NEW e \in worker'[w].edges
                 PROVE  /\ e.job = worker[w].job
                        /\ IF e.child # NoJob
                           THEN \/ <<e.child, e.target>> \in worker'[w].spawned
                                \/ /\ Exists(e.child)
                                   /\ job[e.child].parent = e.job
                                   /\ job[e.child].seed = e.target
                           ELSE e.target \in SameHost => <<e.job, e.target>> \in worker'[w].rows
      BY DEF EdgesHaveTargets, Exists
    <2>1. CASE e \in worker[w].edges
      BY <2>1 DEF PendingOK, EdgesHaveTargets
    <2>2. CASE e = edge
      <3>1. e.job = worker[w].job /\ e.target = p /\ e.child = child
        BY <2>2
      <3> HIDE DEF edge
      <3> QED
        BY <3>1
    <2> QED
      BY <2>1, <2>2
  <1>7. ChildrenApart'
    <2>1. CASE new = {}
      BY <2>1 DEF PendingOK, ChildrenApart
    <2>2. CASE new # {}
      BY <1>3, <2>2 DEF PendingOK, ChildrenApart
    <2> QED
      BY <2>1, <2>2
  <1> QED
    BY <1>1, <1>4, <1>5, <1>6, <1>7 DEF PendingOK

LEMMA OnlyLinksArePending ==
  ASSUME TypeOK, LocksOK, PendingOK, [Next]_vars, \A w \in Workers : ~CommitPage(w)
  PROVE  PendingOK'
  <1>0. Framed
    BY OnlyCommitsAdd
  <1> DEFINE Calm == \A w \in Workers : SamePending(w) \/ NothingPending(w)
  <1>1. Calm => PendingOK'
    BY <1>0, PendingFramed
  <1>2. UNCHANGED worker => Calm
    BY DEF SamePending
  <1>3. ASSUME NEW w \in Workers, NEW j \in Jobs, NEW p \in Pages, Claim(w, j, p) PROVE Calm
    <2>1. ASSUME NEW v \in Workers \ {w} PROVE SamePending(v)
      BY <1>3, <2>1 DEF Claim, SamePending, TypeOK
    <2>2. NothingPending(w)
      BY <1>3 DEF Claim, NothingPending, TypeOK, LocksOK, HoldsItsRow, Linking, WorkerState
    <2> QED
      BY <2>1, <2>2
  <1>4. ASSUME NEW w \in Workers, LockJob(w) \/ LockKey(w) PROVE Calm
    <2>1. worker[w] \in WorkerState /\ worker \in [Workers -> WorkerState]
      BY DEF TypeOK
    <2>2. ASSUME NEW v \in Workers \ {w} PROVE SamePending(v)
      BY <1>4, <2>1 DEF LockJob, LockKey, SamePending
    <2>3. SamePending(w)
      <3>1. \/ worker'[w] = [worker[w] EXCEPT !.pc = "linking", !.left = Links[worker[w].page]]
            \/ \E keys : worker'[w] = [worker[w] EXCEPT !.keys = keys]
        BY <1>4, <2>1 DEF LockJob, LockKey
      <3> QED
        BY <2>1, <3>1 DEF SamePending, WorkerState
    <2> QED
      BY <2>2, <2>3
  <1>5. ASSUME NEW w \in Workers, GiveUp(w) PROVE Calm
    BY <1>5 DEF GiveUp, SamePending, NothingPending, IdleWorker, TypeOK
  <1>6. ASSUME NEW w \in Workers, FollowLink(w) PROVE PendingOK'
    <2> DEFINE p == Head(worker[w].left)
               inserted == LocalRow(worker[w].job, p)
    <2>1. worker[w].job \in Jobs /\ Exists(worker[w].job)
      BY <1>6 DEF FollowLink, LocksOK, HoldsItsRow, Linking
    <2>2. inserted \in SUBSET (Jobs \X Pages)
      BY <2>1, TreeAssumption DEF LocalRow
    <2>3. worker' = [worker EXCEPT ![w] = LinkDone(w, inserted, NoJob)] /\ ~Spawns(p)
      BY <1>6 DEF FollowLink
    <2>4. \A r \in inserted : r = <<worker[w].job, p>> /\ p \in SameHost
      BY DEF LocalRow
    <2>5. p \in SameHost => <<worker[w].job, p>> \in inserted
      BY DEF LocalRow
    <2>6. HoldsItsRow(w) /\ Linking(w) /\ worker[w].left # <<>>
      BY <1>6 DEF FollowLink, LocksOK
    <2>7. worker \in [Workers -> WorkerState]
      BY DEF TypeOK
    <2>8. UNCHANGED <<job, row, discoveries>>
      BY <1>6 DEF FollowLink
    <2> HIDE DEF p, inserted
    <2>9. /\ p \in Pages
          /\ \A v \in Workers \ {w} : worker'[v] = worker[v]
          /\ worker'[w] = LinkDone(w, inserted, NoJob)
      BY <2>2, <2>3, <2>6, <2>7, LinkDoneFields DEF DoneWith, p
    <2>10. /\ worker'[w].job = worker[w].job
           /\ worker'[w].spawned = worker[w].spawned \cup {}
           /\ worker'[w].rows = worker[w].rows \cup inserted
           /\ worker'[w].edges = worker[w].edges \cup
                {[job |-> worker[w].job, source |-> worker[w].page, target |-> p, child |-> NoJob]}
      <3>1. NoJob \in Jobs \cup {NoJob}
        OBVIOUS
      <3>2. DoneWith(w, inserted, NoJob)
        BY <2>2, <2>6, <3>1, LinkDoneFields
      <3> QED
        BY <2>9, <3>2 DEF DoneWith, p
    <2>11. LinkTaken(w, p, NoJob, inserted, {}, worker[w].page)
      BY <2>1, <2>3, <2>4, <2>5, <2>9, <2>10 DEF LinkTaken
    <2> QED
      BY <2>8, <2>9, <2>11, LinkKept
  <1>7. ASSUME NEW w \in Workers, JoinChild(w) PROVE PendingOK'
    <2> DEFINE p == Head(worker[w].left)
    <2>1. PICK c \in ChildrenFound(w, p) :
            worker' = [worker EXCEPT ![w] = LinkDone(w, SeedRow(c, p), c)]
      BY <1>7 DEF JoinChild
    <2>2. c \in Jobs /\ c # NoJob /\ SeedRow(c, p) = {<<c, p>>} /\ p \in SameHost /\ p \in Pages
      BY <1>7, TreeAssumption DEF JoinChild, ChildrenFound, SeedRow, Spawns
    <2>3. \/ Exists(c) /\ job[c].parent = worker[w].job /\ job[c].seed = p
          \/ <<c, p>> \in worker[w].spawned
      BY DEF ChildrenFound
    <2>6. HoldsItsRow(w) /\ Linking(w) /\ worker[w].left # <<>>
      BY <1>7 DEF JoinChild, LocksOK
    <2>7. worker \in [Workers -> WorkerState]
      BY DEF TypeOK
    <2>8. UNCHANGED <<job, row, discoveries>>
      BY <1>7 DEF JoinChild
    <2> HIDE DEF p
    <2>9. /\ \A v \in Workers \ {w} : worker'[v] = worker[v]
          /\ worker'[w] = LinkDone(w, {<<c, p>>}, c)
      BY <2>1, <2>2, <2>7
    <2>10. /\ worker'[w].job = worker[w].job
           /\ worker'[w].spawned = worker[w].spawned \cup {}
           /\ worker'[w].rows = worker[w].rows \cup {<<c, p>>}
           /\ worker'[w].edges = worker[w].edges \cup
                {[job |-> worker[w].job, source |-> worker[w].page, target |-> p, child |-> c]}
      <3>1. {<<c, p>>} \in SUBSET (Jobs \X Pages)
        BY <2>2
      <3>2. DoneWith(w, {<<c, p>>}, c)
        BY <2>2, <2>6, <3>1, LinkDoneFields
      <3> QED
        BY <2>9, <3>2 DEF DoneWith, p
    <2>11. \A r \in {<<c, p>>} : /\ r[2] \in SameHost
                                 /\ ~Exists(r[1]) => r \in worker[w].spawned \cup {}
                                 /\ Spawns(r[2]) /\ Exists(r[1]) => job[r[1]].seed = r[2]
      <3>1. Exists(c) => ~ (<<c, p>> \in worker[w].spawned)
        BY DEF PendingOK, ChildrenAreNew
      <3> QED
        BY <2>2, <2>3, <3>1
    <2>12. LinkTaken(w, p, c, {<<c, p>>}, {}, worker[w].page)
      BY <2>2, <2>3, <2>9, <2>10, <2>11 DEF LinkTaken
    <2> QED
      BY <2>2, <2>8, <2>12, LinkKept
  <1>8. ASSUME NEW w \in Workers, SpawnChild(w) PROVE PendingOK'
    <2> DEFINE p == Head(worker[w].left)
    <2>1. PICK c \in Jobs :
            /\ Unused(c)
            /\ worker' = [worker EXCEPT
                 ![w] = [LinkDone(w, SeedRow(c, p), c) EXCEPT !.spawned = @ \cup {<<c, p>>}]]
      BY <1>8 DEF SpawnChild
    <2>2. /\ c # NoJob /\ SeedRow(c, p) = {<<c, p>>} /\ Spawns(p) /\ p \in SameHost /\ p \in Pages
          /\ ChildrenFound(w, p) = {}
      BY <1>8, TreeAssumption DEF SpawnChild, SeedRow, Spawns
    <2>6. HoldsItsRow(w) /\ Linking(w) /\ worker[w].left # <<>>
      BY <1>8 DEF SpawnChild, LocksOK
    <2>7. worker \in [Workers -> WorkerState]
      BY DEF TypeOK
    <2>8. UNCHANGED <<job, row, discoveries>>
      BY <1>8 DEF SpawnChild
    <2> HIDE DEF p
    <2>9. /\ \A v \in Workers \ {w} : worker'[v] = worker[v]
          /\ worker'[w] = [LinkDone(w, {<<c, p>>}, c) EXCEPT !.spawned = @ \cup {<<c, p>>}]
      BY <2>1, <2>2, <2>7
    <2>10. /\ worker'[w].job = worker[w].job
           /\ worker'[w].spawned = worker[w].spawned \cup {<<c, p>>}
           /\ worker'[w].rows = worker[w].rows \cup {<<c, p>>}
           /\ worker'[w].edges = worker[w].edges \cup
                {[job |-> worker[w].job, source |-> worker[w].page, target |-> p, child |-> c]}
      <3>1. {<<c, p>>} \in SUBSET (Jobs \X Pages)
        BY <2>2
      <3> DEFINE done == LinkDone(w, {<<c, p>>}, c)
      <3>2. /\ done \in WorkerState /\ done.job = worker[w].job
            /\ done.spawned = worker[w].spawned
            /\ done.rows = worker[w].rows \cup {<<c, p>>}
            /\ done.edges = worker[w].edges \cup
                 {[job |-> worker[w].job, source |-> worker[w].page, target |-> p, child |-> c]}
        <4>1. DoneWith(w, {<<c, p>>}, c)
          BY <2>2, <2>6, <3>1, LinkDoneFields
        <4> QED
          BY <4>1 DEF DoneWith, p
      <3>3. worker'[w] = [done EXCEPT !.spawned = @ \cup {<<c, p>>}]
        BY <2>9
      <3> HIDE DEF done
      <3> QED
        BY <3>2, <3>3 DEF WorkerState
    <2>11. \A r \in {<<c, p>>} : /\ r[2] \in SameHost
                                 /\ ~Exists(r[1]) => r \in worker[w].spawned \cup {<<c, p>>}
                                 /\ Spawns(r[2]) /\ Exists(r[1]) => job[r[1]].seed = r[2]
      BY <2>1, <2>2 DEF Unused
    <2>12. LinkTaken(w, p, c, {<<c, p>>}, {<<c, p>>}, worker[w].page)
      BY <2>1, <2>2, <2>9, <2>10, <2>11 DEF LinkTaken
    <2> QED
      BY <2>2, <2>8, <2>12, LinkKept
  <1>9. CASE UNCHANGED vars
    BY <1>1, <1>2, <1>9 DEF vars
  <1>10. ASSUME ~ UNCHANGED vars, \A w \in Workers : ~FollowLink(w) /\ ~JoinChild(w) /\ ~SpawnChild(w)
         PROVE  Calm
    <2>1. ASSUME NEW j \in Jobs, ReadTree(j) PROVE Calm
      BY <1>2, <2>1 DEF ReadTree
    <2>2. ASSUME WriteJobs \/ CommitCancel \/ AbortCancel \/ Tick PROVE Calm
      BY <1>2, <2>2 DEF WriteJobs, CommitCancel, AbortCancel, Tick
    <2> HIDE DEF Calm
    <2> QED
      BY <1>3, <1>4, <1>5, <1>10, <2>1, <2>2 DEF Next, Record
  <1> HIDE DEF Calm
  <1> QED
    BY <1>1, <1>6, <1>7, <1>8, <1>9, <1>10

-----------------------------------------------------------------------------
(* The commit of a page.                                                   *)

Born(w, c) == \E p \in Pages : <<c, p>> \in worker[w].spawned

(* Each job is as it was or born with the page it was spawned for. *)
LEMMA JobsOfCommit ==
  ASSUME TypeOK, LocksOK, PendingOK, NEW w \in Workers, CommitPage(w)
  PROVE  /\ worker[w].job \in Jobs /\ Exists(worker[w].job) /\ ~Born(w, worker[w].job)
         /\ \A c \in Jobs : ~Born(w, c) => job'[c] = job[c]
         /\ \A c \in Jobs, p \in Pages : <<c, p>> \in worker[w].spawned =>
              ~Exists(c) /\ Exists(c)' /\ job'[c] = BornJob(w, p)
         /\ \A j \in Jobs, p \in Pages :
              row'[j][p] = "absent" <=> row[j][p] = "absent" /\ <<j, p>> \notin worker[w].rows
         /\ discoveries' = discoveries \cup worker[w].edges
         /\ \A v \in Workers \ {w} : worker'[v] = worker[v]
         /\ worker'[w] = IdleWorker
  <1>1. ChildrenAreNew(w) /\ HoldsItsRow(w)
    BY DEF PendingOK, LocksOK
  <1>2. worker[w].job \in Jobs /\ worker[w].page \in Pages /\ Exists(worker[w].job)
          /\ row[worker[w].job][worker[w].page] = "active"
    BY <1>1 DEF CommitPage, HoldsItsRow, Linking
  <1>3. \A c \in Jobs : Born(w, c) => ~Exists(c)
    BY <1>1 DEF ChildrenAreNew, Born
  <1>4. ASSUME NEW c \in Jobs, ~Born(w, c) PROVE job'[c] = job[c]
    BY <1>4 DEF CommitPage, Born
  <1>5. ASSUME NEW c \in Jobs, NEW p \in Pages, <<c, p>> \in worker[w].spawned
        PROVE  ~Exists(c) /\ Exists(c)' /\ job'[c] = BornJob(w, p)
    <2>1. p = CHOOSE q \in Pages : <<c, q>> \in worker[w].spawned
      <3>1. PICK q \in Pages : /\ q = CHOOSE r \in Pages : <<c, r>> \in worker[w].spawned
                              /\ <<c, q>> \in worker[w].spawned
        BY <1>5
      <3>2. <<c, q>>[1] = <<c, p>>[1] => <<c, q>>[2] = <<c, p>>[2]
        BY <1>1, <1>5, <3>1 DEF ChildrenAreNew
      <3> QED
        BY <3>1, <3>2
    <2>2. job'[c] = BornJob(w, p)
      BY <1>5, <2>1 DEF CommitPage
    <2>3. Exists(c)'
      BY <2>2 DEF Exists, BornJob
    <2> QED
      BY <1>3, <1>5, <2>2, <2>3 DEF Born
  <1>6. \A j \in Jobs, p \in Pages :
          row'[j][p] = "absent" <=> row[j][p] = "absent" /\ <<j, p>> \notin worker[w].rows
    BY <1>2 DEF CommitPage
  <1>7. /\ discoveries' = discoveries \cup worker[w].edges
        /\ \A v \in Workers \ {w} : worker'[v] = worker[v]
        /\ worker'[w] = IdleWorker
    BY DEF CommitPage, TypeOK
  <1> QED
    BY <1>2, <1>3, <1>4, <1>5, <1>6, <1>7

(* What exists stays as it was. *)
LEMMA CommitKeepsJobs ==
  ASSUME TypeOK, LocksOK, PendingOK, NEW w \in Workers, CommitPage(w), NEW j \in Jobs, Exists(j)
  PROVE  job'[j] = job[j] /\ Exists(j)'
  <1>1. ~Born(w, j)
    BY JobsOfCommit DEF Born
  <1> QED
    BY <1>1, JobsOfCommit DEF Exists

LEMMA CommitKeepsPending ==
  ASSUME TypeOK, LocksOK, PendingOK, NEW w \in Workers, CommitPage(w)
  PROVE  PendingOK'
  <1>1. ASSUME NEW v \in Workers
        PROVE  ChildrenAreNew(v)' /\ RowsFollowTheRules(v)' /\ EdgesHaveTargets(v)'
    <2>1. CASE v = w
      BY <2>1, JobsOfCommit
      DEF IdleWorker, ChildrenAreNew, RowsFollowTheRules, EdgesHaveTargets
    <2>2. CASE v # w
      <3>0. worker'[v] = worker[v] /\ worker[v] \in WorkerState /\ worker[w] \in WorkerState
        BY <2>2, JobsOfCommit DEF TypeOK
      <3>1. ChildrenAreNew(v) /\ RowsFollowTheRules(v) /\ EdgesHaveTargets(v) /\ HoldsItsRow(v)
        BY DEF PendingOK, LocksOK
      <3>2. \A s \in worker[v].spawned : s[1] \in Jobs /\ ~Born(w, s[1])
        BY <2>2, <3>0 DEF PendingOK, ChildrenApart, Born, WorkerState
      <3>3. ChildrenAreNew(v)'
        <4> SUFFICES ASSUME NEW s \in worker[v].spawned
                     PROVE  /\ ~Exists(s[1])' /\ Spawns(s[2]) /\ s \in worker[v].rows
                            /\ \A d \in Jobs : Exists(d)' /\ job'[d].parent = worker[v].job
                                 => job'[d].seed # s[2]
                            /\ \A t \in worker[v].spawned : s[1] = t[1] <=> s[2] = t[2]
          BY <3>0 DEF ChildrenAreNew, Spawns
        <4>1. ~Exists(s[1])'
          BY <3>1, <3>2, JobsOfCommit DEF ChildrenAreNew, Exists
        <4>2. worker[v].job # worker[w].job
          BY <2>2, <3>1 DEF HoldsItsRow, LocksOK, WorkersApart, CommitPage
        <4>3. ASSUME NEW d \in Jobs, Exists(d)', job'[d].parent = worker[v].job
              PROVE  job'[d].seed # s[2]
          <5>1. CASE Born(w, d)
            <6>1. PICK p \in Pages : <<d, p>> \in worker[w].spawned
              BY <5>1 DEF Born
            <6>2. job'[d] = BornJob(w, p)
              BY <6>1, JobsOfCommit
            <6> QED
              BY <4>2, <4>3, <6>2 DEF BornJob
          <5>2. CASE ~Born(w, d)
            BY <3>1, <4>3, <5>2, JobsOfCommit DEF ChildrenAreNew, Exists
          <5> QED
            BY <5>1, <5>2
        <4> QED
          BY <3>1, <4>1, <4>3 DEF ChildrenAreNew
      <3>4. RowsFollowTheRules(v)'
        <4> SUFFICES ASSUME NEW r \in worker[v].rows
                     PROVE  /\ r[2] \in SameHost
                            /\ ~Exists(r[1])' => r \in worker[v].spawned
                            /\ Spawns(r[2]) /\ Exists(r[1])' => job'[r[1]].seed = r[2]
          BY <3>0 DEF RowsFollowTheRules, Spawns
        <4>1. r[1] \in Jobs
          BY <3>0 DEF WorkerState
        <4>2. CASE Exists(r[1])
          BY <3>1, <4>1, <4>2, CommitKeepsJobs DEF RowsFollowTheRules
        <4>3. CASE ~Exists(r[1])
          <5>1. r \in worker[v].spawned /\ ~Born(w, r[1])
            BY <3>1, <3>2, <4>3 DEF RowsFollowTheRules
          <5>2. ~Exists(r[1])'
            BY <4>1, <4>3, <5>1, JobsOfCommit DEF Exists
          <5> QED
            BY <3>1, <5>1, <5>2 DEF RowsFollowTheRules
        <4> QED
          BY <4>2, <4>3
      <3>5. EdgesHaveTargets(v)'
        <4>1. \A e \in worker[v].edges : e.child # NoJob => e.child \in Jobs
          BY <3>0 DEF WorkerState, Edge
        <4>2. \A j \in Jobs : Exists(j) => job'[j] = job[j] /\ Exists(j)'
          BY CommitKeepsJobs
        <4> QED
          BY <3>0, <3>1, <4>1, <4>2 DEF EdgesHaveTargets
      <3> QED
        BY <3>3, <3>4, <3>5
    <2> QED
      BY <2>1, <2>2
  <1>2. ChildrenApart'
    <2>1. \A v \in Workers : worker'[v].spawned \subseteq worker[v].spawned
      BY JobsOfCommit DEF IdleWorker
    <2> QED
      BY <2>1 DEF PendingOK, ChildrenApart
  <1> QED
    BY <1>1, <1>2 DEF PendingOK

LEMMA CommitKeepsCommitted ==
  ASSUME TypeOK, LocksOK, PendingOK, CommittedOK, NEW w \in Workers, CommitPage(w)
  PROVE  CommittedOK'
  <1>0. /\ worker[w] \in WorkerState /\ worker[w].job \in Jobs /\ worker[w].job # NoJob
        /\ Exists(worker[w].job)
        /\ ChildrenAreNew(w) /\ RowsFollowTheRules(w) /\ EdgesHaveTargets(w)
    BY JobsOfCommit, TreeAssumption DEF TypeOK, PendingOK
  <1> DEFINE wj == worker[w].job
             spawned == worker[w].spawned
             rows == worker[w].rows
  <1>1. ASSUME NEW c \in Jobs
        PROVE  \/ Exists(c) /\ Exists(c)' /\ job'[c] = job[c]
               \/ ~Exists(c) /\ ~Exists(c)' /\ job'[c] = job[c] /\ ~Born(w, c)
               \/ /\ ~Exists(c) /\ Exists(c)'
                  /\ \E p \in Pages : /\ <<c, p>> \in spawned /\ <<c, p>> \in rows /\ Spawns(p)
                                     /\ job'[c].parent = wj /\ job'[c].seed = p
    <2>1. CASE Exists(c)
      BY <2>1, CommitKeepsJobs
    <2>2. CASE ~Exists(c) /\ ~Born(w, c)
      BY <2>2, JobsOfCommit DEF Exists
    <2>3. CASE ~Exists(c) /\ Born(w, c)
      <3>1. PICK p \in Pages : <<c, p>> \in spawned
        BY <2>3 DEF Born
      <3>2. Exists(c)' /\ job'[c] = BornJob(w, p)
        BY <3>1, JobsOfCommit
      <3>3. <<c, p>> \in rows /\ Spawns(p)
        BY <1>0, <3>1 DEF ChildrenAreNew
      <3> QED
        BY <2>3, <3>1, <3>2, <3>3 DEF BornJob
    <2> QED
      BY <2>1, <2>2, <2>3
  <1>2. \A j \in Jobs, p \in Pages :
          row'[j][p] = "absent" <=> row[j][p] = "absent" /\ <<j, p>> \notin rows
    BY JobsOfCommit
  <1>3. /\ \A c \in Jobs, p \in Pages : <<c, p>> \in spawned =>
             \A d \in Jobs : Exists(d) /\ job[d].parent = wj => job[d].seed # p
        /\ \A c, d \in Jobs, p, q \in Pages : <<c, p>> \in spawned /\ <<d, q>> \in spawned
             => (c = d <=> p = q)
    <2>1. ASSUME NEW c \in Jobs, NEW d \in Jobs, NEW p \in Pages, NEW q \in Pages,
                 <<c, p>> \in spawned, <<d, q>> \in spawned
          PROVE  c = d <=> p = q
      <3>1. <<c, p>>[1] = <<d, q>>[1] <=> <<c, p>>[2] = <<d, q>>[2]
        BY <1>0, <2>1, Zenon DEF ChildrenAreNew
      <3> QED
        BY <3>1
    <2>2. ASSUME NEW c \in Jobs, NEW p \in Pages, <<c, p>> \in spawned, NEW d \in Jobs,
                 Exists(d), job[d].parent = wj
          PROVE  job[d].seed # p
      <3>1. job[d].seed # <<c, p>>[2]
        BY <1>0, <2>2, Zenon DEF ChildrenAreNew
      <3> QED
        BY <3>1
    <2> QED
      BY <2>1, <2>2
  <1>4. \A j \in Jobs, p \in Pages : <<j, p>> \in rows =>
          /\ p \in SameHost
          /\ ~Exists(j) => <<j, p>> \in spawned
          /\ Spawns(p) /\ Exists(j) => job[j].seed = p
    BY <1>0 DEF RowsFollowTheRules
  <1> HIDE DEF wj, spawned, rows
  <1>5. TreeOK'
    <2> SUFFICES ASSUME NEW j \in Jobs
                 PROVE  /\ ~Exists(j)' => job'[j].parent = NoJob
                                          /\ \A p \in Pages : row'[j][p] = "absent"
                        /\ Exists(j)' => /\ job'[j].seed \in SameHost
                                         /\ IF j = Root THEN job'[j].parent = NoJob
                                            ELSE /\ job'[j].parent \in Jobs
                                                 /\ job'[job'[j].parent].status # "absent"
      BY DEF TreeOK, Exists
    <2>1. CASE Exists(j)
      <3>1. Exists(j)' /\ job'[j] = job[j]
        BY <1>1, <2>1
      <3>2. job[j].seed \in SameHost /\ (j = Root => job[j].parent = NoJob)
              /\ (j # Root => job[j].parent \in Jobs /\ Exists(job[j].parent))
        BY <2>1 DEF CommittedOK, TreeOK
      <3>3. \A i \in Jobs : Exists(i) => job'[i].status # "absent"
        BY CommitKeepsJobs DEF Exists
      <3> QED
        BY <3>1, <3>2, <3>3
    <2>2. CASE ~Exists(j) /\ ~Exists(j)'
      <3>1. job'[j] = job[j] /\ ~Born(w, j)
        BY <1>1, <2>2
      <3>2. \A p \in Pages : <<j, p>> \notin spawned
        BY <3>1 DEF Born, spawned
      <3> QED
        BY <1>2, <1>4, <2>2, <3>1, <3>2 DEF CommittedOK, TreeOK
    <2>3. CASE ~Exists(j) /\ Exists(j)'
      <3>1. j # Root
        BY <2>3 DEF CommittedOK, RootExists
      <3>2. job'[j].parent = wj /\ job'[j].seed \in SameHost
        BY <1>1, <2>3 DEF Spawns
      <3>3. wj \in Jobs /\ job'[wj].status # "absent"
        BY <1>0, CommitKeepsJobs DEF wj, Exists
      <3> QED
        BY <2>3, <3>1, <3>2, <3>3
    <2> QED
      BY <2>1, <2>2, <2>3
  <1>6. ChildJobsUnique'
    <2> SUFFICES ASSUME NEW c \in Jobs, NEW d \in Jobs, Exists(c)', Exists(d)',
                        job'[c].parent = job'[d].parent, job'[c].seed = job'[d].seed
                 PROVE  c = d
      BY DEF ChildJobsUnique, Exists
    <2>0. ASSUME NEW a \in Jobs, ~Exists(a), Exists(a)'
          PROVE  \E p \in Pages : <<a, p>> \in spawned /\ job'[a].parent = wj /\ job'[a].seed = p
      BY <1>1, <2>0
    <2>1. CASE Exists(c) /\ Exists(d)
      BY <1>1, <2>1 DEF CommittedOK, ChildJobsUnique
    <2>2. CASE ~Exists(c) /\ Exists(d)
      <3>1. job'[d] = job[d]
        BY <2>2, CommitKeepsJobs
      <3>2. PICK p \in Pages : <<c, p>> \in spawned /\ job'[c].parent = wj /\ job'[c].seed = p
        BY <2>0, <2>2
      <3> QED
        BY <1>3, <2>2, <3>1, <3>2
    <2>3. CASE Exists(c) /\ ~Exists(d)
      <3>1. job'[c] = job[c]
        BY <2>3, CommitKeepsJobs
      <3>2. PICK p \in Pages : <<d, p>> \in spawned /\ job'[d].parent = wj /\ job'[d].seed = p
        BY <2>0, <2>3
      <3> QED
        BY <1>3, <2>3, <3>1, <3>2
    <2>4. CASE ~Exists(c) /\ ~Exists(d)
      <3>1. PICK p \in Pages : <<c, p>> \in spawned /\ job'[c].seed = p
        BY <2>0, <2>4
      <3>2. PICK q \in Pages : <<d, q>> \in spawned /\ job'[d].seed = q
        BY <2>0, <2>4
      <3>3. <<c, p>>[1] = <<d, q>>[1] <=> <<c, p>>[2] = <<d, q>>[2]
        BY <1>0, <3>1, <3>2, Zenon DEF ChildrenAreNew, spawned
      <3> QED
        BY <3>1, <3>2, <3>3
    <2> QED
      BY <2>1, <2>2, <2>3, <2>4
  <1>7. JobsHaveTheirSeed'
    <2> SUFFICES ASSUME NEW j \in Jobs, Exists(j)' PROVE row'[j][job'[j].seed] # "absent"
      BY DEF JobsHaveTheirSeed, Exists
    <2>1. CASE Exists(j)
      <3>1. job[j].seed \in Pages /\ job'[j] = job[j] /\ row[j][job[j].seed] # "absent"
        BY <1>1, <2>1, TreeAssumption DEF CommittedOK, TreeOK, JobsHaveTheirSeed
      <3> QED
        BY <1>2, <3>1
    <2>2. CASE ~Exists(j)
      BY <1>1, <1>2, <2>2
    <2> QED
      BY <2>1, <2>2
  <1>8. FrontierFollowsTheRules'
    <2> SUFFICES ASSUME NEW j \in Jobs, NEW p \in Pages, row'[j][p] # "absent"
                 PROVE  p \in SameHost /\ (Spawns(p) => job'[j].seed = p)
      BY DEF FrontierFollowsTheRules, Spawns
    <2>1. CASE row[j][p] # "absent"
      <3>1. Exists(j)
        BY <2>1 DEF CommittedOK, TreeOK
      <3> QED
        BY <1>1, <2>1, <3>1 DEF CommittedOK, FrontierFollowsTheRules
    <2>2. CASE <<j, p>> \in rows /\ Exists(j)
      BY <1>1, <1>4, <2>2
    <2>3. CASE <<j, p>> \in rows /\ ~Exists(j)
      <3>1. <<j, p>> \in spawned /\ p \in SameHost
        BY <1>4, <2>3
      <3>2. job'[j] = BornJob(w, p)
        BY <3>1, JobsOfCommit DEF spawned
      <3> QED
        BY <3>1, <3>2 DEF BornJob
    <2> QED
      BY <1>2, <2>1, <2>2, <2>3
  <1>9. LinksTellTheirTarget'
    <2> SUFFICES ASSUME NEW d \in discoveries'
                 PROVE  IF d.child # NoJob
                        THEN job'[d.child].parent = d.job /\ job'[d.child].seed = d.target
                        ELSE (d.target \in SameHost) <=> (row'[d.job][d.target] # "absent")
      BY DEF LinksTellTheirTarget
    <2>0. d \in Edge
      BY <1>0, JobsOfCommit DEF TypeOK, WorkerState
    <2>1. /\ d.job \in Jobs /\ d.target \in Pages
          /\ d.child \in Jobs \/ d.child = NoJob
      BY <2>0 DEF Edge
    <2>2. CASE d \in discoveries /\ d.child # NoJob
      <3>1. job[d.child].parent = d.job /\ job[d.child].seed = d.target
        BY <2>2 DEF CommittedOK, LinksTellTheirTarget
      <3>2. Exists(d.child)
        BY <2>1, <2>2, <3>1, TreeAssumption DEF CommittedOK, TreeOK
      <3> QED
        BY <1>1, <2>1, <2>2, <3>1, <3>2
    <2>3. CASE d \in discoveries /\ d.child = NoJob
      <3>1. (d.target \in SameHost) <=> (row[d.job][d.target] # "absent")
        BY <2>3 DEF CommittedOK, LinksTellTheirTarget
      <3> QED
        BY <1>2, <1>8, <2>1, <2>3, <3>1 DEF FrontierFollowsTheRules
    <2>4. CASE d \in worker[w].edges /\ d.child # NoJob
      <3>1. CASE <<d.child, d.target>> \in spawned
        <4>1. job'[d.child] = BornJob(w, d.target)
          BY <2>1, <2>4, <3>1, JobsOfCommit DEF spawned
        <4>2. d.job = wj
          BY <1>0, <2>4 DEF EdgesHaveTargets, wj
        <4> QED
          BY <2>4, <4>1, <4>2 DEF BornJob, wj
      <3>2. CASE Exists(d.child) /\ job[d.child].parent = d.job /\ job[d.child].seed = d.target
        BY <1>1, <2>1, <2>4, <3>2
      <3> QED
        BY <1>0, <2>4, <3>1, <3>2 DEF EdgesHaveTargets, spawned
    <2>5. CASE d \in worker[w].edges /\ d.child = NoJob
      <3>1. d.target \in SameHost => <<d.job, d.target>> \in rows
        BY <1>0, <2>5 DEF EdgesHaveTargets, rows
      <3> QED
        BY <1>2, <1>8, <2>1, <2>5, <3>1 DEF FrontierFollowsTheRules
    <2> QED
      BY <2>2, <2>3, <2>4, <2>5, JobsOfCommit
  <1>10. RootExists'
    BY CommitKeepsJobs, TreeAssumption DEF CommittedOK, RootExists
  <1> QED
    BY <1>5, <1>6, <1>7, <1>8, <1>9, <1>10 DEF CommittedOK

-----------------------------------------------------------------------------
(* Locks.                                                                  *)

(* A step of one worker that keeps its row, or lets go of it. *)
LEMMA LocksFramed ==
  ASSUME TypeOK, LocksOK, NEW w \in Workers,
         \A v \in Workers \ {w} : worker'[v] = worker[v],
         worker'[w].pc = worker[w].pc, worker'[w].job = worker[w].job,
         worker'[w].page = worker[w].page, Linking(w),
         UNCHANGED <<job, row, cancel>>
  PROVE  LocksOK'
  <1>1. ASSUME NEW v \in Workers PROVE HoldsItsRow(v)'
    <2>1. HoldsItsRow(v)
      BY DEF LocksOK
    <2>2. worker'[v].pc = worker[v].pc /\ worker'[v].job = worker[v].job
            /\ worker'[v].page = worker[v].page
      OBVIOUS
    <2>3. Linking(v)' <=> Linking(v)
      BY <2>2 DEF Linking
    <2>4. ~Linking(v) => worker'[v] = worker[v]
      OBVIOUS
    <2> QED
      BY <2>1, <2>2, <2>3, <2>4 DEF HoldsItsRow, Linking, Exists, Running
  <1>2. WorkersApart'
    <2>1. \A v \in Workers : worker'[v].pc = worker[v].pc /\ worker'[v].job = worker[v].job
                             /\ worker'[v].page = worker[v].page
      OBVIOUS
    <2> QED
      BY <2>1 DEF LocksOK, WorkersApart, Linking
  <1>3. WrittenJobsAreFree'
    BY DEF LocksOK, WrittenJobsAreFree, HeldByWorker, Linking, Running
  <1> QED
    BY <1>1, <1>2, <1>3 DEF LocksOK

LEMMA LocksKept == TypeOK /\ LocksOK /\ PendingOK /\ [Next]_vars => LocksOK'
  <1> SUFFICES ASSUME TypeOK, LocksOK, PendingOK, [Next]_vars PROVE LocksOK'
    OBVIOUS
  <1>0. /\ \A v \in Workers : worker[v] \in WorkerState /\ HoldsItsRow(v)
        /\ worker \in [Workers -> WorkerState]
    BY DEF TypeOK, LocksOK
  <1>1. ASSUME NEW w \in Workers, NEW j \in Jobs, NEW p \in Pages, Claim(w, j, p)
        PROVE  LocksOK'
    <2>1. \A v \in Workers \ {w} : worker'[v] = worker[v]
      BY <1>0, <1>1 DEF Claim
    <2>2. /\ worker'[w].pc = "fetching" /\ worker'[w].job = j /\ worker'[w].page = p
          /\ worker'[w].rows = {} /\ worker'[w].edges = {} /\ worker'[w].spawned = {}
      <3>1. worker[w].rows = {} /\ worker[w].edges = {} /\ worker[w].spawned = {}
        BY <1>0, <1>1 DEF Claim, HoldsItsRow, Linking
      <3>2. worker'[w] = [worker[w] EXCEPT !.pc = "fetching", !.job = j, !.page = p]
        BY <1>0, <1>1 DEF Claim
      <3> QED
        BY <1>0, <3>1, <3>2 DEF WorkerState
    <2>3. /\ row[j][p] = "queued" /\ row'[j][p] = "active" /\ UNCHANGED <<job, cancel>>
          /\ \A i \in Jobs, q \in Pages : row[i][q] = "active" => row'[i][q] = "active"
          /\ worker[w].pc = "idle" /\ Running(j)
      BY <1>1 DEF Claim, TypeOK
    <2>4. ASSUME NEW v \in Workers PROVE HoldsItsRow(v)'
      BY <1>0, <2>1, <2>2, <2>3 DEF HoldsItsRow, Linking, Exists, Running
    <2>5. WorkersApart'
      <3>1. ASSUME NEW v \in Workers \ {w}, worker[v].pc # "idle", worker[v].job = j
            PROVE  worker[v].page # p
        BY <1>0, <2>3, <3>1 DEF HoldsItsRow
      <3> QED
        BY <2>1, <2>2, <3>1 DEF LocksOK, WorkersApart, Linking
    <2>6. WrittenJobsAreFree'
      BY <2>1, <2>2, <2>3 DEF LocksOK, WrittenJobsAreFree, HeldByWorker, Linking, Running
    <2> QED
      BY <2>4, <2>5, <2>6 DEF LocksOK
  <1>2. ASSUME NEW w \in Workers, LockJob(w) PROVE LocksOK'
    <2>1. \A v \in Workers \ {w} : worker'[v] = worker[v]
      BY <1>0, <1>2 DEF LockJob
    <2>2. /\ worker'[w].pc = "linking" /\ worker'[w].job = worker[w].job
          /\ worker'[w].page = worker[w].page
      <3>1. worker'[w] = [worker[w] EXCEPT !.pc = "linking", !.left = Links[worker[w].page]]
        BY <1>0, <1>2 DEF LockJob
      <3> QED
        BY <1>0, <3>1 DEF WorkerState
    <2>3. /\ UNCHANGED <<job, row, cancel>> /\ worker[w].pc = "fetching"
          /\ Running(worker[w].job) /\ ~HeldByWorker(worker[w].job) /\ ~HeldByCancel(worker[w].job)
      BY <1>2 DEF LockJob, MayLockJob
    <2>4. ASSUME NEW v \in Workers PROVE HoldsItsRow(v)'
      BY <1>0, <2>1, <2>2, <2>3 DEF HoldsItsRow, Linking, Exists, Running
    <2>5. WorkersApart'
      BY <2>1, <2>2, <2>3 DEF LocksOK, WorkersApart, Linking, HeldByWorker
    <2>6. WrittenJobsAreFree'
      BY <2>1, <2>2, <2>3 DEF LocksOK, WrittenJobsAreFree, HeldByWorker, HeldByCancel, Linking, Running
    <2> QED
      BY <2>4, <2>5, <2>6 DEF LocksOK
  <1>3. ASSUME NEW w \in Workers, FollowLink(w) \/ JoinChild(w) \/ SpawnChild(w) \/ LockKey(w)
        PROVE  LocksOK'
    <2>1. /\ \A v \in Workers \ {w} : worker'[v] = worker[v]
          /\ UNCHANGED <<job, row, cancel>> /\ Linking(w)
      BY <1>0, <1>3 DEF FollowLink, JoinChild, SpawnChild, LockKey
    <2>2. worker[w] \in WorkerState
      BY <1>0
    <2>3. worker'[w].pc = worker[w].pc /\ worker'[w].job = worker[w].job
            /\ worker'[w].page = worker[w].page
      <3>1. CASE FollowLink(w)
        <4>1. PICK inserted : worker'[w] = LinkDone(w, inserted, NoJob)
          BY <1>0, <3>1 DEF FollowLink
        <4> QED
          BY <2>2, <4>1 DEF LinkDone, WorkerState
      <3>2. CASE JoinChild(w)
        <4>1. PICK inserted, c : worker'[w] = LinkDone(w, inserted, c)
          BY <1>0, <3>2 DEF JoinChild
        <4> QED
          BY <2>2, <4>1 DEF LinkDone, WorkerState
      <3>3. CASE SpawnChild(w)
        <4> DEFINE p == Head(worker[w].left)
        <4>1. PICK c \in Jobs :
                worker'[w] = [LinkDone(w, SeedRow(c, p), c) EXCEPT !.spawned = @ \cup {<<c, p>>}]
          BY <1>0, <3>3 DEF SpawnChild
        <4>2. PICK inserted, new :
                worker'[w] = [LinkDone(w, inserted, c) EXCEPT !.spawned = @ \cup new]
          BY <4>1
        <4> QED
          BY <2>2, <4>2 DEF LinkDone, WorkerState
      <3>4. CASE LockKey(w)
        <4>1. PICK keys : worker'[w] = [worker[w] EXCEPT !.keys = keys]
          BY <1>0, <3>4 DEF LockKey
        <4> QED
          BY <2>2, <4>1 DEF WorkerState
      <3> QED
        BY <1>3, <3>1, <3>2, <3>3, <3>4
    <2> QED
      BY <2>1, <2>3, LocksFramed
  <1>4. ASSUME NEW w \in Workers, CommitPage(w) \/ GiveUp(w) PROVE LocksOK'
    <2>1. /\ \A v \in Workers \ {w} : worker'[v] = worker[v]
          /\ worker'[w] = IdleWorker /\ cancel' = cancel
      BY <1>0, <1>4 DEF CommitPage, GiveUp
    <2>2. ASSUME NEW v \in Workers \ {w}, worker[v].pc # "idle"
          PROVE  /\ job'[worker[v].job] = job[worker[v].job]
                 /\ row'[worker[v].job][worker[v].page] = "active"
      <3>1. /\ worker[v].job \in Jobs /\ worker[v].page \in Pages /\ Exists(worker[v].job)
            /\ row[worker[v].job][worker[v].page] = "active"
        BY <1>0, <2>2 DEF HoldsItsRow
      <3>2. worker[w].pc # "idle"
        BY <1>4 DEF CommitPage, GiveUp, Linking
      <3>3. ~ (worker[v].job = worker[w].job /\ worker[v].page = worker[w].page)
        BY <2>2, <3>2 DEF LocksOK, WorkersApart
      <3>4. CASE CommitPage(w)
        <4>1. job'[worker[v].job] = job[worker[v].job]
          BY <3>1, <3>4, CommitKeepsJobs
        <4>2. row'[worker[v].job][worker[v].page] = "active"
          BY <3>1, <3>3, <3>4 DEF CommitPage
        <4> QED
          BY <4>1, <4>2
      <3>5. CASE GiveUp(w)
        <4>1. PICK status \in {"queued", "failed"} :
                row' = [row EXCEPT ![worker[w].job][worker[w].page] = status]
          BY <3>5 DEF GiveUp
        <4>2. row'[worker[v].job][worker[v].page] = "active"
          BY <3>1, <3>3, <4>1 DEF TypeOK
        <4> QED
          BY <3>5, <4>2 DEF GiveUp
      <3> QED
        BY <1>4, <3>4, <3>5
    <2>3. ASSUME NEW v \in Workers PROVE HoldsItsRow(v)'
      BY <1>0, <2>1, <2>2 DEF HoldsItsRow, Linking, Exists, Running, IdleWorker
    <2>4. WorkersApart'
      BY <2>1 DEF LocksOK, WorkersApart, Linking, IdleWorker
    <2>5. WrittenJobsAreFree'
      <3> SUFFICES ASSUME cancel.pc = "written", NEW j \in cancel.tree, Running(j)',
                          NEW v \in Workers, Linking(v)', worker'[v].job = j
                   PROVE  FALSE
        BY <2>1 DEF WrittenJobsAreFree, HeldByWorker
      <3>1. v # w /\ worker'[v] = worker[v] /\ Linking(v)
        BY <2>1 DEF Linking, IdleWorker
      <3>2. Running(j)
        BY <1>0, <2>2, <3>1 DEF Running, Linking
      <3> QED
        BY <3>1, <3>2 DEF LocksOK, WrittenJobsAreFree, HeldByWorker
    <2> QED
      BY <2>3, <2>4, <2>5 DEF LocksOK
  <1>5. ASSUME NEW j \in Jobs, ReadTree(j) PROVE LocksOK'
    <2>1. UNCHANGED <<job, row, worker>> /\ cancel'.pc = "reading"
      BY <1>5 DEF ReadTree
    <2> QED
      BY <2>1 DEF LocksOK, HoldsItsRow, WorkersApart, WrittenJobsAreFree, Linking, Exists, Running
  <1>6. CASE WriteJobs
    <2>1. /\ UNCHANGED <<job, row, worker>> /\ cancel'.tree = cancel.tree
          /\ \A j \in cancel.tree : Running(j) => ~HeldByWorker(j)
      BY <1>6 DEF WriteJobs, TypeOK, Cancel
    <2> QED
      BY <2>1 DEF LocksOK, HoldsItsRow, WorkersApart, WrittenJobsAreFree, HeldByWorker, Linking,
                  Exists, Running
  <1>7. CASE AbortCancel
    <2>1. UNCHANGED <<job, row, worker>> /\ cancel'.pc = "idle"
      BY <1>7 DEF AbortCancel, NoCancel
    <2> QED
      BY <2>1 DEF LocksOK, HoldsItsRow, WorkersApart, WrittenJobsAreFree, Linking, Exists, Running
  <1>8. ASSUME worker' = worker, cancel'.pc = "idle" \/ cancel' = cancel,
               \A j \in Jobs :
                 /\ job[j].status # "absent" => job'[j].status # "absent"
                 /\ job'[j].status = "running" => job[j].status = "running"
                 /\ HeldByWorker(j) /\ job[j].status = "running" => job'[j].status = "running",
               \A j \in Jobs, p \in Pages : row[j][p] = "active" => row'[j][p] = "active"
        PROVE  LocksOK'
    <2>1. ASSUME NEW v \in Workers PROVE HoldsItsRow(v)'
      <3>1. Linking(v) => HeldByWorker(worker[v].job)
        BY DEF HeldByWorker
      <3>2. Linking(v) => worker[v].pc # "idle"
        BY DEF Linking
      <3> QED
        BY <1>0, <1>8, <3>1, <3>2 DEF HoldsItsRow, Linking, Exists, Running
    <2>2. WorkersApart'
      BY <1>8 DEF LocksOK, WorkersApart, Linking
    <2>3. WrittenJobsAreFree'
      <3>1. cancel.pc = "written" => cancel.tree \subseteq Jobs
        BY DEF TypeOK, Cancel
      <3>2. \A j \in Jobs : HeldByWorker(j)' <=> HeldByWorker(j)
        BY <1>8 DEF HeldByWorker, Linking
      <3> QED
        BY <1>8, <3>1, <3>2 DEF LocksOK, WrittenJobsAreFree, Running
    <2> QED
      BY <2>1, <2>2, <2>3 DEF LocksOK
  <1>9. CASE CommitCancel
    <2>1. \A j \in Jobs, p \in Pages : row[j][p] = "active" => row'[j][p] = "active"
      BY <1>9 DEF CommitCancel, WaitingCanceled
    <2>2. \A j \in cancel.tree : Running(j) => ~HeldByWorker(j)
      BY <1>9 DEF CommitCancel, LocksOK, WrittenJobsAreFree
    <2>3. \A j \in Jobs : \/ job'[j] = job[j]
                         \/ /\ j \in cancel.tree /\ Running(j)
                            /\ job'[j] = [job[j] EXCEPT !.status = "canceling"]
      BY <1>9 DEF CommitCancel
    <2>4. \A j \in Jobs : [job[j] EXCEPT !.status = "canceling"].status = "canceling"
      BY DEF TypeOK, Job
    <2>5. worker' = worker /\ cancel'.pc = "idle"
      BY <1>9 DEF CommitCancel, NoCancel
    <2> QED
      BY <1>8, <2>1, <2>2, <2>3, <2>4, <2>5 DEF Exists, Running
  <1>10. CASE Tick
    <2>1. \A j \in Jobs, p \in Pages : row[j][p] = "active" => row'[j][p] = "active"
      BY <1>10 DEF Tick, WaitingCanceled
    <2>2. \A j \in Jobs : \/ job'[j] = job[j]
                         \/ /\ \A p \in Pages : row'[j][p] \in Settled \cup {"absent"}
                            /\ \/ job'[j] = [job[j] EXCEPT !.status = "canceled"]
                               \/ job'[j] = [job[j] EXCEPT !.status = "completed"]
      BY <1>10 DEF Tick
    <2>3. \A j \in Jobs : /\ [job[j] EXCEPT !.status = "canceled"].status = "canceled"
                         /\ [job[j] EXCEPT !.status = "completed"].status = "completed"
      BY DEF TypeOK, Job
    <2>4. ASSUME NEW j \in Jobs, HeldByWorker(j) PROVE job'[j] = job[j]
      <3>1. PICK v \in Workers : Linking(v) /\ worker[v].job = j
        BY <2>4 DEF HeldByWorker
      <3>2. worker[v].page \in Pages /\ row[j][worker[v].page] = "active"
        BY <1>0, <3>1 DEF HoldsItsRow, Linking
      <3> QED
        BY <2>1, <2>2, <3>2 DEF Settled
    <2>5. worker' = worker /\ cancel' = cancel
      BY <1>10 DEF Tick
    <2> QED
      BY <1>8, <2>1, <2>2, <2>3, <2>4, <2>5 DEF Exists, Running
  <1>11. CASE UNCHANGED vars
    BY <1>8, <1>11 DEF vars, Exists, Running
  <1> QED
    BY <1>1, <1>2, <1>3, <1>4, <1>5, <1>6, <1>7, <1>9, <1>10, <1>11 DEF Next, Record

-----------------------------------------------------------------------------
LEMMA InvariantAtStart == Init => IInv
  <1> SUFFICES ASSUME Init PROVE IInv
    OBVIOUS
  <1> USE TreeAssumption DEF Init
  <1>1. TypeOK
    <2>1. IdleWorker \in WorkerState /\ NoCancel \in Cancel
      BY DEF IdleWorker, WorkerState, NoCancel, Cancel
    <2>2. job \in [Jobs -> Job]
      BY DEF Job
    <2>3. row \in [Jobs -> [Pages -> RowStatuses]]
      BY DEF RowStatuses
    <2> QED
      BY <2>1, <2>2, <2>3 DEF TypeOK
  <1>2. LocksOK
    BY DEF LocksOK, WorkersApart, WrittenJobsAreFree, HoldsItsRow, Linking, IdleWorker, NoCancel
  <1>3. PendingOK
    BY DEF PendingOK, ChildrenApart, ChildrenAreNew, RowsFollowTheRules, EdgesHaveTargets, IdleWorker
  <1>4. CommittedOK
    BY DEF CommittedOK, RootExists, TreeOK, ChildJobsUnique, JobsHaveTheirSeed,
           FrontierFollowsTheRules, LinksTellTheirTarget, Exists
  <1> QED
    BY <1>1, <1>2, <1>3, <1>4 DEF IInv

LEMMA InvariantKept == IInv /\ [Next]_vars => IInv'
  <1> SUFFICES ASSUME IInv, [Next]_vars PROVE IInv'
    OBVIOUS
  <1>1. TypeOK /\ LocksOK /\ PendingOK /\ CommittedOK
    BY DEF IInv
  <1>2. TypeOK' /\ LocksOK'
    BY <1>1, TypeKept, LocksKept
  <1>3. CASE \E w \in Workers : CommitPage(w)
    BY <1>1, <1>2, <1>3, CommitKeepsPending, CommitKeepsCommitted DEF IInv
  <1>4. CASE ~ \E w \in Workers : CommitPage(w)
    BY <1>1, <1>2, <1>4, OnlyCommitsAdd, OnlyLinksArePending, CommittedFramed DEF IInv
  <1> QED
    BY <1>3, <1>4

(* What the locks of open transactions guarantee, what a transaction has found
   and not committed, and what is committed agree in every reachable state. *)
THEOREM TreeInvariant == Spec => []IInv
  BY InvariantAtStart, InvariantKept, PTL DEF Spec

(* Every variable keeps its type. *)
THEOREM TypeCorrectness == Spec => []TypeOK
  <1>1. IInv => TypeOK
    BY DEF IInv
  <1> QED
    BY <1>1, TreeInvariant, PTL

(* get_or_create_child_job: a page spawns one child of a job. *)
THEOREM ChildrenCorrectness == Spec => []ChildJobsUnique
  <1>1. IInv => ChildJobsUnique
    BY DEF IInv, CommittedOK
  <1> QED
    BY <1>1, TreeInvariant, PTL

(* create_job and its seed row commit together. *)
THEOREM SeedCorrectness == Spec => []JobsHaveTheirSeed
  <1>1. IInv => JobsHaveTheirSeed
    BY DEF IInv, CommittedOK
  <1> QED
    BY <1>1, TreeInvariant, PTL

(* discover_links enqueues a page where the host and the rules say. *)
THEOREM FrontierCorrectness == Spec => []FrontierFollowsTheRules
  <1>1. IInv => FrontierFollowsTheRules
    BY DEF IInv, CommittedOK
  <1> QED
    BY <1>1, TreeInvariant, PTL

(* discovered_links tells where each target went. *)
THEOREM LinksCorrectness == Spec => []LinksTellTheirTarget
  <1>1. IInv => LinksTellTheirTarget
    BY DEF IInv, CommittedOK
  <1> QED
    BY <1>1, TreeInvariant, PTL

(* A child is committed while its parent is locked and running. *)
THEOREM BirthCorrectness == Spec => ParentsRunAtBirth
  <1> DEFINE Step == \A c \in Jobs : ~Exists(c) /\ Exists(c)' => Running(job'[c].parent)
  <1>1. IInv /\ [Next]_vars => [Step]_vars
    <2> SUFFICES ASSUME IInv, [Next]_vars, NEW c \in Jobs, ~Exists(c), Exists(c)'
                 PROVE  Running(job'[c].parent)
      OBVIOUS
    <2>1. TypeOK /\ LocksOK /\ PendingOK
      BY DEF IInv
    <2>2. PICK w \in Workers : CommitPage(w)
      BY <2>1, OnlyCommitsAdd DEF Framed
    <2>3. Born(w, c)
      BY <2>1, <2>2, JobsOfCommit DEF Exists
    <2>4. job'[c].parent = worker[w].job
      <3>1. PICK p \in Pages : <<c, p>> \in worker[w].spawned
        BY <2>3 DEF Born
      <3>2. job'[c] = BornJob(w, p)
        BY <2>1, <2>2, <3>1, JobsOfCommit
      <3> QED
        BY <3>2 DEF BornJob
    <2>5. Running(worker[w].job)
      BY <2>1, <2>2 DEF LocksOK, HoldsItsRow, CommitPage
    <2> QED
      BY <2>4, <2>5
  <1> QED
    BY <1>1, TreeInvariant, PTL DEF Spec, ParentsRunAtBirth
=============================================================================
