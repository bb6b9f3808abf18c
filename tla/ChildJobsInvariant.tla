-------------------------- MODULE ChildJobsInvariant --------------------------
(***************************************************************************)
(* The inductive invariant of ChildJobs: what a transaction has not        *)
(* committed yet, and the snapshot of a cancel, still fit the tree that is *)
(* committed.                                                              *)
(***************************************************************************)
EXTENDS ChildJobs

(* A job without a row in crawl_jobs has none in crawl_urls; parents exist. *)
TreeOK ==
  \A j \in Jobs :
    /\ ~Exists(j) => job[j].parent = NoJob /\ \A p \in Pages : row[j][p] = "absent"
    /\ Exists(j) => /\ job[j].seed \in SameHost
                    /\ IF j = Root THEN job[j].parent = NoJob
                       ELSE job[j].parent \in Jobs /\ Exists(job[j].parent)

RootExists == Exists(Root)

(* What a worker has keeps its job from being drained, and the lock it takes
   keeps the job from being canceled. *)
HoldsItsRow(w) ==
  /\ worker[w].pc # "idle" => /\ worker[w].job \in Jobs /\ worker[w].page \in Pages
                              /\ Exists(worker[w].job)
                              /\ row[worker[w].job][worker[w].page] = "active"
  /\ Linking(w) => Running(worker[w].job)
  /\ ~Linking(w) => worker[w].rows = {} /\ worker[w].edges = {} /\ worker[w].spawned = {}

WorkersApart ==
  \A v, w \in Workers : v # w =>
    /\ worker[v].pc # "idle" /\ worker[w].pc # "idle" /\ worker[v].job = worker[w].job
         => worker[v].page # worker[w].page
    /\ Linking(v) /\ Linking(w) => worker[v].job # worker[w].job

WrittenJobsAreFree ==
  cancel.pc = "written" => \A j \in cancel.tree : Running(j) => ~HeldByWorker(j)

(* The uncommitted children of a transaction are new, one for each page. *)
ChildrenAreNew(w) ==
  \A s \in worker[w].spawned :
    /\ ~Exists(s[1]) /\ Spawns(s[2]) /\ s \in worker[w].rows
    /\ \A d \in Jobs : Exists(d) /\ job[d].parent = worker[w].job => job[d].seed # s[2]
    /\ \A t \in worker[w].spawned : s[1] = t[1] <=> s[2] = t[2]

ChildrenApart ==
  \A v, w \in Workers : v # w =>
    \A s \in worker[v].spawned, t \in worker[w].spawned : s[1] # t[1]

(* Its uncommitted rows follow the rules, ... *)
RowsFollowTheRules(w) ==
  \A r \in worker[w].rows :
    /\ r[2] \in SameHost
    /\ ~Exists(r[1]) => r \in worker[w].spawned
    /\ Spawns(r[2]) /\ Exists(r[1]) => job[r[1]].seed = r[2]

(* ... and its uncommitted links have their targets. *)
EdgesHaveTargets(w) ==
  \A e \in worker[w].edges :
    /\ e.job = worker[w].job
    /\ IF e.child # NoJob
       THEN \/ <<e.child, e.target>> \in worker[w].spawned
            \/ Exists(e.child) /\ job[e.child].parent = e.job /\ job[e.child].seed = e.target
       ELSE e.target \in SameHost => <<e.job, e.target>> \in worker[w].rows

LocksOK == WorkersApart /\ WrittenJobsAreFree /\ \A w \in Workers : HoldsItsRow(w)

PendingOK ==
  /\ ChildrenApart
  /\ \A w \in Workers : ChildrenAreNew(w) /\ RowsFollowTheRules(w) /\ EdgesHaveTargets(w)

CommittedOK ==
  /\ RootExists /\ TreeOK /\ ChildJobsUnique /\ JobsHaveTheirSeed
  /\ FrontierFollowsTheRules /\ LinksTellTheirTarget

IInv == TypeOK /\ LocksOK /\ PendingOK /\ CommittedOK

-----------------------------------------------------------------------------
(* What the contract of the tree needs besides.                            *)

(* A transaction inserts rows into its own job, and seeds into child jobs. *)
RowsHaveTheirJob ==
  \A w \in Workers : \A r \in worker[w].rows : r[1] = worker[w].job \/ Spawns(r[2])

(* A job that is completed or canceled has nothing left to do. *)
DoneJobsAreSettled ==
  \A j \in Jobs : job[j].status \in {"completed", "canceled"} =>
    \A p \in Pages : row[j][p] \in Settled \cup {"absent"}

(* The snapshot of a cancel covers no job that is not below its root. *)
SnapshotIsBelow ==
  IF cancel.pc = "idle" THEN cancel.root = NoJob
  ELSE cancel.root \in Jobs /\ Exists(cancel.root) /\ cancel.tree \subseteq JobTree(cancel.root)

TreeInv == IInv /\ RowsHaveTheirJob /\ DoneJobsAreSettled /\ SnapshotIsBelow
=============================================================================
