------------------------- MODULE ArtifactStoreProofs -------------------------
(* Proofs about ArtifactStore: its inductive invariant, and from it that a
   committed artifact has its file and that nothing is left behind, for every
   set of jobs, pages, workers and contents. *)
EXTENDS ArtifactStore, TLAPS

USE ConstantsAssumption

LEMMA InitHolds == Init => IInv
BY DEF Init, IInv, FilesWhole, OwnersOK, HoldsRow, TypeOK, Session, FileStates, IdleSession, LocksExclude, FilesReady,
       CreatedInPlace, RecordsHaveFiles, Working, InPlace, HoldsPath

(* Types of the path operators. *)
LEMMA PathTypes ==
  ASSUME TypeOK, NEW w \in Workers, session[w].pc # "idle"
  PROVE  /\ session[w].page \in Pages
         /\ session[w].body \in Bodies
         /\ Path(w) \in Urls \X Bodies
         /\ StagingPath(w) \in Pages \X Bodies
         /\ Path(w) = <<UrlOf[session[w].page], session[w].body>>
         /\ StagingPath(w) = <<session[w].page, session[w].body>>
BY DEF TypeOK, Path, PathOf, StagingPath

(* A worker's session is replaced by one of the right type. *)
LEMMA SessionUpdate ==
  ASSUME TypeOK, NEW w \in Workers, NEW s \in Session,
         s.pc # "idle" => s.page \in Pages /\ s.body \in Bodies,
         session' = [session EXCEPT ![w] = s]
  PROVE  /\ session' \in [Workers -> Session]
         /\ \A v \in Workers : session'[v].pc # "idle"
              => session'[v].page \in Pages /\ session'[v].body \in Bodies
<1> USE DEF TypeOK
<1>1. session' \in [Workers -> Session]
  OBVIOUS
<1>2. ASSUME NEW v \in Workers, session'[v].pc # "idle"
      PROVE  session'[v].page \in Pages /\ session'[v].body \in Bodies
  <2>1. CASE v = w
    BY <1>2, <2>1
  <2>2. CASE v # w
    BY <1>2, <2>2
  <2> QED
    BY <2>1, <2>2
<1> QED
  BY <1>1, <1>2

(* What the steps of process_url write into the session of a worker. *)
LEMMA SessionForms ==
  ASSUME TypeOK, NEW w \in Workers, session[w].pc # "idle"
  PROVE  /\ IdleSession \in Session
         /\ IdleSession.pc = "idle"
         /\ session[w].page \in Pages
         /\ session[w].body \in Bodies
         /\ [session[w] EXCEPT !.tx = "aborted"] \in Session
         /\ \A l \in {"staged", "pathLocked", "marked", "recorded"} :
              /\ [session[w] EXCEPT !.pc = l] \in Session
              /\ [session[w] EXCEPT !.pc = l].page = session[w].page
              /\ [session[w] EXCEPT !.pc = l].body = session[w].body
         /\ \A l \in {"staged", "pathLocked", "marked", "recorded"}, c \in BOOLEAN :
              /\ [session[w] EXCEPT !.pc = l, !.created = c] \in Session
<1> USE DEF TypeOK
<1>1. session[w] \in Session
  OBVIOUS
<1>2. session[w].page \in Pages /\ session[w].body \in Bodies
  OBVIOUS
<1>3. IdleSession \in Session /\ IdleSession.pc = "idle"
  BY DEF Session, IdleSession
<1> HIDE DEF TypeOK
<1>4. [session[w] EXCEPT !.tx = "aborted"] \in Session
  BY <1>1 DEF Session
<1>5. \A l \in {"staged", "pathLocked", "marked", "recorded"} :
              /\ [session[w] EXCEPT !.pc = l] \in Session
              /\ [session[w] EXCEPT !.pc = l].page = session[w].page
              /\ [session[w] EXCEPT !.pc = l].body = session[w].body
  BY <1>1 DEF Session
<1>6. \A l \in {"staged", "pathLocked", "marked", "recorded"}, c \in BOOLEAN :
              /\ [session[w] EXCEPT !.pc = l, !.created = c] \in Session
  BY <1>1 DEF Session
<1> QED
  BY <1>2, <1>3, <1>4, <1>5, <1>6

(* The session part of the type invariant. *)
SessionTyped ==
  /\ session \in [Workers -> Session]
  /\ \A w \in Workers : session[w].pc # "idle"
       => session[w].page \in Pages /\ session[w].body \in Bodies

LEMMA Relabelled ==
  ASSUME TypeOK, NEW w \in Workers, session[w].pc # "idle",
         NEW l \in {"staged", "pathLocked", "marked", "recorded"},
         session' = [session EXCEPT ![w].pc = l]
  PROVE  SessionTyped'
<1>1. session' = [session EXCEPT ![w] = [session[w] EXCEPT !.pc = l]]
  OBVIOUS
<1> QED
  BY <1>1, SessionForms, SessionUpdate DEF SessionTyped

LEMMA Aborted ==
  ASSUME TypeOK, NEW w \in Workers,
         session' = [session EXCEPT ![w].tx = "aborted"]
  PROVE  SessionTyped'
<1> DEFINE s == [session[w] EXCEPT !.tx = "aborted"]
<1>1. session' = [session EXCEPT ![w] = s]
  OBVIOUS
<1>2. session[w] \in Session
  BY DEF TypeOK
<1>3. /\ s \in Session
      /\ s.pc = session[w].pc
      /\ s.page = session[w].page
      /\ s.body = session[w].body
  BY <1>2 DEF Session
<1>4. s.pc # "idle" => s.page \in Pages /\ s.body \in Bodies
  BY <1>3 DEF TypeOK
<1> HIDE DEF s
<1> QED
  BY <1>1, <1>3, <1>4, SessionUpdate DEF SessionTyped

LEMMA Ended ==
  ASSUME TypeOK, NEW w \in Workers,
         session' = [session EXCEPT ![w] = IdleSession]
  PROVE  SessionTyped'
<1>1. IdleSession \in Session /\ IdleSession.pc = "idle"
  BY DEF Session, IdleSession
<1> QED
  BY <1>1, SessionUpdate DEF SessionTyped

LEMMA Promoted ==
  ASSUME TypeOK, NEW w \in Workers, session[w].pc # "idle",
         session' = [session EXCEPT ![w] = PromotedSession(w)]
  PROVE  SessionTyped'
<1>1. PICK c \in BOOLEAN : c = Promotes(w)
  BY Zenon DEF Promotes
<1> DEFINE s == [session[w] EXCEPT !.pc = "promoted", !.created = c]
<1>2. session' = [session EXCEPT ![w] = s]
  BY <1>1 DEF PromotedSession
<1>3. session[w] \in Session
  BY DEF TypeOK
<1>4. /\ s \in Session
      /\ s.page = session[w].page
      /\ s.body = session[w].body
  BY <1>3 DEF Session
<1> HIDE DEF s
<1> QED
  BY <1>2, <1>4, SessionForms, SessionUpdate DEF SessionTyped

LEMMA PromotedFields ==
  ASSUME TypeOK, NEW w \in Workers, Promote(w)
  PROVE  /\ session'[w].pc = "promoted"
         /\ session'[w].page = session[w].page
         /\ session'[w].body = session[w].body
         /\ session'[w].tx = session[w].tx
         /\ session'[w].created <=> Promotes(w)
         /\ \A v \in Workers : v # w => session'[v] = session[v]
<1>1. PICK c \in BOOLEAN : c = Promotes(w)
  BY Zenon DEF Promotes
<1> DEFINE s == [session[w] EXCEPT !.pc = "promoted", !.created = c]
<1>2. session' = [session EXCEPT ![w] = s]
  BY <1>1 DEF Promote, PromotedSession
<1>3. session[w] \in Session /\ session \in [Workers -> Session]
  BY DEF TypeOK
<1>4. /\ s.pc = "promoted" /\ s.created = c /\ s.tx = session[w].tx
      /\ s.page = session[w].page /\ s.body = session[w].body
  BY <1>3 DEF Session
<1>5. session'[w] = s /\ \A v \in Workers : v # w => session'[v] = session[v]
  BY <1>2, <1>3
<1> HIDE DEF s
<1>6. session'[w].created = c
  BY <1>4, <1>5
<1>7. session'[w].created <=> Promotes(w)
  BY <1>1, <1>6, Zenon
<1> QED
  BY <1>4, <1>5, <1>7

(* The steps that only move on. *)
LEMMA RelabelledFields ==
  ASSUME TypeOK, NEW w \in Workers, NEW l,
         session' = [session EXCEPT ![w].pc = l]
  PROVE  /\ session'[w].pc = l
         /\ session'[w].page = session[w].page
         /\ session'[w].body = session[w].body
         /\ session'[w].tx = session[w].tx
         /\ session'[w].created = session[w].created
         /\ \A v \in Workers : v # w => session'[v] = session[v]
<1>1. session[w] \in Session /\ session \in [Workers -> Session]
  BY DEF TypeOK
<1>2. session'[w] = [session[w] EXCEPT !.pc = l]
  BY <1>1
<1> QED
  BY <1>1, <1>2 DEF Session

(* The row a worker gives up. *)
LEMMA GivenUpTyped ==
  ASSUME TypeOK, NEW w \in Workers
  PROVE  GivenUp(w) \in [Pages -> Workers \cup {NoWorker}]
BY DEF TypeOK, GivenUp

LEMMA TypeStep == TypeOK /\ [Next]_vars => TypeOK'
<1> SUFFICES ASSUME TypeOK, [Next]_vars PROVE TypeOK'
  OBVIOUS
<1> DEFINE RowsTyped == /\ record \in [Pages -> Bodies \cup {NoBody}]
                        /\ owner \in [Pages -> Workers \cup {NoWorker}]
           DiskTyped == /\ file \in [Urls \X Bodies -> FileStates]
                        /\ staged \in [Pages \X Bodies -> FileStates]
           FaultsTyped == faults \in SUBSET {"interrupted", "abort"}
<1>a. RowsTyped /\ DiskTyped /\ FaultsTyped /\ SessionTyped
  BY DEF TypeOK, SessionTyped
<1>b. SUFFICES RowsTyped' /\ DiskTyped' /\ FaultsTyped' /\ SessionTyped'
  BY DEF TypeOK, SessionTyped
<1>1. ASSUME NEW w \in Workers, NEW p \in Pages, NEW b \in Bodies, Fetch(w, p, b)
      PROVE  RowsTyped' /\ DiskTyped' /\ FaultsTyped' /\ SessionTyped'
  <2> DEFINE s == [IdleSession EXCEPT !.pc = "fetched", !.page = p, !.body = b]
  <2>1. s \in Session /\ s.page = p /\ s.body = b
    BY DEF Session, IdleSession
  <2>2. session' = [session EXCEPT ![w] = s]
    BY <1>1 DEF Fetch
  <2>3. SessionTyped'
    BY <2>1, <2>2, SessionUpdate DEF SessionTyped
  <2> QED
    BY <1>1, <1>a, <2>3 DEF Fetch
<1>2. ASSUME NEW w \in Workers, StopBeforeStaging(w)
      PROVE  RowsTyped' /\ DiskTyped' /\ FaultsTyped' /\ SessionTyped'
  <2>1. RowsTyped'
    BY <1>2, <1>a, GivenUpTyped DEF StopBeforeStaging
  <2> QED
    BY <1>2, <1>a, <2>1, Ended DEF StopBeforeStaging
<1>3. ASSUME NEW w \in Workers, LockJob(w)
      PROVE  RowsTyped' /\ DiskTyped' /\ FaultsTyped' /\ SessionTyped'
  <2> DEFINE s == [session[w] EXCEPT !.pc = "locked", !.tx = "open"]
  <2>1. session[w] \in Session /\ session[w].pc # "idle"
    BY <1>3 DEF LockJob, TypeOK
  <2>2. s \in Session /\ s.page = session[w].page /\ s.body = session[w].body
    BY <2>1 DEF Session
  <2>3. session' = [session EXCEPT ![w] = s]
    BY <1>3 DEF LockJob
  <2>4. SessionTyped'
    BY <2>1, <2>2, <2>3, SessionUpdate, SessionForms DEF SessionTyped
  <2> QED
    BY <1>3, <1>a, <2>4 DEF LockJob
<1>4. ASSUME NEW w \in Workers, Stage(w)
      PROVE  RowsTyped' /\ DiskTyped' /\ FaultsTyped' /\ SessionTyped'
  BY <1>4, <1>a, Relabelled DEF Stage, FileStates
<1>5. ASSUME NEW w \in Workers, StageFails(w)
      PROVE  RowsTyped' /\ DiskTyped' /\ FaultsTyped' /\ SessionTyped'
  BY <1>5, <1>a, Ended, GivenUpTyped DEF StageFails, FileStates, Fault
<1>6. ASSUME NEW w \in Workers, LockPath(w) \/ MarkProcessing(w) \/ RecordPage(w)
      PROVE  RowsTyped' /\ DiskTyped' /\ FaultsTyped' /\ SessionTyped'
  BY <1>6, <1>a, Relabelled DEF LockPath, MarkProcessing, RecordPage
<1>7. ASSUME NEW w \in Workers, Promote(w)
      PROVE  RowsTyped' /\ DiskTyped' /\ FaultsTyped' /\ SessionTyped'
  <2>1. session[w].pc # "idle"
    BY <1>7 DEF Promote
  <2>2. Path(w) \in Urls \X Bodies /\ StagingPath(w) \in Pages \X Bodies
    BY <2>1, PathTypes
  <2>3. DiskTyped'
    BY <1>7, <1>a, <2>2 DEF Promote, StagedAfterPromote, FileStates
  <2>4. SessionTyped'
    BY <1>7, <2>1, Promoted DEF Promote
  <2> QED
    BY <1>7, <1>a, <2>3, <2>4 DEF Promote
<1>8. ASSUME NEW w \in Workers, CommitArtifact(w)
      PROVE  RowsTyped' /\ DiskTyped' /\ FaultsTyped' /\ SessionTyped'
  <2>1. session[w].page \in Pages /\ session[w].body \in Bodies
    BY <1>8, PathTypes DEF CommitArtifact
  <2>2. RowsTyped'
    BY <1>8, <1>a, <2>1 DEF CommitArtifact, Committed
  <2> QED
    BY <1>8, <1>a, <2>2, Ended DEF CommitArtifact
<1>9. ASSUME NEW w \in Workers, CommitFails(w)
      PROVE  RowsTyped' /\ DiskTyped' /\ FaultsTyped' /\ SessionTyped'
  BY <1>9, <1>a, Ended DEF CommitFails
<1>10. ASSUME NEW w \in Workers, CleanUp(w)
       PROVE  RowsTyped' /\ DiskTyped' /\ FaultsTyped' /\ SessionTyped'
  <2>1. RowsTyped'
    BY <1>10, <1>a, GivenUpTyped DEF CleanUp
  <2>2. DiskTyped'
    BY <1>10, <1>a DEF CleanUp, FileStates
  <2> QED
    BY <1>10, <1>a, <2>1, <2>2, Ended DEF CleanUp, RolledBack
<1>11. ASSUME NEW w \in Workers, DeadlockAbort(w) \/ ServerAbort(w)
       PROVE  RowsTyped' /\ DiskTyped' /\ FaultsTyped' /\ SessionTyped'
  BY <1>11, <1>a, Aborted DEF DeadlockAbort, ServerAbort, Fault
<1>12. ASSUME NEW w \in Workers, Crash(w)
       PROVE  RowsTyped' /\ DiskTyped' /\ FaultsTyped' /\ SessionTyped'
  BY <1>12, <1>a, Ended DEF Crash, FileStates, Fault
<1>13. ASSUME NEW p \in Pages, LoseLease(p)
       PROVE  RowsTyped' /\ DiskTyped' /\ FaultsTyped' /\ SessionTyped'
  BY <1>13, <1>a DEF LoseLease, SessionTyped
<1>14. CASE UNCHANGED vars
  BY <1>14, <1>a DEF vars, SessionTyped
<1> QED
  BY <1>1, <1>2, <1>3, <1>4, <1>5, <1>6, <1>7, <1>8, <1>9, <1>10, <1>11, <1>12, <1>13,
     <1>14 DEF Next, Proceed

-----------------------------------------------------------------------------
(* A step of one worker leaves the others where they are. *)
Others(w) == \A v \in Workers : v # w => session'[v] = session[v]

(* The locks exclude each other after every step, as long as the server keeps
   them. *)
LEMMA LocksStep == IInv /\ TypeOK' /\ [Next]_vars => LocksExclude'
<1> SUFFICES ASSUME IInv, TypeOK', [Next]_vars, "abort" \notin faults'
             PROVE  /\ \A w \in Workers : Working(w)' => session'[w].tx = "open"
                    /\ \A v, w \in Workers : v # w /\ Working(v)' /\ Working(w)'
                         => JobOf[session'[v].page] # JobOf[session'[w].page]
                    /\ \A v, w \in Workers :
                         v # w /\ HoldsPath(v, Path(v))' /\ HoldsPath(w, Path(w))'
                           => Path(v)' # Path(w)'
  BY DEF LocksExclude
<1> DEFINE Goal == /\ \A w \in Workers : Working(w)' => session'[w].tx = "open"
                   /\ \A v, w \in Workers : v # w /\ Working(v)' /\ Working(w)'
                        => JobOf[session'[v].page] # JobOf[session'[w].page]
                   /\ \A v, w \in Workers :
                        v # w /\ HoldsPath(v, Path(v))' /\ HoldsPath(w, Path(w))'
                          => Path(v)' # Path(w)'
<1>a. TypeOK /\ TypeOK'
  BY DEF IInv
<1>b. (\E w \in Workers : DeadlockAbort(w) \/ ServerAbort(w)) => FALSE
  BY DEF DeadlockAbort, ServerAbort, Fault
<1>c. "abort" \notin faults
  BY <1>b DEF Next, Proceed, vars, Fetch, StopBeforeStaging, LockJob, Stage, StageFails,
     LockPath, Promote, MarkProcessing, RecordPage, CommitArtifact, CommitFails, CleanUp,
     Crash, LoseLease, Fault
<1>d. /\ \A w \in Workers : Working(w) => session[w].tx = "open"
      /\ \A v, w \in Workers : v # w /\ Working(v) /\ Working(w)
           => JobOf[session[v].page] # JobOf[session[w].page]
      /\ \A v, w \in Workers : v # w /\ HoldsPath(v, Path(v)) /\ HoldsPath(w, Path(w))
           => Path(v) # Path(w)
  BY <1>c DEF IInv, LocksExclude
<1>1. ASSUME NEW w \in Workers, Others(w), ~Working(w)'
      PROVE  Goal
  <2>1. ASSUME NEW v \in Workers, Working(v)'
        PROVE  v # w /\ session'[v] = session[v] /\ Working(v)
    BY <1>1, <2>1 DEF Others, Working
  <2>2. ASSUME NEW v \in Workers, HoldsPath(v, Path(v))'
        PROVE  /\ v # w /\ Path(v)' = Path(v) /\ HoldsPath(v, Path(v))
    <3>1. Working(v)'
      BY <2>2 DEF HoldsPath, Working
    <3> QED
      BY <3>1, <2>1, <2>2 DEF HoldsPath, Path, PathOf
  <2> QED
    BY <1>d, <2>1, <2>2
<1>2. ASSUME NEW w \in Workers, Others(w),
             Working(w), Working(w)',
             session'[w].tx = session[w].tx,
             session'[w].page = session[w].page,
             session'[w].body = session[w].body,
             HoldsPath(w, Path(w))' => HoldsPath(w, Path(w))
      PROVE  Goal
  <2>1. ASSUME NEW v \in Workers, Working(v)'
        PROVE  /\ Working(v) /\ session'[v].tx = session[v].tx
               /\ session'[v].page = session[v].page
    BY <1>2, <2>1 DEF Others, Working
  <2>2. ASSUME NEW v \in Workers, HoldsPath(v, Path(v))'
        PROVE  Path(v)' = Path(v) /\ HoldsPath(v, Path(v))
    <3>1. CASE v = w
      BY <1>2, <2>2, <3>1 DEF Path, PathOf
    <3>2. CASE v # w
      BY <1>2, <2>2, <3>2 DEF Others, HoldsPath, Path, PathOf
    <3> QED
      BY <3>1, <3>2
  <2> QED
    BY <1>d, <2>1, <2>2
<1>3. ASSUME NEW w \in Workers, NEW p \in Pages, NEW b \in Bodies, Fetch(w, p, b)
      PROVE  Goal
  BY <1>3, <1>1, <1>a DEF Fetch, Others, Working, TypeOK
<1>4. ASSUME NEW w \in Workers,
             \/ StopBeforeStaging(w) \/ StageFails(w) \/ CommitArtifact(w)
             \/ CommitFails(w) \/ CleanUp(w) \/ Crash(w)
      PROVE  Goal
  <2>1. session' = [session EXCEPT ![w] = IdleSession]
    BY <1>4 DEF StopBeforeStaging, StageFails, CommitArtifact, CommitFails, CleanUp,
       RolledBack, Crash
  <2> QED
    BY <2>1, <1>1, <1>a DEF Others, Working, IdleSession, TypeOK
<1>5. ASSUME NEW w \in Workers, LockJob(w)
      PROVE  Goal
  <2>1. /\ session'[w].pc = "locked" /\ session'[w].tx = "open"
        /\ session'[w].page = session[w].page
        /\ \A v \in Workers : v # w => session'[v] = session[v]
    BY <1>5, <1>a DEF LockJob, TypeOK
  <2>2. ASSUME NEW v \in Workers, v # w, Working(v)
        PROVE  JobOf[session[v].page] # JobOf[session[w].page]
    BY <1>5, <1>d, <2>2 DEF LockJob, Unblocked, Blocks, HoldsJob
  <2>3. ~HoldsPath(w, Path(w))'
    BY <2>1 DEF HoldsPath
  <2>4. ASSUME NEW v \in Workers, v # w
        PROVE  /\ Working(v)' <=> Working(v)
               /\ HoldsPath(v, Path(v))' <=> HoldsPath(v, Path(v))
               /\ Path(v)' = Path(v)
    BY <2>1, <2>4 DEF Working, HoldsPath, Path, PathOf
  <2>5. ASSUME NEW v \in Workers, NEW x \in Workers, v # x, Working(v)', Working(x)'
        PROVE  JobOf[session'[v].page] # JobOf[session'[x].page]
    BY <1>d, <2>1, <2>2, <2>4, <2>5
  <2> QED
    BY <1>d, <2>1, <2>3, <2>4, <2>5
<1>6. ASSUME NEW w \in Workers, LockPath(w)
      PROVE  Goal
  <2>1. /\ session[w].pc = "staged" /\ session'[w].pc = "pathLocked"
        /\ session'[w].tx = session[w].tx
        /\ session'[w].page = session[w].page
        /\ session'[w].body = session[w].body
        /\ \A v \in Workers : v # w => session'[v] = session[v]
    BY <1>6, <1>a DEF LockPath, TypeOK
  <2>2. ASSUME NEW v \in Workers, v # w, HoldsPath(v, Path(v))
        PROVE  Path(v) # Path(w)
    BY <1>6, <2>1, <2>2 DEF LockPath, Unblocked, Blocks
  <2>3. ASSUME NEW v \in Workers
        PROVE  Path(v)' = Path(v) /\ session'[v].page = session[v].page
                 /\ session'[v].tx = session[v].tx /\ (Working(v)' => Working(v))
    BY <2>1 DEF Path, PathOf, Working
  <2>4. ASSUME NEW v \in Workers, v # w, HoldsPath(v, Path(v))'
        PROVE  HoldsPath(v, Path(v))
    BY <2>1, <2>4 DEF HoldsPath, Path, PathOf
  <2>5. ASSUME NEW v \in Workers, NEW x \in Workers, v # x,
               HoldsPath(v, Path(v))', HoldsPath(x, Path(x))'
        PROVE  Path(v)' # Path(x)'
    BY <1>d, <2>2, <2>3, <2>4, <2>5
  <2> QED
    BY <1>d, <2>3, <2>5
<1>7. ASSUME NEW w \in Workers,
             Stage(w) \/ Promote(w) \/ MarkProcessing(w) \/ RecordPage(w)
      PROVE  Goal
  <2>1. CASE Promote(w)
    <3>1. session[w].pc = "pathLocked"
      BY <2>1 DEF Promote
    <3>2. Working(w) /\ Working(w)' /\ (HoldsPath(w, Path(w))' => HoldsPath(w, Path(w)))
      BY <1>a, <2>1, <3>1, PromotedFields DEF Working, HoldsPath
    <3> QED
      BY <1>2, <1>a, <2>1, <3>2, PromotedFields DEF Others
  <2>2. CASE Stage(w) \/ MarkProcessing(w) \/ RecordPage(w)
    <3>1. PICK l \in {"staged", "marked", "recorded"} :
            /\ session' = [session EXCEPT ![w].pc = l]
            /\ \/ session[w].pc = "locked" /\ l = "staged"
               \/ session[w].pc = "promoted" /\ l = "marked"
               \/ session[w].pc = "marked" /\ l = "recorded"
      BY <2>2 DEF Stage, MarkProcessing, RecordPage
    <3>2. /\ session'[w].pc = l
          /\ session'[w].page = session[w].page
          /\ session'[w].body = session[w].body
          /\ session'[w].tx = session[w].tx
          /\ Others(w)
      BY <1>a, <3>1, RelabelledFields DEF Others
    <3>3. Working(w) /\ Working(w)' /\ (HoldsPath(w, Path(w))' => HoldsPath(w, Path(w)))
      BY <3>1, <3>2 DEF Working, HoldsPath
    <3> QED
      BY <1>2, <3>2, <3>3
  <2> QED
    BY <1>7, <2>1, <2>2
<1>8. CASE session' = session
  BY <1>8, <1>d DEF Working, HoldsPath, Path, PathOf
<1> QED
  BY <1>b, <1>3, <1>4, <1>5, <1>6, <1>7, <1>8 DEF Next, Proceed, LoseLease, vars

-----------------------------------------------------------------------------
(* A transaction that the server has not ended: what the step before knew. *)
LEMMA NotAborted ==
  ASSUME [Next]_vars, "abort" \notin faults'
  PROVE  /\ "abort" \notin faults
         /\ \A w \in Workers : ~DeadlockAbort(w) /\ ~ServerAbort(w)
<1>1. \A w \in Workers : ~DeadlockAbort(w) /\ ~ServerAbort(w)
  BY DEF DeadlockAbort, ServerAbort, Fault
<1> QED
  BY <1>1 DEF Next, Proceed, vars, Fetch, StopBeforeStaging, LockJob, Stage, StageFails,
     LockPath, Promote, MarkProcessing, RecordPage, CommitArtifact, CommitFails, CleanUp,
     Crash, LoseLease, Fault

(* Two workers at work write different staging files; two past the promotion
   have different files. *)
LEMMA PathsDiffer ==
  ASSUME IInv, "abort" \notin faults, NEW v \in Workers, NEW w \in Workers, v # w
  PROVE  /\ Working(v) /\ Working(w) => StagingPath(v) # StagingPath(w)
         /\ InPlace(v) /\ InPlace(w) => Path(v) # Path(w)
<1>1. TypeOK /\ LocksExclude
  BY DEF IInv
<1>2. ASSUME Working(v), Working(w) PROVE StagingPath(v) # StagingPath(w)
  <2>1. JobOf[session[v].page] # JobOf[session[w].page]
    BY <1>1, <1>2 DEF LocksExclude
  <2> QED
    BY <2>1 DEF StagingPath
<1>3. ASSUME InPlace(v), InPlace(w) PROVE Path(v) # Path(w)
  <2>1. Working(v) /\ Working(w)
    BY <1>3 DEF InPlace, Working
  <2>2. HoldsPath(v, Path(v)) /\ HoldsPath(w, Path(w))
    BY <1>1, <1>3, <2>1 DEF LocksExclude, HoldsPath, InPlace
  <2> QED
    BY <1>1, <2>2 DEF LocksExclude
<1> QED
  BY <1>2, <1>3

(* The files part of the invariant, for one worker and for one row. *)
StagedOK(v) == session[v].pc \in {"staged", "pathLocked"} => staged[StagingPath(v)] = "complete"
PlacedOK(v) == InPlace(v) => file[Path(v)] = "complete"
CreatedOK(v) ==
  /\ session[v].created => InPlace(v)
  /\ session[v].created => \A p \in Pages :
       record[p] # NoBody => PathOf(p, record[p]) # Path(v)
RecordOK(p) == record[p] # NoBody => file[PathOf(p, record[p])] = "complete"

LEMMA FilesParts ==
  "abort" \notin faults =>
    (FilesReady /\ CreatedInPlace /\ RecordsHaveFiles
      <=> /\ \A v \in Workers : StagedOK(v) /\ PlacedOK(v) /\ CreatedOK(v)
          /\ \A p \in Pages : RecordOK(p))
BY DEF FilesReady, CreatedInPlace, RecordsHaveFiles, StagedOK, PlacedOK, CreatedOK, RecordOK

(* A worker none of whose files or sessions changes. *)
LEMMA FrameOK ==
  ASSUME NEW v \in Workers, session'[v] = session[v], UNCHANGED <<record>>,
         StagedOK(v), PlacedOK(v), CreatedOK(v),
         Working(v) => staged'[StagingPath(v)] = staged[StagingPath(v)],
         InPlace(v) => file'[Path(v)] = file[Path(v)]
  PROVE  StagedOK(v)' /\ PlacedOK(v)' /\ CreatedOK(v)'
<1>1. Path(v)' = Path(v) /\ StagingPath(v)' = StagingPath(v)
  BY DEF Path, PathOf, StagingPath
<1>2. StagedOK(v)'
  BY <1>1 DEF StagedOK, Working
<1>3. PlacedOK(v)'
  BY <1>1 DEF PlacedOK, InPlace
<1>4. CreatedOK(v)'
  BY <1>1 DEF CreatedOK, InPlace, PathOf
<1> QED
  BY <1>2, <1>3, <1>4

(* An idle worker, or one that has only fetched, has nothing to lose. *)
LEMMA IdleOK ==
  ASSUME NEW w \in Workers, session'[w].pc \in {"idle", "fetched", "locked"},
         session'[w].created = FALSE
  PROVE  StagedOK(w)' /\ PlacedOK(w)' /\ CreatedOK(w)'
BY DEF StagedOK, PlacedOK, CreatedOK, InPlace

LEMMA FilesStep ==
  IInv /\ TypeOK' /\ [Next]_vars /\ "abort" \notin faults'
    => /\ \A v \in Workers : StagedOK(v)' /\ PlacedOK(v)' /\ CreatedOK(v)'
       /\ \A p \in Pages : RecordOK(p)'
<1> SUFFICES ASSUME IInv, TypeOK', [Next]_vars, "abort" \notin faults'
             PROVE  /\ \A v \in Workers : StagedOK(v)' /\ PlacedOK(v)' /\ CreatedOK(v)'
                    /\ \A p \in Pages : RecordOK(p)'
  OBVIOUS
<1> DEFINE Goal == /\ \A v \in Workers : StagedOK(v)' /\ PlacedOK(v)' /\ CreatedOK(v)'
                   /\ \A p \in Pages : RecordOK(p)'
<1>a. TypeOK /\ session \in [Workers -> Session]
  BY DEF IInv, TypeOK
<1>b. "abort" \notin faults /\ \A w \in Workers : ~DeadlockAbort(w) /\ ~ServerAbort(w)
  BY NotAborted
<1>c. /\ \A v \in Workers : StagedOK(v) /\ PlacedOK(v) /\ CreatedOK(v)
      /\ \A p \in Pages : RecordOK(p)
  BY <1>b, FilesParts DEF IInv
<1>d. ASSUME NEW w \in Workers, Others(w), UNCHANGED <<record, file, staged>>,
             StagedOK(w)' /\ PlacedOK(w)' /\ CreatedOK(w)'
      PROVE  Goal
  <2>1. ASSUME NEW v \in Workers, v # w
        PROVE  StagedOK(v)' /\ PlacedOK(v)' /\ CreatedOK(v)'
    BY <1>c, <1>d, <2>1, FrameOK DEF Others
  <2>2. ASSUME NEW p \in Pages PROVE RecordOK(p)'
    BY <1>c, <1>d, <2>2 DEF RecordOK, PathOf
  <2> QED
    BY <1>d, <2>1, <2>2
<1>e. IdleSession.pc = "idle" /\ IdleSession.created = FALSE
  BY DEF IdleSession
<1>f. ASSUME NEW w \in Workers, session[w].created PROVE InPlace(w)
  BY <1>c, <1>f DEF CreatedOK
<1>1. ASSUME NEW w \in Workers, NEW p \in Pages, NEW b \in Bodies, Fetch(w, p, b)
      PROVE  Goal
  <2>1. session'[w].pc = "fetched" /\ session'[w].created = FALSE
    BY <1>1, <1>a DEF Fetch, IdleSession
  <2> QED
    BY <1>1, <1>a, <1>d, <2>1, IdleOK DEF Fetch, Others
<1>2. ASSUME NEW w \in Workers, StopBeforeStaging(w) \/ CommitFails(w)
      PROVE  Goal
  <2>1. session' = [session EXCEPT ![w] = IdleSession] /\ UNCHANGED <<record, file, staged>>
    BY <1>2 DEF StopBeforeStaging, CommitFails
  <2> QED
    BY <1>a, <1>d, <1>e, <2>1, IdleOK DEF Others
<1>3. ASSUME NEW w \in Workers, LockJob(w)
      PROVE  Goal
  <2>1. session'[w] = [session[w] EXCEPT !.pc = "locked", !.tx = "open"]
    BY <1>3, <1>a DEF LockJob
  <2>2. session[w].pc = "fetched" /\ session[w] \in Session
    BY <1>3, <1>a DEF LockJob
  <2>3. session[w].created = FALSE
    BY <1>f, <2>2 DEF InPlace, Session
  <2>4. session'[w].pc = "locked" /\ session'[w].created = FALSE
    BY <2>1, <2>2, <2>3 DEF Session
  <2> QED
    BY <1>3, <1>a, <1>d, <2>4, IdleOK DEF LockJob, Others
<1>4. ASSUME NEW w \in Workers, Stage(w)
      PROVE  Goal
  <2>1. /\ session'[w].pc = "staged" /\ session'[w].created = session[w].created
        /\ session'[w].page = session[w].page /\ session'[w].body = session[w].body
        /\ Others(w)
    BY <1>4, <1>a, RelabelledFields DEF Stage, Others
  <2>2. session[w].pc = "locked" /\ Working(w) /\ ~InPlace(w)
    BY <1>4 DEF Stage, Working, InPlace
  <2>3. StagingPath(w) \in Pages \X Bodies /\ StagingPath(w)' = StagingPath(w)
    BY <1>a, <2>1, <2>2, PathTypes DEF StagingPath
  <2>4. StagedOK(w)' /\ PlacedOK(w)' /\ CreatedOK(w)'
    BY <1>4, <1>a, <1>f, <2>1, <2>2, <2>3
       DEF Stage, StagedOK, PlacedOK, CreatedOK, InPlace, TypeOK
  <2>5. ASSUME NEW v \in Workers, v # w
        PROVE  StagedOK(v)' /\ PlacedOK(v)' /\ CreatedOK(v)'
    <3>1. Working(v) => staged'[StagingPath(v)] = staged[StagingPath(v)]
      BY <1>4, <1>a, <1>b, <2>2, <2>3, <2>5, PathsDiffer DEF Stage, TypeOK
    <3> QED
      BY <1>4, <1>c, <2>1, <2>5, <3>1, FrameOK DEF Stage, Others
  <2>6. ASSUME NEW p \in Pages PROVE RecordOK(p)'
    BY <1>4, <1>c, <2>6 DEF Stage, RecordOK, PathOf
  <2> QED
    BY <2>4, <2>5, <2>6
<1>5. ASSUME NEW w \in Workers, StageFails(w) \/ Crash(w)
      PROVE  Goal
  <2>1. session' = [session EXCEPT ![w] = IdleSession] /\ UNCHANGED <<record, file>>
    BY <1>5 DEF StageFails, Crash
  <2>2. StagedOK(w)' /\ PlacedOK(w)' /\ CreatedOK(w)'
    BY <1>a, <1>e, <2>1, IdleOK
  <2>3. ASSUME NEW v \in Workers, v # w
        PROVE  StagedOK(v)' /\ PlacedOK(v)' /\ CreatedOK(v)'
    <3>1. Working(v) => staged'[StagingPath(v)] = staged[StagingPath(v)]
      <4>1. CASE UNCHANGED staged
        BY <4>1
      <4>2. CASE /\ session[w].pc = "locked"
                 /\ staged' = [staged EXCEPT ![StagingPath(w)] = "partial"]
        BY <1>a, <1>b, <2>3, <4>2, PathsDiffer, PathTypes DEF Working, TypeOK
      <4> QED
        BY <1>5, <4>1, <4>2 DEF StageFails, Crash
    <3>2. session'[v] = session[v]
      BY <1>a, <2>1, <2>3
    <3> QED
      BY <1>c, <2>1, <3>1, <3>2, FrameOK
  <2>4. ASSUME NEW p \in Pages PROVE RecordOK(p)'
    BY <1>c, <2>1, <2>4 DEF RecordOK, PathOf
  <2> QED
    BY <2>2, <2>3, <2>4
<1>6. ASSUME NEW w \in Workers, LockPath(w) \/ MarkProcessing(w) \/ RecordPage(w)
      PROVE  Goal
  <2>1. PICK l \in {"pathLocked", "marked", "recorded"} :
          /\ session' = [session EXCEPT ![w].pc = l]
          /\ \/ session[w].pc = "staged" /\ l = "pathLocked"
             \/ session[w].pc = "promoted" /\ l = "marked"
             \/ session[w].pc = "marked" /\ l = "recorded"
    BY <1>6 DEF LockPath, MarkProcessing, RecordPage
  <2>2. /\ session'[w].pc = l /\ session'[w].created = session[w].created
        /\ session'[w].page = session[w].page /\ session'[w].body = session[w].body
        /\ Others(w)
    BY <1>a, <2>1, RelabelledFields DEF Others
  <2>3. UNCHANGED <<record, file, staged>>
    BY <1>6 DEF LockPath, MarkProcessing, RecordPage
  <2>4. Path(w)' = Path(w) /\ StagingPath(w)' = StagingPath(w)
    BY <2>2 DEF Path, PathOf, StagingPath
  <2>5. InPlace(w)' <=> InPlace(w)
    BY <2>1, <2>2 DEF InPlace
  <2>6. StagedOK(w)' /\ PlacedOK(w)'
    BY <1>c, <2>1, <2>2, <2>3, <2>4, <2>5 DEF StagedOK, PlacedOK
  <2>7. CreatedOK(w)'
    BY <1>c, <2>2, <2>3, <2>4, <2>5 DEF CreatedOK, PathOf
  <2> QED
    BY <1>d, <2>2, <2>3, <2>6, <2>7
<1>7. ASSUME NEW w \in Workers, Promote(w)
      PROVE  Goal
  <2>1. /\ session'[w].pc = "promoted"
        /\ session'[w].created <=> Promotes(w)
        /\ session'[w].page = session[w].page /\ session'[w].body = session[w].body
        /\ Others(w)
    BY <1>7, <1>a, PromotedFields DEF Others
  <2>2. /\ session[w].pc = "pathLocked" /\ Working(w) /\ session[w].pc # "idle"
        /\ UNCHANGED record
    BY <1>7 DEF Promote, Working
  <2>3. /\ Path(w) \in Urls \X Bodies /\ Path(w)' = Path(w)
        /\ StagingPath(w) \in Pages \X Bodies /\ StagingPath(w)' = StagingPath(w)
    BY <1>a, <2>1, <2>2, PathTypes DEF Path, PathOf, StagingPath
  <2>4. staged[StagingPath(w)] = "complete"
    BY <1>c, <2>2 DEF StagedOK
  <2>5. /\ Promotes(w) => file' = [file EXCEPT ![Path(w)] = "complete"]
        /\ ~Promotes(w) => file' = [file EXCEPT ![Path(w)] = @]
    BY <1>7, <2>4 DEF Promote
  <2>6. ASSUME NEW path \in Urls \X Bodies, file[path] = "complete"
        PROVE  file'[path] = "complete"
    BY <1>a, <2>3, <2>5, <2>6 DEF TypeOK
  <2>7. ASSUME NEW p \in Pages PROVE RecordOK(p)'
    <3>1. record[p] # NoBody => PathOf(p, record[p]) \in Urls \X Bodies
      BY <1>a DEF TypeOK, PathOf
    <3> QED
      BY <1>c, <2>2, <2>6, <3>1 DEF RecordOK, PathOf
  <2>8. PlacedOK(w)' /\ StagedOK(w)'
    <3>1. file[Path(w)] \in {"none", "complete"}
      BY <1>a, <1>b, <2>3 DEF TypeOK, FileStates, IInv, FilesWhole
    <3>2. file'[Path(w)] = "complete"
      BY <1>a, <2>3, <2>5, <3>1 DEF Promotes, TypeOK
    <3> QED
      BY <2>1, <2>3, <3>2 DEF PlacedOK, StagedOK
  <2>9. CreatedOK(w)'
    <3>1. ASSUME Promotes(w), NEW p \in Pages, record[p] # NoBody
          PROVE  PathOf(p, record[p]) # Path(w)
      BY <1>c, <3>1 DEF Promotes, RecordOK
    <3> QED
      BY <2>1, <2>2, <2>3, <3>1 DEF CreatedOK, InPlace, PathOf
  <2>10. ASSUME NEW v \in Workers, v # w
         PROVE  StagedOK(v)' /\ PlacedOK(v)' /\ CreatedOK(v)'
    <3>1. Working(v) => staged'[StagingPath(v)] = staged[StagingPath(v)]
      BY <1>7, <1>a, <1>b, <2>2, <2>3, <2>10, PathsDiffer, PathTypes
         DEF Promote, StagedAfterPromote, TypeOK
    <3>2. InPlace(v) => file'[Path(v)] = "complete" /\ file[Path(v)] = "complete"
      <4>1. InPlace(v) => Path(v) \in Urls \X Bodies /\ file[Path(v)] = "complete"
        BY <1>a, <1>c, PathTypes DEF InPlace, PlacedOK
      <4> QED
        BY <2>6, <4>1
    <3> QED
      BY <1>c, <2>1, <2>2, <2>10, <3>1, <3>2, FrameOK DEF Others
  <2> QED
    BY <2>7, <2>8, <2>9, <2>10
<1>8. ASSUME NEW w \in Workers, CommitArtifact(w)
      PROVE  Goal
  <2>1. /\ session[w].pc = "recorded" /\ Working(w) /\ InPlace(w)
        /\ UNCHANGED <<file, staged>>
    BY <1>8 DEF CommitArtifact, Working, InPlace
  <2>2. session' = [session EXCEPT ![w] = IdleSession]
    BY <1>8 DEF CommitArtifact
  <2>3. /\ session[w].page \in Pages /\ session[w].body \in Bodies
        /\ Path(w) = PathOf(session[w].page, session[w].body)
        /\ file[Path(w)] = "complete"
    BY <1>a, <1>c, <2>1, PathTypes DEF Path, PlacedOK
  <2>4. ASSUME NEW p \in Pages
        PROVE  record'[p] = IF p = session[w].page THEN session[w].body ELSE record[p]
    BY <1>8, <1>a, <2>4 DEF CommitArtifact, Committed, TypeOK
  <2>5. ASSUME NEW p \in Pages PROVE RecordOK(p)'
    BY <1>c, <2>1, <2>3, <2>4, <2>5 DEF RecordOK, PathOf
  <2>6. StagedOK(w)' /\ PlacedOK(w)' /\ CreatedOK(w)'
    BY <1>a, <1>e, <2>2, IdleOK
  <2>7. ASSUME NEW v \in Workers, v # w
        PROVE  StagedOK(v)' /\ PlacedOK(v)' /\ CreatedOK(v)'
    <3>1. session'[v] = session[v]
      BY <1>a, <2>2, <2>7
    <3>2. Path(v)' = Path(v) /\ StagingPath(v)' = StagingPath(v)
      BY <3>1 DEF Path, PathOf, StagingPath
    <3>3. StagedOK(v)' /\ PlacedOK(v)'
      BY <1>c, <2>1, <3>1, <3>2 DEF StagedOK, PlacedOK, InPlace
    <3>4. ASSUME session[v].created, NEW p \in Pages, record'[p] # NoBody
          PROVE  PathOf(p, record'[p]) # Path(v)
      <4>1. InPlace(v) /\ Path(v) # Path(w)
        BY <1>b, <1>f, <2>1, <2>7, <3>4, PathsDiffer
      <4> QED
        BY <1>c, <2>3, <2>4, <3>4, <4>1 DEF CreatedOK
    <3>5. CreatedOK(v)'
      BY <1>c, <3>1, <3>2, <3>4 DEF CreatedOK, InPlace, PathOf
    <3> QED
      BY <3>3, <3>5
  <2> QED
    BY <2>5, <2>6, <2>7
<1>9. ASSUME NEW w \in Workers, CleanUp(w)
      PROVE  Goal
  <2>1. session' = [session EXCEPT ![w] = IdleSession] /\ UNCHANGED record
    BY <1>9 DEF CleanUp, RolledBack
  <2>2. session[w].pc # "idle" /\ Working(w)
    BY <1>9 DEF CleanUp, MustCleanUp, Working
  <2>3. Path(w) \in Urls \X Bodies /\ StagingPath(w) \in Pages \X Bodies
    BY <1>a, <2>2, PathTypes
  <2>4. StagedOK(w)' /\ PlacedOK(w)' /\ CreatedOK(w)'
    BY <1>a, <1>e, <2>1, IdleOK
  <2>5. ASSUME NEW v \in Workers, v # w
        PROVE  StagedOK(v)' /\ PlacedOK(v)' /\ CreatedOK(v)'
    <3>1. Working(v) => staged'[StagingPath(v)] = staged[StagingPath(v)]
      <4>1. CASE session[w].created
        BY <1>9, <4>1 DEF CleanUp, RemovesFile
      <4>2. CASE ~session[w].created
        <5>1. staged' = [staged EXCEPT ![StagingPath(w)] = "none"]
          BY <1>9, <4>2 DEF CleanUp, RemovesFile
        <5>2. Working(v) => StagingPath(v) # StagingPath(w)
          BY <1>b, <2>2, <2>5, PathsDiffer
        <5>3. Working(v) => StagingPath(v) \in Pages \X Bodies
          BY <1>a, PathTypes DEF Working
        <5> QED
          BY <1>a, <5>1, <5>2, <5>3 DEF TypeOK
      <4> QED
        BY <4>1, <4>2
    <3>2. InPlace(v) => file'[Path(v)] = file[Path(v)]
      <4>1. CASE session[w].created
        <5>1. file' = [file EXCEPT ![Path(w)] = "none"]
          BY <1>9, <4>1 DEF CleanUp, RemovesFile
        <5>2. InPlace(v) => Path(v) # Path(w)
          BY <1>b, <1>f, <2>5, <4>1, PathsDiffer
        <5>3. InPlace(v) => Path(v) \in Urls \X Bodies
          BY <1>a, PathTypes DEF InPlace
        <5> QED
          BY <1>a, <5>1, <5>2, <5>3 DEF TypeOK
      <4>2. CASE ~session[w].created
        BY <1>9, <4>2 DEF CleanUp, RemovesFile
      <4> QED
        BY <4>1, <4>2
    <3>3. session'[v] = session[v]
      BY <1>a, <2>1, <2>5
    <3> QED
      BY <1>c, <2>1, <3>1, <3>2, <3>3, FrameOK
  <2>6. ASSUME NEW p \in Pages PROVE RecordOK(p)'
    <3>1. CASE session[w].created
      <4>1. record[p] # NoBody => PathOf(p, record[p]) # Path(w)
        BY <1>c, <3>1 DEF CreatedOK
      <4>2. file' = [file EXCEPT ![Path(w)] = "none"]
        BY <1>9, <3>1 DEF CleanUp, RemovesFile
      <4>3. record[p] # NoBody => file'[PathOf(p, record[p])] = file[PathOf(p, record[p])]
        BY <1>a, <2>3, <4>1, <4>2 DEF TypeOK, PathOf
      <4> QED
        BY <1>c, <2>1, <4>3 DEF RecordOK, PathOf
    <3>2. CASE ~session[w].created
      BY <1>9, <1>c, <3>2 DEF CleanUp, RemovesFile, RecordOK, PathOf
    <3> QED
      BY <3>1, <3>2
  <2> QED
    BY <2>4, <2>5, <2>6
<1>10. CASE UNCHANGED <<session, record, file, staged>>
  <2>1. ASSUME NEW v \in Workers PROVE StagedOK(v)' /\ PlacedOK(v)' /\ CreatedOK(v)'
    BY <1>c, <1>10, <2>1, FrameOK
  <2>2. ASSUME NEW p \in Pages PROVE RecordOK(p)'
    BY <1>c, <1>10, <2>2 DEF RecordOK, PathOf
  <2> QED
    BY <2>1, <2>2
<1> QED
  BY <1>b, <1>1, <1>2, <1>3, <1>4, <1>5, <1>6, <1>7, <1>8, <1>9, <1>10
     DEF Next, Proceed, LoseLease, vars

-----------------------------------------------------------------------------
(* The two parts of the invariant that remain. *)
LEMMA WholeStep == IInv /\ TypeOK' /\ [Next]_vars => FilesWhole'
<1> SUFFICES ASSUME IInv, TypeOK', [Next]_vars, "abort" \notin faults',
                    NEW path \in Urls \X Bodies
             PROVE  file'[path] # "partial"
  BY DEF FilesWhole
<1>a. /\ TypeOK
      /\ "abort" \notin faults /\ \A w \in Workers : ~DeadlockAbort(w) /\ ~ServerAbort(w)
  BY NotAborted DEF IInv
<1>b. file[path] # "partial"
  BY <1>a DEF IInv, FilesWhole
<1>1. ASSUME NEW w \in Workers, Promote(w) PROVE file'[path] # "partial"
  <2>1. session[w].pc = "pathLocked"
    BY <1>1 DEF Promote
  <2>2. staged[StagingPath(w)] = "complete"
    BY <1>a, <2>1 DEF IInv, FilesReady
  <2> QED
    BY <1>1, <1>a, <1>b, <2>2 DEF Promote, TypeOK
<1>2. ASSUME NEW w \in Workers, CleanUp(w) PROVE file'[path] # "partial"
  BY <1>2, <1>a, <1>b DEF CleanUp, TypeOK
<1> QED
  BY <1>a, <1>b, <1>1, <1>2 DEF Next, Proceed, vars, Fetch, StopBeforeStaging, LockJob,
     Stage, StageFails, LockPath, MarkProcessing, RecordPage, CommitArtifact, CommitFails,
     Crash, LoseLease

LEMMA CreatedStep == IInv /\ TypeOK' /\ [Next]_vars => CreatedInPlace'
<1> SUFFICES ASSUME IInv, TypeOK', [Next]_vars, NEW v \in Workers, session'[v].created
             PROVE  InPlace(v)'
  BY DEF CreatedInPlace
<1>a. TypeOK /\ session \in [Workers -> Session] /\ session[v] \in Session
  BY DEF IInv, TypeOK
<1>b. session[v].created => InPlace(v)
  BY DEF IInv, CreatedInPlace
<1>c. session'[v] = session[v] => InPlace(v)'
  BY <1>b DEF InPlace
<1>d. ASSUME NEW w \in Workers, session' = [session EXCEPT ![w] = IdleSession]
      PROVE  InPlace(v)'
  BY <1>a, <1>c, <1>d DEF IdleSession
<1>e. ASSUME NEW w \in Workers, NEW l, session' = [session EXCEPT ![w].pc = l],
             session[w].pc \in {"locked", "staged"} \/ l \in {"marked", "recorded"}
      PROVE  InPlace(v)'
  <2>1. CASE v = w
    BY <1>a, <1>b, <1>e, <2>1, RelabelledFields DEF InPlace
  <2>2. CASE v # w
    BY <1>a, <1>c, <1>e, <2>2
  <2> QED
    BY <2>1, <2>2
<1>1. ASSUME NEW w \in Workers, NEW p \in Pages, NEW b \in Bodies, Fetch(w, p, b)
      PROVE  InPlace(v)'
  BY <1>1, <1>a, <1>c DEF Fetch, IdleSession
<1>2. ASSUME NEW w \in Workers,
             \/ StopBeforeStaging(w) \/ StageFails(w) \/ CommitArtifact(w)
             \/ CommitFails(w) \/ CleanUp(w) \/ Crash(w)
      PROVE  InPlace(v)'
  BY <1>2, <1>d DEF StopBeforeStaging, StageFails, CommitArtifact, CommitFails, CleanUp,
     RolledBack, Crash
<1>3. ASSUME NEW w \in Workers, LockJob(w)
      PROVE  InPlace(v)'
  <2>1. CASE v = w
    <3>1. session'[v] = [session[v] EXCEPT !.pc = "locked", !.tx = "open"]
      BY <1>3, <1>a, <2>1 DEF LockJob
    <3>2. session[v].created
      BY <1>a, <3>1 DEF Session
    <3> QED
      BY <1>3, <1>b, <2>1, <3>2 DEF LockJob, InPlace
  <2>2. CASE v # w
    BY <1>3, <1>a, <1>c, <2>2 DEF LockJob
  <2> QED
    BY <2>1, <2>2
<1>4. ASSUME NEW w \in Workers,
             Stage(w) \/ LockPath(w) \/ MarkProcessing(w) \/ RecordPage(w)
      PROVE  InPlace(v)'
  BY <1>4, <1>e DEF Stage, LockPath, MarkProcessing, RecordPage
<1>5. ASSUME NEW w \in Workers, Promote(w)
      PROVE  InPlace(v)'
  BY <1>5, <1>a, <1>c, PromotedFields DEF InPlace
<1>6. ASSUME NEW w \in Workers, DeadlockAbort(w) \/ ServerAbort(w)
      PROVE  InPlace(v)'
  <2>1. CASE v = w
    <3>1. session'[v] = [session[v] EXCEPT !.tx = "aborted"]
      BY <1>6, <1>a, <2>1 DEF DeadlockAbort, ServerAbort
    <3>2. session'[v].pc = session[v].pc /\ session[v].created
      BY <1>a, <3>1 DEF Session
    <3> QED
      BY <1>b, <3>2 DEF InPlace
  <2>2. CASE v # w
    BY <1>6, <1>a, <1>c, <2>2 DEF DeadlockAbort, ServerAbort
  <2> QED
    BY <2>1, <2>2
<1> QED
  BY <1>c, <1>1, <1>2, <1>3, <1>4, <1>5, <1>6 DEF Next, Proceed, LoseLease, vars

LEMMA OwnersStep == IInv /\ TypeOK' /\ [Next]_vars => OwnersOK'
<1> SUFFICES ASSUME IInv, TypeOK', [Next]_vars PROVE OwnersOK'
  OBVIOUS
<1>a. TypeOK /\ OwnersOK /\ session \in [Workers -> Session]
  BY DEF IInv, TypeOK
<1>b. \A w \in Workers, p \in Pages :
        /\ p = session[w].page /\ owner[p] = w => GivenUp(w)[p] = NoWorker
        /\ ~(p = session[w].page /\ owner[p] = w) => GivenUp(w)[p] = owner[p]
  BY DEF GivenUp
<1>c. IdleSession.tx = "none"
  BY DEF IdleSession
<1>1. ASSUME NEW w \in Workers, UNCHANGED record, owner' \in {owner, GivenUp(w)},
             session' = [session EXCEPT ![w] = IdleSession]
      PROVE  OwnersOK'
  <2>1. ASSUME NEW p \in Pages
        PROVE  owner'[p] = owner[p] \/ (owner'[p] = NoWorker /\ owner[p] = w)
    BY <1>1, <1>b, <2>1
  <2>2. ASSUME NEW p \in Pages, owner'[p] # NoWorker PROVE record'[p] = NoBody
    BY <1>1, <1>a, <2>1, <2>2 DEF OwnersOK
  <2>3. ASSUME NEW v \in Workers, NEW p \in Pages, HoldsRow(v, p)'
        PROVE  v # w /\ HoldsRow(v, p)
    BY <1>1, <1>a, <1>c, <2>3 DEF HoldsRow
  <2>4. ASSUME NEW v \in Workers, NEW p \in Pages, HoldsRow(v, p)' PROVE owner'[p] = v
    BY <1>a, <2>1, <2>3, <2>4 DEF OwnersOK
  <2> QED
    BY <2>2, <2>4 DEF OwnersOK
<1>2. ASSUME UNCHANGED <<record, owner>>,
             \A v \in Workers, p \in Pages : HoldsRow(v, p)' => HoldsRow(v, p)
      PROVE  OwnersOK'
  BY <1>2, <1>a DEF OwnersOK
<1>3. ASSUME NEW w \in Workers, NEW p \in Pages, NEW b \in Bodies, Fetch(w, p, b)
      PROVE  OwnersOK'
  <2>1. ASSUME NEW v \in Workers, NEW q \in Pages, HoldsRow(v, q)'
        PROVE  HoldsRow(v, q)
    BY <1>3, <1>a, <2>1 DEF Fetch, IdleSession, HoldsRow
  <2>2. ASSUME NEW v \in Workers, NEW q \in Pages, HoldsRow(v, q)'
        PROVE  owner'[q] = v
    <3>1. owner[q] = v /\ v # NoWorker
      BY <1>a, <2>1, <2>2 DEF OwnersOK
    <3> QED
      BY <1>3, <1>a, <3>1 DEF Fetch, TypeOK
  <2>3. ASSUME NEW q \in Pages, owner'[q] # NoWorker PROVE record'[q] = NoBody
    BY <1>3, <1>a, <2>3 DEF Fetch, OwnersOK, TypeOK
  <2> QED
    BY <2>2, <2>3 DEF OwnersOK
<1>4. ASSUME NEW w \in Workers,
             \/ StopBeforeStaging(w) \/ StageFails(w) \/ CommitFails(w)
             \/ CleanUp(w) \/ Crash(w)
      PROVE  OwnersOK'
  BY <1>4, <1>1 DEF StopBeforeStaging, StageFails, CommitFails, CleanUp, RolledBack, Crash
<1>5. ASSUME NEW w \in Workers, LockJob(w) PROVE OwnersOK'
  <2>1. session'[w].pc = "locked" /\ \A v \in Workers : v # w => session'[v] = session[v]
    BY <1>5, <1>a DEF LockJob, Session
  <2>2. \A v \in Workers, p \in Pages : HoldsRow(v, p)' => HoldsRow(v, p)
    BY <2>1 DEF HoldsRow
  <2> QED
    BY <1>5, <1>2, <2>2 DEF LockJob
<1>6. ASSUME NEW w \in Workers, Stage(w) \/ LockPath(w) \/ RecordPage(w)
      PROVE  OwnersOK'
  <2>1. PICK l \in {"staged", "pathLocked", "recorded"} :
          /\ session' = [session EXCEPT ![w].pc = l]
          /\ l = "recorded" => session[w].pc = "marked"
    BY <1>6 DEF Stage, LockPath, RecordPage
  <2>2. \A v \in Workers, p \in Pages : HoldsRow(v, p)' => HoldsRow(v, p)
    BY <1>a, <2>1, RelabelledFields DEF HoldsRow
  <2> QED
    BY <1>6, <1>2, <2>2 DEF Stage, LockPath, RecordPage
<1>7. ASSUME NEW w \in Workers, Promote(w) PROVE OwnersOK'
  <2>1. \A v \in Workers, p \in Pages : HoldsRow(v, p)' => HoldsRow(v, p)
    BY <1>7, <1>a, PromotedFields DEF HoldsRow
  <2> QED
    BY <1>7, <1>2, <2>1 DEF Promote
<1>8. ASSUME NEW w \in Workers, MarkProcessing(w) PROVE OwnersOK'
  <2>1. /\ session'[w].page = session[w].page /\ owner[session[w].page] = w
        /\ \A v \in Workers : v # w => session'[v] = session[v]
    BY <1>8, <1>a, RelabelledFields DEF MarkProcessing
  <2>2. ASSUME NEW v \in Workers, NEW p \in Pages, HoldsRow(v, p)' PROVE owner[p] = v
    BY <1>a, <2>1, <2>2 DEF HoldsRow, OwnersOK
  <2> QED
    BY <1>8, <1>a, <2>2 DEF MarkProcessing, OwnersOK
<1>9. ASSUME NEW w \in Workers, CommitArtifact(w) PROVE OwnersOK'
  <2>1. /\ session[w].page \in Pages /\ HoldsRow(w, session[w].page)
        /\ owner[session[w].page] = w
    BY <1>9, <1>a, PathTypes DEF CommitArtifact, HoldsRow, OwnersOK
  <2>2. ASSUME NEW p \in Pages
        PROVE  \/ p = session[w].page /\ owner'[p] = NoWorker
               \/ p # session[w].page /\ owner'[p] = owner[p] /\ record'[p] = record[p]
    BY <1>9, <1>a, <2>2 DEF CommitArtifact, Committed, TypeOK
  <2>3. ASSUME NEW v \in Workers, NEW p \in Pages, HoldsRow(v, p)'
        PROVE  v # w /\ HoldsRow(v, p)
    BY <1>9, <1>a, <1>c, <2>3 DEF CommitArtifact, HoldsRow
  <2>4. ASSUME NEW v \in Workers, NEW p \in Pages, HoldsRow(v, p)' PROVE owner'[p] = v
    BY <1>a, <2>1, <2>2, <2>3, <2>4 DEF OwnersOK
  <2>5. ASSUME NEW p \in Pages, owner'[p] # NoWorker PROVE record'[p] = NoBody
    BY <1>a, <2>2, <2>5 DEF OwnersOK
  <2> QED
    BY <2>4, <2>5 DEF OwnersOK
<1>10. ASSUME NEW w \in Workers, DeadlockAbort(w) \/ ServerAbort(w) PROVE OwnersOK'
  <2>1. session' = [session EXCEPT ![w].tx = "aborted"] /\ UNCHANGED <<record, owner>>
    BY <1>10 DEF DeadlockAbort, ServerAbort
  <2>2. session'[w].tx = "aborted" /\ \A v \in Workers : v # w => session'[v] = session[v]
    BY <1>a, <2>1 DEF Session
  <2>3. \A v \in Workers, p \in Pages : HoldsRow(v, p)' => HoldsRow(v, p)
    BY <2>2 DEF HoldsRow
  <2> QED
    BY <1>2, <2>1, <2>3
<1>11. ASSUME NEW q \in Pages, LoseLease(q) PROVE OwnersOK'
  <2>1. \A v \in Workers, p \in Pages : HoldsRow(v, p)' => HoldsRow(v, p) /\ p # q
    BY <1>11 DEF LoseLease, HoldsRow
  <2> QED
    BY <1>11, <1>a, <2>1 DEF LoseLease, OwnersOK, TypeOK
<1>12. CASE UNCHANGED vars
  BY <1>12, <1>2 DEF vars, HoldsRow
<1> QED
  BY <1>3, <1>4, <1>5, <1>6, <1>7, <1>8, <1>9, <1>10, <1>11, <1>12 DEF Next, Proceed

LEMMA InductiveStep == IInv /\ [Next]_vars => IInv'
<1> SUFFICES ASSUME IInv, [Next]_vars PROVE IInv'
  OBVIOUS
<1>1. TypeOK'
  BY TypeStep DEF IInv
<1>2. LocksExclude' /\ FilesWhole' /\ CreatedInPlace' /\ OwnersOK'
  BY <1>1, LocksStep, WholeStep, CreatedStep, OwnersStep
<1>3. FilesReady' /\ RecordsHaveFiles'
  BY <1>1, FilesStep DEF FilesReady, RecordsHaveFiles, StagedOK, PlacedOK, CreatedOK, RecordOK
<1> QED
  BY <1>1, <1>2, <1>3 DEF IInv

(* The locks, the files in place and the committed artifacts agree in every
   state, as long as PostgreSQL ends no transaction by itself. *)
THEOREM InvariantHolds == Spec => []IInv
<1>1. Init => IInv
  BY InitHolds
<1>2. IInv /\ [Next]_vars => IInv'
  BY InductiveStep
<1> QED
  BY <1>1, <1>2, PTL DEF Spec

(* Every variable keeps its type. *)
THEOREM TypeCorrectness == Spec => []TypeOK
<1>1. IInv => TypeOK
  BY DEF IInv
<1> QED
  BY <1>1, InvariantHolds, PTL

(* A committed artifact has its whole file: no clean-up of another job that
   shares the path removes it. *)
THEOREM RecordsCorrectness == Spec => []RecordsHaveFiles
<1>1. IInv => RecordsHaveFiles
  BY DEF IInv
<1> QED
  BY <1>1, InvariantHolds, PTL

-----------------------------------------------------------------------------
(* A staging file that exists is one that its worker still has ahead. *)
LEMMA StagingStep ==
  IInv /\ TypeOK' /\ NoStagingLeft /\ [Next]_vars => NoStagingLeft'
<1> SUFFICES ASSUME IInv, TypeOK', NoStagingLeft, [Next]_vars,
                    "interrupted" \notin faults',
                    NEW p \in Pages, NEW b \in Bodies, staged'[<<p, b>>] # "none"
             PROVE  \E w \in Workers : /\ session'[w].pc \in {"staged", "pathLocked"}
                                       /\ StagingPath(w)' = <<p, b>>
  BY DEF NoStagingLeft
<1> DEFINE Goal == \E w \in Workers : /\ session'[w].pc \in {"staged", "pathLocked"}
                                      /\ StagingPath(w)' = <<p, b>>
<1>a. TypeOK /\ session \in [Workers -> Session]
  BY DEF IInv, TypeOK
<1>b. \A w \in Workers : ~StageFails(w) /\ ~Crash(w)
  BY DEF StageFails, Crash, Fault
<1>c. "interrupted" \notin faults
  BY <1>b DEF Next, Proceed, vars, Fetch, StopBeforeStaging, LockJob, Stage, LockPath,
     Promote, MarkProcessing, RecordPage, CommitArtifact, CommitFails, CleanUp,
     DeadlockAbort, ServerAbort, LoseLease, Fault
<1>d. ASSUME staged[<<p, b>>] # "none"
      PROVE  \E w \in Workers : /\ session[w].pc \in {"staged", "pathLocked"}
                                /\ StagingPath(w) = <<p, b>>
  BY <1>c, <1>d DEF NoStagingLeft
<1>e. ASSUME UNCHANGED staged,
             \A w \in Workers : session[w].pc \in {"staged", "pathLocked"} =>
               /\ session'[w].pc \in {"staged", "pathLocked"}
               /\ session'[w].page = session[w].page /\ session'[w].body = session[w].body
      PROVE  Goal
  BY <1>d, <1>e DEF StagingPath
<1>1. ASSUME NEW w \in Workers, Others(w), UNCHANGED staged,
             session[w].pc \notin {"staged", "pathLocked"}
      PROVE  Goal
  BY <1>1, <1>e DEF Others
<1>2. ASSUME NEW w \in Workers,
             \/ \E q \in Pages, c \in Bodies : Fetch(w, q, c)
             \/ StopBeforeStaging(w) \/ LockJob(w) \/ MarkProcessing(w) \/ RecordPage(w)
             \/ CommitArtifact(w) \/ CommitFails(w)
      PROVE  Goal
  BY <1>2, <1>1, <1>a DEF Others, Fetch, StopBeforeStaging, LockJob, MarkProcessing,
     RecordPage, CommitArtifact, CommitFails
<1>3. ASSUME NEW w \in Workers, Stage(w)
      PROVE  Goal
  <2>1. /\ session[w].pc = "locked" /\ session'[w].pc = "staged" /\ Others(w)
        /\ session'[w].page = session[w].page /\ session'[w].body = session[w].body
    BY <1>3, <1>a, RelabelledFields DEF Stage, Others
  <2>2. CASE StagingPath(w) = <<p, b>>
    BY <2>1, <2>2 DEF StagingPath
  <2>3. CASE StagingPath(w) # <<p, b>>
    <3>1. staged[<<p, b>>] # "none"
      BY <1>3, <1>a, <2>3 DEF Stage, TypeOK
    <3>2. PICK v \in Workers : /\ session[v].pc \in {"staged", "pathLocked"}
                               /\ StagingPath(v) = <<p, b>>
      BY <1>d, <3>1
    <3> QED
      BY <2>1, <3>2 DEF Others, StagingPath
  <2> QED
    BY <2>2, <2>3
<1>4. ASSUME NEW w \in Workers, LockPath(w)
      PROVE  Goal
  BY <1>4, <1>a, <1>e, RelabelledFields DEF LockPath
<1>5. ASSUME NEW w \in Workers, Promote(w) \/ CleanUp(w)
      PROVE  Goal
  <2>1. Others(w)
    BY <1>5, <1>a, PromotedFields DEF CleanUp, Others
  <2>2. CASE session[w].created
    <3>1. InPlace(w)
      BY <2>2 DEF IInv, CreatedInPlace
    <3>2. CleanUp(w) /\ UNCHANGED staged
      BY <1>5, <2>2, <3>1 DEF Promote, CleanUp, RemovesFile, InPlace
    <3> QED
      BY <1>1, <2>1, <3>1, <3>2 DEF InPlace
  <2>3. CASE ~session[w].created
    <3>1. staged' = [staged EXCEPT ![StagingPath(w)] = "none"]
      BY <1>5, <2>3 DEF Promote, StagedAfterPromote, CleanUp, RemovesFile
    <3>2. staged[<<p, b>>] # "none" /\ StagingPath(w) # <<p, b>>
      BY <1>a, <3>1 DEF TypeOK
    <3>3. PICK v \in Workers : /\ session[v].pc \in {"staged", "pathLocked"}
                               /\ StagingPath(v) = <<p, b>>
      BY <1>d, <3>2
    <3>4. v # w
      BY <3>2, <3>3
    <3> QED
      BY <2>1, <3>3, <3>4 DEF Others, StagingPath
  <2> QED
    BY <2>2, <2>3
<1>6. ASSUME NEW w \in Workers, DeadlockAbort(w) \/ ServerAbort(w)
      PROVE  Goal
  <2>1. session' = [session EXCEPT ![w].tx = "aborted"] /\ UNCHANGED staged
    BY <1>6 DEF DeadlockAbort, ServerAbort
  <2>2. \A v \in Workers : /\ session'[v].pc = session[v].pc
                           /\ session'[v].page = session[v].page
                           /\ session'[v].body = session[v].body
    BY <1>a, <2>1 DEF Session
  <2> QED
    BY <1>e, <2>1, <2>2
<1>7. CASE UNCHANGED <<session, staged>>
  BY <1>7, <1>e
<1> QED
  BY <1>b, <1>2, <1>3, <1>4, <1>5, <1>6, <1>7 DEF Next, Proceed, LoseLease, vars

(* No staging file is left behind, aborted transactions included, unless a
   process or a write is interrupted half way. *)
THEOREM StagingCorrectness == Spec => []NoStagingLeft
<1>1. Init => NoStagingLeft
  BY DEF Init, NoStagingLeft
<1>2. IInv /\ IInv' /\ NoStagingLeft /\ [Next]_vars => NoStagingLeft'
  BY StagingStep DEF IInv
<1> QED
  BY <1>1, <1>2, InvariantHolds, PTL DEF Spec

(* A file at its path belongs to a committed artifact, or to the transaction
   that created it and has not ended. *)
Referenced(path) == \E p \in Pages : record[p] # NoBody /\ PathOf(p, record[p]) = path
Creating(path) == \E w \in Workers : HoldsPath(w, path) /\ session[w].created

LEMMA OrphanStep ==
  IInv /\ IInv' /\ NoOrphans /\ [Next]_vars => NoOrphans'
<1> SUFFICES ASSUME IInv, IInv', NoOrphans, [Next]_vars, faults' = {},
                    NEW path \in Urls \X Bodies, file'[path] # "none"
             PROVE  Referenced(path)' \/ Creating(path)'
  BY DEF NoOrphans, Referenced, Creating
<1>a. TypeOK /\ session \in [Workers -> Session]
  BY DEF IInv, TypeOK
<1>b. \A w \in Workers : /\ ~StageFails(w) /\ ~Crash(w)
                         /\ ~DeadlockAbort(w) /\ ~ServerAbort(w)
  BY DEF StageFails, Crash, DeadlockAbort, ServerAbort, Fault
<1>c. faults = {}
  BY <1>b DEF Next, Proceed, vars, Fetch, StopBeforeStaging, LockJob, Stage, LockPath,
     Promote, MarkProcessing, RecordPage, CommitArtifact, CommitFails, CleanUp, LoseLease
<1>d. file[path] # "none" => Referenced(path) \/ Creating(path)
  BY <1>c DEF NoOrphans, Referenced, Creating
<1>e. UNCHANGED record /\ Referenced(path) => Referenced(path)'
  BY DEF Referenced, PathOf
<1>f. \A w \in Workers : Working(w) => session[w].tx = "open"
  BY <1>c DEF IInv, LocksExclude
<1>g. ASSUME UNCHANGED <<file, record>>,
             \A w \in Workers : HoldsPath(w, path) /\ session[w].created
               => HoldsPath(w, path)' /\ session'[w].created
      PROVE  Referenced(path)' \/ Creating(path)'
  BY <1>d, <1>e, <1>g DEF Creating
<1>1. ASSUME NEW w \in Workers, Others(w), UNCHANGED <<file, record>>, ~InPlace(w)
      PROVE  Referenced(path)' \/ Creating(path)'
  <2>1. ~session[w].created
    BY <1>1 DEF IInv, CreatedInPlace
  <2> QED
    BY <1>1, <1>g, <2>1 DEF Others, HoldsPath, Path, PathOf
<1>2. ASSUME NEW w \in Workers,
             \/ \E q \in Pages, c \in Bodies : Fetch(w, q, c)
             \/ StopBeforeStaging(w) \/ LockJob(w) \/ Stage(w) \/ LockPath(w)
      PROVE  Referenced(path)' \/ Creating(path)'
  BY <1>2, <1>1, <1>a DEF Others, InPlace, Fetch, StopBeforeStaging, LockJob, Stage, LockPath
<1>3. ASSUME NEW w \in Workers, MarkProcessing(w) \/ RecordPage(w)
      PROVE  Referenced(path)' \/ Creating(path)'
  <2>1. PICK l \in {"marked", "recorded"} : session' = [session EXCEPT ![w].pc = l]
    BY <1>3 DEF MarkProcessing, RecordPage
  <2>2. \A v \in Workers : HoldsPath(v, path) /\ session[v].created
          => HoldsPath(v, path)' /\ session'[v].created
    BY <1>a, <2>1, RelabelledFields DEF HoldsPath, Path, PathOf
  <2> QED
    BY <1>3, <1>g, <2>2 DEF MarkProcessing, RecordPage
<1>4. ASSUME NEW w \in Workers, Promote(w)
      PROVE  Referenced(path)' \/ Creating(path)'
  <2>1. /\ session'[w].pc = "promoted" /\ session'[w].tx = "open"
        /\ session'[w].page = session[w].page /\ session'[w].body = session[w].body
        /\ session'[w].created <=> Promotes(w)
        /\ \A v \in Workers : v # w => session'[v] = session[v]
    BY <1>4, <1>a, <1>f, PromotedFields DEF Promote, Working
  <2>2. Path(w) \in Urls \X Bodies /\ Path(w)' = Path(w) /\ ~InPlace(w)
    BY <1>4, <1>a, <2>1, PathTypes DEF Promote, Path, PathOf, InPlace
  <2>3. CASE Promotes(w) /\ path = Path(w)
    BY <2>1, <2>2, <2>3 DEF Creating, HoldsPath
  <2>4. CASE ~(Promotes(w) /\ path = Path(w))
    <3>1. file[path] # "none"
      BY <1>4, <1>a, <2>2, <2>4 DEF Promote, TypeOK
    <3>2. ~session[w].created
      BY <2>2 DEF IInv, CreatedInPlace
    <3>3. Creating(path) => Creating(path)'
      BY <2>1, <3>2 DEF Creating, HoldsPath, Path, PathOf
    <3> QED
      BY <1>4, <1>d, <1>e, <3>1, <3>3 DEF Promote
  <2> QED
    BY <2>3, <2>4
<1>5. ASSUME NEW w \in Workers, CommitArtifact(w)
      PROVE  Referenced(path)' \/ Creating(path)'
  <2>1. /\ session[w].page \in Pages /\ session[w].body \in Bodies
        /\ record' = [record EXCEPT ![session[w].page] = session[w].body]
        /\ HoldsRow(w, session[w].page) /\ HoldsPath(w, Path(w))
    BY <1>5, <1>a, PathTypes DEF CommitArtifact, Committed, HoldsRow, HoldsPath
  <2>2. record[session[w].page] = NoBody
    BY <1>a, <2>1 DEF IInv, OwnersOK
  <2>3. Referenced(path) => Referenced(path)'
    BY <1>a, <2>1, <2>2 DEF Referenced, PathOf, TypeOK
  <2>4. ASSUME path = Path(w) PROVE Referenced(path)'
    BY <1>a, <2>1, <2>4 DEF Referenced, Path, PathOf, TypeOK
  <2>5. ASSUME path # Path(w), Creating(path) PROVE Creating(path)'
    <3>1. PICK v \in Workers : HoldsPath(v, path) /\ session[v].created
      BY <2>5 DEF Creating
    <3>2. v # w
      BY <2>5, <3>1 DEF HoldsPath
    <3>3. session'[v] = session[v]
      BY <1>5, <1>a, <3>2 DEF CommitArtifact
    <3> QED
      BY <3>1, <3>3 DEF Creating, HoldsPath, Path, PathOf
  <2>6. file[path] # "none"
    BY <1>5 DEF CommitArtifact
  <2> QED
    BY <1>d, <2>3, <2>4, <2>5, <2>6
<1>6. ASSUME NEW w \in Workers, CommitFails(w)
      PROVE  Referenced(path)' \/ Creating(path)'
  BY <1>6, <1>f DEF CommitFails, Working
<1>7. ASSUME NEW w \in Workers, CleanUp(w)
      PROVE  Referenced(path)' \/ Creating(path)'
  <2>1. Others(w) /\ UNCHANGED record /\ session[w].pc # "idle"
    BY <1>7, <1>a DEF CleanUp, MustCleanUp, Others
  <2>2. Path(w) \in Urls \X Bodies
    BY <1>a, <2>1, PathTypes
  <2>3. file[path] # "none" /\ (session[w].created => path # Path(w))
    BY <1>7, <1>a, <2>2 DEF CleanUp, RemovesFile, TypeOK
  <2>4. ASSUME NEW v \in Workers, HoldsPath(v, path), session[v].created
        PROVE  HoldsPath(v, path)' /\ session'[v].created
    <3>1. v # w
      BY <2>3, <2>4 DEF HoldsPath
    <3> QED
      BY <2>1, <2>4, <3>1 DEF Others, HoldsPath, Path, PathOf
  <2> QED
    BY <1>d, <1>e, <2>1, <2>3, <2>4 DEF Creating
<1>8. CASE UNCHANGED <<session, file, record>>
  BY <1>8, <1>g DEF HoldsPath, Path, PathOf
<1> QED
  BY <1>b, <1>2, <1>3, <1>4, <1>5, <1>6, <1>7, <1>8 DEF Next, Proceed, LoseLease, vars

(* Without a fault no file stays behind that no committed artifact refers to. *)
THEOREM OrphanCorrectness == Spec => []NoOrphans
<1>1. Init => NoOrphans
  BY DEF Init, NoOrphans
<1>2. IInv /\ IInv' /\ NoOrphans /\ [Next]_vars => NoOrphans'
  BY OrphanStep
<1> QED
  BY <1>1, <1>2, InvariantHolds, PTL DEF Spec

-----------------------------------------------------------------------------
(* services/orchestrator.py: the artifact is committed by the transaction that
   has found the row its own and locked it, so a row never gets a second one. *)
THEOREM FinalCorrectness == Spec => ArtifactsAreFinal
<1> DEFINE Final == \A p \in Pages : record'[p] # record[p] =>
             /\ record[p] = NoBody
             /\ \E w \in Workers :
                  /\ owner[p] = w /\ session[w].page = p /\ record'[p] = session[w].body
                  /\ "abort" \notin faults => file'[PathOf(p, record'[p])] = "complete"
<1>1. ASSUME IInv, [Next]_vars, record' # record PROVE Final
  <2>1. PICK w \in Workers : CommitArtifact(w)
    BY <1>1 DEF Next, Proceed, Fetch, LoseLease, StopBeforeStaging, LockJob, Stage, StageFails,
                LockPath, Promote, MarkProcessing, RecordPage, CommitFails, CleanUp,
                DeadlockAbort, ServerAbort, Crash, vars
  <2> DEFINE q == session[w].page
  <2>2. q \in Pages /\ record \in [Pages -> Bodies \cup {NoBody}]
    BY <1>1, <2>1 DEF CommitArtifact, IInv, TypeOK
  <2>3. record' = [record EXCEPT ![q] = session[w].body] /\ file' = file
    BY <2>1 DEF CommitArtifact, Committed
  <2>4. owner[q] = w /\ record[q] = NoBody
    BY <1>1, <2>1, <2>2, ConstantsAssumption DEF CommitArtifact, HoldsRow, IInv, OwnersOK
  <2>5. "abort" \notin faults => file[PathOf(q, session[w].body)] = "complete"
    BY <1>1, <2>1 DEF CommitArtifact, IInv, FilesReady, InPlace, Path
  <2> QED
    BY <2>2, <2>3, <2>4, <2>5
<1>2. record' = record => Final
  OBVIOUS
<1>3. IInv /\ [Next]_vars => [Final]_vars
  <2> HIDE DEF Final
  <2> QED
    BY <1>1, <1>2
<1> QED
  BY <1>3, InvariantHolds, PTL DEF Spec, ArtifactsAreFinal
=============================================================================
