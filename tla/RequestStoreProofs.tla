------------------------- MODULE RequestStoreProofs -------------------------
(***************************************************************************)
(* What holds of RequestStore for every set of requests, sources, sessions *)
(* and operations and for every retention and quota: its types, one active *)
(* request per session, that it implements RequestLifecycle, and that the  *)
(* results it keeps stay within their quota.                               *)
(*                                                                         *)
(* What a save brings to disk is what memory holds, so the life cycle      *)
(* rests on how far memory may differ from the disk (MemoryFollowsDisk),   *)
(* which is inductive only together with what the stored rows and the lock *)
(* say of one another.  The quota is a bound on a sum over all requests:   *)
(* the part on sums shows how it moves when one request does.              *)
(***************************************************************************)
EXTENDS RequestStore, FiniteSetTheorems, WellFoundedInduction, TLAPS

-----------------------------------------------------------------------------
(* Facts about the index and the database as values *)

LEMMA NoTaskType == NoTask \in Task
BY BoundAssumption, NameAssumption DEF NoTask, Task, Time, Bytes, Active, Terminal

\* Changing or forgetting tasks and receipts leaves an index an index.
LEMMA SetTask ==
    ASSUME NEW m \in Index, NEW i, NEW t \in Task
    PROVE  [m EXCEPT !.task[i] = t] \in Index
BY DEF Index

LEMMA SetRejected ==
    ASSUME NEW m \in Index, NEW s, NEW at \in Time
    PROVE  [m EXCEPT !.rejected[s] = at] \in Index
BY DEF Index

LEMMA ForgetType ==
    ASSUME NEW m \in Index, NEW S
    PROVE  Forget(m, S) \in Index
BY NoTaskType DEF Index, Forget

LEMMA DropOldType ==
    ASSUME NEW receipts \in [Sources -> Time]
    PROVE  DropOld(receipts) \in [Sources -> Time]
BY BoundAssumption DEF DropOld, Time

LEMMA NoRowsType == NoResult \in Result /\ NoCompletion \in Completion
BY BoundAssumption, NameAssumption DEF NoResult, Result, NoCompletion, Completion, Time, Bytes, AllOps

LEMMA EmptyIndexType == EmptyIndex \in Index
BY NoTaskType, BoundAssumption DEF EmptyIndex, Index, Time

\* The rows of a database can be replaced one at a time.
LEMMA SetInput ==
    ASSUME NEW d \in Database, NEW i, NEW x \in {"none", "raw", "ready"}
    PROVE  [d EXCEPT !.input[i] = x] \in Database
BY DEF Database

LEMMA SetCompletion ==
    ASSUME NEW d \in Database, NEW i, NEW x \in Completion
    PROVE  [d EXCEPT !.completion[i] = x] \in Database
BY DEF Database

LEMMA SetResult ==
    ASSUME NEW d \in Database, NEW i, NEW x \in Result
    PROVE  [d EXCEPT !.result[i] = x] \in Database
BY DEF Database

\* The last receipt and one attempt of a result row change together.
LEMMA SetReceipt ==
    ASSUME NEW d \in Database, NEW i \in Ids, NEW o \in AllOps,
           NEW x \in {"succeeded", "explicit_failure", "ambiguous"},
           NEW a \in {"none", "succeeded", "explicit_failure", "ambiguous"}
    PROVE  [d EXCEPT !.result[i].receipt = x, !.result[i].attempts[o] = a] \in Database
<1>1. d.result[i] \in Result
  BY DEF Database
<1> DEFINE r1 == [d.result[i] EXCEPT !.receipt = x]
           f1 == [d.result EXCEPT ![i] = r1]
           d1 == [d EXCEPT !.result = f1]
           r2 == [d1.result[i] EXCEPT !.attempts = [@ EXCEPT ![o] = a]]
<1>2. r1 \in Result
  BY <1>1 DEF Result
<1>3. f1 \in [Ids -> Result]
  BY <1>2 DEF Database
<1>4. d1 \in Database /\ d1.result[i] = r1
  BY <1>3 DEF Database
<1>5. r1.attempts \in [AllOps -> {"none", "succeeded", "explicit_failure", "ambiguous"}]
  BY <1>2 DEF Result
<1>6. [r1.attempts EXCEPT ![o] = a] \in [AllOps -> {"none", "succeeded", "explicit_failure", "ambiguous"}]
  BY <1>5
<1>7. r2 \in Result
  BY <1>2, <1>4, <1>6 DEF Result
<1> HIDE DEF r1, f1, r2
<1>8. [d1 EXCEPT !.result[i] = r2] \in Database
  BY <1>4, <1>7, SetResult
<1>9. [d EXCEPT !.result[i].receipt = x, !.result[i].attempts[o] = a] = [d1 EXCEPT !.result[i] = r2]
  BY DEF r1, f1, r2
<1> QED
  BY <1>8, <1>9

LEMMA CountSend ==
    ASSUME NEW f \in [Ids -> [AllOps -> Nat]], NEW i \in Ids, NEW o \in AllOps
    PROVE  [f EXCEPT ![i][o] = @ + 1] \in [Ids -> [AllOps -> Nat]]
<1>1. f[i] \in [AllOps -> Nat]
  OBVIOUS
<1>2. f[i][o] + 1 \in Nat
  BY <1>1
<1>3. [f[i] EXCEPT ![o] = f[i][o] + 1] \in [AllOps -> Nat]
  BY <1>1, <1>2
<1> QED
  BY <1>3

\* The fields of a task a transition writes.
LEMMA EndedTaskType ==
    ASSUME NEW t \in Task, NEW state \in Active \cup Terminal, NEW u \in BOOLEAN, NEW at \in Time
    PROVE  [t EXCEPT !.state = state, !.unconfirmed = u, !.finishedAt = at] \in Task
BY DEF Task

LEMMA CompletedType ==
    ASSUME NEW t \in Task, NEW reply, now \in Time, MaxTaskBytes + reply \in Bytes
    PROVE  /\ Completed(t, reply) \in Task
           /\ Completed(t, reply).state = t.state
           /\ Completed(t, reply).completedAt = now
BY DEF Task, Completed

LEMMA FrozenType ==
    ASSUME NEW t \in Task, NEW size \in Bytes, now \in Time
    PROVE  /\ Frozen(t, size) \in Task
           /\ Frozen(t, size).state = t.state
           /\ Frozen(t, size).completedAt = IF t.completedAt = 0 THEN now ELSE t.completedAt
<1> DEFINE at == IF t.completedAt = 0 THEN now ELSE t.completedAt
<1>1. at \in Time
  BY DEF Task
<1>2. Frozen(t, size) = [t EXCEPT !.completedAt = at, !.archiveFailed = FALSE, !.bytes = size]
  BY DEF Frozen
<1> HIDE DEF at
<1>3. Frozen(t, size) \in Task
  BY <1>1, <1>2 DEF Task
<1>4. Frozen(t, size).state = t.state /\ Frozen(t, size).completedAt = at
  BY <1>2 DEF Task
<1> QED
  BY <1>3, <1>4 DEF at

LEMMA PreparedType ==
    ASSUME NEW t \in Task
    PROVE  [t EXCEPT !.pending = FALSE] \in Task
BY DEF Task

\* What saveLocked writes is a database, and it is what memory then holds.
LEMMA PersistType ==
    ASSUME NEW m \in Index, NEW d \in Database
    PROVE  Persist(d, m) \in Database
BY NoRowsType DEF Index, Database, Persist

LEMMA SaveType ==
    ASSUME NEW m \in Index, NEW d \in Database, Save(m, d)
    PROVE  mem' \in Index /\ db' \in Database
BY PersistType DEF Save

LEMMA StoredType ==
    ASSUME db \in Database
    PROVE  Stored \in Index
BY DEF Database, Index, Stored

-----------------------------------------------------------------------------
(* Type correctness *)

LEMMA TaskFacts ==
    ASSUME TypeOK, NEW i \in Ids
    PROVE  /\ mem.task[i] \in Task /\ db.task[i] \in Task
           /\ db.result[i] \in Result /\ db.completion[i] \in Completion
           /\ db.input[i] \in {"none", "raw", "ready"}
           /\ mem \in Index /\ db \in Database
BY DEF TypeOK, Index, Database

LEMMA NoRequestType == NoRequest \in Request
BY NameAssumption DEF NoRequest, Request

LEMMA UnlockedType == Unlocked \in Lock
BY NoRequestType DEF Unlocked, Lock

\* A transition of one task writes a well-formed task.
LEMMA TransitionType ==
    ASSUME TypeOK, NEW i \in Ids, NEW next \in Terminal \cup {"delivering"}, NEW u \in BOOLEAN,
           NEW d \in Database, Transition(i, next, u, d)
    PROVE  mem' \in Index /\ db' \in Database
<1> DEFINE t == mem.task[i]
           end == EndState(t, next)
           x == [t EXCEPT !.state = end, !.unconfirmed = u /\ end = "failed",
                          !.finishedAt = IF end \in Terminal THEN now ELSE 0]
<1>1. t \in Task /\ mem \in Index
  BY TaskFacts
<1>2. end \in Terminal \cup {"delivering"}
  BY DEF EndState, Terminal
<1>3. now \in Time /\ 0 \in Time
  BY BoundAssumption DEF TypeOK, Time
<1>4. x \in Task
  <2>1. (u /\ end = "failed") \in BOOLEAN
    OBVIOUS
  <2>2. (IF end \in Terminal THEN now ELSE 0) \in Time
    BY <1>3
  <2>3. end \in Active \cup Terminal
    BY <1>2 DEF Active
  <2> HIDE DEF t, end
  <2> QED
    BY <1>1, <2>1, <2>2, <2>3, EndedTaskType
<1>5. Save([mem EXCEPT !.task[i] = x], d)
  BY DEF Transition, Update
<1> QED
  BY <1>1, <1>4, <1>5, SetTask, SaveType

\* Each step of the store keeps every variable within its type.
LEMMA TypeNext == TypeOK /\ [Next]_vars => TypeOK'
<1> SUFFICES ASSUME TypeOK, [Next]_vars PROVE TypeOK'
  OBVIOUS
<1>a. mem \in Index /\ db \in Database /\ lock \in Lock /\ now \in Time
  BY DEF TypeOK
<1>b. 0 \in Time /\ now \in Time
  BY <1>a, BoundAssumption DEF Time
<1>c. lock.request \in Request /\ lock.id \in Ids \cup {None}
  BY <1>a DEF Lock
<1>1. ASSUME NEW s \in Sources, NEW g \in Targets, NEW t \in Threads \cup {None}, NEW p \in Pendings,
             Start(s, g, t, p)
      PROVE  TypeOK'
  <2>1. [source |-> s, target |-> g, thread |-> t, pending |-> p, retryOf |-> None] \in Request
    BY PendingAssumption DEF Request
  <2>2. lock' \in Lock
    BY <1>1, <2>1, UnlockedType DEF Start, Begin, Lock
  <2> QED
    BY <1>1, <2>2 DEF Start, TypeOK
<1>2. ASSUME NEW o \in Ids, NEW s \in Sources, Retry(o, s) PROVE TypeOK'
  <2>1. mem.task[o] \in Task
    BY TaskFacts
  <2> QED
    <3>1. [source |-> s, target |-> mem.task[o].target, thread |-> mem.task[o].thread,
           pending |-> db.input[o] = "raw", retryOf |-> o] \in Request
      <4>1. (db.input[o] = "raw") \in BOOLEAN
        OBVIOUS
      <4> QED
        BY <2>1, <4>1 DEF Request, Task
    <3>2. lock' \in Lock
      BY <1>2, <3>1, UnlockedType DEF Retry, Begin, Lock
    <3> QED
      BY <1>2, <3>2 DEF Retry, TypeOK
<1>3. CASE AdmitRefused
  BY <1>3, UnlockedType DEF AdmitRefused, TypeOK
<1>4. CASE AdmitBusy
  <2>1. [mem EXCEPT !.rejected[lock.request.source] = now] \in Index
    BY <1>a, SetRejected
  <2>2. mem' \in Index /\ db' \in Database
    BY <1>4, <1>a, <2>1, SaveType DEF AdmitBusy
  <2> QED
    BY <1>4, <2>2, UnlockedType DEF AdmitBusy, TypeOK
<1>5. CASE StartCommit
  <2> DEFINE r == lock.request
             x == [NoTask EXCEPT !.source = r.source, !.target = r.target, !.thread = r.thread,
                                 !.state = "running", !.pending = r.pending, !.retryOf = r.retryOf]
             y == IF r.pending THEN "raw" ELSE "ready"
  <2>1. x \in Task
    BY <1>c, NoTaskType DEF Task, Request, Active
  <2>2. [db EXCEPT !.input[lock.id] = y] \in Database
    BY <1>a, SetInput
  <2>3. [mem EXCEPT !.task[lock.id] = x] \in Index
    BY <1>a, <2>1, SetTask
  <2>4. Save([mem EXCEPT !.task[lock.id] = x], [db EXCEPT !.input[lock.id] = y])
    BY <1>5 DEF StartCommit
  <2>5. mem' \in Index /\ db' \in Database
    BY <2>2, <2>3, <2>4, SaveType
  <2>6. born' \in [Ids -> [source: Sources \cup {None}, at: Time]]
    BY <1>5, <1>b, <1>c DEF StartCommit, TypeOK, Request
  <2> QED
    BY <1>5, <2>5, <2>6, UnlockedType DEF StartCommit, TypeOK
<1>6. ASSUME NEW i \in Ids, AdmitStage(i) PROVE TypeOK'
  BY <1>6 DEF AdmitStage, TypeOK, Lock
<1>7. CASE CleanupExpired
  BY <1>7, UnlockedType, NoRequestType DEF CleanupExpired, Begin, TypeOK, Lock
<1>8. CASE CleanRows
  <2>1. ExpireRows(db) \in Database
    BY <1>a, NoRowsType DEF ExpireRows, Database
  <2> QED
    BY <1>8, <2>1 DEF CleanRows, TypeOK, Lock
<1>9. CASE CleanReceipts
  <2> DEFINE m == [mem EXCEPT !.rejected = DropOld(mem.rejected), !.cleared = DropOld(mem.cleared)]
  <2>1. m \in Index
    BY <1>a, DropOldType DEF Index
  <2>2. mem' \in Index /\ db' \in Database
    <3>1. CASE m = mem
      BY <1>9, <1>a, <3>1 DEF CleanReceipts
    <3>2. CASE m # mem
      BY <1>9, <1>a, <2>1, <3>2, SaveType DEF CleanReceipts
    <3> QED
      BY <3>1, <3>2
  <2> QED
    BY <1>9, <2>2 DEF CleanReceipts, TypeOK, Lock
<1>10. CASE CleanFiles
  BY <1>10 DEF CleanFiles, TypeOK, Lock
<1>11. CASE CleanHistory
  <2>1. AfterCleanup \in Lock
    BY <1>a, UnlockedType DEF AfterCleanup, Lock
  <2>2. mem' \in Index /\ db' \in Database
    <3>1. CASE Outdated(mem) = {}
      BY <1>11, <1>a, <3>1 DEF CleanHistory
    <3>2. CASE Outdated(mem) # {}
      <4>1. Forget(mem, Outdated(mem)) \in Index
        BY <1>a, ForgetType
      <4> QED
        BY <1>11, <1>a, <3>2, <4>1, SaveType DEF CleanHistory
    <3> QED
      BY <3>1, <3>2
  <2> QED
    BY <1>11, <2>1, <2>2 DEF CleanHistory, TypeOK
<1>12. ASSUME NEW i \in Ids, Touch(i) PROVE TypeOK'
  <2>1. mem' \in Index /\ db' \in Database
    BY <1>12, <1>a, SaveType DEF Touch
  <2> QED
    BY <1>12, <2>1 DEF Touch, TypeOK
<1>13. ASSUME NEW i \in Ids, AttachInput(i) PROVE TypeOK'
  <2> DEFINE x == [mem.task[i] EXCEPT !.pending = FALSE]
  <2>1. x \in Task
    BY TaskFacts, PreparedType
  <2>2. [db EXCEPT !.input[i] = "ready"] \in Database
    BY <1>a, SetInput
  <2>3. Save([mem EXCEPT !.task[i] = x], [db EXCEPT !.input[i] = "ready"])
    BY <1>13 DEF AttachInput, Update
  <2>4. mem' \in Index /\ db' \in Database
    BY <1>a, <2>1, <2>2, <2>3, SetTask, SaveType
  <2> QED
    BY <1>13, <2>4 DEF AttachInput, TypeOK
<1>14. ASSUME NEW i \in Ids, BeginDelivery(i) PROVE TypeOK'
  <2>1. mem' \in Index /\ db' \in Database
    BY <1>14, <1>a, TransitionType DEF BeginDelivery
  <2>2. sends' \in [Ids -> [AllOps -> Nat]]
    BY <1>14, CountSend DEF BeginDelivery, TypeOK, AllOps
  <2> QED
    BY <1>14, <2>1, <2>2 DEF BeginDelivery, TypeOK
<1>15. ASSUME NEW i \in Ids, Release(i) PROVE TypeOK'
  <2> DEFINE t == mem.task[i]
             m == [Forget(mem, {i}) EXCEPT !.cleared[t.source] = t.finishedAt]
  <2>1. t.finishedAt \in Time
    BY TaskFacts DEF Task
  <2>2. m \in Index
    BY <1>a, <2>1, ForgetType DEF Index
  <2>3. mem' \in Index /\ db' \in Database
    BY <1>15, <1>a, <2>2, SaveType DEF Release
  <2>4. lock' \in Lock
    BY <1>15, UnlockedType DEF Release, Lock
  <2> QED
    BY <1>15, <2>3, <2>4 DEF Release, TypeOK
<1>16. ASSUME NEW i \in Ids, NEW t \in Threads, AttachThread(i, t) PROVE TypeOK'
  <2> DEFINE x == [mem.task[i] EXCEPT !.thread = t]
  <2>1. x \in Task
    BY TaskFacts DEF Task
  <2>2. Save([mem EXCEPT !.task[i] = x], db)
    BY <1>16 DEF AttachThread, Update
  <2>3. mem' \in Index /\ db' \in Database
    BY <1>a, <2>1, <2>2, SetTask, SaveType
  <2> QED
    BY <1>16, <2>3 DEF AttachThread, TypeOK
<1>17. ASSUME NEW i \in Ids, NEW u \in Turns, AttachTurn(i, u) PROVE TypeOK'
  <2> DEFINE x == [mem.task[i] EXCEPT !.turn = u]
  <2>1. x \in Task
    BY TaskFacts DEF Task
  <2>2. Save([mem EXCEPT !.task[i] = x], db)
    BY <1>17 DEF AttachTurn, Update
  <2>3. mem' \in Index /\ db' \in Database
    BY <1>a, <2>1, <2>2, SetTask, SaveType
  <2> QED
    BY <1>17, <2>3 DEF AttachTurn, TypeOK
<1>18. ASSUME NEW i \in Ids, NEW reply \in 0 .. MaxReplyBytes,
              CompleteExecution(i, reply) \/ CompleteExecutionUnsaved(i, reply)
       PROVE  TypeOK'
  <2> DEFINE x == Completed(mem.task[i], reply)
             c == [at |-> now, reply |-> reply]
  <2>1. MaxTaskBytes + reply \in Bytes
    BY BoundAssumption DEF Bytes
  <2>2. x \in Task
    BY <1>b, <2>1, TaskFacts, CompletedType
  <2>3. c \in Completion
    BY <1>b DEF Completion
  <2>4. CASE CompleteExecution(i, reply)
    <3>1. Save([mem EXCEPT !.task[i] = x], [db EXCEPT !.completion[i] = c])
      BY <2>4 DEF CompleteExecution, Update
    <3>2. mem' \in Index /\ db' \in Database
      BY <1>a, <2>2, <2>3, <3>1, SetTask, SetCompletion, SaveType
    <3> QED
      BY <2>4, <3>2 DEF CompleteExecution, TypeOK
  <2>5. CASE CompleteExecutionUnsaved(i, reply)
    <3>1. mem' \in Index
      BY <1>a, <2>2, <2>5, SetTask DEF CompleteExecutionUnsaved
    <3> QED
      BY <2>5, <3>1 DEF CompleteExecutionUnsaved, TypeOK
  <2> QED
    BY <1>18, <2>4, <2>5
<1>19. ASSUME NEW i \in Ids, NEW size \in Bytes \ {0}, NEW files \in BOOLEAN,
              FreezeResult(i, size, files)
       PROVE  TypeOK'
  <2> DEFINE x == Frozen(mem.task[i], size)
             r == [NoResult EXCEPT !.frozenAt = now, !.size = size, !.files = files]
             d == [db EXCEPT !.result[i] = r, !.completion[i] = NoCompletion]
  <2>1. x \in Task
    BY <1>b, TaskFacts, FrozenType
  <2>2. r \in Result
    BY <1>b, NoRowsType DEF Result
  <2>3. d \in Database
    BY <1>a, <2>2, NoRowsType DEF Database
  <2>4. Save([mem EXCEPT !.task[i] = x], d)
    BY <1>19 DEF FreezeResult, Update
  <2>5. mem' \in Index /\ db' \in Database
    BY <1>a, <2>1, <2>3, <2>4, SetTask, SaveType
  <2> QED
    BY <1>19, <2>5 DEF FreezeResult, TypeOK
<1>20. ASSUME NEW i \in Ids, NEW next \in Terminal, NEW u \in BOOLEAN, Finish(i, next, u)
       PROVE  TypeOK'
  <2>1. mem' \in Index /\ db' \in Database
    BY <1>20, <1>a, TransitionType DEF Finish
  <2> QED
    BY <1>20, <2>1 DEF Finish, TypeOK
<1>21. ASSUME NEW i \in Ids, NEW outcome \in SendOutcomes, CompleteDelivery(i, outcome)
       PROVE  TypeOK'
  <2> DEFINE r == db.result[i]
             a == IF \A o \in AllOps : r.attempts[o] = "none" THEN outcome ELSE r.attempts[None]
             d == [db EXCEPT !.result[i].receipt = outcome, !.result[i].attempts[None] = a]
  <2>1. r \in Result /\ outcome \in {"succeeded", "explicit_failure", "ambiguous"} /\ None \in AllOps
    BY TaskFacts, NameAssumption DEF AllOps
  <2>2. a \in {"none", "succeeded", "explicit_failure", "ambiguous"}
    BY <2>1 DEF Result
  <2>4. d \in Database
    <3> HIDE DEF a
    <3> QED
      BY <1>a, <2>1, <2>2, SetReceipt
  <2>5. Transition(i, "succeeded", FALSE, d)
    BY <1>21 DEF CompleteDelivery
  <2>6. mem' \in Index /\ db' \in Database
    BY <2>4, <2>5, TransitionType DEF Terminal
  <2> QED
    BY <1>21, <2>6 DEF CompleteDelivery, TypeOK
<1>22. ASSUME NEW i \in Ids, NEW o \in Ops, BeginRedelivery(i, o) PROVE TypeOK'
  <2>1. o \in AllOps
    BY DEF AllOps
  <2>2. db' \in Database
    BY <1>22, <1>a, <2>1, SetReceipt DEF BeginRedelivery
  <2>3. sends' \in [Ids -> [AllOps -> Nat]]
    BY <1>22, <2>1, CountSend DEF BeginRedelivery, TypeOK
  <2> QED
    BY <1>22, <2>2, <2>3 DEF BeginRedelivery, TypeOK
<1>23. ASSUME NEW i \in Ids, NEW o \in Ops, NEW outcome \in SendOutcomes, RecordDelivery(i, o, outcome)
       PROVE  TypeOK'
  <2>1. o \in AllOps /\ outcome \in {"succeeded", "explicit_failure", "ambiguous"}
    BY NameAssumption DEF AllOps
  <2>2. db' \in Database
    BY <1>23, <1>a, <2>1, SetReceipt DEF RecordDelivery
  <2> QED
    BY <1>23, <2>2 DEF RecordDelivery, TypeOK
<1>24. CASE ReleaseFiles
  BY <1>24, UnlockedType DEF ReleaseFiles, TypeOK
<1>25. ASSUME NEW s \in Sources, Reject(s) PROVE TypeOK'
  <2> DEFINE m == [mem EXCEPT !.rejected = [DropOld(mem.rejected) EXCEPT ![s] = now]]
  <2>1. m \in Index
    BY <1>a, <1>b, DropOldType DEF Index
  <2>2. mem' \in Index /\ db' \in Database
    BY <1>25, <1>a, <2>1, SaveType DEF Reject
  <2> QED
    BY <1>25, <2>2 DEF Reject, TypeOK
<1>26. CASE Crash
  BY <1>26, EmptyIndexType, UnlockedType DEF Crash, TypeOK
<1>27. CASE StepFails
  BY <1>27, EmptyIndexType, UnlockedType DEF StepFails, TypeOK
<1>28. CASE Boot
  <2>1. lock' \in Lock
    BY <1>28, UnlockedType DEF Boot, Lock, Known
  <2> QED
    BY <1>28, <1>a, <2>1, StoredType DEF Boot, TypeOK
<1>29. CASE SweepOrphans
  BY <1>29 DEF SweepOrphans, TypeOK, Lock, Known
<1>30. CASE BootSave
  <2>1. mem' \in Index /\ db' \in Database
    BY <1>30, <1>a, SaveType DEF BootSave
  <2> QED
    BY <1>30, <2>1, UnlockedType DEF BootSave, TypeOK
<1>31. ASSUME NEW i \in Ids, RecoverTask(i) PROVE TypeOK'
  <2> DEFINE t == mem.task[i]
  <2>1. t \in Task /\ db.result[i] \in Result /\ db.completion[i] \in Completion
    BY TaskFacts
  <2>2. Settled(t, i) \in Result
    BY <2>1, NameAssumption DEF Settled, Result, AllOps
  <2>3. db' \in Database
    BY <1>31, <1>a, <2>2, SetResult DEF RecoverTask
  <2>4. MaxTaskBytes + db.completion[i].reply \in Bytes
    BY <2>1, BoundAssumption DEF Completion, Bytes
  <2>5. Checkpointed(t, i) \in Task
    <3>1. db.completion[i].at \in Time
      BY <2>1 DEF Completion
    <3>2. [t EXCEPT !.completedAt = db.completion[i].at, !.archiveFailed = TRUE,
                    !.bytes = MaxTaskBytes + db.completion[i].reply] \in Task
      BY <2>1, <2>4, <3>1 DEF Task
    <3> QED
      BY <2>1, <3>2 DEF Checkpointed
  <2>6. Recovered(t, i) \in Task
    <3> DEFINE c == Checkpointed(t, i)
               end == IF c.completedAt # 0 THEN "succeeded" ELSE "interrupted"
    <3>1. CASE t.state \notin Active
      BY <2>1, <3>1 DEF Recovered
    <3>2. CASE t.state \in Active /\ Loadable(i)
      <4>1. Recovered(t, i) =
              [t EXCEPT !.state = "succeeded", !.unconfirmed = FALSE, !.finishedAt = now,
                        !.completedAt = db.result[i].frozenAt, !.archiveFailed = FALSE,
                        !.bytes = db.result[i].size]
        BY <3>2 DEF Recovered
      <4>2. db.result[i].frozenAt \in Time /\ db.result[i].size \in Bytes
        BY <2>1 DEF Result
      <4>3. "succeeded" \in Active \cup Terminal \cup {"absent"}
        BY DEF Terminal
      <4> QED
        BY <1>b, <2>1, <4>1, <4>2, <4>3 DEF Task
    <3>3. CASE t.state \in Active /\ ~ Loadable(i)
      <4>1. Recovered(t, i) = [c EXCEPT !.state = end, !.unconfirmed = FALSE, !.finishedAt = now]
        BY <3>3 DEF Recovered
      <4>2. end \in Active \cup Terminal
        BY DEF Terminal
      <4> HIDE DEF c, end
      <4>3. c \in Task
        BY <2>5 DEF c
      <4>4. FALSE \in BOOLEAN
        OBVIOUS
      <4>5. [c EXCEPT !.state = end, !.unconfirmed = FALSE, !.finishedAt = now] \in Task
        BY ONLY <1>b, <4>2, <4>3, <4>4, EndedTaskType
      <4> QED
        BY <4>1, <4>5
    <3> QED
      BY <3>1, <3>2, <3>3
  <2>7. [mem EXCEPT !.task[i] = Recovered(t, i)] \in Index
    BY <1>a, <2>6, SetTask
  <2>8. CASE BootBlocked(t, i)
    BY <1>31, <2>3, <2>8, EmptyIndexType, UnlockedType DEF RecoverTask, TypeOK
  <2>9. CASE ~ BootBlocked(t, i)
    <3>1. lock' \in Lock
      BY <1>31, <1>a, <2>9 DEF RecoverTask, Lock
    <3> QED
      BY <1>31, <2>3, <2>7, <2>9, <3>1 DEF RecoverTask, TypeOK
  <2> QED
    BY <2>8, <2>9
<1>32. ASSUME NEW i \in Ids, Damage(i) PROVE TypeOK'
  BY <1>32 DEF Damage, TypeOK
<1>33. CASE Tick
  BY <1>33, BoundAssumption DEF Tick, TypeOK, Time
<1>34. CASE UNCHANGED vars
  BY <1>34 DEF vars, TypeOK
<1> QED
  BY <1>1, <1>2, <1>3, <1>4, <1>5, <1>6, <1>7, <1>8, <1>9, <1>10, <1>11, <1>12, <1>13, <1>14,
     <1>15, <1>16, <1>17, <1>18, <1>19, <1>20, <1>21, <1>22, <1>23, <1>24, <1>25, <1>26, <1>27,
     <1>28, <1>29, <1>30, <1>31, <1>32, <1>33, <1>34 DEF Next

LEMMA TypeInit == Init => TypeOK
<1> SUFFICES ASSUME Init PROVE TypeOK
  OBVIOUS
<1> DEFINE d == [input |-> [i \in Ids |-> "none"], completion |-> [i \in Ids |-> NoCompletion],
                 result |-> [i \in Ids |-> NoResult]]
<1>1. Persist(d, EmptyIndex) \in Database
  BY EmptyIndexType, NoRowsType DEF Persist, Index, Database
<1>2. now \in Time /\ 0 \in Time
  BY BoundAssumption DEF Init, Time
<1>3. AllOps # {} /\ born \in [Ids -> [source: Sources \cup {None}, at: Time]]
  BY <1>2 DEF Init, AllOps
<1> QED
  BY <1>1, <1>2, <1>3, EmptyIndexType, UnlockedType DEF Init, TypeOK

\* Every variable of the store keeps its type, for all constants: no operation,
\* failed save, crash or startup writes a row or an index the Go types and the
\* column checks of the schema would not admit.
THEOREM TypeCorrect == Spec => []TypeOK
BY TypeInit, TypeNext, PTL DEF Spec

-----------------------------------------------------------------------------
(* One active request per session *)

\* The property, of one index.
OneActiveIn(m) ==
    \A i, j \in Ids : i # j /\ m.task[i].state \in Active /\ m.task[j].state \in Active =>
        SessionKey(m.task[i]) # SessionKey(m.task[j])

\* saveLocked checks what it writes, and memory and disk are that index then.
LEMMA SavedIsOneActive ==
    ASSUME NEW m, NEW d, Save(m, d)
    PROVE  OneActivePerSession'
<1>1. OneActiveIn(m)
  BY DEF Save, ValidIndex, OneActiveIn, Known, Active
<1>2. mem'.task = m.task /\ db'.task = m.task
  BY DEF Save, Persist
<1> QED
  BY <1>1, <1>2 DEF OneActiveIn, OneActivePerSession, Stored

\* A step that saves nothing may end requests in memory or mark them.
LEMMA UnsavedIsOneActive ==
    ASSUME OneActivePerSession, db'.task = db.task,
           \A i \in Ids : mem'.task[i].state \in Active =>
               /\ mem.task[i].state \in Active
               /\ SessionKey(mem'.task[i]) = SessionKey(mem.task[i])
    PROVE  OneActivePerSession'
<1>1. OneActiveIn(mem) /\ OneActiveIn(Stored)
  BY DEF OneActivePerSession, OneActiveIn
<1>2. OneActiveIn(mem)'
  BY <1>1 DEF OneActiveIn
<1>3. OneActiveIn(Stored)'
  BY <1>1 DEF OneActiveIn, Stored
<1> QED
  BY <1>2, <1>3 DEF OneActivePerSession, OneActiveIn

LEMMA OneActiveNext == TypeOK /\ OneActivePerSession /\ [Next]_vars => OneActivePerSession'
<1> SUFFICES ASSUME TypeOK, OneActivePerSession, [Next]_vars PROVE OneActivePerSession'
  OBVIOUS
<1>a. mem \in Index /\ db \in Database
  BY DEF TypeOK
<1>b. ASSUME mem' = mem, db'.task = db.task PROVE OneActivePerSession'
  BY <1>b, UnsavedIsOneActive
<1>c. ASSUME mem' = EmptyIndex, db'.task = db.task PROVE OneActivePerSession'
  <2>1. \A i \in Ids : mem'.task[i].state \notin Active
    BY <1>c DEF EmptyIndex, NoTask, Active
  <2> QED
    BY <1>c, <2>1, UnsavedIsOneActive
\* Steps that save an index
<1>1. CASE AdmitBusy \/ StartCommit \/ BootSave
  BY <1>1, SavedIsOneActive DEF AdmitBusy, StartCommit, BootSave
<1>2. ASSUME NEW i \in Ids, Touch(i) \/ AttachInput(i) \/ BeginDelivery(i) \/ Release(i)
      PROVE  OneActivePerSession'
  BY <1>2, SavedIsOneActive DEF Touch, AttachInput, BeginDelivery, Release, Transition, Update
<1>3. ASSUME NEW i \in Ids, NEW t \in Threads, AttachThread(i, t) PROVE OneActivePerSession'
  BY <1>3, SavedIsOneActive DEF AttachThread, Update
<1>4. ASSUME NEW i \in Ids, NEW u \in Turns, AttachTurn(i, u) PROVE OneActivePerSession'
  BY <1>4, SavedIsOneActive DEF AttachTurn, Update
<1>5. ASSUME NEW i \in Ids, NEW reply \in 0 .. MaxReplyBytes, CompleteExecution(i, reply)
      PROVE  OneActivePerSession'
  BY <1>5, SavedIsOneActive DEF CompleteExecution, Update
<1>6. ASSUME NEW i \in Ids, NEW size \in Bytes \ {0}, NEW files \in BOOLEAN, FreezeResult(i, size, files)
      PROVE  OneActivePerSession'
  BY <1>6, SavedIsOneActive DEF FreezeResult, Update
<1>7. ASSUME NEW i \in Ids, NEW next \in Terminal, NEW u \in BOOLEAN, Finish(i, next, u)
      PROVE  OneActivePerSession'
  BY <1>7, SavedIsOneActive DEF Finish, Transition, Update
<1>8. ASSUME NEW i \in Ids, NEW outcome \in SendOutcomes, CompleteDelivery(i, outcome)
      PROVE  OneActivePerSession'
  BY <1>8, SavedIsOneActive DEF CompleteDelivery, Transition, Update
<1>9. ASSUME NEW s \in Sources, Reject(s) PROVE OneActivePerSession'
  BY <1>9, SavedIsOneActive DEF Reject
<1>10. CASE CleanReceipts \/ CleanHistory
  BY <1>10, <1>b, SavedIsOneActive DEF CleanReceipts, CleanHistory
\* Steps that save none
<1>11. ASSUME NEW s \in Sources, NEW g \in Targets, NEW t \in Threads \cup {None}, NEW p \in Pendings,
              Start(s, g, t, p)
       PROVE  OneActivePerSession'
  BY <1>11, <1>b DEF Start
<1>12. ASSUME NEW o \in Ids, NEW s \in Sources, Retry(o, s) PROVE OneActivePerSession'
  BY <1>12, <1>b DEF Retry
<1>13. CASE AdmitRefused \/ CleanupExpired \/ CleanFiles \/ ReleaseFiles \/ SweepOrphans \/ Tick
  BY <1>13, <1>b DEF AdmitRefused, CleanupExpired, CleanFiles, ReleaseFiles, SweepOrphans, Tick
<1>14. ASSUME NEW i \in Ids, AdmitStage(i) \/ Damage(i) PROVE OneActivePerSession'
  BY <1>14, <1>b DEF AdmitStage, Damage
<1>15. CASE CleanRows
  <2>1. db'.task = db.task
    BY <1>15, <1>a DEF CleanRows, ExpireRows, Database
  <2> QED
    BY <1>15, <1>b, <2>1 DEF CleanRows
<1>16. ASSUME NEW i \in Ids, NEW o \in Ops, BeginRedelivery(i, o) PROVE OneActivePerSession'
  <2>1. db'.task = db.task
    BY <1>16, <1>a DEF BeginRedelivery, Database
  <2> QED
    BY <1>16, <1>b, <2>1 DEF BeginRedelivery
<1>17. ASSUME NEW i \in Ids, NEW o \in Ops, NEW outcome \in SendOutcomes, RecordDelivery(i, o, outcome)
       PROVE  OneActivePerSession'
  <2>1. db'.task = db.task
    BY <1>17, <1>a DEF RecordDelivery, Database
  <2> QED
    BY <1>17, <1>b, <2>1 DEF RecordDelivery
<1>18. ASSUME NEW i \in Ids, NEW reply \in 0 .. MaxReplyBytes, CompleteExecutionUnsaved(i, reply)
       PROVE  OneActivePerSession'
  <2> DEFINE x == Completed(mem.task[i], reply)
  <2>1. /\ x.state = mem.task[i].state /\ x.thread = mem.task[i].thread
        /\ x.target = mem.task[i].target
    BY TaskFacts DEF Completed, Task
  <2>2. mem'.task = [mem.task EXCEPT ![i] = x] /\ mem.task \in [Ids -> Task] /\ db' = db
    BY <1>18, <1>a DEF CompleteExecutionUnsaved, Index
  <2> HIDE DEF x
  <2> QED
    BY <2>1, <2>2, UnsavedIsOneActive DEF SessionKey
\* Crash and startup
<1>19. CASE Crash
  BY <1>19, <1>c DEF Crash
<1>20. CASE StepFails
  BY <1>20, <1>b, <1>c DEF StepFails
<1>21. CASE Boot
  <2>1. mem'.task = Stored.task /\ db'.task = Stored.task
    BY <1>21 DEF Boot, Stored
  <2>2. OneActiveIn(Stored)
    BY DEF OneActivePerSession, OneActiveIn
  <2> QED
    BY <2>1, <2>2 DEF OneActivePerSession, OneActiveIn, Stored
<1>22. ASSUME NEW i \in Ids, RecoverTask(i) PROVE OneActivePerSession'
  <2> DEFINE t == mem.task[i]
             x == Recovered(t, i)
  <2>1. db'.task = db.task
    BY <1>22, <1>a DEF RecoverTask, Database
  <2>2. CASE BootBlocked(t, i)
    BY <1>22, <1>c, <2>1, <2>2 DEF RecoverTask
  <2>3. CASE ~ BootBlocked(t, i)
    <3>1. mem'.task = [mem.task EXCEPT ![i] = x] /\ mem.task \in [Ids -> Task]
      BY <1>22, <1>a, <2>3 DEF RecoverTask, Index
    <3>2. x.state \notin Active
      <4>1. t \in Task
        BY TaskFacts
      <4>2. CASE t.state \notin Active
        BY <4>2 DEF Recovered
      <4>3. CASE t.state \in Active /\ Loadable(i)
        BY <4>1, <4>3 DEF Recovered, Task, Active
      <4>4. CASE t.state \in Active /\ ~ Loadable(i)
        <5> DEFINE c == Checkpointed(t, i)
        <5>1. x = [c EXCEPT !.state = IF c.completedAt # 0 THEN "succeeded" ELSE "interrupted",
                            !.unconfirmed = FALSE, !.finishedAt = now]
          BY <4>4 DEF Recovered
        <5>2. "state" \in DOMAIN c
          BY <4>1 DEF Checkpointed, Task
        <5> HIDE DEF c
        <5> QED
          BY <5>1, <5>2 DEF Active
      <4> QED
        BY <4>2, <4>3, <4>4
    <3> HIDE DEF x
    <3> QED
      BY <2>1, <3>1, <3>2, UnsavedIsOneActive
  <2> QED
    BY <2>2, <2>3
<1>23. CASE UNCHANGED vars
  BY <1>23, <1>b DEF vars
<1> QED
  BY <1>1, <1>2, <1>3, <1>4, <1>5, <1>6, <1>7, <1>8, <1>9, <1>10, <1>11, <1>12, <1>13, <1>14,
     <1>15, <1>16, <1>17, <1>18, <1>19, <1>20, <1>21, <1>22, <1>23 DEF Next

LEMMA OneActiveInit == Init => OneActivePerSession
<1> SUFFICES ASSUME Init PROVE OneActivePerSession
  OBVIOUS
<1>1. mem.task = EmptyIndex.task /\ Stored.task = EmptyIndex.task
  BY DEF Init, Persist, Stored
<1> QED
  BY <1>1 DEF OneActivePerSession, EmptyIndex, NoTask, Active

\* For all constants, a session never has two active requests, in memory or
\* on disk: neither an admission, nor a thread attached to a request whose
\* intent had none, nor a restart puts a second one into it.
THEOREM SessionsExclusive == Spec => []OneActivePerSession
BY TypeInit, TypeNext, OneActiveInit, OneActiveNext, PTL DEF Spec

-----------------------------------------------------------------------------
(* Memory and disk: the inductive invariant *)

\* A request row, the result row beside it and the history agree: an
\* identifier that was not drawn has no row, no result outlives its request,
\* and a request with a frozen result or in delivery is known to have completed.
RowOK(t, r, b) ==
    /\ b.at = 0 => t.state = "absent"
    /\ t.state = "absent" => r.frozenAt = 0
    /\ t.state = "running" /\ r.frozenAt # 0 => t.completedAt # 0
    /\ t.state = "delivering" => t.completedAt # 0

RowsAgree == \A i \in Ids : RowOK(db.task[i], db.result[i], born[i])

\* Recovery happens at startup and removal in Release only; a request about to be recorded is new.
LockAgrees ==
    /\ lock.step = "recover" => lock.op = "boot"
    /\ lock.step = "remove" => lock.op = "release"
    /\ lock.step = "commit" => lock.id \in Ids /\ born[lock.id].at = 0

IInv == TypeOK /\ now # 0 /\ MemoryFollowsDisk /\ RowsAgree /\ LockAgrees

\* The life cycle lets a request pass from status a to status b.
May(a, b) == a = b \/ Lifecycle!Edge(a, b)

\* Row t, saved with result r, is a lawful successor of request i's row.
Good(i, t, r) ==
    /\ May(Status(db.task[i], i), Status(t, i))
    /\ RowOK(t, IF t.state = "absent" THEN NoResult ELSE r, born[i])

\* What every step owes to the proof, but for the bookkeeping of the lock.
StepOK ==
    /\ MemoryFollowsDisk' /\ RowsAgree'
    /\ \A i \in Ids : May(Status(db.task[i], i), Status(db.task[i], i)')

-----------------------------------------------------------------------------
(* What a step does to the rows *)

\* Saving a task as memory has it, or with other fields changed, is lawful.
LEMMA KeptIsGood ==
    ASSUME IInv, up, NEW i \in Ids, NEW t,
           t.state = mem.task[i].state, t.completedAt = mem.task[i].completedAt
    PROVE  Good(i, t, db.result[i])
<1>1. RowOK(db.task[i], db.result[i], born[i])
  BY DEF IInv, RowsAgree
<1>2. mem.task[i] = db.task[i] \/ Unsaved(i) \/ Recovering(i)
  BY DEF IInv, MemoryFollowsDisk
<1>3. CASE mem.task[i] = db.task[i]
  BY <1>1, <1>3 DEF Good, May, Status, RowOK, NoResult
<1>4. CASE Unsaved(i)
  BY <1>1, <1>4 DEF Good, May, Status, RowOK, Unsaved, Lifecycle!Edge
<1>5. CASE Recovering(i)
  <2>1. CASE db.task[i].state = "running"
    BY <1>1, <1>5, <2>1 DEF Good, May, Status, RowOK, Recovering, Lifecycle!Edge, Lifecycle!Ended
  <2>2. CASE db.task[i].state = "delivering"
    BY <1>1, <1>5, <2>2 DEF Good, May, Status, RowOK, Recovering, Lifecycle!Edge, Lifecycle!Ended
  <2> QED
    BY <1>5, <2>1, <2>2 DEF Recovering, Active
<1> QED
  BY <1>2, <1>3, <1>4, <1>5

\* A save of lawful rows is a lawful step: memory and disk agree after it.
LEMMA SaveIsOK ==
    ASSUME IInv, NEW m \in Index, NEW d \in Database, Save(m, d), born' = born,
           \A i \in Ids : Good(i, m.task[i], d.result[i])
    PROVE  StepOK
<1>1. mem' = m /\ db'.task = m.task
  BY DEF Save, Persist
<1>2. \A i \in Ids : db'.result[i] = IF m.task[i].state = "absent" THEN NoResult ELSE d.result[i]
  BY DEF Save, Persist, Known
<1>3. MemoryFollowsDisk'
  BY <1>1 DEF MemoryFollowsDisk
<1>4. RowsAgree'
  BY <1>1, <1>2 DEF RowsAgree, Good
<1>5. \A i \in Ids : Status(db.task[i], i)' = Status(m.task[i], i)
  BY <1>1 DEF Status
<1> QED
  BY <1>3, <1>4, <1>5 DEF StepOK, Good

\* The common case: one request changes, the others are saved as they are.
LEMMA UpdateIsOK ==
    ASSUME IInv, up, NEW i \in Ids, NEW t \in Task, NEW d \in Database, Update(i, t, d), born' = born,
           \A j \in Ids \ {i} : d.result[j] = db.result[j],
           Good(i, t, d.result[i])
    PROVE  StepOK
<1> DEFINE m == [mem EXCEPT !.task[i] = t]
<1>1. mem \in Index /\ m \in Index
  BY SetTask DEF IInv, TypeOK
<1>2. m.task = [mem.task EXCEPT ![i] = t] /\ mem.task \in [Ids -> Task]
  BY <1>1 DEF Index
<1>3. ASSUME NEW j \in Ids PROVE Good(j, m.task[j], d.result[j])
  <2>1. CASE j = i
    BY <1>2, <2>1
  <2>2. CASE j # i
    <3>1. m.task[j] = mem.task[j] /\ d.result[j] = db.result[j]
      BY <1>2, <2>2
    <3> QED
      BY <3>1, KeptIsGood
  <2> QED
    BY <2>1, <2>2
<1>4. Save(m, d)
  BY DEF Update
<1> HIDE DEF m
<1> QED
  BY <1>1, <1>3, <1>4, SaveIsOK

\* A step that leaves the requests alone in memory and on disk.
LEMMA StillIsOK ==
    ASSUME IInv, mem'.task = mem.task, db'.task = db.task, born' = born, up' => up,
           \A i \in Ids : db'.result[i].frozenAt \in {0, db.result[i].frozenAt},
           lock'.op = "boot" <=> lock.op = "boot",
           now' = now \/ lock.op # "boot"
    PROVE  StepOK
<1>1. MemoryFollowsDisk'
  BY DEF IInv, MemoryFollowsDisk, Unsaved, Recovering
<1>2. RowsAgree'
  BY DEF IInv, RowsAgree, RowOK
<1>3. \A i \in Ids : Status(db.task[i], i)' = Status(db.task[i], i)
  BY DEF Status
<1> QED
  BY <1>1, <1>2, <1>3 DEF StepOK, May

\* While no startup is in progress memory is ahead by a completion at most.
LEMMA OwnOrUnsaved ==
    ASSUME IInv, up, lock.op # "boot", NEW i \in Ids
    PROVE  /\ mem.task[i] = db.task[i] \/ Unsaved(i)
           /\ RowOK(db.task[i], db.result[i], born[i])
           /\ mem.task[i] \in Task
BY DEF IInv, MemoryFollowsDisk, Recovering, RowsAgree, TypeOK, Index

\* The tables after the receipt and one attempt of a result were written.
Receipted(d, i, o, x, a) == [d EXCEPT !.result[i].receipt = x, !.result[i].attempts[o] = a]

\* Writing a receipt leaves the requests and the frozen results in place.
LEMMA ReceiptRows ==
    ASSUME NEW d \in Database, NEW i \in Ids, NEW o, NEW x, NEW a
    PROVE  /\ Receipted(d, i, o, x, a).task = d.task
           /\ \A j \in Ids : Receipted(d, i, o, x, a).result[j].frozenAt = d.result[j].frozenAt
           /\ \A j \in Ids \ {i} : Receipted(d, i, o, x, a).result[j] = d.result[j]
<1>1. d.result \in [Ids -> Result]
  BY DEF Database
<1>2. d.result[i] \in Result
  BY <1>1
<1> DEFINE r1 == [d.result[i] EXCEPT !.receipt = x]
           r2 == [r1 EXCEPT !.attempts = [@ EXCEPT ![o] = a]]
           e == Receipted(d, i, o, x, a)
<1>3. r2.frozenAt = d.result[i].frozenAt
  BY <1>2 DEF Result
<1>4. e.task = d.task /\ e.result = [[d.result EXCEPT ![i] = r1] EXCEPT ![i] = r2]
  BY <1>1 DEF Database, Receipted
<1> HIDE DEF r1, r2
<1> QED
  BY <1>1, <1>3, <1>4

\* Ending a request, or handing it to the channel, is lawful: completed work
\* only succeeds, and only work the disk knows to be completed is delivered.
LEMMA TransitionIsOK ==
    ASSUME IInv, Idle, born' = born, NEW i \in Ids, NEW next \in Terminal \cup {"delivering"},
           NEW u \in BOOLEAN, NEW d \in Database, Transition(i, next, u, d),
           next = "delivering" => db.result[i].frozenAt # 0,
           \A j \in Ids \ {i} : d.result[j] = db.result[j]
    PROVE  StepOK
<1> DEFINE t == mem.task[i]
           end == EndState(t, next)
           x == [t EXCEPT !.state = end, !.unconfirmed = u /\ end = "failed",
                          !.finishedAt = IF end \in Terminal THEN now ELSE 0]
<1>1. up /\ lock.op # "boot"
  BY DEF Idle, Unlocked
<1>2. /\ t \in Task
      /\ t = db.task[i] \/ Unsaved(i)
      /\ RowOK(db.task[i], db.result[i], born[i])
  BY <1>1, OwnOrUnsaved
<1>3. AllowedTransition(t, end) /\ Update(i, x, d)
  BY DEF Transition
<1>4. end \in Terminal \cup {"delivering"} /\ (end = "delivering" => next = "delivering")
  BY DEF EndState, Terminal
<1>5. x \in Task
  <2>1. (u /\ end = "failed") \in BOOLEAN
    OBVIOUS
  <2>2. (IF end \in Terminal THEN now ELSE 0) \in Time
    BY BoundAssumption DEF IInv, TypeOK, Time
  <2>3. end \in Active \cup Terminal
    BY <1>4 DEF Active
  <2> HIDE DEF t, end
  <2> QED
    BY <1>2, <2>1, <2>2, <2>3, EndedTaskType
<1>6. x.state = end /\ x.completedAt = t.completedAt
  BY <1>2 DEF Task
<1>7. t.state \in Active /\ born[i].at # 0
  BY <1>2, <1>3 DEF AllowedTransition, Active, Unsaved, RowOK
<1>8. end = "delivering" \/ end \in Terminal
  BY <1>4
<1>9. Good(i, x, d.result[i])
  <2>1. CASE end = "delivering"
    <3>1. t.state = "running" /\ db.result[i].frozenAt # 0
      BY <1>3, <1>4, <2>1 DEF AllowedTransition
    <3>2. t = db.task[i] /\ t.completedAt # 0
      BY <1>2, <3>1 DEF RowOK, Unsaved
    <3>3. Status(db.task[i], i) = "completed" /\ Status(x, i) = "delivering"
      BY <1>6, <2>1, <3>1, <3>2 DEF Status
    <3> HIDE DEF x, t
    <3> QED
      BY <1>6, <1>7, <2>1, <3>2, <3>3 DEF Good, May, RowOK, Lifecycle!Edge
  <2>2. CASE end \in Terminal
    <3>1. Status(x, i) = end
      BY <1>6, <2>2 DEF Status, Terminal
    <3>2. Lifecycle!Edge(Status(db.task[i], i), end)
      <4>1. CASE t.completedAt # 0
        <5>1. end = "succeeded"
          BY <1>4, <2>2, <4>1 DEF EndState, Terminal
        <5>2. Status(db.task[i], i) \in {"executing", "completed", "delivering"}
          BY <1>2, <1>7 DEF Status, Active, Unsaved
        <5> QED
          BY <5>1, <5>2 DEF Lifecycle!Edge, Lifecycle!Ended
      <4>2. CASE t.completedAt = 0
        <5>1. t = db.task[i] /\ t.state = "running"
          BY <1>2, <1>7, <4>2 DEF Unsaved, RowOK, Active
        <5>2. Status(db.task[i], i) = "executing"
          BY <4>2, <5>1 DEF Status
        <5> QED
          BY <2>2, <5>2 DEF Lifecycle!Edge, Lifecycle!Ended, Terminal
      <4> QED
        BY <4>1, <4>2
    <3> HIDE DEF x, t, end
    <3> QED
      BY <1>6, <1>7, <2>2, <3>1, <3>2 DEF Good, May, RowOK, Terminal
  <2> QED
    BY <1>8, <2>1, <2>2
<1> HIDE DEF x
<1> QED
  BY <1>1, <1>3, <1>5, <1>9, UpdateIsOK

\* Forgetting a request is lawful once it has ended and the disk knows it.
LEMMA ForgottenIsGood ==
    ASSUME IInv, NEW i \in Ids, db.task[i].state \in Terminal, NEW r
    PROVE  Good(i, NoTask, r)
<1>1. born[i].at # 0
  BY DEF IInv, RowsAgree, RowOK, Terminal
<1>2. Status(db.task[i], i) \in Lifecycle!Ended /\ Status(NoTask, i) = "forgotten"
  BY <1>1 DEF Status, Terminal, NoTask, Lifecycle!Ended
<1> QED
  BY <1>2 DEF Good, May, RowOK, NoTask, NoResult, Lifecycle!Edge

-----------------------------------------------------------------------------
(* Every step *)

\* The lock's bookkeeping is kept, and the clock never reads "never".
LEMMA LockNext == IInv /\ [Next]_vars => LockAgrees' /\ (now # 0)'
<1> SUFFICES ASSUME IInv, [Next]_vars PROVE LockAgrees' /\ now' # 0
  OBVIOUS
<1>a. lock \in Lock /\ now \in Time /\ now # 0 /\ LockAgrees
  BY DEF IInv, TypeOK
<1>b. ASSUME lock' = Unlocked, now' = now PROVE LockAgrees' /\ now' # 0
  BY <1>a, <1>b DEF LockAgrees, Unlocked
<1>c. ASSUME lock' = lock, born' = born, now' = now PROVE LockAgrees' /\ now' # 0
  BY <1>a, <1>c DEF LockAgrees
<1>d. ASSUME lock'.step \notin {"recover", "remove", "commit"}, now' = now PROVE LockAgrees' /\ now' # 0
  BY <1>a, <1>d DEF LockAgrees
<1>1. ASSUME NEW s \in Sources, NEW g \in Targets, NEW t \in Threads \cup {None}, NEW p \in Pendings,
             Start(s, g, t, p)
      PROVE  LockAgrees' /\ now' # 0
  BY <1>d, <1>1 DEF Start, Begin, Unlocked
<1>2. ASSUME NEW o \in Ids, NEW s \in Sources, Retry(o, s) PROVE LockAgrees' /\ now' # 0
  BY <1>d, <1>2 DEF Retry, Begin, Unlocked
<1>3. CASE AdmitRefused \/ AdmitBusy \/ StartCommit \/ ReleaseFiles \/ Crash \/ StepFails \/ BootSave
  BY <1>b, <1>3 DEF AdmitRefused, AdmitBusy, StartCommit, ReleaseFiles, Crash, StepFails, BootSave
<1>4. ASSUME NEW i \in Ids, AdmitStage(i) PROVE LockAgrees' /\ now' # 0
  BY <1>a, <1>4 DEF AdmitStage, LockAgrees, Lock
<1>5. CASE CleanupExpired
  BY <1>d, <1>5 DEF CleanupExpired, Begin, Unlocked
<1>6. CASE CleanRows \/ CleanReceipts \/ CleanFiles \/ SweepOrphans
  BY <1>a, <1>d, <1>6 DEF CleanRows, CleanReceipts, CleanFiles, SweepOrphans, Lock
<1>7. CASE CleanHistory
  BY <1>a, <1>d, <1>7 DEF CleanHistory, AfterCleanup, Lock, Unlocked
<1>8. ASSUME NEW i \in Ids, Touch(i) \/ AttachInput(i) \/ BeginDelivery(i) \/ Damage(i)
      PROVE  LockAgrees' /\ now' # 0
  BY <1>c, <1>8 DEF Touch, AttachInput, BeginDelivery, Damage
<1>9. ASSUME NEW i \in Ids, Release(i) PROVE LockAgrees' /\ now' # 0
  BY <1>a, <1>9 DEF Release, Unlocked, LockAgrees
<1>10. ASSUME NEW i \in Ids, NEW t \in Threads, AttachThread(i, t) PROVE LockAgrees' /\ now' # 0
  BY <1>c, <1>10 DEF AttachThread
<1>11. ASSUME NEW i \in Ids, NEW u \in Turns, AttachTurn(i, u) PROVE LockAgrees' /\ now' # 0
  BY <1>c, <1>11 DEF AttachTurn
<1>12. ASSUME NEW i \in Ids, NEW reply \in 0 .. MaxReplyBytes,
              CompleteExecution(i, reply) \/ CompleteExecutionUnsaved(i, reply)
       PROVE  LockAgrees' /\ now' # 0
  BY <1>c, <1>12 DEF CompleteExecution, CompleteExecutionUnsaved
<1>13. ASSUME NEW i \in Ids, NEW size \in Bytes \ {0}, NEW files \in BOOLEAN, FreezeResult(i, size, files)
       PROVE  LockAgrees' /\ now' # 0
  BY <1>c, <1>13 DEF FreezeResult
<1>14. ASSUME NEW i \in Ids, NEW next \in Terminal, NEW u \in BOOLEAN, Finish(i, next, u)
       PROVE  LockAgrees' /\ now' # 0
  BY <1>c, <1>14 DEF Finish
<1>15. ASSUME NEW i \in Ids, NEW outcome \in SendOutcomes, CompleteDelivery(i, outcome) PROVE LockAgrees' /\ now' # 0
  BY <1>c, <1>15 DEF CompleteDelivery
<1>16. ASSUME NEW i \in Ids, NEW o \in Ops, BeginRedelivery(i, o) PROVE LockAgrees' /\ now' # 0
  BY <1>c, <1>16 DEF BeginRedelivery
<1>17. ASSUME NEW i \in Ids, NEW o \in Ops, NEW outcome \in SendOutcomes, RecordDelivery(i, o, outcome)
       PROVE  LockAgrees' /\ now' # 0
  BY <1>c, <1>17 DEF RecordDelivery
<1>18. ASSUME NEW s \in Sources, Reject(s) PROVE LockAgrees' /\ now' # 0
  BY <1>c, <1>18 DEF Reject
<1>19. CASE Boot
  BY <1>a, <1>19 DEF Boot, LockAgrees, Unlocked
<1>20. ASSUME NEW i \in Ids, RecoverTask(i) PROVE LockAgrees' /\ now' # 0
  <2>1. lock' = Unlocked \/ (lock'.step = lock.step /\ lock'.op = lock.op /\ lock.step = "recover")
    BY <1>a, <1>20 DEF RecoverTask, Lock
  <2> QED
    BY <1>a, <1>b, <1>20, <2>1 DEF LockAgrees, RecoverTask
<1>21. CASE Tick
  BY <1>a, <1>21 DEF Tick, LockAgrees, Time
<1>22. CASE UNCHANGED vars
  BY <1>c, <1>22 DEF vars
<1> QED
  BY <1>1, <1>2, <1>3, <1>4, <1>5, <1>6, <1>7, <1>8, <1>9, <1>10, <1>11, <1>12, <1>13, <1>14,
     <1>15, <1>16, <1>17, <1>18, <1>19, <1>20, <1>21, <1>22 DEF Next

\* Every step of the store is lawful.
LEMMA StepNext == IInv /\ [Next]_vars => StepOK
<1> SUFFICES ASSUME IInv, [Next]_vars PROVE StepOK
  OBVIOUS
<1>a. mem \in Index /\ db \in Database /\ lock \in Lock /\ now \in Time /\ now # 0
  BY DEF IInv, TypeOK
<1>b. ASSUME mem' = mem, db' = db, born' = born, now' = now, up' = up,
             (lock.op # "boot" /\ lock'.op # "boot") \/ lock'.op = lock.op
      PROVE  StepOK
  BY <1>b, StillIsOK
<1>c. ASSUME NEW i \in Ids PROVE db.result[i] \in Result /\ mem.task[i] \in Task /\ db.task[i] \in Task
  BY <1>a DEF Index, Database
\* Admission
<1>1. ASSUME NEW s \in Sources, NEW g \in Targets, NEW t \in Threads \cup {None}, NEW p \in Pendings,
             Start(s, g, t, p)
      PROVE  StepOK
  BY <1>b, <1>1 DEF Start, Begin, Idle, Unlocked
<1>2. ASSUME NEW o \in Ids, NEW s \in Sources, Retry(o, s) PROVE StepOK
  BY <1>b, <1>2 DEF Retry, Begin, Idle, Unlocked
<1>3. CASE AdmitRefused
  BY <1>b, <1>3 DEF AdmitRefused, Unlocked
<1>4. CASE AdmitBusy
  <2> DEFINE m == [mem EXCEPT !.rejected[lock.request.source] = now]
  <2>1. m \in Index /\ m.task = mem.task
    BY <1>a, SetRejected DEF Index
  <2>2. Save(m, db) /\ up /\ born' = born
    BY <1>4 DEF AdmitBusy
  <2> HIDE DEF m
  <2>3. \A i \in Ids : Good(i, m.task[i], db.result[i])
    BY <2>1, <2>2, KeptIsGood
  <2> QED
    BY <1>a, <2>1, <2>2, <2>3, SaveIsOK
<1>5. CASE StartCommit
  <2> DEFINE i == lock.id
             r == lock.request
             x == [NoTask EXCEPT !.source = r.source, !.target = r.target, !.thread = r.thread,
                                 !.state = "running", !.pending = r.pending, !.retryOf = r.retryOf]
             m == [mem EXCEPT !.task[i] = x]
             d == [db EXCEPT !.input[i] = IF r.pending THEN "raw" ELSE "ready"]
  <2>1. i \in Ids /\ born[i].at = 0 /\ up /\ lock.op # "boot"
    BY <1>5 DEF StartCommit, IInv, LockAgrees
  <2>2. db.task[i].state = "absent" /\ db.result[i].frozenAt = 0
    BY <2>1 DEF IInv, RowsAgree, RowOK
  <2>3. x.state = "running" /\ x.completedAt = 0
    BY DEF NoTask
  <2>4. Save(m, d)
    BY <1>5 DEF StartCommit
  <2>5. d.result = db.result
    BY <1>a DEF Database
  <2> HIDE DEF x
  <2>6. m.task = [mem.task EXCEPT ![i] = x] /\ mem.task \in [Ids -> Task]
    BY <1>a DEF Index
  <2>7. mem' = m /\ db'.task = m.task
    BY <2>4 DEF Save, Persist
  <2>8. \A j \in Ids : db'.result[j] = IF m.task[j].state = "absent" THEN NoResult ELSE db.result[j]
    BY <2>4, <2>5 DEF Save, Persist, Known
  <2> HIDE DEF m, d
  <2>9. born' = [born EXCEPT ![i] = [source |-> r.source, at |-> now]] /\ DOMAIN born = Ids
    BY <1>5 DEF StartCommit, IInv, TypeOK
  <2>10. MemoryFollowsDisk'
    BY <2>7 DEF MemoryFollowsDisk
  <2>11. ASSUME NEW j \in Ids
         PROVE  /\ RowOK(db.task[j], db.result[j], born[j])'
                /\ May(Status(db.task[j], j), Status(db.task[j], j)')
    <3>1. CASE j = i
      <4>1. db'.task[j] = x /\ db'.result[j] = db.result[j] /\ born'[j].at = now
        BY <2>1, <2>3, <2>6, <2>7, <2>8, <2>9, <3>1
      <4> QED
        BY <1>a, <2>1, <2>2, <2>3, <3>1, <4>1 DEF RowOK, May, Status, Lifecycle!Edge
    <3>2. CASE j # i
      <4>1. db'.task[j] = mem.task[j] /\ born'[j] = born[j]
        BY <2>1, <2>6, <2>7, <2>9, <3>2
      <4>2. Good(j, mem.task[j], db.result[j])
        BY <2>1, KeptIsGood
      <4>3. db'.result[j] = IF mem.task[j].state = "absent" THEN NoResult ELSE db.result[j]
        BY <2>7, <2>8, <4>1
      <4>4. Status(db.task[j], j)' = Status(mem.task[j], j)
        BY <4>1 DEF Status
      <4> QED
        BY <4>1, <4>2, <4>3, <4>4 DEF Good
    <3> QED
      BY <3>1, <3>2
  <2> QED
    BY <2>10, <2>11 DEF StepOK, RowsAgree
<1>6. ASSUME NEW i \in Ids, AdmitStage(i) PROVE StepOK
  BY <1>a, <1>b, <1>6 DEF AdmitStage, Lock
\* Cleanup
<1>7. CASE CleanupExpired
  BY <1>b, <1>7 DEF CleanupExpired, Begin, Idle, Unlocked
<1>8. CASE CleanRows
  <2>1. db' = ExpireRows(db) /\ mem' = mem /\ born' = born /\ up' = up /\ now' = now
        /\ lock'.op = lock.op
    BY <1>8, <1>a DEF CleanRows, Lock
  <2>2. db'.task = db.task
    BY <1>a, <2>1 DEF ExpireRows, Database
  <2>3. ASSUME NEW i \in Ids PROVE db'.result[i].frozenAt \in {0, db.result[i].frozenAt}
    <3>1. db'.result[i] = NoResult \/ db'.result[i] = db.result[i]
      BY <1>a, <2>1 DEF ExpireRows, Database
    <3> QED
      BY <3>1 DEF NoResult
  <2> QED
    BY <2>1, <2>2, <2>3, StillIsOK
<1>9. CASE CleanReceipts
  <2> DEFINE m == [mem EXCEPT !.rejected = DropOld(mem.rejected), !.cleared = DropOld(mem.cleared)]
  <2>1. m \in Index /\ m.task = mem.task
    BY <1>a, DropOldType DEF Index
  <2>2. CASE m = mem
    BY <1>9, <1>a, <1>b, <2>2 DEF CleanReceipts, Lock
  <2>3. CASE m # mem
    <3>1. Save(m, db) /\ up /\ born' = born
      BY <1>9, <2>3 DEF CleanReceipts
    <3> HIDE DEF m
    <3>2. \A i \in Ids : Good(i, m.task[i], db.result[i])
      BY <2>1, <3>1, KeptIsGood
    <3> QED
      BY <1>a, <2>1, <3>1, <3>2, SaveIsOK
  <2> QED
    BY <2>2, <2>3
<1>10. CASE CleanFiles
  BY <1>a, <1>b, <1>10 DEF CleanFiles, Lock
<1>11. CASE CleanHistory
  <2>1. CASE Outdated(mem) = {}
    <3>1. (lock.op # "boot" /\ lock'.op # "boot") \/ lock'.op = lock.op
      BY <1>11, <1>a DEF CleanHistory, AfterCleanup, Lock, Unlocked
    <3> QED
      BY <1>11, <1>b, <2>1, <3>1 DEF CleanHistory
  <2>2. CASE Outdated(mem) # {}
    <3> DEFINE m == Forget(mem, Outdated(mem))
    <3>1. Save(m, db) /\ up /\ born' = born
      BY <1>11, <2>2 DEF CleanHistory
    <3>2. m \in Index
      BY <1>a, ForgetType
    <3>3. ASSUME NEW i \in Ids PROVE Good(i, m.task[i], db.result[i])
      <4>1. CASE i \in Outdated(mem)
        <5>1. m.task[i] = NoTask
          BY <1>a, <4>1 DEF Forget, Index
        <5>2. mem.task[i].state \in Terminal /\ mem.task[i].finishedAt + HistoryRetention <= now
          BY <4>1 DEF Outdated, HistoryExpired
        <5>3. mem.task[i].finishedAt # now
          BY <1>a, <1>c, <5>2, RetentionAssumption DEF Task, Time
        <5>4. mem.task[i] = db.task[i]
          BY <3>1, <5>2, <5>3 DEF IInv, MemoryFollowsDisk, Unsaved, Recovering, Terminal
        <5> QED
          BY <5>1, <5>2, <5>4, ForgottenIsGood
      <4>2. CASE i \notin Outdated(mem)
        <5>1. m.task[i] = mem.task[i]
          BY <1>a, <4>2 DEF Forget, Index
        <5> QED
          BY <3>1, <5>1, KeptIsGood
      <4> QED
        BY <4>1, <4>2
    <3> HIDE DEF m
    <3> QED
      BY <1>a, <3>1, <3>2, <3>3, SaveIsOK
  <2> QED
    BY <2>1, <2>2
\* Operations on a request
<1>12. ASSUME NEW i \in Ids, Touch(i) PROVE StepOK
  <2>1. Save(mem, db) /\ up /\ born' = born
    BY <1>12 DEF Touch, Idle
  <2> QED
    BY <1>a, <2>1, KeptIsGood, SaveIsOK
<1>13. ASSUME NEW i \in Ids, AttachInput(i) PROVE StepOK
  <2> DEFINE x == [mem.task[i] EXCEPT !.pending = FALSE]
             d == [db EXCEPT !.input[i] = "ready"]
  <2>1. x \in Task /\ x.state = mem.task[i].state /\ x.completedAt = mem.task[i].completedAt
    <3>1. mem.task[i] \in Task
      BY <1>c
    <3> QED
      BY <3>1 DEF Task
  <2>2. d \in Database /\ d.result = db.result
    BY <1>a, SetInput DEF Database
  <2>3. Update(i, x, d) /\ up /\ born' = born
    BY <1>13 DEF AttachInput, Idle
  <2> HIDE DEF x, d
  <2>4. Good(i, x, d.result[i])
    BY <2>1, <2>2, <2>3, KeptIsGood
  <2> QED
    BY <2>1, <2>2, <2>3, <2>4, UpdateIsOK
<1>14. ASSUME NEW i \in Ids, BeginDelivery(i) PROVE StepOK
  <2>1. Idle /\ Transition(i, "delivering", FALSE, db) /\ db.result[i].frozenAt # 0 /\ born' = born
    BY <1>14 DEF BeginDelivery, Loadable
  <2> QED
    BY <1>a, <2>1, TransitionIsOK
<1>15. ASSUME NEW i \in Ids, Release(i) PROVE StepOK
  <2> DEFINE t == mem.task[i]
             m == [Forget(mem, {i}) EXCEPT !.cleared[t.source] = t.finishedAt]
  <2>1. up /\ lock.op # "boot" /\ t.state \in Terminal /\ Save(m, db) /\ born' = born
    BY <1>15 DEF Release, Idle, Unlocked
  <2>2. t.finishedAt \in Time
    BY <1>c DEF Task
  <2>3. m \in Index /\ m.task = [j \in Ids |-> IF j \in {i} THEN NoTask ELSE mem.task[j]]
    <3>1. Forget(mem, {i}) \in Index
      BY <1>a, ForgetType
    <3>2. m \in Index /\ m.task = Forget(mem, {i}).task
      BY <2>2, <3>1 DEF Index
    <3> QED
      BY <1>a, <3>2 DEF Index, Forget
  <2>4. t = db.task[i]
    BY <2>1, OwnOrUnsaved DEF Unsaved, Terminal
  <2> HIDE DEF m
  <2>5. ASSUME NEW j \in Ids PROVE Good(j, m.task[j], db.result[j])
    <3>1. CASE j = i
      BY <2>1, <2>3, <2>4, <3>1, ForgottenIsGood
    <3>2. CASE j # i
      <4>1. m.task[j] = mem.task[j]
        BY <2>3, <3>2
      <4> QED
        BY <2>1, <4>1, KeptIsGood
    <3> QED
      BY <3>1, <3>2
  <2> QED
    BY <1>a, <2>1, <2>3, <2>5, SaveIsOK
<1>16. ASSUME NEW i \in Ids, NEW t \in Threads, AttachThread(i, t) PROVE StepOK
  <2> DEFINE x == [mem.task[i] EXCEPT !.thread = t]
  <2>1. x \in Task /\ x.state = mem.task[i].state /\ x.completedAt = mem.task[i].completedAt
    BY <1>c DEF Task
  <2>2. Update(i, x, db) /\ up /\ born' = born
    BY <1>16 DEF AttachThread, Idle
  <2> HIDE DEF x
  <2>3. Good(i, x, db.result[i])
    BY <2>1, <2>2, KeptIsGood
  <2> QED
    BY <1>a, <2>1, <2>2, <2>3, UpdateIsOK
<1>17. ASSUME NEW i \in Ids, NEW u \in Turns, AttachTurn(i, u) PROVE StepOK
  <2> DEFINE x == [mem.task[i] EXCEPT !.turn = u]
  <2>1. x \in Task /\ x.state = mem.task[i].state /\ x.completedAt = mem.task[i].completedAt
    BY <1>c DEF Task
  <2>2. Update(i, x, db) /\ up /\ born' = born
    BY <1>17 DEF AttachTurn, Idle
  <2> HIDE DEF x
  <2>3. Good(i, x, db.result[i])
    BY <2>1, <2>2, KeptIsGood
  <2> QED
    BY <1>a, <2>1, <2>2, <2>3, UpdateIsOK
<1>18. ASSUME NEW i \in Ids, NEW reply \in 0 .. MaxReplyBytes,
              CompleteExecution(i, reply) \/ CompleteExecutionUnsaved(i, reply)
       PROVE  StepOK
  <2> DEFINE x == Completed(mem.task[i], reply)
             d == [db EXCEPT !.completion[i] = [at |-> now, reply |-> reply]]
  <2>1. /\ up /\ lock.op # "boot" /\ born' = born
        /\ mem.task[i].state = "running" /\ mem.task[i].completedAt = 0
    BY <1>18 DEF CompleteExecution, CompleteExecutionUnsaved, Idle, Unlocked
  <2>2. mem.task[i] = db.task[i] /\ RowOK(db.task[i], db.result[i], born[i])
    BY <2>1, OwnOrUnsaved DEF Unsaved
  <2>3. MaxTaskBytes + reply \in Bytes
    BY BoundAssumption DEF Bytes
  <2>4. x \in Task /\ x.state = "running" /\ x.completedAt # 0
    <3>1. mem.task[i] \in Task /\ now \in Time /\ now # 0
      BY <1>a, <1>c
    <3> QED
      BY <2>1, <2>3, <3>1, CompletedType
  <2>5. [at |-> now, reply |-> reply] \in Completion
    BY <1>a DEF Completion
  <2>6. d \in Database /\ d.result = db.result
    BY <1>a, <2>5, SetCompletion DEF Database
  <2> HIDE DEF x, d
  <2>7. CASE CompleteExecution(i, reply)
    <3>1. Update(i, x, d)
      BY <2>7 DEF CompleteExecution, x, d
    <3>2. Good(i, x, d.result[i])
      BY <2>1, <2>2, <2>4, <2>6 DEF Good, May, Status, RowOK, Lifecycle!Edge
    <3> QED
      BY <2>1, <2>4, <2>6, <3>1, <3>2, UpdateIsOK
  <2>8. CASE CompleteExecutionUnsaved(i, reply)
    <3>1. mem'.task = [mem.task EXCEPT ![i] = x] /\ UNCHANGED <<up, db, lock, now, born>>
          /\ mem.task \in [Ids -> Task]
      BY <1>a, <2>8 DEF CompleteExecutionUnsaved, Index, x
    <3>2. MemoryFollowsDisk'
      <4> SUFFICES ASSUME NEW j \in Ids
                   PROVE  (mem.task[j] = db.task[j] \/ Unsaved(j) \/ Recovering(j))'
        BY DEF MemoryFollowsDisk
      <4>1. CASE j = i
        BY <2>1, <2>2, <2>4, <3>1, <4>1 DEF Unsaved
      <4>2. CASE j # i
        BY <2>1, <3>1, <4>2 DEF IInv, MemoryFollowsDisk, Unsaved, Recovering
      <4> QED
        BY <4>1, <4>2
    <3>3. RowsAgree'
      BY <3>1 DEF IInv, RowsAgree
    <3>4. \A j \in Ids : Status(db.task[j], j)' = Status(db.task[j], j)
      BY <3>1 DEF Status
    <3> QED
      BY <3>2, <3>3, <3>4 DEF StepOK, May
  <2> QED
    BY <1>18, <2>7, <2>8
<1>19. ASSUME NEW i \in Ids, NEW size \in Bytes \ {0}, NEW files \in BOOLEAN,
              FreezeResult(i, size, files)
       PROVE  StepOK
  <2> DEFINE t == mem.task[i]
             x == Frozen(t, size)
             r == [NoResult EXCEPT !.frozenAt = now, !.size = size, !.files = files]
             d == [db EXCEPT !.result[i] = r, !.completion[i] = NoCompletion]
  <2>1. /\ up /\ lock.op # "boot" /\ born' = born
        /\ t.state = "running" \/ t.state = "succeeded"
    BY <1>19 DEF FreezeResult, Idle, Unlocked
  <2>2. t = db.task[i] \/ Unsaved(i)
    BY <2>1, OwnOrUnsaved
  <2>3. RowOK(db.task[i], db.result[i], born[i])
    BY <2>1, OwnOrUnsaved
  <2>4. x \in Task /\ x.state = t.state /\ x.completedAt # 0
    <3>1. t \in Task /\ now \in Time /\ now # 0
      BY <1>a, <1>c
    <3> QED
      BY <3>1, FrozenType
  <2>5. r \in Result
    BY <1>a, NoRowsType DEF Result
  <2>6. d \in Database /\ \A j \in Ids \ {i} : d.result[j] = db.result[j]
    BY <1>a, <2>5, NoRowsType DEF Database
  <2>7. Update(i, x, d)
    BY <1>19 DEF FreezeResult
  <2> HIDE DEF x, d
  <2>8. Good(i, x, d.result[i])
    <3>1. CASE t.state = "running"
      <4>1. db.task[i].state = "running" /\ born[i].at # 0
        BY <2>2, <2>3, <3>1 DEF Unsaved, RowOK
      <4> HIDE DEF t, r
      <4> QED
        BY <2>4, <3>1, <4>1 DEF Good, May, Status, RowOK, Lifecycle!Edge
    <3>2. CASE t.state = "succeeded"
      <4>1. db.task[i].state = "succeeded" /\ born[i].at # 0
        BY <2>2, <2>3, <3>2 DEF Unsaved, RowOK
      <4> HIDE DEF t, r
      <4> QED
        BY <2>4, <3>2, <4>1 DEF Good, May, Status, RowOK
    <3> QED
      BY <2>1, <3>1, <3>2
  <2> QED
    BY <2>1, <2>4, <2>6, <2>7, <2>8, UpdateIsOK
<1>20. ASSUME NEW i \in Ids, NEW next \in Terminal, NEW u \in BOOLEAN, Finish(i, next, u)
       PROVE  StepOK
  <2>1. Idle /\ Transition(i, next, u, db) /\ born' = born
    BY <1>20 DEF Finish
  <2> QED
    BY <1>a, <2>1, TransitionIsOK DEF Terminal
<1>21. ASSUME NEW i \in Ids, NEW outcome \in SendOutcomes, CompleteDelivery(i, outcome)
       PROVE  StepOK
  <2> DEFINE r == db.result[i]
             a == IF \A o \in AllOps : r.attempts[o] = "none" THEN outcome ELSE r.attempts[None]
             d == Receipted(db, i, None, outcome, a)
  <2>1. r \in Result /\ outcome \in {"succeeded", "explicit_failure", "ambiguous"} /\ None \in AllOps
    BY <1>c, NameAssumption DEF AllOps
  <2>2. a \in {"none", "succeeded", "explicit_failure", "ambiguous"}
    BY <2>1 DEF Result
  <2>3. Idle /\ Transition(i, "succeeded", FALSE, d) /\ born' = born
    BY <1>21 DEF CompleteDelivery, Receipted
  <2> HIDE DEF a
  <2>4. d \in Database
    BY <1>a, <2>1, <2>2, SetReceipt DEF Receipted
  <2>5. \A j \in Ids \ {i} : d.result[j] = db.result[j]
    BY <1>a, ReceiptRows
  <2> HIDE DEF d
  <2> QED
    BY <2>3, <2>4, <2>5, TransitionIsOK DEF Terminal
<1>22. ASSUME NEW i \in Ids, NEW o \in Ops, BeginRedelivery(i, o) PROVE StepOK
  <2>1. /\ mem' = mem /\ UNCHANGED <<up, lock, now, born>>
        /\ db' = Receipted(db, i, o, "ambiguous", "ambiguous")
    BY <1>22 DEF BeginRedelivery, Receipted
  <2>2. db'.task = db.task /\ \A j \in Ids : db'.result[j].frozenAt = db.result[j].frozenAt
    BY <1>a, <2>1, ReceiptRows
  <2> QED
    BY <2>1, <2>2, StillIsOK
<1>23. ASSUME NEW i \in Ids, NEW o \in Ops, NEW outcome \in SendOutcomes, RecordDelivery(i, o, outcome)
       PROVE  StepOK
  <2>1. /\ mem' = mem /\ UNCHANGED <<up, lock, now, born>>
        /\ db' = Receipted(db, i, o, outcome, outcome)
    BY <1>23 DEF RecordDelivery, Receipted
  <2>2. db'.task = db.task /\ \A j \in Ids : db'.result[j].frozenAt = db.result[j].frozenAt
    BY <1>a, <2>1, ReceiptRows
  <2> QED
    BY <2>1, <2>2, StillIsOK
<1>24. CASE ReleaseFiles
  BY <1>24, <1>b DEF ReleaseFiles, Unlocked, IInv, LockAgrees
<1>25. ASSUME NEW s \in Sources, Reject(s) PROVE StepOK
  <2> DEFINE m == [mem EXCEPT !.rejected = [DropOld(mem.rejected) EXCEPT ![s] = now]]
  <2>1. m \in Index /\ m.task = mem.task
    BY <1>a, DropOldType DEF Index
  <2>2. Save(m, db) /\ up /\ born' = born
    BY <1>25 DEF Reject, Idle
  <2> HIDE DEF m
  <2>3. \A i \in Ids : Good(i, m.task[i], db.result[i])
    BY <2>1, <2>2, KeptIsGood
  <2> QED
    BY <1>a, <2>1, <2>2, <2>3, SaveIsOK
\* Crash and startup
<1>d. ASSUME ~ up', db'.task = db.task, born' = born,
             \A i \in Ids : db'.result[i].frozenAt = db.result[i].frozenAt
      PROVE  StepOK
  <2>1. MemoryFollowsDisk' /\ RowsAgree'
    BY <1>d DEF MemoryFollowsDisk, IInv, RowsAgree, RowOK
  <2>2. \A i \in Ids : Status(db.task[i], i)' = Status(db.task[i], i)
    BY <1>d DEF Status
  <2> QED
    BY <2>1, <2>2 DEF StepOK, May
<1>26. CASE Crash
  BY <1>26, <1>d DEF Crash
<1>27. CASE StepFails
  <2>1. CASE lock.op = "boot"
    BY <1>27, <1>d, <2>1 DEF StepFails
  <2>2. CASE lock.op # "boot"
    BY <1>27, <1>b, <2>2 DEF StepFails, Unlocked
  <2> QED
    BY <2>1, <2>2
<1>28. CASE Boot
  <2>1. mem'.task = db.task /\ UNCHANGED <<db, born>>
    BY <1>28 DEF Boot, Stored
  <2>2. MemoryFollowsDisk' /\ RowsAgree'
    BY <2>1 DEF MemoryFollowsDisk, IInv, RowsAgree
  <2>3. \A i \in Ids : Status(db.task[i], i)' = Status(db.task[i], i)
    BY <2>1 DEF Status
  <2> QED
    BY <2>2, <2>3 DEF StepOK, May
<1>29. CASE SweepOrphans
  BY <1>a, <1>29, <1>b DEF SweepOrphans, Lock
<1>30. CASE BootSave
  <2>1. Save(mem, db) /\ up /\ born' = born
    BY <1>30 DEF BootSave
  <2> QED
    BY <1>a, <2>1, KeptIsGood, SaveIsOK
<1>31. ASSUME NEW i \in Ids, RecoverTask(i) PROVE StepOK
  <2> DEFINE t == mem.task[i]
             x == Recovered(t, i)
             c == Checkpointed(t, i)
  <2>1. Settled(t, i).frozenAt = db.result[i].frozenAt
    BY <1>c DEF Settled, Result
  <2>2. db'.task = db.task /\ \A j \in Ids : db'.result[j].frozenAt = db.result[j].frozenAt
    BY <1>31, <1>a, <2>1 DEF RecoverTask, Database
  <2>3. CASE BootBlocked(t, i)
    BY <1>31, <1>d, <2>2, <2>3 DEF RecoverTask
  <2>4. CASE ~ BootBlocked(t, i)
    <3>1. /\ up /\ lock.op = "boot" /\ lock'.op = "boot" /\ now' = now /\ born' = born
          /\ mem' = [mem EXCEPT !.task[i] = x]
      BY <1>31, <1>a, <2>4 DEF RecoverTask, IInv, LockAgrees, Lock
    <3>2. mem'.task = [mem.task EXCEPT ![i] = x] /\ mem.task \in [Ids -> Task]
      BY <1>a, <3>1 DEF Index
    <3>3. \A j \in Ids : mem.task[j] = db.task[j] \/ Recovering(j)
      BY <3>1 DEF IInv, MemoryFollowsDisk, Unsaved
    <3>4. CASE t.state \notin Active
      <4>1. x = t
        BY <3>4 DEF Recovered
      <4>2. mem'.task = mem.task
        BY <3>2, <4>1
      <4> QED
        BY <2>2, <3>1, <4>2, StillIsOK
    <3>5. CASE t.state \in Active
      <4>1. t = db.task[i] /\ RowOK(t, db.result[i], born[i])
        BY <3>3, <3>5 DEF Recovering, Active, IInv, RowsAgree
      <4>2. /\ x.finishedAt = now
            /\ \/ x.state = "succeeded"
               \/ x.state = "interrupted" /\ t.state = "running" /\ t.completedAt = 0
        <5>1. CASE Loadable(i)
          <6>1. x = [t EXCEPT !.state = "succeeded", !.unconfirmed = FALSE, !.finishedAt = now,
                              !.completedAt = db.result[i].frozenAt, !.archiveFailed = FALSE,
                              !.bytes = db.result[i].size]
            BY <3>5, <5>1 DEF Recovered
          <6> QED
            BY <1>c, <6>1 DEF Task
        <5>2. CASE ~ Loadable(i)
          <6>1. x = [c EXCEPT !.state = IF c.completedAt # 0 THEN "succeeded" ELSE "interrupted",
                              !.unconfirmed = FALSE, !.finishedAt = now]
            BY <3>5, <5>2 DEF Recovered
          <6>2. c = t \/ c = [t EXCEPT !.completedAt = db.completion[i].at, !.archiveFailed = TRUE,
                                       !.bytes = MaxTaskBytes + db.completion[i].reply]
            BY DEF Checkpointed
          <6>3. /\ x.finishedAt = now
                /\ x.state = IF c.completedAt # 0 THEN "succeeded" ELSE "interrupted"
            BY <1>c, <6>1, <6>2 DEF Task
          <6>4. c.completedAt = 0 => t.completedAt = 0
            BY DEF Checkpointed
          <6>5. t.completedAt = 0 => t.state = "running"
            BY <3>5, <4>1 DEF RowOK, Active
          <6> QED
            BY <6>3, <6>4, <6>5
        <5> QED
          BY <5>1, <5>2
      <4>3. MemoryFollowsDisk'
        <5> SUFFICES ASSUME NEW j \in Ids
                     PROVE  (mem.task[j] = db.task[j] \/ Unsaved(j) \/ Recovering(j))'
          BY DEF MemoryFollowsDisk
        <5> HIDE DEF x
        <5>1. CASE j = i
          <6>1. mem'.task[j] = x /\ db'.task[j] = t
            BY <2>2, <3>2, <4>1, <5>1
          <6> HIDE DEF t
          <6> QED
            BY <3>1, <3>5, <4>2, <6>1 DEF Recovering
        <5>2. CASE j # i
          <6>1. mem'.task[j] = mem.task[j] /\ db'.task[j] = db.task[j]
            BY <2>2, <3>2, <5>2
          <6> QED
            BY <3>1, <3>3, <6>1 DEF Recovering
        <5> QED
          BY <5>1, <5>2
      <4>4. RowsAgree'
        BY <2>2, <3>1 DEF IInv, RowsAgree, RowOK
      <4>5. \A j \in Ids : Status(db.task[j], j)' = Status(db.task[j], j)
        BY <2>2, <3>1 DEF Status
      <4> QED
        BY <4>3, <4>4, <4>5 DEF StepOK, May
    <3> QED
      BY <3>4, <3>5
  <2> QED
    BY <2>3, <2>4
<1>32. ASSUME NEW i \in Ids, Damage(i) PROVE StepOK
  BY <1>32, <1>b DEF Damage
<1>33. CASE Tick
  BY <1>33, StillIsOK DEF Tick, Unlocked
<1>34. CASE UNCHANGED vars
  BY <1>34, <1>b DEF vars
<1> QED
  BY <1>1, <1>2, <1>3, <1>4, <1>5, <1>6, <1>7, <1>8, <1>9, <1>10, <1>11, <1>12, <1>13, <1>14,
     <1>15, <1>16, <1>17, <1>18, <1>19, <1>20, <1>21, <1>22, <1>23, <1>24, <1>25, <1>26, <1>27,
     <1>28, <1>29, <1>30, <1>31, <1>32, <1>33, <1>34 DEF Next

-----------------------------------------------------------------------------
(* Results *)

LEMMA InductiveInit == Init => IInv
<1> SUFFICES ASSUME Init PROVE IInv
  OBVIOUS
<1>1. \A i \in Ids : db.task[i] = NoTask /\ db.result[i] = NoResult
  BY DEF Init, Persist, EmptyIndex, Known, NoTask
<1>2. RowsAgree
  BY <1>1 DEF RowsAgree, RowOK, NoTask, NoResult
<1>3. MemoryFollowsDisk /\ LockAgrees /\ now # 0
  BY DEF Init, MemoryFollowsDisk, LockAgrees, Unlocked
<1> QED
  BY <1>2, <1>3, TypeInit DEF IInv

LEMMA InductiveNext == IInv /\ [Next]_vars => IInv'
BY TypeNext, LockNext, StepNext DEF IInv, StepOK

\* For all constants, the index in memory is the stored one but for a
\* completion whose save failed and for what startup has not saved yet:
\* saveLocked publishes an index only once its transaction has committed.
THEOREM MemoryCorrect == Spec => []MemoryFollowsDisk
<1>1. IInv => MemoryFollowsDisk
  BY DEF IInv
<1> QED
  BY <1>1, InductiveInit, InductiveNext, PTL DEF Spec

LEMMA LifecycleInit == Init => Lifecycle!Init
<1> SUFFICES ASSUME Init PROVE Lifecycle!Init
  OBVIOUS
<1>1. \A i \in Ids : db.task[i].state = "absent" /\ born[i].at = 0
  BY DEF Init, Persist, EmptyIndex, NoTask
<1> QED
  BY <1>1 DEF Lifecycle!Init, Status

LEMMA LifecycleStep ==
    IInv /\ [Next]_vars => [Lifecycle!Next]_([i \in Ids |-> Status(db.task[i], i)])
<1> SUFFICES ASSUME IInv, [Next]_vars
             PROVE  Lifecycle!Next
  OBVIOUS
<1>1. StepOK /\ TypeOK'
  BY StepNext, TypeNext DEF IInv
<1>2. ASSUME NEW i \in Ids PROVE Status(db.task[i], i)' \in Lifecycle!Statuses
  <2>1. db'.task[i].state \in Active \cup Terminal \cup {"absent"}
    BY <1>1 DEF TypeOK, Database, Task
  <2> QED
    BY <2>1 DEF Status, Active, Terminal, Lifecycle!Statuses
<1> QED
  BY <1>1, <1>2 DEF StepOK, May, Lifecycle!Next

\* For all constants, the store implements the life cycle it promises: no
\* sequence of operations, failed saves, crashes, startups and cleanups moves
\* a stored request other than along RequestLifecycle, so completed work is
\* never recorded as failed, interrupted or cancelled.
THEOREM LifecycleRefined == Spec => ImplementsLifecycle
BY InductiveInit, InductiveNext, LifecycleInit, LifecycleStep, PTL
   DEF Spec, ImplementsLifecycle, Lifecycle!Spec

-----------------------------------------------------------------------------
(* Sums over the requests *)

\* A set of numbers that is not empty has a least element.
LEMMA LeastNat ==
    ASSUME NEW T \in SUBSET Nat, T # {}
    PROVE  \E x \in T : \A y \in T : x <= y
<1>1. PICK x \in T : \A y \in T : ~ (<<y, x>> \in OpToRel(<, Nat))
  <2> HIDE DEF OpToRel
  <2> QED BY NatLessThanWellFounded, WFMin, Zenon
<1>2. \A y \in T : ~ (y < x)
  BY <1>1 DEF OpToRel
<1> QED
  BY <1>2

\* Induction over the numbers, for a property given as a set.
LEMMA SetInduction ==
    ASSUME NEW S, 0 \in S, \A n \in Nat : n \in S => n + 1 \in S
    PROVE  Nat \subseteq S
<1> SUFFICES ASSUME Nat \ S # {} PROVE FALSE
  OBVIOUS
<1>1. PICK x \in Nat \ S : \A y \in Nat \ S : x <= y
  BY LeastNat
<1>2. x # 0 /\ x - 1 \in Nat /\ x - 1 \in S
  BY <1>1
<1> QED
  BY <1>1, <1>2

Some(s) == CHOOSE x \in s : TRUE

\* g adds up f over the subsets of S with at most n elements.
AddsUp(g, f, S, n) ==
    /\ DOMAIN g = {s \in SUBSET S : Cardinality(s) <= n}
    /\ \A s \in DOMAIN g : g[s] = IF s = {} THEN 0 ELSE f[Some(s)] + g[s \ {Some(s)}]

LEMMA SmallerSet ==
    ASSUME NEW s, IsFiniteSet(s), s # {}
    PROVE  /\ Some(s) \in s
           /\ Cardinality(s) \in Nat \ {0}
           /\ IsFiniteSet(s \ {Some(s)})
           /\ Cardinality(s \ {Some(s)}) = Cardinality(s) - 1
<1>1. Some(s) \in s
  BY DEF Some
<1> QED
  BY <1>1, FS_CardinalityType, FS_EmptySet, FS_RemoveElement

\* Such a sum exists, up to any number of elements.
LEMMA SumsExist ==
    ASSUME NEW S, IsFiniteSet(S), NEW f, NEW n \in Nat
    PROVE  \E g : AddsUp(g, f, S, n)
<1> DEFINE T == {k \in Nat : \E g : AddsUp(g, f, S, k)}
           Upto(k) == {s \in SUBSET S : Cardinality(s) <= k}
<1>0. \A s \in SUBSET S : IsFiniteSet(s) /\ Cardinality(s) \in Nat /\ (Cardinality(s) = 0 <=> s = {})
  BY FS_Subset, FS_CardinalityType, FS_EmptySet
<1>1. 0 \in T
  <2> DEFINE g == [s \in Upto(0) |-> 0]
  <2>1. \A s \in Upto(0) : s = {}
    BY <1>0
  <2>2. AddsUp(g, f, S, 0)
    BY <2>1 DEF AddsUp
  <2> QED
    BY <2>2
<1>2. ASSUME NEW k \in Nat, k \in T PROVE k + 1 \in T
  <2>1. PICK g : AddsUp(g, f, S, k)
    BY <1>2
  <2> DEFINE h == [s \in Upto(k + 1) |-> IF s = {} THEN 0 ELSE f[Some(s)] + g[s \ {Some(s)}]]
  <2>2. ASSUME NEW s \in Upto(k + 1), s # {} PROVE s \ {Some(s)} \in Upto(k) /\ s \ {Some(s)} \in Upto(k + 1)
    BY <1>0, <2>2, SmallerSet
  <2>3. ASSUME NEW s \in Upto(k) PROVE s \in Upto(k + 1) /\ h[s] = g[s]
    <3>1. s \in Upto(k + 1)
      BY <1>0
    <3>2. g[s] = IF s = {} THEN 0 ELSE f[Some(s)] + g[s \ {Some(s)}]
      BY <2>1 DEF AddsUp
    <3> QED
      BY <3>1, <3>2
  <2>4. \A s \in Upto(k + 1) : h[s] = IF s = {} THEN 0 ELSE f[Some(s)] + h[s \ {Some(s)}]
    <3> SUFFICES ASSUME NEW s \in Upto(k + 1), s # {} PROVE h[s] = f[Some(s)] + h[s \ {Some(s)}]
      OBVIOUS
    <3>1. h[s \ {Some(s)}] = g[s \ {Some(s)}]
      BY <2>2, <2>3
    <3> QED
      BY <3>1
  <2>5. AddsUp(h, f, S, k + 1)
    BY <2>4 DEF AddsUp
  <2> QED
    BY <2>5
<1> HIDE DEF T
<1>3. n \in T
  BY <1>1, <1>2, SetInduction
<1> QED
  BY <1>3 DEF T

\* The function behind SumFunction.
Adder(f) == CHOOSE g : g = [s \in SUBSET (DOMAIN f) |-> IF s = {} THEN 0 ELSE f[Some(s)] + g[s \ {Some(s)}]]

LEMMA SumIsAdder == ASSUME NEW f PROVE SumFunction(f) = Adder(f)[DOMAIN f]
BY DEF SumFunction, SumFunctionOnSet, FoldFunctionOnSet, MapThenFoldSet, Adder, Some

\* The recursion that defines the function has a solution.
LEMMA AdderAdds ==
    ASSUME NEW f, IsFiniteSet(DOMAIN f)
    PROVE  \A s \in SUBSET (DOMAIN f) :
             Adder(f)[s] = IF s = {} THEN 0 ELSE f[Some(s)] + Adder(f)[s \ {Some(s)}]
<1> DEFINE D == DOMAIN f
           n == Cardinality(D)
           Is(g) == g = [s \in SUBSET D |-> IF s = {} THEN 0 ELSE f[Some(s)] + g[s \ {Some(s)}]]
<1>1. n \in Nat /\ \A s \in SUBSET D : Cardinality(s) <= n
  BY FS_CardinalityType, FS_Subset
<1>2. {s \in SUBSET D : Cardinality(s) <= n} = SUBSET D
  BY <1>1
<1>3. PICK g : AddsUp(g, f, D, n)
  BY <1>1, SumsExist
<1>4. DOMAIN g = SUBSET D
  BY <1>2, <1>3 DEF AddsUp
<1>5. \A s \in SUBSET D : g[s] = IF s = {} THEN 0 ELSE f[Some(s)] + g[s \ {Some(s)}]
  BY <1>3, <1>4 DEF AddsUp
<1>6. Is([s \in SUBSET D |-> g[s]])
  BY <1>5
<1>7. Is(Adder(f))
  BY <1>6 DEF Adder
<1> QED
  BY <1>7

\* Where every element counts no more, the sum over any set is no greater.
LEMMA SumOver ==
    ASSUME NEW D, IsFiniteSet(D), NEW f \in [D -> Nat], NEW g \in [D -> Nat], NEW k \in Int,
           NEW i \in D, g[i] <= f[i] + k, \A j \in D \ {i} : g[j] <= f[j]
    PROVE  \A s \in SUBSET D :
             /\ Adder(f)[s] \in Nat /\ Adder(g)[s] \in Nat
             /\ Adder(g)[s] <= Adder(f)[s] + (IF i \in s THEN k ELSE 0)
<1> DEFINE Sound(s) == /\ Adder(f)[s] \in Nat /\ Adder(g)[s] \in Nat
                      /\ Adder(g)[s] <= Adder(f)[s] + (IF i \in s THEN k ELSE 0)
           T == {n \in Nat : \A s \in SUBSET D : Cardinality(s) = n => Sound(s)}
<1>0. \A s \in SUBSET D : IsFiniteSet(s) /\ Cardinality(s) \in Nat /\ (Cardinality(s) = 0 <=> s = {})
  BY FS_Subset, FS_CardinalityType, FS_EmptySet
<1>1. \A s \in SUBSET D :
        /\ Adder(f)[s] = IF s = {} THEN 0 ELSE f[Some(s)] + Adder(f)[s \ {Some(s)}]
        /\ Adder(g)[s] = IF s = {} THEN 0 ELSE g[Some(s)] + Adder(g)[s \ {Some(s)}]
  <2>1. DOMAIN f = D /\ DOMAIN g = D
    OBVIOUS
  <2> QED
    BY <2>1, AdderAdds
<1>2. 0 \in T
  <2> SUFFICES ASSUME NEW s \in SUBSET D, Cardinality(s) = 0 PROVE Sound(s)
    OBVIOUS
  <2>1. Adder(f)[s] = 0 /\ Adder(g)[s] = 0 /\ i \notin s
    BY <1>0, <1>1
  <2> QED
    BY <2>1
<1>3. ASSUME NEW n \in Nat, n \in T PROVE n + 1 \in T
  <2> SUFFICES ASSUME NEW s \in SUBSET D, Cardinality(s) = n + 1 PROVE Sound(s)
    OBVIOUS
  <2> DEFINE x == Some(s)
             r == s \ {x}
  <2>1. s # {} /\ x \in s /\ r \in SUBSET D /\ Cardinality(r) = n
    BY <1>0, SmallerSet
  <2>2. Sound(r)
    BY <1>3, <2>1
  <2>3. Adder(f)[s] = f[x] + Adder(f)[r] /\ Adder(g)[s] = g[x] + Adder(g)[r]
    BY <1>1, <2>1
  <2>4. x \in D /\ f[x] \in Nat /\ g[x] \in Nat
    BY <2>1
  <2>5. r = s \ {x}
    OBVIOUS
  <2> HIDE DEF x, r
  <2>6. CASE x = i
    <3>1. i \in s /\ i \notin r
      BY <2>1, <2>5, <2>6
    <3> QED
      BY <2>2, <2>3, <2>4, <2>6, <3>1
  <2>7. CASE x # i
    <3>1. i \in s <=> i \in r
      BY <2>5, <2>7
    <3>2. g[x] <= f[x]
      BY <2>4, <2>7
    <3> QED
      BY <2>2, <2>3, <2>4, <3>1, <3>2
  <2> QED
    BY <2>6, <2>7
<1> HIDE DEF Sound
<1>4. Nat \subseteq T
  <2> HIDE DEF T
  <2> QED
    BY <1>2, <1>3, SetInduction
<1>5. ASSUME NEW s \in SUBSET D PROVE Sound(s)
  <2>1. Cardinality(s) \in T
    BY <1>0, <1>4
  <2> QED
    BY <2>1
<1> QED
  BY <1>5 DEF Sound

\* Where nothing but i may count more, the sum grows by what i counts more.
LEMMA SumGrows ==
    ASSUME NEW D, IsFiniteSet(D), NEW f \in [D -> Nat], NEW g \in [D -> Nat], NEW k \in Int,
           NEW i \in D, g[i] <= f[i] + k, \A j \in D \ {i} : g[j] <= f[j]
    PROVE  /\ SumFunction(f) \in Nat /\ SumFunction(g) \in Nat
           /\ SumFunction(g) <= SumFunction(f) + k
<1>1. DOMAIN f = D /\ DOMAIN g = D
  OBVIOUS
<1> QED
  BY <1>1, SumOver, SumIsAdder

\* Where nothing counts more, the sum is no greater.
LEMMA SumShrinks ==
    ASSUME NEW D, IsFiniteSet(D), NEW f \in [D -> Nat], NEW g \in [D -> Nat],
           \A j \in D : g[j] <= f[j]
    PROVE  /\ SumFunction(f) \in Nat /\ SumFunction(g) \in Nat
           /\ SumFunction(g) <= SumFunction(f)
<1>1. CASE D = {}
  <2>1. f = g /\ DOMAIN f = {}
    BY <1>1
  <2>2. SumFunction(f) = 0
    BY <2>1, FS_EmptySet, AdderAdds, SumIsAdder
  <2> QED
    BY <2>1, <2>2
<1>2. CASE D # {}
  <2>1. PICK i \in D : TRUE
    BY <1>2
  <2> QED
    BY <2>1, SumGrows
<1> QED
  BY <1>1, <1>2

\* Nothing adds up to nothing.
LEMMA SumOfNothing ==
    ASSUME NEW D, IsFiniteSet(D)
    PROVE  SumFunction([j \in D |-> 0]) = 0
<1> DEFINE f == [j \in D |-> 0]
           T == {n \in Nat : \A s \in SUBSET D : Cardinality(s) = n => Adder(f)[s] = 0}
<1>0. \A s \in SUBSET D : IsFiniteSet(s) /\ Cardinality(s) \in Nat /\ (Cardinality(s) = 0 <=> s = {})
  BY FS_Subset, FS_CardinalityType, FS_EmptySet
<1>1. \A s \in SUBSET D : Adder(f)[s] = IF s = {} THEN 0 ELSE f[Some(s)] + Adder(f)[s \ {Some(s)}]
  <2>1. DOMAIN f = D
    OBVIOUS
  <2> QED
    BY <2>1, AdderAdds
<1>2. 0 \in T
  BY <1>0, <1>1
<1>f. \A j \in D : f[j] = 0
  OBVIOUS
<1> HIDE DEF f
<1>3. ASSUME NEW n \in Nat, n \in T PROVE n + 1 \in T
  <2> SUFFICES ASSUME NEW s \in SUBSET D, Cardinality(s) = n + 1 PROVE Adder(f)[s] = 0
    OBVIOUS
  <2>1. s # {} /\ Some(s) \in s /\ s \ {Some(s)} \in SUBSET D /\ Cardinality(s \ {Some(s)}) = n
    BY <1>0, SmallerSet
  <2>2. Adder(f)[s \ {Some(s)}] = 0 /\ f[Some(s)] = 0
    BY <1>3, <1>f, <2>1
  <2> QED
    BY <1>1, <2>1, <2>2
<1>4. Nat \subseteq T
  <2> HIDE DEF T
  <2> QED
    BY <1>2, <1>3, SetInduction
<1>5. Adder(f)[D] = 0
  <2>1. Cardinality(D) \in T
    BY <1>0, <1>4
  <2> QED
    BY <2>1
<1>6. DOMAIN f = D
  BY DEF f
<1> QED
  BY <1>5, <1>6, SumIsAdder DEF f

-----------------------------------------------------------------------------
(* The result quota *)

Room == MaxTaskBytes + MaxReplyBytes

\* A request completed after its admission; while it is active with a frozen
\* result, what the row says of the size is the size of that result.
Dated(t, i) ==
    t.state \in Active =>
        /\ t.completedAt # 0 => born[i].at <= t.completedAt
        /\ db.result[i].frozenAt # 0 => t.completedAt # 0 /\ t.bytes = db.result[i].size

\* The quota holds for what is on disk as well, and a request that is about
\* to be recorded has found room.
QInv ==
    /\ \A i \in Ids : born[i].at <= now
    /\ \A i \in Ids : Dated(db.task[i], i) /\ (up => Dated(mem.task[i], i))
    /\ SumFunction(Counted(Stored)) <= MaxResultBytes
    /\ up => SumFunction(Counted(mem)) <= MaxResultBytes
    /\ lock.step = "commit" => ResultBytes(mem) + Room <= MaxResultBytes

\* What one request with row t counts.
Counts(t, i) ==
    IF t.state = "succeeded" /\ born[i].at + ResultRetention <= t.finishedAt THEN 0 ELSE Reservation(t)

\* What a step of the running store may do to request i.
Moves(i) ==
    /\ Counts(mem.task[i], i)' <= Counts(mem.task[i], i)
    /\ Dated(mem.task[i], i)'

\* The result is the same but for its receipts, or it is gone.
RowKept(i) ==
    \/ db'.result[i].frozenAt = 0
    \/ /\ db'.result[i].frozenAt = db.result[i].frozenAt
       /\ db'.result[i].size = db.result[i].size

LEMMA RoomType == Room \in Nat
BY BoundAssumption DEF Room

LEMMA ReservationType ==
    ASSUME NEW t \in Task, now \in Time
    PROVE  Reservation(t) \in Nat /\ Reservation(t) <= Room
BY BoundAssumption, RoomType DEF Reservation, Task, Bytes, Room

LEMMA CountsType ==
    ASSUME NEW t \in Task, NEW i, now \in Time
    PROVE  /\ Counts(t, i) \in Nat
           /\ Counts(t, i) <= Reservation(t)
           /\ Reservation(t) <= Room
BY ReservationType DEF Counts

LEMMA CountedType ==
    ASSUME NEW m \in Index, now \in Time
    PROVE  /\ Counted(m) = [i \in Ids |-> Counts(m.task[i], i)]
           /\ Counted(m) \in [Ids -> Nat]
<1>1. \A i \in Ids : m.task[i] \in Task
  BY DEF Index
<1>2. Counted(m) = [i \in Ids |-> Counts(m.task[i], i)]
  BY DEF Counted, Counts, Overdue
<1> QED
  BY <1>1, <1>2, CountsType

LEMMA HeldType ==
    ASSUME NEW m \in Index, now \in Time
    PROVE  /\ ResultBytes(m) = SumFunction([i \in Ids |-> Reservation(m.task[i])])
           /\ [i \in Ids |-> Reservation(m.task[i])] \in [Ids -> Nat]
           /\ ResultBytes(m) \in Nat
           /\ SumFunction(Counted(m)) \in Nat
<1>1. \A i \in Ids : m.task[i] \in Task
  BY DEF Index
<1> DEFINE f == [i \in Ids |-> Reservation(m.task[i])]
<1>2. f \in [Ids -> Nat] /\ Counted(m) \in [Ids -> Nat]
  BY <1>1, ReservationType, CountedType
<1>3. ResultBytes(m) = SumFunction(f)
  BY DEF ResultBytes
<1> HIDE DEF f
<1>4. \A j \in Ids : f[j] <= f[j]
  BY <1>2
<1>5. SumFunction(f) \in Nat
  BY <1>2, <1>4, FiniteAssumption, SumShrinks
<1> DEFINE g == Counted(m)
<1>6. g \in [Ids -> Nat] /\ \A j \in Ids : g[j] <= g[j]
  BY <1>2
<1> HIDE DEF g
<1>7. SumFunction(g) \in Nat
  BY <1>6, FiniteAssumption, SumShrinks
<1> QED
  BY <1>2, <1>3, <1>5, <1>7 DEF f, g

\* A request a step leaves alone.
LEMMA SameMoves ==
    ASSUME TypeOK, QInv, up, NEW i \in Ids, born' = born, now' = now,
           mem'.task[i] = mem.task[i], RowKept(i)
    PROVE  Moves(i)
<1>1. mem.task[i] \in Task /\ now \in Time
  BY TaskFacts DEF TypeOK
<1>2. Counts(mem.task[i], i)' = Counts(mem.task[i], i)
  BY DEF Counts, Reservation, ResultExpired
<1>3. Counts(mem.task[i], i) \in Nat /\ Dated(mem.task[i], i)
  BY <1>1, CountsType DEF QInv
<1>4. Dated(mem.task[i], i)'
  BY <1>3 DEF Dated, RowKept
<1> QED
  BY <1>2, <1>3, <1>4 DEF Moves

\* A request that goes on or ends with what it has.
LEMMA EndMoves ==
    ASSUME TypeOK, QInv, up, NEW i \in Ids, NEW u \in Task, born' = born, now' = now, mem'.task[i] = u, RowKept(i),
           u.bytes = mem.task[i].bytes, u.completedAt = mem.task[i].completedAt,
           \/ u.state = mem.task[i].state /\ u.finishedAt = mem.task[i].finishedAt
           \/ mem.task[i].state \in Active /\ u.state \in Active \cup Terminal
    PROVE  Moves(i)
<1> DEFINE t == mem.task[i]
<1>1. t \in Task /\ now \in Time
  BY TaskFacts DEF TypeOK
<1>2. Dated(t, i)
  BY DEF QInv
<1> HIDE DEF t
<1>3. mem.task[i] = t
  BY DEF t
<1>4. Dated(mem.task[i], i)'
  BY <1>1, <1>2, <1>3 DEF Dated, RowKept, Active, Terminal, Task
<1>5. Reservation(u) \in Nat /\ Reservation(t) \in Nat
  BY <1>1, ReservationType
<1>6. CASE u.state = t.state /\ u.finishedAt = t.finishedAt
  <2>1. Reservation(u) = Reservation(t)
    BY <1>3, <1>6 DEF Reservation, ResultExpired
  <2>2. Counts(u, i) = Counts(t, i) /\ Counts(t, i) \in Nat
    BY <1>1, <1>6, <2>1, CountsType DEF Counts
  <2>3. Counts(mem.task[i], i)' = Counts(u, i)
    BY DEF Counts, Reservation, ResultExpired
  <2> QED
    BY <1>3, <1>4, <2>2, <2>3 DEF Moves
<1>7. CASE t.state \in Active /\ u.state \in Active \cup Terminal
  <2>1. Reservation(u) <= Reservation(t)
    BY <1>1, <1>3, <1>5, <1>7, BoundAssumption DEF Reservation, ResultExpired, Active, Terminal, Task, Bytes
  <2>2. Counts(u, i) <= Reservation(u) /\ Counts(t, i) = Reservation(t) /\ Counts(u, i) \in Nat
    BY <1>1, <1>7, CountsType DEF Counts, Active
  <2>3. Counts(mem.task[i], i)' = Counts(u, i)
    BY DEF Counts, Reservation, ResultExpired
  <2> QED
    BY <1>3, <1>4, <1>5, <2>1, <2>2, <2>3 DEF Moves
<1> QED
  BY <1>3, <1>6, <1>7

\* A request that goes.
LEMMA GoneMoves ==
    ASSUME TypeOK, up, NEW i \in Ids, mem'.task[i] = NoTask
    PROVE  Moves(i)
<1>1. Counts(mem.task[i], i)' = 0
  BY DEF Counts, Reservation, NoTask, Active
<1>2. Dated(mem.task[i], i)'
  BY DEF Dated, NoTask, Active
<1>3. Counts(mem.task[i], i) \in Nat
  BY TaskFacts, CountsType DEF TypeOK
<1> QED
  BY <1>1, <1>2, <1>3 DEF Moves

\* A request that is found to have completed.
LEMMA CompletedMoves ==
    ASSUME TypeOK, QInv, up, NEW i \in Ids, NEW u \in Task, born' = born, now' = now, mem'.task[i] = u,
           mem.task[i].state \in Active, mem.task[i].completedAt = 0,
           u.completedAt # 0, u.state \in Active => u.completedAt = now /\ db'.result[i].frozenAt = 0
    PROVE  Moves(i)
<1> DEFINE t == mem.task[i]
<1>1. t \in Task /\ now \in Time
  BY TaskFacts DEF TypeOK
<1>2. Reservation(t) = Room /\ Counts(t, i) = Room
  BY DEF Reservation, Room, Active, Counts
<1>3. Counts(u, i) \in Nat /\ Counts(u, i) <= Room
  BY <1>1, CountsType, ReservationType, RoomType
<1>4. Counts(mem.task[i], i)' = Counts(u, i)
  BY DEF Counts, Reservation, ResultExpired
<1>5. born[i].at <= now
  BY DEF QInv
<1>6. Dated(mem.task[i], i)'
  BY <1>5 DEF Dated
<1> QED
  BY <1>2, <1>3, <1>4, <1>6 DEF Moves

\* What a save writes is what startup would read back.
LEMMA StoresSaved ==
    ASSUME NEW m \in Index, NEW d, Save(m, d)
    PROVE  /\ Stored' = mem' /\ mem' = m
           /\ \A i \in Ids : d.result[i].frozenAt \in {0, db.result[i].frozenAt} /\ d.result[i].size = db.result[i].size
                => RowKept(i)
<1>1. m = [task |-> m.task, rejected |-> m.rejected, cleared |-> m.cleared]
  BY DEF Index
<1>2. \A i \in Ids : db'.result[i] = IF m.task[i].state = "absent" THEN NoResult ELSE d.result[i]
  BY DEF Save, Persist, Known
<1>3. NoResult.frozenAt = 0
  BY DEF NoResult
<1> QED
  BY <1>1, <1>2, <1>3 DEF Save, Persist, Stored, RowKept

\* A step of the running store in which no request comes to count more.
LEMMA QuotaStep ==
    ASSUME IInv, TypeOK', QInv, up, up', born' = born, now' = now,
           lock'.step # "commit" \/ (mem' = mem /\ ResultBytes(mem) + Room <= MaxResultBytes),
           \A i \in Ids : Moves(i),
           Stored' = mem' \/ (Stored' = Stored /\ \A i \in Ids : RowKept(i))
    PROVE  QInv'
<1>1. mem \in Index /\ mem' \in Index /\ now \in Time /\ now' \in Time /\ Stored \in Index
  BY StoredType DEF IInv, TypeOK
<1> DEFINE f == Counted(mem)
           g == Counted(mem)'
<1>2. f = [i \in Ids |-> Counts(mem.task[i], i)] /\ f \in [Ids -> Nat]
  BY <1>1, CountedType
<1>3. g = [i \in Ids |-> Counts(mem.task[i], i)']
  BY DEF Counted, Counts, Overdue
<1>4. \A i \in Ids : Counts(mem.task[i], i)' \in Nat
  <2> SUFFICES ASSUME NEW i \in Ids PROVE Counts(mem.task[i], i)' \in Nat
    OBVIOUS
  <2>1. mem'.task[i] \in Task
    BY <1>1 DEF Index
  <2>2. Counts(mem'.task[i], i) \in Nat
    BY <1>1, <2>1, CountsType
  <2>3. Counts(mem.task[i], i)' = Counts(mem'.task[i], i)
    BY DEF Counts, Reservation, ResultExpired
  <2> QED
    BY <2>2, <2>3
<1>5. g \in [Ids -> Nat] /\ \A i \in Ids : g[i] <= f[i]
  BY <1>2, <1>3, <1>4 DEF Moves
<1> HIDE DEF f, g
<1>6. SumFunction(f) \in Nat /\ SumFunction(g) \in Nat /\ SumFunction(g) <= SumFunction(f)
  BY <1>2, <1>5, FiniteAssumption, SumShrinks
<1>7. SumFunction(g) <= MaxResultBytes
  BY <1>6, BoundAssumption DEF QInv, f
<1>8. SumFunction(Counted(mem))' <= MaxResultBytes
  BY <1>7 DEF g
<1>9. SumFunction(Counted(Stored))' <= MaxResultBytes
  <2>1. CASE Stored' = mem'
    <3>1. Counted(Stored)' = Counted(mem)'
      BY <2>1 DEF Counted, Overdue
    <3> QED
      BY <1>8, <3>1
  <2>2. CASE Stored' = Stored
    <3>1. Counted(Stored)' = Counted(Stored)
      BY <2>2 DEF Counted, Overdue, Reservation, ResultExpired
    <3> QED
      BY <3>1 DEF QInv
  <2> QED
    BY <2>1, <2>2
<1>10. (\A i \in Ids : Dated(db.task[i], i) /\ (up => Dated(mem.task[i], i)))'
  <2>1. \A i \in Ids : Dated(mem.task[i], i)'
    BY DEF Moves
  <2>2. CASE Stored' = mem'
    <3>1. db'.task = mem'.task
      BY <2>2 DEF Stored
    <3> QED
      BY <2>1, <3>1 DEF Dated
  <2>3. CASE Stored' = Stored /\ \A i \in Ids : RowKept(i)
    <3>1. db'.task = db.task
      BY <2>3 DEF Stored
    <3>2. \A i \in Ids : Dated(db.task[i], i)'
      BY <2>3, <3>1 DEF QInv, Dated, RowKept
    <3> QED
      BY <2>1, <3>2
  <2> QED
    BY <2>2, <2>3
<1>11. (lock.step = "commit" => ResultBytes(mem) + Room <= MaxResultBytes)'
  <2>1. mem' = mem => ResultBytes(mem)' = ResultBytes(mem)
    BY DEF ResultBytes, Reservation, ResultExpired
  <2> QED
    BY <2>1 DEF Room
<1> QED
  BY <1>8, <1>9, <1>10, <1>11 DEF QInv

\* A step that leaves the requests, in memory and on disk, and their results alone.
LEMMA QuotaQuiet ==
    ASSUME IInv, TypeOK', QInv, up, up', born' = born, now' = now,
           lock'.step # "commit" \/ ResultBytes(mem) + Room <= MaxResultBytes,
           mem' = mem, Stored' = Stored,
           \A i \in Ids : RowKept(i)
    PROVE  QInv'
<1>1. \A i \in Ids : Moves(i)
  BY SameMoves DEF IInv
<1> QED
  BY <1>1, QuotaStep

\* A save that changes at most one request.
LEMMA QuotaSave ==
    ASSUME IInv, TypeOK', QInv, up, up', born' = born, now' = now, lock'.step # "commit",
           NEW i \in Ids, NEW m \in Index, NEW d, Save(m, d),
           \A j \in Ids \ {i} : m.task[j] \in {mem.task[j], NoTask} /\ d.result[j] = db.result[j],
           Moves(i)
    PROVE  QInv'
<1>1. Stored' = mem' /\ mem' = m /\ \A j \in Ids \ {i} : RowKept(j)
  BY StoresSaved
<1>2. \A j \in Ids : Moves(j)
  BY <1>1, SameMoves, GoneMoves DEF IInv
<1> QED
  BY <1>1, <1>2, QuotaStep

\* A request goes on or ends with what it has.
LEMMA QuotaUpdate ==
    ASSUME IInv, TypeOK', QInv, up, up', born' = born, now' = now, lock'.step # "commit",
           NEW i \in Ids, NEW u \in Task, NEW d, Update(i, u, d),
           \A j \in Ids \ {i} : d.result[j] = db.result[j],
           d.result[i].frozenAt = db.result[i].frozenAt, d.result[i].size = db.result[i].size,
           u.bytes = mem.task[i].bytes, u.completedAt = mem.task[i].completedAt,
           \/ u.state = mem.task[i].state /\ u.finishedAt = mem.task[i].finishedAt
           \/ mem.task[i].state \in Active /\ u.state \in Active \cup Terminal
    PROVE  QInv'
<1> DEFINE m == [mem EXCEPT !.task[i] = u]
<1>1. mem \in Index /\ m \in Index /\ TypeOK
  BY SetTask DEF IInv, TypeOK
<1>2. m.task[i] = u /\ \A j \in Ids \ {i} : m.task[j] = mem.task[j]
  BY <1>1 DEF Index
<1>3. Save(m, d)
  BY DEF Update
<1> HIDE DEF m
<1>4. mem' = m /\ RowKept(i)
  BY <1>1, <1>3, StoresSaved
<1>5. Moves(i)
  BY <1>1, <1>2, <1>4, EndMoves
<1> QED
  BY <1>1, <1>2, <1>3, <1>5, QuotaSave

LEMMA QuotaTransition ==
    ASSUME IInv, TypeOK', QInv, Idle, up', born' = born, now' = now, lock'.step # "commit",
           NEW i \in Ids, NEW next \in Terminal \cup {"delivering"}, NEW u \in BOOLEAN, NEW d,
           Transition(i, next, u, d),
           \A j \in Ids \ {i} : d.result[j] = db.result[j],
           d.result[i].frozenAt = db.result[i].frozenAt, d.result[i].size = db.result[i].size
    PROVE  QInv'
<1> DEFINE t == mem.task[i]
           end == EndState(t, next)
           x == [t EXCEPT !.state = end, !.unconfirmed = u /\ end = "failed",
                          !.finishedAt = IF end \in Terminal THEN now ELSE 0]
<1>1. up /\ t \in Task /\ now \in Time /\ 0 \in Time
  BY TaskFacts, BoundAssumption DEF Idle, IInv, TypeOK, Time
<1>2. AllowedTransition(t, end) /\ Update(i, x, d)
  BY DEF Transition
<1>3. end \in Terminal \cup {"delivering"}
  BY DEF EndState, Terminal
<1>4. (u /\ end = "failed") \in BOOLEAN /\ (IF end \in Terminal THEN now ELSE 0) \in Time
  BY <1>1
<1> HIDE DEF t, end
<1>5. x \in Task
  BY <1>1, <1>3, <1>4, EndedTaskType DEF Active
<1>6. x.state = end /\ x.bytes = t.bytes /\ x.completedAt = t.completedAt
  BY <1>1 DEF Task
<1>7. t.state \in Active
  BY <1>2 DEF AllowedTransition, Active
<1> HIDE DEF x
<1>8. x.state \in Active \cup Terminal
  BY <1>3, <1>6 DEF Active
<1> QED
  BY <1>1, <1>2, <1>5, <1>6, <1>7, <1>8, QuotaUpdate DEF t

\* The process dies, or startup gives up.
LEMMA QuotaDown ==
    ASSUME IInv, QInv, ~ up', lock' = Unlocked, born' = born, now' = now, Stored' = Stored,
           \A i \in Ids : RowKept(i)
    PROVE  QInv'
<1>1. Counted(Stored)' = Counted(Stored)
  BY DEF Counted, Overdue, Reservation, ResultExpired
<1>2. db'.task = db.task
  BY DEF Stored
<1>3. \A i \in Ids : Dated(db.task[i], i)'
  BY <1>2 DEF QInv, Dated, RowKept
<1> QED
  BY <1>1, <1>3 DEF QInv, Unlocked

\* Startup reads the index back.
LEMMA QuotaBoot == QInv /\ Boot => QInv'
<1> SUFFICES ASSUME QInv, Boot PROVE QInv'
  OBVIOUS
<1>1. mem' = Stored /\ Stored' = Stored /\ db' = db /\ born' = born /\ now' = now
  BY DEF Boot, Stored
<1>2. Counted(mem)' = Counted(Stored) /\ Counted(Stored)' = Counted(Stored)
  BY <1>1 DEF Counted, Overdue, Reservation, ResultExpired
<1>3. mem'.task = db.task
  BY <1>1 DEF Stored
<1>4. \A i \in Ids : Dated(db.task[i], i)' /\ Dated(mem.task[i], i)'
  BY <1>1, <1>3 DEF QInv, Dated
<1>5. lock'.step # "commit"
  BY DEF Boot, Unlocked
<1> QED
  BY <1>1, <1>2, <1>4, <1>5 DEF QInv

\* Time passes: nothing counts more than before.
LEMMA LaterCounts ==
    ASSUME NEW m \in Index, now \in Time, now' \in Time, now <= now', born' = born
    PROVE  /\ SumFunction(Counted(m))' <= SumFunction(Counted(m))
           /\ SumFunction(Counted(m))' \in Nat /\ SumFunction(Counted(m)) \in Nat
<1> DEFINE f == Counted(m)
           g == Counted(m)'
<1>1. ASSUME NEW t \in Task, NEW i \in Ids PROVE Counts(t, i)' \in Nat /\ Counts(t, i)' <= Counts(t, i)
  <2>1. Reservation(t)' \in Nat /\ Reservation(t)' <= Reservation(t)
    BY BoundAssumption, RetentionAssumption DEF Reservation, ResultExpired, Task, Bytes, Time
  <2>2. CASE t.state = "succeeded" /\ born[i].at + ResultRetention <= t.finishedAt
    BY <2>2 DEF Counts
  <2>3. CASE ~ (t.state = "succeeded" /\ born[i].at + ResultRetention <= t.finishedAt)
    BY <2>1, <2>3 DEF Counts
  <2> QED
    BY <2>2, <2>3
<1>2. \A i \in Ids : m.task[i] \in Task
  BY DEF Index
<1>3. f = [i \in Ids |-> Counts(m.task[i], i)] /\ f \in [Ids -> Nat]
  BY CountedType
<1>4. g = [i \in Ids |-> Counts(m.task[i], i)']
  BY DEF Counted, Counts, Overdue
<1>5. g \in [Ids -> Nat] /\ \A i \in Ids : g[i] <= f[i]
  BY <1>1, <1>2, <1>3, <1>4
<1> HIDE DEF f, g
<1>6. SumFunction(g) <= SumFunction(f) /\ SumFunction(g) \in Nat /\ SumFunction(f) \in Nat
  BY <1>3, <1>5, FiniteAssumption, SumShrinks
<1> QED
  BY <1>6 DEF f, g

LEMMA QuotaTick == IInv /\ QInv /\ TypeOK' /\ Tick => QInv'
<1> SUFFICES ASSUME IInv, QInv, TypeOK', Tick PROVE QInv'
  OBVIOUS
<1>1. /\ now \in Time /\ now' \in Time /\ now <= now' /\ mem \in Index /\ Stored \in Index
      /\ up' = up /\ mem' = mem /\ db' = db /\ Stored' = Stored /\ born' = born /\ lock' = lock /\ lock = Unlocked
  BY StoredType DEF IInv, TypeOK, Tick, Time, Stored
<1>2. /\ SumFunction(Counted(mem))' <= SumFunction(Counted(mem))
      /\ SumFunction(Counted(mem))' \in Nat /\ SumFunction(Counted(mem)) \in Nat
  <2>1. PICK m \in Index : m = mem
    BY <1>1
  <2>2. Counted(mem)' = Counted(m)' /\ Counted(mem) = Counted(m)
    BY <1>1, <2>1 DEF Counted, Overdue, Reservation, ResultExpired
  <2> QED
    BY <1>1, <2>2, LaterCounts
<1>3. /\ SumFunction(Counted(Stored))' <= SumFunction(Counted(Stored))
      /\ SumFunction(Counted(Stored))' \in Nat /\ SumFunction(Counted(Stored)) \in Nat
  <2>1. PICK m \in Index : m = Stored
    BY <1>1
  <2>2. Counted(Stored)' = Counted(m)' /\ Counted(Stored) = Counted(m)
    BY <1>1, <2>1 DEF Counted, Overdue, Reservation, ResultExpired
  <2> QED
    BY <1>1, <2>2, LaterCounts
<1>4. \A i \in Ids : Dated(db.task[i], i)' /\ (up => Dated(mem.task[i], i)')
  BY <1>1 DEF QInv, Dated
<1>5. \A i \in Ids : born'[i].at <= now'
  <2>1. \A i \in Ids : born[i].at \in Time /\ born[i].at <= now
    BY DEF QInv, IInv, TypeOK
  <2> QED
    BY <1>1, <2>1 DEF Time
<1>6. lock'.step # "commit"
  BY <1>1 DEF Unlocked
<1> QED
  BY <1>1, <1>2, <1>3, <1>4, <1>5, <1>6, BoundAssumption DEF QInv

\* Request i comes to count by no more than k what it counted, the space it
\* held aside, and the index is saved.
LEMMA QuotaGrant ==
    ASSUME IInv, TypeOK', QInv, up', now' = now, lock'.step # "commit", NEW i \in Ids,
           \A j \in Ids \ {i} : /\ mem'.task[j] = mem.task[j] /\ born'[j] = born[j]
                                /\ RowKept(j),
           born'[i].at <= now, Stored' = mem', up,
           Dated(mem.task[i], i)', NEW k \in Int,
           Counts(mem.task[i], i)' <= Reservation(mem.task[i]) + k,
           ResultBytes(mem) + k <= MaxResultBytes
    PROVE  QInv'
<1>1. mem \in Index /\ mem' \in Index /\ now \in Time /\ now' \in Time
  BY DEF IInv, TypeOK
<1> DEFINE f == [j \in Ids |-> Reservation(mem.task[j])]
           g == Counted(mem)'
<1>2. f \in [Ids -> Nat] /\ ResultBytes(mem) = SumFunction(f)
  BY <1>1, HeldType
<1>3. g = [j \in Ids |-> Counts(mem.task[j], j)']
  BY DEF Counted, Counts, Overdue
<1>4. ASSUME NEW j \in Ids PROVE Counts(mem.task[j], j)' \in Nat /\ (j # i => Counts(mem.task[j], j)' <= f[j])
  <2>1. mem'.task[j] \in Task /\ mem.task[j] \in Task
    BY <1>1 DEF Index
  <2>2. Reservation(mem.task[j])' = Reservation(mem'.task[j])
    BY DEF Reservation, ResultExpired
  <2>3. Reservation(mem'.task[j]) \in Nat
    BY <1>1, <2>1, ReservationType
  <2>4. Counts(mem.task[j], j)' \in {0, Reservation(mem.task[j])'}
    BY DEF Counts
  <2>5. Reservation(mem'.task[j]) = f[j] \/ j = i
    OBVIOUS
  <2> QED
    BY <2>2, <2>3, <2>4, <2>5
<1>5. g \in [Ids -> Nat] /\ (\A j \in Ids \ {i} : g[j] <= f[j]) /\ g[i] <= f[i] + k
  BY <1>3, <1>4
<1> HIDE DEF f, g
<1>6. SumFunction(f) \in Nat /\ SumFunction(g) \in Nat /\ SumFunction(g) <= SumFunction(f) + k
  BY <1>2, <1>5, FiniteAssumption, SumGrows
<1>7. SumFunction(g) <= MaxResultBytes
  BY <1>2, <1>6, BoundAssumption
<1>8. SumFunction(Counted(mem))' <= MaxResultBytes
  BY <1>7 DEF g
<1>9. Counted(Stored)' = Counted(mem)'
  BY DEF Counted, Overdue
<1>10. ASSUME NEW j \in Ids PROVE Dated(db.task[j], j)' /\ Dated(mem.task[j], j)'
  <2>1. db'.task[j] = mem'.task[j]
    BY DEF Stored
  <2>2. j # i => Dated(mem.task[j], j)'
    BY DEF QInv, Dated, RowKept
  <2>3. Dated(mem.task[j], j)'
    BY <2>2
  <2> QED
    BY <2>1, <2>3 DEF Dated
<1>11. \A j \in Ids : born'[j].at <= now'
  BY DEF QInv
<1> QED
  BY <1>8, <1>9, <1>10, <1>11 DEF QInv

\* A request is recorded that has found room.
LEMMA QuotaCommit == IInv /\ TypeOK' /\ QInv /\ StartCommit => QInv'
<1> SUFFICES ASSUME IInv, TypeOK', QInv, StartCommit PROVE QInv'
  OBVIOUS
<1>0. PICK i \in Ids : i = lock.id
  BY DEF StartCommit, IInv, LockAgrees
<1> DEFINE r == lock.request
           x == [NoTask EXCEPT !.source = r.source, !.target = r.target, !.thread = r.thread,
                               !.state = "running", !.pending = r.pending, !.retryOf = r.retryOf]
           m == [mem EXCEPT !.task[i] = x]
           d == [db EXCEPT !.input[i] = IF r.pending THEN "raw" ELSE "ready"]
<1>1. /\ born[i].at = 0 /\ up /\ up' /\ now' = now /\ now \in Time /\ lock.step = "commit"
      /\ lock'.step # "commit"
  <2>1. up /\ up' /\ now' = now /\ lock.step = "commit" /\ lock' = Unlocked
    BY DEF StartCommit
  <2>2. born[i].at = 0 /\ now \in Time
    BY <1>0, <2>1 DEF StartCommit, IInv, TypeOK, LockAgrees
  <2> QED
    BY <2>1, <2>2 DEF Unlocked
<1>2. mem \in Index /\ db \in Database /\ r \in Request /\ DOMAIN born = Ids
  BY DEF IInv, TypeOK, Lock
<1>3. x.state = "running" /\ x.completedAt = 0 /\ x \in Task
  <2>1. x.state = "running" /\ x.completedAt = 0
    BY DEF NoTask
  <2>2. x \in Task
    BY <1>2, NoTaskType DEF Request, Task, Active
  <2> QED
    BY <2>1, <2>2
<1>4. Save(m, d) /\ m \in Index
  BY <1>0, <1>2, <1>3, SetTask DEF StartCommit
<1>5. d.result = db.result
  BY <1>2 DEF Database
<1>6. m.task[i] = x /\ \A j \in Ids \ {i} : m.task[j] = mem.task[j]
  BY <1>1, <1>2 DEF Index
<1>7. born'[i].at = now /\ \A j \in Ids \ {i} : born'[j] = born[j]
  BY <1>0, <1>1, <1>2 DEF StartCommit
<1>8. db.result[i].frozenAt = 0
  BY <1>1 DEF IInv, RowsAgree, RowOK
<1> HIDE DEF x, m, d
<1>9. Stored' = mem' /\ mem' = m /\ \A j \in Ids : RowKept(j)
  BY <1>4, <1>5, StoresSaved
<1>10. db'.result[i].frozenAt = 0
  BY <1>1, <1>8, <1>9 DEF RowKept
<1>11. Dated(mem.task[i], i)'
  BY <1>3, <1>6, <1>9, <1>10 DEF Dated
<1>12. Counts(mem.task[i], i)' <= Reservation(mem.task[i]) + Room
  <2>1. Counts(mem.task[i], i)' = Room
    BY <1>3, <1>6, <1>9 DEF Counts, Reservation, Active, Room
  <2>2. Reservation(mem.task[i]) \in Nat
    BY <1>1, <1>2, ReservationType DEF Index
  <2> QED
    BY <2>1, <2>2, RoomType
<1>13. ResultBytes(mem) + Room <= MaxResultBytes
  BY <1>1 DEF QInv
<1>14. Room \in Int /\ born'[i].at <= now
  BY <1>1, <1>7, RoomType DEF Time
<1> QED
  BY <1>1, <1>6, <1>7, <1>9, <1>11, <1>12, <1>13, <1>14, QuotaGrant

\* A result is frozen: its real size takes the place of what was reserved.
LEMMA QuotaFreeze ==
    ASSUME IInv, TypeOK', QInv, NEW i \in Ids, NEW size \in Bytes \ {0}, NEW files \in BOOLEAN,
           FreezeResult(i, size, files)
    PROVE  QInv'
<1> DEFINE t == mem.task[i]
           u == Frozen(t, size)
           m == [mem EXCEPT !.task[i] = u]
           q == [NoResult EXCEPT !.frozenAt = now, !.size = size, !.files = files]
           d == [db EXCEPT !.result[i] = q, !.completion[i] = NoCompletion]
           k == size - Reservation(t)
<1>1. /\ up /\ up' /\ now' = now /\ now \in Time /\ now # 0 /\ lock'.step # "commit" /\ born' = born
      /\ mem \in Index /\ db \in Database /\ t \in Task
      /\ t.state \in Active \cup {"succeeded"}
  BY TaskFacts DEF FreezeResult, Idle, IInv, TypeOK, Unlocked, Active
<1>2. u \in Task /\ u.state = t.state /\ u.completedAt = IF t.completedAt = 0 THEN now ELSE t.completedAt
  BY <1>1, FrozenType
<1>3. u.bytes = size
  BY <1>1 DEF Frozen, Task
<1>4. Save(m, d)
  BY DEF FreezeResult, Update
<1>5. m \in Index /\ m.task[i] = u /\ \A j \in Ids \ {i} : m.task[j] = mem.task[j]
  <2>1. m \in Index
    BY <1>1, <1>2, SetTask
  <2> QED
    BY <1>1, <2>1 DEF Index
<1>6. d.result[i] = q /\ q.frozenAt = now /\ q.size = size /\ \A j \in Ids \ {i} : d.result[j] = db.result[j]
  BY <1>1 DEF Database, NoResult
<1> HIDE DEF m, d, q, u
<1>7. Stored' = mem' /\ mem' = m /\ \A j \in Ids \ {i} : RowKept(j)
  BY <1>4, <1>5, <1>6, StoresSaved
<1>8. db'.result[i] = q
  BY <1>1, <1>2, <1>4, <1>5, <1>6 DEF Save, Persist, Known, Active
<1>9. born[i].at <= now /\ Dated(t, i)
  BY <1>1 DEF QInv
<1> HIDE DEF t
<1>10. mem.task[i] = t
  BY DEF t
<1>11. Dated(mem.task[i], i)'
  BY <1>1, <1>2, <1>3, <1>5, <1>6, <1>7, <1>8, <1>9 DEF Dated
<1>12. Reservation(t) \in Nat /\ size \in Nat
  BY <1>1, ReservationType, BoundAssumption DEF Bytes
<1>13. Counts(mem.task[i], i)' <= size
  <2>1. Counts(mem.task[i], i)' = Counts(u, i)
    BY <1>1, <1>5, <1>7 DEF Counts, Reservation, ResultExpired
  <2>2. u.completedAt # 0 /\ u.state # "absent"
    BY <1>1, <1>2 DEF Active
  <2>3. Reservation(u) \in {0, size}
    BY <1>3, <2>2 DEF Reservation
  <2> QED
    BY <1>12, <2>1, <2>3 DEF Counts
<1>14. ResultBytes(mem) - Reservation(t) + size <= MaxResultBytes /\ ResultBytes(mem) \in Nat
  BY <1>1, HeldType DEF FreezeResult, t
<1>15. k \in Int /\ ResultBytes(mem) + k <= MaxResultBytes /\ Counts(mem.task[i], i)' <= Reservation(mem.task[i]) + k
  BY <1>10, <1>12, <1>13, <1>14, BoundAssumption
<1> HIDE DEF k
<1> QED
  BY <1>1, <1>5, <1>7, <1>9, <1>11, <1>15, QuotaGrant

\* Startup makes of request i what its rows say.  What had expired by its
\* completion and counts again from its freezing on was at work for longer
\* than results are kept.
LEMMA RecoveredMoves ==
    ASSUME IInv, TypeOK', QInv, up, lock.op = "boot", NEW i \in Ids, born' = born, now' = now,
           mem'.task[i] = Recovered(mem.task[i], i), RowKept(i)
    PROVE  Moves(i)
<1> DEFINE t == mem.task[i]
           c == Checkpointed(t, i)
           u == Recovered(t, i)
           r == db.result[i]
<1>1. /\ TypeOK /\ t \in Task /\ now \in Time /\ now # 0 /\ r \in Result /\ db.completion[i] \in Completion
      /\ RowOK(db.task[i], r, born[i]) /\ Dated(t, i) /\ born[i].at <= now /\ born[i].at \in Time
      /\ mem' \in Index
  BY TaskFacts DEF IInv, RowsAgree, QInv, TypeOK
<1>2. u \in Task
  BY <1>1 DEF Index
<1>3. CASE t.state \notin Active
  <2>1. u = t
    BY <1>3 DEF Recovered
  <2> QED
    BY <1>1, <2>1, SameMoves
<1>4. CASE t.state \in Active /\ Loadable(i)
  <2>1. /\ u.state = "succeeded" /\ u.finishedAt = now /\ u.completedAt = r.frozenAt /\ u.bytes = r.size
    BY <1>1, <1>4 DEF Recovered, Task
  <2>2. t.completedAt # 0 /\ t.bytes = r.size /\ born[i].at <= t.completedAt /\ r.frozenAt # 0
    BY <1>1, <1>4 DEF Dated, Loadable
  <2>3. Counts(mem.task[i], i)' = Counts(u, i)
    BY DEF Counts, Reservation, ResultExpired
  <2>4. Dated(mem.task[i], i)'
    BY <2>1 DEF Dated, Active
  <2>5. Counts(t, i) = Reservation(t) /\ Counts(u, i) \in {0, Reservation(u)}
    BY <1>4 DEF Counts, Active
  <2>6. Reservation(u) \in {0, r.size} /\ r.size \in Nat
    BY <1>1, <2>1, <2>2, BoundAssumption DEF Reservation, Active, Result, Bytes
  <2>7. CASE ResultExpired(t)
    <3>1. t.completedAt + ResultRetention <= now
      BY <2>2, <2>7 DEF ResultExpired
    <3>2. t.completedAt \in Nat /\ born[i].at \in Nat /\ now \in Nat /\ ResultRetention \in Nat
      BY <1>1, BoundAssumption, RetentionAssumption DEF Task, Time
    <3>3. born[i].at + ResultRetention <= u.finishedAt
      BY <2>1, <2>2, <3>1, <3>2
    <3>4. Counts(u, i) = 0
      BY <2>1, <3>3 DEF Counts
    <3>5. Counts(t, i) \in Nat
      BY <1>1, CountsType
    <3> QED
      BY <2>3, <2>4, <3>4, <3>5 DEF Moves
  <2>8. CASE ~ ResultExpired(t)
    <3>1. Reservation(t) = r.size
      BY <1>4, <2>2, <2>8 DEF Reservation, Active
    <3> QED
      BY <2>3, <2>4, <2>5, <2>6, <3>1 DEF Moves
  <2> QED
    BY <2>7, <2>8
<1>5. CASE t.state \in Active /\ ~ Loadable(i) /\ t.completedAt = 0 /\ db.completion[i].at # 0
  <2>1. c.completedAt # 0 /\ u.completedAt # 0 /\ u.state = "succeeded"
    BY <1>1, <1>5 DEF Recovered, Checkpointed, Task
  <2> HIDE DEF t, u
  <2> QED
    BY <1>1, <1>2, <1>5, <2>1, CompletedMoves DEF Active, t, u
<1>6. CASE t.state \in Active /\ ~ Loadable(i) /\ ~ (t.completedAt = 0 /\ db.completion[i].at # 0)
  <2>1. c = t
    BY <1>6 DEF Checkpointed
  <2>2. u.completedAt = t.completedAt /\ u.bytes = t.bytes /\ u.state \in Terminal
    BY <1>1, <1>6, <2>1 DEF Recovered, Task, Terminal
  <2> HIDE DEF t, u
  <2> QED
    BY <1>1, <1>2, <1>6, <2>2, EndMoves DEF t, u
<1> QED
  BY <1>3, <1>4, <1>5, <1>6

LEMMA QuotaRecover ==
    ASSUME IInv, TypeOK', QInv, NEW i \in Ids, RecoverTask(i)
    PROVE  QInv'
<1> DEFINE t == mem.task[i]
           r == db.result[i]
           q == Settled(t, i)
<1>1. up /\ lock.op = "boot" /\ lock \in Lock /\ mem \in Index /\ db \in Database /\ r \in Result
  BY TaskFacts DEF RecoverTask, IInv, TypeOK, LockAgrees
<1>2. q.frozenAt = r.frozenAt /\ q.size = r.size
  BY <1>1 DEF Settled, Result
<1> HIDE DEF q
<1>3. db' = [db EXCEPT !.result[i] = q] /\ born' = born /\ now' = now
  BY DEF RecoverTask, q
<1>4. db'.result[i] = q /\ \A j \in Ids \ {i} : db'.result[j] = db.result[j]
  BY <1>1, <1>3 DEF Database
<1>5. \A j \in Ids : RowKept(j)
  BY <1>2, <1>4 DEF RowKept
<1>6. Stored' = Stored
  BY <1>1, <1>3 DEF Stored, Database
<1>7. CASE BootBlocked(t, i)
  <2>1. ~ up' /\ lock' = Unlocked
    BY <1>7 DEF RecoverTask
  <2> QED
    BY <1>3, <1>5, <1>6, <2>1, QuotaDown
<1>8. CASE ~ BootBlocked(t, i)
  <2>1. mem' = [mem EXCEPT !.task[i] = Recovered(t, i)] /\ up' /\ lock'.step = "recover"
    BY <1>1, <1>8 DEF RecoverTask, Lock
  <2>2. mem'.task[i] = Recovered(t, i) /\ \A j \in Ids \ {i} : mem'.task[j] = mem.task[j]
    BY <1>1, <2>1 DEF Index
  <2>3. Moves(i)
    BY <1>1, <1>3, <1>5, <2>2, RecoveredMoves
  <2>4. \A j \in Ids : Moves(j)
    BY <1>1, <1>3, <1>5, <2>2, <2>3, SameMoves DEF IInv
  <2> QED
    BY <1>1, <1>3, <1>5, <1>6, <2>1, <2>4, QuotaStep
<1> QED
  BY <1>7, <1>8

\* Every step keeps the quota.
LEMMA QuotaNext == IInv /\ TypeOK' /\ QInv /\ [Next]_vars => QInv'
<1> SUFFICES ASSUME IInv, TypeOK', QInv, [Next]_vars PROVE QInv'
  OBVIOUS
<1>a. mem \in Index /\ db \in Database /\ lock \in Lock /\ now \in Time /\ TypeOK
  BY DEF IInv, TypeOK
<1>b. ASSUME NEW i \in Ids PROVE db.result[i] \in Result /\ mem.task[i] \in Task
  BY <1>a DEF Index, Database
\* Rows, files or the lock change, requests do not.
<1>c. ASSUME db' = db, mem' = mem, born' = born, now' = now, up, up',
             lock'.step # "commit" \/ ResultBytes(mem) + Room <= MaxResultBytes
      PROVE  QInv'
  <2>1. Stored' = Stored /\ \A i \in Ids : RowKept(i)
    BY <1>c DEF Stored, RowKept
  <2> QED
    BY <1>c, <2>1, QuotaQuiet
\* The index is saved with the requests it has, or fewer.
<1>d. ASSUME NEW m \in Index, Save(m, db), born' = born, now' = now, up, up', lock'.step # "commit",
             \A i \in Ids : m.task[i] \in {mem.task[i], NoTask}
      PROVE  QInv'
  <2>1. Stored' = mem' /\ mem' = m /\ \A i \in Ids : RowKept(i)
    BY <1>d, StoresSaved
  <2>2. \A i \in Ids : Moves(i)
    BY <1>a, <1>d, <2>1, SameMoves, GoneMoves
  <2> QED
    BY <1>d, <2>1, <2>2, QuotaStep
\* Admission
<1>1. ASSUME NEW s \in Sources, NEW g \in Targets, NEW t \in Threads \cup {None}, NEW p \in Pendings,
             Start(s, g, t, p)
      PROVE  QInv'
  BY <1>c, <1>1 DEF Start, Begin, Idle, Unlocked
<1>2. ASSUME NEW o \in Ids, NEW s \in Sources, Retry(o, s) PROVE QInv'
  BY <1>c, <1>2 DEF Retry, Begin, Idle, Unlocked
<1>3. CASE AdmitRefused
  BY <1>c, <1>3 DEF AdmitRefused, Unlocked
<1>4. CASE AdmitBusy
  <2> DEFINE m == [mem EXCEPT !.rejected[lock.request.source] = now]
  <2>1. m \in Index /\ m.task = mem.task
    BY <1>a, SetRejected DEF Index
  <2>2. Save(m, db) /\ up /\ up' /\ born' = born /\ now' = now /\ lock'.step # "commit"
    BY <1>4 DEF AdmitBusy, Unlocked
  <2> HIDE DEF m
  <2> QED
    BY <1>d, <2>1, <2>2
<1>5. ASSUME NEW i \in Ids, AdmitStage(i) PROVE QInv'
  <2>1. ResultBytes(mem) + Room <= MaxResultBytes
    <3>1. ResultBytes(mem) \in Nat
      BY <1>a, HeldType
    <3> QED
      BY <1>5, <3>1, BoundAssumption DEF AdmitStage, NoRoom, Room
  <2> QED
    BY <1>c, <1>5, <2>1 DEF AdmitStage
<1>6. CASE StartCommit
  BY <1>6, QuotaCommit
\* Cleanup
<1>7. CASE CleanupExpired
  BY <1>c, <1>7 DEF CleanupExpired, Begin, Idle, Unlocked
<1>8. CASE CleanRows
  <2>1. /\ db' = ExpireRows(db) /\ mem' = mem /\ born' = born /\ now' = now /\ up /\ up'
        /\ lock'.step # "commit"
    BY <1>8, <1>a DEF CleanRows, Lock
  <2>2. Stored' = Stored
    BY <1>a, <2>1 DEF ExpireRows, Database, Stored
  <2>3. \A i \in Ids : db'.result[i] = NoResult \/ db'.result[i] = db.result[i]
    BY <1>a, <2>1 DEF ExpireRows, Database
  <2>4. \A i \in Ids : RowKept(i)
    BY <2>3 DEF RowKept, NoResult
  <2> QED
    BY <2>1, <2>2, <2>4, QuotaQuiet
<1>9. CASE CleanReceipts
  <2> DEFINE m == [mem EXCEPT !.rejected = DropOld(mem.rejected), !.cleared = DropOld(mem.cleared)]
  <2>1. m \in Index /\ m.task = mem.task
    BY <1>a, DropOldType DEF Index
  <2>2. /\ (mem' = mem /\ db' = db) \/ Save(m, db)
        /\ up /\ up' /\ born' = born /\ now' = now /\ lock'.step # "commit"
    BY <1>9, <1>a DEF CleanReceipts, Lock
  <2> HIDE DEF m
  <2> QED
    BY <1>c, <1>d, <2>1, <2>2
<1>10. CASE CleanFiles
  BY <1>a, <1>c, <1>10 DEF CleanFiles, Lock
<1>11. CASE CleanHistory
  <2> DEFINE m == Forget(mem, Outdated(mem))
  <2>1. m \in Index
    BY <1>a, ForgetType
  <2>2. \A i \in Ids : m.task[i] \in {mem.task[i], NoTask}
    BY <1>a DEF Forget, Index
  <2>3. /\ (mem' = mem /\ db' = db) \/ Save(m, db)
        /\ up /\ up' /\ born' = born /\ now' = now /\ lock'.step # "commit"
    BY <1>11, <1>a DEF CleanHistory, AfterCleanup, Lock, Unlocked
  <2> HIDE DEF m
  <2> QED
    BY <1>c, <1>d, <2>1, <2>2, <2>3
\* Operations
<1>12. ASSUME NEW i \in Ids, Touch(i) PROVE QInv'
  BY <1>a, <1>d, <1>12 DEF Touch, Idle, Unlocked
<1>13. ASSUME NEW i \in Ids, AttachInput(i) PROVE QInv'
  <2> DEFINE u == [mem.task[i] EXCEPT !.pending = FALSE]
             d == [db EXCEPT !.input[i] = "ready"]
  <2>1. /\ Update(i, u, d) /\ up /\ up' /\ born' = born /\ now' = now /\ lock'.step # "commit"
    BY <1>13 DEF AttachInput, Idle, Unlocked
  <2>2. u \in Task /\ d.result = db.result
    BY <1>a, <1>b, PreparedType DEF Database
  <2>3. u.state = mem.task[i].state /\ u.bytes = mem.task[i].bytes /\ u.completedAt = mem.task[i].completedAt
        /\ u.finishedAt = mem.task[i].finishedAt
    BY <1>b DEF Task
  <2> HIDE DEF u, d
  <2> QED
    BY <2>1, <2>2, <2>3, QuotaUpdate
<1>14. ASSUME NEW i \in Ids, BeginDelivery(i) PROVE QInv'
  <2>1. Transition(i, "delivering", FALSE, db) /\ Idle /\ up' /\ born' = born /\ now' = now /\ lock'.step # "commit"
    BY <1>14 DEF BeginDelivery, Idle, Unlocked
  <2> QED
    BY <2>1, QuotaTransition
<1>15. ASSUME NEW i \in Ids, Release(i) PROVE QInv'
  <2> DEFINE m == [Forget(mem, {i}) EXCEPT !.cleared[mem.task[i].source] = mem.task[i].finishedAt]
  <2>1. Forget(mem, {i}) \in Index /\ mem.task[i].finishedAt \in Time
    BY <1>a, <1>b, ForgetType DEF Task
  <2>2. m \in Index /\ m.task = Forget(mem, {i}).task
    BY <2>1 DEF Index
  <2>3. \A j \in Ids : m.task[j] \in {mem.task[j], NoTask}
    BY <1>a, <2>2 DEF Forget, Index
  <2>4. Save(m, db) /\ up /\ up' /\ born' = born /\ now' = now /\ lock'.step # "commit"
    BY <1>15 DEF Release, Idle, Unlocked
  <2> HIDE DEF m
  <2> QED
    BY <1>d, <2>2, <2>3, <2>4
<1>16. ASSUME NEW i \in Ids, NEW t \in Threads, AttachThread(i, t) PROVE QInv'
  <2> DEFINE u == [mem.task[i] EXCEPT !.thread = t]
  <2>1. /\ Update(i, u, db) /\ up /\ up' /\ born' = born /\ now' = now /\ lock'.step # "commit"
    BY <1>16 DEF AttachThread, Idle, Unlocked
  <2>2. u \in Task
    BY <1>b DEF Task
  <2>3. u.state = mem.task[i].state /\ u.bytes = mem.task[i].bytes /\ u.completedAt = mem.task[i].completedAt
        /\ u.finishedAt = mem.task[i].finishedAt
    BY <1>b DEF Task
  <2> HIDE DEF u
  <2> QED
    BY <2>1, <2>2, <2>3, QuotaUpdate
<1>17. ASSUME NEW i \in Ids, NEW v \in Turns, AttachTurn(i, v) PROVE QInv'
  <2> DEFINE u == [mem.task[i] EXCEPT !.turn = v]
  <2>1. /\ Update(i, u, db) /\ up /\ up' /\ born' = born /\ now' = now /\ lock'.step # "commit"
    BY <1>17 DEF AttachTurn, Idle, Unlocked
  <2>2. u \in Task
    BY <1>b DEF Task
  <2>3. u.state = mem.task[i].state /\ u.bytes = mem.task[i].bytes /\ u.completedAt = mem.task[i].completedAt
        /\ u.finishedAt = mem.task[i].finishedAt
    BY <1>b DEF Task
  <2> HIDE DEF u
  <2> QED
    BY <2>1, <2>2, <2>3, QuotaUpdate
<1>18. ASSUME NEW i \in Ids, NEW reply \in 0 .. MaxReplyBytes,
              CompleteExecution(i, reply) \/ CompleteExecutionUnsaved(i, reply)
       PROVE  QInv'
  <2> DEFINE u == Completed(mem.task[i], reply)
             d == [db EXCEPT !.completion[i] = [at |-> now, reply |-> reply]]
             m == [mem EXCEPT !.task[i] = u]
  <2>1. /\ mem.task[i].state = "running" /\ mem.task[i].completedAt = 0
        /\ up /\ up' /\ born' = born /\ now' = now /\ lock'.step # "commit" /\ lock.op # "boot"
        /\ Save(m, d) \/ (mem' = m /\ db' = db)
    BY <1>18 DEF CompleteExecution, CompleteExecutionUnsaved, Update, Idle, Unlocked
  <2>2. MaxTaskBytes + reply \in Bytes
    BY BoundAssumption DEF Bytes
  <2>3. u \in Task /\ u.completedAt = now /\ u.completedAt # 0
    BY <1>a, <1>b, <2>2, CompletedType DEF IInv
  <2>4. m \in Index /\ m.task[i] = u /\ \A j \in Ids \ {i} : m.task[j] = mem.task[j]
    BY <1>a, <2>3, SetTask DEF Index
  <2>5. d.result = db.result
    BY <1>a DEF Database
  <2> HIDE DEF m, d, u
  <2>6. (\A j \in Ids : RowKept(j)) /\ mem' = m /\ (Stored' = mem' \/ Stored' = Stored)
    <3>1. CASE Save(m, d)
      BY <2>4, <2>5, <3>1, StoresSaved
    <3>2. CASE mem' = m /\ db' = db
      BY <3>2 DEF RowKept, Stored
    <3> QED
      BY <2>1, <3>1, <3>2
  <2>7. db.result[i].frozenAt = 0
    BY <2>1 DEF QInv, Dated, Active
  <2>8. db'.result[i].frozenAt = 0
    BY <2>6, <2>7 DEF RowKept
  <2>9. Moves(i)
    BY <1>a, <2>1, <2>3, <2>4, <2>6, <2>8, CompletedMoves DEF Active
  <2>10. \A j \in Ids : Moves(j)
    BY <1>a, <2>1, <2>4, <2>6, <2>9, SameMoves
  <2> QED
    BY <2>1, <2>6, <2>10, QuotaStep
<1>19. ASSUME NEW i \in Ids, NEW size \in Bytes \ {0}, NEW files \in BOOLEAN, FreezeResult(i, size, files)
       PROVE  QInv'
  BY <1>19, QuotaFreeze
<1>20. ASSUME NEW i \in Ids, NEW next \in Terminal, NEW u \in BOOLEAN, Finish(i, next, u) PROVE QInv'
  <2>1. Transition(i, next, u, db) /\ Idle /\ up' /\ born' = born /\ now' = now /\ lock'.step # "commit"
    BY <1>20 DEF Finish, Idle, Unlocked
  <2> QED
    BY <2>1, QuotaTransition
<1>21. ASSUME NEW i \in Ids, NEW outcome \in SendOutcomes, CompleteDelivery(i, outcome) PROVE QInv'
  <2>1. PICK a : Transition(i, "succeeded", FALSE, Receipted(db, i, None, outcome, a))
    BY <1>21 DEF CompleteDelivery, Receipted
  <2>2. Idle /\ up' /\ born' = born /\ now' = now /\ lock'.step # "commit"
    BY <1>21 DEF CompleteDelivery, Idle, Unlocked
  <2> DEFINE d == Receipted(db, i, None, outcome, a)
  <2>3. d.result[i].frozenAt = db.result[i].frozenAt /\ d.result[i].size = db.result[i].size
    BY <1>a, <1>b DEF Receipted, Database, Result
  <2>4. \A j \in Ids \ {i} : d.result[j] = db.result[j]
    BY <1>a DEF Receipted, Database
  <2> HIDE DEF d
  <2>5. Transition(i, "succeeded", FALSE, d) /\ "succeeded" \in Terminal
    BY <2>1 DEF d, Terminal
  <2> QED
    BY <2>2, <2>3, <2>4, <2>5, QuotaTransition
<1>22. ASSUME NEW i \in Ids, NEW o \in Ops, NEW x \in {"succeeded", "explicit_failure", "ambiguous"},
              up, up', db' = Receipted(db, i, o, x, x), mem' = mem, born' = born, now' = now, lock' = Unlocked
       PROVE  QInv'
  <2>1. db'.result[i].frozenAt = db.result[i].frozenAt /\ db'.result[i].size = db.result[i].size
    BY <1>a, <1>b, <1>22 DEF Receipted, Database, Result
  <2>2. \A j \in Ids \ {i} : db'.result[j] = db.result[j]
    BY <1>a, <1>22 DEF Receipted, Database
  <2>3. Stored' = Stored
    BY <1>a, <1>22 DEF Receipted, Database, Stored
  <2>4. \A j \in Ids : RowKept(j)
    BY <2>1, <2>2 DEF RowKept
  <2> QED
    BY <1>22, <2>3, <2>4, QuotaQuiet DEF Unlocked
<1>23. ASSUME NEW i \in Ids, NEW o \in Ops, BeginRedelivery(i, o) PROVE QInv'
  BY <1>22, <1>23 DEF BeginRedelivery, Receipted, Idle
<1>24. ASSUME NEW i \in Ids, NEW o \in Ops, NEW outcome \in SendOutcomes, RecordDelivery(i, o, outcome)
       PROVE  QInv'
  <2>1. outcome \in {"succeeded", "explicit_failure", "ambiguous"}
    BY NameAssumption
  <2> QED
    BY <1>22, <1>24, <2>1 DEF RecordDelivery, Receipted, Idle
<1>25. CASE ReleaseFiles
  BY <1>c, <1>25 DEF ReleaseFiles, Unlocked
<1>26. ASSUME NEW s \in Sources, Reject(s) PROVE QInv'
  <2> DEFINE m == [mem EXCEPT !.rejected = [DropOld(mem.rejected) EXCEPT ![s] = now]]
  <2>1. m \in Index /\ m.task = mem.task
    BY <1>a, DropOldType DEF Index
  <2>2. Save(m, db) /\ up /\ up' /\ born' = born /\ now' = now /\ lock'.step # "commit"
    BY <1>26 DEF Reject, Idle, Unlocked
  <2> HIDE DEF m
  <2> QED
    BY <1>d, <2>1, <2>2
\* Crash and startup
<1>27. ASSUME ~ up', lock' = Unlocked, db' = db, born' = born, now' = now PROVE QInv'
  BY <1>27, QuotaDown DEF Stored, RowKept
<1>28. CASE Crash
  BY <1>27, <1>28 DEF Crash
<1>29. CASE StepFails
  BY <1>c, <1>27, <1>29 DEF StepFails, Unlocked
<1>30. CASE Boot
  BY <1>30, QuotaBoot
<1>31. ASSUME NEW i \in Ids, RecoverTask(i) PROVE QInv'
  BY <1>31, QuotaRecover
<1>32. CASE SweepOrphans
  BY <1>a, <1>c, <1>32 DEF SweepOrphans, Lock
<1>33. CASE BootSave
  BY <1>a, <1>d, <1>33 DEF BootSave, Unlocked
\* Environment
<1>34. CASE Tick
  BY <1>34, QuotaTick
<1>35. ASSUME mem' = mem, db' = db, lock' = lock, up' = up, born' = born, now' = now PROVE QInv'
  BY <1>35 DEF QInv, Dated, Counted, Overdue, Stored, ResultBytes, Reservation, ResultExpired, Room
<1>36. ASSUME NEW i \in Ids, Damage(i) PROVE QInv'
  BY <1>35, <1>36 DEF Damage
<1>37. CASE UNCHANGED vars
  BY <1>35, <1>37 DEF vars
<1> QED
  BY <1>1, <1>2, <1>3, <1>4, <1>5, <1>6, <1>7, <1>8, <1>9, <1>10, <1>11, <1>12, <1>13, <1>14, <1>15, <1>16,
     <1>17, <1>18, <1>19, <1>20, <1>21, <1>23, <1>24, <1>25, <1>26, <1>28, <1>29, <1>30, <1>31, <1>32, <1>33,
     <1>34, <1>36, <1>37 DEF Next

LEMMA QuotaInit == Init => QInv
<1> SUFFICES ASSUME Init PROVE QInv
  OBVIOUS
<1>1. \A i \in Ids : db.task[i] = NoTask /\ born[i].at = 0
  BY DEF Init, Persist, EmptyIndex
<1>2. Stored.task = db.task
  BY DEF Stored
<1>3. /\ Counted(Stored) = [i \in Ids |-> 0] /\ Counted(Stored) \in [Ids -> Nat]
  BY <1>1, <1>2 DEF Counted, Overdue, Reservation, NoTask, Active
<1>4. SumFunction([i \in Ids |-> 0]) = 0
  BY FiniteAssumption, SumOfNothing
<1>5. \A i \in Ids : Dated(db.task[i], i)
  BY <1>1 DEF Dated, NoTask, Active
<1>6. ~ up /\ lock.step # "commit" /\ now = 1
  BY DEF Init, Unlocked
<1> QED
  BY <1>1, <1>3, <1>4, <1>5, <1>6, BoundAssumption DEF QInv

\* For all constants, the results kept and the space reserved for running
\* work stay within the result quota (Store.Start, FreezeResult, resultBytesLocked),
\* but for requests that took longer than results are kept.
THEOREM WithinQuota == Spec => []QuotaKept
<1>1. Init => IInv /\ QInv
  BY InductiveInit, QuotaInit
<1>2. IInv /\ QInv /\ [Next]_vars => (IInv /\ QInv)'
  BY InductiveNext, QuotaNext DEF IInv
<1>3. QInv => QuotaKept
  BY DEF QInv, QuotaKept
<1> QED
  BY <1>1, <1>2, <1>3, PTL DEF Spec

=============================================================================
