------------------------ MODULE RequestHistoryProofs ------------------------
(***************************************************************************)
(* What RequestStore remembers, for every value of the constants: a source *)
(* is executed once while its history is kept, a delivery operation sends  *)
(* once, and only work that surely did not finish is retried.  And that    *)
(* the store can always be opened again: at whatever instant the process   *)
(* dies, the rows and files the next startup insists on are there, and     *)
(* that startup settles every delivery that was interrupted.               *)
(*                                                                         *)
(* The results share one account of what a step may do to a task, a result *)
(* and the receipts (Effect), proved once for all actions.                 *)
(***************************************************************************)
EXTENDS RequestStoreProofs

-----------------------------------------------------------------------------
(* What a step may do *)

\* A request nothing will change any more, but for its turn and its removal:
\* a success whose result was not archived may still get one.
Final(t) == t.state \in Terminal /\ ~ (t.state = "succeeded" /\ t.archiveFailed)

\* The request is still there; what it is and how it ended are kept.
Continues(t, u) ==
    /\ t.state # "absent" /\ u.state # "absent"
    /\ u.source = t.source /\ u.retryOf = t.retryOf
    /\ t.state \notin Terminal /\ u.state \in Terminal => u.finishedAt = now
    /\ t.state \in Terminal => /\ u.state = t.state /\ u.unconfirmed = t.unconfirmed
                               /\ u.finishedAt = t.finishedAt
    /\ Final(t) => u.completedAt = t.completedAt /\ u.archiveFailed = t.archiveFailed

\* It has ended and goes, being out of date or with a receipt for its source.
Goes(t, u) ==
    /\ t.state \in Terminal /\ u.state = "absent" /\ ~ u.archiveFailed
    /\ \/ t.finishedAt + HistoryRetention <= now
       \/ mem'.cleared[t.source] = t.finishedAt

\* It is recorded for the first time, in memory and on disk.
Admitted(i) ==
    LET u == mem'.task[i] IN
    /\ lock.op = "start" /\ born[i].at = 0 /\ mem.task[i].state = "absent"
    /\ u.state = "running" /\ u.completedAt = 0 /\ ~ u.archiveFailed
    /\ u.source = lock.request.source /\ u.retryOf = lock.request.retryOf
    /\ Stored' = mem'
    /\ born'[i] = [source |-> lock.request.source, at |-> now]

TaskMoves(i) ==
    \/ mem'.task[i] = mem.task[i] /\ born'[i] = born[i]
    \/ Continues(mem.task[i], mem'.task[i]) /\ born'[i] = born[i]
    \/ Goes(mem.task[i], mem'.task[i]) /\ born'[i] = born[i]
    \/ Admitted(i)

\* A result stays, goes, is frozen once, or gets one more attempt or receipt.
ResultMoves(r, q, t, u) ==
    \/ q = r \/ q = NoResult
    \/ /\ q.frozenAt = r.frozenAt
       /\ \A o \in AllOps : r.attempts[o] # "none" => q.attempts[o] # "none"
    \/ /\ r.frozenAt = 0 /\ ~ Final(t) /\ ~ u.archiveFailed
       /\ up /\ up' /\ Stored' = mem'

\* A task whose result is frozen does not become one that has none, and a
\* task becomes one that has a result by the freezing of it.
ArchiveMoves(q, t, u) ==
    /\ u.archiveFailed /\ ~ t.archiveFailed => q.frozenAt = 0
    /\ u.state # "absent" /\ u.completedAt # 0 /\ ~ u.archiveFailed =>
          q.frozenAt # 0 \/ (t.completedAt # 0 /\ ~ t.archiveFailed)

\* Startup takes the time of a frozen result for that of the completion.
DecisionMoves(q, t, u) ==
    t.state \in Active /\ u.state \in Terminal /\ q.frozenAt # 0 => u.completedAt = q.frozenAt

\* Receipts go when their time is over; a new one is for a request that went.
ClearedMoves(s) ==
    \/ mem'.cleared[s] = mem.cleared[s]
    \/ mem'.cleared[s] = 0 /\ mem.cleared[s] + HistoryRetention <= now
    \/ \E i \in Ids : /\ mem.task[i].state \in Terminal /\ mem.task[i].source = s
                      /\ mem'.cleared[s] = mem.task[i].finishedAt

RejectedMoves(s) ==
    mem'.rejected[s] = mem.rejected[s] \/ mem'.rejected[s] = 0 \/ mem'.rejected[s] = now

\* The disk stays as it is or becomes what memory is after the step.
DiskMoves == Stored' = Stored \/ (up' /\ Stored' = mem' /\ ValidIndex(mem'))

\* The index in memory goes, is read back, or changes task by task; only a
\* save makes more of it than a completion or a decision of startup.
MemoryMoves ==
    \/ ~ up' /\ Stored' = Stored /\ born' = born
    \/ ~ up /\ up' /\ mem' = Stored /\ Stored' = Stored /\ born' = born
    \/ /\ up /\ up'
       /\ \A i \in Ids : TaskMoves(i)
       /\ \A i \in Ids : ArchiveMoves(db'.result[i], mem.task[i], mem'.task[i])
       /\ \/ Stored' = mem'
          \/ \A i \in Ids : DecisionMoves(db'.result[i], mem.task[i], mem'.task[i])
       /\ \/ mem'.cleared = mem.cleared /\ mem'.rejected = mem.rejected
          \/ /\ Stored' = mem'
             /\ \A s \in Sources : ClearedMoves(s) /\ RejectedMoves(s)

Effect ==
    /\ MemoryMoves /\ DiskMoves
    /\ \A i \in Ids : ResultMoves(db.result[i], db'.result[i], mem.task[i], mem'.task[i])
    /\ now' = now \/ (now' = now + 1 /\ mem' = mem /\ Stored' = Stored /\ born' = born)

-----------------------------------------------------------------------------
(* The inductive invariants *)

\* The request under way has a source, and its origin, if it is a retry, is
\* and remains something that may run again.
Origin(m, o) == born[o].at # 0 /\ (m.task[o].state # "absent" => Retryable(m.task[o]))

Origins ==
    /\ up => \A i, o \in Ids :
          mem.task[i].state # "absent" /\ mem.task[i].retryOf = o => Origin(mem, o)
    /\ \A i, o \in Ids :
          db.task[i].state # "absent" /\ db.task[i].retryOf = o => Origin(Stored, o)
    /\ up /\ lock.op = "start" => /\ lock.request.source \in Sources
                                  /\ \A o \in Ids : lock.request.retryOf = o => Origin(mem, o)

\* A frozen result belongs to a request that is not missing one.
Archived ==
    \A i \in Ids : db.result[i].frozenAt # 0 =>
        ~ db.task[i].archiveFailed /\ (up => ~ mem.task[i].archiveFailed)

\* A send is on record: the first one in the state of the request, a later
\* one in the attempts, unless the result or the request is gone for good.
Recorded(i, o) ==
    IF o = None THEN Status(db.task[i], i) \notin {"unborn", "executing", "completed"}
    ELSE \/ Status(db.task[i], i) = "forgotten"
         \/ /\ Final(db.task[i])
            /\ db.result[i].frozenAt = 0 \/ db.result[i].attempts[o] # "none"

SendsRecorded ==
    \A i \in Ids, o \in AllOps : sends[i][o] # 0 => sends[i][o] = 1 /\ Recorded(i, o)

\* While the history of a request is kept, its row or a receipt is there.
Remembered(m, i) ==
    /\ m.task[i].state # "absent" =>
          /\ m.task[i].source = born[i].source /\ born[i].source \in Sources
          /\ m.task[i].state \in Terminal => born[i].at <= m.task[i].finishedAt
    /\ born[i].at # 0 /\ now < born[i].at + HistoryRetention =>
          m.task[i].state # "absent" \/ born[i].at <= m.cleared[born[i].source]

History ==
    /\ ValidIndex(Stored)
    /\ up => mem.cleared = db.cleared /\ mem.rejected = db.rejected
    /\ \A i \in Ids : born[i].at <= now /\ (born[i].at # 0 <=> born[i].source \in Sources)
    /\ \A i \in Ids : Remembered(Stored, i)
    /\ up => \A i \in Ids : Remembered(mem, i)
    /\ OneFatePerSource

HInv == IInv /\ Origins /\ Archived /\ SendsRecorded /\ History

-----------------------------------------------------------------------------
(* Every step has one of these effects *)

\* A step that leaves the requests and receipts alone.
LEMMA QuietEffect ==
    ASSUME mem' = mem, Stored' = Stored, born' = born, up' = up,
           now' = now \/ now' = now + 1,
           \A i \in Ids : ResultMoves(db.result[i], db'.result[i], mem.task[i], mem.task[i])
    PROVE  Effect
<1>1. MemoryMoves
  BY DEF MemoryMoves, TaskMoves, ArchiveMoves, DecisionMoves, Active, Terminal
<1> QED
  BY <1>1 DEF Effect, DiskMoves

LEMMA IdleEffect ==
    ASSUME UNCHANGED <<up, mem, db, born>>, now' = now \/ now' = now + 1
    PROVE  Effect
<1>1. Stored' = Stored
  BY DEF Stored
<1> QED
  BY <1>1, QuietEffect DEF ResultMoves

\* A save, request by request.
LEMMA SaveEffect ==
    ASSUME up, up', now' = now, born' = born, NEW m \in Index, NEW d \in Database, Save(m, d),
           \A i \in Ids : \/ m.task[i] = mem.task[i]
                          \/ Continues(mem.task[i], m.task[i])
                          \/ Goes(mem.task[i], m.task[i]),
           \A i \in Ids : ArchiveMoves(d.result[i], mem.task[i], m.task[i]),
           \A i \in Ids : ResultMoves(db.result[i], d.result[i], mem.task[i], m.task[i]),
           \A s \in Sources : ClearedMoves(s) /\ RejectedMoves(s)
    PROVE  Effect
<1>1. mem' = m /\ ValidIndex(m)
  BY DEF Save
<1>3. Stored' = mem'
  BY StoresSaved
<1>4. \A i \in Ids : db'.result[i] = IF m.task[i].state = "absent" THEN NoResult ELSE d.result[i]
  BY DEF Save, Persist, Known
<1>5. NoResult.frozenAt = 0
  BY DEF NoResult
<1>6. \A i \in Ids : TaskMoves(i)
  BY <1>1 DEF TaskMoves
<1>7. \A i \in Ids : ArchiveMoves(db'.result[i], mem.task[i], mem'.task[i])
  BY <1>1, <1>4, <1>5 DEF ArchiveMoves
<1>8. \A i \in Ids : ResultMoves(db.result[i], db'.result[i], mem.task[i], mem'.task[i])
  <2> SUFFICES ASSUME NEW i \in Ids
               PROVE  ResultMoves(db.result[i], db'.result[i], mem.task[i], m.task[i])
    BY <1>1
  <2>1. db'.result[i] = NoResult \/ db'.result[i] = d.result[i]
    BY <1>4
  <2>2. CASE db'.result[i] = NoResult
    BY <2>2 DEF ResultMoves
  <2>3. CASE db'.result[i] = d.result[i]
    BY <2>3
  <2> QED
    BY <2>1, <2>2, <2>3
<1>9. MemoryMoves
  BY <1>3, <1>6, <1>7 DEF MemoryMoves
<1>10. DiskMoves
  BY <1>1, <1>3 DEF DiskMoves
<1> QED
  BY <1>8, <1>9, <1>10 DEF Effect

\* A save of the index as it is, or with other receipts.
LEMMA ReceiptsEffect ==
    ASSUME up, up', now' = now, born' = born, db \in Database, NEW m \in Index, Save(m, db),
           m.task = mem.task,
           \A s \in Sources : ClearedMoves(s) /\ RejectedMoves(s)
    PROVE  Effect
<1>1. \A i \in Ids : ArchiveMoves(db.result[i], mem.task[i], m.task[i])
  BY DEF ArchiveMoves
<1>2. \A i \in Ids : ResultMoves(db.result[i], db.result[i], mem.task[i], m.task[i])
  BY DEF ResultMoves
<1> QED
  BY <1>1, <1>2, SaveEffect

\* A save that changes one request.
LEMMA UpdateEffect ==
    ASSUME up, up', now' = now, born' = born, mem \in Index, NEW d \in Database,
           NEW i \in Ids, NEW t \in Task, Update(i, t, d),
           Continues(mem.task[i], t),
           \A j \in Ids \ {i} : d.result[j] = db.result[j],
           ArchiveMoves(d.result[i], mem.task[i], t),
           ResultMoves(db.result[i], d.result[i], mem.task[i], t)
    PROVE  Effect
<1> DEFINE m == [mem EXCEPT !.task[i] = t]
<1>1. m \in Index
  BY SetTask
<1>2. /\ m.task = [mem.task EXCEPT ![i] = t] /\ DOMAIN mem.task = Ids
      /\ m.rejected = mem.rejected /\ m.cleared = mem.cleared
  BY DEF Index
<1>3. Save(m, d)
  BY DEF Update
<1>4. mem' = m
  BY <1>3 DEF Save
<1> HIDE DEF m
<1>5. \A s \in Sources : ClearedMoves(s) /\ RejectedMoves(s)
  BY <1>2, <1>4 DEF ClearedMoves, RejectedMoves
<1>6. ASSUME NEW j \in Ids
      PROVE  /\ m.task[j] = mem.task[j] \/ Continues(mem.task[j], m.task[j])
             /\ ArchiveMoves(d.result[j], mem.task[j], m.task[j])
             /\ ResultMoves(db.result[j], d.result[j], mem.task[j], m.task[j])
  <2>1. CASE j = i
    <3>1. m.task[j] = t
      BY <1>2, <2>1
    <3> QED
      BY <2>1, <3>1
  <2>2. CASE j # i
    <3>1. m.task[j] = mem.task[j] /\ d.result[j] = db.result[j]
      BY <1>2, <2>2
    <3> QED
      BY <3>1 DEF ArchiveMoves, ResultMoves
  <2> QED
    BY <2>1, <2>2
<1> QED
  BY <1>1, <1>3, <1>5, <1>6, SaveEffect

\* One more attempt or receipt of a result.
LEMMA ReceiptEffect ==
    ASSUME NEW d \in Database, NEW i \in Ids, NEW o \in AllOps, NEW x, NEW a,
           a = "none" => d.result[i].attempts[o] = "none"
    PROVE  \A j \in Ids : \A t, u : ResultMoves(d.result[j], Receipted(d, i, o, x, a).result[j], t, u)
<1> DEFINE e == Receipted(d, i, o, x, a)
<1> SUFFICES ASSUME NEW j \in Ids, NEW t, NEW u PROVE ResultMoves(d.result[j], e.result[j], t, u)
  OBVIOUS
<1>1. CASE j # i
  BY <1>1, ReceiptRows DEF ResultMoves
<1>2. CASE j = i
  <2>1. d.result \in [Ids -> Result] /\ d.result[i] \in Result
    BY DEF Database
  <2> DEFINE r1 == [d.result[i] EXCEPT !.receipt = x]
             r2 == [r1 EXCEPT !.attempts = [@ EXCEPT ![o] = a]]
  <2>2. r1.attempts = d.result[i].attempts /\ r1 = [d.result[i] EXCEPT !.receipt = x]
    BY <2>1 DEF Result
  <2>3. r2.attempts = [d.result[i].attempts EXCEPT ![o] = a]
    BY <2>1, <2>2 DEF Result
  <2>4. e.result = [[d.result EXCEPT ![i] = r1] EXCEPT ![i] = r2]
    BY <2>1 DEF Database, Receipted
  <2> HIDE DEF r1, r2
  <2>5. e.result[i] = r2
    BY <2>1, <2>4
  <2>6. e.result[i].frozenAt = d.result[i].frozenAt
    BY ReceiptRows
  <2>7. d.result[i].attempts \in [AllOps -> {"none", "succeeded", "explicit_failure", "ambiguous"}]
    BY <2>1 DEF Result
  <2>8. \A q \in AllOps : d.result[i].attempts[q] # "none" => e.result[i].attempts[q] # "none"
    BY <2>3, <2>5, <2>7
  <2> QED
    BY <1>2, <2>6, <2>8 DEF ResultMoves
<1> QED
  BY <1>1, <1>2

\* Ending a request or handing it to the channel.
LEMMA TransitionEffect ==
    ASSUME IInv, Idle, up', now' = now, born' = born, NEW i \in Ids,
           NEW next \in Terminal \cup {"delivering"}, NEW u \in BOOLEAN, NEW d \in Database,
           Transition(i, next, u, d),
           \A j \in Ids \ {i} : d.result[j] = db.result[j],
           \A t, v : ResultMoves(db.result[i], d.result[i], t, v)
    PROVE  Effect
<1> DEFINE t == mem.task[i]
           end == EndState(t, next)
           x == [t EXCEPT !.state = end, !.unconfirmed = u /\ end = "failed",
                          !.finishedAt = IF end \in Terminal THEN now ELSE 0]
<1>1. up /\ t \in Task /\ mem \in Index /\ now \in Time /\ 0 \in Time
  BY TaskFacts, BoundAssumption DEF Idle, IInv, TypeOK, Time
<1>2. AllowedTransition(t, end) /\ Update(i, x, d)
  BY DEF Transition
<1>3. end \in Terminal \cup {"delivering"}
  BY DEF EndState, Terminal
<1>4. (u /\ end = "failed") \in BOOLEAN /\ (IF end \in Terminal THEN now ELSE 0) \in Time
  BY <1>1
<1> HIDE DEF t, end
<1>5. x \in Task
  BY <1>1, <1>3, <1>4, EndedTaskType DEF Active
<1>6. /\ x.state = end /\ x.source = t.source /\ x.retryOf = t.retryOf
      /\ x.archiveFailed = t.archiveFailed /\ x.completedAt = t.completedAt
      /\ end \in Terminal => x.finishedAt = now
  BY <1>1 DEF Task
<1>7. t.state \in Active
  BY <1>2 DEF AllowedTransition, Active
<1> HIDE DEF x
<1>8. Continues(t, x)
  BY <1>3, <1>6, <1>7 DEF Continues, Active, Terminal, Final
<1>9. ArchiveMoves(d.result[i], t, x)
  BY <1>6 DEF ArchiveMoves
<1> QED
  BY <1>1, <1>2, <1>5, <1>8, <1>9, UpdateEffect DEF t

\* Reading a checkpoint back makes a task of a task.
LEMMA CheckpointedType ==
    ASSUME TypeOK, NEW i \in Ids
    PROVE  LET t == mem.task[i]
               c == Checkpointed(t, i)
           IN  c \in Task /\ c.source = t.source /\ c.retryOf = t.retryOf
<1> DEFINE t == mem.task[i]
           b == db.completion[i]
           y == [t EXCEPT !.completedAt = b.at, !.archiveFailed = TRUE, !.bytes = MaxTaskBytes + b.reply]
<1>1. t \in Task /\ b \in Completion
  BY TaskFacts
<1>2. b.at \in Time /\ MaxTaskBytes + b.reply \in Bytes
  BY <1>1, BoundAssumption DEF Completion, Bytes
<1>3. Checkpointed(t, i) = t \/ Checkpointed(t, i) = y
  BY DEF Checkpointed
<1> HIDE DEF t, b
<1>4. y \in Task /\ y.source = t.source /\ y.retryOf = t.retryOf
  BY <1>1, <1>2 DEF Task
<1> QED
  BY <1>1, <1>3, <1>4 DEF t

\* Every step has one of the effects.
LEMMA EffectNext == IInv /\ Archived /\ History /\ [Next]_vars => Effect
<1> SUFFICES ASSUME IInv, Archived, History, [Next]_vars PROVE Effect
  OBVIOUS
<1>a. mem \in Index /\ db \in Database /\ lock \in Lock /\ now \in Time /\ now # 0
  BY DEF IInv, TypeOK
<1>c. ASSUME NEW i \in Ids PROVE db.result[i] \in Result /\ mem.task[i] \in Task /\ db.task[i] \in Task
  BY <1>a DEF Index, Database
\* Admission
<1>1. ASSUME NEW s \in Sources, NEW g \in Targets, NEW t \in Threads \cup {None}, NEW p \in Pendings,
             Start(s, g, t, p)
      PROVE  Effect
  BY <1>1, IdleEffect DEF Start
<1>2. ASSUME NEW o \in Ids, NEW s \in Sources, Retry(o, s) PROVE Effect
  BY <1>2, IdleEffect DEF Retry
<1>3. CASE AdmitRefused
  BY <1>3, IdleEffect DEF AdmitRefused
<1>4. CASE AdmitBusy
  <2> DEFINE s == lock.request.source
             m == [mem EXCEPT !.rejected[s] = now]
  <2>1. m \in Index /\ m.task = mem.task /\ m.cleared = mem.cleared
    BY <1>a, SetRejected DEF Index
  <2>2. m.rejected = [mem.rejected EXCEPT ![s] = now] /\ DOMAIN mem.rejected = Sources
    BY <1>a DEF Index
  <2>3. Save(m, db) /\ up /\ up' /\ born' = born /\ now' = now
    BY <1>4 DEF AdmitBusy
  <2>4. mem' = m
    BY <2>3 DEF Save
  <2> HIDE DEF m, s
  <2>5. \A z \in Sources : ClearedMoves(z) /\ RejectedMoves(z)
    BY <2>1, <2>2, <2>4 DEF ClearedMoves, RejectedMoves
  <2> QED
    BY <1>a, <2>1, <2>3, <2>5, ReceiptsEffect
<1>5. CASE StartCommit
  <2> DEFINE i == lock.id
             r == lock.request
             x == [NoTask EXCEPT !.source = r.source, !.target = r.target, !.thread = r.thread,
                                 !.state = "running", !.pending = r.pending, !.retryOf = r.retryOf]
             m == [mem EXCEPT !.task[i] = x]
             d == [db EXCEPT !.input[i] = IF r.pending THEN "raw" ELSE "ready"]
  <2>1. /\ i \in Ids /\ born[i].at = 0 /\ up /\ up' /\ lock.op = "start" /\ now' = now
        /\ born' = [born EXCEPT ![i] = [source |-> r.source, at |-> now]] /\ DOMAIN born = Ids
    BY <1>5 DEF StartCommit, IInv, LockAgrees, TypeOK
  <2>2. mem.task[i].state = "absent"
    BY <2>1, OwnOrUnsaved DEF RowOK, Unsaved
  <2>3. /\ x.state = "running" /\ x.completedAt = 0 /\ ~ x.archiveFailed
        /\ x.source = r.source /\ x.retryOf = r.retryOf
    BY DEF NoTask
  <2>4. Save(m, d)
    BY <1>5 DEF StartCommit
  <2>5. d.result = db.result
    BY <1>a DEF Database
  <2> HIDE DEF x
  <2>6. /\ m = [task |-> [mem.task EXCEPT ![i] = x], rejected |-> mem.rejected, cleared |-> mem.cleared]
        /\ DOMAIN mem.task = Ids
    BY <1>a DEF Index
  <2>7. mem' = m /\ Stored' = mem' /\ ValidIndex(mem')
    BY <2>4, <2>6 DEF Save, Persist, Stored
  <2>8. \A j \in Ids : db'.result[j] = NoResult \/ db'.result[j] = db.result[j]
    BY <2>4, <2>5 DEF Save, Persist
  <2> HIDE DEF m, d
  <2>10. ASSUME NEW j \in Ids PROVE TaskMoves(j) /\ ArchiveMoves(db'.result[j], mem.task[j], mem'.task[j])
    <3>1. CASE j = i
      <4>1. mem'.task[j] = x /\ born'[j] = [source |-> r.source, at |-> now]
        BY <2>1, <2>6, <2>7, <3>1
      <4> QED
        BY <2>1, <2>2, <2>3, <2>7, <3>1, <4>1 DEF TaskMoves, Admitted, ArchiveMoves
    <3>2. CASE j # i
      <4>1. mem'.task[j] = mem.task[j] /\ born'[j] = born[j]
        BY <2>1, <2>6, <2>7, <3>2
      <4> QED
        BY <4>1 DEF TaskMoves, ArchiveMoves
    <3> QED
      BY <3>1, <3>2
  <2>11. mem'.cleared = mem.cleared /\ mem'.rejected = mem.rejected
    BY <2>6, <2>7
  <2>12. MemoryMoves /\ DiskMoves
    BY <2>1, <2>7, <2>10, <2>11 DEF MemoryMoves, DiskMoves
  <2> QED
    BY <2>1, <2>8, <2>12 DEF Effect, ResultMoves
<1>6. ASSUME NEW i \in Ids, AdmitStage(i) PROVE Effect
  BY <1>6, IdleEffect DEF AdmitStage
\* Cleanup
<1>7. CASE CleanupExpired
  BY <1>7, IdleEffect DEF CleanupExpired
<1>8. CASE CleanRows
  <2>1. db' = ExpireRows(db) /\ UNCHANGED <<mem, born, up, now>>
    BY <1>8 DEF CleanRows
  <2>2. /\ Stored' = Stored
        /\ \A i \in Ids : db'.result[i] = NoResult \/ db'.result[i] = db.result[i]
    BY <1>a, <2>1 DEF ExpireRows, Database, Stored
  <2> QED
    BY <2>1, <2>2, QuietEffect DEF ResultMoves
<1>9. CASE CleanReceipts
  <2> DEFINE m == [mem EXCEPT !.rejected = DropOld(mem.rejected), !.cleared = DropOld(mem.cleared)]
  <2>1. m \in Index /\ m.task = mem.task
    BY <1>a, DropOldType DEF Index
  <2>2. CASE m = mem
    BY <1>9, <2>2, IdleEffect DEF CleanReceipts
  <2>3. CASE m # mem
    <3>1. Save(m, db) /\ up /\ up' /\ born' = born /\ now' = now
      BY <1>9, <2>3 DEF CleanReceipts
    <3>2. mem' = m /\ m.cleared = DropOld(mem.cleared) /\ m.rejected = DropOld(mem.rejected)
      BY <1>a, <3>1 DEF Save, Index
    <3> HIDE DEF m
    <3>3. \A s \in Sources : ClearedMoves(s) /\ RejectedMoves(s)
      BY <3>2 DEF ClearedMoves, RejectedMoves, DropOld, ReceiptExpired
    <3> QED
      BY <1>a, <2>1, <3>1, <3>3, ReceiptsEffect
  <2> QED
    BY <2>2, <2>3
<1>10. CASE CleanFiles
  BY <1>10, IdleEffect DEF CleanFiles
<1>11. CASE CleanHistory
  <2>1. CASE Outdated(mem) = {}
    BY <1>11, <2>1, IdleEffect DEF CleanHistory
  <2>2. CASE Outdated(mem) # {}
    <3> DEFINE m == Forget(mem, Outdated(mem))
    <3>1. Save(m, db) /\ up /\ up' /\ born' = born /\ now' = now
      BY <1>11, <2>2 DEF CleanHistory
    <3>2. m \in Index /\ m.cleared = mem.cleared /\ m.rejected = mem.rejected
      <4>1. m \in Index
        BY <1>a, ForgetType
      <4>2. m.cleared = mem.cleared /\ m.rejected = mem.rejected
        BY <1>a DEF Forget, Index
      <4> QED
        BY <4>1, <4>2
    <3>3. mem' = m
      BY <3>1 DEF Save
    <3>4. ASSUME NEW i \in Ids
          PROVE  /\ m.task[i] = mem.task[i] \/ Goes(mem.task[i], m.task[i])
                 /\ ArchiveMoves(db.result[i], mem.task[i], m.task[i])
      <4>1. CASE i \in Outdated(mem)
        <5>1. m.task[i] = NoTask
          BY <1>a, <4>1 DEF Forget, Index
        <5>2. mem.task[i].state \in Terminal /\ mem.task[i].finishedAt + HistoryRetention <= now
          BY <4>1 DEF Outdated, HistoryExpired
        <5> HIDE DEF m
        <5> QED
          BY <5>1, <5>2 DEF Goes, NoTask, ArchiveMoves
      <4>2. CASE i \notin Outdated(mem)
        <5>1. m.task[i] = mem.task[i]
          BY <1>a, <4>2 DEF Forget, Index
        <5> QED
          BY <5>1 DEF ArchiveMoves
      <4> QED
        BY <4>1, <4>2
    <3> HIDE DEF m
    <3>5. \A s \in Sources : ClearedMoves(s) /\ RejectedMoves(s)
      BY <3>2, <3>3 DEF ClearedMoves, RejectedMoves
    <3>6. \A i \in Ids : ResultMoves(db.result[i], db.result[i], mem.task[i], m.task[i])
      BY DEF ResultMoves
    <3> QED
      BY <1>a, <3>1, <3>2, <3>4, <3>5, <3>6, SaveEffect
  <2> QED
    BY <2>1, <2>2
\* Operations on a request
<1>s. ASSUME mem' = mem PROVE \A s \in Sources : ClearedMoves(s) /\ RejectedMoves(s)
  BY <1>s DEF ClearedMoves, RejectedMoves
<1>12. ASSUME NEW i \in Ids, Touch(i) PROVE Effect
  <2>1. Save(mem, db) /\ up /\ up' /\ born' = born /\ now' = now
    BY <1>12 DEF Touch, Idle
  <2>2. mem' = mem
    BY <2>1 DEF Save
  <2> QED
    BY <1>a, <1>s, <2>1, <2>2, ReceiptsEffect
\* A save that writes one display field of request i.
<1>t. ASSUME NEW i \in Ids, NEW t \in Task, NEW d \in Database, Update(i, t, d), up, up',
             now' = now, born' = born, d.result = db.result,
             Continues(mem.task[i], t), t.archiveFailed = mem.task[i].archiveFailed,
             t.completedAt = mem.task[i].completedAt
      PROVE  Effect
  <2>1. ResultMoves(db.result[i], d.result[i], mem.task[i], t) /\ ArchiveMoves(d.result[i], mem.task[i], t)
    BY <1>t DEF ResultMoves, ArchiveMoves
  <2> QED
    BY <1>a, <1>t, <2>1, UpdateEffect
<1>13. ASSUME NEW i \in Ids, AttachInput(i) PROVE Effect
  <2> DEFINE t == mem.task[i]
             x == [t EXCEPT !.pending = FALSE]
             d == [db EXCEPT !.input[i] = "ready"]
  <2>1. Update(i, x, d) /\ up /\ up' /\ born' = born /\ now' = now /\ t.state = "running"
    BY <1>13 DEF AttachInput, Idle
  <2>2. /\ x \in Task /\ x.state = t.state /\ x.source = t.source /\ x.retryOf = t.retryOf
        /\ x.archiveFailed = t.archiveFailed /\ x.completedAt = t.completedAt
    BY <1>c, PreparedType DEF Task
  <2>3. d \in Database /\ d.result = db.result
    BY <1>a, SetInput DEF Database
  <2> HIDE DEF x, d, t
  <2>4. Continues(t, x)
    BY <2>1, <2>2 DEF Continues, Terminal, Final
  <2> QED
    BY <1>t, <2>1, <2>2, <2>3, <2>4 DEF t
<1>14. ASSUME NEW i \in Ids, NEW t \in Threads, AttachThread(i, t) PROVE Effect
  <2> DEFINE y == mem.task[i]
             x == [y EXCEPT !.thread = t]
  <2>1. Update(i, x, db) /\ up /\ up' /\ born' = born /\ now' = now /\ y.state = "running"
    BY <1>14 DEF AttachThread, Idle
  <2>2. /\ x \in Task /\ x.state = y.state /\ x.source = y.source /\ x.retryOf = y.retryOf
        /\ x.archiveFailed = y.archiveFailed /\ x.completedAt = y.completedAt
    BY <1>c DEF Task
  <2> HIDE DEF x, y
  <2>3. Continues(y, x)
    BY <2>1, <2>2 DEF Continues, Terminal, Final
  <2> QED
    BY <1>a, <1>t, <2>1, <2>2, <2>3 DEF y
<1>15. ASSUME NEW i \in Ids, NEW u \in Turns, AttachTurn(i, u) PROVE Effect
  <2> DEFINE y == mem.task[i]
             x == [y EXCEPT !.turn = u]
  <2>1. Update(i, x, db) /\ up /\ up' /\ born' = born /\ now' = now /\ y.state # "absent"
    BY <1>15 DEF AttachTurn, Idle, Known
  <2>2. /\ x \in Task /\ x.state = y.state /\ x.source = y.source /\ x.retryOf = y.retryOf
        /\ x.archiveFailed = y.archiveFailed /\ x.completedAt = y.completedAt
        /\ x.unconfirmed = y.unconfirmed /\ x.finishedAt = y.finishedAt
    BY <1>c DEF Task
  <2> HIDE DEF x, y
  <2>3. Continues(y, x)
    BY <2>1, <2>2 DEF Continues
  <2> QED
    BY <1>a, <1>t, <2>1, <2>2, <2>3 DEF y
<1>16. ASSUME NEW i \in Ids, NEW reply \in 0 .. MaxReplyBytes,
              CompleteExecution(i, reply) \/ CompleteExecutionUnsaved(i, reply)
       PROVE  Effect
  <2> DEFINE t == mem.task[i]
             x == Completed(t, reply)
             d == [db EXCEPT !.completion[i] = [at |-> now, reply |-> reply]]
  <2>1. /\ up /\ up' /\ lock.op # "boot" /\ born' = born /\ now' = now
        /\ t.state = "running" /\ t.completedAt = 0
    BY <1>16 DEF CompleteExecution, CompleteExecutionUnsaved, Idle, Unlocked
  <2>2. db.result[i].frozenAt = 0
    BY <2>1, OwnOrUnsaved DEF Unsaved, RowOK
  <2>3. MaxTaskBytes + reply \in Bytes
    BY BoundAssumption DEF Bytes
  <2>4. x \in Task /\ x.state = t.state
    BY <1>a, <1>c, <2>3, CompletedType
  <2>5. x.source = t.source /\ x.retryOf = t.retryOf /\ x.archiveFailed
    BY <1>c DEF Completed, Task
  <2>6. [at |-> now, reply |-> reply] \in Completion
    BY <1>a DEF Completion
  <2>7. d \in Database /\ d.result = db.result
    BY <1>a, <2>6, SetCompletion DEF Database
  <2> HIDE DEF x, d, t
  <2>8. Continues(t, x)
    BY <2>1, <2>4, <2>5 DEF Continues, Terminal, Final
  <2>9. ArchiveMoves(db.result[i], t, x) /\ ResultMoves(db.result[i], db.result[i], t, x)
    BY <2>2, <2>5 DEF ArchiveMoves, ResultMoves
  <2>10. CASE CompleteExecution(i, reply)
    <3>1. Update(i, x, d)
      BY <2>10 DEF CompleteExecution, x, d, t
    <3> QED
      BY <1>a, <2>1, <2>4, <2>7, <2>8, <2>9, <3>1, UpdateEffect DEF t
  <2>11. CASE CompleteExecutionUnsaved(i, reply)
    <3>1. /\ mem'.task = [mem.task EXCEPT ![i] = x] /\ DOMAIN mem.task = Ids
          /\ mem'.cleared = mem.cleared /\ mem'.rejected = mem.rejected /\ db' = db
      BY <1>a, <2>11 DEF CompleteExecutionUnsaved, Index, x, t
    <3>2. Stored' = Stored
      BY <3>1 DEF Stored
    <3>3. ASSUME NEW j \in Ids
          PROVE  /\ TaskMoves(j) /\ ArchiveMoves(db'.result[j], mem.task[j], mem'.task[j])
                 /\ DecisionMoves(db'.result[j], mem.task[j], mem'.task[j])
      <4>1. CASE j = i
        BY <2>1, <2>4, <2>8, <2>9, <3>1, <4>1 DEF TaskMoves, DecisionMoves, Terminal, t
      <4>2. CASE j # i
        BY <2>1, <3>1, <4>2 DEF TaskMoves, ArchiveMoves, DecisionMoves, Active, Terminal
      <4> QED
        BY <4>1, <4>2
    <3> QED
      BY <2>1, <3>1, <3>2, <3>3 DEF Effect, MemoryMoves, DiskMoves, ResultMoves
  <2> QED
    BY <1>16, <2>10, <2>11
<1>17. ASSUME NEW i \in Ids, NEW size \in Bytes \ {0}, NEW files \in BOOLEAN,
              FreezeResult(i, size, files)
       PROVE  Effect
  <2> DEFINE t == mem.task[i]
             x == Frozen(t, size)
             r == [NoResult EXCEPT !.frozenAt = now, !.size = size, !.files = files]
             d == [db EXCEPT !.result[i] = r, !.completion[i] = NoCompletion]
  <2>1. /\ up /\ up' /\ born' = born /\ now' = now /\ Update(i, x, d)
        /\ t.state = "running" \/ (t.state = "succeeded" /\ t.archiveFailed)
        /\ db.result[i].frozenAt = 0
    BY <1>17 DEF FreezeResult, Idle
  <2>2. x \in Task /\ x.state = t.state
    BY <1>a, <1>c, FrozenType
  <2>3. /\ x.source = t.source /\ x.retryOf = t.retryOf /\ x.unconfirmed = t.unconfirmed
        /\ x.finishedAt = t.finishedAt /\ ~ x.archiveFailed
    BY <1>c DEF Frozen, Task
  <2>4. r \in Result /\ r.frozenAt = now
    BY <1>a, NoRowsType DEF Result
  <2>5. d \in Database /\ d.result[i].frozenAt # 0 /\ \A j \in Ids \ {i} : d.result[j] = db.result[j]
    BY <1>a, <2>4, NoRowsType DEF Database
  <2> HIDE DEF x, d, t
  <2>6. Continues(t, x)
    BY <2>1, <2>2, <2>3 DEF Continues, Terminal, Final
  <2>8. Stored' = mem'
    BY <1>a, <2>1, <2>2, <2>5, SetTask, StoresSaved DEF Update
  <2>7. ArchiveMoves(d.result[i], t, x) /\ ResultMoves(db.result[i], d.result[i], t, x)
    BY <2>1, <2>3, <2>5, <2>8 DEF ArchiveMoves, ResultMoves, Final, Terminal
  <2> QED
    BY <1>a, <2>1, <2>2, <2>5, <2>6, <2>7, UpdateEffect DEF t
<1>18. ASSUME NEW i \in Ids, BeginDelivery(i) PROVE Effect
  <2>1. Idle /\ up' /\ Transition(i, "delivering", FALSE, db) /\ born' = born /\ now' = now
    BY <1>18 DEF BeginDelivery, Idle
  <2> QED
    BY <1>a, <2>1, TransitionEffect DEF ResultMoves
<1>19. ASSUME NEW i \in Ids, NEW next \in Terminal, NEW u \in BOOLEAN, Finish(i, next, u)
       PROVE  Effect
  <2>1. Idle /\ up' /\ Transition(i, next, u, db) /\ born' = born /\ now' = now
    BY <1>19 DEF Finish, Idle
  <2> QED
    BY <1>a, <2>1, TransitionEffect DEF ResultMoves
<1>20. ASSUME NEW i \in Ids, NEW outcome \in SendOutcomes, CompleteDelivery(i, outcome)
       PROVE  Effect
  <2> DEFINE r == db.result[i]
             a == IF \A o \in AllOps : r.attempts[o] = "none" THEN outcome ELSE r.attempts[None]
             d == Receipted(db, i, None, outcome, a)
  <2>1. r \in Result /\ outcome \in {"succeeded", "explicit_failure", "ambiguous"} /\ None \in AllOps
    BY <1>c, NameAssumption DEF AllOps
  <2>2. a \in {"none", "succeeded", "explicit_failure", "ambiguous"} /\ (a = "none" => r.attempts[None] = "none")
    BY <2>1 DEF Result
  <2>3. Idle /\ up' /\ Transition(i, "succeeded", FALSE, d) /\ born' = born /\ now' = now
    BY <1>20 DEF CompleteDelivery, Receipted, Idle
  <2> HIDE DEF a
  <2>4. d \in Database
    BY <1>a, <2>1, <2>2, SetReceipt DEF Receipted
  <2>5. \A j \in Ids \ {i} : d.result[j] = db.result[j]
    BY <1>a, ReceiptRows
  <2>6. \A t, v : ResultMoves(db.result[i], d.result[i], t, v)
    BY <1>a, <2>1, <2>2, ReceiptEffect
  <2> HIDE DEF d
  <2> QED
    BY <2>3, <2>4, <2>5, <2>6, TransitionEffect DEF Terminal
\* A receipt or an attempt written beside the index.
<1>r. ASSUME NEW i \in Ids, NEW o \in Ops, NEW x \in {"succeeded", "explicit_failure", "ambiguous"},
             db' = Receipted(db, i, o, x, x), UNCHANGED <<mem, up, now, born>>
      PROVE  Effect
  <2>1. Stored' = Stored
    BY <1>a, <1>r DEF Receipted, Stored, Database
  <2>2. o \in AllOps /\ x # "none"
    BY <1>r DEF AllOps
  <2>3. \A j \in Ids : \A t, u : ResultMoves(db.result[j], db'.result[j], t, u)
    BY <1>a, <1>r, <2>2, ReceiptEffect
  <2> QED
    BY <1>r, <2>1, <2>3, QuietEffect
<1>21. ASSUME NEW i \in Ids, NEW o \in Ops, BeginRedelivery(i, o) PROVE Effect
  BY <1>r, <1>21 DEF BeginRedelivery, Receipted
<1>22. ASSUME NEW i \in Ids, NEW o \in Ops, NEW outcome \in SendOutcomes, RecordDelivery(i, o, outcome)
       PROVE  Effect
  BY <1>r, <1>22, NameAssumption DEF RecordDelivery, Receipted
<1>23. ASSUME NEW i \in Ids, Release(i) PROVE Effect
  <2> DEFINE t == mem.task[i]
             m == [Forget(mem, {i}) EXCEPT !.cleared[t.source] = t.finishedAt]
  <2>1. up /\ up' /\ t.state \in Terminal /\ Save(m, db) /\ born' = born /\ now' = now
    BY <1>23 DEF Release, Idle
  <2>2. t.finishedAt \in Time
    BY <1>c DEF Task
  <2>3. Forget(mem, {i}) \in Index
    BY <1>a, ForgetType
  <2>4. /\ m \in Index /\ m.task = Forget(mem, {i}).task /\ m.rejected = Forget(mem, {i}).rejected
        /\ m.cleared = [Forget(mem, {i}).cleared EXCEPT ![t.source] = t.finishedAt]
    BY <2>2, <2>3 DEF Index
  <2>5. /\ m.task = [j \in Ids |-> IF j \in {i} THEN NoTask ELSE mem.task[j]]
        /\ m.rejected = mem.rejected /\ DOMAIN mem.cleared = Sources
        /\ m.cleared = [mem.cleared EXCEPT ![t.source] = t.finishedAt]
    BY <1>a, <2>4 DEF Index, Forget
  <2>6. mem' = m
    BY <2>1 DEF Save
  <2>7. t.source \in Sources
    BY <2>1 DEF History, Remembered, Terminal
  <2> HIDE DEF m
  <2>8. mem'.cleared[t.source] = t.finishedAt
    BY <2>5, <2>6, <2>7
  <2>9. ASSUME NEW j \in Ids
        PROVE  /\ m.task[j] = mem.task[j] \/ Goes(mem.task[j], m.task[j])
               /\ ArchiveMoves(db.result[j], mem.task[j], m.task[j])
    <3>1. CASE j = i
      <4>1. m.task[j] = NoTask
        BY <2>5, <3>1
      <4> QED
        BY <2>1, <2>8, <3>1, <4>1 DEF Goes, NoTask, ArchiveMoves
    <3>2. CASE j # i
      <4>1. m.task[j] = mem.task[j]
        BY <2>5, <3>2
      <4> QED
        BY <4>1 DEF ArchiveMoves
    <3> QED
      BY <3>1, <3>2
  <2>10. \A s \in Sources : ClearedMoves(s) /\ RejectedMoves(s)
    BY <2>1, <2>5, <2>6, <2>8 DEF ClearedMoves, RejectedMoves
  <2>11. \A j \in Ids : ResultMoves(db.result[j], db.result[j], mem.task[j], m.task[j])
    BY DEF ResultMoves
  <2> QED
    BY <1>a, <2>1, <2>4, <2>9, <2>10, <2>11, SaveEffect DEF m
<1>24. CASE ReleaseFiles
  BY <1>24, IdleEffect DEF ReleaseFiles
<1>25. ASSUME NEW s \in Sources, Reject(s) PROVE Effect
  <2> DEFINE m == [mem EXCEPT !.rejected = [DropOld(mem.rejected) EXCEPT ![s] = now]]
  <2>1. m \in Index /\ m.task = mem.task /\ m.cleared = mem.cleared
    BY <1>a, DropOldType DEF Index
  <2>2. Save(m, db) /\ up /\ up' /\ born' = born /\ now' = now
    BY <1>25 DEF Reject, Idle
  <2>3. mem' = m /\ m.rejected = [DropOld(mem.rejected) EXCEPT ![s] = now]
    BY <1>a, <2>2 DEF Save, Index
  <2> HIDE DEF m
  <2>4. \A z \in Sources : ClearedMoves(z) /\ RejectedMoves(z)
    BY <2>1, <2>3 DEF ClearedMoves, RejectedMoves, DropOld
  <2> QED
    BY <1>a, <2>1, <2>2, <2>4, ReceiptsEffect
\* Crash and startup
<1>d. ASSUME ~ up', Stored' = Stored, born' = born, now' = now,
             \A i \in Ids : ResultMoves(db.result[i], db'.result[i], mem.task[i], mem'.task[i])
      PROVE  Effect
  BY <1>d DEF Effect, MemoryMoves, DiskMoves
<1>26. CASE Crash
  <2>1. Stored' = Stored
    BY <1>26 DEF Crash, Stored
  <2> QED
    BY <1>26, <1>d, <2>1 DEF Crash, ResultMoves
<1>27. CASE StepFails
  <2>1. Stored' = Stored
    BY <1>27 DEF StepFails, Stored
  <2>2. CASE lock.op = "boot"
    BY <1>27, <1>d, <2>1, <2>2 DEF StepFails, ResultMoves
  <2>3. CASE lock.op # "boot"
    BY <1>27, <2>3, IdleEffect DEF StepFails
  <2> QED
    BY <2>2, <2>3
<1>28. CASE Boot
  <2>1. ~ up /\ up' /\ mem' = Stored /\ Stored' = Stored /\ UNCHANGED <<db, born, now>>
    BY <1>28 DEF Boot, Stored
  <2> QED
    BY <2>1 DEF Effect, MemoryMoves, DiskMoves, ResultMoves
<1>29. CASE SweepOrphans
  BY <1>29, IdleEffect DEF SweepOrphans
<1>30. CASE BootSave
  <2>1. Save(mem, db) /\ up /\ up' /\ born' = born /\ now' = now
    BY <1>30 DEF BootSave
  <2>2. mem' = mem
    BY <2>1 DEF Save
  <2> QED
    BY <1>a, <1>s, <2>1, <2>2, ReceiptsEffect
<1>31. ASSUME NEW i \in Ids, RecoverTask(i) PROVE Effect
  <2> DEFINE t == mem.task[i]
             x == Recovered(t, i)
             c == Checkpointed(t, i)
  <2>1. /\ db' = [db EXCEPT !.result[i] = Settled(t, i)] /\ up /\ lock.op = "boot"
        /\ born' = born /\ now' = now
    BY <1>31 DEF RecoverTask, IInv, LockAgrees
  <2>2. /\ Stored' = Stored
        /\ \A j \in Ids : db'.result[j] = IF j = i THEN Settled(t, i) ELSE db.result[j]
    BY <1>a, <2>1 DEF Stored, Database
  <2>3. /\ Settled(t, i).frozenAt = db.result[i].frozenAt
        /\ \A o \in AllOps : db.result[i].attempts[o] # "none" => Settled(t, i).attempts[o] # "none"
    <3> DEFINE r == db.result[i]
               r1 == [r EXCEPT !.receipt = "ambiguous"]
               r2 == [r1 EXCEPT !.attempts = [@ EXCEPT ![None] = "ambiguous"]]
    <3>1. r \in Result
      BY <1>c
    <3>2. Settled(t, i) = r \/ Settled(t, i) = r1 \/ Settled(t, i) = r2
      BY <3>1 DEF Settled
    <3>3. r1.frozenAt = r.frozenAt /\ r1.attempts = r.attempts
      BY <3>1 DEF Result
    <3>4. r2.frozenAt = r.frozenAt /\ r2.attempts = [r.attempts EXCEPT ![None] = "ambiguous"]
      BY <3>1 DEF Result
    <3>5. DOMAIN r.attempts = AllOps
      BY <3>1 DEF Result
    <3> HIDE DEF r, r1, r2
    <3>6. \A o \in AllOps : r.attempts[o] # "none" => r2.attempts[o] # "none"
      BY <3>4, <3>5
    <3> QED
      BY <3>2, <3>3, <3>4, <3>6 DEF r
  <2>4. \A j \in Ids : ResultMoves(db.result[j], db'.result[j], mem.task[j], mem'.task[j])
    BY <2>2, <2>3 DEF ResultMoves
  <2>5. CASE BootBlocked(t, i)
    BY <1>31, <1>d, <2>1, <2>2, <2>4, <2>5 DEF RecoverTask
  <2>6. CASE ~ BootBlocked(t, i)
    <3>1. /\ up' /\ mem'.task = [mem.task EXCEPT ![i] = x] /\ DOMAIN mem.task = Ids
          /\ mem'.cleared = mem.cleared /\ mem'.rejected = mem.rejected
      BY <1>31, <1>a, <2>1, <2>6 DEF RecoverTask, Index
    <3>2. \/ x = t
          \/ /\ Continues(t, x) /\ ArchiveMoves(db'.result[i], t, x)
             /\ DecisionMoves(db'.result[i], t, x)
      <4>1. CASE t.state \notin Active
        BY <4>1 DEF Recovered
      <4>2. CASE t.state \in Active
        <5>1. t = db.task[i] /\ RowOK(t, db.result[i], born[i])
          BY <2>1, <4>2 DEF IInv, MemoryFollowsDisk, RowsAgree, Unsaved, Recovering, Active
        <5>2. CASE Loadable(i)
          <6>1. x = [t EXCEPT !.state = "succeeded", !.unconfirmed = FALSE, !.finishedAt = now,
                              !.completedAt = db.result[i].frozenAt, !.archiveFailed = FALSE,
                              !.bytes = db.result[i].size]
            BY <4>2, <5>2 DEF Recovered
          <6>2. /\ x.state = "succeeded" /\ x.source = t.source /\ x.retryOf = t.retryOf
                /\ x.finishedAt = now /\ ~ x.archiveFailed
                /\ x.completedAt = db.result[i].frozenAt
            BY <1>c, <6>1 DEF Task
          <6>3. db'.result[i].frozenAt = db.result[i].frozenAt /\ db.result[i].frozenAt # 0
            BY <2>2, <2>3, <5>2 DEF Loadable
          <6> HIDE DEF x, t
          <6> QED
            BY <4>2, <6>2, <6>3 DEF Continues, ArchiveMoves, DecisionMoves, Active, Terminal, Final
        <5>3. CASE ~ Loadable(i)
          <6>1. x = [c EXCEPT !.state = IF c.completedAt # 0 THEN "succeeded" ELSE "interrupted",
                              !.unconfirmed = FALSE, !.finishedAt = now]
            BY <4>2, <5>3 DEF Recovered
          <6>2. \/ c = t
                \/ /\ c = [t EXCEPT !.completedAt = db.completion[i].at, !.archiveFailed = TRUE,
                                       !.bytes = MaxTaskBytes + db.completion[i].reply]
                   /\ t.completedAt = 0
            BY DEF Checkpointed
          <6>3. /\ x.finishedAt = now /\ x.source = t.source /\ x.retryOf = t.retryOf
                /\ x.state = IF c.completedAt # 0 THEN "succeeded" ELSE "interrupted"
                /\ x.archiveFailed = c.archiveFailed /\ x.completedAt = c.completedAt
            <7>1. c \in Task /\ c.source = t.source /\ c.retryOf = t.retryOf
              BY CheckpointedType DEF IInv
            <7> HIDE DEF c, x, t
            <7> QED
              BY <6>1, <7>1 DEF Task
          <6>4. c.archiveFailed /\ ~ t.archiveFailed => t.completedAt = 0
            BY <6>2
          <6>5. t.completedAt = 0 => db'.result[i].frozenAt = 0
            BY <2>2, <2>3, <4>2, <5>1 DEF RowOK, Active
          <6>6. c.completedAt # 0 => c.archiveFailed
            BY <2>6, <4>2, <5>3 DEF BootBlocked
          <6>7. db'.result[i].frozenAt = 0
            <7>1. ASSUME db.result[i].frozenAt # 0 PROVE FALSE
              <8>1. t.completedAt # 0 /\ ~ t.archiveFailed
                BY <2>2, <2>3, <2>1, <6>5, <7>1 DEF Archived
              <8> QED
                BY <6>2, <6>6, <8>1
            <7> QED
              BY <2>2, <2>3, <7>1
          <6> HIDE DEF x, t, c
          <6> QED
            BY <4>2, <6>3, <6>4, <6>5, <6>6, <6>7
               DEF Continues, ArchiveMoves, DecisionMoves, Active, Terminal, Final
        <5> QED
          BY <5>2, <5>3
      <4> QED
        BY <4>1, <4>2
    <3> HIDE DEF x
    <3>3. ASSUME NEW j \in Ids
          PROVE  /\ TaskMoves(j) /\ ArchiveMoves(db'.result[j], mem.task[j], mem'.task[j])
                 /\ DecisionMoves(db'.result[j], mem.task[j], mem'.task[j])
      <4>1. CASE j # i \/ x = t
        <5>1. mem'.task[j] = mem.task[j]
          BY <3>1, <4>1
        <5> QED
          BY <2>1, <5>1 DEF TaskMoves, ArchiveMoves, DecisionMoves, Active, Terminal
      <4>2. CASE j = i /\ x # t
        <5>1. mem'.task[j] = x
          BY <3>1, <4>2
        <5> QED
          BY <2>1, <3>2, <4>2, <5>1 DEF TaskMoves
      <4> QED
        BY <4>1, <4>2
    <3>4. MemoryMoves
      BY <2>1, <3>1, <3>3 DEF MemoryMoves
    <3> QED
      BY <2>1, <2>2, <2>4, <3>4 DEF Effect, DiskMoves
  <2> QED
    BY <2>5, <2>6
<1>32. ASSUME NEW i \in Ids, Damage(i) PROVE Effect
  BY <1>32, IdleEffect DEF Damage
<1>33. CASE Tick
  BY <1>33, IdleEffect DEF Tick
<1>34. CASE UNCHANGED vars
  BY <1>34, IdleEffect DEF vars
<1> QED
  BY <1>1, <1>2, <1>3, <1>4, <1>5, <1>6, <1>7, <1>8, <1>9, <1>10, <1>11, <1>12, <1>13, <1>14,
     <1>15, <1>16, <1>17, <1>18, <1>19, <1>20, <1>21, <1>22, <1>23, <1>24, <1>25, <1>26, <1>27,
     <1>28, <1>29, <1>30, <1>31, <1>32, <1>33, <1>34 DEF Next

-----------------------------------------------------------------------------
(* Frozen results and recorded sends *)

\* What the disk holds as final, memory holds as well.
LEMMA FinalIsShared ==
    ASSUME IInv, up, NEW i \in Ids, Final(db.task[i])
    PROVE  mem.task[i] = db.task[i]
BY DEF IInv, MemoryFollowsDisk, Unsaved, Recovering, Final, Active, Terminal

\* Memory's tasks after a step, as they stand on disk if it was a save.
LEMMA DiskTasks ==
    ASSUME Effect, NEW i \in Ids
    PROVE  \/ db'.task[i] = db.task[i] /\ Stored' = Stored
           \/ db'.task[i] = mem'.task[i] /\ Stored' = mem' /\ up'
BY DEF Effect, DiskMoves, Stored

LEMMA ArchivedNext == IInv /\ Archived /\ Effect => Archived'
<1> SUFFICES ASSUME IInv, Archived, Effect, NEW i \in Ids, db'.result[i].frozenAt # 0
             PROVE  ~ db'.task[i].archiveFailed /\ (up' => ~ mem'.task[i].archiveFailed)
  BY DEF Archived
<1> DEFINE r == db.result[i]
           q == db'.result[i]
           t == mem.task[i]
           u == mem'.task[i]
<1>1. ResultMoves(r, q, t, u)
  BY DEF Effect
<1>2. CASE r.frozenAt = 0
  <2>1. ~ u.archiveFailed /\ Stored' = mem'
    BY <1>1, <1>2 DEF ResultMoves, NoResult
  <2> QED
    BY <2>1 DEF Stored
<1>3. CASE r.frozenAt # 0
  <2>1. ~ db.task[i].archiveFailed /\ (up => ~ t.archiveFailed)
    BY <1>3 DEF Archived
  <2>2. up' => ~ u.archiveFailed
    <3>1. CASE ~ up /\ mem' = Stored
      BY <2>1, <3>1 DEF Stored
    <3>2. CASE up /\ up' /\ ArchiveMoves(q, t, u)
      BY <2>1, <3>2 DEF ArchiveMoves
    <3> QED
      BY <3>1, <3>2 DEF Effect, MemoryMoves
  <2> QED
    BY <2>1, <2>2, DiskTasks
<1> QED
  BY <1>2, <1>3

\* A request that is final stays so until it is forgotten.
LEMMA FinalStays ==
    ASSUME IInv, Effect, NEW i \in Ids, Final(db.task[i])
    PROVE  Final(db'.task[i]) \/ db'.task[i].state = "absent"
<1>1. CASE db'.task[i] = db.task[i]
  BY <1>1
<1>2. CASE db'.task[i] = mem'.task[i] /\ up'
  <2>1. CASE ~ up
    BY <1>2, <2>1 DEF Effect, MemoryMoves, Stored
  <2>2. CASE up
    <3>1. mem.task[i] = db.task[i] /\ mem.task[i].state # "absent"
      BY <2>2, FinalIsShared DEF Final, Terminal
    <3>2. TaskMoves(i)
      BY <1>2, <2>2 DEF Effect, MemoryMoves
    <3> QED
      BY <1>2, <3>1, <3>2 DEF TaskMoves, Continues, Goes, Admitted, Final
  <2> QED
    BY <2>1, <2>2
<1> QED
  BY <1>1, <1>2, DiskTasks

\* Neither a crash nor a cleanup unmakes the record of a send.
LEMMA RecordStays ==
    ASSUME IInv, Effect, StepOK, NEW i \in Ids, NEW o \in AllOps, Recorded(i, o)
    PROVE  Recorded(i, o)'
<1> DEFINE a == Status(db.task[i], i)
           b == Status(db.task[i], i)'
           r == db.result[i]
           q == db'.result[i]
<1>1. May(a, b)
  BY DEF StepOK
<1>2. CASE o = None
  <2>1. a \notin {"unborn", "executing", "completed"}
    BY <1>2 DEF Recorded
  <2> HIDE DEF a, b
  <2>2. b \notin {"unborn", "executing", "completed"}
    BY <1>1, <2>1 DEF May, Lifecycle!Edge, Lifecycle!Ended
  <2> QED
    BY <1>2, <2>2 DEF Recorded, b
<1>3. CASE o # None /\ a = "forgotten"
  <2> HIDE DEF a, b
  <2>1. b = "forgotten"
    BY <1>1, <1>3 DEF May, Lifecycle!Edge, Lifecycle!Ended
  <2> QED
    BY <1>3, <2>1 DEF Recorded, b
<1>4. CASE /\ o # None /\ Final(db.task[i])
           /\ r.frozenAt = 0 \/ r.attempts[o] # "none"
  <2>1. CASE Final(db'.task[i])
    <3>1. ResultMoves(r, q, mem.task[i], mem'.task[i])
      BY DEF Effect
    <3>2. up => Final(mem.task[i])
      BY <1>4, FinalIsShared
    <3>3. q.frozenAt = 0 \/ q.attempts[o] # "none"
      BY <1>4, <3>1, <3>2 DEF ResultMoves, NoResult
    <3> QED
      BY <1>4, <2>1, <3>3 DEF Recorded
  <2>2. CASE db'.task[i].state = "absent"
    <3>1. a \in {"succeeded", "failed", "interrupted", "cancelled"} /\ b \in {"unborn", "forgotten"}
      BY <1>4, <2>2 DEF Status, Final, Terminal
    <3> HIDE DEF a, b
    <3>2. b = "forgotten"
      BY <1>1, <3>1 DEF May, Lifecycle!Edge, Lifecycle!Ended
    <3> QED
      BY <1>4, <3>2 DEF Recorded, b
  <2> QED
    BY <1>4, <2>1, <2>2, FinalStays
<1> QED
  BY <1>2, <1>3, <1>4 DEF Recorded

\* Only the two operations that begin a delivery send.
LEMMA SendMoves ==
    ASSUME [Next]_vars
    PROVE  \/ sends' = sends
           \/ \E i \in Ids : BeginDelivery(i)
           \/ \E i \in Ids, o \in Ops : BeginRedelivery(i, o)
<1>1. CASE \E s \in Sources, g \in Targets, t \in Threads \cup {None}, p \in Pendings : Start(s, g, t, p)
  BY <1>1 DEF Start
<1>2. CASE \E o \in Ids, s \in Sources : Retry(o, s)
  BY <1>2 DEF Retry
<1>3. CASE AdmitRefused \/ AdmitBusy \/ StartCommit \/ \E i \in Ids : AdmitStage(i)
  BY <1>3 DEF AdmitRefused, AdmitBusy, StartCommit, AdmitStage
<1>4. CASE CleanupExpired \/ CleanRows \/ CleanReceipts \/ CleanFiles \/ CleanHistory
  BY <1>4 DEF CleanupExpired, CleanRows, CleanReceipts, CleanFiles, CleanHistory
<1>5. CASE \E i \in Ids : Touch(i) \/ AttachInput(i) \/ Release(i)
  BY <1>5 DEF Touch, AttachInput, Release
<1>6. CASE \E i \in Ids, t \in Threads : AttachThread(i, t)
  BY <1>6 DEF AttachThread
<1>7. CASE \E i \in Ids, u \in Turns : AttachTurn(i, u)
  BY <1>7 DEF AttachTurn
<1>8. CASE \E i \in Ids, reply \in 0 .. MaxReplyBytes :
              CompleteExecution(i, reply) \/ CompleteExecutionUnsaved(i, reply)
  BY <1>8 DEF CompleteExecution, CompleteExecutionUnsaved
<1>9. CASE \E i \in Ids, size \in Bytes \ {0}, files \in BOOLEAN : FreezeResult(i, size, files)
  BY <1>9 DEF FreezeResult
<1>10. CASE \E i \in Ids, next \in Terminal, u \in BOOLEAN : Finish(i, next, u)
  BY <1>10 DEF Finish
<1>11. CASE \E i \in Ids, outcome \in SendOutcomes : CompleteDelivery(i, outcome)
  BY <1>11 DEF CompleteDelivery
<1>12. CASE \E i \in Ids, o \in Ops, outcome \in SendOutcomes : RecordDelivery(i, o, outcome)
  BY <1>12 DEF RecordDelivery
<1>13. CASE ReleaseFiles \/ \E s \in Sources : Reject(s)
  BY <1>13 DEF ReleaseFiles, Reject
<1>14. CASE Crash \/ StepFails \/ Boot \/ SweepOrphans \/ BootSave \/ Tick \/ UNCHANGED vars
  BY <1>14 DEF Crash, StepFails, Boot, SweepOrphans, BootSave, Tick, vars
<1>15. CASE \E i \in Ids : RecoverTask(i) \/ Damage(i)
  BY <1>15 DEF RecoverTask, Damage
<1> QED
  BY <1>1, <1>2, <1>3, <1>4, <1>5, <1>6, <1>7, <1>8, <1>9, <1>10, <1>11, <1>12, <1>13, <1>14,
     <1>15 DEF Next

LEMMA SendsNext ==
    IInv /\ Archived /\ SendsRecorded /\ Effect /\ StepOK /\ TypeOK' /\ [Next]_vars => SendsRecorded'
<1> SUFFICES ASSUME IInv, Archived, SendsRecorded, Effect, StepOK, TypeOK', [Next]_vars,
                    NEW j \in Ids, NEW p \in AllOps, sends'[j][p] # 0
             PROVE  sends'[j][p] = 1 /\ Recorded(j, p)'
  BY DEF SendsRecorded
<1>a. sends \in [Ids -> [AllOps -> Nat]]
  BY DEF IInv, TypeOK
<1>b. ASSUME sends'[j][p] = sends[j][p] PROVE sends'[j][p] = 1 /\ Recorded(j, p)'
  BY <1>b, RecordStays DEF SendsRecorded
<1>c. ASSUME NEW i \in Ids, NEW o \in AllOps, sends' = [sends EXCEPT ![i][o] = @ + 1]
      PROVE  /\ sends'[i][o] = sends[i][o] + 1
             /\ \A k \in Ids, q \in AllOps : k # i \/ q # o => sends'[k][q] = sends[k][q]
  BY <1>a, <1>c
<1>1. CASE sends' = sends
  BY <1>b, <1>1
<1>2. ASSUME NEW i \in Ids, BeginDelivery(i)
      PROVE  sends'[j][p] = 1 /\ Recorded(j, p)'
  <2>1. sends' = [sends EXCEPT ![i][None] = @ + 1] /\ None \in AllOps
    BY <1>2 DEF BeginDelivery, AllOps
  <2>2. CASE j # i \/ p # None
    BY <1>b, <1>c, <2>1, <2>2
  <2>3. CASE j = i /\ p = None
    <3>1. up /\ lock.op # "boot" /\ mem.task[i].state = "running"
      BY <1>2 DEF BeginDelivery, Idle, Unlocked
    <3>2. db.task[i].state = "running"
      BY <3>1, OwnOrUnsaved DEF Unsaved
    <3>3. ~ Recorded(i, None)
      BY <3>2 DEF Recorded, Status
    <3>4. sends[i][None] = 0
      BY <2>1, <3>3 DEF SendsRecorded
    <3>5. sends'[i][None] = 1
      BY <1>a, <1>c, <2>1, <3>4
    <3>6. db'.task[i].state = "delivering"
      <4> DEFINE t == mem.task[i]
                 x == [t EXCEPT !.state = "delivering", !.unconfirmed = FALSE /\ "delivering" = "failed",
                                !.finishedAt = IF "delivering" \in Terminal THEN now ELSE 0]
      <4>1. EndState(t, "delivering") = "delivering"
        BY DEF EndState, Terminal
      <4>2. Save([mem EXCEPT !.task[i] = x], db)
        BY <1>2, <4>1 DEF BeginDelivery, Transition, Update
      <4>3. mem \in Index /\ t \in Task
        BY TaskFacts DEF IInv
      <4>4. x.state = "delivering"
        BY <4>3 DEF Task
      <4> HIDE DEF x
      <4>5. db'.task = [mem.task EXCEPT ![i] = x] /\ DOMAIN mem.task = Ids
        BY <4>2, <4>3 DEF Save, Persist, Index
      <4> QED
        BY <4>4, <4>5
    <3>7. Recorded(i, None)'
      BY <3>6 DEF Recorded, Status
    <3> QED
      BY <2>3, <3>5, <3>7
  <2> QED
    BY <2>2, <2>3
<1>3. ASSUME NEW i \in Ids, NEW o \in Ops, BeginRedelivery(i, o)
      PROVE  sends'[j][p] = 1 /\ Recorded(j, p)'
  <2>1. sends' = [sends EXCEPT ![i][o] = @ + 1] /\ o \in AllOps /\ o # None
    BY <1>3, NameAssumption DEF BeginRedelivery, AllOps
  <2>2. CASE j # i \/ p # o
    BY <1>b, <1>c, <2>1, <2>2
  <2>3. CASE j = i /\ p = o
    <3>1. /\ up /\ lock.op # "boot" /\ mem.task[i].state = "succeeded"
          /\ db.result[i].frozenAt # 0 /\ db.result[i].attempts[o] = "none"
          /\ db' = Receipted(db, i, o, "ambiguous", "ambiguous")
      BY <1>3 DEF BeginRedelivery, Idle, Unlocked, Loadable, Receipted
    <3>2. db.task[i] = mem.task[i] /\ Final(db.task[i])
      BY <3>1, OwnOrUnsaved DEF Unsaved, Archived, Final, Terminal
    <3>3. ~ Recorded(i, o)
      BY <2>1, <3>1, <3>2 DEF Recorded, Status
    <3>4. sends[i][o] = 0
      BY <2>1, <3>3 DEF SendsRecorded
    <3>5. sends'[i][o] = 1
      BY <1>a, <1>c, <2>1, <3>4
    <3>6. db \in Database
      BY DEF IInv, TypeOK
    <3>7. db'.task = db.task
      BY <3>1, <3>6, ReceiptRows
    <3>8. db'.result[i].attempts[o] = "ambiguous"
      <4>1. db.result \in [Ids -> Result] /\ db.result[i] \in Result
        BY <3>6 DEF Database
      <4> DEFINE r1 == [db.result[i] EXCEPT !.receipt = "ambiguous"]
                 r2 == [r1 EXCEPT !.attempts = [@ EXCEPT ![o] = "ambiguous"]]
      <4>2. r2.attempts = [db.result[i].attempts EXCEPT ![o] = "ambiguous"]
        BY <4>1 DEF Result
      <4>3. db'.result = [[db.result EXCEPT ![i] = r1] EXCEPT ![i] = r2]
        BY <3>1, <3>6, <4>1 DEF Database, Receipted
      <4>4. DOMAIN db.result[i].attempts = AllOps
        BY <4>1 DEF Result
      <4> HIDE DEF r1, r2
      <4> QED
        BY <2>1, <4>1, <4>2, <4>3, <4>4
    <3>9. Recorded(i, o)'
      BY <2>1, <3>2, <3>7, <3>8 DEF Recorded
    <3> QED
      BY <2>3, <3>5, <3>9
  <2> QED
    BY <2>2, <2>3
<1> QED
  BY <1>1, <1>2, <1>3, SendMoves

-----------------------------------------------------------------------------
(* Retries *)

\* A request that was drawn stays drawn.
LEMMA BornStays ==
    ASSUME Effect, NEW o \in Ids, born[o].at # 0
    PROVE  born'[o] = born[o]
BY DEF Effect, MemoryMoves, TaskMoves, Admitted

\* What may be retried either may be retried after a step or is forgotten.
LEMMA OriginStays ==
    ASSUME Effect, up, up', NEW o \in Ids, Origin(mem, o)
    PROVE  Origin(mem, o)'
<1>1. born'[o].at # 0 /\ born[o].at # 0
  BY BornStays DEF Origin
<1>2. TaskMoves(o)
  BY DEF Effect, MemoryMoves
<1>3. CASE mem.task[o].state = "absent"
  BY <1>1, <1>2, <1>3 DEF TaskMoves, Continues, Goes, Admitted, Origin, Terminal
<1>4. CASE Retryable(mem.task[o])
  <2>1. Final(mem.task[o]) /\ mem.task[o].state # "absent"
    BY <1>4 DEF Retryable, Final, Terminal
  <2> QED
    BY <1>1, <1>2, <1>4, <2>1 DEF TaskMoves, Continues, Goes, Admitted, Origin, Retryable, Final
<1> QED
  BY <1>3, <1>4 DEF Origin

\* A request enters admission through Start or Retry and is not exchanged.
LEMMA AdmissionMoves ==
    ASSUME IInv, [Next]_vars, up', lock'.op = "start"
    PROVE  \/ up /\ lock.op = "start" /\ lock'.request = lock.request
           \/ lock'.request.source \in Sources /\ lock'.request.retryOf = None
           \/ /\ lock'.request.source \in Sources /\ lock'.request.retryOf \in Ids
              /\ Idle /\ UNCHANGED <<mem, born>>
              /\ Retryable(mem.task[lock'.request.retryOf])
<1>a. lock \in Lock
  BY DEF IInv, TypeOK
<1>1. CASE \E s \in Sources, g \in Targets, t \in Threads \cup {None}, p \in Pendings : Start(s, g, t, p)
  BY <1>1 DEF Start, Begin, Unlocked
<1>2. CASE \E o \in Ids, s \in Sources : Retry(o, s)
  <2>1. PICK o \in Ids, s \in Sources : Retry(o, s)
    BY <1>2
  <2>2. /\ Idle /\ UNCHANGED <<mem, born>> /\ Retryable(mem.task[o])
        /\ lock'.request.source = s /\ lock'.request.retryOf = o
    BY <2>1 DEF Retry, Begin, Unlocked
  <2> QED
    BY <2>2
<1>b. lock' # Unlocked
  BY DEF Unlocked
<1>3. CASE AdmitRefused \/ AdmitBusy \/ StartCommit
  BY <1>3, <1>b DEF AdmitRefused, AdmitBusy, StartCommit
<1>4. CASE \E i \in Ids : AdmitStage(i)
  BY <1>a, <1>4 DEF AdmitStage, Lock
<1>5. CASE CleanupExpired
  BY <1>5 DEF CleanupExpired, Begin, Unlocked
<1>6. CASE CleanRows \/ CleanReceipts \/ CleanFiles
  BY <1>a, <1>6 DEF CleanRows, CleanReceipts, CleanFiles, Lock
<1>7. CASE CleanHistory
  BY <1>a, <1>7 DEF CleanHistory, AfterCleanup, Lock, Unlocked
<1>8. CASE \E i \in Ids : Touch(i) \/ AttachInput(i) \/ BeginDelivery(i) \/ Release(i)
  BY <1>8 DEF Touch, AttachInput, BeginDelivery, Release, Idle, Unlocked
<1>9. CASE \E i \in Ids, t \in Threads : AttachThread(i, t)
  BY <1>9 DEF AttachThread, Idle, Unlocked
<1>10. CASE \E i \in Ids, u \in Turns : AttachTurn(i, u)
  BY <1>10 DEF AttachTurn, Idle, Unlocked
<1>11. CASE \E i \in Ids, reply \in 0 .. MaxReplyBytes :
              CompleteExecution(i, reply) \/ CompleteExecutionUnsaved(i, reply)
  BY <1>11 DEF CompleteExecution, CompleteExecutionUnsaved, Idle, Unlocked
<1>12. CASE \E i \in Ids, size \in Bytes \ {0}, files \in BOOLEAN : FreezeResult(i, size, files)
  BY <1>12 DEF FreezeResult, Idle, Unlocked
<1>13. CASE \E i \in Ids, next \in Terminal, u \in BOOLEAN : Finish(i, next, u)
  BY <1>13 DEF Finish, Idle, Unlocked
<1>14. CASE \E i \in Ids, outcome \in SendOutcomes : CompleteDelivery(i, outcome)
  BY <1>14 DEF CompleteDelivery, Idle, Unlocked
<1>15. CASE \E i \in Ids, o \in Ops : BeginRedelivery(i, o)
  BY <1>15 DEF BeginRedelivery, Idle, Unlocked
<1>16. CASE \E i \in Ids, o \in Ops, outcome \in SendOutcomes : RecordDelivery(i, o, outcome)
  BY <1>16 DEF RecordDelivery, Idle, Unlocked
<1>17. CASE ReleaseFiles \/ \E s \in Sources : Reject(s)
  BY <1>17, <1>b DEF ReleaseFiles, Reject, Idle
<1>18. CASE Crash \/ StepFails \/ Boot \/ BootSave \/ Tick
  <2>1. CASE Boot
    BY <2>1 DEF Boot, Unlocked
  <2> QED
    BY <1>18, <1>b, <2>1 DEF Crash, StepFails, BootSave, Tick
<1>19. CASE SweepOrphans
  BY <1>a, <1>19 DEF SweepOrphans, Lock
<1>20. CASE \E i \in Ids : RecoverTask(i) \/ Damage(i)
  <2>1. PICK i \in Ids : RecoverTask(i) \/ Damage(i)
    BY <1>20
  <2>2. CASE Damage(i)
    BY <2>2 DEF Damage
  <2>3. CASE RecoverTask(i)
    <3>1. lock' = Unlocked \/ lock'.op = lock.op
      BY <1>a, <2>3 DEF RecoverTask, Lock
    <3> QED
      BY <2>3, <3>1 DEF RecoverTask, IInv, LockAgrees, Unlocked
  <2> QED
    BY <2>1, <2>2, <2>3
<1>21. CASE UNCHANGED vars
  BY <1>21 DEF vars
<1> QED
  BY <1>1, <1>2, <1>3, <1>4, <1>5, <1>6, <1>7, <1>8, <1>9, <1>10, <1>11, <1>12, <1>13, <1>14,
     <1>15, <1>16, <1>17, <1>18, <1>19, <1>20, <1>21 DEF Next

LEMMA OriginsNext == IInv /\ Origins /\ Effect /\ [Next]_vars => Origins'
<1> SUFFICES ASSUME IInv, Origins, Effect, [Next]_vars PROVE Origins'
  OBVIOUS
<1>1. ASSUME up', NEW i \in Ids, NEW o \in Ids, mem'.task[i].state # "absent", mem'.task[i].retryOf = o
      PROVE  Origin(mem, o)'
  <2>1. CASE ~ up
    <3>1. mem' = Stored /\ born' = born
      BY <1>1, <2>1 DEF Effect, MemoryMoves
    <3>2. Origin(Stored, o)
      BY <1>1, <3>1 DEF Origins, Stored
    <3> QED
      BY <3>1, <3>2 DEF Origin
  <2>2. CASE up
    <3>1. TaskMoves(i)
      BY <1>1, <2>2 DEF Effect, MemoryMoves
    <3>2. CASE Admitted(i)
      <4>1. lock.op = "start" /\ lock.request.retryOf = o
        BY <1>1, <3>2 DEF Admitted
      <4> QED
        BY <1>1, <2>2, <4>1, OriginStays DEF Origins
    <3>3. CASE ~ Admitted(i)
      <4>1. mem.task[i].state # "absent" /\ mem.task[i].retryOf = o
        BY <1>1, <3>1, <3>3 DEF TaskMoves, Continues, Goes
      <4> QED
        BY <1>1, <2>2, <4>1, OriginStays DEF Origins
    <3> QED
      BY <3>2, <3>3
  <2> QED
    BY <2>1, <2>2
<1>2. ASSUME NEW i \in Ids, NEW o \in Ids, db'.task[i].state # "absent", db'.task[i].retryOf = o
      PROVE  Origin(Stored, o)'
  <2>1. CASE Stored' = Stored
    <3>1. db'.task = db.task
      BY <2>1 DEF Stored
    <3>2. Origin(Stored, o)
      BY <1>2, <3>1 DEF Origins
    <3> QED
      BY <2>1, <3>2, BornStays DEF Origin
  <2>2. CASE up' /\ Stored' = mem'
    <3>1. Origin(mem, o)'
      BY <1>1, <1>2, <2>2 DEF Stored
    <3> QED
      BY <2>2, <3>1 DEF Origin
  <2> QED
    BY <2>1, <2>2 DEF Effect, DiskMoves
<1>3. ASSUME up', lock'.op = "start"
      PROVE  /\ lock'.request.source \in Sources
             /\ \A o \in Ids : lock'.request.retryOf = o => Origin(mem, o)'
  <2>1. CASE up /\ lock.op = "start" /\ lock'.request = lock.request
    BY <1>3, <2>1, OriginStays DEF Origins
  <2>2. CASE lock'.request.source \in Sources /\ lock'.request.retryOf = None
    BY <2>2, NameAssumption
  <2>3. CASE /\ lock'.request.source \in Sources /\ lock'.request.retryOf \in Ids
             /\ Idle /\ UNCHANGED <<mem, born>>
             /\ Retryable(mem.task[lock'.request.retryOf])
    <3> DEFINE o == lock'.request.retryOf
    <3>1. up /\ lock.op # "boot" /\ o \in Ids
      BY <2>3 DEF Idle, Unlocked
    <3>2. born[o].at # 0
      BY <2>3, <3>1, OwnOrUnsaved DEF RowOK, Unsaved, Retryable
    <3> QED
      BY <2>3, <3>2 DEF Origin, Retryable
  <2> QED
    BY <1>3, <2>1, <2>2, <2>3, AdmissionMoves
<1> QED
  BY <1>1, <1>2, <1>3 DEF Origins

-----------------------------------------------------------------------------
(* Sources *)

\* Whom memory knows the disk knows, under the source it was drawn for, and
\* then there is no receipt for that source.
LEMMA KnownIsStored ==
    ASSUME IInv, History, up, NEW i \in Ids, mem.task[i].state # "absent"
    PROVE  mem.cleared[mem.task[i].source] = 0
<1>1. db.task[i].state # "absent"
  BY DEF IInv, MemoryFollowsDisk, Unsaved, Recovering, Active
<1>2. db.task[i].source = born[i].source /\ mem.task[i].source = born[i].source
  BY <1>1 DEF History, Remembered, Stored
<1>3. i \in Known(Stored)
  BY <1>1 DEF Known, Stored
<1>4. db.cleared[db.task[i].source] = 0
  BY <1>3 DEF History, ValidIndex, Stored
<1> QED
  BY <1>2, <1>4 DEF History

\* The index in memory keeps remembering.
LEMMA MemoryRemembers ==
    ASSUME IInv, Origins, History, Effect, TypeOK', up, up', NEW i \in Ids
    PROVE  Remembered(mem, i)'
<1> DEFINE t == mem.task[i]
           u == mem'.task[i]
           s == born[i].source
<1>1. /\ Remembered(mem, i) /\ born[i].at <= now /\ (born[i].at # 0 <=> s \in Sources)
      /\ TaskMoves(i)
  BY DEF History, Effect, MemoryMoves
<1>2. /\ t \in Task /\ u \in Task /\ now \in Nat /\ now' \in Nat /\ now <= now'
      /\ born[i].at \in Nat /\ mem \in Index /\ HistoryRetention \in Nat \ {0}
      /\ t.finishedAt \in Nat /\ u.finishedAt \in Nat
  BY TaskFacts, RetentionAssumption DEF IInv, TypeOK, Index, Task, Time, Effect
<1>3. CASE Admitted(i)
  <2>1. /\ u.state = "running" /\ u.source = born'[i].source /\ born'[i].source \in Sources
    BY <1>3 DEF Admitted, Origins
  <2> QED
    BY <2>1 DEF Remembered, Terminal
<1>4. CASE born'[i] = born[i] /\ (u = t \/ Continues(t, u))
  <2>1. u.state # "absent" => /\ u.source = s /\ s \in Sources
                              /\ u.state \in Terminal => born[i].at <= u.finishedAt
    BY <1>1, <1>2, <1>4 DEF Remembered, Continues
  <2>2. ASSUME born[i].at # 0, now' < born[i].at + HistoryRetention, u.state = "absent"
        PROVE  born[i].at <= mem'.cleared[s]
    <3>1. t.state = "absent" /\ s \in Sources
      BY <1>1, <1>4, <2>2 DEF Continues
    <3>2. now < born[i].at + HistoryRetention
      BY <1>2, <2>2
    <3>3. born[i].at <= mem.cleared[s]
      BY <1>1, <2>2, <3>1, <3>2 DEF Remembered
    <3>4. mem.cleared[s] \in Nat
      BY <1>2, <3>1 DEF Index, Time
    <3>5. CASE mem'.cleared[s] = mem.cleared[s]
      BY <3>3, <3>5
    <3>6. CASE mem.cleared[s] + HistoryRetention <= now
      BY <1>2, <3>2, <3>3, <3>4, <3>6
    <3>7. ASSUME NEW k \in Ids, mem.task[k].state \in Terminal, mem.task[k].source = s PROVE FALSE
      <4>1. mem.cleared[s] = 0
        BY <3>7, KnownIsStored DEF Terminal
      <4> QED
        BY <1>2, <2>2, <3>3, <4>1
    <3> QED
      BY <3>1, <3>5, <3>6, <3>7 DEF Effect, MemoryMoves, ClearedMoves
  <2> HIDE DEF u, s
  <2> QED
    BY <1>4, <2>1, <2>2 DEF Remembered, u, s
<1>5. CASE born'[i] = born[i] /\ Goes(t, u)
  <2>1. t.source = s /\ born[i].at <= t.finishedAt /\ u.state = "absent"
    BY <1>1, <1>5 DEF Goes, Remembered, Terminal
  <2>2. CASE t.finishedAt + HistoryRetention <= now
    <3>1. ~ (now' < born[i].at + HistoryRetention)
      BY <1>2, <2>1, <2>2
    <3> QED
      BY <1>5, <2>1, <3>1 DEF Remembered
  <2>3. CASE mem'.cleared[t.source] = t.finishedAt
    BY <1>5, <2>1, <2>3 DEF Remembered
  <2> QED
    BY <1>5, <2>2, <2>3 DEF Goes
<1> QED
  BY <1>1, <1>3, <1>4, <1>5 DEF TaskMoves

LEMMA HistoryNext == IInv /\ Origins /\ History /\ Effect /\ TypeOK' => History'
<1> SUFFICES ASSUME IInv, Origins, History, Effect, TypeOK' PROVE History'
  OBVIOUS
<1>a. /\ now \in Nat /\ now # 0 /\ now' \in Nat /\ now <= now' /\ HistoryRetention \in Nat \ {0}
      /\ \A i \in Ids : born[i].at \in Nat
      /\ \A i \in Ids : born'[i].at \in Nat
      /\ db \in Database /\ db' \in Database /\ (mem \in Index)'
  BY RetentionAssumption DEF IInv, TypeOK, Time, Effect
<1>b. ASSUME Stored' = mem' PROVE db'.task = mem'.task /\ db'.cleared = mem'.cleared /\ db'.rejected = mem'.rejected
  BY <1>b DEF Stored
<1>c. ASSUME Stored' = Stored PROVE db'.task = db.task /\ db'.cleared = db.cleared /\ db'.rejected = db.rejected
  BY <1>c DEF Stored
<1>1. ValidIndex(Stored)'
  <2>1. CASE Stored' = Stored
    BY <2>1 DEF History, ValidIndex, Known
  <2>2. CASE Stored' = mem' /\ ValidIndex(mem')
    BY <2>2 DEF ValidIndex, Known
  <2> QED
    BY <2>1, <2>2 DEF Effect, DiskMoves
<1>2. up' => mem'.cleared = db'.cleared /\ mem'.rejected = db'.rejected
  <2>1. CASE Stored' = mem'
    BY <1>b, <2>1
  <2>2. CASE ~ up /\ mem' = Stored /\ Stored' = Stored
    BY <2>2 DEF Stored
  <2>3. CASE up /\ mem'.cleared = mem.cleared /\ mem'.rejected = mem.rejected /\ Stored' = Stored
    BY <1>c, <2>3 DEF History
  <2> QED
    BY <2>1, <2>2, <2>3 DEF Effect, MemoryMoves, DiskMoves
\* A request is drawn now, or as before.
<1>3. ASSUME NEW i \in Ids
      PROVE  \/ born'[i] = born[i]
             \/ /\ up /\ up' /\ Admitted(i) /\ Stored' = mem'
                /\ born'[i].at = now /\ born'[i].source \in Sources
  BY DEF Effect, MemoryMoves, TaskMoves, Admitted, Origins
<1>4. \A i \in Ids : born'[i].at <= now' /\ (born'[i].at # 0 <=> born'[i].source \in Sources)
  <2> SUFFICES ASSUME NEW i \in Ids
               PROVE  born'[i].at <= now' /\ (born'[i].at # 0 <=> born'[i].source \in Sources)
    OBVIOUS
  <2>1. CASE born'[i] = born[i]
    BY <1>a, <2>1 DEF History
  <2>2. CASE born'[i].at = now /\ born'[i].source \in Sources
    BY <1>a, <2>2
  <2> QED
    BY <1>3, <2>1, <2>2
<1>5. ASSUME up', NEW i \in Ids PROVE Remembered(mem, i)'
  <2>1. CASE ~ up
    <3>1. mem' = Stored /\ born' = born
      BY <1>5, <2>1 DEF Effect, MemoryMoves
    <3>2. Remembered(Stored, i)
      BY DEF History
    <3>3. now' < born[i].at + HistoryRetention => now < born[i].at + HistoryRetention
      BY <1>a
    <3> QED
      BY <3>1, <3>2, <3>3 DEF Remembered
  <2> QED
    BY <1>5, <2>1, MemoryRemembers
<1>6. ASSUME NEW i \in Ids PROVE Remembered(Stored, i)'
  <2>1. CASE up' /\ Stored' = mem'
    <3>1. Remembered(mem, i)'
      BY <1>5, <2>1
    <3> QED
      BY <2>1, <3>1 DEF Remembered
  <2>2. CASE Stored' = Stored /\ ~ (up' /\ Stored' = mem')
    <3>1. born'[i] = born[i]
      BY <1>3, <2>2
    <3>2. Remembered(Stored, i)
      BY DEF History
    <3>3. now' < born[i].at + HistoryRetention => now < born[i].at + HistoryRetention
      BY <1>a
    <3> QED
      BY <2>2, <3>1, <3>2, <3>3 DEF Remembered
  <2> QED
    BY <2>1, <2>2 DEF Effect, DiskMoves
\* A source under which a request or a refusal was just stored has no
\* request left within its history but that one.
<1>7. ASSUME Stored' = mem', up', now' = now, NEW i \in Ids, NEW s \in Sources, born'[i].source = s,
             \/ mem'.rejected[s] # 0
             \/ \E j \in Ids : j # i /\ mem'.task[j].state # "absent" /\ mem'.task[j].source = s
      PROVE  born'[i].at + HistoryRetention <= now
  <2>1. ValidIndex(mem')
    BY <1>1, <1>7 DEF ValidIndex, Known
  <2>2. Remembered(mem, i)' /\ born'[i].at # 0
    BY <1>4, <1>5, <1>7
  <2>3. i \in Known(mem') => mem'.task[i].source = s
    BY <1>7, <2>2 DEF Remembered, Known
  <2>4. i \notin Known(mem') /\ mem'.cleared[s] = 0
    <3>1. CASE mem'.rejected[s] # 0
      BY <1>7, <2>1, <2>3, <3>1 DEF ValidIndex
    <3>2. CASE \E j \in Ids : j # i /\ mem'.task[j].state # "absent" /\ mem'.task[j].source = s
      <4>1. PICK j \in Ids : j # i /\ j \in Known(mem') /\ mem'.task[j].source = s
        BY <3>2 DEF Known
      <4> QED
        BY <2>1, <2>3, <4>1 DEF ValidIndex
    <3> QED
      BY <1>7, <3>1, <3>2
  <2>5. mem'.task[i].state = "absent"
    BY <2>4 DEF Known
  <2>6. ~ (now' < born'[i].at + HistoryRetention)
    BY <1>7, <1>a, <2>2, <2>4, <2>5 DEF Remembered
  <2> QED
    BY <1>7, <1>a, <2>6
<1>8. ASSUME now' # now PROVE OneFatePerSource'
  <2>1. born' = born /\ db'.rejected = db.rejected
    BY <1>8, <1>c DEF Effect
  <2> QED
    BY <2>1 DEF History, OneFatePerSource
<1>9. ASSUME now' = now, NEW i \in Ids, NEW j \in Ids, i # j, born'[i].at # 0, born'[i].at <= born'[j].at,
             born'[i].source = born'[j].source
      PROVE  born'[j].at - born'[i].at >= HistoryRetention
  <2> DEFINE s == born'[i].source
  <2>1. s \in Sources
    BY <1>4, <1>9
  <2>2. ASSUME NEW k \in Ids, Admitted(k), born'[k].source = s
        PROVE  Stored' = mem' /\ born'[k].at = now /\ mem'.task[k].state # "absent" /\ mem'.task[k].source = s
    BY <2>2 DEF Admitted
  <2>3. CASE up' /\ Admitted(j)
    <3>1. born'[i].at + HistoryRetention <= now
      BY <1>7, <1>9, <2>1, <2>2, <2>3
    <3> QED
      BY <1>9, <1>a, <2>2, <2>3, <3>1
  <2>4. CASE up' /\ Admitted(i)
    <3>1. born'[j].at + HistoryRetention <= now
      BY <1>7, <1>9, <2>1, <2>2, <2>4
    <3> QED
      BY <1>9, <1>a, <2>2, <2>4, <3>1
  <2>5. CASE born'[i] = born[i] /\ born'[j] = born[j]
    BY <1>9, <2>5 DEF History, OneFatePerSource
  <2> QED
    BY <1>3, <2>3, <2>4, <2>5
<1>10. ASSUME now' = now, NEW i \in Ids, NEW s \in Sources, born'[i].source = s, db'.rejected[s] # 0
       PROVE  db'.rejected[s] - born'[i].at >= HistoryRetention
  <2>1. ASSUME born'[i] = born[i], db'.rejected[s] = db.rejected[s]
        PROVE  db'.rejected[s] - born'[i].at >= HistoryRetention
    BY <1>10, <2>1 DEF History, OneFatePerSource
  <2>2. CASE up' /\ Stored' = mem'
    <3>1. born'[i].at + HistoryRetention <= now
      BY <1>7, <1>10, <1>b, <2>2
    <3>2. born'[i] = born[i]
      BY <1>3, <1>a, <3>1
    <3>3. CASE ~ up
      <4>1. Stored' = Stored
        BY <2>2, <3>3 DEF Effect, MemoryMoves
      <4> QED
        BY <1>c, <2>1, <3>2, <4>1
    <3>4. CASE up
      <4>1. mem'.rejected[s] = mem.rejected[s] \/ mem'.rejected[s] = now
        BY <1>10, <1>b, <2>2, <3>4 DEF Effect, MemoryMoves, RejectedMoves
      <4>2. CASE mem'.rejected[s] = mem.rejected[s]
        BY <1>b, <2>1, <2>2, <3>2, <3>4, <4>2 DEF History
      <4>3. CASE mem'.rejected[s] = now
        BY <1>a, <1>b, <2>2, <3>1, <4>3
      <4> QED
        BY <4>1, <4>2, <4>3
    <3> QED
      BY <3>3, <3>4
  <2>3. CASE Stored' = Stored /\ ~ (up' /\ Stored' = mem')
    BY <1>3, <1>c, <2>1, <2>3
  <2> QED
    BY <2>2, <2>3 DEF Effect, DiskMoves
<1>11. OneFatePerSource'
  BY <1>8, <1>9, <1>10 DEF OneFatePerSource
<1> QED
  BY <1>1, <1>2, <1>4, <1>5, <1>6, <1>11 DEF History

-----------------------------------------------------------------------------
(* Results *)

LEMMA HistoryInit == Init => HInv
<1> SUFFICES ASSUME Init PROVE HInv
  OBVIOUS
<1>1. /\ \A i \in Ids : db.task[i] = NoTask /\ db.result[i] = NoResult
      /\ db.rejected = [s \in Sources |-> 0] /\ db.cleared = [s \in Sources |-> 0]
  BY DEF Init, Persist, EmptyIndex, Known, NoTask
<1>2. /\ ~ up /\ \A i \in Ids : born[i].at = 0 /\ born[i].source = None
      /\ \A i \in Ids, o \in AllOps : sends[i][o] = 0
  BY DEF Init
<1>3. Known(Stored) = {}
  BY <1>1 DEF Known, Stored, NoTask
<1>4. Cardinality({}) = 0
  BY FS_EmptySet
<1>5. ValidIndex(Stored)
  <2>1. \A s \in Sources : Stored.cleared[s] = 0
    BY <1>1 DEF Stored
  <2>2. Cardinality(Known(Stored)) <= MaxRecords
    BY <1>3, <1>4, BoundAssumption
  <2> QED
    BY <1>3, <2>1, <2>2 DEF ValidIndex
<1>6. Origins /\ Archived /\ SendsRecorded
  BY <1>1, <1>2 DEF Origins, Archived, SendsRecorded, NoTask, NoResult
<1>7. OneFatePerSource
  BY <1>1, <1>2 DEF OneFatePerSource
<1>8. \A i \in Ids : Remembered(Stored, i)
  BY <1>1, <1>2 DEF Remembered, Stored, NoTask
<1>9. now = 1 /\ None \notin Sources
  BY NameAssumption DEF Init
<1>10. History
  BY <1>2, <1>5, <1>7, <1>8, <1>9 DEF History
<1> QED
  BY <1>6, <1>10, InductiveInit DEF HInv

LEMMA HistoryStep == HInv /\ [Next]_vars => HInv'
<1> SUFFICES ASSUME HInv, [Next]_vars PROVE HInv'
  OBVIOUS
<1>1. IInv' /\ TypeOK'
  BY InductiveNext DEF HInv, IInv
<1>2. Effect /\ StepOK
  BY EffectNext, StepNext DEF HInv
<1> QED
  BY <1>1, <1>2, ArchivedNext, SendsNext, OriginsNext, HistoryNext DEF HInv

\* For all constants, each delivery operation of each request starts at most
\* one send, whatever crashes, startups and cleanups come between: the state
\* of the request (BeginDelivery) or the attempt (BeginRedelivery) is on disk
\* first, and neither can be undone while the result can still be sent.
THEOREM SendsOnce == Spec => []SentAtMostOnce
<1>1. HInv => SentAtMostOnce
  <2> SUFFICES ASSUME HInv, NEW i \in Ids, NEW o \in AllOps PROVE sends[i][o] <= 1
    BY DEF SentAtMostOnce
  <2>1. sends[i][o] \in Nat
    BY DEF HInv, IInv, TypeOK
  <2> QED
    BY <2>1 DEF HInv, SendsRecorded
<1> QED
  BY <1>1, HistoryInit, HistoryStep, PTL DEF Spec

\* For all constants, the origin of a retry is work that surely did not
\* finish: what Retry saw of it when it took the mutex still holds when the
\* new request is recorded and ever after, until the origin is forgotten.
THEOREM RetriesUnfinished == Spec => []RetryOnlyUnfinished
<1>1. HInv => RetryOnlyUnfinished
  BY DEF HInv, Origins, Origin, RetryOnlyUnfinished, Retryable
<1> QED
  BY <1>1, HistoryInit, HistoryStep, PTL DEF Spec

\* For all constants, a source is executed or refused at most once within
\* the time its history is kept: either its row or its receipt survives every
\* Release, cleanup, failed save, crash and startup until then.
THEOREM SourcesOnce == Spec => []OneFatePerSource
<1>1. HInv => OneFatePerSource
  BY DEF HInv, History
<1> QED
  BY <1>1, HistoryInit, HistoryStep, PTL DEF Spec

-----------------------------------------------------------------------------
(* Restarts: the inductive invariant *)

\* Request i, with row t, has its input while the payload is kept, and its
\* frozen result once it is archived, until that result expires.
Kept(t, i) ==
    /\ t.state # "absent" /\ HasPayload(t) => i \in dirs /\ db.input[i] # "none"
    /\ t.state # "absent" /\ t.completedAt # 0 /\ ~ t.archiveFailed =>
          db.result[i].frozenAt # 0 \/ (t.state \in Terminal /\ ResultExpired(t))

Payloads == \A i \in Ids : Kept(db.task[i], i) /\ (up => Kept(mem.task[i], i))

\* Registered files of an active request go only when the result has expired.
Outputs ==
    \A i \in Ids \ Damageable :
        /\ db.task[i].state \in Active /\ i \notin outputs
        /\ db.result[i].frozenAt # 0 /\ db.result[i].files
        => db.result[i].frozenAt + ResultRetention <= now

\* What startup has decided of a request with a frozen result.
Decided ==
    up => \A i \in Ids : /\ db.task[i].state \in Active /\ mem.task[i].state \in Terminal
                         /\ db.result[i].frozenAt # 0
                         => mem.task[i].completedAt = db.result[i].frozenAt

\* The directory of a request about to be recorded is there; the one about
\* to be removed belongs to no request any more.
LockHolds ==
    /\ lock.step = "commit" => lock.id \in dirs
    /\ lock.step = "remove" => db.task[lock.id].state = "absent"

\* A startup has settled the requests it has been through.
Settling ==
    up /\ lock.op = "boot" =>
        \A i \in Ids : /\ lock.step = "recover" => i \notin lock.todo
                       /\ mem.task[i].state # "absent"
                       /\ db.result[i].frozenAt # 0 /\ ~ ResultExpired(mem.task[i])
                       => db.result[i].receipt # "pending"

RInv == HInv /\ Payloads /\ Outputs /\ Decided /\ LockHolds /\ Settling

-----------------------------------------------------------------------------
(* What a step may do to rows and files *)

\* Directories go with their request; so do inputs, but for expired ones.
DirMoves(i) ==
    i \in dirs /\ i \notin dirs' =>
        db'.task = db.task /\ (db.task[i].state = "absent" \/ HistoryExpired(db.task[i]))

InputMoves(i) ==
    db.input[i] # "none" /\ db'.input[i] = "none" =>
        db'.task[i].state = "absent" \/ PayloadExpired(db.task[i])

\* Registered files go with the request, or by what memory says of it.
OutputMoves(i) ==
    i \in outputs /\ i \notin outputs' =>
        \/ i \in Damageable \/ db.task[i].state = "absent"
        \/ up /\ db' = db /\ mem.task[i].state \in Terminal /\ ResultExpired(mem.task[i])

\* A result is frozen with its files and goes with its request or expired.
FrozenMoves(i) ==
    LET r == db.result[i]
        q == db'.result[i] IN
    /\ r.frozenAt = 0 /\ q.frozenAt # 0 /\ q.files => i \in outputs'
    /\ r.frozenAt # 0 /\ q.frozenAt # 0 => q.frozenAt = r.frozenAt /\ q.files = r.files
    /\ r.frozenAt # 0 /\ q.frozenAt = 0 =>
          db'.task[i].state = "absent" \/ (db.task[i].state \in Terminal /\ ResultExpired(db.task[i]))

\* A request that is recorded has its directory and its input.
BirthMoves(i) == born'[i] # born[i] => i \in dirs' /\ db'.input[i] # "none"

FileEffect ==
    \A i \in Ids : DirMoves(i) /\ InputMoves(i) /\ OutputMoves(i) /\ FrozenMoves(i) /\ BirthMoves(i)

-----------------------------------------------------------------------------
(* Every step has one of these effects *)

\* A step that removes no file, request by request.
LEMMA FilesKept ==
    ASSUME dirs \subseteq dirs', outputs \subseteq outputs', born' = born,
           \A i \in Ids : InputMoves(i) /\ FrozenMoves(i)
    PROVE  FileEffect
BY DEF FileEffect, DirMoves, OutputMoves, BirthMoves

\* A step that touches neither rows of inputs and results nor files.
LEMMA IdleFiles ==
    ASSUME dirs \subseteq dirs', outputs \subseteq outputs', born' = born, db' = db
    PROVE  FileEffect
BY FilesKept DEF InputMoves, FrozenMoves

\* The rows beside a request that is saved.
LEMMA SavedRows ==
    ASSUME NEW m, NEW d, Save(m, d), NEW i \in Ids
    PROVE  /\ db'.task = m.task
           /\ db'.input[i] = IF m.task[i].state # "absent" THEN d.input[i] ELSE "none"
           /\ db'.result[i] = IF m.task[i].state # "absent" THEN d.result[i] ELSE NoResult
BY DEF Save, Persist, Known

\* A save that changes no input, no result and no file.
LEMMA SaveFiles ==
    ASSUME NEW m, NEW d, Save(m, d), dirs' = dirs, outputs' = outputs, born' = born,
           \A i \in Ids : /\ db.input[i] # "none" => d.input[i] # "none"
                          /\ d.result[i].frozenAt = db.result[i].frozenAt
                          /\ d.result[i].files = db.result[i].files
    PROVE  FileEffect
<1>1. ASSUME NEW i \in Ids PROVE InputMoves(i) /\ FrozenMoves(i)
  BY SavedRows DEF InputMoves, FrozenMoves, NoResult
<1> QED
  BY <1>1, FilesKept

\* Writing a receipt changes no input and no file of a result.
LEMMA ReceiptFiles ==
    ASSUME NEW d \in Database, NEW i \in Ids, NEW o, NEW x, NEW a, NEW j \in Ids
    PROVE  /\ Receipted(d, i, o, x, a).input = d.input
           /\ Receipted(d, i, o, x, a).result[j].frozenAt = d.result[j].frozenAt
           /\ Receipted(d, i, o, x, a).result[j].files = d.result[j].files
<1>1. d.result \in [Ids -> Result]
  BY DEF Database
<1> DEFINE r1 == [d.result[i] EXCEPT !.receipt = x]
           r2 == [r1 EXCEPT !.attempts = [@ EXCEPT ![o] = a]]
<1>2. /\ Receipted(d, i, o, x, a).result = [[d.result EXCEPT ![i] = r1] EXCEPT ![i] = r2]
      /\ Receipted(d, i, o, x, a).input = d.input
  BY <1>1 DEF Receipted, Database
<1>3. r2.frozenAt = d.result[i].frozenAt /\ r2.files = d.result[i].files
  BY <1>1 DEF Result
<1> HIDE DEF r1, r2
<1> QED
  BY <1>1, <1>2, <1>3

LEMMA FileEffectNext == IInv /\ LockHolds /\ [Next]_vars => FileEffect
<1> SUFFICES ASSUME IInv, LockHolds, [Next]_vars PROVE FileEffect
  OBVIOUS
<1>a. mem \in Index /\ db \in Database /\ now \in Time /\ now # 0
  BY DEF IInv, TypeOK
<1>b. ASSUME NEW m, Save(m, db), UNCHANGED <<dirs, outputs, born>> PROVE FileEffect
  BY <1>b, SaveFiles
<1>c. ASSUME NEW i \in Ids, NEW t, Update(i, t, db), UNCHANGED <<dirs, outputs, born>> PROVE FileEffect
  BY <1>b, <1>c DEF Update
\* Memory and disk know the same requests.
<1>d. ASSUME NEW i \in Ids, up, mem.task[i].state = "absent" PROVE db.task[i].state = "absent"
  BY <1>d DEF IInv, MemoryFollowsDisk, Unsaved, Recovering, Active, Terminal
\* Admission
<1>1. ASSUME NEW s \in Sources, NEW g \in Targets, NEW t \in Threads \cup {None}, NEW p \in Pendings,
             Start(s, g, t, p)
      PROVE  FileEffect
  BY <1>1, IdleFiles DEF Start
<1>2. ASSUME NEW o \in Ids, NEW s \in Sources, Retry(o, s) PROVE FileEffect
  BY <1>2, IdleFiles DEF Retry
<1>3. CASE AdmitRefused
  BY <1>3, IdleFiles DEF AdmitRefused
<1>4. CASE AdmitBusy
  BY <1>4, <1>b DEF AdmitBusy
<1>5. CASE StartCommit
  <2> DEFINE i == lock.id
             r == lock.request
             x == [NoTask EXCEPT !.source = r.source, !.target = r.target, !.thread = r.thread,
                                 !.state = "running", !.pending = r.pending, !.retryOf = r.retryOf]
             m == [mem EXCEPT !.task[i] = x]
             d == [db EXCEPT !.input[i] = IF r.pending THEN "raw" ELSE "ready"]
  <2>1. /\ i \in Ids /\ i \in dirs /\ dirs' = dirs /\ outputs' = outputs
        /\ born' = [born EXCEPT ![i] = [source |-> r.source, at |-> now]] /\ DOMAIN born = Ids
        /\ Save(m, d)
    BY <1>5 DEF StartCommit, IInv, LockAgrees, LockHolds, TypeOK
  <2>2. x.state = "running"
    BY DEF NoTask
  <2> HIDE DEF x
  <2>3. m.task[i].state = "running"
    BY <1>a, <2>1, <2>2 DEF Index
  <2>4. /\ d.result = db.result /\ d.input[i] # "none"
        /\ \A j \in Ids : db.input[j] # "none" => d.input[j] # "none"
    BY <1>a, <2>1 DEF Database
  <2> HIDE DEF m, d, i
  <2>5. ASSUME NEW j \in Ids PROVE InputMoves(j) /\ FrozenMoves(j)
    BY <2>1, <2>4, SavedRows DEF InputMoves, FrozenMoves, NoResult
  <2>6. ASSUME NEW j \in Ids PROVE BirthMoves(j)
    <3>1. CASE j = i
      BY <2>1, <2>3, <2>4, <3>1, SavedRows DEF BirthMoves
    <3>2. CASE j # i
      BY <2>1, <3>2 DEF BirthMoves
    <3> QED
      BY <3>1, <3>2
  <2> QED
    BY <2>1, <2>5, <2>6 DEF FileEffect, DirMoves, OutputMoves
<1>6. ASSUME NEW i \in Ids, AdmitStage(i) PROVE FileEffect
  BY <1>6, IdleFiles DEF AdmitStage
\* Cleanup
<1>7. CASE CleanupExpired
  BY <1>7, IdleFiles DEF CleanupExpired
<1>8. CASE CleanRows
  <2>1. db' = ExpireRows(db) /\ UNCHANGED <<dirs, outputs, born>>
    BY <1>8 DEF CleanRows
  <2>2. ASSUME NEW i \in Ids
        PROVE  /\ db'.input[i] = IF PayloadExpired(db.task[i]) THEN "none" ELSE db.input[i]
               /\ db'.result[i] = IF db.task[i].state \in Terminal /\ ResultExpired(db.task[i])
                                  THEN NoResult ELSE db.result[i]
    BY <1>a, <2>1 DEF ExpireRows, Database
  <2>3. ASSUME NEW i \in Ids PROVE InputMoves(i) /\ FrozenMoves(i)
    BY <2>2 DEF InputMoves, FrozenMoves, NoResult
  <2> QED
    BY <2>1, <2>3, FilesKept
<1>9. CASE CleanReceipts
  <2>1. \/ db' = db
        \/ Save([mem EXCEPT !.rejected = DropOld(mem.rejected), !.cleared = DropOld(mem.cleared)], db)
    BY <1>9 DEF CleanReceipts
  <2> QED
    BY <1>9, <1>b, <2>1, IdleFiles DEF CleanReceipts
<1>10. CASE CleanFiles
  <2>1. /\ up /\ db' = db /\ born' = born /\ dirs' = dirs \ Outdated(mem)
        /\ outputs' = outputs \ {i \in Known(mem) :
                           mem.task[i].state \in Terminal /\ ResultExpired(mem.task[i])}
    BY <1>10 DEF CleanFiles
  <2>2. ASSUME NEW i \in Ids, i \in Outdated(mem) PROVE HistoryExpired(db.task[i])
    <3>1. mem.task[i].state \in Terminal /\ mem.task[i].finishedAt + HistoryRetention <= now
      BY <2>2 DEF Outdated, HistoryExpired
    <3>2. ~ Recovering(i)
      BY <1>a, <3>1, RetentionAssumption DEF Recovering, Time
    <3>3. mem.task[i] = db.task[i]
      BY <2>1, <3>1, <3>2 DEF IInv, MemoryFollowsDisk, Unsaved, Terminal
    <3> QED
      BY <3>1, <3>3 DEF HistoryExpired
  <2>3. ASSUME NEW i \in Ids PROVE InputMoves(i) /\ FrozenMoves(i) /\ BirthMoves(i)
    BY <2>1 DEF InputMoves, FrozenMoves, BirthMoves
  <2>4. ASSUME NEW i \in Ids PROVE DirMoves(i) /\ OutputMoves(i)
    BY <2>1, <2>2 DEF DirMoves, OutputMoves
  <2> QED
    BY <2>3, <2>4 DEF FileEffect
<1>11. CASE CleanHistory
  BY <1>11, <1>b, IdleFiles DEF CleanHistory
\* Operations on a request
<1>12. ASSUME NEW i \in Ids, Touch(i) PROVE FileEffect
  BY <1>12, <1>b DEF Touch
<1>13. ASSUME NEW i \in Ids, AttachInput(i) PROVE FileEffect
  <2> DEFINE d == [db EXCEPT !.input[i] = "ready"]
  <2>1. \E m : Save(m, d)
    BY <1>13 DEF AttachInput, Update
  <2>2. /\ d.result = db.result
        /\ \A j \in Ids : db.input[j] # "none" => d.input[j] # "none"
    BY <1>a DEF Database
  <2> HIDE DEF d
  <2> QED
    BY <1>13, <2>1, <2>2, SaveFiles DEF AttachInput
<1>14. ASSUME NEW i \in Ids, NEW t \in Threads, AttachThread(i, t) PROVE FileEffect
  BY <1>14, <1>c DEF AttachThread
<1>15. ASSUME NEW i \in Ids, NEW u \in Turns, AttachTurn(i, u) PROVE FileEffect
  BY <1>15, <1>c DEF AttachTurn
<1>16. ASSUME NEW i \in Ids, NEW reply \in 0 .. MaxReplyBytes,
              CompleteExecution(i, reply) \/ CompleteExecutionUnsaved(i, reply)
       PROVE  FileEffect
  <2> DEFINE d == [db EXCEPT !.completion[i] = [at |-> now, reply |-> reply]]
  <2>1. CASE CompleteExecution(i, reply)
    <3>1. \E m : Save(m, d)
      BY <2>1 DEF CompleteExecution, Update
    <3>2. d.result = db.result /\ d.input = db.input
      BY <1>a DEF Database
    <3> HIDE DEF d
    <3> QED
      BY <2>1, <3>1, <3>2, SaveFiles DEF CompleteExecution
  <2>2. CASE CompleteExecutionUnsaved(i, reply)
    BY <2>2, IdleFiles DEF CompleteExecutionUnsaved
  <2> QED
    BY <1>16, <2>1, <2>2
<1>17. ASSUME NEW i \in Ids, NEW size \in Bytes \ {0}, NEW files \in BOOLEAN,
              FreezeResult(i, size, files)
       PROVE  FileEffect
  <2> DEFINE r == [NoResult EXCEPT !.frozenAt = now, !.size = size, !.files = files]
             d == [db EXCEPT !.result[i] = r, !.completion[i] = NoCompletion]
  <2>1. /\ UNCHANGED <<dirs, born>> /\ \E m : Save(m, d)
        /\ outputs' = IF files THEN outputs \cup {i} ELSE outputs
        /\ db.result[i].frozenAt = 0
    BY <1>17 DEF FreezeResult, Update
  <2>2. r.files = files /\ NoResult.frozenAt = 0
    BY DEF NoResult
  <2>5. outputs \subseteq outputs' /\ (files => i \in outputs')
    BY <2>1
  <2> HIDE DEF r
  <2>3. /\ d.input = db.input
        /\ \A j \in Ids : d.result[j] = IF j = i THEN r ELSE db.result[j]
    BY <1>a DEF Database
  <2> HIDE DEF d
  <2>4. ASSUME NEW j \in Ids PROVE InputMoves(j) /\ FrozenMoves(j)
    <3>1. PICK m : Save(m, d)
      BY <2>1
    <3>2. /\ db'.task = m.task
          /\ db'.input[j] = IF m.task[j].state # "absent" THEN d.input[j] ELSE "none"
          /\ db'.result[j] = IF m.task[j].state # "absent" THEN d.result[j] ELSE NoResult
      BY <3>1, SavedRows
    <3>3. CASE j = i
      <4>1. db'.result[i] = r \/ (db'.result[i] = NoResult /\ db'.task[i].state = "absent")
        BY <2>3, <3>2, <3>3
      <4>2. FrozenMoves(i)
        BY <2>1, <2>2, <2>5, <4>1 DEF FrozenMoves
      <4> QED
        BY <2>3, <3>2, <3>3, <4>2 DEF InputMoves
    <3>4. CASE j # i
      <4>1. db'.result[j] = db.result[j] \/ (db'.result[j] = NoResult /\ db'.task[j].state = "absent")
        BY <2>3, <3>2, <3>4
      <4> QED
        BY <2>2, <2>3, <3>2, <4>1 DEF InputMoves, FrozenMoves
    <3> QED
      BY <3>3, <3>4
  <2> QED
    BY <2>1, <2>4, <2>5, FilesKept
<1>18. ASSUME NEW i \in Ids, BeginDelivery(i) PROVE FileEffect
  BY <1>18, <1>c DEF BeginDelivery, Transition
<1>19. ASSUME NEW i \in Ids, NEW next \in Terminal, NEW u \in BOOLEAN, Finish(i, next, u)
       PROVE  FileEffect
  BY <1>19, <1>c DEF Finish, Transition
<1>20. ASSUME NEW i \in Ids, NEW outcome \in SendOutcomes, CompleteDelivery(i, outcome)
       PROVE  FileEffect
  <2> DEFINE a == IF \A o \in AllOps : db.result[i].attempts[o] = "none" THEN outcome
                  ELSE db.result[i].attempts[None]
             d == Receipted(db, i, None, outcome, a)
  <2>1. Transition(i, "succeeded", FALSE, d) /\ UNCHANGED <<dirs, outputs, born>>
    BY <1>20 DEF CompleteDelivery, Receipted
  <2> HIDE DEF a
  <2>2. \A j \in Ids : /\ d.input = db.input /\ d.result[j].frozenAt = db.result[j].frozenAt
                       /\ d.result[j].files = db.result[j].files
    BY <1>a, ReceiptFiles
  <2> HIDE DEF d
  <2>3. \E m : Save(m, d)
    BY <2>1 DEF Transition, Update
  <2> QED
    BY <2>1, <2>2, <2>3, SaveFiles
\* A receipt or an attempt written beside the index.
<1>r. ASSUME NEW i \in Ids, NEW o, NEW x, db' = Receipted(db, i, o, x, x),
             UNCHANGED <<dirs, outputs, born>>
      PROVE  FileEffect
  <2>1. \A j \in Ids : /\ db'.input = db.input /\ db'.result[j].frozenAt = db.result[j].frozenAt
                       /\ db'.result[j].files = db.result[j].files
    BY <1>a, <1>r, ReceiptFiles
  <2>2. ASSUME NEW j \in Ids PROVE InputMoves(j) /\ FrozenMoves(j)
    BY <2>1 DEF InputMoves, FrozenMoves
  <2> QED
    BY <1>r, <2>2, FilesKept
<1>21. ASSUME NEW i \in Ids, NEW o \in Ops, BeginRedelivery(i, o) PROVE FileEffect
  BY <1>r, <1>21 DEF BeginRedelivery, Receipted
<1>22. ASSUME NEW i \in Ids, NEW o \in Ops, NEW outcome \in SendOutcomes, RecordDelivery(i, o, outcome)
       PROVE  FileEffect
  BY <1>r, <1>22 DEF RecordDelivery, Receipted
<1>23. ASSUME NEW i \in Ids, Release(i) PROVE FileEffect
  BY <1>23, <1>b DEF Release
\* A directory and files that no request owns any more.
<1>o. ASSUME NEW S, \A i \in S : db.task[i].state = "absent", db' = db, born' = born,
             dirs \ S \subseteq dirs', outputs \ S \subseteq outputs'
      PROVE  FileEffect
  BY <1>o DEF FileEffect, DirMoves, InputMoves, OutputMoves, FrozenMoves, BirthMoves
<1>24. CASE ReleaseFiles
  <2> DEFINE S == {lock.id}
  <2>1. \A i \in S : db.task[i].state = "absent"
    BY <1>24 DEF ReleaseFiles, LockHolds
  <2>2. /\ db' = db /\ born' = born
        /\ dirs \ S \subseteq dirs' /\ outputs \ S \subseteq outputs'
    BY <1>24 DEF ReleaseFiles
  <2> HIDE DEF S
  <2> QED
    BY <1>o, <2>1, <2>2
<1>25. ASSUME NEW s \in Sources, Reject(s) PROVE FileEffect
  BY <1>25, <1>b DEF Reject
\* Crash and startup
<1>26. CASE Crash
  BY <1>26, IdleFiles DEF Crash
<1>27. CASE StepFails
  <2>1. CASE lock.step = "commit"
    <3> DEFINE S == {lock.id}
    <3>1. \A i \in S : db.task[i].state = "absent"
      BY <2>1 DEF IInv, LockAgrees, RowsAgree, RowOK
    <3>2. /\ db' = db /\ born' = born
          /\ dirs \ S \subseteq dirs' /\ outputs \ S \subseteq outputs'
      BY <1>27, <2>1 DEF StepFails
    <3> HIDE DEF S
    <3> QED
      BY <1>o, <3>1, <3>2
  <2>2. CASE lock.step # "commit"
    BY <1>27, <2>2, IdleFiles DEF StepFails
  <2> QED
    BY <2>1, <2>2
<1>28. CASE Boot
  BY <1>28, IdleFiles DEF Boot
<1>29. CASE SweepOrphans
  <2>1. \A i \in Ids \ Known(mem) : db.task[i].state = "absent"
    BY <1>29, <1>d DEF SweepOrphans, Known
  <2>2. dirs \ (Ids \ Known(mem)) \subseteq dirs' /\ outputs \ (Ids \ Known(mem)) \subseteq outputs'
    BY <1>29 DEF SweepOrphans, IInv, TypeOK
  <2> QED
    BY <1>29, <1>o, <2>1, <2>2 DEF SweepOrphans
<1>30. CASE BootSave
  BY <1>30, <1>b DEF BootSave
<1>31. ASSUME NEW i \in Ids, RecoverTask(i) PROVE FileEffect
  <2> DEFINE r == db.result[i]
             q == Settled(mem.task[i], i)
  <2>1. r \in Result
    BY <1>a DEF Database
  <2>2. q.frozenAt = r.frozenAt /\ q.files = r.files
    BY <2>1 DEF Settled, Result
  <2>3. db' = [db EXCEPT !.result[i] = q] /\ UNCHANGED <<dirs, outputs, born>>
    BY <1>31 DEF RecoverTask
  <2> HIDE DEF q
  <2>4. db'.input = db.input /\ \A j \in Ids : db'.result[j] = IF j = i THEN q ELSE db.result[j]
    BY <1>a, <2>3 DEF Database
  <2>5. ASSUME NEW j \in Ids PROVE InputMoves(j) /\ FrozenMoves(j)
    BY <2>2, <2>4 DEF InputMoves, FrozenMoves
  <2> QED
    BY <2>3, <2>5, FilesKept
<1>32. ASSUME NEW i \in Ids, Damage(i) PROVE FileEffect
  BY <1>32 DEF Damage, FileEffect, DirMoves, InputMoves, OutputMoves, FrozenMoves, BirthMoves
<1>33. CASE Tick
  BY <1>33, IdleFiles DEF Tick
<1>34. CASE UNCHANGED vars
  BY <1>34, IdleFiles DEF vars
<1> QED
  BY <1>1, <1>2, <1>3, <1>4, <1>5, <1>6, <1>7, <1>8, <1>9, <1>10, <1>11, <1>12, <1>13, <1>14,
     <1>15, <1>16, <1>17, <1>18, <1>19, <1>20, <1>21, <1>22, <1>23, <1>24, <1>25, <1>26, <1>27,
     <1>28, <1>29, <1>30, <1>31, <1>32, <1>33, <1>34 DEF Next

-----------------------------------------------------------------------------
(* Inputs and results are there as long as they are wanted *)

\* The clock never runs back, and what the disk knows to be ended or gone,
\* memory knows too.
LEMMA StepFacts ==
    ASSUME IInv, IInv', Effect, NEW i \in Ids
    PROVE  /\ now \in Nat /\ now' \in Nat /\ now <= now'
           /\ db.task[i] \in Task /\ mem.task[i] \in Task /\ db'.task[i] \in Task /\ mem'.task[i] \in Task
           /\ db'.task[i].state \notin Active /\ up' => mem'.task[i] = db'.task[i]
<1>1. TypeOK /\ TypeOK' /\ MemoryFollowsDisk'
  BY DEF IInv
<1>2. db.task[i] \in Task /\ mem.task[i] \in Task /\ db'.task[i] \in Task /\ mem'.task[i] \in Task
  BY <1>1 DEF TypeOK, Database, Index
<1>3. now \in Nat /\ now' \in Nat /\ now <= now'
  BY <1>1 DEF TypeOK, Time, Effect
<1>4. db'.task[i].state \notin Active /\ up' => mem'.task[i] = db'.task[i]
  BY <1>1 DEF MemoryFollowsDisk, Unsaved, Recovering, Active
<1> QED
  BY <1>2, <1>3, <1>4

\* An ended request stays on disk as it ended, or goes.
LEMMA EndedStays ==
    ASSUME IInv, Effect, NEW i \in Ids, db.task[i].state \in Terminal
    PROVE  \/ db'.task[i].state = "absent"
           \/ /\ db'.task[i].state \in Terminal /\ db'.task[i].finishedAt = db.task[i].finishedAt
              /\ Final(db.task[i]) => db'.task[i].completedAt = db.task[i].completedAt
<1>1. CASE db'.task[i] = db.task[i]
  BY <1>1
<1>2. CASE db'.task[i] = mem'.task[i] /\ up'
  <2>1. CASE ~ up
    BY <1>2, <2>1 DEF Effect, MemoryMoves, Stored
  <2>2. CASE up
    <3>1. mem.task[i] = db.task[i] /\ mem.task[i].state # "absent"
      BY <2>2 DEF IInv, MemoryFollowsDisk, Unsaved, Recovering, Active, Terminal
    <3>2. TaskMoves(i)
      BY <1>2, <2>2 DEF Effect, MemoryMoves
    <3> QED
      BY <1>2, <3>1, <3>2 DEF TaskMoves, Continues, Goes, Admitted
  <2> QED
    BY <2>1, <2>2
<1> QED
  BY <1>1, <1>2, DiskTasks

\* An input that is lost was of a request that is gone or no longer needs it.
LEMMA InputLost ==
    ASSUME IInv, IInv', Effect, FileEffect, NEW i \in Ids,
           i \in dirs, db.input[i] # "none", i \notin dirs' \/ db'.input[i] = "none"
    PROVE  \/ db'.task[i].state = "absent"
           \/ /\ db'.task[i].state \in Terminal
              /\ db'.task[i].finishedAt + PayloadRetention <= now'
<1>1. /\ now \in Nat /\ now' \in Nat /\ now <= now' /\ db.task[i].finishedAt \in Nat
      /\ PayloadRetention \in Nat /\ HistoryRetention \in Nat /\ PayloadRetention <= HistoryRetention
  BY StepFacts, RetentionAssumption DEF Task, Time
<1>2. DirMoves(i) /\ InputMoves(i)
  BY DEF FileEffect
<1>3. CASE i \notin dirs'
  <2>1. db'.task = db.task /\ (db.task[i].state = "absent" \/ HistoryExpired(db.task[i]))
    BY <1>2, <1>3 DEF DirMoves
  <2> QED
    BY <1>1, <2>1 DEF HistoryExpired
<1>4. CASE db'.input[i] = "none"
  <2>1. db'.task[i].state = "absent" \/ PayloadExpired(db.task[i])
    BY <1>2, <1>4 DEF InputMoves
  <2> QED
    BY <1>1, <2>1, EndedStays DEF PayloadExpired
<1> QED
  BY <1>3, <1>4

\* A result that is lost was of a request that is gone, or had expired.
LEMMA ResultLost ==
    ASSUME IInv, IInv', Effect, FileEffect, Archived, NEW i \in Ids,
           db.result[i].frozenAt # 0, db'.result[i].frozenAt = 0
    PROVE  \/ db'.task[i].state = "absent"
           \/ /\ db'.task[i].state \in Terminal
              /\ db'.task[i].completedAt = 0 \/ db'.task[i].completedAt + ResultRetention <= now'
<1>1. /\ now \in Nat /\ now' \in Nat /\ now <= now' /\ db.task[i].completedAt \in Nat
      /\ ResultRetention \in Nat
  BY StepFacts, RetentionAssumption DEF Task, Time
<1>2. CASE db.task[i].state \in Terminal /\ ResultExpired(db.task[i])
  <2>1. Final(db.task[i])
    BY <1>2 DEF Archived, Final
  <2> QED
    BY <1>1, <1>2, <2>1, EndedStays DEF ResultExpired
<1> QED
  BY <1>2 DEF FileEffect, FrozenMoves

\* Kept, after the step.
KeptAfter(u, i) ==
    /\ /\ u.state # "absent"
       /\ u.state \in Active \/ ~ (u.state \in Terminal /\ u.finishedAt + PayloadRetention <= now')
       => i \in dirs' /\ db'.input[i] # "none"
    /\ u.state # "absent" /\ u.completedAt # 0 /\ ~ u.archiveFailed =>
          \/ db'.result[i].frozenAt # 0
          \/ /\ u.state \in Terminal
             /\ u.completedAt = 0 \/ u.completedAt + ResultRetention <= now'

LEMMA KeptNext ==
    ASSUME IInv, IInv', Effect, FileEffect, Archived, NEW i \in Ids, NEW t \in Task, NEW u \in Task,
           Kept(t, i), t = u \/ Continues(t, u), ArchiveMoves(db'.result[i], t, u),
           u = db'.task[i] \/ (up' /\ u = mem'.task[i])
    PROVE  KeptAfter(u, i)
<1>1. /\ now \in Nat /\ now' \in Nat /\ now <= now'
      /\ t.finishedAt \in Nat /\ t.completedAt \in Nat
      /\ PayloadRetention \in Nat /\ ResultRetention \in Nat
  BY StepFacts, RetentionAssumption DEF Task, Time
<1>2. db'.task[i].state \notin Active => u = db'.task[i]
  BY StepFacts
<1>3. u.state # "absent" => t.state # "absent"
  BY DEF Continues
<1>t. Active \cap Terminal = {} /\ "absent" \notin Active \cup Terminal
  BY DEF Active, Terminal
<1>4. ASSUME u.state # "absent",
             u.state \in Active \/ ~ (u.state \in Terminal /\ u.finishedAt + PayloadRetention <= now')
      PROVE  i \in dirs' /\ db'.input[i] # "none"
  <2>1. HasPayload(t)
    BY <1>1, <1>3, <1>4, <1>t DEF Continues, HasPayload, PayloadExpired
  <2>2. i \in dirs /\ db.input[i] # "none"
    BY <1>3, <1>4, <2>1 DEF Kept
  <2>3. ASSUME i \notin dirs' \/ db'.input[i] = "none" PROVE FALSE
    <3>1. \/ db'.task[i].state = "absent"
          \/ /\ db'.task[i].state \in Terminal
             /\ db'.task[i].finishedAt + PayloadRetention <= now'
      BY <2>2, <2>3, InputLost
    <3> QED
      BY <1>2, <1>4, <1>t, <3>1
  <2> QED
    BY <2>3
<1>5. ASSUME u.state # "absent", u.completedAt # 0, ~ u.archiveFailed, db'.result[i].frozenAt = 0
      PROVE  u.state \in Terminal /\ (u.completedAt = 0 \/ u.completedAt + ResultRetention <= now')
  <2>1. t.state # "absent" /\ t.completedAt # 0 /\ ~ t.archiveFailed
    BY <1>3, <1>5 DEF ArchiveMoves
  <2>2. CASE db.result[i].frozenAt # 0
    <3>1. \/ db'.task[i].state = "absent"
          \/ /\ db'.task[i].state \in Terminal
             /\ db'.task[i].completedAt = 0 \/ db'.task[i].completedAt + ResultRetention <= now'
      BY <1>5, <2>2, ResultLost
    <3> QED
      BY <1>2, <1>5, <1>t, <3>1
  <2>3. CASE t.state \in Terminal /\ ResultExpired(t)
    <3>1. Final(t)
      BY <2>1, <2>3 DEF Final
    <3>2. u.state \in Terminal /\ u.completedAt = t.completedAt
      BY <2>3, <3>1 DEF Continues
    <3> QED
      BY <1>1, <2>3, <3>2 DEF ResultExpired
  <2> QED
    BY <2>1, <2>2, <2>3 DEF Kept
<1> QED
  BY <1>4, <1>5 DEF KeptAfter

LEMMA PayloadsNext ==
    IInv /\ IInv' /\ Archived /\ Payloads /\ Effect /\ FileEffect => Payloads'
<1> SUFFICES ASSUME IInv, IInv', Archived, Payloads, Effect, FileEffect, NEW i \in Ids
             PROVE  KeptAfter(db'.task[i], i) /\ (up' => KeptAfter(mem'.task[i], i))
  BY DEF Payloads, KeptAfter, Kept, HasPayload, PayloadExpired, ResultExpired
<1>1. db.task[i] \in Task /\ mem.task[i] \in Task /\ db'.task[i] \in Task /\ mem'.task[i] \in Task
  BY StepFacts
<1>2. Kept(db.task[i], i) /\ (up => Kept(mem.task[i], i))
  BY DEF Payloads
<1>3. ASSUME db'.task[i] = db.task[i] PROVE KeptAfter(db'.task[i], i)
  <2>1. ArchiveMoves(db'.result[i], db.task[i], db'.task[i])
    BY <1>3 DEF ArchiveMoves
  <2> QED
    BY <1>1, <1>2, <1>3, <2>1, KeptNext
<1>4. ASSUME up' PROVE KeptAfter(mem'.task[i], i)
  <2>1. CASE ~ up
    <3>1. mem'.task[i] = db.task[i] /\ db'.task[i] = db.task[i]
      BY <1>4, <2>1 DEF Effect, MemoryMoves, Stored
    <3> QED
      BY <1>3, <3>1
  <2>2. CASE up
    <3>1. TaskMoves(i) /\ ArchiveMoves(db'.result[i], mem.task[i], mem'.task[i])
      BY <1>4, <2>2 DEF Effect, MemoryMoves
    <3>2. CASE Goes(mem.task[i], mem'.task[i])
      BY <3>2 DEF Goes, KeptAfter
    <3>3. CASE Admitted(i)
      <4>1. now # 0 /\ born'[i] # born[i] /\ mem'.task[i].completedAt = 0
        BY <3>3 DEF Admitted, IInv
      <4> QED
        BY <4>1 DEF FileEffect, BirthMoves, KeptAfter
    <3>4. CASE mem'.task[i] = mem.task[i] \/ Continues(mem.task[i], mem'.task[i])
      BY <1>1, <1>2, <1>4, <2>2, <3>1, <3>4, KeptNext
    <3> QED
      BY <3>1, <3>2, <3>3, <3>4 DEF TaskMoves
  <2> QED
    BY <2>1, <2>2
<1> QED
  BY <1>3, <1>4, DiskTasks

-----------------------------------------------------------------------------
(* Registered files and the decisions of startup *)

\* A request that is active on disk with a frozen result was so before, or
\* its result has just been frozen.
LEMMA ActiveWas ==
    ASSUME IInv, StepOK, NEW i \in Ids, db.result[i].frozenAt # 0, db'.task[i].state \in Active
    PROVE  db.task[i].state \in Active
<1>1. May(Status(db.task[i], i), Status(db.task[i], i)')
  BY DEF StepOK
<1>2. Status(db.task[i], i)' \in {"executing", "completed", "delivering"}
  BY DEF Status, Active
<1>3. Status(db.task[i], i) \in {"unborn", "executing", "completed", "delivering"}
  BY <1>1, <1>2 DEF May, Lifecycle!Edge, Lifecycle!Ended
<1>4. db.task[i].state # "absent"
  BY DEF IInv, RowsAgree, RowOK
<1>5. db.task[i].state \in Active \cup Terminal
  BY <1>4, TaskFacts DEF IInv, Task
<1> QED
  BY <1>3, <1>4, <1>5 DEF Status, Active, Terminal

LEMMA OutputsNext ==
    IInv /\ IInv' /\ Outputs /\ Decided /\ StepOK /\ Effect /\ FileEffect => Outputs'
<1> SUFFICES ASSUME IInv, IInv', Outputs, Decided, StepOK, Effect, FileEffect,
                    NEW i \in Ids \ Damageable, db'.task[i].state \in Active, i \notin outputs',
                    db'.result[i].frozenAt # 0, db'.result[i].files
             PROVE  db'.result[i].frozenAt + ResultRetention <= now'
  BY DEF Outputs
<1> DEFINE r == db.result[i]
           q == db'.result[i]
<1>1. FrozenMoves(i) /\ OutputMoves(i)
  BY DEF FileEffect
<1>2. r.frozenAt # 0 /\ q.frozenAt = r.frozenAt /\ q.files = r.files
  BY <1>1 DEF FrozenMoves
<1>3. db.task[i].state \in Active
  BY <1>2, ActiveWas
<1>4. now \in Nat /\ now' \in Nat /\ now <= now' /\ r.frozenAt \in Nat /\ ResultRetention \in Nat
  BY StepFacts, TaskFacts, RetentionAssumption DEF IInv, Result, Time
<1>5. CASE i \notin outputs
  <2>1. r.frozenAt + ResultRetention <= now
    BY <1>2, <1>3, <1>5 DEF Outputs
  <2> QED
    BY <1>2, <1>4, <2>1
<1>6. CASE i \in outputs
  <2>1. up /\ mem.task[i].state \in Terminal /\ ResultExpired(mem.task[i])
    BY <1>1, <1>3, <1>6 DEF OutputMoves, Active
  <2>2. mem.task[i].completedAt = r.frozenAt
    BY <1>2, <1>3, <2>1 DEF Decided
  <2> QED
    BY <1>2, <1>4, <2>1, <2>2 DEF ResultExpired
<1> QED
  BY <1>5, <1>6

LEMMA DecidedNext == IInv /\ Archived /\ Decided /\ Effect => Decided'
<1> SUFFICES ASSUME IInv, Archived, Decided, Effect, up', NEW i \in Ids,
                    db'.task[i].state \in Active, mem'.task[i].state \in Terminal,
                    db'.result[i].frozenAt # 0
             PROVE  mem'.task[i].completedAt = db'.result[i].frozenAt
  BY DEF Decided
<1> DEFINE t == mem.task[i]
           u == mem'.task[i]
           r == db.result[i]
           q == db'.result[i]
<1>t. Active \cap Terminal = {} /\ "absent" \notin Active \cup Terminal
  BY DEF Active, Terminal
<1>1. Stored' # mem' /\ db'.task[i] = db.task[i]
  BY <1>t, DiskTasks DEF Stored
<1>2. up
  <2>1. ~ up => mem' = Stored /\ Stored' = Stored
    BY DEF Effect, MemoryMoves
  <2> QED
    BY <1>1, <2>1
<1>3. TaskMoves(i) /\ DecisionMoves(q, t, u)
  BY <1>1, <1>2 DEF Effect, MemoryMoves
<1>4. ResultMoves(r, q, t, u)
  BY DEF Effect
<1>5. r.frozenAt = q.frozenAt
  BY <1>1, <1>4 DEF ResultMoves, NoResult
<1>6. CASE t.state \in Active
  BY <1>3, <1>6 DEF DecisionMoves
<1>7. CASE t.state \in Terminal
  <2>1. t.completedAt = r.frozenAt
    BY <1>1, <1>2, <1>5, <1>7 DEF Decided
  <2>2. Final(t)
    BY <1>2, <1>5, <1>7 DEF Archived, Final
  <2>3. u.completedAt = t.completedAt
    BY <1>3, <1>7, <1>t, <2>2 DEF TaskMoves, Continues, Goes, Admitted
  <2> QED
    BY <1>5, <2>1, <2>3
<1>8. CASE t.state = "absent"
  BY <1>3, <1>8, <1>t DEF TaskMoves, Continues, Goes, Admitted, Active, Terminal
<1>9. t.state \in Active \cup Terminal \cup {"absent"}
  BY TaskFacts DEF IInv, Task
<1> QED
  BY <1>6, <1>7, <1>8, <1>9

LEMMA LockHoldsNext == IInv /\ LockHolds /\ [Next]_vars => LockHolds'
<1> SUFFICES ASSUME IInv, LockHolds, [Next]_vars PROVE LockHolds'
  OBVIOUS
<1>a. mem \in Index /\ lock \in Lock
  BY DEF IInv, TypeOK
<1>n. Unlocked.step = "none"
  BY DEF Unlocked
\* Operations that do not leave the mutex at either point.
<1>q. ASSUME lock'.step \notin {"commit", "remove"} PROVE LockHolds'
  BY <1>q DEF LockHolds
<1>1. ASSUME lock' = lock, Idle \/ lock = Unlocked PROVE LockHolds'
  BY <1>1, <1>n, <1>q DEF Idle
<1>2. ASSUME lock' = Unlocked PROVE LockHolds'
  BY <1>2, <1>n, <1>q
<1>3. ASSUME NEW z, lock' = [lock EXCEPT !.step = z], z \notin {"commit", "remove"} PROVE LockHolds'
  <2>1. lock'.step = z
    BY <1>a, <1>3 DEF Lock
  <2> QED
    BY <1>3, <1>q, <2>1
<1>4. ASSUME NEW op, NEW z, NEW r, Begin(op, z, r), z \notin {"commit", "remove"} PROVE LockHolds'
  <2>1. lock'.step = z
    BY <1>4 DEF Begin, Unlocked
  <2> QED
    BY <1>4, <1>q, <2>1
<1>5. ASSUME NEW i \in Ids, AdmitStage(i) PROVE LockHolds'
  <2>1. lock'.step = "commit" /\ lock'.id = i /\ i \in dirs'
    BY <1>a, <1>5 DEF AdmitStage, Lock
  <2> QED
    BY <2>1 DEF LockHolds
<1>6. ASSUME NEW i \in Ids, Release(i) PROVE LockHolds'
  <2> DEFINE m == [Forget(mem, {i}) EXCEPT !.cleared[mem.task[i].source] = mem.task[i].finishedAt]
  <2>1. lock'.step = "remove" /\ lock'.id = i
    BY <1>6 DEF Release, Unlocked
  <2>2. db'.task = m.task
    BY <1>6 DEF Release, Save, Persist
  <2>3. m.task[i] = NoTask
    BY <1>a DEF Forget, Index
  <2>4. db'.task[i].state = "absent"
    BY <2>2, <2>3 DEF NoTask
  <2> QED
    BY <2>1, <2>4 DEF LockHolds
<1>7. CASE CleanHistory
  <2>1. lock' = AfterCleanup
    BY <1>7 DEF CleanHistory
  <2>2. \/ lock' = [lock EXCEPT !.step = "admit"] \/ lock' = [lock EXCEPT !.step = "save"]
        \/ lock' = Unlocked
    BY <2>1 DEF AfterCleanup
  <2> QED
    BY <1>2, <1>3, <2>2
<1>8. ASSUME NEW i \in Ids, RecoverTask(i) PROVE LockHolds'
  <2>1. lock' = Unlocked \/ (lock.step = "recover" /\ lock' = [lock EXCEPT !.todo = @ \ {i}])
    BY <1>8 DEF RecoverTask
  <2>2. lock'.step \in {"none", "recover"}
    BY <1>a, <1>n, <2>1 DEF Lock
  <2> QED
    BY <1>q, <2>2
<1>9. CASE Boot
  <2>1. lock'.step = "recover"
    BY <1>9 DEF Boot, Unlocked
  <2> QED
    BY <1>q, <2>1
<1>10. ASSUME NEW i \in Ids, Damage(i) PROVE LockHolds'
  BY <1>10 DEF Damage, LockHolds
<1>11. CASE UNCHANGED vars
  BY <1>11 DEF vars, LockHolds
<1>12. ASSUME NEW s \in Sources, NEW g \in Targets, NEW t \in Threads \cup {None}, NEW p \in Pendings,
              Start(s, g, t, p)
       PROVE  LockHolds'
  BY <1>4, <1>12 DEF Start
<1>13. ASSUME NEW o \in Ids, NEW s \in Sources, Retry(o, s) PROVE LockHolds'
  BY <1>4, <1>13 DEF Retry
<1>14. CASE CleanupExpired
  BY <1>4, <1>14 DEF CleanupExpired
<1>15. CASE AdmitRefused \/ AdmitBusy \/ StartCommit \/ ReleaseFiles \/ Crash \/ StepFails \/ BootSave
  BY <1>2, <1>15 DEF AdmitRefused, AdmitBusy, StartCommit, ReleaseFiles, Crash, StepFails, BootSave
<1>16. CASE CleanRows \/ CleanReceipts \/ CleanFiles \/ SweepOrphans
  BY <1>3, <1>16 DEF CleanRows, CleanReceipts, CleanFiles, SweepOrphans
<1>17. ASSUME NEW i \in Ids, Touch(i) \/ AttachInput(i) \/ BeginDelivery(i) PROVE LockHolds'
  BY <1>1, <1>17 DEF Touch, AttachInput, BeginDelivery
<1>18. ASSUME NEW i \in Ids, NEW t, AttachThread(i, t) \/ AttachTurn(i, t) PROVE LockHolds'
  BY <1>1, <1>18 DEF AttachThread, AttachTurn
<1>19. ASSUME NEW i \in Ids, NEW reply, CompleteExecution(i, reply) \/ CompleteExecutionUnsaved(i, reply)
       PROVE  LockHolds'
  BY <1>1, <1>19 DEF CompleteExecution, CompleteExecutionUnsaved
<1>20. ASSUME NEW i \in Ids, NEW size, NEW files, FreezeResult(i, size, files) PROVE LockHolds'
  BY <1>1, <1>20 DEF FreezeResult
<1>21. ASSUME NEW i \in Ids, NEW next, NEW u, Finish(i, next, u) PROVE LockHolds'
  BY <1>1, <1>21 DEF Finish
<1>22. ASSUME NEW i \in Ids, NEW o, CompleteDelivery(i, o) \/ BeginRedelivery(i, o) PROVE LockHolds'
  BY <1>1, <1>22 DEF CompleteDelivery, BeginRedelivery
<1>23. ASSUME NEW i \in Ids, NEW o, NEW x, RecordDelivery(i, o, x) PROVE LockHolds'
  BY <1>1, <1>23 DEF RecordDelivery
<1>24. ASSUME NEW s \in Sources, Reject(s) PROVE LockHolds'
  BY <1>1, <1>24 DEF Reject
<1>25. CASE Tick
  BY <1>1, <1>25 DEF Tick
<1> QED
  BY <1>5, <1>6, <1>7, <1>8, <1>9, <1>10, <1>11, <1>12, <1>13, <1>14, <1>15, <1>16, <1>17, <1>18,
     <1>19, <1>20, <1>21, <1>22, <1>23, <1>24, <1>25 DEF Next

-----------------------------------------------------------------------------
(* Startup settles interrupted deliveries *)

\* A step of the startup after the recovery of the requests: it drops
\* requests and results, and is reached when no request is left to recover.
BootGoesOn ==
    /\ up /\ lock.op = "boot" /\ now' = now
    /\ lock.step = "recover" => lock.todo = {} \/ lock' = lock
    /\ \A i \in Ids : mem'.task[i] = mem.task[i] \/ mem'.task[i].state = "absent"
    /\ \A i \in Ids : db'.result[i] = db.result[i] \/ db'.result[i].frozenAt = 0

LEMMA BootMoves ==
    ASSUME IInv, [Next]_vars, up', lock'.op = "boot"
    PROVE  Boot \/ (\E i \in Ids : RecoverTask(i) /\ ~ BootBlocked(mem.task[i], i)) \/ BootGoesOn
<1>a. mem \in Index /\ db \in Database /\ lock \in Lock
  BY DEF IInv, TypeOK
<1>n. Unlocked.op = "none"
  BY DEF Unlocked
\* Operations of which the startup is no part.
<1>1. lock' # Unlocked
  BY <1>n
<1>2. ~ (lock' = lock /\ Idle)
  BY <1>1 DEF Idle
<1>3. ASSUME NEW op, NEW z, NEW r, Begin(op, z, r) PROVE op = "boot"
  BY <1>3 DEF Begin, Unlocked
<1>4. ASSUME NEW z, lock' = [lock EXCEPT !.step = z] PROVE lock.op = "boot"
  BY <1>a, <1>4 DEF Lock
\* Steps of the startup.
<1>5. ASSUME NEW i \in Ids, RecoverTask(i) PROVE ~ BootBlocked(mem.task[i], i)
  BY <1>5 DEF RecoverTask
<1>6. ASSUME UNCHANGED <<up, mem, now>>, lock.op = "boot",
             lock.step = "recover" => lock.todo = {} \/ lock' = lock,
             \A i \in Ids : db'.result[i] = db.result[i] \/ db'.result[i].frozenAt = 0
      PROVE  BootGoesOn
  BY <1>6 DEF BootGoesOn
<1>7. CASE CleanRows
  <2>1. \A i \in Ids : db'.result[i] = NoResult \/ db'.result[i] = db.result[i]
    BY <1>a, <1>7 DEF CleanRows, ExpireRows, Database
  <2>2. lock.op = "boot"
    BY <1>4, <1>7 DEF CleanRows
  <2> QED
    BY <1>6, <1>7, <2>1, <2>2 DEF CleanRows, NoResult
<1>8. CASE CleanReceipts
  <2> DEFINE m == [mem EXCEPT !.rejected = DropOld(mem.rejected), !.cleared = DropOld(mem.cleared)]
  <2>1. up /\ lock.step = "receipts" /\ now' = now /\ lock.op = "boot"
    BY <1>4, <1>8 DEF CleanReceipts
  <2>2. CASE m = mem
    BY <1>6, <1>8, <2>1, <2>2 DEF CleanReceipts
  <2>3. CASE m # mem
    <3>1. Save(m, db)
      BY <1>8, <2>3 DEF CleanReceipts
    <3>2. mem'.task = mem.task
      BY <1>a, <3>1 DEF Save, Index
    <3> HIDE DEF m
    <3>3. \A i \in Ids : db'.result[i] = db.result[i] \/ db'.result[i].frozenAt = 0
      BY <3>1, SavedRows DEF NoResult
    <3> QED
      BY <2>1, <3>2, <3>3 DEF BootGoesOn
  <2> QED
    BY <2>2, <2>3
<1>9. CASE CleanFiles
  <2>1. lock.op = "boot"
    BY <1>4, <1>9 DEF CleanFiles
  <2> QED
    BY <1>6, <1>9, <2>1 DEF CleanFiles
<1>10. CASE CleanHistory
  <2>1. up /\ lock.step = "history" /\ now' = now /\ lock.op = "boot"
    BY <1>1, <1>4, <1>10 DEF CleanHistory, AfterCleanup
  <2>2. CASE Outdated(mem) = {}
    BY <1>6, <1>10, <2>1, <2>2 DEF CleanHistory
  <2>3. CASE Outdated(mem) # {}
    <3> DEFINE m == Forget(mem, Outdated(mem))
    <3>1. Save(m, db)
      BY <1>10, <2>3 DEF CleanHistory
    <3>2. \A i \in Ids : m.task[i] = mem.task[i] \/ m.task[i].state = "absent"
      BY <1>a DEF Forget, Index, NoTask
    <3> HIDE DEF m
    <3>3. \A i \in Ids : db'.result[i] = db.result[i] \/ db'.result[i].frozenAt = 0
      BY <3>1, SavedRows DEF NoResult
    <3>4. mem' = m
      BY <3>1 DEF Save
    <3> QED
      BY <2>1, <3>2, <3>3, <3>4 DEF BootGoesOn
  <2> QED
    BY <2>2, <2>3
<1>11. CASE SweepOrphans
  <2>1. lock.op = "boot"
    BY <1>4, <1>11 DEF SweepOrphans
  <2> QED
    BY <1>6, <1>11, <2>1 DEF SweepOrphans
<1>12. ASSUME NEW i \in Ids, Damage(i) PROVE BootGoesOn
  BY <1>6, <1>12 DEF Damage
<1>13. CASE UNCHANGED vars
  BY <1>6, <1>13 DEF vars
\* The others release the mutex, leave it free, or take it for themselves.
<1>14. ~ (\E s \in Sources, g \in Targets, t \in Threads \cup {None}, p \in Pendings : Start(s, g, t, p))
  BY <1>3 DEF Start
<1>15. ~ (\E o \in Ids, s \in Sources : Retry(o, s)) /\ ~ CleanupExpired
  BY <1>3 DEF Retry, CleanupExpired
<1>16. /\ ~ AdmitRefused /\ ~ AdmitBusy /\ ~ StartCommit /\ ~ ReleaseFiles /\ ~ Crash
       /\ ~ StepFails /\ ~ BootSave
  BY <1>1 DEF AdmitRefused, AdmitBusy, StartCommit, ReleaseFiles, Crash, StepFails, BootSave
<1>17. ASSUME NEW i \in Ids, AdmitStage(i) PROVE FALSE
  BY <1>a, <1>17 DEF AdmitStage, Lock
<1>18. ASSUME NEW i \in Ids, Release(i) PROVE FALSE
  BY <1>18 DEF Release, Unlocked
<1>19. ASSUME NEW i \in Ids, Touch(i) \/ AttachInput(i) \/ BeginDelivery(i) PROVE FALSE
  BY <1>2, <1>19 DEF Touch, AttachInput, BeginDelivery
<1>20. ASSUME NEW i \in Ids, NEW t, AttachThread(i, t) \/ AttachTurn(i, t) PROVE FALSE
  BY <1>2, <1>20 DEF AttachThread, AttachTurn
<1>21. ASSUME NEW i \in Ids, NEW reply, CompleteExecution(i, reply) \/ CompleteExecutionUnsaved(i, reply)
       PROVE  FALSE
  BY <1>2, <1>21 DEF CompleteExecution, CompleteExecutionUnsaved
<1>22. ASSUME NEW i \in Ids, NEW size, NEW files, FreezeResult(i, size, files) PROVE FALSE
  BY <1>2, <1>22 DEF FreezeResult
<1>23. ASSUME NEW i \in Ids, NEW next, NEW u, Finish(i, next, u) PROVE FALSE
  BY <1>2, <1>23 DEF Finish
<1>24. ASSUME NEW i \in Ids, NEW o, CompleteDelivery(i, o) \/ BeginRedelivery(i, o) PROVE FALSE
  BY <1>2, <1>24 DEF CompleteDelivery, BeginRedelivery
<1>25. ASSUME NEW i \in Ids, NEW o, NEW x, RecordDelivery(i, o, x) PROVE FALSE
  BY <1>2, <1>25 DEF RecordDelivery
<1>26. ASSUME NEW s \in Sources, Reject(s) PROVE FALSE
  BY <1>2, <1>26 DEF Reject
<1>27. ~ Tick
  BY <1>n DEF Tick
<1> QED
  BY <1>5, <1>7, <1>8, <1>9, <1>10, <1>11, <1>12, <1>13, <1>14, <1>15, <1>16, <1>17, <1>18, <1>19,
     <1>20, <1>21, <1>22, <1>23, <1>24, <1>25, <1>26, <1>27 DEF Next

\* A request that startup has been through is settled, if its result counts.
LEMMA RecoverySettles ==
    ASSUME IInv, Archived, History, up, lock.op = "boot", NEW i \in Ids,
           ~ BootBlocked(mem.task[i], i),
           Recovered(mem.task[i], i).state # "absent",
           Settled(mem.task[i], i).frozenAt # 0, ~ ResultExpired(Recovered(mem.task[i], i))
    PROVE  Settled(mem.task[i], i).receipt # "pending"
<1> DEFINE t == mem.task[i]
           r == db.result[i]
           c == Checkpointed(t, i)
<1>1. t \in Task /\ r \in Result /\ RowOK(db.task[i], r, born[i])
  BY TaskFacts DEF IInv, RowsAgree
<1>2. r.frozenAt # 0
  BY DEF Settled
<1>3. ~ t.archiveFailed
  BY <1>2 DEF Archived
<1>4. CASE t.state \in Active
  <2>1. t = db.task[i]
    BY <1>4 DEF IInv, MemoryFollowsDisk, Unsaved, Recovering, Active
  <2>2. t.completedAt # 0
    BY <1>1, <1>2, <1>4, <2>1 DEF RowOK, Active
  <2>3. c = t
    BY <2>2 DEF Checkpointed
  <2>4. Loadable(i)
    BY <1>3, <1>4, <2>2, <2>3 DEF BootBlocked
  <2> QED
    BY <1>1, <1>4, <2>4 DEF Settled, Result
<1>5. CASE t.state \in Terminal
  <2>1. Recovered(t, i) = t
    BY <1>5 DEF Recovered, Active, Terminal
  <2>2. t.completedAt # 0 /\ ~ ResultExpired(t)
    BY <2>1 DEF ResultExpired
  <2>3. t.state = "succeeded"
    <3>1. CASE t = db.task[i]
      <4>1. ValidTask(Stored.task[i])
        BY <1>5, <3>1 DEF History, ValidIndex, Known, Stored, Terminal
      <4> QED
        BY <1>5, <2>2, <3>1, <4>1 DEF ValidTask, Stored, Active, Terminal
    <3>2. CASE Recovering(i)
      BY <1>1, <1>2, <3>2 DEF Recovering, RowOK
    <3> QED
      BY <1>5, <3>1, <3>2 DEF IInv, MemoryFollowsDisk, Unsaved, Terminal
  <2> QED
    BY <1>1, <1>2, <1>3, <2>2, <2>3 DEF Settled, Result, Active
<1>6. CASE t.state = "absent"
  BY <1>6 DEF Recovered, Active
<1> QED
  BY <1>1, <1>4, <1>5, <1>6 DEF Task

LEMMA SettlingNext == IInv /\ Archived /\ History /\ Settling /\ [Next]_vars => Settling'
<1> SUFFICES ASSUME IInv, Archived, History, Settling, [Next]_vars, up', lock'.op = "boot",
                    NEW i \in Ids, lock'.step = "recover" => i \notin lock'.todo,
                    mem'.task[i].state # "absent", db'.result[i].frozenAt # 0,
                    ~ (\/ mem'.task[i].completedAt = 0
                       \/ mem'.task[i].completedAt + ResultRetention <= now')
             PROVE  db'.result[i].receipt # "pending"
  BY DEF Settling, ResultExpired
<1>a. mem \in Index /\ db \in Database /\ lock \in Lock
  BY DEF IInv, TypeOK
<1>1. CASE Boot
  <2>1. lock'.step = "recover" /\ lock'.todo = Known(Stored) /\ mem' = Stored
    BY <1>1 DEF Boot, Unlocked
  <2> QED
    BY <2>1 DEF Known
<1>2. ASSUME NEW j \in Ids, RecoverTask(j), ~ BootBlocked(mem.task[j], j)
      PROVE  db'.result[i].receipt # "pending"
  <2>1. /\ up /\ lock.op = "boot" /\ lock.step = "recover" /\ now' = now
        /\ mem'.task = [mem.task EXCEPT ![j] = Recovered(mem.task[j], j)]
        /\ db'.result = [db.result EXCEPT ![j] = Settled(mem.task[j], j)]
        /\ lock'.step = "recover" /\ lock'.todo = lock.todo \ {j}
    BY <1>a, <1>2 DEF RecoverTask, IInv, LockAgrees, Index, Database, Lock
  <2>2. CASE i = j
    <3>1. mem'.task[i] = Recovered(mem.task[i], i) /\ db'.result[i] = Settled(mem.task[i], i)
      BY <1>a, <2>1, <2>2 DEF Index, Database
    <3> QED
      BY <1>2, <2>1, <2>2, <3>1, RecoverySettles DEF ResultExpired
  <2>3. CASE i # j
    <3>1. mem'.task[i] = mem.task[i] /\ db'.result[i] = db.result[i] /\ i \notin lock.todo
      BY <1>a, <2>1, <2>3 DEF Index, Database
    <3> QED
      BY <2>1, <3>1 DEF Settling, ResultExpired
  <2> QED
    BY <2>2, <2>3
<1>3. CASE BootGoesOn
  <2>1. /\ up /\ lock.op = "boot" /\ now' = now
        /\ mem'.task[i] = mem.task[i] /\ db'.result[i] = db.result[i]
    BY <1>3 DEF BootGoesOn
  <2>2. lock.step = "recover" => i \notin lock.todo
    BY <1>3 DEF BootGoesOn
  <2> QED
    BY <2>1, <2>2 DEF Settling, ResultExpired
<1> QED
  BY <1>1, <1>2, <1>3, BootMoves

\* The startup releases the mutex by its last save.
LEMMA SavedAtLast ==
    ASSUME [Next]_vars, lock.op = "boot", lock.step = "save", up', lock' = Unlocked
    PROVE  BootSave
<1>n. Unlocked.op = "none"
  BY DEF Unlocked
<1>1. ~ Idle /\ lock' # lock
  BY <1>n DEF Idle
<1>2. /\ ~ AdmitRefused /\ ~ AdmitBusy /\ ~ StartCommit /\ ~ ReleaseFiles /\ ~ Crash
      /\ ~ StepFails /\ ~ Tick /\ ~ CleanupExpired /\ ~ CleanRows /\ ~ CleanReceipts
      /\ ~ CleanFiles /\ ~ CleanHistory /\ ~ SweepOrphans
  BY <1>1 DEF AdmitRefused, AdmitBusy, StartCommit, ReleaseFiles, Crash, StepFails, Tick,
              CleanupExpired, CleanRows, CleanReceipts, CleanFiles, CleanHistory, SweepOrphans
<1>3. ~ Boot
  BY <1>n DEF Boot, Unlocked
<1>4. ASSUME NEW i \in Ids PROVE /\ ~ AdmitStage(i) /\ ~ Touch(i) /\ ~ AttachInput(i) /\ ~ BeginDelivery(i)
                                 /\ ~ Release(i) /\ ~ RecoverTask(i) /\ ~ Damage(i)
  BY <1>1 DEF AdmitStage, Touch, AttachInput, BeginDelivery, Release, RecoverTask, Damage
<1>5. ASSUME NEW i \in Ids, NEW o, NEW x
      PROVE  /\ ~ Retry(i, o) /\ ~ AttachThread(i, o) /\ ~ AttachTurn(i, o)
             /\ ~ CompleteExecution(i, o) /\ ~ CompleteExecutionUnsaved(i, o)
             /\ ~ FreezeResult(i, o, x) /\ ~ Finish(i, o, x) /\ ~ CompleteDelivery(i, o)
             /\ ~ BeginRedelivery(i, o) /\ ~ RecordDelivery(i, o, x)
  BY <1>1 DEF Retry, AttachThread, AttachTurn, CompleteExecution, CompleteExecutionUnsaved,
              FreezeResult, Finish, CompleteDelivery, BeginRedelivery, RecordDelivery
<1>6. ASSUME NEW s, NEW g, NEW t, NEW p PROVE ~ Start(s, g, t, p) /\ ~ Reject(s)
  BY <1>1 DEF Start, Reject
<1>7. ~ UNCHANGED vars
  BY <1>1 DEF vars
<1> QED
  BY <1>2, <1>3, <1>4, <1>5, <1>6, <1>7 DEF Next

-----------------------------------------------------------------------------
(* Results *)

LEMMA RestartInit == Init => RInv
<1> SUFFICES ASSUME Init PROVE RInv
  OBVIOUS
<1>1. \A i \in Ids : db.task[i] = NoTask /\ db.result[i] = NoResult
  BY DEF Init, Persist, EmptyIndex, Known, NoTask
<1>2. ~ up /\ lock = Unlocked
  BY DEF Init
<1>3. Payloads /\ Outputs /\ Decided
  BY <1>1, <1>2 DEF Payloads, Kept, Outputs, Decided, NoTask, NoResult
<1>4. LockHolds /\ Settling
  BY <1>2 DEF LockHolds, Settling, Unlocked
<1> QED
  BY <1>3, <1>4, HistoryInit DEF RInv

LEMMA RestartStep == RInv /\ [Next]_vars => RInv'
<1> SUFFICES ASSUME RInv, [Next]_vars PROVE RInv'
  OBVIOUS
<1>1. HInv' /\ IInv /\ IInv' /\ Archived /\ History
  BY HistoryStep DEF RInv, HInv
<1>2. Effect /\ StepOK /\ FileEffect
  BY <1>1, EffectNext, StepNext, FileEffectNext DEF RInv
<1>3. Payloads' /\ Outputs' /\ Decided'
  BY <1>1, <1>2, PayloadsNext, OutputsNext, DecidedNext DEF RInv
<1>4. LockHolds' /\ Settling'
  BY <1>1, LockHoldsNext, SettlingNext DEF RInv
<1> QED
  BY <1>1, <1>3, <1>4 DEF RInv

\* For all constants, the service can be started again whatever instant it
\* died at: the stored index passes validation and no request within its
\* retention lacks the rows, the input or the files recoverLocked insists on,
\* unless somebody else spoiled them.
THEOREM RestartsSafely == Spec => []RestartSafe
<1>1. RInv => RestartSafe
  <2> SUFFICES ASSUME RInv PROVE RestartSafe
    OBVIOUS
  <2>1. ValidIndex(Stored)
    BY DEF RInv, HInv, History
  <2>2. ASSUME NEW i \in Ids \ Damageable, BootBlocked(db.task[i], i)
        PROVE  /\ db.task[i].state \in Active /\ db.result[i].frozenAt # 0
               /\ db.result[i].frozenAt + ResultRetention <= now
    <3> DEFINE t == db.task[i]
               c == Checkpointed(t, i)
    <3>1. Kept(t, i) /\ RowOK(t, db.result[i], born[i])
      BY DEF RInv, HInv, IInv, Payloads, RowsAgree
    <3>t. Active \cap Terminal = {} /\ "succeeded" \in Terminal
      BY DEF Active, Terminal
    <3>2. ~ (/\ t.state = "succeeded" /\ ~ t.archiveFailed /\ ~ ResultExpired(t)
             /\ db.result[i].frozenAt = 0)
      BY <3>1 DEF Kept, ResultExpired
    <3>3. ~ (/\ t.state # "absent" /\ HasPayload(Recovered(t, i))
             /\ i \notin dirs \/ db.input[i] = "none")
      <4>1. CASE t.state \in Active
        BY <3>1, <4>1 DEF Kept, HasPayload
      <4>2. CASE t.state \notin Active
        BY <3>1, <4>2 DEF Kept, Recovered
      <4> QED
        BY <4>1, <4>2
    <3>4. /\ t.state \in Active /\ ~ Loadable(i) /\ ~ c.archiveFailed
          /\ c.completedAt # 0 \/ t.state = "delivering"
      BY <2>2, <3>2, <3>3 DEF BootBlocked
    <3>5. CASE db.result[i].frozenAt # 0
      BY <3>4, <3>5 DEF Loadable, RInv, Outputs
    <3>6. CASE db.result[i].frozenAt = 0
      <4>1. c = t \/ c = [t EXCEPT !.completedAt = db.completion[i].at, !.archiveFailed = TRUE,
                                   !.bytes = MaxTaskBytes + db.completion[i].reply]
        BY DEF Checkpointed
      <4>2. t \in Task
        BY TaskFacts DEF RInv, HInv, IInv
      <4>3. c = t
        BY <3>4, <4>1, <4>2 DEF Task
      <4>4. t.completedAt # 0 /\ ~ t.archiveFailed
        BY <3>1, <3>4, <4>3 DEF RowOK
      <4> QED
        BY <3>1, <3>4, <3>6, <3>t, <4>4 DEF Kept, Active
    <3> QED
      BY <3>5, <3>6
  <2> QED
    BY <2>1, <2>2 DEF RestartSafe
<1> QED
  BY <1>1, RestartInit, RestartStep, PTL DEF Spec

\* For all constants, once a startup is over no result within its retention
\* still claims that nothing was sent of it: recoverLocked has settled the
\* delivery of every request, those it restored itself included.
THEOREM DeliveriesSettled == Spec => RestartSettlesDelivery
<1> DEFINE A == lock.op = "boot" /\ lock.step = "save" /\ up' /\ lock' = Unlocked =>
                  \A i \in Ids : db'.result[i].frozenAt # 0 /\ ~ ResultExpired(db'.task[i]) =>
                      db'.result[i].receipt # "pending"
<1>1. RInv /\ [Next]_vars => [A]_vars
  <2> SUFFICES ASSUME RInv, [Next]_vars, lock.op = "boot", lock.step = "save", up', lock' = Unlocked,
                      NEW i \in Ids, db'.result[i].frozenAt # 0, ~ ResultExpired(db'.task[i])
               PROVE  db'.result[i].receipt # "pending"
    OBVIOUS
  <2>1. BootSave
    BY SavedAtLast
  <2>2. db'.task = mem.task /\ up
    BY <2>1 DEF BootSave, Save, Persist
  <2>3. db'.result[i] = db.result[i] /\ mem.task[i].state # "absent"
    BY <2>1, SavedRows DEF BootSave, NoResult
  <2> QED
    BY <2>2, <2>3 DEF RInv, Settling
<1> QED
  BY <1>1, RestartInit, RestartStep, PTL DEF Spec, RestartSettlesDelivery

=============================================================================
