---------------------------- MODULE RequestStore ----------------------------
(***************************************************************************)
(* The durable request index of internal/core/request.                     *)
(*                                                                         *)
(* One Store object owns an in-memory index (tasks, rejected and cleared   *)
(* sources), one SQLite database and one private directory per request.    *)
(* Every operation runs under Store.mu; an operation made of several       *)
(* transactions or file-system steps is split here at exactly these        *)
(* points, with the mutex held, because the process may die between them.  *)
(* A transaction that fails leaves memory and database as they were: that  *)
(* is a stuttering step and is written down only where the code does       *)
(* something else (CompleteExecution, Start, the startup path).            *)
(*                                                                         *)
(* The callers are arbitrary: any operation may be called with any         *)
(* arguments whenever the mutex is free.  One WeChat binding (owner) is    *)
(* modelled, as one running instance serves one.  Time is counted in       *)
(* ticks, 0 meaning "never" as in the database columns.                    *)
(***************************************************************************)
EXTENDS Integers, FiniteSets, FiniteSetsExt

CONSTANTS
    Ids,              \* request identifiers newTaskID can draw
    Sources,          \* message keys and recovery operation keys
    Targets,          \* conversation intents
    Threads,          \* native Codex threads
    Turns,            \* native Codex turns
    Pendings,         \* whether new input is still to be downloaded
    Ops,              \* redelivery operation identifiers
    SendOutcomes,     \* what a channel can report of a send
    Damageable,       \* requests whose registered output may be spoiled on disk
    None,             \* the empty string / absent reference
    MaxTime,          \* bound: last tick of the clock
    PayloadRetention, ResultRetention, HistoryRetention,
    MaxRecords,       \* MaxRecordsPerOwner
    MaxTaskBytes,     \* largest artifact total of one request
    MaxReplyBytes,    \* maxResultReplyBytes
    MaxResultBytes,   \* MaxResultStoreBytes
    MaxAttempts       \* delivery attempts kept per result

ASSUME RetentionAssumption ==
    /\ PayloadRetention \in Nat \ {0}
    /\ ResultRetention \in Nat \ {0}
    /\ HistoryRetention \in Nat \ {0}
    /\ PayloadRetention <= HistoryRetention
    /\ ResultRetention <= HistoryRetention

ASSUME BoundAssumption ==
    /\ MaxTime \in Nat \ {0}
    /\ MaxRecords \in Nat
    /\ MaxTaskBytes \in Nat \ {0}
    /\ MaxReplyBytes \in Nat
    /\ MaxResultBytes \in Nat
    /\ MaxAttempts \in Nat \ {0}

ASSUME PendingAssumption == Pendings \subseteq BOOLEAN

\* Identifiers have a fixed length (newTaskID).
ASSUME FiniteAssumption == IsFiniteSet(Ids)

ASSUME NameAssumption ==
    /\ None \notin Ids \cup Sources \cup Targets \cup Threads \cup Turns \cup Ops
    /\ SendOutcomes \subseteq {"succeeded", "explicit_failure", "ambiguous"}
    /\ Damageable \subseteq Ids

VARIABLES
    up,       \* the service process is alive
    mem,      \* Store.state: the index held in memory
    db,       \* the SQLite tables
    dirs,     \* requests that have a private directory
    outputs,  \* requests whose registered output files are intact
    lock,     \* the operation that holds Store.mu and how far it got
    now,      \* the clock
    born,     \* history: source and time of every admitted request
    sends     \* history: sends started, per request and operation

vars == <<up, mem, db, dirs, outputs, lock, now, born, sends>>

-----------------------------------------------------------------------------
(* Values *)

Active == {"running", "delivering"}
Terminal == {"succeeded", "failed", "interrupted", "cancelled"}
Time == 0 .. MaxTime
Bytes == 0 .. (MaxTaskBytes + MaxReplyBytes)
\* The first delivery has no operation identifier; None stands for it.
AllOps == Ops \cup {None}

Task == [source: Sources \cup {None}, target: Targets \cup {None},
         thread: Threads \cup {None}, turn: Turns \cup {None},
         state: Active \cup Terminal \cup {"absent"},
         unconfirmed: BOOLEAN,   \* reason is interrupt_unconfirmed
         completedAt: Time, archiveFailed: BOOLEAN, bytes: Bytes,
         finishedAt: Time, pending: BOOLEAN, retryOf: Ids \cup {None}]

Result == [frozenAt: Time, size: Bytes, files: BOOLEAN,
           receipt: {"pending"} \cup {"succeeded", "explicit_failure", "ambiguous"},
           attempts: [AllOps -> {"none", "succeeded", "explicit_failure", "ambiguous"}]]

NoTask == [source |-> None, target |-> None, thread |-> None, turn |-> None,
           state |-> "absent", unconfirmed |-> FALSE, completedAt |-> 0,
           archiveFailed |-> FALSE, bytes |-> 0, finishedAt |-> 0,
           pending |-> FALSE, retryOf |-> None]

NoResult == [frozenAt |-> 0, size |-> 0, files |-> FALSE, receipt |-> "pending",
             attempts |-> [o \in AllOps |-> "none"]]

Request == [source: Sources \cup {None}, target: Targets \cup {None},
            thread: Threads \cup {None}, pending: BOOLEAN, retryOf: Ids \cup {None}]

\* Rows of the completions table: when the execution completed, reply size.
Completion == [at: Time, reply: 0 .. MaxReplyBytes]
NoCompletion == [at |-> 0, reply |-> 0]

NoRequest == [source |-> None, target |-> None, thread |-> None,
              pending |-> FALSE, retryOf |-> None]

Unlocked == [op |-> "none", step |-> "none", todo |-> {}, request |-> NoRequest, id |-> None]

EmptyIndex == [task |-> [i \in Ids |-> NoTask],
               rejected |-> [s \in Sources |-> 0],
               cleared |-> [s \in Sources |-> 0]]

Known(m) == {i \in Ids : m.task[i].state # "absent"}

SessionKey(t) == IF t.thread # None THEN <<"thread", t.thread>> ELSE <<"intent", t.target>>

-----------------------------------------------------------------------------
(* Retention *)

PayloadExpired(t) == t.state \in Terminal /\ t.finishedAt + PayloadRetention <= now

\* A request that never completed has result_expires_at = 0: expired.
ResultExpired(t) == t.completedAt = 0 \/ t.completedAt + ResultRetention <= now

HistoryExpired(t) == t.state \in Terminal /\ t.finishedAt + HistoryRetention <= now

ReceiptExpired(at) == at + HistoryRetention <= now

HasPayload(t) == t.state \in Active \/ ~ PayloadExpired(t)

\* Space one request holds against MaxResultStoreBytes.
Reservation(t) ==
    CASE t.state = "absent" -> 0
      [] t.state \in Active /\ t.completedAt = 0 -> MaxTaskBytes + MaxReplyBytes
      [] OTHER -> IF ResultExpired(t) THEN 0 ELSE t.bytes

ResultBytes(m) == SumFunction([i \in Ids |-> Reservation(m.task[i])])

-----------------------------------------------------------------------------
(* The index and the database *)

ValidTask(t) ==
    /\ t.archiveFailed => t.completedAt # 0
    /\ t.completedAt # 0 => t.state \in Active \cup {"succeeded"}
    /\ t.bytes # 0 => t.completedAt # 0
    /\ t.state \in Active => t.finishedAt = 0
    /\ t.state \in Terminal => t.finishedAt # 0

\* Mutant: sessions are no longer compared.
ValidIndex_AnySession(m) ==
    /\ \A i \in Known(m) : ValidTask(m.task[i])
    /\ \A i, j \in Known(m) : i # j => m.task[i].source # m.task[j].source

ValidIndex(m) ==
    /\ \A i \in Known(m) : /\ ValidTask(m.task[i])
                           /\ m.cleared[m.task[i].source] = 0
                           /\ m.rejected[m.task[i].source] = 0
    /\ \A i, j \in Known(m) : i # j =>
          /\ m.task[i].source # m.task[j].source
          /\ ~ /\ m.task[i].state \in Active /\ m.task[j].state \in Active
               /\ SessionKey(m.task[i]) = SessionKey(m.task[j])
    /\ \A s \in Sources : m.cleared[s] = 0 \/ m.rejected[s] = 0
    /\ Cardinality(Known(m)) <= MaxRecords

\* The rows of the index replace the stored ones; deleting a request row
\* deletes its input, completion and result rows (ON DELETE CASCADE).
Persist(d, m) ==
    [task |-> m.task, rejected |-> m.rejected, cleared |-> m.cleared,
     input |-> [i \in Ids |-> IF i \in Known(m) THEN d.input[i] ELSE "none"],
     completion |-> [i \in Ids |-> IF i \in Known(m) THEN d.completion[i] ELSE NoCompletion],
     result |-> [i \in Ids |-> IF i \in Known(m) THEN d.result[i] ELSE NoResult]]

\* saveLocked with d carrying the extra rows of the same transaction.
Save(m, d) == /\ ValidIndex(m)
              /\ mem' = m
              /\ db' = Persist(d, m)

\* The frozen rows are there and every registered file verifies.
Loadable(i) == db.result[i].frozenAt # 0 /\ (db.result[i].files => i \in outputs)

Idle == up /\ lock = Unlocked

\* What loadState reads back.
Stored == [task |-> db.task, rejected |-> db.rejected, cleared |-> db.cleared]

-----------------------------------------------------------------------------
(* Start: cleanup, admission, payload files, then one transaction *)

Begin(op, step, request) ==
    lock' = [Unlocked EXCEPT !.op = op, !.step = step, !.request = request]

Start(s, g, t, pending) ==
    /\ Idle
    /\ Begin("start", "rows", [source |-> s, target |-> g, thread |-> t,
                               pending |-> pending, retryOf |-> None])
    /\ UNCHANGED <<up, mem, db, dirs, outputs, now, born, sends>>

\* Mutant: an interruption nobody confirmed is retried.
Retryable_Unconfirmed(t) == t.state \in {"failed", "interrupted"} /\ t.completedAt = 0

\* Only work that failed or was interrupted, that did not complete and whose
\* interruption is certain may run again, as a new request on the same input.
Retryable(t) == /\ t.state \in {"failed", "interrupted"}
                /\ t.completedAt = 0
                /\ ~ t.unconfirmed

Retry(o, s) ==
    LET t == mem.task[o] IN
    /\ Idle
    /\ Retryable(t)
    /\ \A i \in Known(mem) : mem.task[i].source # s
    /\ HasPayload(t) /\ o \in dirs /\ db.input[o] # "none"
    /\ Begin("start", "rows", [source |-> s, target |-> t.target, thread |-> t.thread,
                               pending |-> db.input[o] = "raw", retryOf |-> o])
    /\ UNCHANGED <<up, mem, db, dirs, outputs, now, born, sends>>

Duplicate(s) == \/ \E i \in Known(mem) : mem.task[i].source = s
                \/ mem.cleared[s] # 0
                \/ mem.rejected[s] # 0

Occupied(r) == \E i \in Known(mem) : /\ mem.task[i].state \in Active
                                     /\ SessionKey(mem.task[i]) = SessionKey(r)

\* Mutant: the reply is not counted into the reservation.
NoRoom_ArtifactsOnly == \/ Cardinality(Known(mem)) >= MaxRecords
                        \/ ResultBytes(mem) + MaxTaskBytes > MaxResultBytes

NoRoom == \/ Cardinality(Known(mem)) >= MaxRecords
          \/ ResultBytes(mem) + MaxTaskBytes + MaxReplyBytes > MaxResultBytes

\* The source was seen before, or there is no room: nothing is created.
AdmitRefused ==
    LET r == lock.request IN
    /\ up /\ lock.op = "start" /\ lock.step = "admit"
    /\ \/ Duplicate(r.source)
       \/ Cardinality(Known(mem)) >= MaxRecords
       \/ NoRoom /\ ~ Occupied(r)
    /\ lock' = Unlocked
    /\ UNCHANGED <<up, mem, db, dirs, outputs, now, born, sends>>

\* The session is occupied: a rejection receipt is saved instead of work
\* (rejectLocked; the cleanup just done has already dropped the old ones).
AdmitBusy ==
    LET r == lock.request IN
    /\ up /\ lock.op = "start" /\ lock.step = "admit"
    /\ ~ Duplicate(r.source) /\ Cardinality(Known(mem)) < MaxRecords /\ Occupied(r)
    /\ Save([mem EXCEPT !.rejected[r.source] = now], db)
    /\ lock' = Unlocked
    /\ UNCHANGED <<up, dirs, outputs, now, born, sends>>

\* stagePayloadLocked: the files are on disk before the request is recorded.
AdmitStage(i) ==
    LET r == lock.request IN
    /\ up /\ lock.op = "start" /\ lock.step = "admit"
    /\ ~ Duplicate(r.source) /\ ~ NoRoom /\ ~ Occupied(r)
    /\ born[i].at = 0 /\ i \notin dirs
    /\ dirs' = dirs \cup {i}
    /\ lock' = [lock EXCEPT !.step = "commit", !.id = i]
    /\ UNCHANGED <<up, mem, db, outputs, now, born, sends>>

StartCommit ==
    LET i == lock.id
        r == lock.request IN
    /\ up /\ lock.op = "start" /\ lock.step = "commit"
    /\ Save([mem EXCEPT !.task[i] = [NoTask EXCEPT !.source = r.source, !.target = r.target,
                                       !.thread = r.thread, !.state = "running",
                                       !.pending = r.pending, !.retryOf = r.retryOf]],
            [db EXCEPT !.input[i] = IF r.pending THEN "raw" ELSE "ready"])
    /\ born' = [born EXCEPT ![i] = [source |-> r.source, at |-> now]]
    /\ lock' = Unlocked
    /\ UNCHANGED <<up, dirs, outputs, now, sends>>

-----------------------------------------------------------------------------
(* cleanupExpiredPayloadsLocked, run by Start, CleanupExpired and startup *)

CleanupExpired ==
    /\ Idle
    /\ Begin("cleanup", "rows", NoRequest)
    /\ UNCHANGED <<up, mem, db, dirs, outputs, now, born, sends>>

\* Mutant: the SQL deadline is one tick ahead of the one Go computes.
ExpireRows_Early(d) ==
    [d EXCEPT
       !.input = [i \in Ids |->
           IF d.task[i].state \in Terminal /\ d.task[i].finishedAt + PayloadRetention <= now + 1
           THEN "none" ELSE d.input[i]]]

\* The SQL deletes look at the stored rows, not at the index in memory.
ExpireRows(d) ==
    [d EXCEPT
       !.input = [i \in Ids |-> IF PayloadExpired(d.task[i]) THEN "none" ELSE d.input[i]],
       !.completion = [i \in Ids |->
           IF d.task[i].state \in Terminal /\ ResultExpired(d.task[i]) THEN NoCompletion
           ELSE d.completion[i]],
       !.result = [i \in Ids |->
           IF d.task[i].state \in Terminal /\ ResultExpired(d.task[i]) THEN NoResult
           ELSE d.result[i]]]

CleanRows ==
    /\ up /\ lock.step = "rows"
    /\ db' = ExpireRows(db)
    /\ lock' = [lock EXCEPT !.step = "receipts"]
    /\ UNCHANGED <<up, mem, dirs, outputs, now, born, sends>>

DropOld(receipts) == [s \in Sources |-> IF ReceiptExpired(receipts[s]) THEN 0 ELSE receipts[s]]

CleanReceipts ==
    LET m == [mem EXCEPT !.rejected = DropOld(mem.rejected), !.cleared = DropOld(mem.cleared)] IN
    /\ up /\ lock.step = "receipts"
    /\ IF m = mem THEN UNCHANGED <<mem, db>> ELSE Save(m, db)
    /\ lock' = [lock EXCEPT !.step = "files"]
    /\ UNCHANGED <<up, dirs, outputs, now, born, sends>>

Outdated(m) == {i \in Known(m) : HistoryExpired(m.task[i])}

\* Files go by the index in memory; whole directories before their rows.
CleanFiles ==
    /\ up /\ lock.step = "files"
    /\ outputs' = outputs \ {i \in Known(mem) :
                       mem.task[i].state \in Terminal /\ ResultExpired(mem.task[i])}
    /\ dirs' = dirs \ Outdated(mem)
    /\ lock' = [lock EXCEPT !.step = "history"]
    /\ UNCHANGED <<up, mem, db, now, born, sends>>

AfterCleanup == CASE lock.op = "start" -> [lock EXCEPT !.step = "admit"]
                  [] lock.op = "boot" -> [lock EXCEPT !.step = "save"]
                  [] OTHER -> Unlocked

Forget(m, S) == [m EXCEPT !.task = [i \in Ids |-> IF i \in S THEN NoTask ELSE m.task[i]]]

CleanHistory ==
    /\ up /\ lock.step = "history"
    /\ IF Outdated(mem) = {} THEN UNCHANGED <<mem, db>>
       ELSE Save(Forget(mem, Outdated(mem)), db)
    /\ lock' = AfterCleanup
    /\ UNCHANGED <<up, dirs, outputs, now, born, sends>>

-----------------------------------------------------------------------------
(* Operations on a request *)

\* Mutant: memory runs ahead of a transaction that fails.
Update_Ahead(i, t, d) == \/ Save([mem EXCEPT !.task[i] = t], d)
                         \/ mem' = [mem EXCEPT !.task[i] = t] /\ UNCHANGED db

Update(i, t, d) == Save([mem EXCEPT !.task[i] = t], d)

\* UpdateStage and AttachUsage: display fields only, yet the save writes the
\* whole task row, with whatever memory knows and the disk does not.
Touch(i) ==
    /\ Idle /\ mem.task[i].state \in Active
    /\ Save(mem, db)
    /\ UNCHANGED <<up, dirs, outputs, lock, now, born, sends>>

AttachThread(i, t) ==
    /\ Idle /\ mem.task[i].state = "running"
    /\ mem.task[i].thread \in {None, t}
    /\ Update(i, [mem.task[i] EXCEPT !.thread = t], db)
    /\ UNCHANGED <<up, dirs, outputs, lock, now, born, sends>>

AttachTurn(i, u) ==
    /\ Idle /\ i \in Known(mem)
    /\ mem.task[i].turn = None
    /\ Update(i, [mem.task[i] EXCEPT !.turn = u], db)
    /\ UNCHANGED <<up, dirs, outputs, lock, now, born, sends>>

AttachInput(i) ==
    /\ Idle /\ mem.task[i].state = "running" /\ mem.task[i].pending
    /\ db.input[i] # "none"
    /\ Update(i, [mem.task[i] EXCEPT !.pending = FALSE], [db EXCEPT !.input[i] = "ready"])
    /\ UNCHANGED <<up, dirs, outputs, lock, now, born, sends>>

\* Mutant: the reply is counted twice.
Completed_DoubleReply(t, reply) ==
    [t EXCEPT !.completedAt = now, !.archiveFailed = TRUE, !.bytes = MaxTaskBytes + 2 * reply]

Completed(t, reply) == [t EXCEPT !.completedAt = now, !.archiveFailed = TRUE,
                                 !.bytes = MaxTaskBytes + reply]

\* The runner, the only caller, completes a request once: completedAt = 0.
CompleteExecution(i, reply) ==
    /\ Idle /\ mem.task[i].state = "running" /\ mem.task[i].completedAt = 0
    /\ Update(i, Completed(mem.task[i], reply), [db EXCEPT !.completion[i] = [at |-> now, reply |-> reply]])
    /\ UNCHANGED <<up, dirs, outputs, lock, now, born, sends>>

\* The transaction failed: the fact is kept in memory only.
CompleteExecutionUnsaved(i, reply) ==
    /\ Idle /\ mem.task[i].state = "running" /\ mem.task[i].completedAt = 0
    /\ mem' = [mem EXCEPT !.task[i] = Completed(mem.task[i], reply)]
    /\ UNCHANGED <<up, db, dirs, outputs, lock, now, born, sends>>

Frozen(t, size) ==
    [t EXCEPT !.completedAt = IF t.completedAt = 0 THEN now ELSE t.completedAt,
              !.archiveFailed = FALSE, !.bytes = size]

FreezeResult(i, size, files) ==
    LET t == mem.task[i] IN
    /\ Idle /\ i \in dirs
    /\ t.state = "running" \/ (t.state = "succeeded" /\ t.archiveFailed)
    /\ ResultBytes(mem) - Reservation(t) + size <= MaxResultBytes
    /\ db.result[i].frozenAt = 0
    /\ Update(i, Frozen(t, size),
              [db EXCEPT !.result[i] = [NoResult EXCEPT !.frozenAt = now, !.size = size,
                                                        !.files = files],
                         !.completion[i] = NoCompletion])
    /\ outputs' = IF files THEN outputs \cup {i} ELSE outputs
    /\ UNCHANGED <<up, dirs, lock, now, born, sends>>

AllowedTransition(t, next) ==
    \/ t.state = "running" /\ next \in {"delivering", "failed", "interrupted", "cancelled"}
    \/ t.state = "delivering" /\ next \in {"succeeded", "failed", "interrupted"}
    \/ t.state = "running" /\ next = "succeeded" /\ t.completedAt # 0

\* Completed work ends as succeeded, whatever the caller reports of it.
EndState(t, next) == IF t.completedAt # 0 /\ next \in Terminal THEN "succeeded" ELSE next

Transition(i, next, unconfirmed, d) ==
    LET t == mem.task[i]
        end == EndState(t, next) IN
    /\ ~ (t.completedAt # 0 /\ next = "cancelled")
    /\ AllowedTransition(t, end)
    /\ Update(i, [t EXCEPT !.state = end, !.unconfirmed = unconfirmed /\ end = "failed",
                           !.finishedAt = IF end \in Terminal THEN now ELSE 0], d)

BeginDelivery(i) ==
    /\ Idle /\ mem.task[i].state = "running" /\ Loadable(i)
    /\ Transition(i, "delivering", FALSE, db)
    /\ sends' = [sends EXCEPT ![i][None] = @ + 1]
    /\ UNCHANGED <<up, dirs, outputs, lock, now, born>>

Finish(i, next, unconfirmed) ==
    /\ Idle /\ next \in Terminal
    /\ Transition(i, next, unconfirmed, db)
    /\ UNCHANGED <<up, dirs, outputs, lock, now, born, sends>>

\* The first receipt and the terminal state are one transaction.
CompleteDelivery(i, outcome) ==
    LET r == db.result[i] IN
    /\ Idle /\ mem.task[i].state = "delivering"
    /\ ~ ResultExpired(mem.task[i]) /\ r.frozenAt # 0
    /\ Transition(i, "succeeded", FALSE,
         [db EXCEPT !.result[i].receipt = outcome,
                    !.result[i].attempts[None] =
                        IF \A o \in AllOps : r.attempts[o] = "none" THEN outcome ELSE @])
    /\ UNCHANGED <<up, dirs, outputs, lock, now, born, sends>>

Attempted(r) == {o \in AllOps : r.attempts[o] # "none"}

\* Mutant: the operation is not recorded before the send.
BeginRedelivery_SendFirst(i, o) ==
    /\ Idle /\ mem.task[i].state = "succeeded" /\ ~ ResultExpired(mem.task[i])
    /\ Loadable(i)
    /\ db.result[i].attempts[o] = "none"
    /\ sends' = [sends EXCEPT ![i][o] = @ + 1]
    /\ UNCHANGED <<up, mem, db, dirs, outputs, lock, now, born>>

\* The operation is recorded as unconfirmed before anything is sent.
BeginRedelivery(i, o) ==
    LET r == db.result[i] IN
    /\ Idle /\ mem.task[i].state = "succeeded" /\ ~ ResultExpired(mem.task[i])
    /\ Loadable(i)
    /\ r.attempts[o] = "none" /\ Cardinality(Attempted(r)) < MaxAttempts
    /\ db' = [db EXCEPT !.result[i].receipt = "ambiguous",
                        !.result[i].attempts[o] = "ambiguous"]
    /\ sends' = [sends EXCEPT ![i][o] = @ + 1]
    /\ UNCHANGED <<up, mem, dirs, outputs, lock, now, born>>

RecordDelivery(i, o, outcome) ==
    /\ Idle /\ mem.task[i].completedAt # 0 /\ ~ ResultExpired(mem.task[i])
    /\ db.result[i].frozenAt # 0 /\ db.result[i].attempts[o] # "none"
    /\ db' = [db EXCEPT !.result[i].receipt = outcome, !.result[i].attempts[o] = outcome]
    /\ UNCHANGED <<up, mem, dirs, outputs, lock, now, born, sends>>

\* Mutant: the request is forgotten without a receipt for its source.
Release_NoReceipt(i) ==
    /\ Idle /\ mem.task[i].state \in Terminal
    /\ Save(Forget(mem, {i}), db)
    /\ lock' = [Unlocked EXCEPT !.op = "release", !.step = "remove", !.id = i]
    /\ UNCHANGED <<up, dirs, outputs, now, born, sends>>

\* Release: the source receipt replaces the row, then the files go.
Release(i) ==
    LET t == mem.task[i] IN
    /\ Idle /\ t.state \in Terminal
    /\ Save([Forget(mem, {i}) EXCEPT !.cleared[t.source] = t.finishedAt], db)
    /\ lock' = [Unlocked EXCEPT !.op = "release", !.step = "remove", !.id = i]
    /\ UNCHANGED <<up, dirs, outputs, now, born, sends>>

ReleaseFiles ==
    /\ up /\ lock.step = "remove"
    /\ dirs' = dirs \ {lock.id}
    /\ outputs' = outputs \ {lock.id}
    /\ lock' = Unlocked
    /\ UNCHANGED <<up, mem, db, now, born, sends>>

Reject(s) ==
    /\ Idle /\ mem.rejected[s] = 0
    /\ Save([mem EXCEPT !.rejected = [DropOld(mem.rejected) EXCEPT ![s] = now]], db)
    /\ UNCHANGED <<up, dirs, outputs, lock, now, born, sends>>

-----------------------------------------------------------------------------
(* Crash and startup *)

Crash ==
    /\ up
    /\ up' = FALSE /\ mem' = EmptyIndex /\ lock' = Unlocked
    /\ UNCHANGED <<db, dirs, outputs, now, born, sends>>

\* A transaction or a file operation of a longer operation failed, or the
\* input store is full.  Start removes the files it staged; a failure on the
\* startup path ends the process.
StepFails ==
    /\ up /\ lock.step \in {"rows", "receipts", "files", "history", "admit", "commit", "save"}
    /\ dirs' = IF lock.step = "commit" THEN dirs \ {lock.id} ELSE dirs
    /\ IF lock.op = "boot" THEN up' = FALSE /\ mem' = EmptyIndex ELSE UNCHANGED <<up, mem>>
    /\ lock' = Unlocked
    /\ UNCHANGED <<db, outputs, now, born, sends>>

Boot ==
    /\ ~ up
    /\ ValidIndex(Stored)
    /\ mem' = Stored
    /\ lock' = [Unlocked EXCEPT !.op = "boot", !.step = "recover", !.todo = Known(Stored)]
    /\ up' = TRUE
    /\ UNCHANGED <<db, dirs, outputs, now, born, sends>>

\* A checkpoint row restores the fact that the execution completed.
Checkpointed(t, i) ==
    IF t.state \in Active /\ t.completedAt = 0 /\ db.completion[i].at # 0
    THEN [t EXCEPT !.completedAt = db.completion[i].at, !.archiveFailed = TRUE,
                   !.bytes = MaxTaskBytes + db.completion[i].reply]
    ELSE t

\* Mutant: everything that was active is interrupted and starts over.
Recovered_Resets(t, i) ==
    IF t.state \notin Active THEN t
    ELSE [t EXCEPT !.state = "interrupted", !.finishedAt = now, !.completedAt = 0,
                   !.archiveFailed = FALSE, !.bytes = 0]

\* What startup makes of one stored request.
Recovered(t, i) ==
    LET c == Checkpointed(t, i) IN
    CASE t.state \notin Active -> t
      [] t.state \in Active /\ Loadable(i) ->
            [t EXCEPT !.state = "succeeded", !.unconfirmed = FALSE, !.finishedAt = now,
                      !.completedAt = db.result[i].frozenAt, !.archiveFailed = FALSE,
                      !.bytes = db.result[i].size]
      [] t.state \in Active /\ ~ Loadable(i) ->
            [c EXCEPT !.state = IF c.completedAt # 0 THEN "succeeded" ELSE "interrupted",
                      !.unconfirmed = FALSE, !.finishedAt = now]

\* Startup gives up on this request, and with it on the whole service.
BootBlocked(t, i) ==
    LET c == Checkpointed(t, i) IN
    \/ t.state = "succeeded" /\ ~ t.archiveFailed /\ ~ ResultExpired(t)
       /\ db.result[i].frozenAt = 0
    \/ t.state \in Active /\ ~ Loadable(i)
       /\ (c.completedAt # 0 \/ t.state = "delivering") /\ ~ c.archiveFailed
    \/ t.state # "absent" /\ HasPayload(Recovered(t, i))
       /\ (i \notin dirs \/ db.input[i] = "none")

\* Mutant: results restored after the fact are not looked at.
Settled_ActiveOnly(t, i) ==
    IF t.state \in Active /\ Loadable(i) /\ db.result[i].receipt = "pending"
    THEN [db.result[i] EXCEPT !.receipt = "ambiguous"] ELSE db.result[i]

\* A send that was in flight when the process died is unconfirmed.
Settled(t, i) ==
    LET r == db.result[i] IN
    IF r.frozenAt = 0 \/ r.receipt # "pending" THEN r
    ELSE IF t.state \in Active /\ Loadable(i) THEN [r EXCEPT !.receipt = "ambiguous"]
    ELSE IF t.state = "succeeded" /\ ~ t.archiveFailed /\ ~ ResultExpired(t)
         THEN [r EXCEPT !.receipt = "ambiguous", !.attempts[None] = "ambiguous"]
    ELSE r

RecoverTask(i) ==
    LET t == mem.task[i] IN
    /\ up /\ lock.step = "recover" /\ i \in lock.todo
    /\ db' = [db EXCEPT !.result[i] = Settled(t, i)]
    /\ IF BootBlocked(t, i)
       THEN up' = FALSE /\ mem' = EmptyIndex /\ lock' = Unlocked
       ELSE /\ mem' = [mem EXCEPT !.task[i] = Recovered(t, i)]
            /\ lock' = [lock EXCEPT !.todo = @ \ {i}]
            /\ up' = up
    /\ UNCHANGED <<dirs, outputs, now, born, sends>>

\* Directories no request owns are leftovers of an interrupted operation.
SweepOrphans ==
    /\ up /\ lock.step = "recover" /\ lock.todo = {}
    /\ dirs' = dirs \cap Known(mem)
    /\ outputs' = outputs \cap Known(mem)
    /\ lock' = [lock EXCEPT !.step = "rows"]
    /\ UNCHANGED <<up, mem, db, now, born, sends>>

BootSave ==
    /\ up /\ lock.op = "boot" /\ lock.step = "save"
    /\ Save(mem, db)
    /\ lock' = Unlocked
    /\ UNCHANGED <<up, dirs, outputs, now, born, sends>>

-----------------------------------------------------------------------------
(* Environment *)

Tick ==
    /\ lock = Unlocked /\ now < MaxTime
    /\ now' = now + 1
    /\ UNCHANGED <<up, mem, db, dirs, outputs, lock, born, sends>>

\* Someone edits or removes a registered output file.
Damage(i) ==
    /\ i \in Damageable /\ i \in outputs
    /\ outputs' = outputs \ {i}
    /\ UNCHANGED <<up, mem, db, dirs, lock, now, born, sends>>

-----------------------------------------------------------------------------

Init ==
    /\ up = FALSE /\ mem = EmptyIndex /\ lock = Unlocked
    /\ db = Persist([input |-> [i \in Ids |-> "none"],
                     completion |-> [i \in Ids |-> NoCompletion],
                     result |-> [i \in Ids |-> NoResult]], EmptyIndex)
    /\ dirs = {} /\ outputs = {} /\ now = 1
    /\ born = [i \in Ids |-> [source |-> None, at |-> 0]]
    /\ sends = [i \in Ids |-> [o \in AllOps |-> 0]]

Next ==
    \/ \E s \in Sources, g \in Targets, t \in Threads \cup {None}, p \in Pendings : Start(s, g, t, p)
    \/ \E o \in Ids, s \in Sources : Retry(o, s)
    \/ AdmitRefused \/ AdmitBusy \/ StartCommit
    \/ \E i \in Ids : AdmitStage(i)
    \/ CleanupExpired \/ CleanRows \/ CleanReceipts \/ CleanFiles \/ CleanHistory
    \/ \E i \in Ids : Touch(i) \/ AttachInput(i) \/ BeginDelivery(i) \/ Release(i)
    \/ \E i \in Ids, t \in Threads : AttachThread(i, t)
    \/ \E i \in Ids, u \in Turns : AttachTurn(i, u)
    \/ \E i \in Ids, reply \in 0 .. MaxReplyBytes :
          CompleteExecution(i, reply) \/ CompleteExecutionUnsaved(i, reply)
    \/ \E i \in Ids, size \in Bytes \ {0}, files \in BOOLEAN : FreezeResult(i, size, files)
    \/ \E i \in Ids, next \in Terminal, u \in BOOLEAN : Finish(i, next, u)
    \/ \E i \in Ids, outcome \in SendOutcomes : CompleteDelivery(i, outcome)
    \/ \E i \in Ids, o \in Ops : BeginRedelivery(i, o)
    \/ \E i \in Ids, o \in Ops, outcome \in SendOutcomes : RecordDelivery(i, o, outcome)
    \/ ReleaseFiles
    \/ \E s \in Sources : Reject(s)
    \/ Crash \/ StepFails \/ Boot \/ SweepOrphans \/ BootSave
    \/ \E i \in Ids : RecoverTask(i) \/ Damage(i)
    \/ Tick

Spec == Init /\ [][Next]_vars

-----------------------------------------------------------------------------
(* Properties *)

Index == [task: [Ids -> Task], rejected: [Sources -> Time], cleared: [Sources -> Time]]

Database == [task: [Ids -> Task], rejected: [Sources -> Time], cleared: [Sources -> Time],
             input: [Ids -> {"none", "raw", "ready"}], completion: [Ids -> Completion],
             result: [Ids -> Result]]

Lock == [op: {"none", "start", "cleanup", "boot", "release"},
         step: {"none", "recover", "rows", "receipts", "files", "history", "admit",
                "commit", "save", "remove"},
         todo: SUBSET Ids, request: Request, id: Ids \cup {None}]

\* Type invariant: every variable holds what the Go types and the SQLite
\* column checks of the store admit.
TypeOK ==
    /\ up \in BOOLEAN
    /\ mem \in Index
    /\ db \in Database
    /\ dirs \in SUBSET Ids
    /\ outputs \in SUBSET Ids
    /\ lock \in Lock
    /\ now \in Time
    /\ born \in [Ids -> [source: Sources \cup {None}, at: Time]]
    /\ sends \in [Ids -> [AllOps -> Nat]]

\* A message or operation key is executed at most once while its history is
\* kept: no second request is admitted for the source of an earlier one, or
\* for a source that was refused, across failed saves, Release, cleanup,
\* crashes and restarts (Start, Release, rejectLocked).
OneFatePerSource ==
    /\ \A i, j \in Ids : i # j /\ born[i].at # 0 /\ born[i].at <= born[j].at
          /\ born[i].source = born[j].source => born[j].at - born[i].at >= HistoryRetention
    /\ \A i \in Ids, s \in Sources : born[i].source = s /\ db.rejected[s] # 0 =>
          db.rejected[s] - born[i].at >= HistoryRetention

\* Whatever instant the process dies at, the next startup loads the index
\* and is not stopped by a request whose result is still within retention:
\* its rows, input and files are those recoverLocked insists on.  A request
\* whose registered files somebody else may spoil is not covered: startup
\* refuses it on purpose.
RestartSafe ==
    /\ ValidIndex(Stored)
    /\ \A i \in Ids \ Damageable : BootBlocked(db.task[i], i) =>
          /\ db.task[i].state \in Active
          /\ db.result[i].frozenAt # 0
          /\ db.result[i].frozenAt + ResultRetention <= now

\* At most one active request per session, in memory and on disk: neither
\* Start nor a thread attached later (AttachThread) puts two into one.
OneActivePerSession ==
    \A m \in {mem, Stored} : \A i, j \in Ids :
        i # j /\ m.task[i].state \in Active /\ m.task[j].state \in Active =>
            SessionKey(m.task[i]) # SessionKey(m.task[j])

\* The durable status of a request, for RequestLifecycle.
Status(t, i) ==
    CASE t.state = "absent" -> IF born[i].at = 0 THEN "unborn" ELSE "forgotten"
      [] t.state = "running" -> IF t.completedAt = 0 THEN "executing" ELSE "completed"
      [] OTHER -> t.state

Lifecycle == INSTANCE RequestLifecycle WITH status <- [i \in Ids |-> Status(db.task[i], i)]

\* The store implements the life cycle it promises: completed work is never
\* failed, interrupted or cancelled afterwards, cancellation only stops work
\* that was executing, an ended request stays as it ended, and crashes,
\* failed saves and startups add no other transition.
ImplementsLifecycle == Lifecycle!Spec

\* Work that completed, succeeded, was cancelled or may still be running
\* upstream is never the origin of a retry, even if the completion could not
\* be stored and was known to memory alone.
RetryOnlyUnfinished ==
    \A i, o \in Ids : up /\ mem.task[i].state # "absent" /\ mem.task[i].retryOf = o
        /\ mem.task[o].state # "absent" =>
            /\ mem.task[o].state \in {"failed", "interrupted"}
            /\ mem.task[o].completedAt = 0 /\ ~ mem.task[o].unconfirmed

\* Each delivery operation, the first delivery included, starts at most one
\* send: it is on disk before the send and survives crash and restart.
SentAtMostOnce == \A i \in Ids, o \in AllOps : sends[i][o] <= 1

\* Once a startup is over no kept result still claims that nothing was sent:
\* an interrupted delivery is shown as unconfirmed.
RestartSettlesDelivery ==
    [][lock.op = "boot" /\ lock.step = "save" /\ up' /\ lock' = Unlocked =>
          \A i \in Ids : db'.result[i].frozenAt # 0 /\ ~ ResultExpired(db'.task[i]) =>
              db'.result[i].receipt # "pending"]_vars

\* CompleteExecution could not save what it knows.
Unsaved(i) ==
    /\ lock.op # "boot"
    /\ db.task[i].state = "running" /\ db.task[i].completedAt = 0
    /\ mem.task[i].state = "running" /\ mem.task[i].completedAt # 0

\* Startup has decided the fate of a request and not saved it yet.
Recovering(i) ==
    /\ lock.op = "boot" /\ db.task[i].state \in Active /\ mem.task[i].finishedAt = now
    /\ \/ mem.task[i].state = "succeeded"
       \/ /\ mem.task[i].state = "interrupted"
          /\ db.task[i].state = "running" /\ db.task[i].completedAt = 0

\* The index in memory never runs ahead of a transaction: it is the stored
\* one but for a completion that could not be saved (the one fact the code
\* keeps in memory on purpose) and for what startup has not saved yet.
MemoryFollowsDisk ==
    up => \A i \in Ids : mem.task[i] = db.task[i] \/ Unsaved(i) \/ Recovering(i)

\* A request that succeeded after the whole result retention had passed
\* since its admission.  Only of these may startup bring a result back that
\* had expired: it counts the retention anew, from the freezing on.
Overdue(m, i) == /\ m.task[i].state = "succeeded"
                 /\ born[i].at + ResultRetention <= m.task[i].finishedAt

Counted(m) == [i \in Ids |-> IF Overdue(m, i) THEN 0 ELSE Reservation(m.task[i])]

\* The results kept and the space reserved for running work never exceed the
\* result quota, so finished work always finds room, whatever expires, is
\* released, frozen late or recovered by a startup; requests that were at
\* work for the whole retention of a result aside.
QuotaKept == up /\ lock = Unlocked => SumFunction(Counted(mem)) <= MaxResultBytes

=============================================================================
