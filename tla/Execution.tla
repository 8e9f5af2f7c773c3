----------------------------- MODULE Execution -----------------------------
(***************************************************************************)
(* Admission, execution, cancellation and shutdown of work                 *)
(* (internal/core/execution, with the two ways in: a WeChat message, and a *)
(* recovery operation that retries an earlier request).                    *)
(*                                                                         *)
(* A call is one invocation of startCodexTask or Runtime.Retry.  Handlers  *)
(* run concurrently, and so does the executor goroutine a handler          *)
(* launches; a call is followed through both (Targets has archiving, the   *)
(* third user of the admission table).  A step                             *)
(* is what happens under one lock (Coordinator.mu, the request store, the  *)
(* target store) or one remote call.  The request a call creates carries   *)
(* the name of the call.                                                   *)
(*                                                                         *)
(* The request store appears as the operations RequestStore specifies,     *)
(* each atomic and each able to fail to save; what a crash or a shutdown   *)
(* leaves behind is what recoverLocked makes of it.  Codex is external:    *)
(* its threads and turns are known from how the code uses them.            *)
(***************************************************************************)
EXTENDS Naturals, FiniteSets

CONSTANTS
    Messages,     \* calls of startCodexTask
    Retries,      \* calls of Runtime.Retry
    Source,       \* message key or recovery operation key of each call
    Targets,      \* conversation intents
    Threads,      \* native Codex threads
    None,
    MaxFaults,    \* bound: failed saves
    MaxRestarts   \* bound: crashes and shutdowns

Calls == Messages \cup Retries
Sources == {Source[c] : c \in Calls}

ASSUME CallAssumption ==
    /\ Messages \cap Retries = {} /\ DOMAIN Source = Calls
    /\ None \notin Calls \cup Sources \cup Targets \cup Threads
    /\ \A m \in Messages, r \in Retries : Source[m] # Source[r]
    /\ MaxFaults \in Nat /\ MaxRestarts \in Nat

VARIABLES
    pc,        \* where each call is
    call,      \* what a call captured: target, thread, origin of a retry
    adm,       \* the Admission of each call
    work,      \* the executor's own copy of the thread and of what it still has to record
    out,       \* what chatTurn returned
    req,       \* the request index
    rejected,  \* sources with a rejection receipt
    bound,     \* thread of each intent
    made,      \* threads Codex has
    turn,      \* the native turn a call started
    service,   \* "up", "draining" or "stopping"
    faults, restarts,
    asked,     \* history: requests whose cancellation was accepted
    turns      \* history: turns started per source

vars == <<pc, call, adm, work, out, req, rejected, bound, made, turn,
          service, faults, restarts, asked, turns>>

handler == <<pc, call, adm, work, out>>
store == <<req, rejected>>
codex == <<bound, made, turn>>
life == <<service, faults, restarts>>
history == <<asked, turns>>

-----------------------------------------------------------------------------

Active == {"running", "delivering"}
Terminal == {"succeeded", "failed", "interrupted", "cancelled"}

NoCall == [target |-> None, thread |-> None, origin |-> None]
NoAdmission == [held |-> FALSE, launched |-> FALSE, cancelRequested |-> FALSE,
                finalizing |-> FALSE, task |-> None]
NoWork == [thread |-> None, unresolved |-> FALSE, unattached |-> FALSE]
NoRequest == [state |-> "absent", target |-> None, thread |-> None, completed |-> FALSE,
              saved |-> FALSE, unconfirmed |-> FALSE, retryOf |-> None]

Handling == {"capture", "begin", "activity", "start", "launch", "reject"}
Executing == {"prepare", "outbox", "open", "bind", "attach", "turn", "collect", "finalize",
              "abort", "fail", "unconfirmed", "cancel", "complete", "freeze", "deliver",
              "send", "exit"}

\* The request call c's executor works on.
Task(c) == adm[c].task

Held == {a \in Calls : adm[a].held}

\* Mutant: the admission's context is not derived from the coordinator's.
Cancelled_ByUserOnly(c) == adm[c].cancelRequested

\* a.ctx is done: the user cancelled it or the coordinator is shutting down.
Cancelled(c) == adm[c].cancelRequested \/ service = "stopping"

\* Store.Active.
ActiveIn(g, t) == {i \in Calls : /\ req[i].state \in Active
                                 /\ \/ g # None /\ req[i].target = g
                                    \/ t # None /\ req[i].thread = t}

SameSource(c) == {i \in Calls : req[i].state # "absent" /\ Source[i] = Source[c]}

SessionKey(r) == IF r.thread # None THEN <<"thread", r.thread>> ELSE <<"intent", r.target>>

\* Mutant: intents are compared, the threads they lead to are not.
SessionFree_IntentOnly(r, others) ==
    \A i \in others : req[i].state \in Active => req[i].target # r.target

\* validateIndex: one active request per session.
SessionFree(r, others) == \A i \in others : req[i].state \in Active => SessionKey(req[i]) # SessionKey(r)

\* Mutant: what Codex itself is doing is not asked.
NativeBusy_Unasked(t) == FALSE

\* The status Codex reports of a thread.
NativeBusy(t) == \E c \in Calls : turn[c] = "active" /\ work[c].thread = t

\* A save of the request store may fail, MaxFaults times.
SaveFails == faults < MaxFaults /\ faults' = faults + 1

Goto(c, l) == pc' = [pc EXCEPT ![c] = l]

\* Admission.Release of a call that launched nothing.
Leave(c) == /\ Goto(c, "done")
            /\ adm' = [adm EXCEPT ![c].held = FALSE]

-----------------------------------------------------------------------------
(* The way in *)

\* startCodexTask: a source that already has a request is only shown.
ReceiveMessage(c) ==
    /\ c \in Messages /\ pc[c] = "idle"
    /\ Goto(c, IF SameSource(c) # {} THEN "done" ELSE "capture")
    /\ UNCHANGED <<call, adm, work, out, store, codex, life, history>>

\* targets.Capture: whichever intent is current when the call gets there.
Capture(c, g) ==
    /\ pc[c] = "capture"
    /\ call' = [call EXCEPT ![c] = [target |-> g, thread |-> bound[g], origin |-> None]]
    /\ Goto(c, "begin")
    /\ UNCHANGED <<adm, work, out, store, codex, life, history>>

\* Runtime.Retry up to Begin, for request o.
ReceiveRetry(c, o) ==
    /\ c \in Retries /\ pc[c] = "idle" /\ req[o].state # "absent" /\ o # c
    /\ call' = [call EXCEPT ![c] = [target |-> req[o].target, thread |-> req[o].thread,
                                    origin |-> o]]
    /\ Goto(c, IF SameSource(c) # {} \/ Source[c] \in rejected THEN "done" ELSE "begin")
    /\ UNCHANGED <<adm, work, out, store, codex, life, history>>

DuplicateOf(c) == {a \in Held : Source[a] = Source[c]}

\* The admissions begin meets that hold the session of call c.
OccupiedBy(c) ==
    {a \in Held : \/ call[c].target # None /\ call[a].target = call[c].target
                  \/ call[c].thread # None
                     /\ \/ call[a].thread = call[c].thread
                        \/ Task(a) # None /\ req[Task(a)].thread = call[c].thread}

Closed == service # "up"

StoreBusy(c) == ActiveIn(call[c].target, call[c].thread) # {}

\* The loop over the active admissions visits them in any order, so a call
\* that is a duplicate of one and shares the session of another may be told
\* either.
BeginRefused(c) ==
    /\ pc[c] = "begin"
    /\ Closed \/ DuplicateOf(c) # {}
    /\ Goto(c, "done")
    /\ UNCHANGED <<call, adm, work, out, store, codex, life, history>>

BeginBusy(c) ==
    /\ pc[c] = "begin" /\ ~ Closed
    /\ \/ OccupiedBy(c) \ DuplicateOf(c) # {}
       \/ DuplicateOf(c) = {} /\ StoreBusy(c)
    /\ Goto(c, "reject")
    /\ UNCHANGED <<call, adm, work, out, store, codex, life, history>>

BeginAdmitted(c) ==
    /\ pc[c] = "begin" /\ ~ Closed
    /\ DuplicateOf(c) = {} /\ OccupiedBy(c) = {} /\ ~ StoreBusy(c)
    /\ adm' = [adm EXCEPT ![c] = [NoAdmission EXCEPT !.held = TRUE]]
    /\ Goto(c, "activity")
    /\ UNCHANGED <<call, work, out, store, codex, life, history>>

\* sessionActivity reads the intent again and asks the store, then Codex.
Activity(c) ==
    LET g == call[c].target
        t == IF call[c].thread = None THEN bound[g] ELSE call[c].thread
        moved == bound[g] # None /\ t # bound[g]
        busy == ActiveIn(g, t) # {} \/ NativeBusy(t) IN
    /\ pc[c] = "activity"
    /\ \/ ~ moved /\ ~ busy /\ Goto(c, "start") /\ UNCHANGED adm
       \/ ~ moved /\ busy /\ Goto(c, "reject") /\ UNCHANGED adm
       \/ Leave(c)                  \* status unavailable, or an invalid message
    /\ UNCHANGED <<call, work, out, store, codex, life, history>>

\* validateIndex: a source has a request or a receipt, never both.
Rejectable(c) == SameSource(c) = {}

\* rejectBusy saves the receipt; the instruction will never run.
Reject(c) ==
    /\ pc[c] = "reject"
    /\ rejected' = IF Rejectable(c) THEN rejected \cup {Source[c]} ELSE rejected
    /\ Leave(c)
    /\ UNCHANGED <<call, work, out, req, codex, life, history>>

-----------------------------------------------------------------------------
(* tasks.Start and tasks.Retry, then Launch *)

Retryable(o) == /\ req[o].state \in {"failed", "interrupted"}
                /\ ~ req[o].completed /\ ~ req[o].unconfirmed

\* Mutant: work is recorded as waiting, a state the index does not know.
NewRequest_Queued(c) == [NoRequest EXCEPT !.state = "queued", !.target = call[c].target,
                                          !.thread = call[c].thread, !.retryOf = call[c].origin]

NewRequest(c) == [NoRequest EXCEPT !.state = "running", !.target = call[c].target,
                                   !.thread = call[c].thread, !.retryOf = call[c].origin]

StartTask(c) ==
    LET r == IF c \in Retries
             THEN [NewRequest(c) EXCEPT !.thread = req[call[c].origin].thread]
             ELSE NewRequest(c) IN
    /\ pc[c] = "start"
    /\ c \in Retries => Retryable(call[c].origin)
    /\ SameSource(c) = {} /\ Source[c] \notin rejected
    /\ IF SessionFree(r, Calls)
       THEN /\ req' = [req EXCEPT ![c] = r]
            /\ adm' = adm /\ rejected' = rejected
            /\ Goto(c, "launch")
       ELSE /\ rejected' = rejected \cup {Source[c]}
            /\ req' = req /\ Leave(c)
    /\ UNCHANGED <<call, work, out, codex, life, history>>

\* The request an earlier call with the same recovery operation created.
Existing(c) == {i \in SameSource(c) : /\ c \in Retries /\ Retryable(call[c].origin)
                                      /\ req[i].retryOf = call[c].origin}

\* A source known by now, a request that may not be retried, or a failure.
StartRefused(c) ==
    /\ pc[c] = "start" /\ Existing(c) = {}
    /\ Leave(c)
    /\ UNCHANGED <<call, work, out, store, codex, life, history>>

LaunchOn(c, i) ==
    /\ adm' = [adm EXCEPT ![c].task = i, ![c].launched = TRUE]
    /\ work' = [work EXCEPT ![c] = [NoWork EXCEPT !.thread = req[i].thread]]
    /\ Goto(c, "prepare")
    /\ UNCHANGED <<call, out, store, codex, life, history>>

Launch(c) == pc[c] = "launch" /\ LaunchOn(c, c)

\* Runtime.Retry launches whatever request tasks.Retry returns.
LaunchExisting(c) == pc[c] = "start" /\ \E i \in Existing(c) : LaunchOn(c, i)

-----------------------------------------------------------------------------
(* Runner.Execute *)

\* LoadRequest, the workspace, the channel's Prepare (attachments); the
\* context is looked at once more when it returns.
Prepare(c) ==
    /\ pc[c] = "prepare"
    /\ \/ ~ Cancelled(c) /\ Goto(c, "outbox")
       \/ Goto(c, "abort")
    /\ UNCHANGED <<call, adm, work, out, store, codex, life, history>>

\* Mutant: the directory is handed out whatever the request's state.
OutboxReady_Always(i) == TRUE

OutboxReady(i) == req[i].state = "running"

PrepareOutbox(c) ==
    /\ pc[c] = "outbox"
    /\ Goto(c, IF OutboxReady(Task(c)) THEN "open" ELSE "abort")
    /\ UNCHANGED <<call, adm, work, out, store, codex, life, history>>

\* targets.Resolve and OpenTaskThread: the bound thread, or a new one.
OpenThread(c, t) ==
    LET g == req[Task(c)].target
        wanted == IF work[c].thread = None THEN bound[g] ELSE work[c].thread IN
    /\ pc[c] = "open"
    /\ IF wanted = None THEN t \notin made ELSE t = wanted /\ ~ NativeBusy(t)
    /\ made' = made \cup {t}
    /\ work' = [work EXCEPT ![c] = [thread |-> t, unresolved |-> bound[g] = None,
                                    unattached |-> work[c].thread = None]]
    /\ Goto(c, "bind")
    /\ UNCHANGED <<call, adm, out, store, bound, turn, life, history>>

\* The thread is unavailable or busy, or a remote call or a save failed.
StepFails(c) ==
    /\ pc[c] \in {"open", "bind", "attach"}
    /\ Goto(c, "abort")
    /\ UNCHANGED <<call, adm, work, out, store, codex, life, history>>

Bind(c) ==
    LET g == req[Task(c)].target IN
    /\ pc[c] = "bind"
    /\ IF work[c].unresolved
       THEN bound[g] \in {None, work[c].thread} /\ bound' = [bound EXCEPT ![g] = work[c].thread]
       ELSE bound' = bound
    /\ Goto(c, "attach")
    /\ UNCHANGED <<call, adm, work, out, store, made, turn, life, history>>

AttachThread(c) ==
    LET i == Task(c)
        r == [req[i] EXCEPT !.thread = work[c].thread] IN
    /\ pc[c] = "attach"
    /\ IF work[c].unattached
       THEN /\ req[i].state = "running" /\ req[i].thread \in {None, work[c].thread}
            /\ SessionFree(r, Calls \ {i})
            /\ req' = [req EXCEPT ![i] = r]
       ELSE req' = req
    /\ Goto(c, "turn")
    /\ UNCHANGED <<call, adm, work, out, rejected, codex, life, history>>

\* chatTurn: the status it has been notified of may lag, so only the turn
\* channel of the thread is sure to keep another turn out.  turn/start is sent
\* whether or not the user cancelled meanwhile, and its answer may be lost
\* although Codex started the turn.
StartTurn(c) ==
    /\ pc[c] = "turn"
    /\ \A a \in Calls \ {c} : pc[a] = "collect" => work[a].thread # work[c].thread
    /\ turn' = [turn EXCEPT ![c] = "active"]
    /\ turns' = [turns EXCEPT ![Source[Task(c)]] = @ + 1]
    /\ \/ Goto(c, "collect") /\ UNCHANGED out
       \/ Goto(c, "finalize") /\ out' = [out EXCEPT ![c] = "other"]
    /\ UNCHANGED <<call, adm, work, store, bound, made, life, asked>>

\* Codex is not ready, the thread is busy, or the call was refused.
TurnRefused(c) ==
    /\ pc[c] = "turn"
    /\ \/ out' = [out EXCEPT ![c] = "other"]
       \/ Cancelled(c) /\ out' = [out EXCEPT ![c] = "canceled"]
    /\ Goto(c, "finalize")
    /\ UNCHANGED <<call, adm, work, store, codex, life, history>>

\* What collectTurn returns for a turn that ended: a completed one may be
\* empty, which is an error, or its reply larger than the store accepts.
Outcomes(status) == CASE status = "completed" -> {"reply", "oversized", "other"}
                      [] status = "interrupted" -> {"interrupted"}
                      [] OTHER -> {"other"}

TurnEvent(c) ==
    /\ pc[c] = "collect" /\ turn[c] # "active"
    /\ \E o \in Outcomes(turn[c]) : out' = [out EXCEPT ![c] = o]
    /\ Goto(c, "finalize")
    /\ UNCHANGED <<call, adm, work, store, codex, life, history>>

\* Mutant: the confirmation is waited for without a limit.
Interrupt_Waits(c) ==
    /\ pc[c] = "collect" /\ Cancelled(c) /\ turn[c] # "active"
    /\ \E o \in Outcomes(turn[c]) : out' = [out EXCEPT ![c] = o]
    /\ Goto(c, "finalize")
    /\ UNCHANGED <<call, adm, work, store, codex, life, history>>

\* interruptAndConfirm: the turn's own status decides, within twelve seconds.
Interrupt(c) ==
    /\ pc[c] = "collect" /\ Cancelled(c)
    /\ \/ /\ turn' = [turn EXCEPT ![c] = IF @ = "active" THEN "interrupted" ELSE @]
          /\ \E o \in IF turn'[c] = "completed" THEN {"reply", "oversized"} ELSE Outcomes(turn'[c]) :
                out' = [out EXCEPT ![c] = o]
       \/ turn' = turn /\ out' = [out EXCEPT ![c] = "unconfirmed"]
    /\ Goto(c, "finalize")
    /\ UNCHANGED <<call, adm, work, store, bound, made, life, history>>

\* Mutant: a cancelled wait is no longer told from other errors.
AfterTurn_NoCanceled(c) ==
    CASE out[c] \in {"reply", "oversized"} -> "complete"
      [] adm[c].cancelRequested /\ out[c] = "unconfirmed" -> "unconfirmed"
      [] adm[c].cancelRequested /\ out[c] = "interrupted" -> "cancel"
      [] OTHER -> IF Cancelled(c) THEN "exit" ELSE "fail"

\* The switch on the error of the turn.  An error the cancellation did not
\* cause has no branch once the context is done.
AfterTurn(c) ==
    CASE out[c] \in {"reply", "oversized"} -> "complete"
      [] adm[c].cancelRequested /\ out[c] = "unconfirmed" -> "unconfirmed"
      [] adm[c].cancelRequested /\ out[c] \in {"interrupted", "canceled"} -> "cancel"
      [] OTHER -> IF Cancelled(c) THEN "exit" ELSE "fail"

\* finalize(): from here on Cancel refuses.
Finalize(c) ==
    /\ pc[c] \in {"finalize", "abort"}
    /\ adm' = [adm EXCEPT ![c].finalizing = TRUE]
    /\ Goto(c, IF pc[c] = "finalize" THEN AfterTurn(c)
               ELSE IF adm[c].cancelRequested THEN "cancel"
               ELSE IF Cancelled(c) THEN "exit" ELSE "fail")
    /\ UNCHANGED <<call, work, out, store, codex, life, history>>

\* Mutant: completed work ends as whatever the runner reports.
Ended_AsReported(r, next, unconfirmed) ==
    IF r.state \in Active THEN [r EXCEPT !.state = next, !.unconfirmed = unconfirmed] ELSE r

\* Store.Finish: completed work ends as succeeded and is never cancelled.
Ended(r, next, unconfirmed) ==
    IF r.state \notin Active \/ (r.completed /\ next = "cancelled") THEN r
    ELSE IF r.completed THEN [r EXCEPT !.state = "succeeded"]
    ELSE [r EXCEPT !.state = next, !.unconfirmed = unconfirmed]

Finish(c) ==
    LET i == Task(c) IN
    /\ pc[c] \in {"fail", "unconfirmed", "cancel"}
    /\ \/ /\ req' = [req EXCEPT ![i] = Ended(@, IF pc[c] = "cancel" THEN "cancelled" ELSE "failed",
                                             pc[c] = "unconfirmed")]
          /\ UNCHANGED faults
       \/ SaveFails /\ req' = req
    /\ Goto(c, "exit")
    /\ UNCHANGED <<call, adm, work, out, rejected, codex, service, restarts, history>>

\* CompleteExecution refuses an oversized reply without recording anything;
\* otherwise it keeps the fact in memory even if it cannot be saved.
Complete(c) ==
    LET i == Task(c) IN
    /\ pc[c] = "complete"
    /\ IF req[i].state # "running" \/ out[c] = "oversized" THEN Goto(c, "fail") /\ UNCHANGED <<req, faults>>
       ELSE \/ /\ req' = [req EXCEPT ![i].completed = TRUE, ![i].saved = TRUE]
               /\ Goto(c, "freeze") /\ UNCHANGED faults
            \/ /\ req' = [req EXCEPT ![i].completed = TRUE]
               /\ Goto(c, "fail") /\ SaveFails
    /\ UNCHANGED <<call, adm, work, out, rejected, codex, service, restarts, history>>

\* FreezeResult, then BeginDelivery; either may fail and leave it at that.
Freeze(c) ==
    /\ pc[c] = "freeze"
    /\ \/ Goto(c, "deliver")
       \/ Goto(c, "fail")
    /\ UNCHANGED <<call, adm, work, out, store, codex, life, history>>

BeginDelivery(c) ==
    /\ pc[c] = "deliver"
    /\ \/ req' = [req EXCEPT ![Task(c)].state = "delivering"] /\ Goto(c, "send") /\ UNCHANGED faults
       \/ req' = req /\ Goto(c, "fail") /\ SaveFails
    /\ UNCHANGED <<call, adm, work, out, rejected, codex, service, restarts, history>>

\* Deliver within thirty seconds whatever happens to ctx, then the receipt;
\* if that cannot be saved the request is ended all the same.
Deliver(c) ==
    /\ pc[c] = "send"
    /\ \/ req' = [req EXCEPT ![Task(c)].state = "succeeded"] /\ UNCHANGED faults
       \/ req' = [req EXCEPT ![Task(c)] = Ended(@, "interrupted", FALSE)] /\ SaveFails
       \/ req' = req /\ faults + 1 < MaxFaults /\ faults' = faults + 2
    /\ Goto(c, "exit")
    /\ UNCHANGED <<call, adm, work, out, rejected, codex, service, restarts, history>>

Exit(c) ==
    /\ pc[c] = "exit"
    /\ Leave(c)
    /\ UNCHANGED <<call, work, out, store, codex, life, history>>

-----------------------------------------------------------------------------
(* Cancelling, draining, stopping *)

\* Cancel looks up the request of an admission that has none yet.
Filled(a) == IF Task(a) # None THEN Task(a)
             ELSE LET S == ActiveIn(call[a].target, call[a].thread) IN
                  IF S = {} THEN None ELSE CHOOSE i \in S : TRUE

\* Mutant: a cancellation is accepted while the result is being put away.
Cancellable_Finalizing(a, i) == Filled(a) = i /\ ~ adm[a].cancelRequested

Cancellable(a, i) == Filled(a) = i /\ ~ adm[a].cancelRequested /\ ~ adm[a].finalizing

\* Cancel visits the admissions in any order and stops at the first match.
Cancel(i) ==
    \E V \in SUBSET Held :
        LET hit == {a \in V : Cancellable(a, i)} IN
        /\ req[i].state # "absent"
        /\ Cardinality(hit) <= 1 /\ (hit = {} => V = Held)
        /\ adm' = [a \in Calls |->
                     IF a \notin V THEN adm[a]
                     ELSE [adm[a] EXCEPT !.task = Filled(a),
                                         !.cancelRequested = @ \/ a \in hit]]
        /\ asked' = IF hit = {} THEN asked ELSE asked \cup {i}
    /\ UNCHANGED <<pc, call, work, out, store, codex, life, turns>>

SetDraining ==
    /\ service \in {"up", "draining"}
    /\ service' = IF service = "up" THEN "draining" ELSE "up"
    /\ UNCHANGED <<handler, store, codex, faults, restarts, history>>

\* Coordinator.Run: refuse new work, cancel all contexts, wait for the rest.
Shutdown ==
    /\ service # "stopping" /\ restarts < MaxRestarts
    /\ service' = "stopping"
    /\ UNCHANGED <<handler, store, codex, faults, restarts, history>>

\* recoverLocked.
Recovered(r) == IF r.state \notin Active THEN r
                ELSE IF r.completed /\ r.saved THEN [r EXCEPT !.state = "succeeded"]
                ELSE [r EXCEPT !.state = "interrupted", !.completed = FALSE]

\* The process ends, crashed or stopped, and starts again; Codex, its child,
\* ended with it.  What was being handled may be delivered again.
Restart ==
    /\ restarts < MaxRestarts
    /\ restarts' = restarts + 1
    /\ service' = "up"
    /\ req' = [i \in Calls |-> Recovered(req[i])]
    /\ pc' = [c \in Calls |-> IF pc[c] = "done" THEN pc[c] ELSE "idle"]
    /\ adm' = [c \in Calls |-> NoAdmission]
    /\ call' = [c \in Calls |-> NoCall]
    /\ work' = [c \in Calls |-> NoWork]
    /\ out' = [c \in Calls |-> "none"]
    /\ turn' = [c \in Calls |-> IF turn[c] = "active" THEN "failed" ELSE turn[c]]
    /\ asked' = {}
    /\ UNCHANGED <<rejected, bound, made, faults, turns>>

-----------------------------------------------------------------------------
(* Codex and the user *)

TurnEnds(c, status) ==
    /\ turn[c] = "active"
    /\ turn' = [turn EXCEPT ![c] = status]
    /\ UNCHANGED <<handler, store, bound, made, life, history>>

\* selectLocked: a thread no intent names becomes an intent of its own.
SelectThread(g, t) ==
    /\ t \in made /\ bound[g] = None /\ \A h \in Targets : bound[h] # t
    /\ \A c \in Calls : call[c].target # g /\ req[c].target # g
    /\ bound' = [bound EXCEPT ![g] = t]
    /\ UNCHANGED <<handler, store, made, turn, life, history>>

-----------------------------------------------------------------------------

Init ==
    /\ pc = [c \in Calls |-> "idle"] /\ call = [c \in Calls |-> NoCall]
    /\ adm = [c \in Calls |-> NoAdmission] /\ work = [c \in Calls |-> NoWork]
    /\ out = [c \in Calls |-> "none"] /\ req = [c \in Calls |-> NoRequest]
    /\ rejected = {} /\ bound = [g \in Targets |-> None] /\ made = {}
    /\ turn = [c \in Calls |-> "none"] /\ service = "up" /\ faults = 0 /\ restarts = 0
    /\ asked = {} /\ turns = [s \in Sources |-> 0]

Handle(c) ==
    \/ \E g \in Targets : Capture(c, g)
    \/ BeginRefused(c) \/ BeginBusy(c) \/ BeginAdmitted(c) \/ Activity(c) \/ Reject(c)
    \/ StartTask(c) \/ StartRefused(c) \/ Launch(c) \/ LaunchExisting(c)

Execute(c) ==
    \/ Prepare(c) \/ PrepareOutbox(c) \/ StepFails(c) \/ Bind(c) \/ AttachThread(c)
    \/ \E t \in Threads : OpenThread(c, t)
    \/ StartTurn(c) \/ TurnRefused(c) \/ TurnEvent(c) \/ Interrupt(c) \/ Finalize(c)
    \/ Finish(c) \/ Complete(c) \/ Freeze(c) \/ BeginDelivery(c) \/ Deliver(c) \/ Exit(c)

Next ==
    \/ \E c \in Messages : ReceiveMessage(c)
    \/ \E c \in Retries, o \in Calls : ReceiveRetry(c, o)
    \/ \E c \in Calls : Handle(c) \/ Execute(c)
    \/ \E i \in Calls : Cancel(i)
    \/ SetDraining \/ Shutdown \/ Restart
    \/ \E c \in Calls, status \in {"completed", "failed", "interrupted"} : TurnEnds(c, status)
    \/ \E g \in Targets, t \in Threads : SelectThread(g, t)

Spec == Init /\ [][Next]_vars

\* Handlers and executors keep going: every remote call they make has a
\* timeout or ends with the context, which a cancel and a shutdown end.
\* Nothing is assumed of Codex, of the user or of shutdowns.
FairSpec == Spec /\ \A c \in Calls : WF_vars(Handle(c)) /\ WF_vars(Execute(c))

-----------------------------------------------------------------------------
(* Properties *)

\* Type invariant of the coordinator's and the runner's state.
TypeOK ==
    /\ pc \in [Calls -> {"idle", "done"} \cup Handling \cup Executing]
    /\ call \in [Calls -> [target: Targets \cup {None}, thread: Threads \cup {None},
                           origin: Calls \cup {None}]]
    /\ adm \in [Calls -> [held: BOOLEAN, launched: BOOLEAN, cancelRequested: BOOLEAN,
                          finalizing: BOOLEAN, task: Calls \cup {None}]]
    /\ work \in [Calls -> [thread: Threads \cup {None}, unresolved: BOOLEAN, unattached: BOOLEAN]]
    /\ out \in [Calls -> {"none", "reply", "oversized", "unconfirmed", "interrupted", "canceled", "other"}]
    /\ req \in [Calls -> [state: {"absent"} \cup Active \cup Terminal, target: Targets \cup {None},
                          thread: Threads \cup {None}, completed: BOOLEAN, saved: BOOLEAN,
                          unconfirmed: BOOLEAN, retryOf: Calls \cup {None}]]
    /\ rejected \subseteq Sources
    /\ bound \in [Targets -> Threads \cup {None}]
    /\ made \subseteq Threads
    /\ turn \in [Calls -> {"none", "active", "completed", "failed", "interrupted"}]
    /\ service \in {"up", "draining", "stopping"}
    /\ faults \in Nat /\ restarts \in Nat
    /\ asked \subseteq Calls /\ turns \in [Sources -> Nat]

\* A message or a recovery operation starts at most one Codex turn, however
\* often it is delivered, cancelled, crashed over or delivered again.
OneTurnPerSource == \A s \in Sources : turns[s] <= 1

\* The bridge never starts a turn on a thread on which a turn it started is
\* still running, one whose stop was never confirmed included.  For one
\* intent: two that lead to one thread are kept apart by the thread's channel
\* while both are followed, and by the status Codex reports after that.
NoTurnOverTurn ==
    \A c, d \in Calls : c # d /\ turn[c] = "active" /\ turn[d] = "active" =>
        work[c].thread # work[d].thread

\* Two executors never have a turn on the same thread at a time, not even if
\* two intents turn out to lead to one thread only after both were admitted.
OneExecutorPerThread ==
    \A c, d \in Calls : c # d /\ {pc[c], pc[d]} \subseteq {"turn", "collect"} =>
        work[c].thread # work[d].thread

\* Once a reply the store can hold is in, the request can only succeed: neither a late cancel
\* nor a failed save or delivery turns it into anything else.
ReplyIsKept ==
    \A c \in Calls : out[c] = "reply" /\ Task(c) # None =>
        req[Task(c)].state \in {"running", "delivering", "succeeded"}

\* A cancellation that was accepted is answered, and truly.  The request is
\* cancelled, or its stop is unconfirmed, or its reply was kept; it never just
\* fails, which would invite a retry, unless the reply is one the store cannot
\* hold.  (An executor that a repeated recovery operation launches on the
\* request of the first has nothing left to cancel.)  And if it is shown as
\* cancelled it has stopped: its turn never started, or Codex confirmed that
\* it was interrupted.
CancelIsAnswered ==
    \A c \in Calls : Task(c) # None =>
        LET r == req[Task(c)] IN
        /\ adm[c].cancelRequested /\ adm[c].launched /\ Task(c) = c /\ out[c] # "oversized" =>
              ~ (r.state = "failed" /\ ~ r.unconfirmed)
        /\ r.state = "cancelled" => turn[c] \in {"none", "interrupted"}

HeldBy(i) == {a \in Held : Task(a) = i \/ (a = i /\ ~ adm[a].launched)}

\* A request nobody works on any more is not left active, which would keep
\* its session busy: unless a save failed, the service is stopping, or the
\* user's cancel met an error of its own.
NoneAbandoned ==
    \A i \in Calls : req[i].state \in Active /\ HeldBy(i) = {} =>
        \/ service = "stopping" \/ faults > 0
        \/ adm[i].cancelRequested /\ out[i] = "other"

\* An accepted cancellation reaches the executor of the request it names.
CancelHitsItsRequest == \A i \in asked : \E a \in Calls :
    adm[a].cancelRequested /\ (a = i \/ (adm[a].launched /\ Task(a) = i))

\* Work that is still running upstream, or that did complete, is not retried.
UnknownNotRerun ==
    \A i \in Calls : LET o == req[i].retryOf IN o # None => turn[o] \notin {"active", "completed"}

\* An accepted cancellation always ends the execution, even if Codex never
\* answers and never ends the turn.
CancelEnds == \A c \in Calls : adm[c].cancelRequested /\ adm[c].held ~> ~ adm[c].held

\* A shutdown never waits for ever: every admission is given back.
ShutdownEnds == service = "stopping" ~> Held = {}

=============================================================================
