------------------------------ MODULE Deployment ------------------------------
(***************************************************************************)
(* Replacing the running service by another version: the deploy command    *)
(* (cli/deploy.go, deployment_snapshot.go), the stop and restart commands, *)
(* systemd, and inside the service the runtime controller with its drain   *)
(* (core/runtimecontrol, app/app.go).  Versions are "old" and "new".  The  *)
(* state root is reduced to what a rollback may destroy: the version of    *)
(* its format and the messages whose handling it records.                  *)
(*                                                                         *)
(* Every step of the deployer may fail, with or without effect (systemctl  *)
(* is killed when the command is interrupted, an answer is lost), the      *)
(* service may crash and is restarted by systemd, and the deployer may die.*)
(***************************************************************************)
EXTENDS Naturals, FiniteSets

CONSTANTS
    Msgs,        \* messages WeChat holds for the service
    MaxFaults,   \* failed operations, crashes
    MaxOutside   \* operations of the console and of the stop and restart commands

ASSUME DeploymentAssumption == MaxFaults \in Nat /\ MaxOutside \in Nat

VARIABLES
    step,      \* the deployer
    receipt,   \* deploymentReceipt.Status
    stopErr,   \* failAndRollback: the service could not be stopped
    snap,      \* the deployment snapshot, or NoSnap
    bin,       \* version of the installed binary
    unit,      \* the unit file starts the service with --draining
    cached,    \* systemd: the unit it has loaded
    wanted,    \* systemd: the service is to run
    store,     \* the state root: version, done (recorded messages), whole
    active,    \* requests on record as running or delivering
    proc,      \* the service process, or Down
    op,        \* the stop or restart command
    quiet,     \* waitForDrain: who has read the controller as quiet
    consumed,  \* history: messages whose handler returned
    opened,    \* history: somebody else opened the service since it was drained, or stopped
    shut,      \* history: somebody else drained or stopped the service
    doubt,     \* history: failures the deployer takes for something else
    faults, outside

files == <<snap, bin, unit, store>>
systemd == <<cached, wanted>>
history == <<consumed, opened, shut, doubt>>
bounds == <<faults, outside>>
vars == <<step, receipt, stopErr, files, systemd, active, proc, op, quiet, history, bounds>>

NoSnap == [store |-> [version |-> "none", done |-> {}, whole |-> FALSE], bin |-> "none", unit |-> FALSE]
Nobody == "none"

\* proc.draining is the controller's flag, closed the coordinator's, hold the
\* monitor's; at is the message being handled, staged its admission (between
\* BeginIngress and EndIngress), retry one of the console, not staged.
Down == [version |-> "none", up |-> FALSE, draining |-> FALSE, closed |-> FALSE, hold |-> FALSE,
         at |-> Nobody, staged |-> FALSE, retry |-> FALSE]

Running == proc.version # "none"

\* Run starts the management server before the monitors; with --draining the
\* coordinator is closed and messages are held until somebody resumes.
Booting(version, draining) ==
    [Down EXCEPT !.version = version, !.draining = draining, !.closed = draining, !.hold = draining]

Fault == faults < MaxFaults /\ faults' = faults + 1 /\ UNCHANGED outside
NoFault == UNCHANGED bounds

-----------------------------------------------------------------------------
(* The service                                                               *)

Service == <<step, receipt, stopErr, files, systemd, op, quiet, opened, shut, doubt>>

\* A version only opens state of its own format; startup settles requests
\* that were running.
Boot ==
    /\ wanted /\ ~Running
    /\ store.whole /\ store.version = bin
    /\ proc' = Booting(bin, cached)
    /\ active' = {}
    /\ UNCHANGED <<Service, consumed, bounds>>

\* SetReady and the first successful poll of the monitor.
Ready ==
    /\ Running /\ ~proc.up
    /\ proc' = [proc EXCEPT !.up = TRUE]
    /\ UNCHANGED <<Service, active, consumed, bounds>>

\* The process ends, and with it what it was doing and answering.
Ends == proc' = Down /\ quiet' = {}
Stopped == wanted' = FALSE /\ Ends /\ UNCHANGED cached

Crash ==
    /\ Running /\ Fault
    /\ Ends
    /\ UNCHANGED <<step, receipt, stopErr, files, systemd, active, op, history>>

\* Monitor.Run: the next message; a held monitor leaves it with WeChat.
Poll ==
    /\ proc.up /\ ~proc.hold /\ proc.at = Nobody
    /\ \E m \in Msgs \ store.done : proc' = [proc EXCEPT !.at = m]
    /\ UNCHANGED <<Service, active, consumed, bounds>>

\* The message is consumed with the record of its handling.
Handled(m, working) ==
    /\ store' = [store EXCEPT !.done = @ \cup {m}]
    /\ consumed' = consumed \cup {m}
    /\ active' = IF working THEN active \cup {m} ELSE active
    /\ proc' = [proc EXCEPT !.at = Nobody, !.staged = FALSE]
    /\ UNCHANGED <<step, receipt, stopErr, snap, bin, unit, systemd, op, quiet, opened, shut, doubt, bounds>>

\* startCodexTask: admission, refused while draining.
Admit ==
    /\ proc.at # Nobody /\ ~proc.staged
    /\ IF proc.closed THEN Handled(proc.at, FALSE)
       ELSE /\ proc' = [proc EXCEPT !.staged = TRUE]
            /\ UNCHANGED <<Service, active, consumed, bounds>>

Record == proc.staged /\ Handled(proc.at, TRUE)

Finish ==
    /\ Running /\ \E r \in active : active' = active \ {r}
    /\ UNCHANGED <<Service, proc, consumed, bounds>>

\* Controller.Drain and Resume; the hold is only released.
Drained(p) == [p EXCEPT !.draining = TRUE, !.closed = TRUE]
Resumed(p) == [p EXCEPT !.draining = FALSE, !.closed = FALSE, !.hold = FALSE]

StatusReady == proc.up /\ ~proc.draining

\* Snapshot reads the controller first and the requests afterwards:
\* DrainComplete is the conjunction of both.
Quiet_NoIngress == Running /\ proc.draining
Quiet == Running /\ proc.draining /\ ~proc.staged /\ proc.at = Nobody

-----------------------------------------------------------------------------
(* waitForDrain, of the deployer and of the stop and restart commands        *)

Waiting(c) == IF c = "deploy" THEN step = "wait" ELSE op = "wait"

Look(c) ==
    /\ Waiting(c) /\ c \notin quiet /\ Quiet
    /\ quiet' = quiet \cup {c}
    /\ UNCHANGED <<step, receipt, stopErr, files, systemd, active, proc, op, history, bounds>>

\* The second half of a health answer.
Count(c) ==
    /\ Waiting(c) /\ c \in quiet
    /\ quiet' = quiet \ {c}
    /\ IF active # {} THEN UNCHANGED <<step, op>>
       ELSE IF c = "deploy" THEN step' = "stop" /\ UNCHANGED op
                            ELSE op' = "act" /\ UNCHANGED step
    /\ UNCHANGED <<receipt, stopErr, files, systemd, active, proc, history, bounds>>

-----------------------------------------------------------------------------
(* runDeploy.  Every step goes on, or fails; what it was to do is done, not  *)
(* done, or in doubt.                                                        *)

Deployer == <<op, active, consumed, shut>>

\* From the preflight to the request to drain.  A request that fails is not
\* taken back.
Drain ==
    /\ step = "idle" /\ StatusReady /\ proc.version # "new"
    /\ \/ proc' = Drained(proc) /\ step' = "wait" /\ NoFault /\ UNCHANGED doubt
       \/ Fault /\ proc' \in {proc, Drained(proc)} /\ step' = "end" /\ doubt' = {"call"}
    /\ opened' = FALSE
    /\ UNCHANGED <<Deployer, receipt, stopErr, files, systemd, quiet>>

\* The wait ends with its deadline.
DrainTimeout ==
    /\ step = "wait" /\ step' = "resume" /\ quiet' = quiet \ {"deploy"}
    /\ UNCHANGED <<Deployer, opened, receipt, stopErr, files, systemd, proc, doubt, bounds>>

\* The deferred resume; nobody looks at its result.
ResumeOld_Skipped ==
    /\ step = "resume" /\ step' = "end"
    /\ UNCHANGED <<Deployer, opened, receipt, stopErr, files, systemd, proc, quiet, doubt, bounds>>
ResumeOld ==
    /\ step = "resume" /\ step' = "end"
    /\ \/ /\ proc' = IF Running THEN Resumed(proc) ELSE proc
          /\ NoFault /\ doubt' = IF Running THEN doubt ELSE {"call"}
       \/ Fault /\ UNCHANGED proc /\ doubt' = {"call"}
    /\ UNCHANGED <<Deployer, opened, receipt, stopErr, files, systemd, quiet>>

StopOld ==
    /\ step = "stop"
    /\ \/ Stopped /\ step' = "snapshot" /\ receipt' = "running" /\ opened' = FALSE
          /\ NoFault /\ UNCHANGED doubt
       \/ Fault /\ step' = "resume" /\ receipt' \in {receipt, "running", "failed"} /\ UNCHANGED opened
          /\ \/ Stopped /\ doubt' = {"call"}
             \/ UNCHANGED <<systemd, proc, quiet, doubt>>
    /\ UNCHANGED <<Deployer, stopErr, files>>

\* createDeploymentSnapshot, with the service stopped.
Snapshot ==
    /\ step = "snapshot"
    /\ \/ snap' = [store |-> store, bin |-> bin, unit |-> unit] /\ step' = "migrate" /\ NoFault
       \/ Fault /\ step' = "restart" /\ UNCHANGED snap
    /\ UNCHANGED <<Deployer, opened, receipt, stopErr, bin, unit, store, systemd, proc, quiet, doubt>>

\* The snapshot failed: the old service is started again.
RestartOld ==
    /\ step = "restart" /\ step' = "end" /\ receipt' = "failed"
    /\ \/ wanted' = TRUE /\ NoFault /\ UNCHANGED doubt
       \/ Fault /\ UNCHANGED wanted /\ doubt' = {"call"}
    /\ UNCHANGED <<Deployer, opened, stopErr, files, cached, proc, quiet>>

\* A step between the snapshot and the commit: Done changes x, a failure
\* leads to the rollback.
Advance(from, to) == step = from /\ step' = to /\ NoFault
Abort(from) == step = from /\ step' = "rb_stop" /\ Fault

Installing == <<Deployer, opened, receipt, stopErr, snap, proc, quiet, doubt>>

Migrate ==
    /\ \/ Advance("migrate", "mark") /\ store' = [store EXCEPT !.version = "new"]
       \/ Abort("migrate") /\ store' \in {store, [store EXCEPT !.version = "new"]}
    /\ UNCHANGED <<Installing, bin, unit, systemd>>

\* rewriteSystemdUnit: the candidate starts draining; after its verification
\* the next start is a normal one.
RewriteUnit_Normal(draining) == unit' = FALSE
RewriteUnit(draining) == unit' = draining

MarkDraining ==
    /\ \/ Advance("mark", "install") /\ RewriteUnit(TRUE)
       \/ Abort("mark") /\ UNCHANGED unit
    /\ UNCHANGED <<Installing, bin, store, systemd>>

Install ==
    /\ \/ Advance("install", "reload") /\ bin' = "new"
       \/ Abort("install") /\ bin' \in {bin, "new"}
    /\ UNCHANGED <<Installing, unit, store, systemd>>

Reload ==
    /\ \/ Advance("reload", "launch") /\ cached' = unit
       \/ Abort("reload") /\ cached' \in {cached, unit}
    /\ UNCHANGED <<Installing, files, wanted>>

Launch ==
    /\ \/ Advance("launch", "verify") /\ wanted' = TRUE
       \/ Abort("launch") /\ wanted' \in {wanted, TRUE}
    /\ UNCHANGED <<Installing, files, cached>>

\* waitForHealthyDrain, until its deadline.
HealthyDrain == proc.up /\ proc.version = "new" /\ proc.draining /\ active = {}

Verify ==
    /\ \/ Advance("verify", "unmark") /\ HealthyDrain
       \/ step = "verify" /\ step' = "rb_stop" /\ NoFault
    /\ UNCHANGED <<Installing, files, systemd>>

UnmarkDraining_Kept ==
    /\ \/ Advance("unmark", "reload2")
       \/ Abort("unmark")
    /\ UNCHANGED <<Installing, files, systemd>>
UnmarkDraining ==
    /\ \/ Advance("unmark", "reload2") /\ RewriteUnit(FALSE)
       \/ Abort("unmark") /\ UNCHANGED unit
    /\ UNCHANGED <<Installing, bin, store, systemd>>

\* systemd takes the normal unit over: from here on a restarted candidate
\* handles messages, and a failure may come too late for a rollback.
ReloadNormal ==
    /\ \/ Advance("reload2", "commit") /\ cached' = unit /\ UNCHANGED doubt
       \/ Abort("reload2") /\ cached' = unit /\ doubt' = {"reload"}
       \/ Abort("reload2") /\ UNCHANGED <<cached, doubt>>
    /\ UNCHANGED <<Deployer, opened, receipt, stopErr, proc, quiet, files, wanted>>

\* completeDeploymentCommit: resume, until the candidate is ready or the
\* deadline has passed; there is no way back.
Commit ==
    /\ step = "commit"
    /\ \/ Running /\ proc.draining /\ proc' = Resumed(proc) /\ UNCHANGED <<step, receipt>>
       \/ StatusReady /\ proc.version = "new" /\ step' = "clean" /\ receipt' = "succeeded"
          /\ UNCHANGED proc
       \/ step' = "end" /\ receipt' = "commit_uncertain" /\ UNCHANGED proc
    /\ UNCHANGED <<Deployer, opened, stopErr, files, systemd, quiet, doubt, bounds>>

\* removeSnapshotState after a success.
Clean ==
    /\ step = "clean" /\ step' = "end"
    /\ \/ snap' = NoSnap /\ NoFault
       \/ Fault /\ UNCHANGED snap
    /\ UNCHANGED <<Deployer, opened, receipt, stopErr, bin, unit, store, systemd, proc, quiet, doubt>>

-----------------------------------------------------------------------------
(* failAndRollback                                                           *)

Restoring == <<Deployer, opened, quiet, doubt>>

\* An error of the stop is remembered and the restore goes on.
RollbackStop ==
    /\ step = "rb_stop" /\ step' = "rb_restore" /\ receipt' = "rolling_back"
    /\ \/ Stopped /\ NoFault /\ UNCHANGED stopErr
       \/ Fault /\ stopErr' = TRUE /\ (Stopped \/ UNCHANGED <<systemd, proc, quiet>>)
    /\ UNCHANGED <<Deployer, opened, doubt, files>>

RollbackFails == step' = "end" /\ receipt' = "rollback_failed"

\* restoreDeploymentSnapshot.  It fails before it touches anything (a hash
\* differs), or with part of the state, the binary or the unit replaced.
Restore ==
    /\ step = "rb_restore"
    /\ \/ /\ store' = snap.store /\ bin' = snap.bin /\ unit' = snap.unit
          /\ step' = "rb_reload" /\ NoFault /\ UNCHANGED receipt
       \/ /\ Fault /\ RollbackFails
          /\ \/ UNCHANGED <<store, bin, unit>>
             \/ store' = [store EXCEPT !.whole = FALSE] /\ UNCHANGED <<bin, unit>>
             \/ store' = snap.store /\ bin' \in {bin, snap.bin} /\ UNCHANGED unit
    /\ UNCHANGED <<Restoring, stopErr, snap, systemd, proc>>

RollbackReload ==
    /\ step = "rb_reload"
    /\ \/ cached' = unit /\ step' = "rb_start" /\ NoFault /\ UNCHANGED receipt
       \/ Fault /\ RollbackFails /\ UNCHANGED cached
    /\ UNCHANGED <<Restoring, stopErr, files, wanted, proc>>

RollbackStart ==
    /\ step = "rb_start"
    /\ \/ wanted' = TRUE /\ step' = "rb_ready" /\ NoFault /\ UNCHANGED receipt
       \/ Fault /\ RollbackFails /\ UNCHANGED wanted
    /\ UNCHANGED <<Restoring, stopErr, files, cached, proc>>

\* waitForReady of the old version, until its deadline.
RollbackReady ==
    /\ step = "rb_ready"
    /\ \/ StatusReady /\ proc.version = "old" /\ ~stopErr /\ step' = "rb_clean" /\ UNCHANGED receipt
       \/ RollbackFails
    /\ UNCHANGED <<Restoring, stopErr, files, systemd, proc, bounds>>

RollbackClean ==
    /\ step = "rb_clean" /\ step' = "end"
    /\ \/ snap' = NoSnap /\ receipt' = "rolled_back" /\ NoFault
       \/ Fault /\ receipt' = "rollback_cleanup_failed" /\ UNCHANGED snap
    /\ UNCHANGED <<Restoring, stopErr, bin, unit, store, systemd, proc>>

\* The deploy command is killed: no deferred call runs.
Die ==
    /\ step \notin {"idle", "end", "dead"} /\ Fault
    /\ step' = "dead" /\ quiet' = quiet \ {"deploy"}
    /\ UNCHANGED <<Deployer, opened, receipt, stopErr, files, systemd, proc, doubt>>

-----------------------------------------------------------------------------
(* The console, and the stop and restart commands                            *)

Outside == outside < MaxOutside /\ outside' = outside + 1 /\ UNCHANGED faults

Others == <<step, receipt, stopErr, files, consumed, doubt>>

\* handleRuntime of the console: drain or resume.
ConsoleRuntime ==
    /\ Running /\ Outside
    /\ \/ proc' = Drained(proc) /\ shut' = TRUE /\ UNCHANGED opened
       \/ proc' = Resumed(proc) /\ opened' = TRUE /\ UNCHANGED shut
    /\ UNCHANGED <<Others, systemd, active, op, quiet>>

\* A retry from the console: its admission is counted nowhere.
ConsoleRetry ==
    /\ \/ proc.up /\ ~proc.closed /\ ~proc.retry /\ Outside
          /\ proc' = [proc EXCEPT !.retry = TRUE] /\ UNCHANGED active
       \/ proc.retry /\ proc' = [proc EXCEPT !.retry = FALSE] /\ active' = active \cup {"retry"}
          /\ UNCHANGED bounds
    /\ UNCHANGED <<Others, systemd, op, quiet, opened, shut>>

CommandDrain ==
    /\ op = "idle" /\ Running /\ Outside
    /\ proc' = Drained(proc) /\ shut' = TRUE /\ op' = "wait"
    /\ UNCHANGED <<Others, systemd, active, quiet, opened>>

\* The wait fails, or systemctl does: the service is resumed.
CommandFails ==
    /\ op \in {"wait", "act"} /\ op' = "end" /\ quiet' = quiet \ {"command"}
    /\ proc' = IF Running THEN Resumed(proc) ELSE proc
    /\ opened' = (opened \/ Running)
    /\ UNCHANGED <<Others, systemd, active, shut, bounds>>

CommandAct ==
    /\ op = "act" /\ op' = "end"
    /\ \/ Stopped /\ shut' = TRUE /\ UNCHANGED opened
       \/ Ends /\ wanted' = TRUE /\ opened' = TRUE /\ UNCHANGED <<cached, shut>>
    /\ UNCHANGED <<Others, active, bounds>>

-----------------------------------------------------------------------------
Init ==
    /\ step = "idle" /\ receipt = "none" /\ stopErr = FALSE /\ snap = NoSnap
    /\ bin = "old" /\ unit = FALSE /\ cached = FALSE /\ wanted = TRUE
    /\ store = [version |-> "old", done |-> {}, whole |-> TRUE] /\ active = {}
    /\ proc = [Down EXCEPT !.version = "old", !.up = TRUE]
    /\ op = "idle" /\ quiet = {}
    /\ consumed = {} /\ opened = FALSE /\ shut = FALSE /\ doubt = {}
    /\ faults = 0 /\ outside = 0

Clients == {"deploy", "command"}

Serve == Boot \/ Ready \/ Poll \/ Admit \/ Record \/ Finish

Deploy == Drain \/ Look("deploy") \/ Count("deploy") \/ DrainTimeout \/ ResumeOld \/ StopOld
    \/ Snapshot \/ RestartOld \/ Migrate \/ MarkDraining \/ Install \/ Reload \/ Launch \/ Verify
    \/ UnmarkDraining \/ ReloadNormal \/ Commit \/ Clean

Rollback == RollbackStop \/ Restore \/ RollbackReload \/ RollbackStart \/ RollbackReady \/ RollbackClean

Elsewhere == ConsoleRuntime \/ ConsoleRetry \/ CommandDrain \/ CommandFails \/ CommandAct
             \/ Look("command") \/ Count("command")

Next == Serve \/ Crash \/ Deploy \/ Rollback \/ Die \/ Elsewhere

Spec == Init /\ [][Next]_vars

\* The deployer and systemd go on: every wait of the deployer has a deadline.
FairSpec == Spec /\ WF_vars(Deploy \/ Rollback) /\ WF_vars(Boot)

-----------------------------------------------------------------------------
(* Properties                                                                *)

Ended == step = "end"

\* No rollback destroys the record of a message that was handled: the old
\* service is stopped before the snapshot, and until the commit the candidate
\* leaves messages with WeChat, even if it crashes and systemd restarts it.
\* Excepted: somebody else opens the service meanwhile, or the reload of the
\* normal unit took effect although it failed.
NothingLost == store.whole => (consumed \subseteq store.done \/ opened \/ "reload" \in doubt)

\* DrainComplete, put together from two reads at different times, is so when
\* the deployer acts on it: no request is running, or admitted and not on
\* record yet, unless somebody else opened the service again or the console
\* had a retry admitted before the drain.
DrainIsReal == [][(step = "wait" /\ step' = "stop") =>
    (opened \/ (proc.draining /\ ~proc.staged /\ active \subseteq {"retry"}))]_vars

\* The receipt is honest: after a success the new version is installed and
\* will start normally, after a rollback the old one, with its own state and
\* no copy of it left behind.
Installed(version) ==
    bin = version /\ store.version = version /\ store.whole /\ ~unit /\ ~cached

ReceiptIsHonest ==
    /\ receipt \in {"succeeded", "commit_uncertain"} => Installed("new")
    /\ receipt \in {"none", "failed", "rolled_back", "rollback_cleanup_failed"} => Installed("old")
    /\ receipt = "rolled_back" => snap = NoSnap

\* A deployment that ends, in whatever way but an uncertain commit or a failed
\* rollback, leaves the service running and accepting messages, in the end.
\* Excepted: an admin call or systemctl failed in a way the command does
\* not know of, or somebody else shut the service.
Open == Running /\ ~proc.draining /\ ~proc.closed /\ ~proc.hold
Settled == Ended /\ receipt \notin {"commit_uncertain", "rollback_failed"} /\ doubt = {} /\ ~shut
Reopens == Settled ~> (Open \/ shut)

=============================================================================
