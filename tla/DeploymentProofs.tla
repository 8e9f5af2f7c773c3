-------------------------- MODULE DeploymentProofs --------------------------
(***************************************************************************)
(* For any messages and any number of faults and of operations from        *)
(* elsewhere: a rollback loses nothing, the receipt of a deployment is     *)
(* honest, and a drain that was read as complete is complete.              *)
(*                                                                         *)
(* The inductive invariant DInv says what the files hold at each step of   *)
(* the deployer (Files), which receipt goes with it (Receipts), that from  *)
(* the stop of the old service to its restoration no message is handled    *)
(* (Guard) or destroyed (Kept), and what an answer to waitForDrain stands  *)
(* for (Read).                                                             *)
(***************************************************************************)
EXTENDS Deployment, TLAPS

StoreType == [version : {"old", "new"}, done : SUBSET Msgs, whole : BOOLEAN]
ProcType == [version : {"none", "old", "new"}, up : BOOLEAN, draining : BOOLEAN, closed : BOOLEAN,
             hold : BOOLEAN, at : Msgs \cup {Nobody}, staged : BOOLEAN, retry : BOOLEAN]

Types ==
    /\ store \in StoreType /\ proc \in ProcType
    /\ bin \in {"old", "new"} /\ unit \in BOOLEAN /\ cached \in BOOLEAN /\ wanted \in BOOLEAN
    /\ consumed \subseteq Msgs /\ opened \in BOOLEAN
    /\ quiet \subseteq Clients
    /\ proc.closed = proc.draining
    /\ ~Running => proc = Down
    /\ proc.staged => proc.at # Nobody

\* Before anything is replaced; while the candidate takes the place of the
\* old version; when the old one is back.
Early == {"idle", "wait", "resume", "stop", "snapshot", "restart"}
Replacing == {"mark", "install", "reload", "launch", "verify", "unmark", "reload2"}
Middle == {"migrate", "rb_stop", "rb_restore"} \cup Replacing
Back == {"rb_start", "rb_ready", "rb_clean"}
Last == {"end", "dead"}
AllSteps == Early \cup Middle \cup Back \cup Last \cup {"commit", "clean", "rb_reload"}

\* The snapshot has all that makes up the old service.
OldKept ==
    /\ snap.store \in StoreType /\ snap.store.version = "old" /\ snap.store.whole
    /\ snap.bin = "old" /\ snap.unit = FALSE

Files ==
    /\ step \in AllSteps
    /\ step \in Early \cup Back \cup {"migrate"} => Installed("old")
    /\ step \in {"commit", "clean"} => Installed("new")
    /\ step \in Middle => OldKept /\ store.whole
    /\ step \in Replacing => store.version = "new"
    /\ step \in {"reload", "launch", "verify", "unmark", "reload2"} => bin = "new"
    /\ step \in {"install", "reload", "launch", "verify", "unmark"} => unit
    /\ step \in {"launch", "verify", "unmark", "reload2"} => cached
    /\ step = "reload2" => ~unit
    /\ step = "rb_reload" => bin = "old" /\ store.version = "old" /\ store.whole /\ ~unit

Receipts ==
    /\ step \in Early => receipt \in {"none", "running", "failed"}
    /\ step \in Middle \cup {"snapshot", "restart", "commit"} \cup Back \cup {"rb_reload"} =>
          receipt \in {"running", "rolling_back"}
    /\ step = "clean" => receipt = "succeeded"
    /\ ReceiptIsHonest

\* What the deployer excepts.
Excepted == opened \/ "reload" \in doubt

\* The old service has been stopped, and until its restoration only a
\* candidate that holds its messages may run.
Guarded == Middle \cup {"snapshot"}
Guard ==
    step \in Guarded /\ ~Excepted =>
        proc.at = Nobody /\ (Running => proc.hold) /\ (wanted => cached)

\* What was handled is in the state root, and in the snapshot of it.
Kept ==
    /\ step \in Early \cup Middle => consumed \subseteq store.done
    /\ step \in Middle /\ ~Excepted => consumed \subseteq snap.store.done
    /\ NothingLost

\* The controller was quiet when waitForDrain read it, and is so until
\* somebody opens the service again.
Read ==
    "deploy" \in quiet =>
        /\ step = "wait" /\ Running
        /\ ~opened => proc.draining /\ ~proc.staged

DInv == Types /\ Files /\ Receipts /\ Guard /\ Kept /\ Read

-----------------------------------------------------------------------------
(* Frames.                                                                   *)

LEMMA FilesKept ==
    ASSUME DInv, UNCHANGED <<step, receipt, snap, bin, unit, cached>>,
           store'.version = store.version, store'.whole = store.whole
    PROVE  Files' /\ Receipts'
<1>1. \A v : (Installed(v))' = Installed(v)
  BY DEF Installed
<1>2. Files'
  BY <1>1 DEF DInv, Files, OldKept
<1>3. ReceiptIsHonest'
  BY <1>1 DEF DInv, Receipts, ReceiptIsHonest
<1> QED
  BY <1>2, <1>3 DEF DInv, Receipts

LEMMA KeptKept ==
    ASSUME DInv, UNCHANGED <<step, snap, store, consumed, doubt>>, opened => opened'
    PROVE  Kept'
BY DEF DInv, Kept, NothingLost, Excepted

LEMMA DownShape ==
    /\ Down \in ProcType /\ Down.version = "none" /\ Down.at = Nobody
    /\ ~Down.staged /\ Down.closed = Down.draining /\ ~Down.up /\ ~Down.retry
BY DEF Down, ProcType

\* Steps of the process that leave all else alone.
LEMMA ProcessKeeps ==
    ASSUME DInv, UNCHANGED <<step, receipt, snap, bin, unit, cached, wanted, store, consumed, opened, doubt>>,
           proc' \in ProcType, proc'.closed = proc'.draining, proc'.version = "none" => proc' = Down,
           proc'.staged => proc'.at # Nobody,
           quiet' \subseteq quiet,
           proc'.at = Nobody \/ proc'.at = proc.at \/ (Running /\ ~proc.hold),
           proc'.version # "none" => proc'.hold \/ (Running /\ ~proc.hold) \/ (wanted /\ ~cached),
           "deploy" \in quiet' => proc'.version # "none"
                                  /\ proc'.draining = proc.draining /\ (proc'.staged => proc.staged \/ ~proc.closed)
    PROVE  DInv'
<1> USE DEF DInv
<1>1. Files' /\ Receipts'
  BY FilesKept
<1>2. Kept'
  BY KeptKept
<1>3. Types'
  BY DEF Types, Running
<1>4. Guard'
  BY DEF Guard, Excepted, Running
<1>5. Read'
  BY DEF Read, Running, Types
<1> QED
  BY <1>1, <1>2, <1>3, <1>4, <1>5

LEMMA BootKeeps ==
    ASSUME DInv, Boot
    PROVE  DInv'
<1>1. /\ wanted /\ proc.version = "none" /\ proc' = Booting(bin, cached)
      /\ UNCHANGED <<step, receipt, snap, bin, unit, cached, wanted, store, consumed, opened, doubt, quiet>>
  BY DEF Boot, Running, Service, files, systemd
<1>2. bin \in {"old", "new"} /\ cached \in BOOLEAN
  BY DEF DInv, Types
<1>3. proc' = [version |-> bin, up |-> FALSE, draining |-> cached, closed |-> cached, hold |-> cached,
               at |-> Nobody, staged |-> FALSE, retry |-> FALSE]
  BY <1>1 DEF Booting, Down
<1>4. /\ proc' \in ProcType /\ proc'.closed = proc'.draining /\ proc'.version # "none" /\ ~proc'.staged
      /\ proc'.at = Nobody /\ proc'.hold = cached
  BY <1>2, <1>3 DEF ProcType
<1>5. "deploy" \notin quiet
  BY <1>1 DEF DInv, Read, Running
<1> QED
  BY <1>1, <1>2, <1>4, <1>5, ProcessKeeps

LEMMA ReadyKeeps ==
    ASSUME DInv, Ready
    PROVE  DInv'
<1>1. /\ proc.version # "none" /\ proc' = [proc EXCEPT !.up = TRUE]
      /\ UNCHANGED <<step, receipt, snap, bin, unit, cached, wanted, store, consumed, opened, doubt, quiet>>
  BY DEF Ready, Running, Service, files, systemd
<1>2. proc \in ProcType /\ proc.closed = proc.draining /\ (proc.staged => proc.at # Nobody)
  BY DEF DInv, Types
<1>3. /\ proc' \in ProcType /\ proc'.closed = proc'.draining /\ proc'.version = proc.version
      /\ proc'.staged = proc.staged /\ proc'.at = proc.at /\ proc'.hold = proc.hold /\ proc'.draining = proc.draining
  BY <1>1, <1>2 DEF ProcType
<1> QED
  BY <1>1, <1>2, <1>3, ProcessKeeps DEF Running

LEMMA PollKeeps ==
    ASSUME DInv, Poll
    PROVE  DInv'
<1>1. PICK m \in Msgs : proc' = [proc EXCEPT !.at = m]
  BY DEF Poll
<1>2. /\ proc.up /\ ~proc.hold /\ proc.at = Nobody
      /\ UNCHANGED <<step, receipt, snap, bin, unit, cached, wanted, store, consumed, opened, doubt, quiet>>
  BY DEF Poll, Service, files, systemd
<1>3. /\ proc \in ProcType /\ proc.closed = proc.draining /\ (proc.staged => proc.at # Nobody)
      /\ proc.version # "none"
  BY <1>2, DownShape DEF DInv, Types, Running
<1>4. /\ proc' \in ProcType /\ proc'.closed = proc'.draining /\ proc'.version = proc.version
      /\ ~proc'.staged /\ proc'.hold = proc.hold /\ proc'.draining = proc.draining
  BY <1>1, <1>2, <1>3 DEF ProcType
<1> QED
  BY <1>2, <1>3, <1>4, ProcessKeeps DEF Running

\* A message is handled: it is in the state root as soon as it is consumed.
LEMMA HandledKeeps ==
    ASSUME DInv, NEW working \in BOOLEAN, proc.at # Nobody, Handled(proc.at, working)
    PROVE  DInv'
<1> USE DEF DInv
<1>1. PICK m \in Msgs : m = proc.at
  BY DEF Types, ProcType
<1>2. /\ store' = [store EXCEPT !.done = @ \cup {m}] /\ consumed' = consumed \cup {m}
      /\ proc' = [proc EXCEPT !.at = Nobody, !.staged = FALSE]
      /\ UNCHANGED <<step, receipt, snap, bin, unit, cached, wanted, opened, doubt, quiet>>
  BY <1>1 DEF Handled, systemd
<1>3. proc \in ProcType /\ store \in StoreType /\ proc.closed = proc.draining /\ proc.version # "none"
  BY DownShape DEF Types, Running
<1>4. /\ store' \in StoreType /\ store'.version = store.version /\ store'.whole = store.whole
      /\ store'.done = store.done \cup {m}
  BY <1>2, <1>3 DEF StoreType
<1>5. /\ proc' \in ProcType /\ proc'.closed = proc'.draining /\ proc'.version = proc.version
      /\ ~proc'.staged /\ proc'.at = Nobody /\ proc'.hold = proc.hold /\ proc'.draining = proc.draining
  BY <1>2, <1>3 DEF ProcType
<1>6. Files' /\ Receipts'
  BY <1>2, <1>4, FilesKept
<1>7. Types'
  BY <1>2, <1>3, <1>4, <1>5 DEF Types, Running
<1>8. Guard' /\ Read'
  BY <1>2, <1>5 DEF Guard, Read, Excepted, Running
<1>9. Kept'
  <2>1. ~ (step \in Middle /\ ~Excepted)
    BY DEF Guard, Guarded
  <2> QED
    BY <1>2, <1>4, <2>1 DEF Kept, NothingLost, Excepted
<1> QED
  BY <1>6, <1>7, <1>8, <1>9

LEMMA AdmitKeeps ==
    ASSUME DInv, Admit
    PROVE  DInv'
<1>1. CASE proc.closed
  BY <1>1, HandledKeeps DEF Admit
<1>2. CASE ~proc.closed
  <2>1. /\ proc.at # Nobody /\ proc' = [proc EXCEPT !.staged = TRUE]
        /\ UNCHANGED <<step, receipt, snap, bin, unit, cached, wanted, store, consumed, opened, doubt, quiet>>
    BY <1>2 DEF Admit, Service, files, systemd
  <2>2. proc \in ProcType /\ proc.closed = proc.draining /\ proc.version # "none"
    BY <2>1, DownShape DEF DInv, Types, Running
  <2>3. /\ proc' \in ProcType /\ proc'.closed = proc'.draining /\ proc'.version = proc.version
        /\ proc'.at = proc.at /\ proc'.hold = proc.hold /\ proc'.draining = proc.draining
    BY <2>1, <2>2 DEF ProcType
  <2> QED
    BY <1>2, <2>1, <2>2, <2>3, ProcessKeeps DEF Running
<1> QED
  BY <1>1, <1>2

LEMMA RecordKeeps ==
    ASSUME DInv, Record
    PROVE  DInv'
<1>1. proc.at # Nobody
  BY DEF Record, DInv, Types
<1> QED
  BY <1>1, HandledKeeps DEF Record

LEMMA SameProcess ==
    ASSUME DInv, UNCHANGED <<step, receipt, snap, bin, unit, cached, wanted, store, consumed, opened,
                             doubt, proc>>, quiet' \subseteq quiet
    PROVE  DInv'
<1>1. /\ proc \in ProcType /\ proc.closed = proc.draining /\ (proc.staged => proc.at # Nobody)
      /\ proc.version = "none" => proc = Down
  BY DEF DInv, Types, Running
<1>2. "deploy" \in quiet => proc.version # "none"
  BY DEF DInv, Read, Running
<1>3. proc.hold \in BOOLEAN
  BY <1>1 DEF ProcType
<1> QED
  BY <1>1, <1>2, <1>3, ProcessKeeps DEF Running

LEMMA FinishKeeps ==
    ASSUME DInv, Finish
    PROVE  DInv'
BY SameProcess DEF Finish, Service, files, systemd

\* The process ends.
LEMMA EndsKeeps ==
    ASSUME DInv, UNCHANGED <<step, receipt, snap, bin, unit, cached, store, consumed, doubt>>,
           opened => opened', opened' \in BOOLEAN, Ends,
           wanted' \in BOOLEAN, wanted' => wanted \/ opened'
    PROVE  DInv'
<1> USE DEF DInv
<1>1. proc' = Down /\ quiet' = {}
  BY DEF Ends
<1>2. Files' /\ Receipts' /\ Kept'
  BY FilesKept, KeptKept
<1>3. Types'
  BY <1>1, DownShape DEF Types, Running
<1>4. Guard' /\ Read'
  BY <1>1, DownShape DEF Guard, Read, Excepted, Running
<1> QED
  BY <1>2, <1>3, <1>4

LEMMA CrashKeeps ==
    ASSUME DInv, Crash
    PROVE  DInv'
<1>1. wanted \in BOOLEAN /\ opened \in BOOLEAN
  BY DEF DInv, Types
<1> QED
  BY <1>1, EndsKeeps DEF Crash, files, systemd, history

-----------------------------------------------------------------------------
(* waitForDrain and the steps up to the snapshot.                            *)

LEMMA LookKeeps ==
    ASSUME DInv, NEW c \in Clients, Look(c)
    PROVE  DInv'
<1> USE DEF DInv
<1>1. /\ quiet' = quiet \cup {c}
      /\ UNCHANGED <<step, receipt, snap, bin, unit, cached, wanted, store, proc, consumed, opened, doubt>>
  BY DEF Look, files, systemd, history
<1>2. c = "deploy" => step = "wait" /\ Running /\ proc.draining /\ ~proc.staged
  BY DEF Look, Waiting, Quiet
<1>3. Files' /\ Receipts' /\ Kept'
  BY <1>1, FilesKept, KeptKept
<1>4. Types'
  BY <1>1 DEF Types, Running
<1>5. Guard' /\ Read'
  BY <1>1, <1>2 DEF Guard, Read, Excepted, Running
<1> QED
  BY <1>3, <1>4, <1>5

\* The deployer does not wait any more.
LEMMA NoRead ==
    ASSUME "deploy" \notin quiet'
    PROVE  Read'
BY DEF Read

LEMMA NotReading ==
    ASSUME DInv, step # "wait"
    PROVE  "deploy" \notin quiet
BY DEF DInv, Read

\* A step of the deployer that leaves the process alone.
LEMMA DeployerTypes ==
    ASSUME DInv, UNCHANGED <<proc, consumed, opened>>, quiet' \subseteq quiet, store' \in StoreType,
           bin' \in {"old", "new"}, unit' \in BOOLEAN, cached' \in BOOLEAN, wanted' \in BOOLEAN
    PROVE  Types'
BY DEF DInv, Types, Running

\* Steps among the ones before the snapshot.
LEMMA EarlySteps ==
    ASSUME DInv, step \in Early, step' \in {"wait", "stop", "resume", "end"},
           UNCHANGED <<snap, bin, unit, cached, store, consumed>>,
           receipt' \in {receipt, "running", "failed"}
    PROVE  Files' /\ Receipts' /\ Guard' /\ Kept'
<1> USE DEF DInv
<1>1. Installed("old") /\ (Installed("old"))' /\ receipt \in {"none", "running", "failed"}
  BY DEF Files, Receipts, Installed
<1>2. Files'
  BY <1>1 DEF Files, Early, Middle, Replacing, Back, Last, AllSteps
<1>3. Receipts'
  BY <1>1 DEF Receipts, ReceiptIsHonest, Early, Middle, Replacing, Back
<1>4. Guard'
  BY DEF Guard, Guarded, Middle, Replacing
<1>5. Kept'
  BY DEF Kept, NothingLost, Middle, Replacing
<1> QED
  BY <1>2, <1>3, <1>4, <1>5

LEMMA CountKeeps ==
    ASSUME DInv, NEW c \in Clients, Count(c)
    PROVE  DInv'
<1>1. /\ quiet' = quiet \ {c}
      /\ UNCHANGED <<receipt, snap, bin, unit, cached, wanted, store, proc, consumed, opened, doubt>>
  BY DEF Count, files, systemd, history
<1>2. CASE step' = step
  BY <1>1, <1>2, SameProcess
<1>3. CASE c = "deploy" /\ step' = "stop" /\ step = "wait"
  <2>1. Files' /\ Receipts' /\ Guard' /\ Kept'
    BY <1>1, <1>3, EarlySteps DEF Early
  <2>2. Types'
    BY <1>1, DeployerTypes DEF DInv, Types
  <2>3. Read'
    BY <1>1, <1>3, NoRead
  <2> QED
    BY <2>1, <2>2, <2>3 DEF DInv
<1> QED
  BY <1>2, <1>3 DEF Count, Waiting

LEMMA DrainedFacts ==
    ASSUME DInv
    PROVE  /\ Drained(proc) \in ProcType /\ Drained(proc).closed = Drained(proc).draining
           /\ Drained(proc).version = proc.version /\ Drained(proc).at = proc.at
           /\ Drained(proc).staged = proc.staged /\ Drained(proc).hold = proc.hold
           /\ Drained(proc).draining
<1>1. proc \in ProcType
  BY DEF DInv, Types
<1> QED
  BY <1>1 DEF Drained, ProcType

LEMMA ResumedFacts ==
    ASSUME DInv
    PROVE  /\ Resumed(proc) \in ProcType /\ Resumed(proc).closed = Resumed(proc).draining
           /\ Resumed(proc).version = proc.version /\ Resumed(proc).at = proc.at
           /\ Resumed(proc).staged = proc.staged
<1>1. proc \in ProcType
  BY DEF DInv, Types
<1> QED
  BY <1>1 DEF Resumed, ProcType

\* A step that changes the process, and no file.
LEMMA ProcTypes ==
    ASSUME DInv, proc' \in ProcType, proc'.closed = proc'.draining, proc'.version = "none" => proc' = Down,
           proc'.staged => proc'.at # Nobody,
           UNCHANGED <<store, bin, unit, cached, consumed>>, quiet' \subseteq quiet,
           wanted' \in BOOLEAN, opened' \in BOOLEAN
    PROVE  Types'
BY DEF DInv, Types, Running

LEMMA DrainKeeps ==
    ASSUME DInv, Drain
    PROVE  DInv'
<1> USE DEF DInv
<1>1. /\ step = "idle" /\ step' \in {"wait", "end"} /\ proc' \in {proc, Drained(proc)} /\ opened' = FALSE
      /\ proc.up
      /\ UNCHANGED <<receipt, snap, bin, unit, cached, wanted, store, consumed, quiet>>
  BY DEF Drain, StatusReady, Deployer, files, systemd
<1>2. Files' /\ Receipts' /\ Guard' /\ Kept'
  BY <1>1, EarlySteps DEF Early
<1>3. proc.version # "none"
  BY <1>1, DownShape DEF Types, Running
<1>4. Types'
  <2>1. /\ proc' \in ProcType /\ proc'.closed = proc'.draining /\ proc'.version # "none"
        /\ proc'.staged => proc'.at # Nobody
    <3>1. CASE proc' = proc
      BY <1>3, <3>1 DEF Types
    <3>2. CASE proc' = Drained(proc)
      BY <1>3, <3>2, DrainedFacts DEF Types
    <3> QED
      BY <1>1, <3>1, <3>2
  <2> QED
    BY <1>1, <2>1, ProcTypes DEF Types
<1>5. Read'
  BY <1>1, NotReading, NoRead
<1> QED
  BY <1>2, <1>4, <1>5

LEMMA DrainTimeoutKeeps ==
    ASSUME DInv, DrainTimeout
    PROVE  DInv'
<1>1. /\ step = "wait" /\ step' = "resume" /\ quiet' = quiet \ {"deploy"}
      /\ UNCHANGED <<receipt, snap, bin, unit, cached, wanted, store, consumed, opened, proc>>
  BY DEF DrainTimeout, Deployer, files, systemd
<1>2. Files' /\ Receipts' /\ Guard' /\ Kept'
  BY <1>1, EarlySteps DEF Early
<1>3. Types'
  BY <1>1, DeployerTypes DEF DInv, Types
<1> QED
  BY <1>1, <1>2, <1>3, NoRead DEF DInv

LEMMA ResumeOldKeeps ==
    ASSUME DInv, ResumeOld
    PROVE  DInv'
<1> USE DEF DInv
<1>1. /\ step = "resume" /\ step' = "end" /\ proc' \in {proc, IF Running THEN Resumed(proc) ELSE proc}
      /\ UNCHANGED <<receipt, snap, bin, unit, cached, wanted, store, consumed, opened, quiet>>
  BY DEF ResumeOld, Deployer, files, systemd
<1>2. Files' /\ Receipts' /\ Guard' /\ Kept'
  BY <1>1, EarlySteps DEF Early
<1>3. Types'
  <2>1. /\ proc' \in ProcType /\ proc'.closed = proc'.draining /\ (proc'.version = "none" => proc' = Down)
        /\ proc'.staged => proc'.at # Nobody
    <3>1. CASE proc' = proc
      BY <3>1 DEF Types, Running
    <3>2. CASE proc' = Resumed(proc) /\ Running
      BY <3>2, ResumedFacts DEF Types, Running
    <3> QED
      BY <1>1, <3>1, <3>2
  <2> QED
    BY <1>1, <2>1, ProcTypes DEF Types
<1>4. Read'
  BY <1>1, NotReading, NoRead
<1> QED
  BY <1>2, <1>3, <1>4

LEMMA StopOldKeeps ==
    ASSUME DInv, StopOld
    PROVE  DInv'
<1> USE DEF DInv
<1>1. step = "stop" /\ UNCHANGED <<snap, bin, unit, cached, store, consumed>>
  BY DEF StopOld, Stopped, Deployer, files, systemd
<1>2. "deploy" \notin quiet /\ (quiet' = quiet \/ quiet' = {})
  BY <1>1, NotReading DEF StopOld, Stopped, Ends
<1>3. Read'
  BY <1>2, NoRead
<1>4. Types'
  <2>1. (proc' = proc \/ proc' = Down) /\ wanted' \in BOOLEAN /\ opened' \in BOOLEAN
    BY DEF StopOld, Stopped, Ends, systemd, Types
  <2> QED
    BY <1>1, <1>2, <2>1, DownShape DEF Types, Running
<1>5. CASE step' = "resume" /\ receipt' \in {receipt, "running", "failed"}
  <2>1. Files' /\ Receipts' /\ Guard' /\ Kept'
    BY <1>1, <1>5, EarlySteps DEF Early
  <2> QED
    BY <1>3, <1>4, <2>1
<1>6. CASE Stopped /\ step' = "snapshot" /\ receipt' = "running" /\ opened' = FALSE
  <2>1. Installed("old") /\ (Installed("old"))'
    BY <1>1 DEF Files, Early, Installed
  <2>2. Files'
    BY <1>6, <2>1 DEF Files, Early, Middle, Replacing, Back, Last, AllSteps
  <2>3. Receipts'
    BY <1>6 DEF Receipts, ReceiptIsHonest, Early, Middle, Replacing, Back
  <2>4. Guard'
    BY <1>6, DownShape DEF Guard, Stopped, Ends, Running
  <2>5. Kept'
    BY <1>1, <1>6 DEF Kept, NothingLost, Early, Middle, Replacing
  <2> QED
    BY <1>3, <1>4, <2>2, <2>3, <2>4, <2>5
<1> QED
  BY <1>5, <1>6 DEF StopOld

LEMMA SnapshotKeeps ==
    ASSUME DInv, Snapshot
    PROVE  DInv'
<1> USE DEF DInv
<1>1. /\ step = "snapshot"
      /\ UNCHANGED <<receipt, bin, unit, cached, wanted, store, consumed, opened, doubt, proc, quiet>>
  BY DEF Snapshot, Deployer, systemd
<1>2. Types'
  BY <1>1, DeployerTypes DEF Types
<1>3. Read'
  BY <1>1, NotReading, NoRead
<1>4. Installed("old") /\ (Installed("old"))' /\ receipt \in {"running", "rolling_back"}
  BY <1>1 DEF Files, Receipts, Early, Installed
<1>5. Receipts'
  BY <1>1, <1>4 DEF Receipts, ReceiptIsHonest, Early, Middle, Replacing, Back, Snapshot
<1>6. CASE snap' = [store |-> store, bin |-> bin, unit |-> unit] /\ step' = "migrate"
  <2>1. OldKept'
    BY <1>4, <1>6 DEF OldKept, Installed, Types
  <2>2. Files'
    BY <1>4, <1>6, <2>1 DEF Files, Early, Middle, Replacing, Back, Last, AllSteps, Installed
  <2>3. Guard'
    BY <1>1 DEF Guard, Guarded, Excepted, Running
  <2>4. Kept'
    BY <1>1, <1>6 DEF Kept, NothingLost, Early, Middle, Replacing
  <2> QED
    BY <1>2, <1>3, <1>5, <2>2, <2>3, <2>4
<1>7. CASE step' = "restart" /\ UNCHANGED snap
  <2>1. Files'
    BY <1>4, <1>7 DEF Files, Early, Middle, Replacing, Back, Last, AllSteps
  <2>2. Guard' /\ Kept'
    BY <1>1, <1>7 DEF Guard, Guarded, Kept, NothingLost, Early, Middle, Replacing
  <2> QED
    BY <1>2, <1>3, <1>5, <2>1, <2>2
<1> QED
  BY <1>6, <1>7 DEF Snapshot

LEMMA RestartOldKeeps ==
    ASSUME DInv, RestartOld
    PROVE  DInv'
<1>1. /\ step = "restart" /\ step' = "end" /\ receipt' = "failed"
      /\ UNCHANGED <<snap, bin, unit, cached, store, consumed, opened, proc, quiet>>
      /\ wanted' \in BOOLEAN
  BY DEF RestartOld, Deployer, files, DInv, Types
<1>2. Files' /\ Receipts' /\ Guard' /\ Kept'
  BY <1>1, EarlySteps DEF Early
<1>3. Types'
  BY <1>1, DeployerTypes DEF DInv, Types
<1> QED
  BY <1>1, <1>2, <1>3, NotReading, NoRead DEF DInv

-----------------------------------------------------------------------------
(* From the snapshot to the commit.                                          *)

\* What the steps of the replacement share: the process is left alone, and
\* they go on to the next of them or to the rollback.
LEMMA ReplacingKeeps ==
    ASSUME DInv, step \in Middle \ {"rb_stop", "rb_restore"}, step' \in Replacing \cup {"rb_stop"},
           UNCHANGED <<receipt, snap, consumed, opened, doubt, proc, quiet>>,
           store' \in {store, [store EXCEPT !.version = "new"]},
           bin' \in {"old", "new"}, unit' \in BOOLEAN, cached' \in BOOLEAN, wanted' \in BOOLEAN,
           wanted' => cached' \/ Excepted
    PROVE  /\ Types' /\ Receipts' /\ Guard' /\ Kept' /\ Read' /\ OldKept' /\ store'.whole
<1> USE DEF DInv
<1>1. step \in Middle /\ step \in Guarded /\ step # "wait" /\ step' \in Middle /\ step' # "wait"
  BY DEF Middle, Guarded, Replacing
<1>2. /\ store' \in StoreType /\ store'.whole = store.whole /\ store'.done = store.done
  BY DEF Types, StoreType
<1>3. Types'
  BY <1>2, DeployerTypes
<1>4. Read'
  BY <1>1, NotReading, NoRead
<1>5. receipt \in {"running", "rolling_back"} /\ OldKept /\ store.whole
  BY <1>1 DEF Receipts, Files
<1>6. Receipts'
  BY <1>5 DEF Receipts, ReceiptIsHonest, Early, Middle, Replacing, Back
<1>7. Guard'
  BY <1>1 DEF Guard, Excepted, Running
<1>8. Kept'
  <2>1. consumed \subseteq store.done /\ (~Excepted => consumed \subseteq snap.store.done)
    BY <1>1 DEF Kept
  <2> QED
    BY <1>2, <2>1 DEF Kept, NothingLost, Excepted
<1> QED
  BY <1>2, <1>3, <1>4, <1>5, <1>6, <1>7, <1>8 DEF OldKept

\* What is known of the files at such a step.
LEMMA ReplacingFiles ==
    ASSUME DInv, step \in Middle
    PROVE  /\ store \in StoreType /\ bin \in {"old", "new"} /\ unit \in BOOLEAN
           /\ cached \in BOOLEAN /\ wanted \in BOOLEAN
           /\ wanted => cached \/ Excepted
BY DEF DInv, Types, Guard, Guarded

LEMMA MigrateKeeps ==
    ASSUME DInv, Migrate
    PROVE  DInv'
<1> USE DEF DInv
<1>1. /\ step = "migrate" /\ step' \in {"mark", "rb_stop"}
      /\ store' \in {store, [store EXCEPT !.version = "new"]}
      /\ step' = "mark" => store' = [store EXCEPT !.version = "new"]
      /\ UNCHANGED <<receipt, snap, bin, unit, cached, wanted, consumed, opened, doubt, proc, quiet>>
  BY DEF Migrate, Advance, Abort, Installing, Deployer, systemd
<1>2. /\ store \in StoreType /\ bin \in {"old", "new"} /\ unit \in BOOLEAN
      /\ cached \in BOOLEAN /\ wanted \in BOOLEAN /\ (wanted => cached \/ Excepted)
  BY <1>1, ReplacingFiles DEF Middle
<1>3. /\ Types' /\ Receipts' /\ Guard' /\ Kept' /\ Read' /\ OldKept' /\ store'.whole
  BY <1>1, <1>2, ReplacingKeeps DEF Middle, Replacing
<1>4. step' = "mark" => store'.version = "new"
  BY <1>1, <1>2 DEF StoreType
<1>5. Files'
  BY <1>1, <1>3, <1>4 DEF Files, Early, Middle, Replacing, Back, Last, AllSteps
<1> QED
  BY <1>3, <1>5

LEMMA MarkDrainingKeeps ==
    ASSUME DInv, MarkDraining
    PROVE  DInv'
<1> USE DEF DInv
<1>1. /\ step = "mark" /\ step' \in {"install", "rb_stop"}
      /\ unit' \in {unit, TRUE} /\ (step' = "install" => unit' = TRUE)
      /\ UNCHANGED <<receipt, snap, bin, store, cached, wanted, consumed, opened, doubt, proc, quiet>>
  BY DEF MarkDraining, RewriteUnit, Advance, Abort, Installing, Deployer, systemd
<1>2. /\ store \in StoreType /\ bin \in {"old", "new"} /\ unit \in BOOLEAN
      /\ cached \in BOOLEAN /\ wanted \in BOOLEAN /\ (wanted => cached \/ Excepted)
  BY <1>1, ReplacingFiles DEF Middle, Replacing
<1>3. /\ Types' /\ Receipts' /\ Guard' /\ Kept' /\ Read' /\ OldKept' /\ store'.whole
  BY <1>1, <1>2, ReplacingKeeps DEF Middle, Replacing
<1>4. store'.version = "new"
  BY <1>1 DEF Files, Replacing
<1>5. Files'
  BY <1>1, <1>3, <1>4 DEF Files, Early, Middle, Replacing, Back, Last, AllSteps
<1> QED
  BY <1>3, <1>5

LEMMA InstallKeeps ==
    ASSUME DInv, Install
    PROVE  DInv'
<1> USE DEF DInv
<1>1. /\ step = "install" /\ step' \in {"reload", "rb_stop"}
      /\ bin' \in {bin, "new"} /\ (step' = "reload" => bin' = "new")
      /\ UNCHANGED <<receipt, snap, unit, store, cached, wanted, consumed, opened, doubt, proc, quiet>>
  BY DEF Install, Advance, Abort, Installing, Deployer, systemd
<1>2. /\ store \in StoreType /\ bin \in {"old", "new"} /\ unit \in BOOLEAN
      /\ cached \in BOOLEAN /\ wanted \in BOOLEAN /\ (wanted => cached \/ Excepted)
  BY <1>1, ReplacingFiles DEF Middle, Replacing
<1>3. /\ Types' /\ Receipts' /\ Guard' /\ Kept' /\ Read' /\ OldKept' /\ store'.whole
  BY <1>1, <1>2, ReplacingKeeps DEF Middle, Replacing
<1>4. store'.version = "new" /\ unit'
  BY <1>1 DEF Files, Replacing
<1>5. Files'
  BY <1>1, <1>3, <1>4 DEF Files, Early, Middle, Replacing, Back, Last, AllSteps
<1> QED
  BY <1>3, <1>5

LEMMA ReloadKeeps ==
    ASSUME DInv, Reload
    PROVE  DInv'
<1> USE DEF DInv
<1>1. /\ step = "reload" /\ step' \in {"launch", "rb_stop"}
      /\ cached' \in {cached, unit} /\ (step' = "launch" => cached' = unit)
      /\ UNCHANGED <<receipt, snap, unit, store, bin, wanted, consumed, opened, doubt, proc, quiet>>
  BY DEF Reload, Advance, Abort, Installing, Deployer, files
<1>2. /\ store \in StoreType /\ bin \in {"old", "new"} /\ unit \in BOOLEAN
      /\ cached \in BOOLEAN /\ wanted \in BOOLEAN /\ (wanted => cached \/ Excepted)
  BY <1>1, ReplacingFiles DEF Middle, Replacing
<1>4. store'.version = "new" /\ unit' /\ unit /\ bin' = "new"
  BY <1>1 DEF Files, Replacing
<1>3. /\ Types' /\ Receipts' /\ Guard' /\ Kept' /\ Read' /\ OldKept' /\ store'.whole
  BY <1>1, <1>2, <1>4, ReplacingKeeps DEF Middle, Replacing
<1>5. Files'
  BY <1>1, <1>3, <1>4 DEF Files, Early, Middle, Replacing, Back, Last, AllSteps
<1> QED
  BY <1>3, <1>5

LEMMA LaunchKeeps ==
    ASSUME DInv, Launch
    PROVE  DInv'
<1> USE DEF DInv
<1>1. /\ step = "launch" /\ step' \in {"verify", "rb_stop"} /\ wanted' \in {wanted, TRUE}
      /\ UNCHANGED <<receipt, snap, unit, store, bin, cached, consumed, opened, doubt, proc, quiet>>
  BY DEF Launch, Advance, Abort, Installing, Deployer, files
<1>2. /\ store \in StoreType /\ bin \in {"old", "new"} /\ unit \in BOOLEAN
      /\ cached \in BOOLEAN /\ wanted \in BOOLEAN /\ (wanted => cached \/ Excepted)
  BY <1>1, ReplacingFiles DEF Middle, Replacing
<1>4. store'.version = "new" /\ unit' /\ bin' = "new" /\ cached'
  BY <1>1 DEF Files, Replacing
<1>3. /\ Types' /\ Receipts' /\ Guard' /\ Kept' /\ Read' /\ OldKept' /\ store'.whole
  BY <1>1, <1>2, <1>4, ReplacingKeeps DEF Middle, Replacing
<1>5. Files'
  BY <1>1, <1>3, <1>4 DEF Files, Early, Middle, Replacing, Back, Last, AllSteps
<1> QED
  BY <1>3, <1>5

LEMMA VerifyKeeps ==
    ASSUME DInv, Verify
    PROVE  DInv'
<1> USE DEF DInv
<1>1. /\ step = "verify" /\ step' \in {"unmark", "rb_stop"}
      /\ UNCHANGED <<receipt, snap, unit, store, bin, cached, wanted, consumed, opened, doubt, proc, quiet>>
  BY DEF Verify, Advance, Abort, Installing, Deployer, files, systemd
<1>2. /\ store \in StoreType /\ bin \in {"old", "new"} /\ unit \in BOOLEAN
      /\ cached \in BOOLEAN /\ wanted \in BOOLEAN /\ (wanted => cached \/ Excepted)
  BY <1>1, ReplacingFiles DEF Middle, Replacing
<1>4. store'.version = "new" /\ unit' /\ bin' = "new" /\ cached'
  BY <1>1 DEF Files, Replacing
<1>3. /\ Types' /\ Receipts' /\ Guard' /\ Kept' /\ Read' /\ OldKept' /\ store'.whole
  BY <1>1, <1>2, <1>4, ReplacingKeeps DEF Middle, Replacing
<1>5. Files'
  BY <1>1, <1>3, <1>4 DEF Files, Early, Middle, Replacing, Back, Last, AllSteps
<1> QED
  BY <1>3, <1>5

LEMMA UnmarkDrainingKeeps ==
    ASSUME DInv, UnmarkDraining
    PROVE  DInv'
<1> USE DEF DInv
<1>1. /\ step = "unmark" /\ step' \in {"reload2", "rb_stop"}
      /\ unit' \in {unit, FALSE} /\ (step' = "reload2" => unit' = FALSE)
      /\ UNCHANGED <<receipt, snap, store, bin, cached, wanted, consumed, opened, doubt, proc, quiet>>
  BY DEF UnmarkDraining, RewriteUnit, Advance, Abort, Installing, Deployer, systemd
<1>2. /\ store \in StoreType /\ bin \in {"old", "new"} /\ unit \in BOOLEAN
      /\ cached \in BOOLEAN /\ wanted \in BOOLEAN /\ (wanted => cached \/ Excepted)
  BY <1>1, ReplacingFiles DEF Middle, Replacing
<1>4. store'.version = "new" /\ bin' = "new" /\ cached'
  BY <1>1 DEF Files, Replacing
<1>3. /\ Types' /\ Receipts' /\ Guard' /\ Kept' /\ Read' /\ OldKept' /\ store'.whole
  BY <1>1, <1>2, <1>4, ReplacingKeeps DEF Middle, Replacing
<1>5. Files'
  BY <1>1, <1>3, <1>4 DEF Files, Early, Middle, Replacing, Back, Last, AllSteps
<1> QED
  BY <1>3, <1>5

LEMMA ReloadNormalKeeps ==
    ASSUME DInv, ReloadNormal
    PROVE  DInv'
<1> USE DEF DInv
<1>1. /\ step = "reload2"
      /\ UNCHANGED <<receipt, snap, unit, store, bin, wanted, consumed, opened, proc, quiet>>
  BY DEF ReloadNormal, Advance, Abort, Deployer, files
<1>2. /\ store \in StoreType /\ bin \in {"old", "new"} /\ unit \in BOOLEAN
      /\ cached \in BOOLEAN /\ wanted \in BOOLEAN /\ (wanted => cached \/ Excepted)
  BY <1>1, ReplacingFiles DEF Middle, Replacing
<1>3. /\ store.version = "new" /\ store.whole /\ ~unit /\ bin = "new" /\ cached /\ OldKept
      /\ receipt \in {"running", "rolling_back"} /\ consumed \subseteq store.done
  BY <1>1 DEF Files, Receipts, Kept, Replacing, Middle
<1>4. CASE step' = "rb_stop" /\ UNCHANGED <<cached, doubt>>
  <2>1. /\ Types' /\ Receipts' /\ Guard' /\ Kept' /\ Read' /\ OldKept' /\ store'.whole
    BY <1>1, <1>2, <1>3, <1>4, ReplacingKeeps DEF Middle, Replacing
  <2>2. Files'
    BY <1>4, <2>1 DEF Files, Early, Middle, Replacing, Back, Last, AllSteps
  <2> QED
    BY <2>1, <2>2
<1>5. ASSUME step' \in {"commit", "rb_stop"}, cached' = unit
      PROVE  Types' /\ Read' /\ Receipts'
  <2>1. Types'
    BY <1>1, <1>2, <1>5, DeployerTypes
  <2>2. Read'
    BY <1>1, NotReading, NoRead
  <2>3. Receipts'
    BY <1>1, <1>3, <1>5 DEF Receipts, ReceiptIsHonest, Early, Middle, Replacing, Back
  <2> QED
    BY <2>1, <2>2, <2>3
<1>6. CASE step' = "rb_stop" /\ cached' = unit /\ doubt' = {"reload"}
  <2>1. OldKept'
    BY <1>1, <1>3 DEF OldKept
  <2>2. Files'
    BY <1>1, <1>3, <1>6, <2>1 DEF Files, Early, Middle, Replacing, Back, Last, AllSteps
  <2>3. Guard' /\ Kept'
    BY <1>1, <1>3, <1>6 DEF Guard, Kept, NothingLost, Excepted
  <2> QED
    BY <1>5, <1>6, <2>2, <2>3
<1>7. CASE step' = "commit" /\ cached' = unit
  <2>1. (Installed("new"))'
    BY <1>1, <1>3, <1>7 DEF Installed
  <2>2. Files'
    BY <1>7, <2>1 DEF Files, Early, Middle, Replacing, Back, Last, AllSteps
  <2>3. Guard' /\ Kept'
    BY <1>1, <1>3, <1>7 DEF Guard, Guarded, Kept, NothingLost, Early, Middle, Replacing
  <2> QED
    BY <1>5, <1>7, <2>2, <2>3
<1> QED
  BY <1>4, <1>6, <1>7 DEF ReloadNormal, Advance, Abort

\* Steps after the commit or the restoration: the files are as they shall be.
LEMMA LateSteps ==
    ASSUME DInv, step \in {"commit", "clean"} \cup Back, step' \in AllSteps \ (Early \cup Middle \cup {"rb_reload"}),
           UNCHANGED <<bin, unit, cached, store, consumed, opened, doubt>>,
           step \in {"commit", "clean"} => step' \in {"commit", "clean", "end"},
           step \in Back => step' \in Back \cup {"end"}
    PROVE  /\ Files' /\ Guard' /\ Kept'
           /\ step \in {"commit", "clean"} => (Installed("new"))'
           /\ step \in Back => (Installed("old"))'
<1> USE DEF DInv
<1>1. /\ step \in {"commit", "clean"} => Installed("new") /\ (Installed("new"))'
      /\ step \in Back => Installed("old") /\ (Installed("old"))'
  BY DEF Files, Installed
<1>2. Files'
  BY <1>1 DEF Files, Early, Middle, Replacing, Back, Last, AllSteps
<1>3. Guard'
  BY DEF Guard, Guarded, Early
<1>4. Kept'
  BY DEF Kept, NothingLost
<1> QED
  BY <1>1, <1>2, <1>3, <1>4

LEMMA CommitKeeps ==
    ASSUME DInv, Commit
    PROVE  DInv'
<1> USE DEF DInv
<1>1. /\ step = "commit" /\ step' \in {"commit", "clean", "end"}
      /\ UNCHANGED <<snap, bin, unit, cached, wanted, store, consumed, opened, doubt, quiet>>
      /\ \/ step' = "commit" /\ receipt' = receipt
         \/ step' = "clean" /\ receipt' = "succeeded"
         \/ step' = "end" /\ receipt' = "commit_uncertain"
      /\ proc' = proc \/ (Running /\ proc' = Resumed(proc))
  BY DEF Commit, Deployer, files, systemd
<1>2. Files' /\ Guard' /\ Kept' /\ (Installed("new"))'
  BY <1>1, LateSteps DEF AllSteps, Early, Middle, Replacing, Back, Last
<1>3. Receipts'
  <2>1. receipt \in {"running", "rolling_back"}
    BY <1>1 DEF Receipts
  <2> QED
    BY <1>1, <1>2, <2>1 DEF Receipts, ReceiptIsHonest, Early, Middle, Replacing, Back
<1>4. Types'
  <2>1. /\ proc' \in ProcType /\ proc'.closed = proc'.draining /\ (proc'.version = "none" => proc' = Down)
        /\ proc'.staged => proc'.at # Nobody
    <3>1. CASE proc' = proc
      BY <3>1 DEF Types, Running
    <3>2. CASE proc' = Resumed(proc) /\ Running
      BY <3>2, ResumedFacts DEF Types, Running
    <3> QED
      BY <1>1, <3>1, <3>2
  <2> QED
    BY <1>1, <2>1, ProcTypes DEF Types
<1>5. Read'
  BY <1>1, NotReading, NoRead
<1> QED
  BY <1>2, <1>3, <1>4, <1>5

LEMMA CleanKeeps ==
    ASSUME DInv, Clean
    PROVE  DInv'
<1> USE DEF DInv
<1>1. /\ step = "clean" /\ step' = "end"
      /\ UNCHANGED <<receipt, bin, unit, cached, wanted, store, consumed, opened, doubt, quiet, proc>>
  BY DEF Clean, Deployer, systemd
<1>2. Files' /\ Guard' /\ Kept' /\ (Installed("new"))'
  BY <1>1, LateSteps DEF AllSteps, Early, Middle, Replacing, Back, Last
<1>3. Receipts'
  <2>1. receipt = "succeeded"
    BY <1>1 DEF Receipts
  <2> QED
    BY <1>1, <1>2, <2>1 DEF Receipts, ReceiptIsHonest, Early, Middle, Replacing, Back
<1>4. Types'
  BY <1>1, DeployerTypes DEF Types
<1>5. Read'
  BY <1>1, NotReading, NoRead
<1> QED
  BY <1>2, <1>3, <1>4, <1>5

-----------------------------------------------------------------------------
(* failAndRollback.                                                          *)

LEMMA RollbackStopKeeps ==
    ASSUME DInv, RollbackStop
    PROVE  DInv'
<1> USE DEF DInv
<1>1. /\ step = "rb_stop" /\ step' = "rb_restore" /\ receipt' = "rolling_back"
      /\ UNCHANGED <<snap, bin, unit, cached, store, consumed, opened, doubt>>
      /\ \/ proc' = Down /\ quiet' = {} /\ wanted' = FALSE
         \/ UNCHANGED <<proc, quiet, wanted>>
  BY DEF RollbackStop, Stopped, Ends, Deployer, files, systemd
<1>2. "deploy" \notin quiet
  BY <1>1, NotReading
<1>3. Read'
  BY <1>1, <1>2, NoRead
<1>4. OldKept /\ store.whole /\ consumed \subseteq store.done /\ (~Excepted => consumed \subseteq snap.store.done)
  BY <1>1 DEF Files, Kept, Middle
<1>5. OldKept'
  BY <1>1, <1>4 DEF OldKept
<1>6. Files'
  BY <1>1, <1>4, <1>5 DEF Files, Early, Middle, Replacing, Back, Last, AllSteps
<1>7. Receipts'
  BY <1>1 DEF Receipts, ReceiptIsHonest, Early, Middle, Replacing, Back
<1>8. Kept'
  BY <1>1, <1>4 DEF Kept, NothingLost, Excepted
<1>9. CASE proc' = Down /\ quiet' = {} /\ wanted' = FALSE
  <2>1. Types'
    BY <1>1, <1>9, DownShape, ProcTypes DEF Types
  <2>2. Guard'
    BY <1>1, <1>9, DownShape DEF Guard, Running
  <2> QED
    BY <1>3, <1>6, <1>7, <1>8, <2>1, <2>2
<1>10. CASE UNCHANGED <<proc, quiet, wanted>>
  <2>1. Types'
    BY <1>1, <1>10, DeployerTypes DEF Types
  <2>2. Guard'
    BY <1>1, <1>10 DEF Guard, Guarded, Middle, Excepted, Running
  <2> QED
    BY <1>3, <1>6, <1>7, <1>8, <2>1, <2>2
<1> QED
  BY <1>1, <1>9, <1>10

LEMMA RestoreKeeps ==
    ASSUME DInv, Restore
    PROVE  DInv'
<1> USE DEF DInv
<1>1. /\ step = "rb_restore"
      /\ UNCHANGED <<snap, cached, wanted, consumed, opened, doubt, proc, quiet>>
  BY DEF Restore, Restoring, Deployer, systemd
<1>2. OldKept /\ store.whole /\ consumed \subseteq store.done /\ (~Excepted => consumed \subseteq snap.store.done)
  BY <1>1 DEF Files, Kept, Middle
<1>3. Read'
  BY <1>1, NotReading, NoRead
<1>4. receipt \in {"running", "rolling_back"}
  BY <1>1 DEF Receipts, Middle
<1>5. CASE /\ store' = snap.store /\ bin' = snap.bin /\ unit' = snap.unit
           /\ step' = "rb_reload" /\ UNCHANGED receipt
  <2>1. store' \in StoreType /\ bin' = "old" /\ unit' = FALSE /\ store'.version = "old" /\ store'.whole
    BY <1>2, <1>5 DEF OldKept
  <2>2. Types'
    BY <1>1, <2>1, DeployerTypes DEF Types
  <2>3. Files'
    BY <1>5, <2>1 DEF Files, Early, Middle, Replacing, Back, Last, AllSteps
  <2>4. Receipts'
    BY <1>4, <1>5 DEF Receipts, ReceiptIsHonest, Early, Middle, Replacing, Back
  <2>5. Guard' /\ Kept'
    BY <1>1, <1>2, <1>5 DEF Guard, Guarded, Kept, NothingLost, Excepted, Early, Middle, Replacing
  <2> QED
    BY <1>3, <2>2, <2>3, <2>4, <2>5
<1>6. CASE /\ RollbackFails
           /\ \/ UNCHANGED <<store, bin, unit>>
              \/ store' = [store EXCEPT !.whole = FALSE] /\ UNCHANGED <<bin, unit>>
              \/ store' = snap.store /\ bin' \in {bin, snap.bin} /\ UNCHANGED unit
  <2>1. step' = "end" /\ receipt' = "rollback_failed"
    BY <1>6 DEF RollbackFails
  <2>2. /\ store' \in StoreType /\ bin' \in {"old", "new"} /\ unit' = unit
        /\ store'.whole => consumed \subseteq store'.done \/ Excepted
    BY <1>2, <1>6 DEF OldKept, Types, StoreType
  <2>3. Types'
    BY <1>1, <2>2, DeployerTypes DEF Types
  <2>4. Files'
    BY <2>1 DEF Files, Early, Middle, Replacing, Back, Last, AllSteps
  <2>5. Receipts'
    BY <2>1 DEF Receipts, ReceiptIsHonest, Early, Middle, Replacing, Back
  <2>6. Guard' /\ Kept'
    BY <1>1, <2>1, <2>2 DEF Guard, Guarded, Kept, NothingLost, Excepted, Early, Middle, Replacing
  <2> QED
    BY <1>3, <2>3, <2>4, <2>5, <2>6
<1> QED
  BY <1>5, <1>6 DEF Restore

LEMMA RollbackReloadKeeps ==
    ASSUME DInv, RollbackReload
    PROVE  DInv'
<1> USE DEF DInv
<1>1. /\ step = "rb_reload"
      /\ \/ step' = "rb_start" /\ receipt' = receipt /\ cached' = unit
         \/ step' = "end" /\ receipt' = "rollback_failed" /\ cached' = cached
      /\ UNCHANGED <<snap, bin, unit, store, wanted, consumed, opened, doubt, proc, quiet>>
  BY DEF RollbackReload, RollbackFails, Restoring, Deployer, files
<1>2. Types'
  BY <1>1, DeployerTypes DEF Types
<1>3. Read'
  BY <1>1, NotReading, NoRead
<1>4. bin = "old" /\ store.version = "old" /\ store.whole /\ ~unit /\ receipt \in {"running", "rolling_back"}
  BY <1>1 DEF Files, Receipts
<1>5. step' = "rb_start" => (Installed("old"))'
  BY <1>1, <1>4 DEF Installed
<1>6. Files'
  BY <1>1, <1>5 DEF Files, Early, Middle, Replacing, Back, Last, AllSteps
<1>7. Receipts'
  BY <1>1, <1>4 DEF Receipts, ReceiptIsHonest, Early, Middle, Replacing, Back
<1>8. Guard' /\ Kept'
  BY <1>1 DEF Guard, Guarded, Kept, NothingLost, Early, Middle, Replacing
<1> QED
  BY <1>2, <1>3, <1>6, <1>7, <1>8

LEMMA BackKeeps ==
    ASSUME DInv, RollbackStart \/ RollbackReady \/ RollbackClean
    PROVE  DInv'
<1> USE DEF DInv
<1>1. /\ step \in Back /\ step' \in Back \cup {"end"}
      /\ UNCHANGED <<bin, unit, cached, store, consumed, opened, doubt, proc, quiet>>
      /\ wanted' \in BOOLEAN
  BY DEF RollbackStart, RollbackReady, RollbackClean, RollbackFails, Restoring, Deployer, files,
         systemd, Types, Back
<1>2. Files' /\ Guard' /\ Kept' /\ (Installed("old"))'
  BY <1>1, LateSteps DEF AllSteps, Early, Middle, Replacing, Back, Last
<1>3. Types'
  BY <1>1, DeployerTypes DEF Types
<1>4. Read'
  BY <1>1, NotReading, NoRead DEF Back
<1>5. receipt \in {"running", "rolling_back"}
  BY <1>1 DEF Receipts
<1>6. \/ step' \in Back /\ receipt' = receipt
      \/ step' = "end" /\ receipt' \in {"rollback_failed", "rollback_cleanup_failed"}
      \/ step' = "end" /\ receipt' = "rolled_back" /\ snap' = NoSnap
  BY DEF RollbackStart, RollbackReady, RollbackClean, RollbackFails, Back
<1>7. Receipts'
  BY <1>2, <1>5, <1>6 DEF Receipts, ReceiptIsHonest, Early, Middle, Replacing, Back
<1> QED
  BY <1>2, <1>3, <1>4, <1>7

LEMMA DieKeeps ==
    ASSUME DInv, Die
    PROVE  DInv'
<1> USE DEF DInv
<1>1. /\ step' = "dead" /\ quiet' = quiet \ {"deploy"}
      /\ UNCHANGED <<receipt, snap, bin, unit, cached, wanted, store, consumed, opened, doubt, proc>>
  BY DEF Die, Deployer, files, systemd
<1>2. Types'
  BY <1>1, DeployerTypes DEF Types
<1>3. Files'
  BY <1>1 DEF Files, Early, Middle, Replacing, Back, Last, AllSteps
<1>4. ReceiptIsHonest'
  BY <1>1 DEF Receipts, ReceiptIsHonest, Installed
<1>5. Receipts'
  BY <1>1, <1>4 DEF Receipts, Early, Middle, Replacing, Back
<1>6. Guard' /\ Kept'
  BY <1>1 DEF Guard, Guarded, Kept, NothingLost, Early, Middle, Replacing
<1> QED
  BY <1>1, <1>2, <1>3, <1>5, <1>6, NoRead

-----------------------------------------------------------------------------
(* The console and the commands.                                             *)

\* The service is drained, or opened by somebody else than the deployer.
LEMMA ControlKeeps ==
    ASSUME DInv, Running, quiet' \subseteq quiet, opened' \in BOOLEAN,
           UNCHANGED <<step, receipt, snap, bin, unit, cached, wanted, store, consumed, doubt>>,
           \/ proc' = Drained(proc) /\ opened' = opened
           \/ proc' = Resumed(proc) /\ opened' = TRUE
    PROVE  DInv'
<1> USE DEF DInv
<1>1. Files' /\ Receipts'
  BY FilesKept
<1>2. Kept'
  BY KeptKept
<1>3. /\ proc' \in ProcType /\ proc'.closed = proc'.draining /\ proc'.version = proc.version
      /\ proc'.at = proc.at /\ proc'.staged = proc.staged
      /\ opened' \/ (opened' = opened /\ proc'.hold = proc.hold /\ proc'.draining)
  BY DrainedFacts, ResumedFacts
<1>4. proc.version # "none" /\ (proc.staged => proc.at # Nobody) /\ wanted \in BOOLEAN
  BY DEF Types, Running
<1>5. Types'
  BY <1>3, <1>4, ProcTypes
<1>6. Guard' /\ Read'
  BY <1>3, <1>4 DEF Guard, Read, Excepted, Running
<1> QED
  BY <1>1, <1>2, <1>5, <1>6

LEMMA ConsoleRetryKeeps ==
    ASSUME DInv, ConsoleRetry
    PROVE  DInv'
<1>1. /\ proc.up \/ proc.retry
      /\ proc' = [proc EXCEPT !.retry = TRUE] \/ proc' = [proc EXCEPT !.retry = FALSE]
      /\ UNCHANGED <<step, receipt, snap, bin, unit, cached, wanted, store, consumed, opened, doubt, quiet>>
  BY DEF ConsoleRetry, Others, files, systemd
<1>2. /\ proc \in ProcType /\ proc.closed = proc.draining /\ (proc.staged => proc.at # Nobody)
      /\ proc.version # "none"
  BY <1>1, DownShape DEF DInv, Types, Running
<1>3. /\ proc' \in ProcType /\ proc'.closed = proc'.draining /\ proc'.version = proc.version
      /\ proc'.staged = proc.staged /\ proc'.at = proc.at /\ proc'.hold = proc.hold /\ proc'.draining = proc.draining
  BY <1>1, <1>2 DEF ProcType
<1> QED
  BY <1>1, <1>2, <1>3, ProcessKeeps DEF Running

LEMMA CommandFailsKeeps ==
    ASSUME DInv, CommandFails
    PROVE  DInv'
<1>1. /\ quiet' \subseteq quiet /\ proc' = (IF Running THEN Resumed(proc) ELSE proc)
      /\ opened' = (opened \/ Running)
      /\ UNCHANGED <<step, receipt, snap, bin, unit, cached, wanted, store, consumed, doubt>>
  BY DEF CommandFails, Others, files, systemd
<1>2. opened \in BOOLEAN
  BY DEF DInv, Types
<1>3. CASE Running
  BY <1>1, <1>3, ControlKeeps
<1>4. CASE ~Running
  BY <1>1, <1>2, <1>4, SameProcess
<1> QED
  BY <1>3, <1>4

LEMMA ElsewhereKeeps ==
    ASSUME DInv, Elsewhere
    PROVE  DInv'
<1>1. opened \in BOOLEAN /\ wanted \in BOOLEAN
  BY DEF DInv, Types
<1>2. CASE ConsoleRuntime
  BY <1>1, <1>2, ControlKeeps DEF ConsoleRuntime, Others, files, systemd
<1>3. CASE CommandDrain
  BY <1>1, <1>3, ControlKeeps DEF CommandDrain, Others, files, systemd
<1>4. CASE CommandAct
  BY <1>1, <1>4, EndsKeeps DEF CommandAct, Stopped, Others, files
<1>5. CASE Look("command") \/ Count("command")
  BY <1>5, LookKeeps, CountKeeps DEF Clients
<1> QED
  BY <1>2, <1>3, <1>4, <1>5, ConsoleRetryKeeps, CommandFailsKeeps DEF Elsewhere

-----------------------------------------------------------------------------
(* The theorems.                                                             *)

LEMMA InitInvariant ==
    ASSUME Init
    PROVE  DInv
<1>1. /\ bin = "old" /\ unit = FALSE /\ cached = FALSE /\ wanted = TRUE /\ consumed = {}
      /\ opened = FALSE /\ quiet = {}
      /\ store = [version |-> "old", done |-> {}, whole |-> TRUE]
      /\ proc = [version |-> "old", up |-> TRUE, draining |-> FALSE, closed |-> FALSE, hold |-> FALSE,
                 at |-> Nobody, staged |-> FALSE, retry |-> FALSE]
  BY DEF Init, Down
<1>2. proc \in ProcType
  BY <1>1 DEF ProcType
<1>a. store \in StoreType
  BY <1>1 DEF StoreType
<1>3. Types
  BY <1>1, <1>2, <1>a DEF Types, Running
<1> USE DEF Init
<1>4. Installed("old")
  BY DEF Installed
<1>5. Files
  BY <1>4 DEF Files, Early, Middle, Replacing, Back, Last, AllSteps
<1>6. Receipts
  BY <1>4 DEF Receipts, ReceiptIsHonest, Early, Middle, Replacing, Back
<1>7. Guard /\ Read
  BY DEF Guard, Guarded, Middle, Replacing, Read
<1>8. Kept
  BY DEF Kept, NothingLost, Middle, Replacing
<1> QED
  BY <1>3, <1>5, <1>6, <1>7, <1>8 DEF DInv

LEMMA StepInvariant ==
    ASSUME DInv, [Next]_vars
    PROVE  DInv'
<1>1. CASE Serve
  BY <1>1, BootKeeps, ReadyKeeps, PollKeeps, AdmitKeeps, RecordKeeps, FinishKeeps DEF Serve
<1>2. CASE Deploy
  <2>1. CASE Look("deploy") \/ Count("deploy")
    BY <2>1, LookKeeps, CountKeeps DEF Clients
  <2>2. CASE Drain \/ DrainTimeout \/ ResumeOld \/ StopOld \/ Snapshot \/ RestartOld
    BY <2>2, DrainKeeps, DrainTimeoutKeeps, ResumeOldKeeps, StopOldKeeps, SnapshotKeeps, RestartOldKeeps
  <2>3. CASE Migrate \/ MarkDraining \/ Install \/ Reload \/ Launch \/ Verify
    BY <2>3, MigrateKeeps, MarkDrainingKeeps, InstallKeeps, ReloadKeeps, LaunchKeeps, VerifyKeeps
  <2>4. CASE UnmarkDraining \/ ReloadNormal \/ Commit \/ Clean
    BY <2>4, UnmarkDrainingKeeps, ReloadNormalKeeps, CommitKeeps, CleanKeeps
  <2> QED
    BY <1>2, <2>1, <2>2, <2>3, <2>4 DEF Deploy
<1>3. CASE Rollback
  BY <1>3, RollbackStopKeeps, RestoreKeeps, RollbackReloadKeeps, BackKeeps DEF Rollback
<1>4. CASE UNCHANGED vars
  BY <1>4, SameProcess DEF vars, files, systemd, history
<1> QED
  BY <1>1, <1>2, <1>3, <1>4, CrashKeeps, DieKeeps, ElsewhereKeeps DEF Next

\* What the files, the receipt, the snapshot and the process have to do with
\* the step the deployer is at, for any number of messages, failures, crashes
\* and commands from elsewhere.
THEOREM DeploymentInvariant == Spec => []DInv
BY InitInvariant, StepInvariant, PTL DEF Spec

\* No rollback destroys the record of a message the service handled
\* (createDeploymentSnapshot, restoreDeploymentSnapshot, and the candidate
\* started with --draining).
THEOREM MessagesSurvive == Spec => []NothingLost
<1>1. DInv => NothingLost
  BY DEF DInv, Kept
<1> QED
  BY <1>1, DeploymentInvariant, PTL

\* The deployment receipt says what is installed (runDeploy, failAndRollback).
THEOREM ReceiptsHonest == Spec => []ReceiptIsHonest
<1>1. DInv => ReceiptIsHonest
  BY DEF DInv, Receipts
<1> QED
  BY <1>1, DeploymentInvariant, PTL

\* Only Count lets waitForDrain return, on an answer whose first half was read
\* earlier: what it read still holds.
LEMMA OnlyCountStops ==
    ASSUME DInv, [Next]_vars, step = "wait", step' = "stop"
    PROVE  Count("deploy")
<1> USE DEF vars, files, systemd, history
<1>1. ~Serve
  BY DEF Serve, Boot, Ready, Poll, Admit, Handled, Record, Finish, Service
<1>2. ~Elsewhere
  BY DEF Elsewhere, ConsoleRuntime, ConsoleRetry, CommandDrain, CommandFails, CommandAct, Others,
         Look, Count
<1>3. ~Rollback /\ ~Crash /\ ~Die
  BY DEF Rollback, RollbackStop, Restore, RollbackReload, RollbackStart, RollbackReady, RollbackClean,
         Crash, Die
<1>4. Deploy => Count("deploy")
  <2>1. ~ (Drain \/ Look("deploy") \/ DrainTimeout \/ ResumeOld \/ StopOld \/ Snapshot \/ RestartOld)
    BY DEF Drain, Look, DrainTimeout, ResumeOld, StopOld, Snapshot, RestartOld
  <2>2. ~ (Migrate \/ MarkDraining \/ Install \/ Reload \/ Launch \/ Verify)
    BY DEF Migrate, MarkDraining, Install, Reload, Launch, Verify, Advance, Abort
  <2>3. ~ (UnmarkDraining \/ ReloadNormal \/ Commit \/ Clean)
    BY DEF UnmarkDraining, ReloadNormal, Commit, Clean, Advance, Abort
  <2> QED
    BY <2>1, <2>2, <2>3 DEF Deploy
<1> QED
  BY <1>1, <1>2, <1>3, <1>4 DEF Next

\* The deployer stops the old service on a drain that is real (waitForDrain on
\* two reads of Snapshot at different times).
THEOREM DrainsReal == Spec => DrainIsReal
<1>1. DInv /\ [Next]_vars =>
        ((step = "wait" /\ step' = "stop") =>
            (opened \/ (proc.draining /\ ~proc.staged /\ active \subseteq {"retry"})))
  <2> SUFFICES ASSUME DInv, [Next]_vars, step = "wait", step' = "stop"
               PROVE  opened \/ (proc.draining /\ ~proc.staged /\ active \subseteq {"retry"})
    OBVIOUS
  <2>1. Count("deploy")
    BY OnlyCountStops
  <2>2. "deploy" \in quiet /\ active = {}
    BY <2>1 DEF Count
  <2> QED
    BY <2>2 DEF DInv, Read
<1> QED
  BY <1>1, DeploymentInvariant, PTL DEF Spec, DrainIsReal

=============================================================================
