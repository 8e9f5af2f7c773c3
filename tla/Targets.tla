------------------------------ MODULE Targets ------------------------------
(***************************************************************************)
(* Which conversation the owner's next message goes to: the target store   *)
(* (internal/core/target), the conversation service over it                *)
(* (internal/core/conversation), the cached directory of Codex threads     *)
(* (internal/core/thread) and the executor that opens and binds a thread.  *)
(*                                                                         *)
(* A caller is the WeChat menu or a handler of the management console,     *)
(* each with one operation under way; a runner executes one request at a   *)
(* time.  A step is what happens under one lock or one call of Codex.  A   *)
(* call of Codex may fail, or be applied and lose its answer; a save may   *)
(* fail; the process may crash.  The store is that of one owner: no        *)
(* operation touches two.                                                  *)
(***************************************************************************)
EXTENDS Naturals, FiniteSets

CONSTANTS
    Callers, Runners,
    Workspaces, Default,   \* trusted workspaces, the configured default
    Threads,               \* native Codex threads
    Intents,               \* bound: intents that can be created
    None,
    MaxCalls,              \* bound: operations of all callers
    MaxFaults,             \* bound: failed saves and lost or failed calls
    MaxCrashes             \* bound: crashes

ASSUME TargetAssumption ==
    /\ Callers \cap Runners = {} /\ Default \in Workspaces
    /\ None \notin Callers \cup Runners \cup Workspaces \cup Threads \cup Intents
    /\ {MaxCalls, MaxFaults, MaxCrashes} \subseteq Nat

Procs == Callers \cup Runners

VARIABLES
    sel,      \* the owner's row, intents and selections, in memory and in the database
    rev,      \* Store.revisions of the owner, lost in a crash
    native,   \* what Codex knows of each thread: its state and its directory
    cache,    \* Manager.catalog: the states of a scan, or None
    catRev,   \* Manager.revision
    pc, loc,  \* where each process is, and its local variables
    adm,      \* the admission each process holds
    calls, faults, crashes,
    moved,    \* history: the selection moved since the process took its snapshot
    stray,    \* history: threads there from the start, or left by a failed call or a crash
    unseen    \* history: threads changed in Codex with no Invalidate to follow

vars == <<sel, rev, native, cache, catRev, pc, loc, adm, calls, faults, crashes,
          moved, stray, unseen>>

store == <<sel, rev, moved>>
catalogue == <<cache, catRev>>
bounds == <<calls, crashes>>

-----------------------------------------------------------------------------

NoIntent == [ws |-> None, thread |-> None]
NoSelection == [id |-> None, ws |-> None, thread |-> None, rev |-> 0]
NoScan == [t \in Threads |-> "absent"]
NoAdmission == [held |-> FALSE, target |-> None, thread |-> None]
NoLocal == [kind |-> "none", ws |-> None, thread |-> None, intent |-> None,
            expected |-> NoSelection, scan |-> NoScan, at |-> 0]

\* "withdrawn": archived again by the operation that created it.
States == {"absent", "open", "renamed", "archived", "withdrawn"}
Listed == {"open", "renamed"}

\* The state has its types, and every workspace's selection is an intent of
\* that workspace (validate in the target store).
TypeOK ==
    /\ sel.known \in BOOLEAN /\ sel.ws \in Workspaces
    /\ sel.cur \in [Workspaces -> Intents \cup {None}]
    /\ sel.intents \in [Intents -> [ws: Workspaces \cup {None}, thread: Threads \cup {None}]]
    /\ \A w \in Workspaces : sel.cur[w] # None => sel.intents[sel.cur[w]].ws = w
    /\ native \in [Threads -> [state: States, ws: Workspaces \cup {None}]]
    /\ cache = None \/ cache \in [Threads -> States]
    /\ stray \subseteq Threads /\ unseen \subseteq Threads

Used == {i \in Intents : sel.intents[i] # NoIntent}
Fresh == CHOOSE i \in Intents \ Used : TRUE

\* Store.currentLocked and Snapshot.
Snapshot ==
    LET i == sel.cur[sel.ws]
    IN IF i = None
       THEN [NoSelection EXCEPT !.ws = sel.ws, !.rev = rev]
       ELSE [id |-> i, ws |-> sel.ws, thread |-> sel.intents[i].thread, rev |-> rev]

Goto(p, l) == pc' = [pc EXCEPT ![p] = l]
End(p) == Goto(p, "idle") /\ loc' = [loc EXCEPT ![p] = NoLocal]
Fault == faults < MaxFaults /\ faults' = faults + 1

\* Store.commit: one transaction; the revision counts changes of the selection.
Commit(next) ==
    LET changed == ~ sel.known \/ next.ws # sel.ws \/ next.cur # sel.cur
    IN /\ sel' = [next EXCEPT !.known = TRUE]
       /\ rev' = IF changed THEN rev + 1 ELSE rev
       /\ moved' = [p \in Procs |-> moved[p] \/ changed]

\* Give workspace w the current intent i, with thread t if the intent is new.
Point(s, w, i, t) ==
    [s EXCEPT !.intents[i] = [ws |-> w, thread |-> t], !.cur[w] = i]

Holding(s, w, t) == {i \in Intents : s.intents[i] = [ws |-> w, thread |-> t]}

\* Store.selectLocked: keep the workspace's intent, else one that has the
\* thread, else a new one.
Selected(w, t) ==
    LET i == sel.cur[w]
        kept == i # None /\ (t = None \/ sel.intents[i].thread = t)
        others == IF t = None THEN {} ELSE Holding(sel, w, t)
        chosen == IF kept THEN i
                  ELSE IF others # {} THEN CHOOSE j \in others : TRUE ELSE Fresh
    IN [Point(sel, w, chosen, IF kept THEN sel.intents[i].thread ELSE t) EXCEPT !.ws = w]

\* A new intent is needed and the bound on intents allows it.
Room == Used # Intents

-----------------------------------------------------------------------------
(* The target store's own operations *)

\* A new call of process p.
Enter(p) == p \in Callers /\ pc[p] = "idle" /\ calls < MaxCalls /\ calls' = calls + 1

SelectWorkspace(p, w) ==
    /\ Enter(p) /\ (sel.cur[w] = None => Room)
    /\ Commit(Selected(w, None))
    /\ UNCHANGED <<native, catalogue, pc, loc, adm, faults, crashes, stray, unseen>>

\* Mutant: the workspace that is being left gets the new conversation.
NewConversation_OldSlot(p, w) ==
    /\ Enter(p) /\ Room
    /\ Commit([sel EXCEPT !.intents[Fresh] = [ws |-> w, thread |-> None], !.cur[sel.ws] = Fresh, !.ws = w])
    /\ UNCHANGED <<native, catalogue, pc, loc, adm, faults, crashes, stray, unseen>>

NewConversation(p, w) ==
    /\ Enter(p) /\ Room
    /\ Commit([Point(sel, w, Fresh, None) EXCEPT !.ws = w])
    /\ UNCHANGED <<native, catalogue, pc, loc, adm, faults, crashes, stray, unseen>>

\* Remember with current = false: the menu's page of running sessions.
Remember(p, t) ==
    /\ Enter(p) /\ native[t].state \in Listed
    /\ Holding(sel, native[t].ws, t) = {} /\ Room
    /\ Commit([sel EXCEPT !.intents[Fresh] = [ws |-> native[t].ws, thread |-> t]])
    /\ UNCHANGED <<native, catalogue, pc, loc, adm, faults, crashes, stray, unseen>>

-----------------------------------------------------------------------------
(* Select *)

BeginSelect(p, w, t) ==
    /\ Enter(p) /\ native[t].state # "absent"
    /\ loc' = [loc EXCEPT ![p] = [NoLocal EXCEPT !.kind = "select", !.ws = w, !.thread = t,
                                                 !.expected = Snapshot]]
    /\ moved' = [moved EXCEPT ![p] = FALSE]
    /\ Goto(p, "use")
    /\ UNCHANGED <<sel, rev, native, catalogue, adm, faults, crashes, stray, unseen>>

\* ReadAvailableThread: a fresh scan lists the thread, in the given workspace.
Available(t, w) == native[t].state \in Listed /\ native[t].ws = w

UseGlobalThread(p) ==
    /\ pc[p] = "use"
    /\ \/ /\ Available(loc[p].thread, loc[p].ws)
          /\ Goto(p, "commit") /\ UNCHANGED <<loc, faults>>
       \/ ~ Available(loc[p].thread, loc[p].ws) /\ End(p) /\ UNCHANGED faults
       \/ Fault /\ End(p)
    /\ UNCHANGED <<store, native, catalogue, adm, bounds, stray, unseen>>

\* Mutant: only the intent is compared, not the revision.
Unchanged_Intent(p) == [loc[p].expected EXCEPT !.rev = rev] = Snapshot

\* SelectThread's comparison with the caller's snapshot.
Unchanged(p) == loc[p].expected = Snapshot

\* SelectThread for Select and Create.  An error of Create goes on to its
\* compensation; so does a context that has expired by now.
SelectThread(p) ==
    /\ pc[p] = "commit"
    /\ \/ /\ Unchanged(p) /\ (Holding(sel, loc[p].ws, loc[p].thread) = {} => Room)
          /\ Commit(Selected(loc[p].ws, loc[p].thread))
          /\ End(p) /\ UNCHANGED faults
       \/ /\ ~ Unchanged(p) /\ UNCHANGED <<store, faults>>
          /\ IF loc[p].kind = "create" THEN Goto(p, "undo") /\ UNCHANGED loc ELSE End(p)
       \/ /\ Fault /\ UNCHANGED store
          /\ IF loc[p].kind = "create" THEN Goto(p, "undo") /\ UNCHANGED loc ELSE End(p)
    /\ UNCHANGED <<native, catalogue, adm, bounds, stray, unseen>>

-----------------------------------------------------------------------------
(* Create, and the executor's opening of a new thread (OpenTaskThread) *)

BeginCreate(p, w) ==
    /\ Enter(p)
    /\ loc' = [loc EXCEPT ![p] = [NoLocal EXCEPT !.kind = "create", !.ws = w,
                                                 !.expected = Snapshot]]
    /\ moved' = [moved EXCEPT ![p] = FALSE]
    /\ Goto(p, "start")
    /\ UNCHANGED <<sel, rev, native, catalogue, adm, faults, crashes, stray, unseen>>

Release(p) == adm' = [adm EXCEPT ![p] = NoAdmission]

\* An error ends the operation: a caller's Create, or a runner's failBefore.
Fails(p) == End(p) /\ Release(p)

StartThread(p, t) ==
    /\ pc[p] = "start" /\ native[t].state = "absent"
    /\ native' = [native EXCEPT ![t] = [state |-> "open", ws |-> loc[p].ws]]
    /\ \/ /\ loc' = [loc EXCEPT ![p].thread = t]
          /\ \E named \in BOOLEAN : Goto(p, IF named THEN "name" ELSE "forget")
          /\ UNCHANGED <<adm, faults, stray, unseen>>
       \/ Fault /\ Fails(p) /\ stray' = stray \cup {t} /\ unseen' = unseen \cup {t}
    /\ UNCHANGED <<store, catalogue, bounds>>

StartFails(p) ==
    /\ pc[p] = "start" /\ Fault /\ Fails(p)
    /\ UNCHANGED <<store, native, catalogue, bounds, stray, unseen>>

\* SetThreadName for a thread just created, and for Rename.
SetThreadName(p) ==
    LET t == loc[p].thread
        applied == [native EXCEPT ![t].state = IF @ = "open" THEN "renamed" ELSE @]
    IN /\ pc[p] \in {"name", "rename"}
       /\ \/ Goto(p, "forget") /\ native' = applied /\ UNCHANGED <<loc, adm, faults, unseen>>
          \/ /\ Fault /\ native' \in {native, applied}
             /\ unseen' = unseen \cup {t}
             /\ IF pc[p] = "name" THEN Goto(p, "unname") /\ UNCHANGED <<loc, adm>> ELSE Fails(p)
       /\ UNCHANGED <<store, catalogue, bounds, stray>>

Archived(t) == [native EXCEPT ![t].state = "archived"]
Withdrawn(t) == [native EXCEPT ![t].state = "withdrawn"]

\* A thread that could not be named is archived again, and nothing is invalidated.
Unname(p) ==
    LET t == loc[p].thread
    IN /\ pc[p] = "unname" /\ Fails(p)
       /\ \/ native' = Withdrawn(t) /\ UNCHANGED <<faults, stray>>
          \/ Fault /\ UNCHANGED native /\ stray' = stray \cup {t}
       /\ unseen' = unseen \cup {t}
       /\ UNCHANGED <<store, catalogue, bounds>>

\* Mutant: what was created remotely and not committed locally is left alone.
Compensate_Not(p) ==
    /\ pc[p] = "undo" /\ Goto(p, "forget")
    /\ loc' = [loc EXCEPT ![p].kind = "undone"]
    /\ UNCHANGED <<store, native, catalogue, adm, faults, bounds, stray, unseen>>

\* Create's compensation: archive what was created and not selected.
Compensate(p) ==
    /\ pc[p] = "undo" /\ Goto(p, "forget")
    /\ loc' = [loc EXCEPT ![p].kind = "undone"]
    /\ \/ native' = Withdrawn(loc[p].thread) /\ UNCHANGED <<faults, stray>>
       \/ Fault /\ UNCHANGED native /\ stray' = stray \cup {loc[p].thread}
    /\ UNCHANGED <<store, catalogue, adm, bounds, unseen>>

\* Manager.Invalidate, and where the operation goes from there.
Invalidate(p) ==
    LET next == CASE loc[p].kind = "create" -> "commit"
                  [] loc[p].kind = "archive" -> "clear"
                  [] loc[p].kind = "work" -> "bind"
                  [] OTHER -> "idle"
    IN /\ pc[p] = "forget"
       /\ IF next = "idle" THEN End(p) ELSE Goto(p, next) /\ UNCHANGED loc
       /\ cache' = None /\ catRev' = catRev + 1
       /\ UNCHANGED <<store, native, adm, faults, bounds, stray, unseen>>

-----------------------------------------------------------------------------
(* Archive and Rename *)

\* Coordinator.begin: the target or the thread is held by an admission, or
\* an executing request is attached to the thread.
Busy(g, t) == \E a \in Procs : adm[a].held /\ (\/ g # None /\ adm[a].target = g
                                               \/ t # None /\ adm[a].thread = t)

\* Mutant: the admissions are not consulted.
BeginArchive_Unguarded(p, t) ==
    /\ Enter(p) /\ native[t].state # "absent"
    /\ adm' = [adm EXCEPT ![p] = [held |-> TRUE, target |-> None, thread |-> t]]
    /\ loc' = [loc EXCEPT ![p] = [NoLocal EXCEPT !.kind = "archive", !.thread = t]]
    /\ Goto(p, "trust")
    /\ UNCHANGED <<store, native, catalogue, faults, crashes, stray, unseen>>

\* WithIdleSession.
BeginArchive(p, t) ==
    /\ Enter(p) /\ native[t].state # "absent" /\ ~ Busy(None, t)
    /\ adm' = [adm EXCEPT ![p] = [held |-> TRUE, target |-> None, thread |-> t]]
    /\ loc' = [loc EXCEPT ![p] = [NoLocal EXCEPT !.kind = "archive", !.thread = t]]
    /\ Goto(p, "trust")
    /\ UNCHANGED <<store, native, catalogue, faults, crashes, stray, unseen>>

BeginRename(p, t) ==
    /\ Enter(p) /\ native[t].state # "absent"
    /\ loc' = [loc EXCEPT ![p] = [NoLocal EXCEPT !.kind = "rename", !.thread = t]]
    /\ Goto(p, "trust")
    /\ UNCHANGED <<store, native, catalogue, adm, faults, crashes, stray, unseen>>

\* A turn is running on the thread.
NativeBusy(t) == \E r \in Runners : pc[r] = "turn" /\ loc[r].thread = t

\* Trusted, and Archive's look at the status it read.
Trusted(p) ==
    /\ pc[p] = "trust"
    /\ \/ /\ ~ (loc[p].kind = "archive" /\ NativeBusy(loc[p].thread))
          /\ Goto(p, loc[p].kind) /\ UNCHANGED <<loc, adm, faults>>
       \/ loc[p].kind = "archive" /\ NativeBusy(loc[p].thread) /\ Fails(p) /\ UNCHANGED faults
       \/ Fault /\ Fails(p)
    /\ UNCHANGED <<store, native, catalogue, bounds, stray, unseen>>

ArchiveThread(p) ==
    /\ pc[p] = "archive"
    /\ \/ native' = Archived(loc[p].thread) /\ Goto(p, "forget") /\ UNCHANGED <<loc, adm, faults, unseen>>
       \/ /\ Fault /\ Fails(p) /\ native' \in {native, Archived(loc[p].thread)}
          /\ unseen' = unseen \cup {loc[p].thread}
    /\ UNCHANGED <<store, catalogue, bounds, stray>>

\* Store.ClearThread: every workspace whose current intent has the thread gets a new one.
ClearThread(p) ==
    LET has == {w \in Workspaces : sel.cur[w] # None /\ sel.intents[sel.cur[w]].thread = loc[p].thread}
    IN /\ pc[p] = "clear"
       /\ \/ /\ UNCHANGED faults
             /\ IF has = {} THEN (IF sel.known THEN Commit(sel) ELSE UNCHANGED store)
                ELSE Room /\ \E w \in has : has = {w} /\ Commit(Point(sel, w, Fresh, None))
          \/ Fault /\ UNCHANGED store
       /\ Fails(p)
       /\ UNCHANGED <<native, catalogue, bounds, stray, unseen>>

-----------------------------------------------------------------------------
(* The cached directory *)

\* directory: the entry is used while it is fresh; otherwise the thread list is scanned.
BeginList(p) ==
    /\ Enter(p) /\ cache = None
    /\ loc' = [loc EXCEPT ![p] = [NoLocal EXCEPT !.kind = "list", !.at = catRev]]
    /\ Goto(p, "scan")
    /\ UNCHANGED <<store, native, catalogue, adm, faults, crashes, stray, unseen>>

\* scanGlobalThreads of the open threads.
Scan(p) ==
    /\ pc[p] = "scan"
    /\ \/ /\ loc' = [loc EXCEPT ![p].scan =
                        [t \in Threads |-> IF native[t].state \in Listed THEN native[t].state ELSE "absent"]]
          /\ Goto(p, "fill") /\ UNCHANGED faults
       \/ Fault /\ End(p)
    /\ UNCHANGED <<store, native, catalogue, adm, bounds, stray, unseen>>

\* Mutant: a scan that began before an invalidation fills the cache.
Fill_Always(p) ==
    /\ pc[p] = "fill" /\ End(p)
    /\ cache' = loc[p].scan
    /\ UNCHANGED <<store, native, catRev, adm, faults, bounds, stray, unseen>>

\* The second half of directory.
Fill(p) ==
    /\ pc[p] = "fill" /\ End(p)
    /\ cache' = IF loc[p].at = catRev THEN loc[p].scan ELSE cache
    /\ UNCHANGED <<store, native, catRev, adm, faults, bounds, stray, unseen>>

Expire ==
    /\ cache # None /\ cache' = None
    /\ UNCHANGED <<store, native, catRev, pc, loc, adm, faults, bounds, stray, unseen>>

-----------------------------------------------------------------------------
(* An executor and the conversation of its request *)

\* Capture when the message is accepted.
Capture(r) ==
    LET i == sel.cur[sel.ws]
    IN /\ r \in Runners /\ pc[r] = "idle" /\ calls < MaxCalls /\ calls' = calls + 1
       /\ IF i # None THEN UNCHANGED store
          ELSE Room /\ Commit(Point(sel, sel.ws, Fresh, None))
       /\ LET g == IF i # None THEN i ELSE Fresh
          IN loc' = [loc EXCEPT ![r] = [NoLocal EXCEPT !.kind = "work", !.ws = sel.ws, !.intent = g,
                         !.thread = sel.intents[g].thread]]
       /\ Goto(r, "begin")
       /\ UNCHANGED <<native, catalogue, adm, faults, crashes, stray, unseen>>

\* Coordinator.Begin; a busy session ends the message with a receipt.
Begin(r) ==
    /\ pc[r] = "begin"
    /\ IF Busy(loc[r].intent, loc[r].thread) THEN End(r) /\ UNCHANGED adm
       ELSE /\ adm' = [adm EXCEPT ![r] = [held |-> TRUE, target |-> loc[r].intent, thread |-> loc[r].thread]]
            /\ Goto(r, "open") /\ UNCHANGED loc
    /\ UNCHANGED <<store, native, catalogue, faults, bounds, stray, unseen>>

\* Resolve, then OpenTaskThread: a new thread, or the fresh list and Resume.
\* "late": the intent got its thread after the request was admitted.
Open(r) ==
    LET t == IF loc[r].thread # None THEN loc[r].thread ELSE sel.intents[loc[r].intent].thread
    IN /\ pc[r] = "open"
       /\ \/ t = None /\ Goto(r, "start") /\ UNCHANGED <<loc, adm, faults>>
          \/ /\ t # None /\ Available(t, loc[r].ws) /\ ~ NativeBusy(t)
             /\ loc' = [loc EXCEPT ![r].thread = t, ![r].kind = IF loc[r].thread # None THEN "resume" ELSE "late"]
             /\ Goto(r, "resume") /\ UNCHANGED <<adm, faults>>
          \/ t # None /\ ~ (Available(t, loc[r].ws) /\ ~ NativeBusy(t)) /\ Fails(r) /\ UNCHANGED faults
          \/ Fault /\ Fails(r)
       /\ UNCHANGED <<store, native, catalogue, bounds, stray, unseen>>

\* ResumeThread, which would bring an archived thread back.  AttachThread
\* names the thread in the executing request.
Resume(r) ==
    /\ pc[r] = "resume"
    /\ \/ /\ native' = [native EXCEPT ![loc[r].thread].state = IF @ \in Listed THEN @ ELSE "open"]
          /\ adm' = [adm EXCEPT ![r].thread = loc[r].thread]
          /\ unseen' = IF native' = native THEN unseen ELSE unseen \cup {loc[r].thread}
          /\ Goto(r, "turn") /\ UNCHANGED <<loc, faults>>
       \/ Fault /\ Fails(r) /\ UNCHANGED <<native, unseen>>
    /\ UNCHANGED <<store, catalogue, bounds, stray>>

\* Mutant: the thread is given to whatever conversation is current by now.
Bind_Current(r) ==
    /\ pc[r] = "bind" /\ sel.cur[sel.ws] # None
    /\ Commit([sel EXCEPT !.intents[sel.cur[sel.ws]].thread = loc[r].thread])
    /\ Goto(r, "attach")
    /\ UNCHANGED <<native, catalogue, loc, adm, faults, bounds, stray, unseen>>

\* Store.Bind.
Bind(r) ==
    /\ pc[r] = "bind"
    /\ \/ /\ sel.intents[loc[r].intent].thread \in {None, loc[r].thread}
          /\ Commit([sel EXCEPT !.intents[loc[r].intent].thread = loc[r].thread])
          /\ Goto(r, "attach") /\ UNCHANGED <<loc, adm, faults, stray>>
       \/ /\ sel.intents[loc[r].intent].thread \notin {None, loc[r].thread}
          /\ Fails(r) /\ UNCHANGED <<store, faults, stray>>
       \/ Fault /\ Fails(r) /\ UNCHANGED store /\ stray' = stray \cup {loc[r].thread}
    /\ UNCHANGED <<native, catalogue, bounds, unseen>>

\* Requests.AttachThread.
Attach(r) ==
    /\ pc[r] = "attach"
    /\ \/ /\ adm' = [adm EXCEPT ![r].thread = loc[r].thread]
          /\ Goto(r, "turn") /\ UNCHANGED <<loc, faults>>
       \/ Fault /\ Fails(r)
    /\ UNCHANGED <<store, native, catalogue, bounds, stray, unseen>>

Finish(r) ==
    /\ pc[r] = "turn" /\ Fails(r)
    /\ UNCHANGED <<store, native, catalogue, faults, bounds, stray, unseen>>

-----------------------------------------------------------------------------

\* The process dies.  What it was creating in Codex stays.
Crash ==
    /\ crashes < MaxCrashes /\ crashes' = crashes + 1
    /\ rev' = 0 /\ cache' = None /\ catRev' = 0
    /\ pc' = [p \in Procs |-> "idle"] /\ loc' = [p \in Procs |-> NoLocal]
    /\ adm' = [p \in Procs |-> NoAdmission]
    /\ moved' = [p \in Procs |-> FALSE]
    /\ stray' = stray \cup (Threads \cap {loc[p].thread : p \in Procs})
    /\ UNCHANGED <<sel, native, calls, faults, unseen>>

\* A fresh store; Codex may have threads already.
Init ==
    /\ sel = [known |-> FALSE, ws |-> Default, cur |-> [w \in Workspaces |-> None],
              intents |-> [i \in Intents |-> NoIntent]]
    /\ stray \in SUBSET Threads
    /\ native = [t \in Threads |-> IF t \in stray THEN [state |-> "open", ws |-> Default]
                                   ELSE [state |-> "absent", ws |-> None]]
    /\ rev = 0 /\ cache = None /\ catRev = 0
    /\ pc = [p \in Procs |-> "idle"] /\ loc = [p \in Procs |-> NoLocal]
    /\ adm = [p \in Procs |-> NoAdmission]
    /\ calls = 0 /\ faults = 0 /\ crashes = 0
    /\ moved = [p \in Procs |-> FALSE] /\ unseen = {}

\* One operation of the menu or of the console.
Operation(p) ==
    \/ \E w \in Workspaces : SelectWorkspace(p, w) \/ NewConversation(p, w) \/ BeginCreate(p, w)
    \/ \E w \in Workspaces, t \in Threads : BeginSelect(p, w, t)
    \/ \E t \in Threads : Remember(p, t) \/ BeginArchive(p, t) \/ BeginRename(p, t)
    \/ BeginList(p) \/ UseGlobalThread(p) \/ SelectThread(p) \/ Compensate(p)
    \/ Trusted(p) \/ ArchiveThread(p) \/ ClearThread(p) \/ Scan(p) \/ Fill(p)

\* One request.
Work(r) == Capture(r) \/ Begin(r) \/ Open(r) \/ Resume(r) \/ Bind(r) \/ Attach(r) \/ Finish(r)

\* OpenTaskThread and Rename share these.
Opening(p) ==
    \/ \E t \in Threads : StartThread(p, t)
    \/ StartFails(p) \/ SetThreadName(p) \/ Unname(p) \/ Invalidate(p)

Next ==
    \/ \E p \in Callers : Operation(p)
    \/ \E r \in Runners : Work(r)
    \/ \E p \in Procs : Opening(p)
    \/ Expire \/ Crash

Spec == Init /\ [][Next]_vars

-----------------------------------------------------------------------------
(* Properties *)

\* A selection that Select or Create was still checking with Codex is never
\* applied over a later one, not even when the owner has switched away and
\* back in between (Store.SelectThread).
NoStaleSelection ==
    [][\A p \in Callers : pc[p] = "commit" /\ pc'[p] = "idle" /\ sel' # sel => ~ moved[p]]_vars

\* Create leaves no thread behind: one it made is in the end the thread of
\* some intent or archived, unless a call of Codex failed or the process died.
NoOrphan ==
    \A t \in Threads :
        \/ native[t].state \notin Listed \/ native[t].ws = None \/ t \in stray
        \/ \E i \in Intents : sel.intents[i].thread = t
        \/ \E p \in Procs : loc[p].thread = t

\* Once an operation that changed a thread has invalidated the directory, no
\* cached page shows the thread as it was before (Manager.directory): a
\* cached entry differs from Codex only while such an operation has yet to
\* invalidate, or for a change whose call reported an error.
CacheFollowsChanges ==
    cache # None =>
        \A t \in Threads \ unseen :
            \/ cache[t] = IF native[t].state \in Listed THEN native[t].state ELSE "absent"
            \/ \E p \in Procs : loc[p].thread = t /\ pc[p] \in {"name", "forget"}

\* A thread archived by the service is not brought back by Resume, nor
\* archived under a running turn: the executor's admission and Archive's
\* exclude each other from the look at the directory to the end of the turn
\* (WithIdleSession, ReadAvailableThread).  Only a thread that the request
\* was admitted with is protected: the admission of a request whose intent
\* gets its thread later names no thread that Archive could see.
NoRevival ==
    \A r \in Runners :
        pc[r] \in {"resume", "turn"} /\ loc[r].kind = "resume" =>
            native[loc[r].thread].state # "archived"

\* Whatever is selected, created, cleared or archived meanwhile, a request
\* works in the workspace and on the intent it was accepted for.
WorkKeepsItsConversation ==
    \A r \in Runners : pc[r] \in {"attach", "resume", "turn"} =>
        /\ sel.intents[loc[r].intent] = [ws |-> loc[r].ws, thread |-> loc[r].thread]
        /\ native[loc[r].thread].ws = loc[r].ws

=============================================================================
