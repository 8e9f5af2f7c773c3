------------------------------- MODULE Ingress -------------------------------
(***************************************************************************)
(* How a WeChat message reaches the service: the long-poll monitor         *)
(* (adapters/wechat/ilink/monitor.go), HandleMessage with its numbered     *)
(* menus, remote lock and attachment drafts (adapters/wechat), up to the   *)
(* record of a request.  One goroutine handles one message at a time; pc   *)
(* follows it from save to save, and the process may die between any two.  *)
(* WeChat delivers a batch again until its cursor has been committed.      *)
(*                                                                         *)
(* Messages are numbered in the order they were sent, and a cursor is the  *)
(* number of the last message of a batch, 0 standing for the empty string. *)
(***************************************************************************)
EXTENDS Naturals, Sequences, FiniteSets

CONSTANTS
    MaxMessages,   \* messages the user sends
    Kinds,         \* the kinds of message sent, a subset of AllKinds
    Intents,       \* conversation targets
    Bare,          \* messages may lack an identifier
    MaxTroubles,   \* failed saves, sends and lookups, crashes, expired sessions
    MaxOutside     \* selections, locks and unlocks from the console

\* What HandleMessage distinguishes: messages it ignores, work, attachments
\* without and with a text, the draft commands, #, #n, the text of the
\* unlock code, and the conversation commands (stop, files, read, ...).
AllKinds == {"other", "work", "attach", "caption", "submit", "discard", "view",
             "open", "number", "code", "command"}

ASSUME IngressAssumption ==
    /\ MaxMessages \in Nat /\ MaxTroubles \in Nat /\ MaxOutside \in Nat
    /\ Kinds \subseteq AllKinds /\ Bare \in BOOLEAN
    /\ Intents # {} /\ "none" \notin Intents

VARIABLES
    sent,       \* the messages: kind, and whether they carry an identifier
    offer,      \* WeChat: the batch it holds for the cursor last presented
    acked,      \* WeChat: the furthest cursor presented
    sync,       \* tables sync_cursors and sync_receipts
    receipts,   \* table menu_receipts
    draft,      \* table drafts
    added,      \* table draft_receipts
    requests,   \* the request recorded for a source
    rejected, cleared,  \* sources refused as busy, and released
    locked,     \* table remote_locks
    current,    \* the current target
    mon,        \* Monitor: cursor, pending cursor, consumed keys
    menu,       \* numberMenus: page, closed, fresh (not past its ten minutes)
    pc, at,     \* the monitor goroutine: its step and its message
    call,       \* locals of startCodexTask: expected and captured target
    handled,    \* history: messages whose handler returned without error
    effects,    \* history: state-changing operations made for a message
    codes,      \* history: messages that were first of all input of the unlock page
    gone,       \* history: draft pieces the user discarded or let expire
    home,       \* history: the target a draft piece was collected for
    troubles, outside

wechat == <<sent, offer, acked>>
drafts == <<draft, added, gone, home>>
tasks == <<requests, rejected, cleared>>
bounds == <<troubles, outside>>
vars == <<wechat, sync, receipts, drafts, tasks, locked, current, mon, menu, pc, at, call,
          handled, effects, codes, bounds>>

Msgs == 1..MaxMessages
NoRequest == [target |-> "none", pieces |-> {}]
NoDraft == [target |-> "none", text |-> FALSE, pieces |-> {}, submit |-> 0, live |-> FALSE]
NoOffer == [buf |-> 0, from |-> 0, to |-> 0]
NoCall == [expect |-> "none", target |-> "none"]
NoSync == [buf |-> 0, pending |-> 0, consumed |-> {}]

Kind(m) == sent[m].kind
Keyed(m) == sent[m].key
Attachment(m) == Kind(m) \in {"attach", "caption"}

Goto(step) == pc' = step

Trouble == troubles < MaxTroubles /\ troubles' = troubles + 1 /\ UNCHANGED outside

Stay == UNCHANGED <<at, bounds>>

-----------------------------------------------------------------------------
(* The user and WeChat.  A batch is held until its cursor is committed; it   *)
(* may grow meanwhile.  A new session starts at any earlier message.         *)

Held == offer.to # 0 /\ offer.buf = mon.buf

\* The batches GetUpdates may answer with.  An empty one only saves the
\* cursor again and is left out.
Batches ==
    [buf : {mon.buf}, from : IF mon.buf = 0 THEN 0..acked ELSE {mon.buf}, to : Msgs]

\* processBatch refuses a batch whose cursor is not the pending one.
SameCursor_Strict(b) == mon.pending = 0
SameCursor(b) == mon.pending = 0 \/ mon.pending = b.to

\* processBatch: the next message of batch b after m that was not consumed
\* yet is handled; after the last one the cursor is committed.
Proceed(b, m, consumed) ==
    LET left == (m + 1)..b.to \ consumed IN
    IF left = {} THEN at' = 0 /\ Goto("commit")
    ELSE /\ \E n \in left : (\A k \in left : n <= k) /\ at' = n
         /\ Goto("route")

\* An operation fails and the handler returns its error: the batch is given
\* up and its cursor kept.
Fails_NextMessage(step) ==
    /\ pc = step /\ Trouble
    /\ Proceed(offer, at, mon.consumed)
Fails(step) ==
    /\ pc = step /\ Trouble
    /\ Goto("poll") /\ at' = 0

\* The messages sent up to the end of a batch.
Sent(n) == \E more \in [1..n - Len(sent) -> [kind : Kinds, key : {TRUE, ~Bare}]] :
    sent' = sent \o more

\* Run: a successful GetUpdates; a refused batch changes nothing but the
\* batch WeChat holds.
Poll ==
    /\ pc = "poll"
    /\ \E b \in Batches :
        /\ b.from < b.to
        /\ Held => b.from = offer.from /\ b.to >= offer.to
        /\ offer' = b
        /\ IF b.to > Len(sent) THEN Sent(b.to) ELSE UNCHANGED sent
        /\ IF SameCursor(b) THEN /\ mon' = [mon EXCEPT !.pending = b.to]
                                 /\ Proceed(b, b.from, mon.consumed)
                            ELSE UNCHANGED <<mon, at, pc>>
    /\ UNCHANGED <<acked, sync, receipts, drafts, tasks, locked, current, menu, call,
                   handled, effects, codes, bounds>>

\* The session has expired: the cursor, the pending one and the receipts are
\* dropped.  If that cannot be saved Run returns and a new monitor loads
\* what is stored.
SessionExpired ==
    /\ pc = "poll" /\ mon.buf # 0 /\ Trouble
    /\ offer' = NoOffer
    /\ \/ sync' = NoSync /\ mon' = NoSync
       \/ mon' = sync /\ UNCHANGED sync
    /\ UNCHANGED <<sent, acked, receipts, drafts, tasks, locked, current, menu, pc, at, call,
                   handled, effects, codes>>

\* The handler has returned: the message is consumed, in memory first.
Receipt(ok) ==
    LET c == IF Keyed(at) THEN mon.consumed \cup {at} ELSE mon.consumed IN
    /\ mon' = [mon EXCEPT !.consumed = c]
    /\ sync' = IF ok /\ Keyed(at) THEN [buf |-> mon.buf, pending |-> mon.pending, consumed |-> c]
                                  ELSE sync

Consume ==
    /\ \/ /\ pc = "handled" /\ Receipt(TRUE)
          /\ Proceed(offer, at, mon'.consumed) /\ UNCHANGED bounds
       \/ Fails("handled") /\ Keyed(at) /\ Receipt(FALSE)
    /\ handled' = handled \cup {at} /\ call' = NoCall
    /\ UNCHANGED <<wechat, receipts, drafts, tasks, locked, current, menu, effects, codes>>

\* The whole batch is handled: its cursor is committed, and presented from
\* now on.
Commit ==
    /\ \/ /\ pc = "commit"
          /\ sync' = [NoSync EXCEPT !.buf = offer.to] /\ mon' = sync'
          /\ acked' = IF offer.to > acked THEN offer.to ELSE acked
          /\ offer' = NoOffer
          /\ Goto("poll") /\ Stay
       \/ Fails("commit") /\ UNCHANGED <<sync, mon, acked, offer>>
    /\ UNCHANGED <<sent, receipts, drafts, tasks, locked, current, menu, call,
                   handled, effects, codes>>

-----------------------------------------------------------------------------
(* HandleMessage                                                             *)

Known(m) == requests[m] # NoRequest \/ m \in rejected \/ m \in cleared

\* A menu that was not opened yet, or not for ten minutes, or was left, has
\* no numbers; only the unlock page still counts after its time.
NoMenu == [page |-> "home", closed |-> FALSE, fresh |-> FALSE]
Closed == [page |-> "home", closed |-> TRUE, fresh |-> FALSE]

\* A page is shown: while the entrance is locked only the unlock page is.
Shown(p) == [page |-> IF locked /\ p # "unlock" THEN "locked" ELSE p, closed |-> FALSE, fresh |-> TRUE]

\* A notice, an answer or a page is sent.  The handler only fails if there
\* is no room for one more channel effect, or if a direct reply is refused.
Answer ==
    /\ \/ pc = "answer" /\ Goto("handled") /\ Stay
       \/ Fails("answer")
    /\ UNCHANGED <<wechat, sync, receipts, drafts, tasks, locked, current, mon, menu, call,
                   handled, effects, codes>>

\* The unlock page takes every text but a menu one.
Unlocking == ~menu.closed /\ menu.page = "unlock"
Shortcut(m) == Kind(m) = "command" /\ ~Unlocking
MenuInput(m) == Kind(m) \in {"open", "number"} \/ Unlocking \/ Shortcut(m)

\* recordReceipt: the receipt is stored before anything is done.
Recorded_NotCodes == IF Unlocking THEN receipts ELSE receipts \cup {at}
Recorded_Unsaved == receipts
Recorded == IF Keyed(at) THEN receipts \cup {at} ELSE receipts

\* HandleMessage after the menus: a locked entrance refuses, else the menu is
\* left.
Enter ==
    IF locked THEN Goto("handled") /\ UNCHANGED menu
              ELSE Goto("draft") /\ menu' = Closed

\* HandleMessage up to menus.handle: messages that are not the owner's
\* finished ones are ignored, a source that has its record is acknowledged.
Ignored == Kind(at) = "other"
Acknowledged == ~Ignored /\ Keyed(at) /\ Known(at)
Repeated == at \in receipts /\ ~Attachment(at)
Fresh == ~Ignored /\ ~Acknowledged /\ ~Repeated

\* numberMenus.handle up to the receipt: a message that has one is only
\* answered with the current page.
Route ==
    /\ \/ /\ pc = "route" /\ Stay
          /\ \/ Ignored /\ pc' \in {"answer", "handled"} /\ UNCHANGED <<menu, receipts, codes>>
             \/ /\ Acknowledged
                /\ menu' = IF at \in rejected /\ requests[at] = NoRequest
                           THEN Shown("session") ELSE menu
                /\ Goto("answer") /\ UNCHANGED <<receipts, codes>>
             \/ /\ ~Ignored /\ ~Acknowledged /\ Repeated
                /\ menu' = IF ~menu.closed /\ ~menu.fresh THEN Shown("home") ELSE menu
                /\ Goto("answer") /\ UNCHANGED <<receipts, codes>>
             \/ /\ Fresh /\ (Attachment(at) \/ ~MenuInput(at))
                /\ Enter /\ UNCHANGED <<receipts, codes>>
             \/ /\ Fresh /\ Shortcut(at) /\ ~Keyed(at)
                /\ menu' = Closed
                /\ Goto("answer") /\ UNCHANGED <<receipts, codes>>
             \/ /\ Fresh /\ ~Attachment(at) /\ MenuInput(at) /\ (Shortcut(at) => Keyed(at))
                /\ receipts' = Recorded
                /\ codes' = IF Unlocking THEN codes \cup ({at} \ added) ELSE codes
                /\ Goto("act") /\ UNCHANGED menu
       \/ /\ Fails("route") /\ Fresh /\ ~Attachment(at) /\ MenuInput(at) /\ Keyed(at)
          /\ UNCHANGED <<menu, receipts, codes>>
    /\ UNCHANGED <<wechat, sync, drafts, tasks, locked, current, mon, call, handled, effects>>

\* What the numbers of a page stand for: pages, and operations.
Options == [
    home              |-> {"new", "threads", "workspaces", "running", "results", "settings"},
    unavailable       |-> {"session", "threads", "new"},
    interrupting      |-> {"session", "threads"},
    locked            |-> {"unlock"},
    unlock            |-> {},
    threads           |-> {"select", "threads"},
    running           |-> {"session", "running"},
    workspaces        |-> {"select", "workspaces"},
    session           |-> {"session", "confirm_cancel", "threads", "new"},
    results           |-> {"task", "results"},
    task              |-> {"restore", "confirm_release", "confirm_cancel", "read",
                           "confirm_redeliver", "confirm_retry", "task"},
    read              |-> {"task", "read"},
    settings          |-> {"modes", "styles", "confirm_lock", "console"},
    modes             |-> {"mode"},
    styles            |-> {"style"},
    confirm_cancel    |-> {"cancel"},
    confirm_retry     |-> {"retry"},
    confirm_redeliver |-> {"redeliver"},
    confirm_release   |-> {"release"},
    confirm_lock      |-> {"lock"}]

Pages == DOMAIN Options

\* The page an operation ends with when it succeeds.
Leads == [cancel |-> "session", retry |-> "session", redeliver |-> "task", files |-> "task",
          release |-> "results", lock |-> "home", mode |-> "modes", style |-> "styles"]

Notice == UNCHANGED <<menu, effects, cleared, locked, current>>
Did(m) == effects' = [effects EXCEPT ![m] = @ + 1]

\* show: a page that cannot be built leaves the session alone.
Show(p) == menu' = Shown(p) /\ UNCHANGED <<effects, cleared, locked, current>>

\* new, select-workspace, select-thread: the target changes, the menu closes.
Retarget ==
    /\ current' \in Intents
    /\ menu' = Closed
    /\ Did(at) /\ UNCHANGED <<cleared, locked>>

\* numberMenus.execute.  An operation that fails leaves its page with a
\* notice.
Execute(a) ==
    \/ Notice
    \/ a \in Pages /\ Show(a)
    \/ a = "running" /\ Show("session")
    \/ a = "retry" /\ \E p \in {"session", "task"} : Show(p)
    \/ a \in {"new", "select"} /\ Retarget
    \/ /\ a \in DOMAIN Leads \ {"lock", "release"}
       /\ menu' \in {menu, Shown(Leads[a])}
       /\ Did(at) /\ UNCHANGED <<cleared, locked, current>>
    \/ /\ a = "cancel"
       /\ menu' = [menu EXCEPT !.page = "interrupting"]
       /\ Did(at) /\ UNCHANGED <<cleared, locked, current>>
    \/ a = "restore" /\ Did(at) /\ UNCHANGED <<menu, cleared, locked, current>>
    \/ /\ a = "lock"
       /\ locked' = TRUE
       /\ menu' = [Shown("home") EXCEPT !.page = "locked"]
       /\ Did(at) /\ UNCHANGED <<cleared, current>>
    \/ \E r \in {m \in Msgs : requests[m] # NoRequest /\ m \notin cleared} :
       /\ a = "release"
       /\ cleared' = cleared \cup {r}
       /\ menu' \in {menu, Shown(Leads[a])}
       /\ Did(at) /\ UNCHANGED <<locked, current>>

\* conversationCommand: stop, files and continue act at once; a full text,
\* a resend and an unreadable conversation show a page; an error closes the
\* menu.
Command ==
    \/ Execute("cancel") \/ Execute("files") \/ Execute("select")
    \/ \E p \in {"read", "confirm_redeliver", "unavailable"} : Show(p)
    \/ menu' = Closed /\ UNCHANGED <<effects, cleared, locked, current>>

\* RemoteLock.Unlock; a wrong code, or a failed save, leaves the lock.
Unlock == Kind(at) = "code" /\ locked' = FALSE /\ Did(at) /\ UNCHANGED <<cleared, current>>

\* A number counts for the page it was shown with: not after ten minutes,
\* after the menu was left, or after a restart.
Stale == menu.closed \/ ~menu.fresh

\* numberMenus.handle after the receipt; then the page is sent.
MenuAct ==
    /\ \/ /\ pc = "act" /\ Goto("answer") /\ Stay
          /\ \/ Shortcut(at) /\ IF locked THEN Show("home") ELSE Command
             \/ Kind(at) = "open" /\ Show("home")
             \/ Kind(at) # "open" /\ ~Shortcut(at) /\ Stale /\ Show("home")
             \/ /\ Kind(at) # "open" /\ ~Shortcut(at) /\ ~Stale
                /\ \/ /\ Kind(at) = "number"
                      /\ menu' = Closed
                      /\ UNCHANGED <<effects, cleared, locked, current>>
                   \/ ~Keyed(at) /\ Notice
                   \/ /\ Keyed(at) /\ Unlocking
                      /\ \/ Notice
                         \/ Unlock /\ menu' = [page |-> "home", closed |-> FALSE, fresh |-> TRUE]
                   \/ Keyed(at) /\ ~Unlocking /\ locked /\ menu.page # "locked" /\ Show("home")
                   \/ /\ Keyed(at) /\ ~Unlocking /\ (locked => menu.page = "locked")
                      /\ \E a \in Options[menu.page] : Execute(a)
       \/ Fails("act") /\ Notice
       \/ Fails("act") /\ Keyed(at) /\ Unlocking /\ ~Stale /\ Unlock /\ UNCHANGED menu
    /\ UNCHANGED <<wechat, sync, receipts, drafts, requests, rejected, mon, call, handled, codes>>

-----------------------------------------------------------------------------
(* Drafts: attachments and texts collected until they are submitted.         *)

\* FindBySource: the source has a request on record.
Found(m) == requests[m] # NoRequest /\ m \notin cleared

\* pruneDrafts: a draft that has expired, or whose submission is known to
\* have been recorded, is dropped.
Prunable == ~draft.live \/ (draft.submit # 0 /\ (Found(draft.submit) \/ draft.submit \in cleared))

Submitted == UNION {requests[m].pieces : m \in Msgs}

\* The prune, of a handler, of the minutely cleanup and of startup; draftMu
\* keeps the cleanup out of a submission.
Pruned ==
    /\ draft' = NoDraft
    /\ gone' = IF draft.live THEN gone ELSE gone \cup (draft.pieces \ Submitted)

PruneDrafts ==
    /\ draft # NoDraft /\ Prunable /\ pc \notin {"capture", "begin", "settle"}
    /\ Pruned
    /\ UNCHANGED <<wechat, sync, receipts, added, home, tasks, locked, current, mon, menu, pc, at,
                   call, handled, effects, codes, bounds>>

\* The draft after one more piece; its target is that of the first.
Extended ==
    [target |-> IF draft = NoDraft THEN current ELSE draft.target,
     text |-> draft.text \/ Kind(at) # "attach",
     pieces |-> draft.pieces \cup {at}, submit |-> draft.submit, live |-> TRUE]

\* The source of the submission is stored before the submission.
Submitting_Unsaved == draft
Submitting == [draft EXCEPT !.submit = at]

DraftCommand(m) == Kind(m) \in {"submit", "discard", "view"}

\* handleDraft: what a message does to the draft.  A refused piece (size,
\* format, number, length) changes nothing.
Discard ==
    /\ Kind(at) = "discard"
    /\ draft' = NoDraft /\ added' = added \cup {at} /\ gone' = gone \cup draft.pieces
    /\ Did(at) /\ Goto("answer") /\ UNCHANGED <<home, call>>

Submittable == Kind(at) = "submit" /\ draft.text /\ draft.target = current

Submit ==
    /\ Submittable
    /\ draft' = Submitting
    /\ call' = [NoCall EXCEPT !.expect = draft.target]
    /\ Goto("capture") /\ UNCHANGED <<added, gone, home, effects>>

AddPiece ==
    /\ ~DraftCommand(at) /\ (Attachment(at) \/ draft # NoDraft)
    /\ draft # NoDraft => draft.target = current
    /\ draft' = Extended
    /\ added' = added \cup {at}
    /\ home' = [home EXCEPT ![at] = draft'.target]
    /\ Did(at) /\ Goto("answer") /\ UNCHANGED <<gone, call>>

Work == draft = NoDraft /\ ~Attachment(at) /\ ~DraftCommand(at)

HandleDraft ==
    /\ \/ /\ pc = "draft" /\ (draft = NoDraft \/ ~Prunable) /\ Stay
          /\ \/ Keyed(at) /\ at \notin added /\ (Discard \/ Submit \/ AddPiece)
             \/ /\ ~Keyed(at) \/ at \in added \/ ~(Work \/ Submittable \/ Kind(at) = "discard")
                /\ Goto("answer") /\ UNCHANGED <<drafts, call, effects>>
             \/ /\ Keyed(at) /\ at \notin added /\ Work
                /\ call' = NoCall
                /\ Goto("capture") /\ UNCHANGED <<drafts, effects>>
       \/ Fails("draft") /\ UNCHANGED <<drafts, call, effects>>
    /\ UNCHANGED <<wechat, sync, receipts, tasks, locked, current, mon, menu, handled, codes>>

-----------------------------------------------------------------------------
(* startCodexTask, and the end of a submission.                              *)

\* The target is captured again; a draft only goes to its own.
TargetChanged == call.expect # "none" /\ current # call.expect

Capture ==
    /\ \/ /\ pc = "capture"
          /\ call' = [call EXCEPT !.target = current]
          /\ Goto(IF TargetChanged THEN "answer" ELSE "begin") /\ Stay
       \/ Fails("capture") /\ UNCHANGED call
    /\ UNCHANGED <<wechat, sync, receipts, drafts, tasks, locked, current, mon, menu,
                   handled, effects, codes>>

\* Admission and record.  A busy session refuses for good, maintenance, a
\* full store and an unreadable conversation for now.
Begin ==
    /\ \/ /\ pc = "begin"
          /\ requests' = [requests EXCEPT ![at] =
                [target |-> call.target, pieces |-> IF call.expect = "none" THEN {} ELSE draft.pieces]]
          /\ Did(at) /\ Goto(IF call.expect = "none" THEN "handled" ELSE "settle")
          /\ UNCHANGED <<rejected, menu, at, bounds>>
       \/ /\ pc = "begin"
          /\ rejected' = rejected \cup {at}
          /\ menu' = Shown("session")
          /\ Goto("answer") /\ UNCHANGED <<requests, effects, at, bounds>>
       \/ /\ pc = "begin"
          /\ menu' \in {menu, Shown("unavailable")}
          /\ Goto("answer") /\ UNCHANGED <<requests, rejected, effects, at, bounds>>
       \/ Fails("begin") /\ UNCHANGED <<requests, rejected, menu, effects>>
    /\ UNCHANGED <<wechat, sync, receipts, drafts, cleared, locked, current, mon, call,
                   handled, codes>>

\* handleDraft: an accepted draft is removed together with its receipt.
Settle ==
    /\ \/ /\ pc = "settle"
          /\ draft' = NoDraft /\ added' = added \cup {at}
          /\ Goto("handled") /\ Stay
       \/ Fails("settle") /\ UNCHANGED <<draft, added>>
    /\ UNCHANGED <<wechat, sync, receipts, gone, home, tasks, locked, current, mon, menu, call,
                   handled, effects, codes>>

-----------------------------------------------------------------------------
(* Everything else that moves: the console, an executor that reports a busy  *)
(* session, time, and crashes.                                               *)

Console ==
    /\ outside < MaxOutside /\ outside' = outside + 1 /\ UNCHANGED troubles
    /\ \/ current' \in Intents /\ UNCHANGED locked
       \/ locked' = ~locked /\ UNCHANGED current
    /\ UNCHANGED <<wechat, sync, receipts, drafts, tasks, mon, menu, pc, at, call,
                   handled, effects, codes>>

\* executionChannel.Notify: the executor found the thread busy and shows the
\* session's page; the mutex of the menus keeps it out of an input.
BusyPage ==
    /\ pc # "act" /\ \E m \in Msgs : Found(m)
    /\ menu' = Shown("session")
    /\ UNCHANGED <<wechat, sync, receipts, drafts, tasks, locked, current, mon, pc, at, call,
                   handled, effects, codes, bounds>>

TimePasses ==
    /\ \/ /\ pc # "act" /\ menu.fresh
          /\ menu' = [NoMenu EXCEPT !.page = IF Unlocking THEN "unlock" ELSE "home"]
          /\ UNCHANGED draft
       \/ draft.live /\ draft' = [draft EXCEPT !.live = FALSE] /\ UNCHANGED menu
    /\ UNCHANGED <<wechat, sync, receipts, added, gone, home, tasks, locked, current, mon, pc, at,
                   call, handled, effects, codes, bounds>>

Crash ==
    /\ Trouble
    /\ mon' = sync /\ menu' = NoMenu
    /\ IF draft # NoDraft /\ Prunable THEN Pruned ELSE UNCHANGED <<draft, gone>>
    /\ Goto("poll") /\ at' = 0 /\ call' = NoCall
    /\ UNCHANGED <<wechat, sync, receipts, added, home, tasks, locked, current,
                   handled, effects, codes>>

Init ==
    /\ sent = <<>> /\ offer = NoOffer /\ acked = 0
    /\ sync = NoSync /\ mon = NoSync
    /\ receipts = {} /\ draft = NoDraft /\ added = {}
    /\ requests = [m \in Msgs |-> NoRequest] /\ rejected = {} /\ cleared = {}
    /\ locked \in BOOLEAN /\ current \in Intents
    /\ menu = NoMenu /\ pc = "poll" /\ at = 0 /\ call = NoCall
    /\ handled = {} /\ effects = [m \in Msgs |-> 0] /\ codes = {} /\ gone = {}
    /\ home = [m \in Msgs |-> "none"]
    /\ troubles = 0 /\ outside = 0

Handler == Route \/ Answer \/ MenuAct \/ HandleDraft
           \/ Capture \/ Begin \/ Settle
Monitor == Poll \/ Handler \/ Consume \/ Commit

Next == Monitor \/ SessionExpired \/ PruneDrafts \/ Console \/ BusyPage \/ TimePasses \/ Crash

Spec == Init /\ [][Next]_vars

\* The loop of the monitor goes on, with a wait after each failure, and a
\* timer prunes the drafts (ExpireMessageContexts).
FairSpec == Spec /\ WF_vars(Monitor) /\ WF_vars(PruneDrafts)

-----------------------------------------------------------------------------
(* Properties                                                                *)

\* processBatch: a cursor that was committed, or presented to WeChat, has
\* no message before it whose handler did not succeed, whatever failed and
\* whenever the process died.
NoMessageSkipped == \A m \in Msgs : (m <= acked \/ m <= sync.buf) => m \in handled

\* However often a message is delivered (a failed save, a full channel, a
\* crash after its work and before its receipt, a new session), it changes
\* something once: one operation of the menu, one piece of a draft, one request.
\* The unlock page does not look at the receipts of the drafts: a draft text
\* that spells the unlock code, delivered again in a new session while the
\* entrance is locked and that page is open, unlocks as well.
UnlocksAgain(m) == Kind(m) = "code" /\ m \in added \cap receipts
EffectOnce ==
    \A m \in Msgs : effects[m] <= 1 \/ (effects[m] = 2 /\ UnlocksAgain(m))

\* What was typed on the unlock page never reaches Codex or a draft, not even
\* when it is delivered again after the entrance was unlocked or the page
\* was lost (docs/guides/workbench.md:40).  A text that was a draft piece
\* before it came again as input of that page is not one typed there.
CodeNeverWork == \A m \in codes : requests[m] = NoRequest /\ m \notin draft.pieces \cup Submitted

\* The fate of a draft piece.  One the user was told of is in the draft, in a
\* request, or was discarded or let expire: a submission that is refused keeps
\* it.  It is submitted at most once, although request and draft are two
\* transactions; and to the conversation it was collected for, although the
\* console may select another one at any moment.
DraftKept ==
    /\ \A m \in added : ~DraftCommand(m) => m \in draft.pieces \cup Submitted \cup gone
    /\ \A m, n \in Msgs : m # n => requests[m].pieces \cap requests[n].pieces = {}
    /\ \A m \in Msgs : \A p \in requests[m].pieces : requests[m].target = home[p]

\* WeChat answers the pending cursor with a longer batch: processBatch
\* refuses it until the session expires.
Wedged == mon.pending # 0 /\ offer.buf = mon.buf /\ offer.to > mon.pending

\* Every message is handled in the end, once saves and sends stop failing,
\* unless WeChat lengthens a batch it has begun to deliver.
MessageHandled == \A m \in Msgs : m <= Len(sent) ~> (m \in handled \/ Wedged)

=============================================================================
