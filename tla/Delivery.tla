------------------------------ MODULE Delivery ------------------------------
(***************************************************************************)
(* Sending a result, and the notices about what could not be sent:         *)
(* adapters/wechat (reply_delivery.go, reply_text.go, reply_visual.go,     *)
(* reply_voice.go, media.go, sender.go, execution_channel.go,              *)
(* pending_notice_delivery.go) and core/delivery.                          *)
(*                                                                         *)
(* A job is one request: its execution ends, or it is redelivered, again   *)
(* and again.  A result has                                                *)
(* output files, a body and image links, and goes out as many messages;    *)
(* each may be accepted, refused, or sent with its answer lost, in which   *)
(* case the user may or may not see it.  What the job concludes is what    *)
(* the request store keeps as the receipt.  An execution that did not      *)
(* succeed or was not delivered leaves a notice, which goes out when the   *)
(* user next writes.  The notice store is that of the one owner.           *)
(***************************************************************************)
EXTENDS Naturals, FiniteSets

CONSTANTS
    Jobs, Flushers,
    Files, Images, Pages,   \* output files, image links and pages of a result
    Capacity, Limit,        \* maxPendingNoticesPerOwner, pendingNoticeDeliveryLimit
    TTL,                    \* lifetime of a notice
    MaxNow, MaxNotices,     \* bounds: the clock, notices
    MaxFaults               \* bound: failed saves and crashes

ASSUME DeliveryAssumption ==
    /\ {Files, Images, Pages, Capacity, Limit, TTL} \subseteq Nat \ {0}
    /\ {MaxNow, MaxNotices, MaxFaults} \subseteq Nat

VARIABLES
    job,          \* each job: where it is, its deliveryReport, and what the user has seen
    mem, disk,    \* NoticeStore.state and its table
    drawn,        \* notice identifiers drawn
    sending,      \* Handler.noticeSending
    flush,        \* each flushPendingNotices: where it is, and the notices it listed
    now, faults,
    given,        \* history: notices Enqueue accepted
    told,         \* history: how often the user has seen each notice
    tried,        \* history: notices of digests that may have been seen
    unsettled     \* history: notices whose completion was lost

vars == <<job, mem, disk, drawn, sending, flush, now, faults, given, told, tried, unsettled>>

notices == <<mem, disk, drawn, given>>
digest == <<sending, flush, told, tried, unsettled>>
bounds == <<now, faults>>

-----------------------------------------------------------------------------
(* One message                                                               *)

\* "unsent": the file cannot be read, downloaded or uploaded.
Wire == {"ok", "refused", "lost"}
MediaWire == Wire \cup {"unsent"}

\* Whether the user sees it; no answer says nothing.
Visible(w) == CASE w = "ok" -> {TRUE} [] w = "lost" -> BOOLEAN [] OTHER -> {FALSE}

\* outboundMayBeVisible of a message that is not "ok".
MayBeVisible(w) == w = "lost"

-----------------------------------------------------------------------------
(* One result                                                                *)

\* How a result goes out: "brief" and "pages" as text, "cards" and "voice" as
\* media with a text as the way out, "files" without its body.  A first
\* delivery as text brings no files.
Forms == {"brief", "pages", "cards", "voice", "files"}
TextForms == {"brief", "pages"}
BodyForms == TextForms \cup {"cards", "voice", "text"}

NoJob == [pc |-> "idle", form |-> "none", first |-> FALSE, left |-> 0, media |-> 0, text |-> FALSE,
          failed |-> FALSE, may |-> FALSE, seen |-> {}, reason |-> "none"]

Set(j, r) == job' = [job EXCEPT ![j] = r]
Defer(reason) == [NoJob EXCEPT !.pc = "defer", !.reason = reason]

Saw(r, part, v) == IF v THEN [r EXCEPT !.seen = @ \cup {part}] ELSE r

Fault == faults < MaxFaults /\ faults' = faults + 1 /\ UNCHANGED now
Quietly == UNCHANGED <<notices, digest, bounds>>

\* The messages a body takes.
Length(form) == IF form = "voice" THEN 1 ELSE Pages

ToBody(r) == [r EXCEPT !.pc = "body", !.left = Length(r.form)]
ToImages(r) == IF r.form = "brief" THEN [r EXCEPT !.pc = "verdict"]
               ELSE [r EXCEPT !.pc = "images", !.left = Images]

\* sendCompletedTask for an execution, sendReplyWithMediaForTask or
\* sendResultFiles for a redelivery.
Begin(j, form, first) ==
    LET r == [NoJob EXCEPT !.form = form, !.first = first]
    IN /\ job[j].pc = "idle"
       /\ form \in (IF first THEN {"brief", "cards", "voice"} ELSE {"pages", "cards", "voice", "files"})
       /\ Set(j, CASE form = "brief" -> ToBody(r)
                   [] form = "files" -> [r EXCEPT !.pc = "heading"]
                   [] OTHER -> [r EXCEPT !.pc = "files", !.left = Files])
       /\ Quietly

\* The report after one more message: a failed one may be visible itself, or
\* stand beside something that is.
Counted(r, w, beside) ==
    IF w = "ok" THEN r
    ELSE [r EXCEPT !.failed = TRUE, !.may = @ \/ MayBeVisible(w) \/ beside]

\* deliverReplyPlan, the output files.
SendFile(j) ==
    LET r == job[j] IN
    /\ r.pc = "files"
    /\ \E w \in MediaWire : \E v \in Visible(w) :
        LET q == Saw(Counted(r, w, r.media > 0), <<"file", r.left>>, v)
            p == [q EXCEPT !.left = @ - 1, !.media = IF w = "ok" THEN @ + 1 ELSE @]
        IN Set(j, IF p.left = 0 THEN ToBody(p) ELSE p)
    /\ Quietly

\* sendResultText: page by page, up to the first that fails.
SendPage(j) ==
    LET r == job[j]
        n == Length(r.form) - r.left + 1 IN
    /\ r.pc = "body" /\ r.form \in TextForms
    /\ \E w \in Wire : \E v \in Visible(w) :
        LET q == Saw(Counted(r, w, r.text), <<r.form, n>>, v)
        IN Set(j, IF w # "ok" THEN ToImages(q)
                  ELSE IF r.left = 1 THEN ToImages([q EXCEPT !.text = TRUE])
                  ELSE [q EXCEPT !.text = TRUE, !.left = @ - 1])
    /\ Quietly

\* Mutant: a batch that broke off is always made up for with a text.
Broken_Resent(r, count) == [r EXCEPT !.pc = "fallback", !.media = @ + count]

\* sendMediaBatch broke off with count messages that are, or may be, visible;
\* only when there is none the body is sent as a text.
Broken(r, count) ==
    IF count = 0 THEN [r EXCEPT !.pc = "fallback"]
    ELSE ToImages([r EXCEPT !.media = @ + count, !.failed = TRUE, !.may = TRUE])

\* The report after the nth message of a batch.
Batched(r, n, w) ==
    IF w # "ok" THEN Broken(r, IF w = "lost" THEN n ELSE n - 1)
    ELSE IF r.left = 1 THEN ToImages([r EXCEPT !.media = @ + n])
    ELSE [r EXCEPT !.left = @ - 1]

\* All of a batch is uploaded before any of it is sent: one that cannot be
\* read or uploaded never begins.
Unstaged(r) == Broken(r, 0)

\* sendMediaBatch.  Nor does it begin without a renderer or a voice, for a
\* reply too short, too long or with nothing to read, or if one page fails.
SendBatch(j, form) ==
    LET r == job[j]
        n == Length(form) - r.left + 1 IN
    /\ r.pc = "body" /\ r.form = form
    /\ \/ n = 1 /\ Set(j, Unstaged(r))
       \/ \E w \in Wire : \E v \in Visible(w) : Set(j, Batched(Saw(r, <<form, n>>, v), n, w))
    /\ Quietly

SendCards(j) == SendBatch(j, "cards")
SendVoice(j) == SendBatch(j, "voice")

\* The body as one text, after a batch of which nothing went out.
SendFallback(j) ==
    LET r == job[j] IN
    /\ r.pc = "fallback"
    /\ \E w \in Wire : \E v \in Visible(w) :
        Set(j, ToImages([Saw(Counted(r, w, r.media > 0), <<"text", 1>>, v) EXCEPT !.text = w = "ok"]))
    /\ Quietly

\* The image links; sendResultFiles sends files and links alike.
SendImage(j) ==
    LET r == job[j] IN
    /\ r.pc = "images"
    /\ \E w \in MediaWire : \E v \in Visible(w) :
        LET q == Saw(Counted(r, w, r.media > 0 \/ r.text), <<"image", r.left>>, v)
            p == [q EXCEPT !.left = @ - 1, !.media = IF w = "ok" THEN @ + 1 ELSE @]
        IN Set(j, IF p.left = 0 THEN [p EXCEPT !.pc = "verdict"] ELSE p)
    /\ Quietly

\* sendResultFiles: nothing follows a heading that was not accepted.
SendHeading(j) ==
    LET r == job[j] IN
    /\ r.pc = "heading"
    /\ \E w \in Wire : \E v \in Visible(w) :
        LET q == Saw(Counted(r, w, FALSE), <<"heading", 1>>, v)
        IN Set(j, IF w = "ok" THEN [q EXCEPT !.text = TRUE, !.pc = "images", !.left = Files + Images]
                  ELSE [q EXCEPT !.pc = "verdict"])
    /\ Quietly

\* The end of deliverReplyPlan.
Outcome(r) ==
    IF ~ r.failed THEN "succeeded"
    ELSE IF r.may \/ r.media > 0 \/ r.text THEN "ambiguous" ELSE "explicit_failure"

\* A redelivery is reported to who asked for it.  After an execution the
\* runner saves the receipt; what was not delivered for certain, or not
\* recorded, is deferred as a notice.
Conclude(j) ==
    LET r == job[j] IN
    /\ r.pc = "verdict"
    /\ \/ /\ Set(j, IF r.first /\ r.failed THEN Defer(Outcome(r)) ELSE NoJob)
          /\ UNCHANGED bounds
       \/ Fault /\ Set(j, IF r.first THEN Defer("ambiguous") ELSE NoJob)
    /\ UNCHANGED <<notices, digest>>

\* Runner.fail and Notify, also for a second executor on an ended request: the
\* message cannot be sent or is refused.  One that may be visible leaves nothing.
Notify(j) ==
    /\ job[j].pc = "idle"
    /\ Set(j, Defer("error"))
    /\ Quietly

-----------------------------------------------------------------------------
(* NoticeStore                                                               *)

Live(s) == {n \in s : n.expires > now}
Ids(s) == {n.id : n \in s}

\* The k oldest of them.  Notices of one second are in any order: that of the
\* table, after a restart, is not the one in which they came.
Oldest(s, k) ==
    {h \in SUBSET s : /\ Cardinality(h) = IF Cardinality(s) < k THEN Cardinality(s) ELSE k
                      /\ \A n \in h, m \in s \ h : n.expires <= m.expires}

\* saveLocked writes the whole state; if it fails, memory is as before.
Save(s) == mem' = s /\ disk' = s /\ UNCHANGED bounds
SaveFails == Fault /\ UNCHANGED <<mem, disk>>

Key(j) == <<j, job[j].reason>>

\* DeferNotice and Enqueue.
Enqueue(j) ==
    LET live == Live(mem)
        notice == [id |-> drawn + 1, key |-> Key(j), expires |-> now + TTL]
        refused == Key(j) \in {n.key : n \in live} \/ Cardinality(live) >= Capacity IN
    /\ job[j].pc = "defer" /\ Set(j, NoJob)
    /\ \/ /\ refused /\ UNCHANGED <<drawn, given>>
          /\ Save(live) \/ (live # mem /\ SaveFails)
       \/ /\ ~ refused /\ drawn < MaxNotices /\ drawn' = drawn + 1
          /\ \/ Save(live \cup {notice}) /\ given' = given \cup {notice}
             \/ SaveFails /\ UNCHANGED given
    /\ UNCHANGED digest

-----------------------------------------------------------------------------
(* flushPendingNotices                                                       *)

Idle == [pc |-> "idle", list |-> {}]
Stops(f) == flush' = [flush EXCEPT ![f] = Idle] /\ sending' = FALSE

\* Mutant: two messages of the user send the notices at the same time.
Enter_Always(f) == TRUE

\* CompareAndSwap of noticeSending.
Enter(f) == ~ sending

\* A message has come in on an unlocked entrance, and an effect may run.
StartFlush(f) ==
    /\ flush[f].pc = "idle" /\ Enter(f)
    /\ sending' = TRUE /\ flush' = [flush EXCEPT ![f].pc = "list"]
    /\ UNCHANGED <<job, notices, told, tried, unsettled, bounds>>

\* List, which drops what has expired; an empty list ends the flush.
List(f) ==
    LET live == Live(mem) IN
    /\ flush[f].pc = "list"
    /\ \/ /\ Save(live)
          /\ \/ live = {} /\ Stops(f)
             \/ /\ live # {} /\ UNCHANGED sending
                /\ \E head \in Oldest(live, Limit) :
                      flush' = [flush EXCEPT ![f] = [pc |-> "send", list |-> Ids(head)]]
       \/ live # mem /\ SaveFails /\ Stops(f)
    /\ UNCHANGED <<job, drawn, given, told, tried, unsettled>>

\* One digest; if it was refused the notices stay.
SendDigest(f) ==
    LET ids == flush[f].list IN
    /\ flush[f].pc = "send"
    /\ \E w \in Wire : \E v \in Visible(w) :
        /\ told' = [n \in DOMAIN told |-> IF v /\ n \in ids THEN told[n] + 1 ELSE told[n]]
        /\ IF w = "ok" \/ MayBeVisible(w)
           THEN /\ flush' = [flush EXCEPT ![f].pc = "complete"] /\ UNCHANGED sending
                /\ tried' = tried \cup ids
           ELSE Stops(f) /\ UNCHANGED tried
    /\ UNCHANGED <<job, notices, unsettled, bounds>>

\* Mutant: the notices at the front are taken for the ones that were sent.
Completed_Front(s, ids) == s \ (CHOOSE h \in Oldest(s, Cardinality(ids)) : TRUE)

Completed(s, ids) == {n \in s : n.id \notin ids}

\* Complete, by identifier: a notice may have expired meanwhile and its like
\* have been enqueued again.
Complete(f) ==
    LET ids == flush[f].list
        kept == Completed(mem, ids) IN
    /\ flush[f].pc = "complete" /\ Stops(f)
    /\ \/ Save(kept) /\ UNCHANGED unsettled
       \/ kept # mem /\ SaveFails /\ unsettled' = unsettled \cup ids
    /\ UNCHANGED <<job, drawn, given, told, tried>>

-----------------------------------------------------------------------------

Tick ==
    /\ now < MaxNow /\ now' = now + 1
    /\ UNCHANGED <<job, notices, digest, faults>>

\* The process dies; OpenNoticeStore reads the table.  What was being sent
\* has no outcome of its own: startup calls it ambiguous.
Crash ==
    /\ Fault
    /\ job' = [j \in Jobs |-> NoJob]
    /\ mem' = disk /\ sending' = FALSE
    /\ flush' = [f \in Flushers |-> Idle]
    /\ unsettled' = unsettled \cup UNION {flush[f].list : f \in Flushers}
    /\ UNCHANGED <<disk, drawn, given, told, tried>>

Init ==
    /\ job = [j \in Jobs |-> NoJob]
    /\ mem = {} /\ disk = {} /\ drawn = 0
    /\ sending = FALSE /\ flush = [f \in Flushers |-> Idle]
    /\ now = 1 /\ faults = 0
    /\ given = {} /\ told = [n \in 1..MaxNotices |-> 0] /\ tried = {} /\ unsettled = {}

Deliver(j) ==
    \/ \E form \in Forms, first \in BOOLEAN : Begin(j, form, first)
    \/ SendFile(j) \/ SendPage(j) \/ SendCards(j) \/ SendVoice(j) \/ SendFallback(j)
    \/ SendImage(j) \/ SendHeading(j) \/ Conclude(j) \/ Notify(j) \/ Enqueue(j)

Flush(f) == StartFlush(f) \/ List(f) \/ SendDigest(f) \/ Complete(f)

Next ==
    \/ \E j \in Jobs : Deliver(j)
    \/ \E f \in Flushers : Flush(f)
    \/ Tick \/ Crash

Spec == Init /\ [][Next]_vars

-----------------------------------------------------------------------------
(* Properties                                                                *)

Items(kind, n) == {<<kind, i>> : i \in 1..n}
Body(f) == Items(f, IF f = "text" THEN 1 ELSE Length(f))
Rest(form) == CASE form = "brief" -> {}
                [] form = "files" -> {<<"heading", 1>>} \cup Items("image", Files + Images)
                [] OTHER -> Items("file", Files) \cup Items("image", Images)

\* What a delivery concludes is what the user sees (deliverReplyPlan): a
\* refusal is reported only if no part of the result can be seen, a success
\* only if all of it was; and however a batch broke off, the body is never
\* seen in a second form.
OutcomeIsHonest ==
    \A j \in Jobs :
        LET r == job[j]
            concludes(outcome) == r.pc = "verdict" /\ Outcome(r) = outcome IN
        /\ concludes("explicit_failure") => r.seen = {}
        /\ concludes("succeeded") =>
              /\ Rest(r.form) \subseteq r.seen
              /\ r.form # "files" => \E f \in BodyForms : Body(f) \subseteq r.seen
        /\ Cardinality({f \in BodyForms : Items(f, Pages) \cap r.seen # {}}) <= 1

\* A notice that was accepted is kept until the user may have seen it or it
\* has expired: whatever other notices come, expire, are sent or fail to be
\* saved meanwhile, and whenever the process dies.
NoticeKept ==
    \A n \in given : n.id \in Ids(disk) \/ n.id \in tried \/ n.expires <= now

\* The user sees a notice once, although every message of the user starts a
\* flush; twice only after the end of the first one was lost.
NoticeSeenOnce == \A n \in DOMAIN told : told[n] > 1 => n \in unsettled

=============================================================================
