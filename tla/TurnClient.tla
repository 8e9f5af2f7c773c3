------------------------------ MODULE TurnClient ------------------------------
(***************************************************************************)
(* The client of Codex App Server (adapters/appserver) while it executes   *)
(* turns on one thread, with the progress reporter of the executor         *)
(* (core/execution/progress.go).  The subprocess answers and notifies on   *)
(* one pipe, which one goroutine reads; a turn's events reach the call     *)
(* that waits for them through a channel that drops what it has no room    *)
(* for.  Codex itself is known from how the client uses it; other clients  *)
(* of Codex may run turns on the same thread.  A call starts one turn, and *)
(* its name stands for the turn's ID.  Events that only change what is     *)
(* shown (phases, plans, usage) are left out.                              *)
(***************************************************************************)
EXTENDS Naturals, Sequences, SequencesExt

CONSTANTS
    Calls,      \* calls of chatTurn
    Others,     \* turns of other calls and other clients on the thread, without their messages
    Phases,     \* phases of an agent message, "" when there is none
    MaxItems,   \* agent messages of a turn
    Cap,        \* capacity of a turn channel (256 in the code)
    MaxExits    \* exits of the subprocess

ASSUME TurnClientAssumption ==
    {MaxItems, Cap, MaxExits} \subseteq Nat /\ "commentary" \in Phases

\* Codex gives every turn an identifier of its own.
ASSUME TurnAssumption ==
    Calls \cap Others = {} /\ "none" \notin Calls \cup Others

VARIABLES
    alive, turn, reqs,                   \* Codex: the process, its turns, its input
    pipe,                                \* its output: the line that is not read yet
    started, done,                       \* Client.started, done
    turnCh,                              \* Client.turnCh: the call whose channel is registered
    pc, ans, chan, msgs, parts, out,     \* per call: progress, answer, channel, collectTurn, result
    notice,                              \* per call: the slow prompt of the reporter
    cancelled,                           \* calls whose context is cancelled
    dropped,                             \* history: calls that lost an event of their turn
    exits

codex == <<alive, turn, reqs>>
client == <<started, done>>
call == <<pc, ans, chan, msgs, parts, out>>
vars == <<codex, pipe, client, turnCh, call, notice, cancelled, dropped, exits>>

NoCall == "none"
Turns == Calls \cup Others
Items == 1..MaxItems
Over == {"completed", "failed", "interrupted"}

NoPhase == ""
NoMsg == [phase |-> NoPhase, text |-> FALSE]
NoAnswer == "none"
NoResult == [kind |-> "none", reply |-> <<>>]

\* Lines of the pipe.
Event(kind, u, i, phase) == [kind |-> kind, turn |-> u, item |-> i, phase |-> phase]
Answer(c, result) == Event("answer", c, 0, result)

-----------------------------------------------------------------------------
(* Codex App Server                                                          *)

\* Codex waits until a line has been read.
Write(line) == pipe = <<>> /\ pipe' = <<line>>

Codex == <<client, turnCh, call, notice, cancelled, dropped, exits>>

Begin(u) == turn' = [turn EXCEPT ![u].status = "active"]

Handle(method, c) == alive /\ <<method, c>> \in reqs /\ reqs' = reqs \ {<<method, c>>}

HandleResume(c) ==
    /\ Handle("resume", c) /\ \E r \in {"ok", "error"} : Write(Answer(c, r))
    /\ UNCHANGED <<Codex, alive, turn>>

\* A turn begins; its notifications may overtake the answer.
HandleStart(c) ==
    /\ \/ /\ alive /\ <<"start", c>> \in reqs
          /\ Begin(c) /\ reqs' = (reqs \ {<<"start", c>>}) \cup {<<"begun", c>>} /\ UNCHANGED pipe
       \/ Handle("begun", c) /\ Write(Answer(c, "ok")) /\ UNCHANGED turn
       \/ Handle("start", c) /\ Write(Answer(c, "error")) /\ UNCHANGED turn
    /\ UNCHANGED <<Codex, alive>>

\* An interruption that is accepted has not stopped anything yet.
HandleInterrupt(c) ==
    /\ Handle("interrupt", c) /\ \E r \in {"ok", "error"} : Write(Answer(c, r))
    /\ UNCHANGED <<Codex, alive, turn>>

\* Another client of Codex.
BeginOther(u) ==
    /\ alive /\ turn[u].status = "none" /\ Begin(u)
    /\ UNCHANGED <<Codex, pipe, alive, reqs>>

\* A turn that runs notifies of what it does.
Turning(u) == alive /\ turn[u].status = "active" /\ UNCHANGED <<Codex, alive, reqs>>

Complete(u) == \A i \in DOMAIN turn[u].items : turn[u].items[i].state = "done"

ItemStarted(u) ==
    /\ Turning(u) /\ Complete(u) /\ Len(turn[u].items) < MaxItems
    /\ \E p \in Phases :
        /\ turn' = [turn EXCEPT ![u].items = Append(@, [phase |-> p, state |-> "open"])]
        /\ Write(Event("message_started", u, Len(turn[u].items) + 1, p))

\* A delta, and the end of the message.
ItemText(u, kind, from, to) ==
    LET n == Len(turn[u].items) IN
    /\ Turning(u) /\ n > 0 /\ turn[u].items[n].state \in from
    /\ turn' = [turn EXCEPT ![u].items[n].state = to]
    /\ Write(Event(kind, u, n, turn[u].items[n].phase))

ItemDelta(u) == ItemText(u, "message_delta", {"open"}, "text")
ItemCompleted(u) == ItemText(u, "message_completed", {"open", "text"}, "done")

TurnEnds(u) ==
    /\ Turning(u)
    /\ \E s \in Over :
        /\ s = "completed" => Complete(u)
        /\ turn' = [turn EXCEPT ![u].status = s]
        /\ Write(Event("terminal", u, 0, s))

Exit ==
    /\ alive /\ exits < MaxExits
    /\ alive' = FALSE /\ reqs' = {}
    /\ turn' = [u \in Turns |-> IF turn[u].status = "active" THEN [turn[u] EXCEPT !.status = "interrupted"]
                                ELSE turn[u]]
    /\ exits' = exits + 1
    /\ UNCHANGED <<pipe, client, turnCh, call, notice, cancelled, dropped>>

-----------------------------------------------------------------------------
(* The reader, and the end of the subprocess                                 *)

Awaiting(c) == pc[c] \in {"resuming", "starting", "interrupt"}

\* dispatchToTurnCh: to the channel that is registered for the thread, if it
\* has room; a channel that nobody reads from any more is left empty.
Reading == {c \in Calls : turnCh = c /\ pc[c] \in {"starting", "collect"}}
Dispatch(e) ==
    LET room == {c \in Reading : Len(chan[c]) < Cap} IN
    /\ chan' = [c \in Calls |-> IF c \in room THEN Append(chan[c], e) ELSE chan[c]]
    /\ dropped' = dropped \cup ((Reading \ room) \cap {e.turn})
    /\ UNCHANGED ans

\* readLoop.  An answer nobody waits for any more is dropped.
Read ==
    /\ pipe # <<>> /\ started
    /\ LET l == Head(pipe) IN
       \/ /\ l.kind = "answer"
          /\ ans' = IF Awaiting(l.turn) THEN [ans EXCEPT ![l.turn] = l.phase] ELSE ans
          /\ UNCHANGED <<chan, dropped>>
       \/ l.kind # "answer" /\ Dispatch(l)
    /\ pipe' = Tail(pipe)
    /\ UNCHANGED <<codex, started, done, turnCh, pc, msgs, parts, out, notice, cancelled, exits>>

\* Wait closes the pipe, read or not.
WaitForExit_Silent ==
    /\ started /\ ~alive
    /\ started' = FALSE /\ pipe' = <<>>
    /\ UNCHANGED <<codex, done, turnCh, call, notice, cancelled, dropped, exits>>
WaitForExit ==
    /\ started /\ ~alive
    /\ started' = FALSE /\ pipe' = <<>> /\ done' = TRUE
    /\ UNCHANGED <<codex, turnCh, call, notice, cancelled, dropped, exits>>

\* The service stops with its subprocess: every execution is cancelled.
ServiceStops ==
    /\ done /\ cancelled # Calls
    /\ cancelled' = Calls
    /\ UNCHANGED <<codex, pipe, client, turnCh, call, notice, dropped, exits>>

Cancel(c) ==
    /\ c \notin cancelled /\ pc[c] \notin {"returned", "closed"} /\ cancelled' = cancelled \cup {c}
    /\ UNCHANGED <<codex, pipe, client, turnCh, call, notice, dropped, exits>>

-----------------------------------------------------------------------------
(* chatTurn                                                                  *)

Goto(c, p) == pc' = [pc EXCEPT ![c] = p]

Chat == <<alive, turn, pipe, started, done, notice, cancelled, dropped, exits>>

\* A request is written to the subprocess, or the write fails.
Send(method, c) == alive /\ reqs' = reqs \cup {<<method, c>>} /\ ans' = [ans EXCEPT ![c] = NoAnswer]

\* What was collected is not needed any more.
Forget(c) ==
    /\ chan' = [chan EXCEPT ![c] = <<>>] /\ parts' = [parts EXCEPT ![c] = <<>>]
    /\ msgs' = [msgs EXCEPT ![c] = [i \in Items |-> NoMsg]]

\* The call returns and its channel is taken away, unless it is another's.
Return(c, kind, reply) ==
    /\ Goto(c, "returned")
    /\ out' = [out EXCEPT ![c] = [kind |-> kind, reply |-> reply]]
    /\ turnCh' = IF turnCh = c THEN NoCall ELSE turnCh
    /\ Forget(c) /\ ans' = [ans EXCEPT ![c] = NoAnswer]

Fails(c, kind) == Return(c, kind, <<>>)

\* ensureCodexReady: a call that finds the client stopped starts Codex anew,
\* in its own context.
Start(c) ==
    /\ pc[c] = "idle" /\ ~started
    /\ \/ /\ c \notin cancelled /\ ~alive
          /\ alive' = TRUE /\ started' = TRUE
          /\ UNCHANGED <<turnCh, call, turn, reqs>>
       \/ Fails(c, "not_started") /\ UNCHANGED <<codex, started>>
    /\ UNCHANGED <<pipe, done, notice, cancelled, dropped, exits>>

\* ensureThreadLoaded: the thread is loaded as far as the client knows, or
\* ResumeThread loads it, with no deadline but the context.
ResumeThread(c) ==
    /\ pc[c] = "idle" /\ started
    /\ \/ Goto(c, "check") /\ UNCHANGED <<reqs, ans, chan, msgs, parts, out, turnCh>>
       \/ Send("resume", c) /\ Goto(c, "resuming") /\ UNCHANGED <<chan, msgs, parts, out, turnCh>>
       \/ ~alive /\ Fails(c, "start_failed") /\ UNCHANGED reqs
    /\ UNCHANGED Chat

Resumed(c) ==
    /\ pc[c] = "resuming" /\ ans[c] # NoAnswer
    /\ IF ans[c] = "ok"
       THEN /\ Goto(c, "check") /\ ans' = [ans EXCEPT ![c] = NoAnswer]
            /\ UNCHANGED <<turnCh, chan, msgs, parts, out>>
       ELSE Fails(c, "start_failed")
    /\ UNCHANGED <<Chat, reqs>>

ResumeCancelled(c) ==
    /\ pc[c] = "resuming" /\ c \in cancelled /\ Fails(c, "start_failed")
    /\ UNCHANGED <<Chat, reqs>>

\* registerTurnChannel: one channel for a thread.
Taken == turnCh # NoCall

\* A turn that is or was active leaves its mark on threadStatus.
Notified == \E u \in Turns : turn[u].status # "none"

\* The call is refused if the thread is active as far as the client knows,
\* which may be wrong either way, or has a channel.  turn/start is sent in a
\* context of its own, even if the call is cancelled already.
StartTurn(c) ==
    /\ pc[c] = "check"
    /\ \/ (Notified \/ Taken) /\ Fails(c, "busy") /\ UNCHANGED reqs
       \/ ~Taken /\ Send("start", c) /\ turnCh' = c /\ Goto(c, "starting")
          /\ UNCHANGED <<chan, msgs, parts, out>>
       \/ ~Taken /\ ~alive /\ Fails(c, "start_failed") /\ UNCHANGED reqs
    /\ UNCHANGED Chat

\* A call on the thread that is not followed in detail: it has the channel,
\* and starts a turn, until it returns.
OtherCall(u) ==
    /\ \/ turn[u].status = "none" /\ alive /\ ~Taken /\ Begin(u) /\ turnCh' = u
       \/ turnCh = u /\ turnCh' = NoCall /\ UNCHANGED turn
    /\ UNCHANGED <<alive, reqs, pipe, client, call, notice, cancelled, dropped, exits>>

TurnStarted(c) ==
    /\ pc[c] = "starting" /\ ans[c] # NoAnswer
    /\ IF ans[c] = "ok"
       THEN /\ Goto(c, "collect") /\ ans' = [ans EXCEPT ![c] = NoAnswer]
            /\ UNCHANGED <<turnCh, chan, msgs, parts, out>>
       ELSE Fails(c, "start_failed")
    /\ UNCHANGED <<Chat, reqs>>

\* Ten seconds without an answer; Codex may have started the turn.
StartTimeout(c) ==
    /\ pc[c] = "starting" /\ ans[c] = NoAnswer /\ Fails(c, "start_failed")
    /\ UNCHANGED <<Chat, reqs>>

-----------------------------------------------------------------------------
(* collectTurn                                                               *)

\* The thread may have turns of other clients.
Mine_Any(c, e) == TRUE
Mine(c, e) == e.turn = c

\* The reply: the messages that ended and are no commentary, and if there is
\* none, what there is of the last one.
Reply(c) ==
    LET last == {i \in Items : msgs[c][i].text /\ msgs[c][i].phase # "commentary"} IN
    IF parts[c] # <<>> THEN parts[c]
    ELSE IF last = {} THEN <<>>
    ELSE <<[item |-> Max(last), whole |-> FALSE]>>

Collecting == <<Chat, reqs>>

Message(c, e) ==
    \/ e.kind = "message_started" /\ UNCHANGED parts
          /\ msgs' = [msgs EXCEPT ![c][e.item].phase = e.phase]
    \/ e.kind = "message_delta" /\ UNCHANGED parts
          /\ msgs' = [msgs EXCEPT ![c][e.item].text = TRUE]
    \/ /\ e.kind = "message_completed"
       /\ LET phase == IF e.phase # NoPhase THEN e.phase ELSE msgs[c][e.item].phase IN
             /\ msgs' = [msgs EXCEPT ![c][e.item].phase = phase]
             /\ parts' = IF phase = "commentary" THEN parts
                         ELSE [parts EXCEPT ![c] = Append(@, [item |-> e.item, whole |-> TRUE])]

Collect(c) ==
    /\ pc[c] = "collect" /\ chan[c] # <<>>
    /\ LET e == Head(chan[c]) IN
       \/ /\ ~(Mine(c, e) /\ e.kind = "terminal")
          /\ chan' = [chan EXCEPT ![c] = Tail(@)]
          /\ \/ ~Mine(c, e) /\ UNCHANGED <<msgs, parts>>
             \/ Mine(c, e) /\ Message(c, e)
          /\ UNCHANGED <<pc, ans, out, turnCh>>
       \/ /\ Mine(c, e) /\ e.kind = "terminal"
          /\ IF e.phase = "completed"
             THEN IF Reply(c) = <<>> THEN Fails(c, "failed") ELSE Return(c, "reply", Reply(c))
             ELSE Fails(c, e.phase)
    /\ UNCHANGED Collecting

\* interruptAndConfirm: the interruption, and then the turn's own state.
Interrupt(c) ==
    /\ pc[c] = "collect" /\ c \in cancelled
    /\ \/ Send("interrupt", c) /\ Goto(c, "interrupt")
       \/ ~alive /\ Goto(c, "confirm_failed") /\ UNCHANGED <<reqs, ans>>
    /\ Forget(c) /\ UNCHANGED <<Chat, turnCh, out>>

\* Five seconds for the answer.
Interrupted(c) ==
    /\ pc[c] = "interrupt"
    /\ Goto(c, IF ans[c] = "ok" THEN "confirm" ELSE "confirm_failed")
    /\ UNCHANGED <<Collecting, turnCh, ans, chan, msgs, parts, out>>

\* ReadTurn: everything of the turn that is no commentary; Said(items)[n] is
\* what the first n messages contribute.
Said(items) ==
    LET said[n \in 0..Len(items)] ==
          IF n = 0 THEN <<>>
          ELSE IF items[n].phase = "commentary" THEN said[n - 1]
          ELSE Append(said[n - 1], [item |-> n, whole |-> TRUE])
    IN said
TurnReply(u) == Said(turn[u].items)[Len(turn[u].items)]

Confirmed(c) == turn[c].status \in Over

Confirm(c) ==
    /\ pc[c] \in {"confirm", "confirm_failed"} /\ alive /\ Confirmed(c)
    /\ IF turn[c].status = "completed" THEN Return(c, "reply", TurnReply(c))
       ELSE Fails(c, IF turn[c].status = "failed" THEN "failed" ELSE "interrupted")
    /\ UNCHANGED Collecting

\* An error, or twelve seconds.
Unconfirmed(c) ==
    /\ pc[c] \in {"confirm", "confirm_failed"} /\ Fails(c, "unconfirmed")
    /\ UNCHANGED Collecting

-----------------------------------------------------------------------------
(* The slow prompt of the reporter                                           *)

Reporting == <<codex, pipe, client, turnCh, ans, chan, msgs, parts, out, cancelled, dropped, exits>>

\* reporter.ctx: ended with the call's context, a terminal phase, or Close.
Silenced(c) == c \in cancelled \/ out[c].kind \in {"reply", "failed", "interrupted"} \/ pc[c] = "closed"

SendSlow(c) ==
    /\ \/ notice[c] = "armed" /\ ~Silenced(c) /\ notice' = [notice EXCEPT ![c] = "sending"]
       \/ notice[c] = "sending" /\ notice' = [notice EXCEPT ![c] = "off"]
    /\ UNCHANGED <<Reporting, pc>>

\* Close waits for run to return; the executor goes on to deliver.
Close_NoWait(c) ==
    /\ pc[c] = "returned" /\ Goto(c, "closed") /\ UNCHANGED <<Reporting, notice>>
Close(c) ==
    /\ pc[c] = "returned" /\ notice[c] # "sending"
    /\ Goto(c, "closed") /\ notice' = [notice EXCEPT ![c] = "off"]
    /\ UNCHANGED Reporting

-----------------------------------------------------------------------------
Init ==
    /\ alive = TRUE /\ reqs = {} /\ pipe = <<>>
    /\ turn = [u \in Turns |-> [status |-> "none", items |-> <<>>]]
    /\ started = TRUE /\ done = FALSE /\ turnCh = NoCall
    /\ pc = [c \in Calls |-> "idle"] /\ ans = [c \in Calls |-> NoAnswer]
    /\ chan = [c \in Calls |-> <<>>] /\ msgs = [c \in Calls |-> [i \in Items |-> NoMsg]]
    /\ parts = [c \in Calls |-> <<>>] /\ out = [c \in Calls |-> NoResult]
    /\ notice = [c \in Calls |-> "armed"]
    /\ cancelled = {} /\ dropped = {} /\ exits = 0

Serve ==
    \/ \E c \in Calls : HandleResume(c) \/ HandleStart(c) \/ HandleInterrupt(c)
    \/ \E u \in Others : BeginOther(u) \/ OtherCall(u)
    \/ \E u \in Calls : ItemStarted(u) \/ ItemDelta(u) \/ ItemCompleted(u)
    \/ \E u \in Turns : TurnEnds(u)

Proceed(c) == Start(c) \/ ResumeThread(c) \/ Resumed(c) \/ StartTurn(c) \/ TurnStarted(c) \/ StartTimeout(c)
              \/ Collect(c) \/ Interrupted(c) \/ Confirm(c) \/ Unconfirmed(c) \/ Close(c)

Ctx(c) == ResumeCancelled(c) \/ Interrupt(c)

\* What happens after the last call is of no interest.
Observed == \E c \in Calls : pc[c] # "closed"

Next ==
    \/ Observed /\ (Serve \/ Exit \/ Read \/ WaitForExit \/ ServiceStops)
    \/ \E c \in Calls : Cancel(c) \/ Proceed(c) \/ Ctx(c) \/ SendSlow(c)

Spec == Init /\ [][Next]_vars

\* The client's goroutines go on, select takes every case that stays ready,
\* and every wait but the ones for the context has a deadline.  Nothing is
\* assumed of Codex, not even that it answers.
FairSpec ==
    /\ Spec /\ WF_vars(Observed /\ Read) /\ WF_vars(Observed /\ WaitForExit) /\ WF_vars(Observed /\ ServiceStops)
    /\ \A c \in Calls : WF_vars(Proceed(c)) /\ WF_vars(Ctx(c)) /\ WF_vars(SendSlow(c))

-----------------------------------------------------------------------------
(* Properties                                                                *)

\* What a call says of its turn is so: the reply of chatTurn, put together
\* from events, is the one thread/read has of the turn, whole, in order,
\* without commentary and without anything of other turns on the thread;
\* and a call that reports a completion, a failure or a confirmed interruption
\* leaves no turn behind.  Excepted: an event of the turn found the channel
\* full.
TellsTheTurn ==
    \A c \in Calls :
        /\ (out[c].kind = "reply" /\ c \notin dropped) => out[c].reply = TurnReply(c)
        /\ out[c].kind = "reply" => turn[c].status = "completed"
        /\ out[c].kind = "interrupted" => turn[c].status = "interrupted"
        /\ out[c].kind = "failed" => turn[c].status \in Over

\* The prompt that an execution takes long never comes after the executor has
\* gone on to deliver the reply.
NoLateNotice == \A c \in Calls : pc[c] = "closed" => notice[c] # "sending"

\* A call whose turn is over, or that is cancelled, or whose Codex is gone,
\* returns and frees the thread's channel; unless an event of its turn found
\* the channel full.
Returned(c) == pc[c] \in {"returned", "closed"}
MustReturn(c) == pc[c] # "idle" /\ (turn[c].status \in Over \/ c \in cancelled \/ ~alive)
CallReturns == \A c \in Calls : MustReturn(c) ~> (Returned(c) \/ c \in dropped)

=============================================================================
