--------------------------- MODULE ExecutionProofs ---------------------------
(***************************************************************************)
(* Admission, execution and cancellation for every value of the constants: *)
(* any number of messages, retries, intents and threads, of failed saves   *)
(* and of restarts.                                                        *)
(*                                                                         *)
(* The executors keep apart because the store and the admission table do:  *)
(* a request is worked on by the call that created it, and a call launched *)
(* on somebody else's request finds it over.                               *)
(***************************************************************************)
EXTENDS Execution, TLAPS

-----------------------------------------------------------------------------
(* The inductive invariant *)

\* Call c executes the request it created; or one it found.
Own(c) == adm[c].launched /\ adm[c].task = c
Foreign(c) == adm[c].launched /\ adm[c].task # c

Exists(i) == req[i].state # "absent"

\* How the admission follows the call.
HandlerOK(c) ==
    /\ pc[c] \in {"idle", "capture", "begin"} => adm[c] = NoAdmission
    /\ pc[c] \in {"activity", "start", "launch"} \cup Executing => adm[c].held
    /\ adm[c].held => pc[c] # "done"
    /\ pc[c] \in Executing => adm[c].launched
    /\ adm[c].launched => pc[c] \in Executing \cup {"done"}
    /\ ~ adm[c].launched => out[c] = "none" /\ ~ adm[c].finalizing
    /\ pc[c] \in Handling \ {"launch"} => ~ Exists(c)
    /\ ~ Exists(c) \/ (adm[c].task # None /\ ~ adm[c].launched) => turn[c] = "none"

\* What a call captured, and that no request of its operation is under way.
CaptureOK(c) ==
    /\ pc[c] = "capture" => c \in Messages
    /\ pc[c] \in {"begin", "activity", "start"} =>
          /\ call[c].target # None /\ (c \in Messages => call[c].origin = None)
          /\ c \in Retries => /\ call[c].origin # None /\ Exists(call[c].origin)
                              /\ call[c].target = req[call[c].origin].target
    /\ pc[c] \in {"activity", "start"} /\ c \in Retries =>
          \A i \in Calls : req[i].state \in Active /\ Source[i] = Source[c] => req[i].retryOf # call[c].origin

\* A request and the one it retries.
RequestOK(i) ==
    /\ Exists(i) => req[i].target # None
    /\ req[i].retryOf # None => Exists(i) /\ Exists(req[i].retryOf) /\ req[i].target = req[req[i].retryOf].target
    /\ req[i].state \in Active => pc[i] = "launch" \/ Own(i)

\* A call launched on a request it did not create finds it over.
ForeignOK(c) ==
    Foreign(c) => /\ adm[c].task # None /\ req[adm[c].task].state \in Terminal /\ ~ Exists(c)
                  /\ pc[c] \in {"prepare", "outbox", "abort", "fail", "cancel", "exit", "done"}
                  /\ out[c] = "none"

Before == {"prepare", "outbox", "open", "bind", "attach", "abort", "turn"}
After == {"fail", "unconfirmed", "cancel", "complete", "freeze", "deliver", "send"}
Over == {"exit", "done"}

\* The request has its turn before it, or its outcome is not recorded yet.
Fresh(c) == req[c].state = "running" /\ ~ req[c].completed /\ ~ req[c].unconfirmed

\* The thread an executor works on is that of its request.
ThreadOK(c) ==
    /\ pc[c] \in {"prepare", "outbox", "open"} => work[c].thread = req[c].thread
    /\ pc[c] \in {"bind", "attach"} =>
          work[c].thread # None /\ (work[c].unattached \/ work[c].thread = req[c].thread)
    /\ pc[c] \in {"turn", "collect"} => work[c].thread # None /\ work[c].thread = req[c].thread

\* What is recorded at each point of the execution.
StageOK(c) ==
    /\ pc[c] \in Before => Fresh(c) /\ turn[c] = "none" /\ out[c] = "none"
    /\ pc[c] = "collect" => Fresh(c) /\ out[c] = "none"
    /\ pc[c] = "finalize" => /\ Fresh(c) /\ out[c] # "none"
                             /\ out[c] = "interrupted" => turn[c] = "interrupted"
                             /\ out[c] = "canceled" => turn[c] = "none"
    /\ pc[c] = "unconfirmed" => Fresh(c) /\ out[c] = "unconfirmed"
    /\ pc[c] = "cancel" => /\ Fresh(c) /\ turn[c] \in {"none", "interrupted"} /\ adm[c].cancelRequested
                           /\ out[c] \notin {"reply", "oversized"}
    /\ pc[c] = "complete" => Fresh(c) /\ out[c] \in {"reply", "oversized"}
    /\ pc[c] = "fail" => /\ req[c].state = "running" /\ ~ req[c].unconfirmed
                         /\ req[c].completed <=> out[c] = "reply"
                         /\ adm[c].cancelRequested => out[c] \in {"reply", "oversized"}
    /\ pc[c] \in {"freeze", "deliver"} =>
          req[c].state = "running" /\ req[c].completed /\ ~ req[c].unconfirmed /\ out[c] = "reply"
    /\ pc[c] = "send" => req[c].state = "delivering" /\ req[c].completed /\ out[c] = "reply"

\* What is recorded once the executor has left.
OverOK(c) ==
    pc[c] \in Over =>
        /\ Exists(c)
        /\ out[c] = "reply" => req[c].state \in {"running", "delivering", "succeeded"}
        /\ req[c].state = "cancelled" => turn[c] \in {"none", "interrupted"}
        /\ adm[c].cancelRequested /\ out[c] # "oversized" => ~ (req[c].state = "failed" /\ ~ req[c].unconfirmed)
        /\ req[c].state \in Active =>
              service = "stopping" \/ faults > 0 \/ (adm[c].cancelRequested /\ out[c] = "other")

OwnOK(c) ==
    /\ pc[c] = "launch" => Fresh(c) /\ turn[c] = "none"
    /\ Own(c) => /\ ThreadOK(c) /\ StageOK(c) /\ OverOK(c)
                 /\ adm[c].finalizing <=> pc[c] \in After \cup Over

\* Active requests have different sessions, requests different sources, and
\* so have the calls that are admitted.
Apart ==
    /\ \A i, j \in Calls : i # j /\ req[i].state \in Active /\ req[j].state \in Active =>
          SessionKey(req[i]) # SessionKey(req[j])
    /\ \A i, j \in Calls : i # j /\ Exists(i) /\ Exists(j) => Source[i] # Source[j]
    /\ \A a, b \in Calls : a # b /\ adm[a].held /\ adm[b].held => Source[a] # Source[b]

\* A turn that was counted is that of the source's request.
Counted ==
    \A s \in Sources : \/ turns[s] = 0
                       \/ turns[s] = 1 /\ \E i \in Calls : Source[i] = s /\ Exists(i) /\ turn[i] # "none"

CallOK(c) == HandlerOK(c) /\ CaptureOK(c) /\ RequestOK(c) /\ ForeignOK(c) /\ OwnOK(c)

EInv == TypeOK /\ Apart /\ Counted /\ \A c \in Calls : CallOK(c)

-----------------------------------------------------------------------------
(* What a step of one call does *)

Points == {"idle", "done"} \cup Handling \cup Executing
Captures == [target: Targets \cup {None}, thread: Threads \cup {None}, origin: Calls \cup {None}]
Admissions == [held: BOOLEAN, launched: BOOLEAN, cancelRequested: BOOLEAN,
               finalizing: BOOLEAN, task: Calls \cup {None}]
Works == [thread: Threads \cup {None}, unresolved: BOOLEAN, unattached: BOOLEAN]
Outs == {"none", "reply", "oversized", "unconfirmed", "interrupted", "canceled", "other"}
Requests == [state: {"absent"} \cup Active \cup Terminal, target: Targets \cup {None},
             thread: Threads \cup {None}, completed: BOOLEAN, saved: BOOLEAN,
             unconfirmed: BOOLEAN, retryOf: Calls \cup {None}]
TurnStates == {"none", "active", "completed", "failed", "interrupted"}

\* The state of the other calls stays as it is.
Others(c) ==
    \A d \in Calls \ {c} :
        /\ pc'[d] = pc[d] /\ call'[d] = call[d] /\ adm'[d] = adm[d] /\ work'[d] = work[d]
        /\ out'[d] = out[d] /\ req'[d] = req[d] /\ turn'[d] = turn[d]

\* A request keeps its intent and its origin, and once over stays as it is.
RequestMoves(c) ==
    /\ Exists(c) => /\ Exists(c)' /\ req'[c].target = req[c].target /\ req'[c].retryOf = req[c].retryOf
    /\ req[c].state \in Terminal => req'[c] = req[c]
    /\ req'[c].state \in Active => req[c].state \in Active \/ (~ Exists(c) /\ pc[c] = "start")
    /\ ~ Exists(c) /\ Exists(c)' => SameSource(c) = {}

\* An active request has a session of its own.
SessionMoves(c) ==
    req'[c].state \in Active =>
        \/ req[c].state \in Active /\ SessionKey(req'[c]) = SessionKey(req[c])
        \/ \A i \in Calls \ {c} : req[i].state \in Active => SessionKey(req[i]) # SessionKey(req'[c])

AdmissionMoves(c) == adm'[c].held => adm[c].held \/ DuplicateOf(c) = {}

\* A turn is counted when it starts, which is once.
TurnMoves(c) ==
    \/ turns' = turns /\ (turn[c] # "none" => turn'[c] # "none")
    \/ /\ turns' = [turns EXCEPT ![Source[c]] = @ + 1]
       /\ turn[c] = "none" /\ turn'[c] # "none" /\ Exists(c)

LifeMoves == service' = service /\ faults' \in Nat /\ (faults > 0 => faults' > 0)

Effect(c) == /\ TypeOK' /\ Others(c) /\ RequestMoves(c) /\ SessionMoves(c) /\ AdmissionMoves(c)
             /\ TurnMoves(c) /\ LifeMoves /\ CallOK(c)'

\* The parts of a call's state, typed.
LEMMA CallFacts ==
    ASSUME EInv, NEW c \in Calls
    PROVE  /\ TypeOK /\ Apart /\ Counted /\ CallOK(c)
           /\ pc[c] \in Points /\ call[c] \in Captures /\ adm[c] \in Admissions
           /\ work[c] \in Works /\ out[c] \in Outs /\ req[c] \in Requests /\ turn[c] \in TurnStates
BY DEF EInv, TypeOK, Points, Captures, Admissions, Works, Outs, Requests, TurnStates

\* The other calls keep their invariant: what they know of the request of
\* call c does not change.
LEMMA OthersKept ==
    ASSUME EInv, NEW c \in Calls, Effect(c), NEW d \in Calls, d # c
    PROVE  CallOK(d)'
<1>1. /\ pc'[d] = pc[d] /\ call'[d] = call[d] /\ adm'[d] = adm[d] /\ work'[d] = work[d]
      /\ out'[d] = out[d] /\ req'[d] = req[d] /\ turn'[d] = turn[d]
  BY DEF Effect, Others
<1>2. HandlerOK(d) /\ CaptureOK(d) /\ RequestOK(d) /\ ForeignOK(d) /\ OwnOK(d)
  BY CallFacts DEF CallOK
<1>3. RequestMoves(c) /\ LifeMoves
  BY DEF Effect
<1>4. ASSUME NEW i \in Calls, Exists(i)
      PROVE  Exists(i)' /\ req'[i].target = req[i].target
  BY <1>3, <1>4 DEF Effect, Others, RequestMoves, Exists
<1>5. ASSUME NEW i \in Calls, req[i].state \in Terminal PROVE req'[i] = req[i]
  BY <1>3, <1>5 DEF Effect, Others, RequestMoves
<1>6. call[d].origin \in Calls \cup {None} /\ req[d].retryOf \in Calls \cup {None}
      /\ adm[d].task \in Calls \cup {None}
  BY CallFacts DEF Captures, Requests, Admissions
<1>7. HandlerOK(d)'
  BY <1>1, <1>2 DEF HandlerOK, Exists
<1>8. CaptureOK(d)'
  <2>1. CASE pc[d] \in {"begin", "activity", "start"}
    <3>1. ASSUME pc[d] \in {"activity", "start"}, d \in Retries, NEW i \in Calls,
                 req'[i].state \in Active, Source[i] = Source[d]
          PROVE  req'[i].retryOf # call[d].origin
      <4>1. CASE i # c
        BY <1>1, <1>2, <3>1, <4>1 DEF CaptureOK, Effect, Others
      <4>2. CASE i = c /\ req[c].state \in Active
        BY <1>2, <1>3, <3>1, <4>2 DEF CaptureOK, RequestMoves, Exists, Active
      <4>3. CASE i = c /\ pc[c] = "start"
        <5>1. adm[c].held /\ adm[d].held
          BY <3>1, <4>3, <1>2, CallFacts DEF CallOK, HandlerOK
        <5> QED
          BY <3>1, <4>3, <5>1, CallFacts DEF Apart
      <4> QED
        BY <1>3, <3>1, <4>1, <4>2, <4>3 DEF RequestMoves
    <3>2. d \in Retries => /\ call[d].origin # None /\ req'[call[d].origin].state # "absent"
                           /\ call[d].target = req'[call[d].origin].target
      BY <1>2, <1>4, <1>6, <2>1 DEF CaptureOK, Exists
    <3> QED
      BY <1>1, <1>2, <2>1, <3>1, <3>2 DEF CaptureOK, Exists
  <2> QED
    BY <1>1, <1>2, <2>1 DEF CaptureOK
<1>9. RequestOK(d)'
  <2>1. req[d].retryOf # None =>
           /\ req'[req[d].retryOf].state # "absent" /\ req[d].target = req'[req[d].retryOf].target
    BY <1>2, <1>4, <1>6 DEF RequestOK, Exists
  <2> QED
    BY <1>1, <1>2, <2>1 DEF RequestOK, Exists, Own
<1>10. ForeignOK(d)'
  <2>1. CASE Foreign(d)
    <3>1. req'[adm[d].task] = req[adm[d].task]
      BY <1>2, <1>5, <1>6, <2>1 DEF ForeignOK
    <3> QED
      BY <1>1, <1>2, <2>1, <3>1 DEF ForeignOK, Foreign, Exists
  <2> QED
    BY <1>1, <2>1 DEF ForeignOK, Foreign
<1>11. OwnOK(d)'
  <2>1. Own(d)' <=> Own(d)
    BY <1>1 DEF Own
  <2>2. Fresh(d)' <=> Fresh(d)
    BY <1>1 DEF Fresh
  <2>3. ThreadOK(d) => ThreadOK(d)'
    BY <1>1 DEF ThreadOK
  <2>4. StageOK(d) => StageOK(d)'
    BY <1>1, <2>2 DEF StageOK
  <2>5. OverOK(d) => OverOK(d)'
    BY <1>1, <1>3 DEF OverOK, LifeMoves, Exists
  <2> QED
    BY <1>1, <1>2, <2>1, <2>2, <2>3, <2>4, <2>5 DEF OwnOK
<1> QED
  BY <1>7, <1>8, <1>9, <1>10, <1>11 DEF CallOK

\* The tables keep their keys apart.
LEMMA ApartNext ==
    ASSUME EInv, NEW c \in Calls, Effect(c)
    PROVE  Apart'
<1>1. Apart /\ RequestMoves(c) /\ SessionMoves(c) /\ AdmissionMoves(c)
  BY DEF EInv, Effect
<1>2. \A d \in Calls \ {c} : adm'[d] = adm[d] /\ req'[d] = req[d]
  BY DEF Effect, Others
<1>3. \A d \in Calls \ {c} : req'[d].state \in Active /\ req'[c].state \in Active =>
         SessionKey(req'[d]) # SessionKey(req'[c])
  <2> SUFFICES ASSUME NEW d \in Calls \ {c}, req'[d].state \in Active, req'[c].state \in Active
               PROVE  SessionKey(req'[d]) # SessionKey(req'[c])
    OBVIOUS
  <2>1. SessionKey(req'[d]) = SessionKey(req[d]) /\ req[d].state \in Active
    BY <1>2
  <2>2. CASE req[c].state \in Active /\ SessionKey(req'[c]) = SessionKey(req[c])
    BY <1>1, <2>1, <2>2 DEF Apart
  <2> QED
    BY <1>1, <2>1, <2>2 DEF SessionMoves
<1>4. \A i, j \in Calls : i # j /\ req'[i].state \in Active /\ req'[j].state \in Active =>
         SessionKey(req'[i]) # SessionKey(req'[j])
  <2> SUFFICES ASSUME NEW i \in Calls, NEW j \in Calls, i # j,
                      req'[i].state \in Active, req'[j].state \in Active
               PROVE  SessionKey(req'[i]) # SessionKey(req'[j])
    OBVIOUS
  <2>1. CASE i # c /\ j # c
    <3>1. req'[i] = req[i] /\ req'[j] = req[j]
      BY <1>2, <2>1
    <3> QED
      BY <1>1, <3>1 DEF Apart
  <2> QED
    BY <1>3, <2>1
<1>5. \A i, j \in Calls : i # j /\ Exists(i)' /\ Exists(j)' => Source[i] # Source[j]
  BY <1>1, <1>2 DEF Apart, Exists, RequestMoves, SameSource
<1>6. \A a, b \in Calls : a # b /\ adm'[a].held /\ adm'[b].held => Source[a] # Source[b]
  BY <1>1, <1>2 DEF Apart, AdmissionMoves, DuplicateOf, Held
<1> QED
  BY <1>4, <1>5, <1>6 DEF Apart, SessionKey

LEMMA SourceTyped == \A c \in Calls : Source[c] \in Sources
BY DEF Sources

\* A turn is counted once: before it starts nothing was counted, because the
\* source has no other request.
LEMMA CountedNext ==
    ASSUME EInv, NEW c \in Calls, Effect(c)
    PROVE  Counted'
<1> SUFFICES ASSUME NEW s \in Sources
             PROVE  \/ turns'[s] = 0
                    \/ turns'[s] = 1 /\ \E i \in Calls : Source[i] = s /\ Exists(i)' /\ turn'[i] # "none"
  BY DEF Counted, Exists
<1>1. Apart /\ Counted /\ TurnMoves(c) /\ RequestMoves(c) /\ turns \in [Sources -> Nat]
  BY DEF EInv, Effect, TypeOK
<1>2. \A i \in Calls : Exists(i) => Exists(i)'
  BY <1>1 DEF Effect, Others, RequestMoves, Exists
<1>3. \A i \in Calls \ {c} : turn'[i] = turn[i]
  BY DEF Effect, Others
<1>4. CASE turns' = turns /\ (turn[c] # "none" => turn'[c] # "none")
  BY <1>1, <1>2, <1>3, <1>4 DEF Counted
<1>5. CASE /\ turns' = [turns EXCEPT ![Source[c]] = @ + 1]
           /\ turn[c] = "none" /\ turn'[c] # "none" /\ Exists(c)
  <2>1. CASE s # Source[c]
    BY <1>1, <1>2, <1>3, <1>5, <2>1 DEF Counted
  <2>2. CASE s = Source[c]
    <3>1. turns[s] = 0
      BY <1>1, <1>5, <2>2 DEF Counted, Apart
    <3>2. turns'[s] = 1
      BY <1>1, <1>5, <2>2, <3>1
    <3> QED
      BY <1>2, <1>5, <2>2, <3>2
  <2> QED
    BY <2>1, <2>2
<1> QED
  BY <1>1, <1>4, <1>5 DEF TurnMoves

LEMMA InvariantFromEffect ==
    ASSUME EInv, NEW c \in Calls, Effect(c)
    PROVE  EInv'
<1>1. \A d \in Calls : CallOK(d)'
  BY OthersKept DEF Effect
<1> QED
  BY <1>1, ApartNext, CountedNext DEF EInv, Effect

-----------------------------------------------------------------------------
(* Frames *)

\* Only the entries of call c change.
Only(c) ==
    /\ pc' = [pc EXCEPT ![c] = pc'[c]] /\ call' = [call EXCEPT ![c] = call'[c]]
    /\ adm' = [adm EXCEPT ![c] = adm'[c]] /\ work' = [work EXCEPT ![c] = work'[c]]
    /\ out' = [out EXCEPT ![c] = out'[c]] /\ req' = [req EXCEPT ![c] = req'[c]]
    /\ turn' = [turn EXCEPT ![c] = turn'[c]]

\* What a step leaves of call c is typed.
Typed(c) ==
    /\ pc'[c] \in Points /\ call'[c] \in Captures /\ adm'[c] \in Admissions
    /\ work'[c] \in Works /\ out'[c] \in Outs /\ req'[c] \in Requests /\ turn'[c] \in TurnStates

LEMMA OneCall ==
    ASSUME EInv, NEW c \in Calls, Only(c), Typed(c),
           rejected' \subseteq Sources, bound' \in [Targets -> Threads \cup {None}], made' \subseteq Threads,
           service' \in {"up", "draining", "stopping"}, faults' \in Nat, restarts' \in Nat,
           asked' \subseteq Calls, turns' \in [Sources -> Nat]
    PROVE  TypeOK' /\ Others(c)
<1>1. TypeOK
  BY DEF EInv
<1>2. Others(c)
  BY <1>1 DEF TypeOK, Only, Others
<1>3. /\ pc' \in [Calls -> Points] /\ call' \in [Calls -> Captures] /\ adm' \in [Calls -> Admissions]
      /\ work' \in [Calls -> Works]
  BY <1>1 DEF TypeOK, Only, Typed, Points, Captures, Admissions, Works
<1>4. out' \in [Calls -> Outs] /\ req' \in [Calls -> Requests] /\ turn' \in [Calls -> TurnStates]
  BY <1>1 DEF TypeOK, Only, Typed, Outs, Requests, TurnStates
<1> QED
  BY <1>2, <1>3, <1>4 DEF TypeOK, Points, Captures, Admissions, Works, Outs, Requests, TurnStates

LEMMA Unmoved ==
    ASSUME EInv
    PROVE  /\ rejected \subseteq Sources /\ bound \in [Targets -> Threads \cup {None}] /\ made \subseteq Threads
           /\ service \in {"up", "draining", "stopping"} /\ faults \in Nat /\ restarts \in Nat
           /\ asked \subseteq Calls /\ turns \in [Sources -> Nat]
BY DEF EInv, TypeOK

\* A step that touches neither the requests nor the turns.
LEMMA LocalEffect ==
    ASSUME EInv, NEW c \in Calls, Only(c), Typed(c), CallOK(c)', AdmissionMoves(c),
           req' = req, turn' = turn, rejected' \subseteq Sources,
           UNCHANGED <<bound, made, life, history>>
    PROVE  Effect(c)
<1>1. TypeOK' /\ Others(c)
  BY OneCall, Unmoved DEF life, history
<1>2. RequestMoves(c) /\ SessionMoves(c)
  BY DEF RequestMoves, SessionMoves, Exists
<1>3. TurnMoves(c) /\ LifeMoves
  BY Unmoved DEF TurnMoves, LifeMoves, life, history
<1> QED
  BY <1>1, <1>2, <1>3 DEF Effect

\* A step that only moves the call on.
LEMMA Moves ==
    ASSUME EInv, NEW c \in Calls, NEW l \in Points, Goto(c, l),
           UNCHANGED <<call, adm, work, out, store, codex, life, history>>
    PROVE  /\ Only(c) /\ Typed(c) /\ pc'[c] = l /\ (CallOK(c)' => Effect(c))
<1>1. UNCHANGED <<call, adm, work, out, req, rejected, bound, made, turn, service, faults, life, history>>
  BY DEF store, codex, life
<1>2. Only(c) /\ pc'[c] = l
  BY <1>1 DEF Only, Goto, EInv, TypeOK
<1>3. Typed(c)
  BY <1>1, <1>2, CallFacts DEF Typed
<1>4. AdmissionMoves(c)
  BY <1>1 DEF AdmissionMoves
<1> QED
  BY <1>1, <1>2, <1>3, <1>4, LocalEffect, Unmoved

LEMMA Leaves ==
    ASSUME EInv, NEW c \in Calls, Leave(c),
           UNCHANGED <<call, work, out, req, codex, life, history>>, rejected' \subseteq Sources
    PROVE  /\ Only(c) /\ Typed(c) /\ pc'[c] = "done"
           /\ adm'[c] = [adm[c] EXCEPT !.held = FALSE] /\ (CallOK(c)' => Effect(c))
<1>1. UNCHANGED <<call, work, out, req, bound, made, turn, life, history>>
  BY DEF codex
<1>2. /\ Only(c) /\ pc'[c] = "done" /\ adm'[c] = [adm[c] EXCEPT !.held = FALSE]
  BY <1>1 DEF Only, Goto, Leave, EInv, TypeOK
<1>3. Typed(c)
  BY <1>1, <1>2, CallFacts DEF Typed, Points, Admissions
<1>4. AdmissionMoves(c)
  BY <1>2, CallFacts DEF AdmissionMoves, Admissions
<1> QED
  BY <1>1, <1>2, <1>3, <1>4, LocalEffect, Unmoved

-----------------------------------------------------------------------------
(* The handlers *)

Outside == {"idle", "capture", "begin", "activity", "start", "reject"}

\* A handler that has not launched yet.
LEMMA OutsideFacts ==
    ASSUME EInv, NEW c \in Calls, pc[c] \in Outside
    PROVE  /\ ~ adm[c].launched /\ ~ adm[c].finalizing /\ out[c] = "none" /\ req[c].state \notin Active
           /\ pc[c] \in {"idle", "capture", "begin"} => adm[c] = NoAdmission
           /\ pc[c] \in {"activity", "start"} => adm[c].held
           /\ pc[c] # "idle" => ~ Exists(c) /\ turn[c] = "none"
           /\ HandlerOK(c) /\ CaptureOK(c) /\ RequestOK(c)
           /\ adm[c] \in Admissions /\ call[c] \in Captures /\ TypeOK
<1>1. /\ TypeOK /\ HandlerOK(c) /\ CaptureOK(c) /\ RequestOK(c) /\ adm[c] \in Admissions /\ call[c] \in Captures
  BY CallFacts DEF CallOK
<1>2. ~ adm[c].launched
  BY <1>1 DEF HandlerOK, Outside, Executing
<1> QED
  BY <1>1, <1>2 DEF HandlerOK, RequestOK, Own, Outside, Handling

\* A call outside the executor has its admission and its capture to account for.
LEMMA OutsideKept ==
    ASSUME EInv, NEW c \in Calls, pc[c] \in Outside, pc'[c] \in Outside \cup {"done"},
           req' = req, turn' = turn, out' = out, adm'[c] \in Admissions,
           ~ adm'[c].launched, ~ adm'[c].finalizing, adm'[c].task = adm[c].task,
           pc'[c] \in {"idle", "capture", "begin"} => adm'[c] = NoAdmission,
           pc'[c] \in {"activity", "start"} => adm'[c].held,
           pc'[c] = "done" => ~ adm'[c].held,
           pc[c] = "idle" /\ pc'[c] # "done" => SameSource(c) = {} /\ pc'[c] # "idle",
           pc[c] # "idle" => pc'[c] # "idle",
           CaptureOK(c)'
    PROVE  CallOK(c)'
<1>1. /\ ~ adm[c].launched /\ out[c] = "none" /\ req[c].state \notin Active
      /\ pc[c] # "idle" => ~ Exists(c) /\ turn[c] = "none"
      /\ HandlerOK(c) /\ RequestOK(c)
  BY OutsideFacts
<1>2. pc'[c] \in Handling => ~ Exists(c)
  BY <1>1 DEF SameSource, Exists, Handling
<1>3. HandlerOK(c)'
  BY <1>1, <1>2 DEF HandlerOK, Outside, Handling, Executing, Exists
<1>4. RequestOK(c)'
  BY <1>1 DEF RequestOK, Exists, Own
<1>5. ForeignOK(c)' /\ OwnOK(c)'
  BY DEF ForeignOK, Foreign, OwnOK, Own, Outside
<1> QED
  BY <1>3, <1>4, <1>5 DEF CallOK

LEMMA NoAdmissionFacts == /\ NoAdmission \in Admissions /\ ~ NoAdmission.launched /\ ~ NoAdmission.finalizing
                          /\ ~ NoAdmission.held /\ NoAdmission.task = None /\ ~ NoAdmission.cancelRequested
BY DEF NoAdmission, Admissions

\* A handler that only goes on to its next step, or gives up.
LEMMA OutsideMoves ==
    ASSUME EInv, NEW c \in Calls, NEW l \in Outside \cup {"done"}, pc[c] \in Outside, Goto(c, l),
           UNCHANGED <<call, adm, work, out, store, codex, life, history>>,
           l \in {"idle", "capture", "begin"} => adm[c] = NoAdmission,
           l \in {"activity", "start"} => adm[c].held,
           l = "done" => ~ adm[c].held,
           pc[c] = "idle" /\ l # "done" => SameSource(c) = {},
           l # "idle", l \in {"begin", "activity", "start"} => CaptureOK(c)',
           l = "capture" => c \in Messages
    PROVE  Effect(c)
<1>1. l \in Points
  BY DEF Outside, Points, Handling
<1>2. pc'[c] = l /\ (CallOK(c)' => Effect(c))
  BY <1>1, Moves
<1>3. UNCHANGED <<call, adm, work, out, req, turn>>
  BY DEF store, codex
<1>4. CaptureOK(c)'
  BY <1>2 DEF CaptureOK
<1> QED
  BY <1>2, <1>3, <1>4, OutsideFacts, OutsideKept

LEMMA ReceiveMessageEffect ==
    ASSUME EInv, NEW c \in Calls, ReceiveMessage(c)
    PROVE  Effect(c)
<1>1. PICK l \in {"done", "capture"} : Goto(c, l) /\ (l = "capture" => SameSource(c) = {})
  BY DEF ReceiveMessage
<1>2. pc[c] \in Outside /\ adm[c] = NoAdmission /\ c \in Messages /\ l \in Outside \cup {"done"}
  BY OutsideFacts DEF ReceiveMessage, Outside
<1>3. UNCHANGED <<call, adm, work, out, store, codex, life, history>>
  BY DEF ReceiveMessage
<1> QED
  BY <1>1, <1>2, <1>3, OutsideMoves, NoAdmissionFacts

\* A handler that captures what it is to work on.
LEMMA Captured ==
    ASSUME EInv, NEW c \in Calls, NEW k \in Captures, NEW l \in {"begin", "done"}, pc[c] \in {"idle", "capture"},
           call' = [call EXCEPT ![c] = k], Goto(c, l),
           UNCHANGED <<adm, work, out, store, codex, life, history>>,
           pc[c] = "idle" /\ l # "done" => SameSource(c) = {},
           l = "begin" =>
              /\ k.target # None /\ (c \in Messages => k.origin = None)
              /\ c \in Retries => k.origin # None /\ Exists(k.origin) /\ k.target = req[k.origin].target
    PROVE  Effect(c)
<1>1. UNCHANGED <<adm, work, out, req, rejected, bound, made, turn, life, history>>
  BY DEF store, codex
<1>2. Only(c) /\ pc'[c] = l /\ call'[c] = k
  BY <1>1 DEF EInv, TypeOK, Only, Goto
<1>3. Typed(c)
  BY <1>1, <1>2, CallFacts DEF Typed, Points, Handling
<1>4. adm[c] = NoAdmission /\ pc[c] \in Outside
  BY OutsideFacts DEF Outside
<1>5. CaptureOK(c)'
  BY <1>1, <1>2 DEF CaptureOK, Exists
<1>6. pc'[c] \in Outside \cup {"done"}
  BY <1>2 DEF Outside
<1>7. CallOK(c)'
  BY <1>1, <1>2, <1>4, <1>5, <1>6, NoAdmissionFacts, OutsideKept
<1> QED
  BY <1>1, <1>2, <1>3, <1>4, <1>7, Unmoved, LocalEffect DEF AdmissionMoves

LEMMA CaptureEffect ==
    ASSUME EInv, NEW c \in Calls, NEW g \in Targets, Capture(c, g)
    PROVE  Effect(c)
<1> DEFINE k == [target |-> g, thread |-> bound[g], origin |-> None]
<1>1. pc[c] = "capture" /\ c \in Messages /\ c \notin Retries /\ TypeOK
  BY CallFacts, CallAssumption DEF Capture, CallOK, CaptureOK
<1>2. k \in Captures /\ k.target # None /\ k.origin = None
  BY <1>1, CallAssumption DEF Captures, TypeOK
<1> HIDE DEF k
<1>3. /\ call' = [call EXCEPT ![c] = k] /\ Goto(c, "begin")
      /\ UNCHANGED <<adm, work, out, store, codex, life, history>>
  BY DEF Capture, k
<1> QED
  BY <1>1, <1>2, <1>3, Captured

LEMMA ReceiveRetryEffect ==
    ASSUME EInv, NEW c \in Calls, NEW o \in Calls, ReceiveRetry(c, o)
    PROVE  Effect(c)
<1> DEFINE k == [target |-> req[o].target, thread |-> req[o].thread, origin |-> o]
<1>1. pc[c] = "idle" /\ c \in Retries /\ c \notin Messages /\ Exists(o)
  BY CallAssumption DEF ReceiveRetry, Exists
<1>2. req[o] \in Requests /\ RequestOK(o)
  BY CallFacts DEF CallOK
<1>3. k \in Captures /\ k.target = req[o].target /\ k.target # None /\ k.origin = o /\ o # None
  BY <1>1, <1>2, CallAssumption DEF Captures, Requests, RequestOK
<1> HIDE DEF k
<1>4. PICK l \in {"begin", "done"} : Goto(c, l) /\ (l = "begin" => SameSource(c) = {})
  BY DEF ReceiveRetry
<1>5. call' = [call EXCEPT ![c] = k] /\ UNCHANGED <<adm, work, out, store, codex, life, history>>
  BY DEF ReceiveRetry, k
<1> QED
  BY <1>1, <1>3, <1>4, <1>5, Captured

LEMMA BeginStops ==
    ASSUME EInv, NEW c \in Calls, BeginRefused(c) \/ BeginBusy(c)
    PROVE  Effect(c)
<1>1. PICK l \in {"done", "reject"} : Goto(c, l)
  BY DEF BeginRefused, BeginBusy
<1>2. pc[c] \in Outside /\ adm[c] = NoAdmission /\ l \in Outside \cup {"done"} /\ pc[c] = "begin"
  BY OutsideFacts DEF BeginRefused, BeginBusy, Outside
<1>3. UNCHANGED <<call, adm, work, out, store, codex, life, history>>
  BY DEF BeginRefused, BeginBusy
<1> QED
  BY <1>1, <1>2, <1>3, OutsideMoves, NoAdmissionFacts

\* Begin finds no active request on the intent, so none that retries the same.
LEMMA BeginAdmittedEffect ==
    ASSUME EInv, NEW c \in Calls, BeginAdmitted(c)
    PROVE  Effect(c)
<1> DEFINE a == [NoAdmission EXCEPT !.held = TRUE]
<1>1. /\ pc[c] = "begin" /\ DuplicateOf(c) = {} /\ ~ StoreBusy(c)
      /\ adm' = [adm EXCEPT ![c] = a] /\ pc' = [pc EXCEPT ![c] = "activity"]
      /\ UNCHANGED <<call, work, out, req, rejected, bound, made, turn, life, history>>
  BY DEF BeginAdmitted, Goto, store, codex
<1>2. a \in Admissions /\ ~ a.launched /\ ~ a.finalizing /\ a.held /\ a.task = None
  BY DEF NoAdmission, Admissions
<1>3. adm[c] = NoAdmission /\ CaptureOK(c) /\ pc[c] \in Outside /\ TypeOK
  BY <1>1, OutsideFacts DEF Outside
<1> HIDE DEF a
<1>4. Only(c) /\ pc'[c] = "activity" /\ adm'[c] = a
  BY <1>1, <1>3 DEF TypeOK, Only
<1>5. Typed(c)
  BY <1>1, <1>2, <1>4, CallFacts DEF Typed, Points, Handling
<1>6. ASSUME c \in Retries, NEW i \in Calls, req[i].state \in Active, Source[i] = Source[c]
      PROVE  req[i].retryOf # call[c].origin
  <2>1. i \notin ActiveIn(call[c].target, call[c].thread)
    BY <1>1 DEF StoreBusy
  <2>2. req[i].target # call[c].target
    BY <1>1, <1>3, <1>6, <2>1 DEF ActiveIn, CaptureOK
  <2>3. RequestOK(i)
    BY CallFacts DEF CallOK
  <2> QED
    BY <1>1, <1>3, <1>6, <2>2, <2>3 DEF CaptureOK, RequestOK
<1>7. CaptureOK(c)'
  BY <1>1, <1>3, <1>4, <1>6 DEF CaptureOK, Exists
<1>8. CallOK(c)'
  BY <1>1, <1>2, <1>3, <1>4, <1>7, NoAdmissionFacts, OutsideKept DEF Outside
<1> QED
  BY <1>1, <1>4, <1>5, <1>8, Unmoved, LocalEffect DEF AdmissionMoves

\* A handler that gives its admission back.
LEMMA OutsideLeaves ==
    ASSUME EInv, NEW c \in Calls, pc[c] \in Outside, Leave(c), rejected' \subseteq Sources,
           UNCHANGED <<call, work, out, req, codex, life, history>>
    PROVE  Effect(c)
<1>1. pc'[c] = "done" /\ adm'[c] = [adm[c] EXCEPT !.held = FALSE] /\ (CallOK(c)' => Effect(c))
  BY Leaves
<1>2. adm[c] \in Admissions /\ ~ adm[c].launched /\ ~ adm[c].finalizing
  BY OutsideFacts
<1>3. adm'[c] \in Admissions /\ ~ adm'[c].launched /\ ~ adm'[c].finalizing /\ adm'[c].task = adm[c].task /\ ~ adm'[c].held
  BY <1>1, <1>2 DEF Admissions
<1>4. CaptureOK(c)'
  BY <1>1 DEF CaptureOK
<1>5. req' = req /\ out' = out /\ turn' = turn
  BY DEF codex
<1>6. CallOK(c)'
  BY <1>1, <1>3, <1>4, <1>5, OutsideKept DEF Outside
<1> QED
  BY <1>1, <1>6

LEMMA ActivityEffect ==
    ASSUME EInv, NEW c \in Calls, Activity(c)
    PROVE  Effect(c)
<1>1. pc[c] = "activity" /\ pc[c] \in Outside /\ UNCHANGED <<call, work, out, store, codex, life, history>>
  BY DEF Activity, Outside
<1>2. adm[c].held /\ CaptureOK(c)
  BY <1>1, OutsideFacts
<1>3. CASE Leave(c)
  BY <1>1, <1>3, OutsideLeaves, Unmoved DEF store
<1>4. ASSUME NEW l \in {"start", "reject"}, Goto(c, l), adm' = adm PROVE Effect(c)
  <2>1. pc'[c] = l /\ req' = req /\ call' = call
    BY <1>1, <1>4 DEF EInv, TypeOK, Goto, store
  <2>2. CaptureOK(c)'
    BY <1>1, <1>2, <2>1 DEF CaptureOK, Exists
  <2> QED
    BY <1>1, <1>2, <1>4, <2>2, OutsideMoves DEF Outside
<1> QED
  BY <1>3, <1>4 DEF Activity

LEMMA RejectEffect ==
    ASSUME EInv, NEW c \in Calls, Reject(c)
    PROVE  Effect(c)
<1>1. rejected' \subseteq Sources
  BY Unmoved, SourceTyped DEF Reject
<1>2. pc[c] \in Outside /\ Leave(c) /\ UNCHANGED <<call, work, out, req, codex, life, history>>
  BY DEF Reject, Outside
<1> QED
  BY <1>1, <1>2, OutsideLeaves

LEMMA StartRefusedEffect ==
    ASSUME EInv, NEW c \in Calls, StartRefused(c)
    PROVE  Effect(c)
<1>1. rejected' \subseteq Sources
  BY Unmoved DEF StartRefused, store
<1>2. pc[c] \in Outside /\ Leave(c) /\ UNCHANGED <<call, work, out, req, codex, life, history>>
  BY DEF StartRefused, Outside, store
<1> QED
  BY <1>1, <1>2, OutsideLeaves

\* A new request: its source has none, and its session no active one.
LEMMA StartTaskEffect ==
    ASSUME EInv, NEW c \in Calls, StartTask(c)
    PROVE  Effect(c)
<1> DEFINE r == IF c \in Retries THEN [NewRequest(c) EXCEPT !.thread = req[call[c].origin].thread]
                ELSE NewRequest(c)
<1>1. /\ pc[c] = "start" /\ SameSource(c) = {} /\ pc[c] \in Outside
      /\ UNCHANGED <<call, work, out, bound, made, turn, life, history>>
  BY DEF StartTask, codex, Outside
<1>2. /\ TypeOK /\ adm[c].held /\ ~ adm[c].launched /\ ~ adm[c].finalizing /\ out[c] = "none"
      /\ ~ Exists(c) /\ turn[c] = "none" /\ CaptureOK(c) /\ call[c] \in Captures
  BY <1>1, OutsideFacts
<1>3. CASE Leave(c) /\ rejected' = rejected \cup {Source[c]} /\ req' = req
  <2>1. rejected' \subseteq Sources /\ UNCHANGED <<call, work, out, req, codex, life, history>>
    BY <1>1, <1>3, Unmoved, SourceTyped DEF codex
  <2> QED
    BY <1>1, <1>3, <2>1, OutsideLeaves
<1>4. CASE /\ SessionFree(r, Calls) /\ req' = [req EXCEPT ![c] = r]
           /\ adm' = adm /\ rejected' = rejected /\ Goto(c, "launch")
  <2>1. /\ call[c].target # None /\ call[c].target \in Targets
        /\ c \in Messages => call[c].origin = None
        /\ c \in Retries => /\ call[c].origin \in Calls /\ Exists(call[c].origin)
                            /\ call[c].target = req[call[c].origin].target
    BY <1>1, <1>2 DEF CaptureOK, Captures
  <2>2. c \in Retries => req[call[c].origin] \in Requests
    BY <2>1, CallFacts
  <2>3. /\ r \in Requests /\ r.state = "running" /\ ~ r.completed /\ ~ r.unconfirmed
        /\ r.target = call[c].target /\ r.retryOf = call[c].origin
    BY <1>2, <2>2 DEF NewRequest, NoRequest, Requests, Active, Captures
  <2> HIDE DEF r
  <2>4. Only(c) /\ pc'[c] = "launch" /\ req'[c] = r
    BY <1>1, <1>2, <1>4 DEF TypeOK, Only, Goto
  <2>5. Typed(c)
    BY <1>1, <1>4, <2>3, <2>4, CallFacts DEF Typed, Points, Handling
  <2>6. TypeOK' /\ Others(c)
    BY <1>1, <1>4, <2>4, <2>5, OneCall, Unmoved DEF life, history
  <2>7. RequestMoves(c) /\ AdmissionMoves(c) /\ LifeMoves /\ TurnMoves(c)
    BY <1>1, <1>2, <1>4, Unmoved
       DEF RequestMoves, AdmissionMoves, LifeMoves, TurnMoves, Exists, Terminal, life, history
  <2>8. SessionMoves(c)
    BY <1>4, <2>4 DEF SessionMoves, SessionFree
  <2>9. HandlerOK(c)' /\ CaptureOK(c)' /\ ForeignOK(c)' /\ OwnOK(c)'
    <3>1. HandlerOK(c)'
      BY <1>1, <1>2, <1>4, <2>4 DEF HandlerOK, Executing
    <3>2. Fresh(c)'
      BY <2>3, <2>4 DEF Fresh
    <3> QED
      BY <1>1, <1>2, <1>4, <2>4, <3>1, <3>2 DEF CaptureOK, ForeignOK, Foreign, OwnOK, Own
  <2>10. RequestOK(c)'
    <3>1. CASE c \in Retries
      <4>1. PICK o \in Calls : o = call[c].origin
        BY <2>1, <3>1
      <4>2. o # c /\ req'[o] = req[o] /\ Exists(o) /\ r.retryOf = o /\ r.target = req[o].target
        BY <1>2, <2>1, <2>3, <2>6, <3>1, <4>1 DEF Others
      <4> QED
        BY <2>1, <2>3, <2>4, <4>2 DEF RequestOK, Exists
    <3>2. CASE c \in Messages
      BY <2>1, <2>3, <2>4, <3>2 DEF RequestOK, Exists
    <3> QED
      BY <3>1, <3>2 DEF Calls
  <2> QED
    BY <2>6, <2>7, <2>8, <2>9, <2>10 DEF Effect, CallOK
<1> QED
  BY <1>3, <1>4 DEF StartTask

\* An executor begins on request i.
LEMMA Launches ==
    ASSUME EInv, NEW c \in Calls, NEW i \in Calls, LaunchOn(c, i), adm[c].held
    PROVE  /\ pc'[c] = "prepare" /\ adm'[c] = [adm[c] EXCEPT !.task = i, !.launched = TRUE]
           /\ work'[c].thread = req[i].thread
           /\ UNCHANGED <<call, out, req, turn>>
           /\ CallOK(c)' => Effect(c)
<1>1. UNCHANGED <<call, out, req, rejected, bound, made, turn, life, history>>
  BY DEF LaunchOn, store, codex
<1>2. TypeOK /\ req[i] \in Requests /\ adm[c] \in Admissions
  BY CallFacts
<1>3. /\ Only(c) /\ pc'[c] = "prepare" /\ adm'[c] = [adm[c] EXCEPT !.task = i, !.launched = TRUE]
      /\ work'[c] = [NoWork EXCEPT !.thread = req[i].thread]
  BY <1>1, <1>2 DEF TypeOK, Only, LaunchOn, Goto
<1>4. work'[c] \in Works /\ work'[c].thread = req[i].thread
  BY <1>2, <1>3 DEF NoWork, Works, Requests
<1>5. Typed(c)
  BY <1>1, <1>2, <1>3, <1>4, CallFacts DEF Typed, Points, Executing, Admissions
<1> QED
  BY <1>1, <1>3, <1>4, <1>5, LocalEffect, Unmoved DEF AdmissionMoves

LEMMA LaunchEffect ==
    ASSUME EInv, NEW c \in Calls, Launch(c)
    PROVE  Effect(c)
<1>1. pc[c] = "launch" /\ LaunchOn(c, c)
  BY DEF Launch
<1>2. HandlerOK(c) /\ OwnOK(c) /\ RequestOK(c) /\ adm[c] \in Admissions
  BY CallFacts DEF CallOK
<1>3. /\ adm[c].held /\ ~ adm[c].launched /\ out[c] = "none" /\ ~ adm[c].finalizing
      /\ Fresh(c) /\ turn[c] = "none"
  BY <1>1, <1>2 DEF HandlerOK, OwnOK, Executing
<1>4. /\ pc'[c] = "prepare" /\ adm'[c] = [adm[c] EXCEPT !.task = c, !.launched = TRUE]
      /\ work'[c].thread = req[c].thread /\ UNCHANGED <<call, out, req, turn>>
      /\ CallOK(c)' => Effect(c)
  BY <1>1, <1>3, Launches
<1>5. adm'[c].task = c /\ adm'[c].launched /\ ~ adm'[c].finalizing /\ adm'[c].held
  BY <1>2, <1>3, <1>4 DEF Admissions
<1>6. HandlerOK(c)' /\ CaptureOK(c)'
  BY <1>3, <1>4, <1>5 DEF HandlerOK, CaptureOK, Executing, Handling, Exists, Fresh
<1>7. RequestOK(c)' /\ ForeignOK(c)'
  BY <1>2, <1>4, <1>5 DEF RequestOK, Exists, Own, ForeignOK, Foreign
<1>8. OwnOK(c)'
  <2>1. Fresh(c)'
    BY <1>3, <1>4 DEF Fresh
  <2>2. ThreadOK(c)' /\ StageOK(c)' /\ OverOK(c)'
    BY <1>3, <1>4, <2>1 DEF ThreadOK, StageOK, OverOK, Before, Over
  <2> QED
    BY <1>4, <1>5, <2>2 DEF OwnOK, After, Over
<1> QED
  BY <1>4, <1>6, <1>7, <1>8 DEF CallOK

\* A recovery operation that is repeated finds its request over.
LEMMA LaunchExistingEffect ==
    ASSUME EInv, NEW c \in Calls, LaunchExisting(c)
    PROVE  Effect(c)
<1>1. PICK i \in Existing(c) : LaunchOn(c, i)
  BY DEF LaunchExisting
<1>2. /\ i \in Calls /\ Exists(i) /\ Source[i] = Source[c] /\ c \in Retries /\ req[i].retryOf = call[c].origin
      /\ pc[c] = "start" /\ pc[c] \in Outside
  BY <1>1 DEF Existing, SameSource, Exists, LaunchExisting, Outside
<1>3. /\ adm[c].held /\ ~ adm[c].launched /\ ~ adm[c].finalizing /\ out[c] = "none" /\ ~ Exists(c) /\ turn[c] = "none"
      /\ CaptureOK(c) /\ RequestOK(c) /\ adm[c] \in Admissions
  BY <1>2, OutsideFacts
<1>4. i # c /\ req[i].state \in Terminal
  <2>1. req[i].state \notin Active
    BY <1>2, <1>3 DEF CaptureOK
  <2>2. req[i] \in Requests
    BY <1>2, CallFacts
  <2> QED
    BY <1>2, <1>3, <2>1, <2>2 DEF Requests, Exists
<1>5. /\ pc'[c] = "prepare" /\ adm'[c] = [adm[c] EXCEPT !.task = i, !.launched = TRUE]
      /\ UNCHANGED <<call, out, req, turn>> /\ (CallOK(c)' => Effect(c))
  BY <1>1, <1>2, <1>3, Launches
<1>6. adm'[c].task = i /\ adm'[c].launched /\ ~ adm'[c].finalizing /\ adm'[c].held /\ i # None
  BY <1>2, <1>3, <1>5, CallAssumption DEF Admissions
<1>7. HandlerOK(c)' /\ CaptureOK(c)'
  BY <1>3, <1>5, <1>6 DEF HandlerOK, CaptureOK, Executing, Handling, Exists
<1>8. RequestOK(c)'
  BY <1>3, <1>5 DEF RequestOK, Exists, Active
<1>9. ForeignOK(c)' /\ OwnOK(c)'
  BY <1>3, <1>4, <1>5, <1>6 DEF ForeignOK, Foreign, OwnOK, Own, Exists
<1> QED
  BY <1>5, <1>7, <1>8, <1>9 DEF CallOK

-----------------------------------------------------------------------------
(* The executors *)

LEMMA ExecutingFacts ==
    ASSUME EInv, NEW c \in Calls, pc[c] \in Executing
    PROVE  /\ adm[c].launched /\ adm[c].held /\ adm[c] \in Admissions /\ req[c] \in Requests /\ TypeOK
           /\ HandlerOK(c) /\ RequestOK(c) /\ ForeignOK(c) /\ OwnOK(c)
           /\ Own(c) \/ Foreign(c)
           /\ Own(c) => adm[c].task = c /\ ThreadOK(c) /\ StageOK(c) /\ OverOK(c)
                        /\ (adm[c].finalizing <=> pc[c] \in After \cup Over) /\ Exists(c)
           /\ Foreign(c) => pc[c] \in {"prepare", "outbox", "abort", "fail", "cancel", "exit"}
<1>1. /\ HandlerOK(c) /\ RequestOK(c) /\ ForeignOK(c) /\ OwnOK(c) /\ adm[c] \in Admissions
      /\ req[c] \in Requests /\ TypeOK
  BY CallFacts DEF CallOK
<1>2. adm[c].launched /\ adm[c].held /\ (Own(c) \/ Foreign(c))
  BY <1>1 DEF HandlerOK, Own, Foreign
<1>3. Own(c) => adm[c].task = c /\ ThreadOK(c) /\ StageOK(c) /\ OverOK(c)
                /\ (adm[c].finalizing <=> pc[c] \in After \cup Over)
  BY <1>1 DEF OwnOK, Own
<1>4. Own(c) => Exists(c)
  BY <1>3 DEF StageOK, OverOK, Exists, Fresh, Executing, Before, Over
<1>5. Foreign(c) => pc[c] \in {"prepare", "outbox", "abort", "fail", "cancel", "exit"}
  BY <1>1 DEF ForeignOK, Executing
<1> QED
  BY <1>1, <1>2, <1>3, <1>4, <1>5

\* The request of call c keeps its identity.
SameRequest(c) == /\ req' = [req EXCEPT ![c] = req'[c]] /\ (Exists(c)' <=> Exists(c))
                  /\ req'[c].target = req[c].target /\ req'[c].retryOf = req[c].retryOf

\* An executor accounts for its own request by ThreadOK and StageOK.
LEMMA OwnKept ==
    ASSUME EInv, NEW c \in Calls, pc[c] \in Executing, Own(c), pc'[c] \in Executing, SameRequest(c),
           adm'[c].launched, adm'[c].held, adm'[c].task = c,
           ThreadOK(c)', StageOK(c)', OverOK(c)', adm'[c].finalizing <=> pc'[c] \in After \cup Over
    PROVE  CallOK(c)'
<1>1. Exists(c) /\ RequestOK(c) /\ req[c] \in Requests /\ TypeOK
  BY ExecutingFacts
<1>2. HandlerOK(c)'
  BY <1>1 DEF HandlerOK, SameRequest, Executing, Handling, Exists
<1>3. CaptureOK(c)'
  BY DEF CaptureOK, Executing
<1>4. RequestOK(c)'
  <2>1. CASE req[c].retryOf = None
    BY <1>1, <2>1 DEF RequestOK, SameRequest, Exists, Own
  <2>2. CASE req[c].retryOf # None
    <3>1. PICK o \in Calls : o = req[c].retryOf
      BY <1>1, <2>2 DEF Requests
    <3>2. (req'[o].state # "absent" <=> req[o].state # "absent") /\ req'[o].target = req[o].target
      BY <1>1 DEF SameRequest, Exists, TypeOK
    <3> QED
      BY <1>1, <2>2, <3>1, <3>2 DEF RequestOK, SameRequest, Exists, Own
  <2> QED
    BY <2>1, <2>2
<1>5. ForeignOK(c)' /\ OwnOK(c)'
  BY DEF ForeignOK, Foreign, OwnOK, Executing
<1> QED
  BY <1>2, <1>3, <1>4, <1>5 DEF CallOK

ForeignPoints == {"prepare", "outbox", "abort", "fail", "cancel", "exit"}

\* An executor launched on a request that is over changes nothing.
LEMMA ForeignKept ==
    ASSUME EInv, NEW c \in Calls, pc[c] \in Executing, Foreign(c), pc'[c] \in ForeignPoints,
           req' = req, turn' = turn, out' = out,
           adm'[c].launched, adm'[c].held, adm'[c].task = adm[c].task
    PROVE  CallOK(c)'
<1>1. RequestOK(c) /\ ForeignOK(c) /\ HandlerOK(c)
  BY ExecutingFacts
<1>2. ~ Exists(c) /\ turn[c] = "none" /\ out[c] = "none"
  BY <1>1 DEF ForeignOK, HandlerOK
<1>3. HandlerOK(c)' /\ CaptureOK(c)'
  BY <1>2 DEF HandlerOK, CaptureOK, Executing, Handling, ForeignPoints, Exists
<1>4. RequestOK(c)'
  BY <1>1, <1>2 DEF RequestOK, Exists, Active
<1>5. ForeignOK(c)' /\ OwnOK(c)'
  BY <1>1, <1>2 DEF ForeignOK, Foreign, OwnOK, Own, ForeignPoints, Exists
<1> QED
  BY <1>3, <1>4, <1>5 DEF CallOK

LEMMA Same ==
    ASSUME EInv, NEW c \in Calls, req' = req
    PROVE  SameRequest(c) /\ (Fresh(c)' <=> Fresh(c)) /\ (Exists(c)' <=> Exists(c))
BY DEF SameRequest, EInv, TypeOK, Fresh, Exists

\* An executor that only goes on.
LEMMA ExecutorMoves ==
    ASSUME EInv, NEW c \in Calls, NEW l \in Executing, pc[c] \in Executing, Goto(c, l),
           UNCHANGED <<call, adm, work, out, store, codex, life, history>>,
           Foreign(c) => l \in ForeignPoints,
           Own(c) /\ pc'[c] = l /\ UNCHANGED <<call, adm, work, out, req, turn, service, faults>> =>
               ThreadOK(c)' /\ StageOK(c)' /\ OverOK(c)' /\ (adm[c].finalizing <=> l \in After \cup Over)
    PROVE  Effect(c)
<1>1. pc'[c] = l /\ (CallOK(c)' => Effect(c))
  BY Moves DEF Points
<1>2. UNCHANGED <<call, adm, work, out, req, turn, service, faults>>
  BY DEF store, codex, life
<1>3. adm[c].launched /\ adm[c].held /\ (Own(c) \/ Foreign(c)) /\ (Own(c) => adm[c].task = c)
  BY ExecutingFacts
<1>4. CASE Own(c)
  BY <1>1, <1>2, <1>3, <1>4, OwnKept, Same
<1>5. CASE Foreign(c)
  BY <1>1, <1>2, <1>3, <1>5, ForeignKept
<1> QED
  BY <1>3, <1>4, <1>5

LEMMA PrepareEffect ==
    ASSUME EInv, NEW c \in Calls, Prepare(c)
    PROVE  Effect(c)
<1>1. pc[c] = "prepare" /\ UNCHANGED <<call, adm, work, out, store, codex, life, history>>
  BY DEF Prepare
<1>2. PICK l \in {"outbox", "abort"} : Goto(c, l)
  BY DEF Prepare
<1>3. pc[c] \in Executing /\ l \in Executing /\ l \in ForeignPoints
  BY <1>1 DEF Executing, ForeignPoints
<1>4. ASSUME Own(c), pc'[c] = l, UNCHANGED <<call, adm, work, out, req, turn, service, faults>>
      PROVE  ThreadOK(c)' /\ StageOK(c)' /\ OverOK(c)' /\ (adm[c].finalizing <=> l \in After \cup Over)
  <2>1. ThreadOK(c) /\ StageOK(c) /\ OverOK(c) /\ (adm[c].finalizing <=> pc[c] \in After \cup Over)
    BY <1>3, <1>4, ExecutingFacts
  <2>2. Fresh(c)' <=> Fresh(c)
    BY <1>4, Same
  <2> QED
    BY <1>1, <1>4, <2>1, <2>2 DEF ThreadOK, StageOK, OverOK, Before, After, Over
<1> QED
  BY <1>1, <1>2, <1>3, <1>4, ExecutorMoves

LEMMA PrepareOutboxEffect ==
    ASSUME EInv, NEW c \in Calls, PrepareOutbox(c)
    PROVE  Effect(c)
<1>1. /\ pc[c] = "outbox" /\ UNCHANGED <<call, adm, work, out, store, codex, life, history>>
      /\ pc[c] \in Executing
  BY DEF PrepareOutbox, Executing
<1>2. PICK l \in {"open", "abort"} : Goto(c, l) /\ (l = "open" => req[adm[c].task].state = "running")
  BY DEF PrepareOutbox, OutboxReady, Task
<1>3. Foreign(c) => l \in ForeignPoints
  BY <1>1, <1>2, ExecutingFacts DEF ForeignOK, Terminal, ForeignPoints
<1>4. ASSUME Own(c), pc'[c] = l, UNCHANGED <<call, adm, work, out, req, turn, service, faults>>
      PROVE  ThreadOK(c)' /\ StageOK(c)' /\ OverOK(c)' /\ (adm[c].finalizing <=> l \in After \cup Over)
  <2>1. ThreadOK(c) /\ StageOK(c) /\ OverOK(c) /\ (adm[c].finalizing <=> pc[c] \in After \cup Over)
    BY <1>1, <1>4, ExecutingFacts
  <2>2. Fresh(c)' <=> Fresh(c)
    BY <1>4, Same
  <2> QED
    BY <1>1, <1>4, <2>1, <2>2 DEF ThreadOK, StageOK, OverOK, Before, After, Over
<1>5. l \in Executing
  BY DEF Executing
<1> QED
  BY <1>1, <1>2, <1>3, <1>4, <1>5, ExecutorMoves

LEMMA StepFailsEffect ==
    ASSUME EInv, NEW c \in Calls, StepFails(c)
    PROVE  Effect(c)
<1>1. /\ pc[c] \in {"open", "bind", "attach"} /\ UNCHANGED <<call, adm, work, out, store, codex, life, history>>
      /\ pc[c] \in Executing /\ Goto(c, "abort") /\ "abort" \in Executing /\ "abort" \in ForeignPoints
  BY DEF StepFails, Executing, ForeignPoints
<1>2. ASSUME Own(c), pc'[c] = "abort", UNCHANGED <<call, adm, work, out, req, turn, service, faults>>
      PROVE  ThreadOK(c)' /\ StageOK(c)' /\ OverOK(c)' /\ (adm[c].finalizing <=> "abort" \in After \cup Over)
  <2>1. ThreadOK(c) /\ StageOK(c) /\ OverOK(c) /\ (adm[c].finalizing <=> pc[c] \in After \cup Over)
    BY <1>1, <1>2, ExecutingFacts
  <2>2. Fresh(c)' <=> Fresh(c)
    BY <1>2, Same
  <2> QED
    BY <1>1, <1>2, <2>1, <2>2 DEF ThreadOK, StageOK, OverOK, Before, After, Over
<1> QED
  BY <1>1, <1>2, ExecutorMoves

LEMMA FreezeEffect ==
    ASSUME EInv, NEW c \in Calls, Freeze(c)
    PROVE  Effect(c)
<1>1. /\ pc[c] = "freeze" /\ UNCHANGED <<call, adm, work, out, store, codex, life, history>>
      /\ pc[c] \in Executing
  BY DEF Freeze, Executing
<1>2. PICK l \in {"deliver", "fail"} : Goto(c, l)
  BY DEF Freeze
<1>3. ~ Foreign(c)
  BY <1>1, ExecutingFacts
<1>4. ASSUME Own(c), pc'[c] = l, UNCHANGED <<call, adm, work, out, req, turn, service, faults>>
      PROVE  ThreadOK(c)' /\ StageOK(c)' /\ OverOK(c)' /\ (adm[c].finalizing <=> l \in After \cup Over)
  <2>1. ThreadOK(c) /\ StageOK(c) /\ OverOK(c) /\ (adm[c].finalizing <=> pc[c] \in After \cup Over)
    BY <1>1, <1>4, ExecutingFacts
  <2> QED
    BY <1>1, <1>4, <2>1 DEF ThreadOK, StageOK, OverOK, Before, After, Over
<1>5. l \in Executing
  BY DEF Executing
<1> QED
  BY <1>1, <1>2, <1>3, <1>4, <1>5, ExecutorMoves

\* A step of an executor on the request it created.
LEMMA OwnEffect ==
    ASSUME EInv, NEW c \in Calls, pc[c] \in Executing, Own(c), Only(c), Typed(c), pc'[c] \in Executing,
           SameRequest(c), SessionMoves(c), req[c].state \in Active \/ req'[c] = req[c],
           adm'[c].launched, adm'[c].held, adm'[c].task = c,
           ThreadOK(c)', StageOK(c)', OverOK(c)', adm'[c].finalizing <=> pc'[c] \in After \cup Over,
           TurnMoves(c), turns' \in [Sources -> Nat], faults' \in Nat, faults' >= faults,
           bound' \in [Targets -> Threads \cup {None}], made' \subseteq Threads,
           UNCHANGED <<rejected, service, restarts, asked>>
    PROVE  Effect(c)
<1>1. TypeOK' /\ Others(c)
  BY OneCall, Unmoved
<1>2. CallOK(c)'
  BY OwnKept
<1>3. RequestMoves(c)
  BY DEF RequestMoves, SameRequest, Active, Terminal
<1>4. adm[c].held
  BY ExecutingFacts
<1>5. AdmissionMoves(c) /\ LifeMoves
  BY <1>4, Unmoved DEF AdmissionMoves, LifeMoves
<1> QED
  BY <1>1, <1>2, <1>3, <1>5 DEF Effect

LEMMA OpenThreadEffect ==
    ASSUME EInv, NEW c \in Calls, NEW t \in Threads, OpenThread(c, t)
    PROVE  Effect(c)
<1>1. /\ pc[c] = "open" /\ pc[c] \in Executing
      /\ UNCHANGED <<call, adm, out, req, rejected, bound, turn, service, faults, restarts, asked, turns>>
      /\ made' = made \cup {t} /\ pc' = [pc EXCEPT ![c] = "bind"]
      /\ work[c].thread # None => t = work[c].thread
  BY DEF OpenThread, Executing, store, life, history, Goto
<1>2. Own(c) /\ adm[c].launched /\ adm[c].held /\ adm[c].task = c /\ TypeOK /\ ThreadOK(c) /\ StageOK(c)
      /\ (adm[c].finalizing <=> pc[c] \in After \cup Over)
  BY <1>1, ExecutingFacts
<1>3. /\ Only(c) /\ pc'[c] = "bind" /\ work'[c].thread = t /\ work'[c].unattached = (work[c].thread = None)
      /\ work'[c] \in Works
  BY <1>1, <1>2 DEF OpenThread, TypeOK, Only, Works
<1>4. Typed(c)
  BY <1>1, <1>3, CallFacts DEF Typed, Points, Executing
<1>5. SameRequest(c) /\ (Fresh(c)' <=> Fresh(c))
  BY <1>1, Same
<1>6. ThreadOK(c)' /\ StageOK(c)' /\ OverOK(c)'
  BY <1>1, <1>2, <1>3, <1>5, CallAssumption DEF ThreadOK, StageOK, OverOK, Before, Over
<1>7. SessionMoves(c) /\ TurnMoves(c)
  BY <1>1 DEF SessionMoves, TurnMoves
<1>8. made' \subseteq Threads /\ faults' >= faults /\ pc'[c] \in Executing
      /\ (adm'[c].finalizing <=> pc'[c] \in After \cup Over)
  BY <1>1, <1>2, <1>3, Unmoved DEF Executing, After, Over
<1> QED
  BY <1>1, <1>2, <1>3, <1>4, <1>5, <1>6, <1>7, <1>8, Unmoved, OwnEffect

LEMMA BindEffect ==
    ASSUME EInv, NEW c \in Calls, Bind(c)
    PROVE  Effect(c)
<1>1. /\ pc[c] = "bind" /\ pc[c] \in Executing
      /\ UNCHANGED <<call, adm, work, out, req, rejected, made, turn, service, faults, restarts, asked, turns>>
      /\ pc' = [pc EXCEPT ![c] = "attach"]
  BY DEF Bind, Executing, store, life, history, Goto
<1>2. Own(c) /\ adm[c].launched /\ adm[c].held /\ adm[c].task = c /\ TypeOK /\ ThreadOK(c) /\ StageOK(c)
      /\ (adm[c].finalizing <=> pc[c] \in After \cup Over)
  BY <1>1, ExecutingFacts
<1>3. Only(c) /\ pc'[c] = "attach"
  BY <1>1, <1>2 DEF TypeOK, Only
<1>4. Typed(c)
  BY <1>1, <1>3, CallFacts DEF Typed, Points, Executing
<1>5. SameRequest(c) /\ (Fresh(c)' <=> Fresh(c))
  BY <1>1, Same
<1>6. ThreadOK(c)' /\ StageOK(c)' /\ OverOK(c)'
  BY <1>1, <1>2, <1>3, <1>5 DEF ThreadOK, StageOK, OverOK, Before, Over
<1>7. SessionMoves(c) /\ TurnMoves(c)
  BY <1>1 DEF SessionMoves, TurnMoves
<1>8. bound' \in [Targets -> Threads \cup {None}]
  <2>1. work[c].thread \in Threads \cup {None} /\ bound \in [Targets -> Threads \cup {None}]
    BY CallFacts, Unmoved DEF Works
  <2> QED
    BY <2>1 DEF Bind
<1>9. faults' >= faults /\ pc'[c] \in Executing /\ (adm'[c].finalizing <=> pc'[c] \in After \cup Over)
  BY <1>1, <1>2, <1>3, Unmoved DEF Executing, After, Over
<1> QED
  BY <1>1, <1>2, <1>3, <1>4, <1>5, <1>6, <1>7, <1>8, <1>9, Unmoved, OwnEffect

\* The thread the request gets is one no other active request has.
LEMMA AttachThreadEffect ==
    ASSUME EInv, NEW c \in Calls, AttachThread(c)
    PROVE  Effect(c)
<1> DEFINE r == [req[c] EXCEPT !.thread = work[c].thread]
<1>1. /\ pc[c] = "attach" /\ pc[c] \in Executing
      /\ UNCHANGED <<call, adm, work, out, rejected, bound, made, turn, service, faults, restarts, asked, turns>>
      /\ pc' = [pc EXCEPT ![c] = "turn"]
  BY DEF AttachThread, Executing, codex, life, history, Goto
<1>2. Own(c) /\ adm[c].launched /\ adm[c].held /\ adm[c].task = c /\ TypeOK /\ ThreadOK(c) /\ StageOK(c)
      /\ (adm[c].finalizing <=> pc[c] \in After \cup Over)
  BY <1>1, ExecutingFacts
<1>3. /\ work[c].thread # None /\ (work[c].unattached \/ work[c].thread = req[c].thread)
      /\ Fresh(c) /\ turn[c] = "none" /\ out[c] = "none" /\ ~ adm[c].finalizing
  BY <1>1, <1>2 DEF ThreadOK, StageOK, Before, After, Over
<1>4. req[c] \in Requests /\ work[c] \in Works
  BY CallFacts
<1>5. /\ r \in Requests /\ r.thread = work[c].thread /\ r.target = req[c].target /\ r.retryOf = req[c].retryOf
      /\ r.state = req[c].state /\ r.completed = req[c].completed /\ r.unconfirmed = req[c].unconfirmed
  BY <1>4 DEF Requests, Works
<1>6. \/ req' = [req EXCEPT ![c] = r] /\ SessionFree(r, Calls \ {c})
      \/ req' = req /\ work[c].thread = req[c].thread
  BY <1>2, <1>3 DEF AttachThread, Task
<1> HIDE DEF r
<1>7. \/ req'[c] = r /\ SessionFree(r, Calls \ {c})
      \/ req' = req /\ work[c].thread = req[c].thread
  BY <1>2, <1>6 DEF TypeOK
<1>8. /\ Only(c) /\ pc'[c] = "turn" /\ req' = [req EXCEPT ![c] = req'[c]]
  BY <1>1, <1>2, <1>6 DEF TypeOK, Only
<1>9. SameRequest(c) /\ Fresh(c)' /\ req'[c].thread = work[c].thread
  BY <1>3, <1>5, <1>7, <1>8 DEF SameRequest, Fresh, Exists
<1>10. Typed(c)
  BY <1>1, <1>4, <1>5, <1>7, <1>8, CallFacts DEF Typed, Points, Executing
<1>11. ThreadOK(c)' /\ StageOK(c)' /\ OverOK(c)'
  BY <1>1, <1>3, <1>8, <1>9 DEF ThreadOK, StageOK, OverOK, Before, Over
<1>12. SessionMoves(c) /\ TurnMoves(c)
  BY <1>1, <1>7 DEF SessionMoves, SessionFree, TurnMoves
<1>13. faults' >= faults /\ pc'[c] \in Executing /\ (adm'[c].finalizing <=> pc'[c] \in After \cup Over)
       /\ req[c].state \in Active
  BY <1>1, <1>3, <1>8, Unmoved DEF Executing, After, Over, Fresh, Active
<1> QED
  BY <1>1, <1>2, <1>8, <1>9, <1>10, <1>11, <1>12, <1>13, Unmoved, OwnEffect

\* A step between turn/start and finalize: the turn and what is known of it.
LEMMA TurnEffect ==
    ASSUME EInv, NEW c \in Calls, NEW l \in {"collect", "finalize"}, NEW o \in Outs, NEW u \in TurnStates,
           pc[c] \in {"turn", "collect"},
           pc' = [pc EXCEPT ![c] = l], out' = [out EXCEPT ![c] = o], turn' = [turn EXCEPT ![c] = u],
           UNCHANGED <<call, adm, work, req, rejected, bound, made, service, faults, restarts, asked>>,
           Own(c) => TurnMoves(c), Own(c) => turns' \in [Sources -> Nat],
           l = "collect" => o = "none" /\ pc[c] = "turn",
           l = "finalize" => /\ o # "none" /\ (o = "interrupted" => u = "interrupted")
                             /\ (o = "canceled" => u = "none")
    PROVE  Effect(c)
<1>1. pc[c] \in Executing
  BY DEF Executing
<1>2. Own(c) /\ adm[c].launched /\ adm[c].held /\ adm[c].task = c /\ TypeOK /\ ThreadOK(c) /\ StageOK(c)
      /\ (adm[c].finalizing <=> pc[c] \in After \cup Over)
  BY <1>1, ExecutingFacts
<1>3. Fresh(c) /\ ~ adm[c].finalizing
  BY <1>2 DEF StageOK, Before, After, Over
<1>4. Only(c) /\ pc'[c] = l /\ out'[c] = o /\ turn'[c] = u
  BY <1>2 DEF TypeOK, Only
<1>5. Typed(c)
  BY <1>4, CallFacts DEF Typed, Points, Executing
<1>6. SameRequest(c) /\ Fresh(c)'
  BY <1>3, Same
<1>7. ThreadOK(c)' /\ StageOK(c)' /\ OverOK(c)'
  BY <1>2, <1>4, <1>6 DEF ThreadOK, StageOK, OverOK, Before, Over
<1>8. faults' >= faults /\ pc'[c] \in Executing /\ (adm'[c].finalizing <=> pc'[c] \in After \cup Over)
      /\ SessionMoves(c)
  BY <1>3, <1>4, Unmoved DEF Executing, After, Over, SessionMoves
<1> QED
  BY <1>1, <1>2, <1>4, <1>5, <1>6, <1>7, <1>8, Unmoved, OwnEffect

LEMMA StartTurnEffect ==
    ASSUME EInv, NEW c \in Calls, StartTurn(c)
    PROVE  Effect(c)
<1>1. /\ pc[c] = "turn" /\ turn' = [turn EXCEPT ![c] = "active"]
      /\ turns' = [turns EXCEPT ![Source[adm[c].task]] = @ + 1]
      /\ UNCHANGED <<call, adm, work, req, rejected, bound, made, service, faults, restarts, asked>>
  BY DEF StartTurn, store, life, Task
<1>2. pc[c] \in Executing
  BY <1>1 DEF Executing
<1>3. Own(c) /\ StageOK(c) /\ Exists(c) /\ TypeOK /\ adm[c].task = c
  BY <1>1, <1>2, ExecutingFacts
<1>4. turn[c] = "none" /\ out[c] = "none"
  BY <1>1, <1>3 DEF StageOK, Before
<1>5. turn'[c] = "active"
  BY <1>1, <1>3 DEF TypeOK
<1>6. TurnMoves(c)
  BY <1>1, <1>3, <1>4, <1>5 DEF TurnMoves
<1>7. turns' \in [Sources -> Nat]
  <2>1. Source[c] \in Sources /\ turns \in [Sources -> Nat]
    BY SourceTyped, Unmoved
  <2> QED
    BY <1>1, <1>3, <2>1
<1>8. CASE Goto(c, "collect") /\ out' = out
  <2>1. pc' = [pc EXCEPT ![c] = "collect"] /\ out' = [out EXCEPT ![c] = "none"]
    BY <1>3, <1>4, <1>8 DEF Goto, TypeOK
  <2> QED
    BY <1>1, <1>6, <1>7, <2>1, TurnEffect DEF Outs, TurnStates
<1>9. CASE Goto(c, "finalize") /\ out' = [out EXCEPT ![c] = "other"]
  BY <1>1, <1>6, <1>7, <1>9, TurnEffect DEF Outs, TurnStates, Goto
<1> QED
  BY <1>8, <1>9 DEF StartTurn

LEMMA TurnRefusedEffect ==
    ASSUME EInv, NEW c \in Calls, TurnRefused(c)
    PROVE  Effect(c)
<1>1. /\ pc[c] = "turn" /\ pc[c] \in Executing /\ pc' = [pc EXCEPT ![c] = "finalize"]
      /\ UNCHANGED <<call, adm, work, req, rejected, bound, made, turn, service, faults, restarts, asked, turns>>
  BY DEF TurnRefused, store, codex, life, history, Executing, Goto
<1>2. PICK o \in {"other", "canceled"} : out' = [out EXCEPT ![c] = o]
  BY DEF TurnRefused
<1>3. StageOK(c) /\ TypeOK
  BY <1>1, ExecutingFacts
<1>4. turn[c] = "none" /\ turn' = [turn EXCEPT ![c] = "none"]
  <2>1. turn[c] = "none"
    BY <1>1, <1>3 DEF StageOK, Before
  <2> QED
    BY <1>1, <1>3, <2>1 DEF TypeOK
<1>5. TurnMoves(c) /\ turns' \in [Sources -> Nat]
  BY <1>1, <1>3, Unmoved DEF TurnMoves
<1> QED
  BY <1>1, <1>2, <1>4, <1>5, TurnEffect DEF Outs, TurnStates

LEMMA TurnEventEffect ==
    ASSUME EInv, NEW c \in Calls, TurnEvent(c)
    PROVE  Effect(c)
<1>1. /\ pc[c] = "collect" /\ pc' = [pc EXCEPT ![c] = "finalize"]
      /\ UNCHANGED <<call, adm, work, req, rejected, bound, made, turn, service, faults, restarts, asked, turns>>
  BY DEF TurnEvent, store, codex, life, history, Goto
<1>2. PICK o \in Outcomes(turn[c]) : out' = [out EXCEPT ![c] = o]
  BY DEF TurnEvent
<1>3. o \in Outs /\ o # "none" /\ o # "canceled" /\ (o = "interrupted" => turn[c] = "interrupted")
  BY <1>2 DEF Outcomes, Outs
<1>4. turn[c] \in TurnStates /\ turn' = [turn EXCEPT ![c] = turn[c]]
  BY <1>1, CallFacts DEF TypeOK
<1>5. TurnMoves(c) /\ turns' \in [Sources -> Nat]
  BY <1>1, Unmoved DEF TurnMoves
<1> QED
  BY <1>1, <1>2, <1>3, <1>4, <1>5, TurnEffect

\* An interruption that is not confirmed leaves the turn as it is.
LEMMA InterruptEffect ==
    ASSUME EInv, NEW c \in Calls, Interrupt(c)
    PROVE  Effect(c)
<1>1. /\ pc[c] = "collect" /\ pc' = [pc EXCEPT ![c] = "finalize"]
      /\ UNCHANGED <<call, adm, work, req, rejected, bound, made, service, faults, restarts, asked, turns>>
  BY DEF Interrupt, store, life, history, Goto
<1>2. turn[c] \in TurnStates /\ turn \in [Calls -> TurnStates]
  BY CallFacts DEF TypeOK, TurnStates
<1>3. CASE turn' = turn /\ out' = [out EXCEPT ![c] = "unconfirmed"]
  <2>1. turn' = [turn EXCEPT ![c] = turn[c]]
    BY <1>2, <1>3
  <2>2. TurnMoves(c) /\ turns' \in [Sources -> Nat]
    BY <1>1, <1>3, Unmoved DEF TurnMoves
  <2> QED
    BY <1>1, <1>2, <1>3, <2>1, <2>2, TurnEffect DEF Outs
<1>4. CASE /\ turn' = [turn EXCEPT ![c] = IF @ = "active" THEN "interrupted" ELSE @]
           /\ \E o \in IF turn'[c] = "completed" THEN {"reply", "oversized"} ELSE Outcomes(turn'[c]) :
                 out' = [out EXCEPT ![c] = o]
  <2>1. PICK u \in TurnStates : /\ turn' = [turn EXCEPT ![c] = u]
                                /\ turn[c] # "none" => u # "none"
    BY <1>2, <1>4 DEF TurnStates
  <2>2. turn'[c] = u
    BY <1>2, <2>1
  <2>3. PICK o \in Outs : /\ out' = [out EXCEPT ![c] = o] /\ o # "none" /\ o # "canceled"
                          /\ o = "interrupted" => u = "interrupted"
    BY <1>4, <2>2 DEF Outcomes, Outs
  <2>4. TurnMoves(c) /\ turns' \in [Sources -> Nat]
    BY <1>1, <2>1, <2>2, Unmoved DEF TurnMoves
  <2> QED
    BY <1>1, <2>1, <2>3, <2>4, TurnEffect
<1> QED
  BY <1>3, <1>4 DEF Interrupt

\* Where finalize() leads: what an executor that is cancelled records.
LEMMA FinalizeEffect ==
    ASSUME EInv, NEW c \in Calls, Finalize(c)
    PROVE  Effect(c)
<1> DEFINE a == [adm[c] EXCEPT !.finalizing = TRUE]
           l == IF pc[c] = "finalize" THEN AfterTurn(c)
                ELSE IF adm[c].cancelRequested THEN "cancel"
                ELSE IF Cancelled(c) THEN "exit" ELSE "fail"
<1>1. /\ pc[c] \in {"finalize", "abort"} /\ pc[c] \in Executing
      /\ adm' = [adm EXCEPT ![c].finalizing = TRUE] /\ pc' = [pc EXCEPT ![c] = l]
      /\ UNCHANGED <<call, work, out, req, rejected, bound, made, turn, life, history>>
  BY DEF Finalize, store, codex, Executing, Goto
<1>2. adm[c].launched /\ adm[c].held /\ adm[c] \in Admissions /\ TypeOK /\ (Own(c) \/ Foreign(c))
      /\ (Own(c) => StageOK(c) /\ adm[c].task = c)
  BY <1>1, ExecutingFacts
<1>3. /\ a \in Admissions /\ a.launched /\ a.held /\ a.finalizing /\ a.task = adm[c].task
      /\ a.cancelRequested = adm[c].cancelRequested
  BY <1>2 DEF Admissions
<1>4. l \in {"complete", "unconfirmed", "cancel", "exit", "fail"} /\ (pc[c] = "abort" => l \in {"cancel", "exit", "fail"})
  BY <1>1 DEF AfterTurn
<1>5. ASSUME Own(c)
      PROVE  /\ Fresh(c)
             /\ l = "complete" => out[c] \in {"reply", "oversized"}
             /\ l = "unconfirmed" => out[c] = "unconfirmed"
             /\ l = "cancel" => /\ turn[c] \in {"none", "interrupted"} /\ adm[c].cancelRequested
                                /\ out[c] \notin {"reply", "oversized"}
             /\ l \in {"fail", "exit"} => out[c] \notin {"reply", "oversized"}
             /\ l = "fail" => ~ adm[c].cancelRequested
             /\ l = "exit" => service = "stopping" \/ (adm[c].cancelRequested /\ out[c] = "other")
  <2>1. out[c] \in Outs
    BY CallFacts
  <2>2. CASE pc[c] = "finalize"
    <3>1. /\ Fresh(c) /\ out[c] # "none" /\ (out[c] = "interrupted" => turn[c] = "interrupted")
          /\ (out[c] = "canceled" => turn[c] = "none")
      BY <1>2, <1>5, <2>2 DEF StageOK
    <3>2. l = AfterTurn(c)
      BY <2>2
    <3> HIDE DEF l
    <3> QED
      BY <2>1, <3>1, <3>2 DEF AfterTurn, Cancelled, Outs
  <2>3. CASE pc[c] = "abort"
    <3>1. Fresh(c) /\ out[c] = "none" /\ turn[c] = "none"
      BY <1>2, <1>5, <2>3 DEF StageOK, Before
    <3>2. l = IF adm[c].cancelRequested THEN "cancel" ELSE IF Cancelled(c) THEN "exit" ELSE "fail"
      BY <2>3
    <3> HIDE DEF l
    <3> QED
      BY <3>1, <3>2 DEF Cancelled
  <2> QED
    BY <1>1, <2>2, <2>3
<1> HIDE DEF a, l
<1>6. Only(c) /\ pc'[c] = l /\ adm'[c] = a
  BY <1>1, <1>2 DEF TypeOK, Only, a
<1>7. Typed(c) /\ l \in Executing
  BY <1>1, <1>3, <1>4, <1>6, CallFacts DEF Typed, Points, Executing
<1>8. CASE Own(c)
  <2>1. SameRequest(c) /\ Fresh(c)' /\ Exists(c)'
    BY <1>1, <1>5, <1>8, Same DEF Fresh, Exists
  <2>2. ThreadOK(c)'
    BY <1>4, <1>6 DEF ThreadOK
  <2>3. StageOK(c)'
    BY <1>1, <1>3, <1>4, <1>5, <1>6, <1>8, <2>1 DEF StageOK, Before, Fresh
  <2>4. OverOK(c)'
    BY <1>1, <1>3, <1>4, <1>5, <1>6, <1>8, <2>1 DEF OverOK, Over, Fresh, life
  <2>5. CallOK(c)'
    BY <1>1, <1>2, <1>3, <1>4, <1>6, <1>7, <1>8, <2>1, <2>2, <2>3, <2>4, OwnKept DEF After, Over
  <2> QED
    BY <1>1, <1>2, <1>6, <1>7, <2>5, LocalEffect, Unmoved DEF AdmissionMoves
<1>9. CASE Foreign(c)
  <2>1. l \in ForeignPoints
    BY <1>1, <1>4, <1>9, ExecutingFacts DEF ForeignPoints
  <2>2. CallOK(c)'
    BY <1>1, <1>3, <1>6, <1>9, <2>1, ForeignKept
  <2> QED
    BY <1>1, <1>2, <1>6, <1>7, <2>2, LocalEffect, Unmoved DEF AdmissionMoves
<1> QED
  BY <1>2, <1>8, <1>9

\* A step that records request r in place of the executor's own.
LEMMA RecordEffect ==
    ASSUME EInv, NEW c \in Calls, NEW l \in After \cup {"exit"}, NEW r \in Requests,
           pc[c] \in After, Own(c), req[c].state \in Active,
           pc' = [pc EXCEPT ![c] = l], req' = [req EXCEPT ![c] = r],
           r.state # "absent", r.target = req[c].target, r.retryOf = req[c].retryOf, r.thread = req[c].thread,
           UNCHANGED <<call, adm, work, out, rejected, bound, made, turn, service, restarts, asked, turns>>,
           faults' \in Nat, faults' >= faults,
           pc'[c] = l /\ req'[c] = r => StageOK(c)' /\ OverOK(c)'
    PROVE  Effect(c)
<1>1. pc[c] \in Executing /\ l \in Executing /\ l \in After \cup Over
  BY DEF Executing, After, Over
<1>2. /\ adm[c].launched /\ adm[c].held /\ adm[c].task = c /\ TypeOK /\ Exists(c)
      /\ (adm[c].finalizing <=> pc[c] \in After \cup Over)
  BY <1>1, ExecutingFacts
<1>3. Only(c) /\ pc'[c] = l /\ req'[c] = r
  BY <1>2 DEF TypeOK, Only
<1>4. Typed(c)
  BY <1>1, <1>3, CallFacts DEF Typed, Points
<1>5. SameRequest(c)
  BY <1>2, <1>3 DEF SameRequest, Exists
<1>6. ThreadOK(c)'
  BY <1>3 DEF ThreadOK, After
<1>7. SessionMoves(c) /\ TurnMoves(c)
  BY <1>3 DEF SessionMoves, SessionKey, TurnMoves
<1>8. pc'[c] \in Executing /\ (adm'[c].finalizing <=> pc'[c] \in After \cup Over)
  BY <1>1, <1>2, <1>3
<1> QED
  BY <1>1, <1>2, <1>3, <1>4, <1>5, <1>6, <1>7, <1>8, Unmoved, OwnEffect

\* What Finish makes of an active request.
LEMMA EndedFacts ==
    ASSUME NEW r \in Requests, NEW next \in Terminal, NEW u \in BOOLEAN,
           r.state \in Active, r.completed => next # "cancelled"
    PROVE  /\ Ended(r, next, u) \in Requests /\ Ended(r, next, u).target = r.target
           /\ Ended(r, next, u).retryOf = r.retryOf /\ Ended(r, next, u).thread = r.thread
           /\ r.completed => Ended(r, next, u).state = "succeeded"
           /\ ~ r.completed => Ended(r, next, u).state = next /\ Ended(r, next, u).unconfirmed = u
BY DEF Ended, Requests, Terminal

\* The executor of a request that is over finds nothing to end.
LEMMA ForeignEffect ==
    ASSUME EInv, NEW c \in Calls, pc[c] \in Executing, Foreign(c), pc' = [pc EXCEPT ![c] = "exit"],
           UNCHANGED <<call, adm, work, out, req, rejected, bound, made, turn, service, restarts, asked, turns>>,
           faults' \in Nat, faults' >= faults
    PROVE  Effect(c)
<1>1. adm[c].launched /\ adm[c].held /\ TypeOK
  BY ExecutingFacts
<1>2. Only(c) /\ pc'[c] = "exit"
  BY <1>1 DEF TypeOK, Only
<1>3. Typed(c)
  BY <1>2, CallFacts DEF Typed, Points, Executing
<1>4. CallOK(c)'
  BY <1>1, <1>2, ForeignKept DEF ForeignPoints
<1>5. TypeOK' /\ Others(c)
  BY <1>2, <1>3, OneCall, Unmoved
<1>6. RequestMoves(c) /\ SessionMoves(c) /\ AdmissionMoves(c) /\ TurnMoves(c) /\ LifeMoves
  BY Unmoved DEF RequestMoves, SessionMoves, AdmissionMoves, TurnMoves, LifeMoves, Exists
<1> QED
  BY <1>4, <1>5, <1>6 DEF Effect

LEMMA SaveFailsFacts ==
    ASSUME EInv, SaveFails
    PROVE  faults' \in Nat /\ faults' >= faults /\ faults' > 0
BY Unmoved DEF SaveFails

LEMMA FinishEffect ==
    ASSUME EInv, NEW c \in Calls, Finish(c)
    PROVE  Effect(c)
<1> DEFINE next == IF pc[c] = "cancel" THEN "cancelled" ELSE "failed"
           r == Ended(req[c], next, pc[c] = "unconfirmed")
<1>1. /\ pc[c] \in {"fail", "unconfirmed", "cancel"} /\ pc[c] \in Executing /\ pc[c] \in After
      /\ pc' = [pc EXCEPT ![c] = "exit"]
      /\ UNCHANGED <<call, adm, work, out, rejected, bound, made, turn, service, restarts, asked, turns>>
  BY DEF Finish, Executing, After, codex, history, Goto
<1>2. \/ faults' = faults /\ req' = [req EXCEPT ![adm[c].task] = Ended(@, next, pc[c] = "unconfirmed")]
      \/ SaveFails /\ req' = req
  BY DEF Finish, Task
<1>3. TypeOK /\ req[c] \in Requests /\ (Own(c) \/ Foreign(c)) /\ ForeignOK(c)
      /\ (Own(c) => adm[c].task = c /\ StageOK(c))
  BY <1>1, ExecutingFacts
<1>4. faults' \in Nat /\ faults' >= faults /\ (faults' = faults \/ faults' > 0)
  BY <1>2, SaveFailsFacts, Unmoved
<1>5. CASE Foreign(c)
  <2>1. PICK i \in Calls : i = adm[c].task /\ req[i].state \in Terminal
    BY <1>3, <1>5, CallFacts DEF ForeignOK, Admissions
  <2>2. Ended(req[i], next, pc[c] = "unconfirmed") = req[i]
    BY <2>1 DEF Ended, Active, Terminal
  <2>3. req' = req
    BY <1>2, <1>3, <2>1, <2>2 DEF TypeOK
  <2> QED
    BY <1>1, <1>4, <1>5, <2>3, ForeignEffect
<1>6. CASE Own(c)
  <2>1. /\ req[c].state = "running" /\ req[c].state \in Active
        /\ pc[c] = "cancel" => /\ Fresh(c) /\ turn[c] \in {"none", "interrupted"} /\ out[c] \notin {"reply", "oversized"}
        /\ pc[c] = "unconfirmed" => Fresh(c) /\ out[c] = "unconfirmed"
        /\ pc[c] = "fail" => /\ ~ req[c].unconfirmed /\ (req[c].completed <=> out[c] = "reply")
                             /\ adm[c].cancelRequested => out[c] \in {"reply", "oversized"}
    BY <1>1, <1>3, <1>6 DEF StageOK, Fresh, Active
  <2>2. next \in Terminal /\ (req[c].completed => next # "cancelled") /\ (pc[c] = "unconfirmed") \in BOOLEAN
    BY <2>1 DEF Terminal, Fresh
  <2>3. /\ r \in Requests /\ r.target = req[c].target /\ r.retryOf = req[c].retryOf /\ r.thread = req[c].thread
        /\ req[c].completed => r.state = "succeeded"
        /\ ~ req[c].completed => r.state = next /\ r.unconfirmed = (pc[c] = "unconfirmed")
    BY <1>3, <2>1, <2>2, EndedFacts
  <2>4. r.state \in Terminal /\ r.state # "absent"
    BY <2>2, <2>3 DEF Terminal, Requests
  <2> HIDE DEF r
  <2>5. CASE faults' = faults /\ req' = [req EXCEPT ![c] = r]
    <3>1. ASSUME pc'[c] = "exit", req'[c] = r PROVE StageOK(c)' /\ OverOK(c)'
      <4>1. StageOK(c)'
        BY <3>1 DEF StageOK, Before
      <4>2. pc[c] = "cancel" \/ pc[c] = "unconfirmed" \/ pc[c] = "fail"
        BY <1>1
      <4>3. OverOK(c)'
        BY <1>1, <2>1, <2>3, <2>4, <3>1, <4>2 DEF OverOK, Exists, Fresh, Active, Terminal
      <4> QED
        BY <4>1, <4>3
    <3> QED
      BY <1>1, <1>4, <1>6, <2>1, <2>3, <2>4, <2>5, <3>1, RecordEffect
  <2>6. CASE SaveFails /\ req' = req
    <3>1. req' = [req EXCEPT ![c] = req[c]]
      BY <1>3, <2>6 DEF TypeOK
    <3>2. ASSUME pc'[c] = "exit", req'[c] = req[c] PROVE StageOK(c)' /\ OverOK(c)'
      <4>1. faults' > 0
        BY <2>6, SaveFailsFacts
      <4>2. StageOK(c)'
        BY <3>2 DEF StageOK, Before
      <4>3. OverOK(c)'
        BY <1>1, <2>1, <3>2, <4>1 DEF OverOK, Exists, Over
      <4> QED
        BY <4>2, <4>3
    <3> QED
      BY <1>1, <1>3, <1>4, <1>6, <2>1, <3>1, <3>2, RecordEffect
  <2> QED
    BY <1>2, <1>3, <1>6, <2>5, <2>6 DEF r
<1> QED
  BY <1>3, <1>5, <1>6

LEMMA CompleteEffect ==
    ASSUME EInv, NEW c \in Calls, Complete(c)
    PROVE  Effect(c)
<1>1. /\ pc[c] = "complete" /\ pc[c] \in Executing /\ pc[c] \in After
      /\ UNCHANGED <<call, adm, work, out, rejected, bound, made, turn, service, restarts, asked, turns>>
  BY DEF Complete, Executing, After, codex, history
<1>2. Own(c) /\ adm[c].task = c /\ TypeOK /\ req[c] \in Requests /\ StageOK(c)
  BY <1>1, ExecutingFacts
<1>3. Fresh(c) /\ out[c] \in {"reply", "oversized"} /\ req[c].state \in Active
  BY <1>1, <1>2 DEF StageOK, Fresh, Active
<1>4. ASSUME NEW r \in Requests, NEW l \in {"freeze", "fail"}, pc' = [pc EXCEPT ![c] = l], req' = [req EXCEPT ![c] = r],
             r.state = "running", ~ r.unconfirmed, r.completed <=> out[c] = "reply",
             r.target = req[c].target, r.retryOf = req[c].retryOf, r.thread = req[c].thread,
             l = "freeze" => out[c] = "reply", faults' \in Nat, faults' >= faults
      PROVE  Effect(c)
  <2>1. l \in After /\ r.state # "absent"
    BY <1>4 DEF After
  <2>2. ASSUME pc'[c] = l, req'[c] = r PROVE StageOK(c)' /\ OverOK(c)'
    BY <1>1, <1>3, <1>4, <2>2 DEF StageOK, OverOK, Before, Over
  <2> QED
    BY <1>1, <1>2, <1>3, <1>4, <2>1, <2>2, RecordEffect
<1>5. CASE out[c] = "oversized" /\ pc' = [pc EXCEPT ![c] = "fail"] /\ req' = req /\ faults' = faults
  <2>1. req' = [req EXCEPT ![c] = req[c]]
    BY <1>2, <1>5 DEF TypeOK
  <2>2. faults' \in Nat /\ faults' >= faults
    BY <1>5, Unmoved
  <2> QED
    BY <1>2, <1>3, <1>4, <1>5, <2>1, <2>2 DEF Fresh
<1>6. CASE /\ out[c] # "oversized" /\ req' = [req EXCEPT ![c].completed = TRUE, ![c].saved = TRUE]
           /\ pc' = [pc EXCEPT ![c] = "freeze"] /\ faults' = faults
  <2> DEFINE r == [req[c] EXCEPT !.completed = TRUE, !.saved = TRUE]
  <2>1. /\ r \in Requests /\ r.state = "running" /\ ~ r.unconfirmed /\ r.completed
        /\ r.target = req[c].target /\ r.retryOf = req[c].retryOf /\ r.thread = req[c].thread
    BY <1>2, <1>3 DEF Requests, Fresh
  <2>2. req' = [req EXCEPT ![c] = r]
    BY <1>2, <1>6 DEF TypeOK
  <2> HIDE DEF r
  <2>3. faults' \in Nat /\ faults' >= faults
    BY <1>6, Unmoved
  <2> QED
    BY <1>3, <1>4, <1>6, <2>1, <2>2, <2>3
<1>7. CASE /\ out[c] # "oversized" /\ req' = [req EXCEPT ![c].completed = TRUE]
           /\ pc' = [pc EXCEPT ![c] = "fail"] /\ SaveFails
  <2> DEFINE r == [req[c] EXCEPT !.completed = TRUE]
  <2>1. /\ r \in Requests /\ r.state = "running" /\ ~ r.unconfirmed /\ r.completed
        /\ r.target = req[c].target /\ r.retryOf = req[c].retryOf /\ r.thread = req[c].thread
    BY <1>2, <1>3 DEF Requests, Fresh
  <2>2. req' = [req EXCEPT ![c] = r]
    BY <1>2, <1>7 DEF TypeOK
  <2>3. faults' \in Nat /\ faults' >= faults
    BY <1>7, SaveFailsFacts
  <2> HIDE DEF r
  <2> QED
    BY <1>3, <1>4, <1>7, <2>1, <2>2, <2>3
<1> QED
  BY <1>2, <1>3, <1>5, <1>6, <1>7 DEF Complete, Task, Goto, Fresh

\* A request with its reply in: nothing but success, or the record as it is.
LEMMA KeepsReply ==
    ASSUME EInv, NEW c \in Calls, NEW l \in {"send", "fail", "exit"}, NEW r \in Requests, pc[c] \in {"deliver", "send"},
           pc' = [pc EXCEPT ![c] = l], req' = [req EXCEPT ![c] = r],
           r.target = req[c].target, r.retryOf = req[c].retryOf, r.thread = req[c].thread, r.completed,
           l = "send" => r.state = "delivering",
           l = "fail" => r.state = "running" /\ ~ r.unconfirmed,
           l = "exit" => r.state = "succeeded" \/ (r.state = "delivering" /\ faults' > 0),
           UNCHANGED <<call, adm, work, out, rejected, bound, made, turn, service, restarts, asked, turns>>,
           faults' \in Nat, faults' >= faults
    PROVE  Effect(c)
<1>1. pc[c] \in Executing /\ pc[c] \in After /\ l \in After \cup {"exit"} /\ r.state # "absent"
  BY DEF Executing, After
<1>2. Own(c) /\ StageOK(c)
  BY <1>1, ExecutingFacts
<1>3. out[c] = "reply" /\ req[c].state \in Active
  BY <1>1, <1>2 DEF StageOK, Active
<1>4. ASSUME pc'[c] = l, req'[c] = r PROVE StageOK(c)' /\ OverOK(c)'
  <2>1. StageOK(c)'
    BY <1>3, <1>4 DEF StageOK, Before
  <2>2. OverOK(c)'
    BY <1>1, <1>3, <1>4 DEF OverOK, Over, Exists, Active
  <2> QED
    BY <2>1, <2>2
<1> QED
  BY <1>1, <1>2, <1>3, <1>4, RecordEffect

LEMMA BeginDeliveryEffect ==
    ASSUME EInv, NEW c \in Calls, BeginDelivery(c)
    PROVE  Effect(c)
<1>1. /\ pc[c] = "deliver" /\ pc[c] \in Executing
      /\ UNCHANGED <<call, adm, work, out, rejected, bound, made, turn, service, restarts, asked, turns>>
  BY DEF BeginDelivery, Executing, codex, history
<1>2. adm[c].task = c /\ TypeOK /\ req[c] \in Requests /\ StageOK(c)
  BY <1>1, ExecutingFacts
<1>3. req[c].state = "running" /\ req[c].completed /\ ~ req[c].unconfirmed
  BY <1>1, <1>2 DEF StageOK
<1>4. CASE req' = [req EXCEPT ![c].state = "delivering"] /\ pc' = [pc EXCEPT ![c] = "send"] /\ faults' = faults
  <2> DEFINE r == [req[c] EXCEPT !.state = "delivering"]
  <2>1. /\ r \in Requests /\ r.state = "delivering" /\ r.completed
        /\ r.target = req[c].target /\ r.retryOf = req[c].retryOf /\ r.thread = req[c].thread
    BY <1>2, <1>3 DEF Requests, Active
  <2>2. req' = [req EXCEPT ![c] = r]
    BY <1>2, <1>4 DEF TypeOK
  <2> HIDE DEF r
  <2>3. faults' \in Nat /\ faults' >= faults
    BY <1>4, Unmoved
  <2> QED
    BY <1>1, <1>4, <2>1, <2>2, KeepsReply, <2>3
<1>5. CASE req' = req /\ pc' = [pc EXCEPT ![c] = "fail"] /\ SaveFails
  <2>1. req' = [req EXCEPT ![c] = req[c]]
    BY <1>2, <1>5 DEF TypeOK
  <2> QED
    BY <1>1, <1>2, <1>3, <1>5, <2>1, KeepsReply, SaveFailsFacts
<1> QED
  BY <1>2, <1>4, <1>5 DEF BeginDelivery, Task, Goto

LEMMA DeliverEffect ==
    ASSUME EInv, NEW c \in Calls, Deliver(c)
    PROVE  Effect(c)
<1>1. /\ pc[c] = "send" /\ pc[c] \in Executing /\ pc' = [pc EXCEPT ![c] = "exit"]
      /\ UNCHANGED <<call, adm, work, out, rejected, bound, made, turn, service, restarts, asked, turns>>
  BY DEF Deliver, Executing, codex, history, Goto
<1>2. adm[c].task = c /\ TypeOK /\ req[c] \in Requests /\ StageOK(c)
  BY <1>1, ExecutingFacts
<1>3. req[c].state = "delivering" /\ req[c].completed
  BY <1>1, <1>2 DEF StageOK
<1>4. CASE req' = [req EXCEPT ![c].state = "succeeded"] /\ faults' = faults
  <2> DEFINE r == [req[c] EXCEPT !.state = "succeeded"]
  <2>1. /\ r \in Requests /\ r.state = "succeeded" /\ r.completed
        /\ r.target = req[c].target /\ r.retryOf = req[c].retryOf /\ r.thread = req[c].thread
    BY <1>2, <1>3 DEF Requests, Terminal
  <2>2. req' = [req EXCEPT ![c] = r]
    BY <1>2, <1>4 DEF TypeOK
  <2> HIDE DEF r
  <2>3. faults' \in Nat /\ faults' >= faults
    BY <1>4, Unmoved
  <2> QED
    BY <1>1, <1>4, <2>1, <2>2, KeepsReply, <2>3
<1>5. CASE req' = [req EXCEPT ![c] = Ended(@, "interrupted", FALSE)] /\ SaveFails
  <2> DEFINE r == Ended(req[c], "interrupted", FALSE)
  <2>1. r = [req[c] EXCEPT !.state = "succeeded"]
    BY <1>3 DEF Ended, Active
  <2>3. req' = [req EXCEPT ![c] = r]
    BY <1>2, <1>5 DEF TypeOK
  <2> HIDE DEF r
  <2>2. /\ r \in Requests /\ r.state = "succeeded" /\ r.completed
        /\ r.target = req[c].target /\ r.retryOf = req[c].retryOf /\ r.thread = req[c].thread
    BY <1>2, <1>3, <2>1 DEF Requests, Terminal
  <2> QED
    BY <1>1, <1>5, <2>2, <2>3, KeepsReply, SaveFailsFacts
<1>6. CASE req' = req /\ faults' = faults + 2
  <2>1. req' = [req EXCEPT ![c] = req[c]]
    BY <1>2, <1>6 DEF TypeOK
  <2>2. faults' \in Nat /\ faults' >= faults /\ faults' > 0
    BY <1>6, Unmoved
  <2> QED
    BY <1>1, <1>2, <1>3, <2>1, <2>2, KeepsReply
<1> QED
  BY <1>2, <1>4, <1>5, <1>6 DEF Deliver, Task

LEMMA ExitEffect ==
    ASSUME EInv, NEW c \in Calls, Exit(c)
    PROVE  Effect(c)
<1>1. /\ pc[c] = "exit" /\ pc[c] \in Executing /\ Leave(c)
      /\ UNCHANGED <<call, work, out, req, rejected, turn, service, faults, codex, life, history>>
  BY DEF Exit, Executing, store, codex, life
<1>2. /\ adm[c] \in Admissions /\ adm[c].launched /\ RequestOK(c) /\ ForeignOK(c) /\ HandlerOK(c) /\ OwnOK(c)
  BY <1>1, ExecutingFacts
<1>3. pc'[c] = "done" /\ adm'[c] = [adm[c] EXCEPT !.held = FALSE] /\ (CallOK(c)' => Effect(c))
  BY <1>1, Leaves, Unmoved
<1>4. /\ ~ adm'[c].held /\ adm'[c].launched /\ adm'[c].task = adm[c].task /\ adm'[c].finalizing = adm[c].finalizing
      /\ adm'[c].cancelRequested = adm[c].cancelRequested
  BY <1>2, <1>3 DEF Admissions
<1>5. HandlerOK(c)' /\ CaptureOK(c)'
  BY <1>1, <1>2, <1>3, <1>4 DEF HandlerOK, CaptureOK, Executing, Handling, Exists
<1>6. RequestOK(c)' /\ ForeignOK(c)'
  BY <1>1, <1>2, <1>3, <1>4 DEF RequestOK, ForeignOK, Foreign, Own, Exists
<1>7. OwnOK(c)'
  <2>1. (Own(c)' <=> Own(c)) /\ (Own(c) => OverOK(c) /\ adm[c].finalizing)
    BY <1>1, <1>2, <1>4 DEF Own, OwnOK, Over
  <2>2. Own(c) => OverOK(c)'
    BY <1>1, <1>3, <1>4, <2>1 DEF OverOK, Over, Exists
  <2>3. ThreadOK(c)' /\ StageOK(c)'
    BY <1>3 DEF ThreadOK, StageOK, Before
  <2> QED
    BY <1>3, <1>4, <2>1, <2>2, <2>3 DEF OwnOK, Over
<1> QED
  BY <1>3, <1>5, <1>6, <1>7 DEF CallOK

-----------------------------------------------------------------------------
(* Cancelling, stopping, restarting; Codex and the user *)

\* The invariant does not depend on the bindings, nor on the service being up.
LEMMA QuietStep ==
    ASSUME EInv, UNCHANGED <<handler, store, made, turn, faults, restarts, asked, turns>>,
           service' \in {"up", "draining", "stopping"}, service = "stopping" => service' = "stopping",
           bound' \in [Targets -> Threads \cup {None}]
    PROVE  EInv'
<1>1. UNCHANGED <<pc, call, adm, work, out, req, rejected, made, turn, faults, restarts, asked, turns>>
  BY DEF handler, store
<1>2. TypeOK /\ Apart /\ Counted
  BY DEF EInv
<1>3. TypeOK'
  BY <1>1, <1>2 DEF TypeOK
<1>4. Apart' /\ Counted'
  BY <1>1, <1>2 DEF Apart, Counted, SessionKey, Exists
<1>5. ASSUME NEW c \in Calls PROVE CallOK(c)'
  <2>1. HandlerOK(c) /\ CaptureOK(c) /\ RequestOK(c) /\ ForeignOK(c) /\ OwnOK(c)
    BY CallFacts DEF CallOK
  <2>2. HandlerOK(c)' /\ CaptureOK(c)' /\ RequestOK(c)' /\ ForeignOK(c)'
    BY <1>1, <2>1 DEF HandlerOK, CaptureOK, RequestOK, ForeignOK, Exists, Own, Foreign
  <2>3. (Own(c)' <=> Own(c)) /\ (Fresh(c)' <=> Fresh(c)) /\ (ThreadOK(c) => ThreadOK(c)')
    BY <1>1 DEF Own, Fresh, ThreadOK
  <2>4. StageOK(c) => StageOK(c)'
    BY <1>1, <2>3 DEF StageOK
  <2>5. OverOK(c) => OverOK(c)'
    BY <1>1 DEF OverOK, Exists
  <2>6. OwnOK(c)'
    BY <1>1, <2>1, <2>3, <2>4, <2>5 DEF OwnOK
  <2> QED
    BY <2>2, <2>6 DEF CallOK
<1> QED
  BY <1>3, <1>4, <1>5 DEF EInv

LEMMA ServiceKeeps ==
    ASSUME EInv, SetDraining \/ Shutdown
    PROVE  EInv'
<1>1. UNCHANGED <<handler, store, made, turn, faults, restarts, asked, turns, bound>>
  BY DEF SetDraining, Shutdown, codex, history
<1>2. service' \in {"up", "draining", "stopping"} /\ (service = "stopping" => service' = "stopping")
  BY DEF SetDraining, Shutdown
<1> QED
  BY <1>1, <1>2, QuietStep, Unmoved

LEMMA SelectThreadKeeps ==
    ASSUME EInv, NEW g \in Targets, NEW t \in Threads, SelectThread(g, t)
    PROVE  EInv'
<1>1. UNCHANGED <<handler, store, made, turn, faults, restarts, asked, turns>> /\ service' = service
  BY DEF SelectThread, life, history
<1>2. bound' \in [Targets -> Threads \cup {None}]
  BY Unmoved DEF SelectThread
<1> QED
  BY <1>1, <1>2, QuietStep, Unmoved

\* A turn that ends was running: nobody has concluded anything from it yet.
LEMMA TurnEndsKeeps ==
    ASSUME EInv, NEW c \in Calls, NEW status \in {"completed", "failed", "interrupted"}, TurnEnds(c, status)
    PROVE  EInv'
<1>1. /\ turn[c] = "active" /\ turn' = [turn EXCEPT ![c] = status]
      /\ UNCHANGED <<pc, call, adm, work, out, req, rejected, bound, made, service, faults, restarts, asked, turns>>
  BY DEF TurnEnds, handler, store, life, history
<1>2. TypeOK /\ CallOK(c)
  BY CallFacts
<1>3. Only(c) /\ turn'[c] = status
  BY <1>1, <1>2 DEF TypeOK, Only
<1>4. Typed(c)
  BY <1>1, <1>3, CallFacts DEF Typed, TurnStates
<1>5. TypeOK' /\ Others(c)
  BY <1>1, <1>3, <1>4, OneCall, Unmoved
<1>6. RequestMoves(c) /\ SessionMoves(c) /\ AdmissionMoves(c) /\ TurnMoves(c) /\ LifeMoves
  BY <1>1, <1>3, Unmoved DEF RequestMoves, SessionMoves, AdmissionMoves, TurnMoves, LifeMoves, Exists
<1>7. HandlerOK(c)' /\ CaptureOK(c)' /\ RequestOK(c)' /\ ForeignOK(c)'
  BY <1>1, <1>2, <1>3 DEF CallOK, HandlerOK, CaptureOK, RequestOK, ForeignOK, Exists, Own, Foreign
<1>8. OwnOK(c)'
  <2>1. (Own(c)' <=> Own(c)) /\ (Fresh(c)' <=> Fresh(c)) /\ (ThreadOK(c) => ThreadOK(c)')
    BY <1>1 DEF Own, Fresh, ThreadOK
  <2>2. StageOK(c) => StageOK(c)'
    BY <1>1, <1>3, <2>1 DEF StageOK
  <2>3. OverOK(c) => OverOK(c)'
    BY <1>1, <1>3 DEF OverOK, Exists
  <2> QED
    BY <1>1, <1>2, <2>1, <2>2, <2>3 DEF CallOK, OwnOK
<1>9. CallOK(c)'
  BY <1>7, <1>8 DEF CallOK
<1> QED
  BY <1>5, <1>6, <1>9, InvariantFromEffect DEF Effect

\* What Cancel does to one admission: it may learn its request, if it has not
\* launched, and it may be marked, unless its result is being put away.
LEMMA CancelMoves ==
    ASSUME EInv, NEW i \in Calls, Cancel(i), NEW a \in Calls
    PROVE  /\ adm'[a] \in Admissions /\ adm' \in [Calls -> Admissions]
           /\ adm'[a].held = adm[a].held /\ adm'[a].launched = adm[a].launched
           /\ adm'[a].finalizing = adm[a].finalizing
           /\ adm'[a].task # adm[a].task => ~ adm[a].launched
           /\ adm'[a].cancelRequested # adm[a].cancelRequested =>
                 adm'[a].cancelRequested /\ ~ adm[a].finalizing
           /\ ~ adm[a].held => adm'[a] = adm[a]
<1>1. PICK V \in SUBSET Held :
         adm' = [b \in Calls |-> IF b \notin V THEN adm[b]
                                 ELSE [adm[b] EXCEPT !.task = Filled(b),
                                                     !.cancelRequested = @ \/ b \in {x \in V : Cancellable(x, i)}]]
  BY DEF Cancel
<1>2. ASSUME NEW b \in Calls
      PROVE  adm[b] \in Admissions /\ Filled(b) \in Calls \cup {None} /\ (adm[b].task # None => Filled(b) = adm[b].task)
  <2>1. adm[b] \in Admissions
    BY CallFacts
  <2>2. ActiveIn(call[b].target, call[b].thread) \subseteq Calls
    BY DEF ActiveIn
  <2> QED
    BY <2>1, <2>2 DEF Filled, Task, Admissions
<1>3. ASSUME NEW b \in Calls
      PROVE  (IF b \notin V THEN adm[b]
              ELSE [adm[b] EXCEPT !.task = Filled(b),
                                  !.cancelRequested = @ \/ b \in {x \in V : Cancellable(x, i)}]) \in Admissions
  BY <1>2 DEF Admissions
<1>4. adm' \in [Calls -> Admissions]
  BY <1>1, <1>3
<1>5. adm[a].launched => adm[a].task # None
  BY CallFacts, CallAssumption DEF CallOK, ForeignOK, Foreign
<1>6. CASE a \notin V
  BY <1>1, <1>4, <1>6
<1>7. CASE a \in V
  <2>1. adm[a].held
    BY <1>7 DEF Held
  <2>2. adm'[a] = [adm[a] EXCEPT !.task = Filled(a), !.cancelRequested = @ \/ a \in {x \in V : Cancellable(x, i)}]
    BY <1>1, <1>7
  <2>3. /\ adm'[a].held = adm[a].held /\ adm'[a].launched = adm[a].launched
        /\ adm'[a].finalizing = adm[a].finalizing /\ adm'[a].task = Filled(a)
        /\ adm'[a].cancelRequested = (adm[a].cancelRequested \/ a \in {x \in V : Cancellable(x, i)})
    BY <1>2, <2>2 DEF Admissions
  <2>4. a \in {x \in V : Cancellable(x, i)} => ~ adm[a].finalizing
    BY DEF Cancellable
  <2>5. adm'[a].task # adm[a].task => ~ adm[a].launched
    BY <1>2, <1>5, <2>3
  <2>6. adm'[a].cancelRequested # adm[a].cancelRequested => adm'[a].cancelRequested /\ ~ adm[a].finalizing
    BY <1>2, <2>3, <2>4 DEF Admissions
  <2> QED
    BY <1>4, <2>1, <2>3, <2>5, <2>6
<1> QED
  BY <1>6, <1>7

LEMMA CancelKeeps ==
    ASSUME EInv, NEW i \in Calls, Cancel(i)
    PROVE  EInv'
<1>1. UNCHANGED <<pc, call, work, out, req, rejected, bound, made, turn, service, faults, restarts, turns>>
  BY DEF Cancel, store, codex, life
<1>2. TypeOK /\ Apart /\ Counted
  BY DEF EInv
<1>3. TypeOK'
  <2>1. asked' \subseteq Calls
    BY <1>2 DEF Cancel, TypeOK
  <2>2. adm' \in [Calls -> Admissions]
    BY CancelMoves
  <2> QED
    BY <1>1, <1>2, <2>1, <2>2 DEF TypeOK, Admissions
<1>4. Counted'
  BY <1>1, <1>2 DEF Counted, Exists
<1>5. Apart'
  <2>1. \A a \in Calls : adm'[a].held = adm[a].held
    BY CancelMoves
  <2> QED
    BY <1>1, <1>2, <2>1 DEF Apart, SessionKey, Exists
<1>6. ASSUME NEW c \in Calls PROVE CallOK(c)'
  <2>1. HandlerOK(c) /\ CaptureOK(c) /\ RequestOK(c) /\ ForeignOK(c) /\ OwnOK(c) /\ pc[c] \in Points
    BY CallFacts DEF CallOK
  <2>2. /\ adm'[c].held = adm[c].held /\ adm'[c].launched = adm[c].launched
        /\ adm'[c].finalizing = adm[c].finalizing
        /\ adm'[c].task # adm[c].task => ~ adm[c].launched
        /\ adm'[c].cancelRequested # adm[c].cancelRequested =>
              adm'[c].cancelRequested /\ ~ adm[c].finalizing
        /\ ~ adm[c].held => adm'[c] = adm[c]
    BY CancelMoves
  <2>3. pc[c] \in {"idle", "capture", "begin"} => adm'[c] = NoAdmission
    BY <2>1, <2>2, NoAdmissionFacts DEF HandlerOK
  <2>4. adm[c].held /\ ~ adm[c].launched => turn[c] = "none"
    <3>1. adm[c].held /\ ~ adm[c].launched => pc[c] \in Handling
      BY <2>1, NoAdmissionFacts DEF HandlerOK, Points
    <3> QED
      BY <2>1, <3>1 DEF HandlerOK, OwnOK
  <2>5. HandlerOK(c)'
    BY <1>1, <2>1, <2>2, <2>3, <2>4 DEF HandlerOK, Exists
  <2>6. CaptureOK(c)'
    BY <1>1, <2>1 DEF CaptureOK, Exists
  <2>7. (Own(c)' <=> Own(c)) /\ (Foreign(c)' <=> Foreign(c)) /\ (adm[c].launched => adm'[c].task = adm[c].task)
    BY <2>2 DEF Own, Foreign
  <2>8. RequestOK(c)' /\ ForeignOK(c)'
    BY <1>1, <2>1, <2>7 DEF RequestOK, ForeignOK, Exists, Foreign
  <2>9. OwnOK(c)'
    <3>1. (Fresh(c)' <=> Fresh(c)) /\ (ThreadOK(c) => ThreadOK(c)')
      BY <1>1 DEF Fresh, ThreadOK
    <3>2. CASE Own(c)
      <4>1. ThreadOK(c) /\ StageOK(c) /\ OverOK(c) /\ (adm[c].finalizing <=> pc[c] \in After \cup Over)
        BY <2>1, <3>2 DEF OwnOK
      <4>2. pc[c] \in After \cup Over => adm'[c].cancelRequested = adm[c].cancelRequested
        BY <2>2, <4>1
      <4>3. StageOK(c)'
        BY <1>1, <2>2, <3>1, <4>1, <4>2 DEF StageOK, After
      <4>4. OverOK(c)'
        BY <1>1, <4>1, <4>2 DEF OverOK, Exists
      <4> QED
        BY <1>1, <2>1, <2>2, <2>7, <3>1, <3>2, <4>1, <4>3, <4>4 DEF OwnOK
    <3>3. CASE ~ Own(c)
      BY <1>1, <2>1, <2>7, <3>1, <3>3 DEF OwnOK
    <3> QED
      BY <3>2, <3>3
  <2> QED
    BY <2>5, <2>6, <2>8, <2>9 DEF CallOK
<1> QED
  BY <1>3, <1>4, <1>5, <1>6 DEF EInv

LEMMA RecoveredFacts ==
    ASSUME NEW r \in Requests
    PROVE  /\ Recovered(r) \in Requests /\ Recovered(r).state \notin Active
           /\ Recovered(r).state = "absent" <=> r.state = "absent"
           /\ Recovered(r).target = r.target /\ Recovered(r).retryOf = r.retryOf
BY DEF Recovered, Requests, Active, Terminal

\* After a restart nothing is under way, and every request is where it was or
\* over.
LEMMA RestartKeeps ==
    ASSUME EInv, Restart
    PROVE  EInv'
<1>1. TypeOK /\ Apart /\ Counted
  BY DEF EInv
<1>2. UNCHANGED <<rejected, bound, made, faults, turns>> /\ service' = "up" /\ asked' = {} /\ restarts' = restarts + 1
  BY DEF Restart
<1>3. ASSUME NEW c \in Calls
      PROVE  /\ req'[c] = Recovered(req[c]) /\ pc'[c] = (IF pc[c] = "done" THEN "done" ELSE "idle")
             /\ adm'[c] = NoAdmission /\ call'[c] = NoCall /\ work'[c] = NoWork /\ out'[c] = "none"
             /\ turn'[c] = (IF turn[c] = "active" THEN "failed" ELSE turn[c])
  BY DEF Restart
<1>4. ASSUME NEW c \in Calls
      PROVE  /\ req'[c] \in Requests /\ req'[c].state \notin Active
             /\ req'[c].state = "absent" <=> req[c].state = "absent"
             /\ req'[c].target = req[c].target /\ req'[c].retryOf = req[c].retryOf
             /\ req[c].retryOf \in Calls \cup {None}
  <2>1. req[c] \in Requests /\ req'[c] = Recovered(req[c])
    BY <1>3, CallFacts
  <2> QED
    BY <2>1, RecoveredFacts DEF Requests
<1>5. TypeOK'
  <2>1. pc' \in [Calls -> Points] /\ out' \in [Calls -> Outs] /\ turn' \in [Calls -> TurnStates]
    BY <1>1 DEF Restart, TypeOK, Points, Outs, TurnStates
  <2>2. adm' \in [Calls -> Admissions]
    BY NoAdmissionFacts DEF Restart
  <2>3. call' \in [Calls -> Captures] /\ work' \in [Calls -> Works]
    BY DEF Restart, NoCall, NoWork, Captures, Works
  <2>4. req' \in [Calls -> Requests]
    BY <1>3, <1>4 DEF Restart
  <2> QED
    BY <1>1, <1>2, <2>1, <2>2, <2>3, <2>4 DEF TypeOK, Points, Outs, TurnStates, Admissions, Captures, Works, Requests
<1>6. Apart'
  <2>1. \A i, j \in Calls : i # j /\ req'[i].state # "absent" /\ req'[j].state # "absent" => Source[i] # Source[j]
    BY <1>1, <1>4 DEF Apart, Exists
  <2>2. \A c \in Calls : req'[c].state \notin Active /\ ~ adm'[c].held
    BY <1>3, <1>4, NoAdmissionFacts
  <2> QED
    BY <2>1, <2>2 DEF Apart, Exists
<1>7. Counted'
  <2>1. \A i \in Calls : (turn[i] # "none" => turn'[i] # "none") /\ (req[i].state # "absent" => req'[i].state # "absent")
    BY <1>3, <1>4
  <2> QED
    BY <1>1, <1>2, <2>1 DEF Counted, Exists
<1>8. ASSUME NEW c \in Calls PROVE CallOK(c)'
  <2>1. HandlerOK(c) /\ RequestOK(c)
    BY CallFacts DEF CallOK
  <2>2. HandlerOK(c)'
    BY <1>3, <1>4, <2>1, NoAdmissionFacts DEF HandlerOK, Exists, Executing, Handling
  <2>3. CaptureOK(c)' /\ ForeignOK(c)' /\ OwnOK(c)'
    BY <1>3, NoAdmissionFacts DEF CaptureOK, ForeignOK, Foreign, OwnOK, Own
  <2>4. RequestOK(c)'
    <3>1. CASE req[c].retryOf = None
      BY <1>4, <2>1, <3>1 DEF RequestOK, Exists
    <3>2. CASE req[c].retryOf # None
      <4>1. PICK o \in Calls : o = req[c].retryOf
        BY <1>4, <3>2
      <4> QED
        BY <1>4, <2>1, <3>2, <4>1 DEF RequestOK, Exists
    <3> QED
      BY <3>1, <3>2
  <2> QED
    BY <2>2, <2>3, <2>4 DEF CallOK
<1> QED
  BY <1>5, <1>6, <1>7, <1>8 DEF EInv

-----------------------------------------------------------------------------
(* The invariant *)

LEMMA ExecutionInit == Init => EInv
<1> SUFFICES ASSUME Init PROVE EInv
  OBVIOUS
<1>1. TypeOK
  BY CallAssumption
     DEF Init, TypeOK, NoCall, NoAdmission, NoWork, NoRequest, Handling, Executing, Active, Terminal
<1>2. Apart /\ Counted
  BY DEF Init, Apart, Counted, NoRequest, NoAdmission, Exists, Active
<1>3. ASSUME NEW c \in Calls PROVE CallOK(c)
  <2>1. pc[c] = "idle" /\ adm[c] = NoAdmission /\ out[c] = "none" /\ req[c] = NoRequest /\ turn[c] = "none"
    BY DEF Init
  <2>2. HandlerOK(c) /\ CaptureOK(c) /\ ForeignOK(c) /\ OwnOK(c)
    BY <2>1, NoAdmissionFacts
       DEF HandlerOK, CaptureOK, ForeignOK, OwnOK, Own, Foreign, Executing, Handling
  <2>3. RequestOK(c)
    BY <2>1 DEF RequestOK, NoRequest, Exists, Active
  <2> QED
    BY <2>2, <2>3 DEF CallOK
<1> QED
  BY <1>1, <1>2, <1>3 DEF EInv

LEMMA HandleEffect ==
    ASSUME EInv, NEW c \in Calls, Handle(c)
    PROVE  Effect(c)
BY CaptureEffect, BeginStops, BeginAdmittedEffect, ActivityEffect, RejectEffect, StartTaskEffect,
   StartRefusedEffect, LaunchEffect, LaunchExistingEffect DEF Handle

LEMMA ExecuteEffect ==
    ASSUME EInv, NEW c \in Calls, Execute(c)
    PROVE  Effect(c)
BY PrepareEffect, PrepareOutboxEffect, StepFailsEffect, BindEffect, AttachThreadEffect, OpenThreadEffect,
   StartTurnEffect, TurnRefusedEffect, TurnEventEffect, InterruptEffect, FinalizeEffect, FinishEffect,
   CompleteEffect, FreezeEffect, BeginDeliveryEffect, DeliverEffect, ExitEffect DEF Execute

LEMMA ExecutionStep == EInv /\ [Next]_vars => EInv'
<1> SUFFICES ASSUME EInv, [Next]_vars PROVE EInv'
  OBVIOUS
<1>1. ASSUME NEW c \in Messages, ReceiveMessage(c) PROVE EInv'
  BY <1>1, ReceiveMessageEffect, InvariantFromEffect DEF Calls
<1>2. ASSUME NEW c \in Retries, NEW o \in Calls, ReceiveRetry(c, o) PROVE EInv'
  BY <1>2, ReceiveRetryEffect, InvariantFromEffect DEF Calls
<1>3. CASE vars' = vars
  <2>1. UNCHANGED <<handler, store, made, turn, faults, restarts, asked, turns, service, bound>>
    BY <1>3 DEF vars, handler, store
  <2> QED
    BY <2>1, QuietStep, Unmoved
<1> QED
  BY <1>1, <1>2, <1>3, HandleEffect, ExecuteEffect, InvariantFromEffect, CancelKeeps, ServiceKeeps, RestartKeeps, TurnEndsKeeps,
     SelectThreadKeeps DEF Next

\* Admission and execution keep their inductive invariant, whatever the calls,
\* the intents and the threads, and however often the process restarts.
THEOREM ExecutionInvariant == Spec => []EInv
<1>1. Init => EInv
  BY ExecutionInit
<1>2. EInv /\ [Next]_vars => EInv'
  BY ExecutionStep
<1> QED
  BY <1>1, <1>2, PTL DEF Spec

\* The coordinator's and the runner's state is what its types say.
THEOREM ExecutionTypes == Spec => []TypeOK
<1>1. EInv => TypeOK
  BY DEF EInv
<1> QED
  BY <1>1, ExecutionInvariant, PTL

\* However often a message or a recovery operation is delivered, cancelled or
\* crashed over, StartTurn runs for it once: it has one request, whose turn is
\* counted when it starts.
THEOREM TurnsOnce == Spec => []OneTurnPerSource
<1>1. EInv => OneTurnPerSource
  BY DEF EInv, Counted, OneTurnPerSource
<1> QED
  BY <1>1, ExecutionInvariant, PTL

\* Two executors never have a turn on one thread: each has the thread of its
\* active request, and AttachThread and Start let no two active requests share
\* one (validateIndex), even when two intents lead to it.
THEOREM ExecutorsApart == Spec => []OneExecutorPerThread
<1>1. EInv => OneExecutorPerThread
  <2> SUFFICES ASSUME EInv, NEW c \in Calls, NEW d \in Calls, c # d, {pc[c], pc[d]} \subseteq {"turn", "collect"}
               PROVE  work[c].thread # work[d].thread
    BY DEF OneExecutorPerThread
  <2>1. ASSUME NEW a \in {c, d}
        PROVE  /\ req[a].state \in Active /\ work[a].thread = req[a].thread
               /\ SessionKey(req[a]) = <<"thread", work[a].thread>>
    <3>1. pc[a] \in {"turn", "collect"} /\ pc[a] \in Executing /\ a \in Calls
      BY DEF Executing
    <3>2. ThreadOK(a) /\ StageOK(a)
      BY <3>1, ExecutingFacts
    <3> QED
      BY <3>1, <3>2 DEF ThreadOK, StageOK, Before, Fresh, Active, SessionKey
  <2> QED
    BY <2>1 DEF EInv, Apart
<1> QED
  BY <1>1, ExecutionInvariant, PTL

LEMMA LaunchedPoints ==
    ASSUME EInv, NEW c \in Calls, Own(c)
    PROVE  /\ pc[c] \in Executing \cup {"done"} /\ StageOK(c) /\ OverOK(c) /\ Exists(c)
           /\ (pc[c] \in Executing => adm[c].held) /\ HandlerOK(c)
<1>1. HandlerOK(c) /\ OwnOK(c)
  BY CallFacts DEF CallOK
<1>2. pc[c] \in Executing \cup {"done"} /\ StageOK(c) /\ OverOK(c) /\ (pc[c] \in Executing => adm[c].held)
  BY <1>1 DEF HandlerOK, OwnOK, Own
<1>3. Exists(c)
  BY <1>2 DEF StageOK, OverOK, Exists, Fresh, Executing, Before, Over
<1> QED
  BY <1>1, <1>2, <1>3

\* Once the reply is in (out is "reply") Complete, Freeze, BeginDelivery,
\* Deliver and Finish, with their failed saves, only lead to success.
THEOREM RepliesKept == Spec => []ReplyIsKept
<1>1. EInv => ReplyIsKept
  <2> SUFFICES ASSUME EInv, NEW c \in Calls, out[c] = "reply", adm[c].task # None
               PROVE  req[adm[c].task].state \in {"running", "delivering", "succeeded"}
    BY DEF ReplyIsKept, Task
  <2>1. HandlerOK(c) /\ ForeignOK(c)
    BY CallFacts DEF CallOK
  <2>2. Own(c) /\ adm[c].task = c
    BY <2>1 DEF HandlerOK, ForeignOK, Own, Foreign
  <2>3. pc[c] \in Executing \cup {"done"} /\ StageOK(c) /\ OverOK(c)
    BY <2>2, LaunchedPoints
  <2> QED
    BY <2>2, <2>3 DEF StageOK, OverOK, Fresh, Executing, Before, Over
<1> QED
  BY <1>1, ExecutionInvariant, PTL

\* A cancellation that Cancel accepted is answered, and truly: the request
\* does not just fail, and one shown as cancelled has stopped.
THEOREM CancelsAnswered == Spec => []CancelIsAnswered
<1>1. EInv => CancelIsAnswered
  <2> SUFFICES ASSUME EInv, NEW c \in Calls, adm[c].task # None
               PROVE  /\ adm[c].cancelRequested /\ adm[c].launched /\ adm[c].task = c /\ out[c] # "oversized" =>
                            ~ (req[adm[c].task].state = "failed" /\ ~ req[adm[c].task].unconfirmed)
                      /\ req[adm[c].task].state = "cancelled" => turn[c] \in {"none", "interrupted"}
    BY DEF CancelIsAnswered, Task
  <2>1. HandlerOK(c) /\ ForeignOK(c)
    BY CallFacts DEF CallOK
  <2>2. CASE Own(c)
    <3>1. adm[c].task = c /\ pc[c] \in Executing \cup {"done"} /\ StageOK(c) /\ OverOK(c)
      BY <2>2, LaunchedPoints DEF Own
    <3>2. CASE pc[c] \in Over
      BY <3>1, <3>2 DEF OverOK
    <3>3. CASE pc[c] \notin Over
      <4>1. req[c].state \in Active
        BY <3>1, <3>3 DEF StageOK, Fresh, Executing, Before, Over, Active
      <4> QED
        BY <3>1, <4>1 DEF Active
    <3> QED
      BY <3>2, <3>3
  <2>3. CASE Foreign(c)
    BY <2>1, <2>3 DEF HandlerOK, ForeignOK, Foreign
  <2>4. CASE ~ adm[c].launched
    BY <2>1, <2>4 DEF HandlerOK
  <2> QED
    BY <2>2, <2>3, <2>4 DEF Own, Foreign
<1> QED
  BY <1>1, ExecutionInvariant, PTL

\* An active request that no admission holds any more was left by a stopping
\* service, a failed save, or a cancel that met an error of its own.
THEOREM NothingAbandoned == Spec => []NoneAbandoned
<1>1. EInv => NoneAbandoned
  <2> SUFFICES ASSUME EInv, NEW i \in Calls, req[i].state \in Active, HeldBy(i) = {}
               PROVE  \/ service = "stopping" \/ faults > 0
                      \/ adm[i].cancelRequested /\ out[i] = "other"
    BY DEF NoneAbandoned
  <2>1. HandlerOK(i) /\ RequestOK(i)
    BY CallFacts DEF CallOK
  <2>2. pc[i] # "launch"
    BY <2>1 DEF HandlerOK, HeldBy, Held, Executing
  <2>3. Own(i)
    BY <2>1, <2>2 DEF RequestOK
  <2>4. pc[i] = "done" /\ OverOK(i)
    BY <2>3, LaunchedPoints DEF Own, HeldBy, Held, Task
  <2> QED
    BY <2>4 DEF OverOK, Over
<1> QED
  BY <1>1, ExecutionInvariant, PTL

-----------------------------------------------------------------------------
(* One intent: no turn over a turn *)

\* With one intent g at most one call is admitted at a time.
Alone == \A a, b \in Calls : adm[a].held /\ adm[b].held => a = b

\* Threads are captured, recorded and worked on as bound to g.
Threaded(g, c) ==
    /\ {call[c].thread, req[c].thread} \subseteq {None, bound[g]}
    /\ pc[c] = "bind" => work[c].unresolved \/ work[c].thread = bound[g]
    /\ pc[c] \in {"attach", "turn", "collect"} \/ turn[c] = "active" =>
          work[c].thread = bound[g] /\ bound[g] # None

\* A call that sessionActivity let pass has no other turn beside it.
Past == {"start", "launch"} \cup Executing
Sole(c) == pc[c] \in Past => \A d \in Calls \ {c} : turn[d] # "active"

Single == \A c, d \in Calls : turn[c] = "active" /\ turn[d] = "active" => c = d

SInv(g) == Alone /\ Single /\ \A c \in Calls : Threaded(g, c) /\ Sole(c) /\ (adm[c].held => call[c].target # None)

\* What a step of call c does to the session.
SessionEffect(g, c) ==
    /\ Others(c) /\ Threaded(g, c)'
    /\ adm'[c].held => \/ adm[c].held /\ call'[c] = call[c]
                       \/ call'[c] = call[c] /\ call[c].target # None /\ OccupiedBy(c) = {}
    /\ bound[g] # None => bound'[g] = bound[g]
    /\ turn'[c] = "active" => turn[c] = "active" \/ (adm[c].held /\ pc[c] \in Past)
    /\ pc'[c] \in Past => pc[c] \in Past \/ \A d \in Calls \ {c} : turn[d] # "active"

LEMMA OneTarget ==
    ASSUME EInv, NEW g, Targets = {g}, NEW c \in Calls
    PROVE  (call[c].target # None => call[c].target = g) /\ (req[c].target # None => req[c].target = g)
BY CallFacts DEF Captures, Requests

LEMMA SessionKept ==
    ASSUME EInv, EInv', NEW g, Targets = {g}, SInv(g), NEW c \in Calls, SessionEffect(g, c)
    PROVE  SInv(g)'
<1>1. \A d \in Calls \ {c} :
         /\ pc'[d] = pc[d] /\ call'[d] = call[d] /\ adm'[d] = adm[d] /\ work'[d] = work[d]
         /\ req'[d] = req[d] /\ turn'[d] = turn[d]
  BY DEF SessionEffect, Others
<1>2. \A d \in Calls : pc[d] \in Past => adm[d].held
  BY CallFacts DEF CallOK, HandlerOK, Past
<1>3. \A d \in Calls : adm[d].held => call[d].target = g
  BY OneTarget DEF SInv
<1>4. Alone'
  <2> SUFFICES ASSUME NEW d \in Calls \ {c}, adm'[d].held, adm'[c].held PROVE FALSE
    BY <1>1 DEF SInv, Alone
  <2>1. adm[d].held /\ call[d].target = g
    BY <1>1, <1>3
  <2>2. CASE adm[c].held
    BY <2>1, <2>2 DEF SInv, Alone
  <2>3. CASE call[c].target # None /\ OccupiedBy(c) = {}
    <3>1. call[c].target = g
      BY <2>3, OneTarget
    <3>2. d \in OccupiedBy(c)
      BY <2>1, <2>3, <3>1 DEF OccupiedBy, Held
    <3> QED
      BY <2>3, <3>2
  <2> QED
    BY <2>2, <2>3 DEF SessionEffect
<1>5. ASSUME NEW d \in Calls PROVE Threaded(g, d)'
  <2>1. CASE d = c
    BY <2>1 DEF SessionEffect
  <2>2. CASE d # c
    <3>1. Threaded(g, d) /\ (bound[g] # None => bound'[g] = bound[g])
      BY DEF SInv, SessionEffect
    <3>2. work[d].unresolved \in BOOLEAN
      BY CallFacts DEF Works
    <3>3. pc[d] = "bind" => work[d].thread # None
      <4>1. pc[d] = "bind" => pc[d] \in Executing
        BY DEF Executing
      <4> QED
        BY <4>1, ExecutingFacts DEF ThreadOK
    <3> QED
      BY <1>1, <2>2, <3>1, <3>2, <3>3 DEF Threaded
  <2> QED
    BY <2>1, <2>2
<1>6. ASSUME NEW d \in Calls, pc'[d] \in Past, NEW e \in Calls \ {d} PROVE turn'[e] # "active"
  <2>1. CASE d = c
    <3>1. turn'[e] = turn[e]
      BY <1>1, <2>1
    <3> QED
      BY <1>6, <2>1, <3>1 DEF SessionEffect, SInv, Sole
  <2>2. CASE d # c
    <3>1. pc[d] \in Past /\ adm[d].held
      BY <1>1, <1>2, <1>6, <2>2
    <3>2. turn[e] # "active"
      BY <3>1 DEF SInv, Sole
    <3>3. CASE e = c
      BY <2>2, <3>1, <3>2, <3>3 DEF SessionEffect, SInv, Alone
    <3>4. CASE e # c
      BY <1>1, <3>2, <3>4
    <3> QED
      BY <3>3, <3>4
  <2> QED
    BY <2>1, <2>2
<1>7. ASSUME NEW d \in Calls PROVE adm'[d].held => call'[d].target # None
  BY <1>1 DEF SInv, SessionEffect
<1>8. Single'
  <2> SUFFICES ASSUME NEW d \in Calls \ {c}, turn'[d] = "active", turn'[c] = "active" PROVE FALSE
    BY <1>1 DEF SInv, Single
  <2>1. turn[d] = "active"
    BY <1>1
  <2> QED
    BY <2>1 DEF SessionEffect, SInv, Single, Sole
<1> QED
  BY <1>4, <1>5, <1>6, <1>7, <1>8 DEF SInv, Sole

\* Most steps leave the session alone.
LEMMA SessionUntouched ==
    ASSUME EInv, NEW g, Targets = {g}, SInv(g), NEW c \in Calls, Others(c), call'[c] = call[c], bound' = bound,
           req'[c].thread = req[c].thread,
           adm'[c].held => adm[c].held,
           turn'[c] = "active" => turn[c] = "active" /\ work'[c] = work[c],
           pc'[c] \notin {"bind", "attach", "turn", "collect"},
           pc'[c] \in Past => pc[c] \in Past
    PROVE  SessionEffect(g, c)
<1>1. Threaded(g, c)
  BY DEF SInv
<1>2. Threaded(g, c)'
  BY <1>1 DEF Threaded
<1> QED
  BY <1>2 DEF SessionEffect

\* Handlers that stop and executors that go on.
LEMMA MovesUntouched ==
    ASSUME EInv, NEW g, Targets = {g}, SInv(g), NEW c \in Calls, Others(c),
           \/ ReceiveMessage(c) \/ BeginRefused(c) \/ BeginBusy(c) \/ Reject(c) \/ StartRefused(c)
           \/ Prepare(c) \/ PrepareOutbox(c) \/ StepFails(c) \/ TurnRefused(c) \/ TurnEvent(c)
           \/ Finalize(c) \/ Freeze(c) \/ Exit(c)
    PROVE  SessionEffect(g, c)
<1>1. UNCHANGED <<call, work, req, bound, turn>>
  BY DEF ReceiveMessage, BeginRefused, BeginBusy, Reject, StartRefused, Prepare, PrepareOutbox, StepFails,
         TurnRefused, TurnEvent, Finalize, Freeze, Exit, store, codex
<1>2. TypeOK /\ adm[c] \in Admissions
  BY CallFacts
<1>3. adm'[c].held => adm[c].held
  BY <1>2 DEF ReceiveMessage, BeginRefused, BeginBusy, Reject, StartRefused, Prepare, PrepareOutbox, StepFails,
         TurnRefused, TurnEvent, Finalize, Freeze, Exit, Leave, TypeOK, Admissions
<1>4. PICK l : Goto(c, l) /\ l \notin {"bind", "attach", "turn", "collect"} /\ (l \in Past => pc[c] \in Past)
  <2>1. CASE ReceiveMessage(c) \/ BeginRefused(c) \/ BeginBusy(c) \/ Reject(c) \/ StartRefused(c)
    BY <2>1 DEF ReceiveMessage, BeginRefused, BeginBusy, Reject, StartRefused, Leave, Past, Executing
  <2>2. CASE Prepare(c) \/ PrepareOutbox(c) \/ StepFails(c) \/ TurnRefused(c) \/ TurnEvent(c) \/ Freeze(c) \/ Exit(c)
    BY <2>2 DEF Prepare, PrepareOutbox, StepFails, TurnRefused, TurnEvent, Freeze, Exit, Leave, Past, Executing
  <2>3. CASE Finalize(c)
    BY <2>3 DEF Finalize, AfterTurn, Past, Executing
  <2> QED
    BY <2>1, <2>2, <2>3
<1>5. pc'[c] = l
  BY <1>2, <1>4 DEF Goto, TypeOK
<1> QED
  BY <1>1, <1>3, <1>4, <1>5, SessionUntouched

\* Steps that record how the request ended keep its thread.
LEMMA RecordsUntouched ==
    ASSUME EInv, NEW g, Targets = {g}, SInv(g), NEW c \in Calls, Others(c),
           Finish(c) \/ Complete(c) \/ BeginDelivery(c) \/ Deliver(c)
    PROVE  SessionEffect(g, c)
<1>1. UNCHANGED <<call, work, adm, bound, turn>> /\ pc[c] \in Past
  BY DEF Finish, Complete, BeginDelivery, Deliver, codex, Past, Executing
<1>2. TypeOK
  BY CallFacts
<1>3. PICK l \in {"exit", "fail", "freeze", "send"} : Goto(c, l)
  BY DEF Finish, Complete, BeginDelivery, Deliver
<1>4. pc'[c] = l
  BY <1>2, <1>3 DEF Goto, TypeOK
<1>5. req'[c].thread = req[c].thread
  <2>1. req \in [Calls -> Requests]
    BY <1>2 DEF TypeOK, Requests
  <2>2. \A r \in Requests : \A next, u : Ended(r, next, u).thread = r.thread
    BY DEF Ended, Requests
  <2>3. CASE req' = req
    BY <2>3
  <2>4. ASSUME NEW i, NEW next, NEW u, req' = [req EXCEPT ![i] = Ended(@, next, u)]
        PROVE  req'[c].thread = req[c].thread
    <3>1. CASE i = c
      <4>1. req'[c] = Ended(req[c], next, u)
        BY <2>1, <2>4, <3>1
      <4> QED
        BY <2>1, <2>2, <4>1
    <3> QED
      BY <2>1, <2>4, <3>1
  <2>5. ASSUME NEW i, NEW s, req' = [req EXCEPT ![i].state = s] PROVE req'[c].thread = req[c].thread
    BY <2>1, <2>5 DEF Requests
  <2>6. CASE Complete(c)
    BY <2>1, <2>6 DEF Complete, Requests
  <2>7. CASE Finish(c)
    BY <2>3, <2>4, <2>7 DEF Finish
  <2>8. CASE BeginDelivery(c) \/ Deliver(c)
    BY <2>3, <2>4, <2>5, <2>8 DEF BeginDelivery, Deliver
  <2> QED
    BY <2>6, <2>7, <2>8
<1> QED
  BY <1>1, <1>3, <1>4, <1>5, SessionUntouched

LEMMA LaunchesUntouched ==
    ASSUME EInv, NEW g, Targets = {g}, SInv(g), NEW c \in Calls, Others(c), Launch(c) \/ LaunchExisting(c)
    PROVE  SessionEffect(g, c)
<1>1. UNCHANGED <<call, req, bound, turn>> /\ pc[c] \in {"launch", "start"} /\ Goto(c, "prepare")
  BY DEF Launch, LaunchExisting, LaunchOn, store, codex
<1>2. TypeOK /\ CallOK(c)
  BY CallFacts
<1>3. turn[c] = "none" /\ adm[c].held
  BY <1>1, <1>2 DEF CallOK, HandlerOK, OwnOK, Handling
<1>4. pc'[c] = "prepare" /\ pc[c] \in Past
  BY <1>1, <1>2 DEF Goto, TypeOK, Past
<1> QED
  BY <1>1, <1>3, <1>4, SessionUntouched

LEMMA InterruptUntouched ==
    ASSUME EInv, NEW g, Targets = {g}, SInv(g), NEW c \in Calls, Others(c), Interrupt(c)
    PROVE  SessionEffect(g, c)
<1>1. UNCHANGED <<call, adm, work, req, bound>> /\ pc[c] = "collect" /\ Goto(c, "finalize")
  BY DEF Interrupt, store
<1>2. TypeOK
  BY CallFacts
<1>3. turn'[c] = "active" => turn[c] = "active"
  BY <1>2 DEF Interrupt, TypeOK
<1>4. pc'[c] = "finalize" /\ pc[c] \in Past
  BY <1>1, <1>2 DEF Goto, TypeOK, Past, Executing
<1> QED
  BY <1>1, <1>3, <1>4, SessionUntouched

\* A call that captures its session captures the intent's thread, or that of
\* the request it retries.
LEMMA CapturesSession ==
    ASSUME EInv, NEW g, Targets = {g}, SInv(g), NEW c \in Calls, Others(c), NEW k \in Captures,
           pc[c] \in {"idle", "capture"}, k.thread \in {None, bound[g]},
           call' = [call EXCEPT ![c] = k], Goto(c, "begin") \/ Goto(c, "done"), UNCHANGED <<adm, work, req, bound, turn>>
    PROVE  SessionEffect(g, c)
<1>1. TypeOK /\ CallOK(c) /\ Threaded(g, c)
  BY CallFacts DEF SInv
<1>2. pc'[c] \in {"begin", "done"} /\ call'[c] = k
  BY <1>1 DEF TypeOK, Goto
<1>3. ~ adm[c].held
  BY <1>1, NoAdmissionFacts DEF CallOK, HandlerOK
<1>4. Threaded(g, c)'
  BY <1>1, <1>2 DEF Threaded
<1> QED
  BY <1>2, <1>3, <1>4 DEF SessionEffect, Past, Executing

LEMMA CaptureSession ==
    ASSUME EInv, NEW g, Targets = {g}, SInv(g), NEW c \in Calls, Others(c), NEW h \in Targets, Capture(c, h)
    PROVE  SessionEffect(g, c)
<1> DEFINE k == [target |-> h, thread |-> bound[h], origin |-> None]
<1>1. k \in Captures /\ k.thread \in {None, bound[g]}
  BY Unmoved DEF Captures
<1> HIDE DEF k
<1>2. /\ call' = [call EXCEPT ![c] = k] /\ Goto(c, "begin") /\ pc[c] = "capture"
      /\ UNCHANGED <<adm, work, req, bound, turn>>
  BY DEF Capture, k, store, codex
<1> QED
  BY <1>1, <1>2, CapturesSession

LEMMA ReceiveRetrySession ==
    ASSUME EInv, NEW g, Targets = {g}, SInv(g), NEW c \in Calls, Others(c), NEW o \in Calls, ReceiveRetry(c, o)
    PROVE  SessionEffect(g, c)
<1> DEFINE k == [target |-> req[o].target, thread |-> req[o].thread, origin |-> o]
<1>1. req[o] \in Requests /\ Threaded(g, o)
  BY CallFacts DEF SInv
<1>2. k \in Captures /\ k.thread \in {None, bound[g]}
  BY <1>1 DEF Captures, Requests, Threaded
<1> HIDE DEF k
<1>3. /\ call' = [call EXCEPT ![c] = k] /\ (Goto(c, "begin") \/ Goto(c, "done")) /\ pc[c] = "idle"
      /\ UNCHANGED <<adm, work, req, bound, turn>>
  BY DEF ReceiveRetry, k, store, codex
<1> QED
  BY <1>2, <1>3, CapturesSession

LEMMA BeginAdmittedSession ==
    ASSUME EInv, NEW g, Targets = {g}, SInv(g), NEW c \in Calls, Others(c), BeginAdmitted(c)
    PROVE  SessionEffect(g, c)
<1>1. /\ pc[c] = "begin" /\ OccupiedBy(c) = {} /\ Goto(c, "activity")
      /\ UNCHANGED <<call, work, req, bound, turn>>
  BY DEF BeginAdmitted, store, codex
<1>2. TypeOK /\ CallOK(c) /\ Threaded(g, c)
  BY CallFacts DEF SInv
<1>3. pc'[c] = "activity" /\ call[c].target # None
  BY <1>1, <1>2 DEF TypeOK, Goto, CallOK, CaptureOK
<1>4. Threaded(g, c)'
  BY <1>1, <1>2, <1>3 DEF Threaded
<1> QED
  BY <1>1, <1>3, <1>4 DEF SessionEffect, Past, Executing

\* sessionActivity passes only if Codex has no turn on the bound thread: that
\* is where every running turn is.
LEMMA ActivitySession ==
    ASSUME EInv, NEW g, Targets = {g}, SInv(g), NEW c \in Calls, Others(c), Activity(c)
    PROVE  SessionEffect(g, c)
<1>1. pc[c] = "activity" /\ UNCHANGED <<call, work, req, bound, turn>>
  BY DEF Activity, store, codex
<1>2. TypeOK /\ CallOK(c) /\ Threaded(g, c) /\ adm[c] \in Admissions
  BY CallFacts DEF SInv
<1>3. call[c].target = g
  BY <1>1, <1>2, OneTarget DEF CallOK, CaptureOK
<1>4. CASE Goto(c, "reject") \/ Goto(c, "done")
  <2>1. pc'[c] \in {"reject", "done"}
    BY <1>2, <1>4 DEF TypeOK, Goto
  <2>2. adm'[c].held => adm[c].held
    BY <1>2 DEF Activity, Leave, TypeOK, Admissions
  <2> QED
    BY <1>1, <2>1, <2>2, SessionUntouched DEF Past, Executing
<1>5. CASE Goto(c, "start") /\ adm' = adm /\ ~ NativeBusy(IF call[c].thread = None THEN bound[g] ELSE call[c].thread)
  <2>1. pc'[c] = "start"
    BY <1>2, <1>5 DEF TypeOK, Goto
  <2>2. Threaded(g, c)'
    BY <1>1, <1>2, <2>1 DEF Threaded
  <2>3. ~ NativeBusy(bound[g])
    BY <1>2, <1>5 DEF Threaded
  <2>4. ASSUME NEW d \in Calls PROVE turn[d] # "active"
    <3>1. Threaded(g, d)
      BY DEF SInv
    <3> QED
      BY <2>3, <3>1 DEF Threaded, NativeBusy
  <2> QED
    BY <1>1, <1>5, <2>2, <2>4 DEF SessionEffect
<1> QED
  BY <1>3, <1>4, <1>5 DEF Activity, Leave

LEMMA StartTaskSession ==
    ASSUME EInv, NEW g, Targets = {g}, SInv(g), NEW c \in Calls, Others(c), StartTask(c)
    PROVE  SessionEffect(g, c)
<1> DEFINE r == IF c \in Retries THEN [NewRequest(c) EXCEPT !.thread = req[call[c].origin].thread]
                ELSE NewRequest(c)
<1>1. pc[c] = "start" /\ UNCHANGED <<call, work, bound, turn>>
  BY DEF StartTask, codex
<1>2. TypeOK /\ CallOK(c) /\ Threaded(g, c) /\ adm[c] \in Admissions /\ adm[c].held /\ pc[c] \in Past
  BY <1>1, CallFacts DEF SInv, CallOK, HandlerOK, Past
<1>3. CASE Leave(c) /\ req' = req
  <2>1. pc'[c] = "done"
    BY <1>2, <1>3 DEF TypeOK, Leave, Goto
  <2> QED
    BY <1>1, <1>2, <1>3, <2>1, SessionUntouched DEF Past, Executing
<1>4. CASE req' = [req EXCEPT ![c] = r] /\ adm' = adm /\ Goto(c, "launch")
  <2>1. r.thread \in {None, bound[g]}
    <3>1. CASE c \in Retries
      <4>1. PICK o \in Calls : o = call[c].origin
        BY <1>1, <1>2, <3>1, CallFacts DEF CallOK, CaptureOK, Captures
      <4>2. Threaded(g, o)
        BY DEF SInv
      <4>3. r.thread = req[o].thread
        BY <3>1, <4>1 DEF NewRequest, NoRequest
      <4> QED
        BY <4>2, <4>3 DEF Threaded
    <3>2. CASE c \notin Retries
      <4>1. r.thread = call[c].thread
        BY <3>2 DEF NewRequest, NoRequest
      <4> QED
        BY <1>2, <4>1 DEF Threaded
    <3> QED
      BY <3>1, <3>2
  <2> HIDE DEF r
  <2>2. pc'[c] = "launch" /\ req'[c] = r
    BY <1>2, <1>4 DEF TypeOK, Goto
  <2>3. Threaded(g, c)'
    BY <1>1, <1>2, <2>1, <2>2 DEF Threaded
  <2> QED
    BY <1>1, <1>2, <1>4, <2>3 DEF SessionEffect
<1> QED
  BY <1>3, <1>4 DEF StartTask

\* The executor opens the bound thread, or a new one if none is bound yet.
LEMMA OpenThreadSession ==
    ASSUME EInv, NEW g, Targets = {g}, SInv(g), NEW c \in Calls, Others(c), NEW t \in Threads, OpenThread(c, t)
    PROVE  SessionEffect(g, c)
<1>1. pc[c] = "open" /\ pc[c] \in Executing /\ UNCHANGED <<call, adm, req, bound, turn>> /\ Goto(c, "bind")
  BY DEF OpenThread, store, Executing
<1>2. TypeOK /\ Threaded(g, c) /\ Own(c) /\ adm[c].task = c /\ RequestOK(c) /\ Exists(c) /\ ThreadOK(c) /\ StageOK(c)
  BY <1>1, ExecutingFacts DEF SInv
<1>3. req[c].target = g /\ work[c].thread = req[c].thread /\ turn[c] = "none"
  BY <1>1, <1>2, OneTarget DEF RequestOK, ThreadOK, StageOK, Before
<1>4. pc'[c] = "bind" /\ work'[c].thread = t /\ work'[c].unresolved = (bound[g] = None)
  BY <1>1, <1>2, <1>3 DEF OpenThread, Task, Goto, TypeOK
<1>5. bound[g] # None => t = bound[g]
  <2>1. work[c].thread \in {None, bound[g]}
    BY <1>2, <1>3 DEF Threaded
  <2> QED
    BY <1>2, <1>3, <2>1 DEF OpenThread, Task
<1>6. Threaded(g, c)'
  BY <1>1, <1>2, <1>3, <1>4, <1>5 DEF Threaded
<1> QED
  BY <1>1, <1>6 DEF SessionEffect, Past

LEMMA BindSession ==
    ASSUME EInv, NEW g, Targets = {g}, SInv(g), NEW c \in Calls, Others(c), Bind(c)
    PROVE  SessionEffect(g, c)
<1>1. pc[c] = "bind" /\ pc[c] \in Executing /\ UNCHANGED <<call, adm, req, work, turn>> /\ Goto(c, "attach")
  BY DEF Bind, store, Executing
<1>2. TypeOK /\ Threaded(g, c) /\ Own(c) /\ adm[c].task = c /\ RequestOK(c) /\ Exists(c) /\ ThreadOK(c) /\ StageOK(c)
  BY <1>1, ExecutingFacts DEF SInv
<1>a. req[c].target = g
  BY <1>2, OneTarget DEF RequestOK
<1>b. work[c].thread # None
  BY <1>1, <1>2 DEF ThreadOK
<1>c. turn[c] = "none"
  BY <1>1, <1>2 DEF StageOK, Before
<1>3. req[c].target = g /\ work[c].thread # None /\ turn[c] = "none"
  BY <1>a, <1>b, <1>c
<1>4. pc'[c] = "attach"
  BY <1>1, <1>2 DEF Goto, TypeOK
<1>5. bound'[g] = work[c].thread /\ (bound[g] # None => bound'[g] = bound[g])
  <2>1. CASE work[c].unresolved
    BY <1>2, <1>3, <2>1 DEF Bind, Task, TypeOK
  <2>2. CASE ~ work[c].unresolved
    BY <1>1, <1>2, <1>3, <2>2 DEF Bind, Task, Threaded
  <2> QED
    BY <2>1, <2>2
<1>6. Threaded(g, c)'
  BY <1>1, <1>2, <1>3, <1>4, <1>5 DEF Threaded
<1> QED
  BY <1>1, <1>5, <1>6 DEF SessionEffect, Past

LEMMA AttachThreadSession ==
    ASSUME EInv, NEW g, Targets = {g}, SInv(g), NEW c \in Calls, Others(c), AttachThread(c)
    PROVE  SessionEffect(g, c)
<1>1. pc[c] = "attach" /\ pc[c] \in Executing /\ UNCHANGED <<call, adm, bound, work, turn>> /\ Goto(c, "turn")
  BY DEF AttachThread, codex, Executing
<1>2. TypeOK /\ Threaded(g, c) /\ adm[c].task = c /\ req[c] \in Requests
  BY <1>1, ExecutingFacts DEF SInv
<1>3. pc'[c] = "turn" /\ work[c].thread = bound[g] /\ bound[g] # None
  BY <1>1, <1>2 DEF Goto, TypeOK, Threaded
<1>4. req'[c].thread \in {req[c].thread, work[c].thread}
  BY <1>2 DEF AttachThread, Task, TypeOK, Requests
<1>5. Threaded(g, c)'
  BY <1>1, <1>2, <1>3, <1>4 DEF Threaded
<1> QED
  BY <1>1, <1>5 DEF SessionEffect, Past

LEMMA StartTurnSession ==
    ASSUME EInv, NEW g, Targets = {g}, SInv(g), NEW c \in Calls, Others(c), StartTurn(c)
    PROVE  SessionEffect(g, c)
<1>1. pc[c] = "turn" /\ pc[c] \in Executing /\ UNCHANGED <<call, adm, req, bound, work>>
  BY DEF StartTurn, store, Executing
<1>2. TypeOK /\ Threaded(g, c) /\ adm[c].held
  BY <1>1, ExecutingFacts DEF SInv
<1>3. pc'[c] \in {"collect", "finalize"} /\ work[c].thread = bound[g] /\ bound[g] # None
  BY <1>1, <1>2 DEF StartTurn, Goto, TypeOK, Threaded
<1>4. Threaded(g, c)'
  BY <1>1, <1>2, <1>3 DEF Threaded
<1> QED
  BY <1>1, <1>2, <1>4 DEF SessionEffect, Past

\* Steps that are no call's.
LEMMA OthersSession ==
    ASSUME EInv, NEW g, Targets = {g}, SInv(g),
           \/ \E i \in Calls : Cancel(i)
           \/ SetDraining \/ Shutdown \/ Restart
           \/ \E c \in Calls, status \in {"completed", "failed", "interrupted"} : TurnEnds(c, status)
           \/ \E h \in Targets, t \in Threads : SelectThread(h, t)
           \/ vars' = vars
    PROVE  SInv(g)'
<1>1. TypeOK /\ bound \in [Targets -> Threads \cup {None}]
  BY Unmoved DEF EInv
<1>2. CASE \E i \in Calls : Cancel(i)
  <2>1. UNCHANGED <<pc, call, work, req, bound, turn>>
    BY <1>2 DEF Cancel, store, codex
  <2>2. \A a \in Calls : adm'[a].held = adm[a].held
    BY <1>2, CancelMoves
  <2> QED
    BY <2>1, <2>2 DEF SInv, Alone, Single, Threaded, Sole
<1>3. CASE SetDraining \/ Shutdown \/ vars' = vars
  <2>1. UNCHANGED <<pc, call, adm, work, req, bound, turn>>
    BY <1>3 DEF SetDraining, Shutdown, vars, handler, store, codex
  <2> QED
    BY <2>1 DEF SInv, Alone, Single, Threaded, Sole
<1>4. CASE Restart
  <2>1. ASSUME NEW c \in Calls
        PROVE  /\ ~ adm'[c].held /\ call'[c].thread = None /\ req'[c].thread = req[c].thread
               /\ pc'[c] \in {"idle", "done"} /\ turn'[c] # "active" /\ bound' = bound
    <3>1. adm'[c] = NoAdmission /\ call'[c] = NoCall /\ req'[c] = Recovered(req[c]) /\ req[c] \in Requests
      BY <1>4, CallFacts DEF Restart
    <3>2. req'[c].thread = req[c].thread
      BY <3>1 DEF Recovered, Requests
    <3> QED
      BY <1>4, <3>1, <3>2, NoAdmissionFacts DEF Restart, NoCall
  <2> QED
    BY <2>1 DEF SInv, Alone, Single, Threaded, Sole, Past, Executing
<1>5. ASSUME NEW c \in Calls, NEW status \in {"completed", "failed", "interrupted"}, TurnEnds(c, status)
      PROVE  SInv(g)'
  <2>1. UNCHANGED <<pc, call, adm, work, req, bound>>
    BY <1>5 DEF TurnEnds, handler, store
  <2>2. \A d \in Calls : turn'[d] = "active" => turn[d] = "active"
    BY <1>1, <1>5 DEF TurnEnds, TypeOK
  <2> QED
    BY <2>1, <2>2 DEF SInv, Alone, Single, Threaded, Sole
<1>6. ASSUME NEW h \in Targets, NEW t \in Threads, SelectThread(h, t) PROVE SInv(g)'
  <2>1. UNCHANGED <<pc, call, adm, work, req, turn>> /\ h = g /\ bound[g] = None
    BY <1>6 DEF SelectThread, handler, store
  <2>2. ASSUME NEW c \in Calls PROVE Threaded(g, c)'
    <3>1. Threaded(g, c) /\ work[c].unresolved \in BOOLEAN
      BY CallFacts DEF SInv, Works
    <3>2. pc[c] = "bind" => work[c].thread # None
      <4>1. pc[c] = "bind" => pc[c] \in Executing
        BY DEF Executing
      <4> QED
        BY <4>1, ExecutingFacts DEF ThreadOK
    <3> QED
      BY <2>1, <3>1, <3>2 DEF Threaded
  <2> QED
    BY <2>1, <2>2 DEF SInv, Alone, Single, Sole
<1> QED
  BY <1>2, <1>3, <1>4, <1>5, <1>6

LEMMA HandleSession ==
    ASSUME EInv, NEW g, Targets = {g}, SInv(g), NEW c \in Calls, Others(c), Handle(c)
    PROVE  SessionEffect(g, c)
BY CaptureSession, MovesUntouched, BeginAdmittedSession, ActivitySession, StartTaskSession, LaunchesUntouched
   DEF Handle

LEMMA ExecuteSession ==
    ASSUME EInv, NEW g, Targets = {g}, SInv(g), NEW c \in Calls, Others(c), Execute(c)
    PROVE  SessionEffect(g, c)
BY MovesUntouched, RecordsUntouched, InterruptUntouched, OpenThreadSession, BindSession, AttachThreadSession,
   StartTurnSession DEF Execute

LEMMA SessionStep ==
    ASSUME EInv, NEW g, Targets = {g}, SInv(g), [Next]_vars
    PROVE  SInv(g)'
<1>1. EInv'
  BY ExecutionStep
<1>2. ASSUME NEW c \in Messages, ReceiveMessage(c) PROVE SInv(g)'
  <2>1. c \in Calls /\ Others(c)
    BY <1>2, ReceiveMessageEffect DEF Calls, Effect
  <2> QED
    BY <1>1, <1>2, <2>1, MovesUntouched, SessionKept
<1>3. ASSUME NEW c \in Retries, NEW o \in Calls, ReceiveRetry(c, o) PROVE SInv(g)'
  <2>1. c \in Calls /\ Others(c)
    BY <1>3, ReceiveRetryEffect DEF Calls, Effect
  <2> QED
    BY <1>1, <1>3, <2>1, ReceiveRetrySession, SessionKept
<1>4. ASSUME NEW c \in Calls, Handle(c) PROVE SInv(g)'
  <2>1. Others(c)
    BY <1>4, HandleEffect DEF Effect
  <2> QED
    BY <1>1, <1>4, <2>1, HandleSession, SessionKept
<1>5. ASSUME NEW c \in Calls, Execute(c) PROVE SInv(g)'
  <2>1. Others(c)
    BY <1>5, ExecuteEffect DEF Effect
  <2> QED
    BY <1>1, <1>5, <2>1, ExecuteSession, SessionKept
<1> QED
  BY <1>2, <1>3, <1>4, <1>5, OthersSession DEF Next

\* With one conversation, however many messages and retries work in it and
\* however often the bridge restarts, StartTurn never starts a turn while
\* another one the bridge started still runs, not even one whose stop Codex
\* never confirmed: sessionActivity asks for the bound thread, and that is
\* where such a turn is.
THEOREM TurnsApart ==
    ASSUME NEW g, Targets = {g}
    PROVE  Spec => []NoTurnOverTurn
<1>1. Init => SInv(g)
  <2> SUFFICES ASSUME Init PROVE SInv(g)
    OBVIOUS
  <2>1. \A c \in Calls : /\ ~ adm[c].held /\ call[c].thread = None /\ req[c].thread = None
                         /\ pc[c] = "idle" /\ turn[c] = "none"
    BY DEF Init, NoAdmission, NoCall, NoRequest
  <2> QED
    BY <2>1 DEF SInv, Alone, Single, Threaded, Sole, Past, Executing
<1>2. EInv /\ SInv(g) /\ [Next]_vars => SInv(g)'
  BY SessionStep
<1>3. EInv /\ SInv(g) => NoTurnOverTurn
  <2> SUFFICES ASSUME EInv, SInv(g), NEW c \in Calls, NEW d \in Calls, c # d,
                      turn[c] = "active", turn[d] = "active"
               PROVE  FALSE
    BY DEF NoTurnOverTurn
  <2> QED
    BY DEF SInv, Single
<1> QED
  BY <1>1, <1>2, <1>3, ExecutionInvariant, PTL DEF Spec

=============================================================================
